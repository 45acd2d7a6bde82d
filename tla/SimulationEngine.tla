--------------------------- MODULE SimulationEngine ---------------------------
(***************************************************************************)
(* SimulationEngine of src/simulation.rs: orders against the snapshots of  *)
(* a market, with synthetic cash and an average entry price per position.  *)
(*                                                                         *)
(* Money and prices are whole numbers of the smallest unit of a Decimal,   *)
(* quantities are in parts of Lot, rates in parts of Whole.  Every product *)
(* and quotient is rounded to the nearest unit, ties to the even one, as   *)
(* the 28 digits of a Decimal end somewhere.  An order by quantity has     *)
(* notional 0, one by notional is sized (requested > 0) at its first       *)
(* attempt; a market order has limit 0.                                    *)
(*                                                                         *)
(* execute and cancel_order are one step each.  on_market_snapshot takes   *)
(* one step for the protective exit and one for each resting order, as it  *)
(* ends early when an order fails.  Validation is left to the constants.   *)
(***************************************************************************)
EXTENDS Integers, Sequences, FiniteSets, Folds

CONSTANTS
    Instruments,
    Requests,     \* the execution requests that pass validation
    Snapshots,    \* the market snapshots that pass validation
    InitialCash,
    InitialHeld,  \* the initial positions: [instrument -> quantity]
    InitialAverage,  \* their average entry prices
    Lot,          \* a quantity of 1
    Whole,        \* a rate of 100 %
    FeeRate,
    Slippage,
    FillRatios,   \* the fill models: Whole is Full, 0 is None
    StopLoss,
    TakeProfit,
    MaxOrders     \* bound: orders placed

ASSUME SimulationAssumption ==
    /\ IsFiniteSet(Instruments)
    /\ Lot \in Nat \ {0}
    /\ Whole \in Nat \ {0}
    /\ FeeRate \in 0..Whole
    /\ Slippage \in 0..(Whole - 1)
    /\ FillRatios \subseteq 0..Whole
    /\ StopLoss \in 1..(Whole - 1)
    /\ TakeProfit \in Nat \ {0}
    /\ InitialCash \in Nat
    /\ InitialHeld \in [Instruments -> Nat]
    /\ InitialAverage \in [Instruments -> Nat]
    /\ \A i \in Instruments : InitialHeld[i] = 0 <=> InitialAverage[i] = 0
    /\ Snapshots \subseteq [instrument : Instruments, bid : Nat \ {0}, ask : Nat \ {0}]
    \* No bid is so small that slippage rounds it to nothing.
    /\ \A s \in Snapshots : s.bid <= s.ask /\ Whole < 2 * (s.bid * (Whole - Slippage))
    /\ Requests \subseteq [instrument : Instruments, action : {"Buy", "Sell"},
                           quantity : Nat, notional : Nat, limit : Nat]
    /\ \A r \in Requests : r.quantity = 0 <=> r.notional > 0

VARIABLES
    account,  \* cash, realized PnL, fees paid, and the positions' quantity and average
    orders,   \* in the order of their ids
    model,    \* the configuration's fill model
    visit     \* on_market_snapshot: the snapshot, the protective exit, the orders to visit

vars == <<account, orders, model, visit>>

Accounts ==
    [cash : Nat, realized : Int, fees : Nat, held : [Instruments -> Nat],
     average : [Instruments -> Nat]]

Statuses == {"Pending", "PartiallyFilled", "Filled", "Cancelled"}

Orders ==
    [instrument : Instruments, action : {"Buy", "Sell"}, notional : Nat, limit : Nat,
     status : Statuses, requested : Nat, filled : Nat, remaining : Nat, traded : Nat]

NoVisit == [active |-> FALSE]

Visits ==
    [active : {TRUE}, market : Snapshots, exited : BOOLEAN, todo : SUBSET Nat] \cup {NoVisit}

TypeOK ==
    /\ account \in Accounts
    /\ orders \in Seq(Orders)
    /\ model \in FillRatios
    /\ visit \in Visits

Init ==
    /\ account = [cash |-> InitialCash, realized |-> 0, fees |-> 0, held |-> InitialHeld,
                  average |-> InitialAverage]
    /\ orders = <<>>
    /\ model \in FillRatios
    /\ visit = NoVisit
--------------------------------------------------------------------------------
(* One fill *)

Open(order) == order.status \in {"Pending", "PartiallyFilled"}

Nearest(dividend, divisor) ==
    LET down == dividend \div divisor
        rest == dividend % divisor
    IN  IF 2 * rest > divisor \/ (2 * rest = divisor /\ down % 2 = 1) THEN down + 1 ELSE down

\* What a quantity is worth at a price.
Worth(quantity, price) == Nearest(quantity * price, Lot)

Fee(gross) == Nearest(gross * FeeRate, Whole)

Reference(action, market) == IF action = "Buy" THEN market.ask ELSE market.bid

\* The price after adverse slippage.
Price(action, market) ==
    Nearest(Reference(action, market)
                * (IF action = "Buy" THEN Whole + Slippage ELSE Whole - Slippage), Whole)

\* Mutant: the limit is compared with the price before slippage.
LimitIsFillable_Reference(order, market) ==
    \/ order.limit = 0
    \/ order.action = "Buy" /\ Reference("Buy", market) <= order.limit
    \/ order.action = "Sell" /\ Reference("Sell", market) >= order.limit

LimitIsFillable(order, market) ==
    \/ order.limit = 0
    \/ order.action = "Buy" /\ Price("Buy", market) <= order.limit
    \/ order.action = "Sell" /\ Price("Sell", market) >= order.limit

\* Mutant: the fee is not counted.
EnsureFullFillPossible_FeeIgnored(a, order, quantity, price) ==
    IF order.action = "Buy" THEN Worth(quantity, price) <= a.cash
    ELSE quantity <= a.held[order.instrument]

\* The whole remainder must be affordable, even if only a part fills now.
EnsureFullFillPossible(a, order, quantity, price) ==
    IF order.action = "Buy"
    THEN Worth(quantity, price) + Fee(Worth(quantity, price)) <= a.cash
    ELSE quantity <= a.held[order.instrument]

\* cost_basis
Basis(a, i) == Worth(a.held[i], a.average[i])

\* The account after a fill that leaves the instrument at this average.
Traded(a, order, quantity, price, average, realized) ==
    LET i == order.instrument
        gross == Worth(quantity, price)
        fee == Fee(gross)
    IN  [cash |-> IF order.action = "Buy" THEN a.cash - (gross + fee) ELSE a.cash + (gross - fee),
         realized |-> a.realized + realized,
         fees |-> a.fees + fee,
         held |-> [a.held EXCEPT ![i] = IF order.action = "Buy" THEN @ + quantity ELSE @ - quantity],
         average |-> [a.average EXCEPT ![i] = average]]

\* Mutant: the entry fee is not part of the average price.
ApplyFill_FeeNotInCost(a, order, quantity, price) ==
    LET i == order.instrument
        gross == Worth(quantity, price)
    IN  IF order.action = "Buy"
        THEN Traded(a, order, quantity, price,
                    Nearest((Basis(a, i) + gross) * Lot, a.held[i] + quantity), 0)
        ELSE Traded(a, order, quantity, price, IF a.held[i] = quantity THEN 0 ELSE a.average[i],
                    gross - Fee(gross) - Worth(quantity, a.average[i]))

\* A BUY divides what the position cost, this fill with its fee included, by
\* what is then held; a SELL multiplies the average back to realize the rest.
ApplyFill(a, order, quantity, price) ==
    LET i == order.instrument
        gross == Worth(quantity, price)
        fee == Fee(gross)
    IN  IF order.action = "Buy"
        THEN Traded(a, order, quantity, price,
                    Nearest((Basis(a, i) + (gross + fee)) * Lot, a.held[i] + quantity), 0)
        ELSE Traded(a, order, quantity, price, IF a.held[i] = quantity THEN 0 ELSE a.average[i],
                    gross - fee - Worth(quantity, a.average[i]))

\* An order by notional gets its quantity from the first price it meets, and
\* keeps it, even when it does not fill there.
Sized(order, price) ==
    IF order.requested > 0 THEN order
    ELSE [order EXCEPT !.requested = Nearest(order.notional * Lot, price),
                       !.remaining = Nearest(order.notional * Lot, price)]

Outcome(ok, a, order) == [ok |-> ok, account |-> a, order |-> order]

\* Mutant: every fill ends its order.
Filled_WholeRemainder(order, quantity, price) ==
    [order EXCEPT !.filled = @ + quantity, !.traded = @ + quantity * price, !.status = "Filled"]

Filled(order, quantity, price) ==
    [order EXCEPT !.filled = @ + quantity, !.remaining = @ - quantity,
                  !.traded = @ + quantity * price,
                  !.status = IF order.remaining = quantity THEN "Filled" ELSE "PartiallyFilled"]

\* fill_order: an error leaves the account alone, but the order is sized.
FillOrder(a, order, market, ratio) ==
    LET price == Price(order.action, market)
        sized == Sized(order, price)
        quantity == Nearest(sized.remaining * ratio, Whole)
    IN  IF sized.remaining = 0 THEN Outcome(TRUE, a, [sized EXCEPT !.status = "Filled"])
        ELSE IF ~EnsureFullFillPossible(a, order, sized.remaining, price)
        THEN Outcome(FALSE, a, sized)
        ELSE IF ratio = 0 THEN Outcome(TRUE, a, sized)
        ELSE IF quantity = 0 THEN Outcome(FALSE, a, sized)
        ELSE Outcome(TRUE, ApplyFill(a, order, quantity, price), Filled(sized, quantity, price))
--------------------------------------------------------------------------------
(* execute and cancel_order *)

NewOrder(r) ==
    [instrument |-> r.instrument, action |-> r.action, notional |-> r.notional,
     limit |-> r.limit, status |-> "Pending", requested |-> r.quantity, filled |-> 0,
     remaining |-> r.quantity, traded |-> 0]

\* A request that fails leaves no order behind.
Execute(r, market) ==
    /\ ~visit.active
    /\ r.instrument = market.instrument
    /\ Len(orders) < MaxOrders
    /\ LET result == IF LimitIsFillable(NewOrder(r), market)
                     THEN FillOrder(account, NewOrder(r), market, model)
                     ELSE Outcome(TRUE, account, NewOrder(r))
       IN  /\ result.ok
           /\ account' = result.account
           /\ orders' = Append(orders, result.order)
    /\ UNCHANGED <<model, visit>>

CancelOrder(n) ==
    /\ ~visit.active
    /\ Open(orders[n])
    /\ orders' = [orders EXCEPT ![n].status = "Cancelled"]
    /\ UNCHANGED <<account, model, visit>>
--------------------------------------------------------------------------------
(* on_market_snapshot *)

\* The bid is at or beyond the stop or the target of the average entry price.
ProtectiveReason(market) ==
    LET i == market.instrument
    IN  /\ account.held[i] > 0
        /\ \/ market.bid <= Nearest(account.average[i] * (Whole - StopLoss), Whole)
           \/ market.bid >= Nearest(account.average[i] * (Whole + TakeProfit), Whole)

Resting(all, i) ==
    {n \in 1..Len(all) : all[n].instrument = i /\ Open(all[n]) /\ all[n].limit > 0}

\* Mutant: the exit leaves the resting orders of the instrument.
Withdrawn_None(i) == orders

\* The orders after a protective exit has cancelled those that rest.
Withdrawn(i) ==
    [n \in 1..Len(orders) |->
        IF n \in Resting(orders, i) THEN [orders[n] EXCEPT !.status = "Cancelled"] ELSE orders[n]]

ExitOrder(i) ==
    NewOrder([instrument |-> i, action |-> "Sell", quantity |-> account.held[i], notional |-> 0,
              limit |-> 0])

\* Mutant: the exit order is not kept.
OnMarketSnapshot_ExitUnrecorded(market) ==
    LET i == market.instrument
        exit == FillOrder(account, ExitOrder(i), market, Whole)
    IN  /\ ~visit.active
        /\ IF ProtectiveReason(market)
           THEN account' = exit.account /\ orders' = Withdrawn(i)
           ELSE UNCHANGED <<account, orders>>
        /\ visit' = [active |-> TRUE, market |-> market, exited |-> ProtectiveReason(market),
                     todo |-> Resting(orders', i)]
        /\ UNCHANGED model

\* The whole position is sold at the bid, whatever the fill model.
OnMarketSnapshot(market) ==
    LET i == market.instrument
        exit == FillOrder(account, ExitOrder(i), market, Whole)
    IN  /\ ~visit.active
        /\ IF ProtectiveReason(market)
           THEN /\ account' = exit.account
                /\ orders' = Append(Withdrawn(i), exit.order)
           ELSE UNCHANGED <<account, orders>>
        /\ visit' = [active |-> TRUE, market |-> market, exited |-> ProtectiveReason(market),
                     todo |-> Resting(orders', i)]
        /\ UNCHANGED model

\* The order with the least id is tried; its failure ends the call.
VisitOrder ==
    /\ visit.active
    /\ \E n \in visit.todo :
          /\ \A m \in visit.todo : n <= m
          /\ IF LimitIsFillable(orders[n], visit.market)
             THEN LET result == FillOrder(account, orders[n], visit.market, model)
                  IN  /\ account' = result.account
                      /\ orders' = [orders EXCEPT ![n] = result.order]
                      /\ visit' = IF result.ok THEN [visit EXCEPT !.todo = @ \ {n}] ELSE NoVisit
             ELSE /\ visit' = [visit EXCEPT !.todo = @ \ {n}]
                  /\ UNCHANGED <<account, orders>>
    /\ UNCHANGED model

VisitEnds ==
    /\ visit.active
    /\ visit.todo = {}
    /\ visit' = NoVisit
    /\ UNCHANGED <<account, orders, model>>
--------------------------------------------------------------------------------
Next ==
    \/ \E r \in Requests, market \in Snapshots : Execute(r, market)
    \/ \E n \in 1..Len(orders) : CancelOrder(n)
    \/ \E market \in Snapshots : OnMarketSnapshot(market)
    \/ VisitOrder
    \/ VisitEnds

Spec == Init /\ [][Next]_vars
--------------------------------------------------------------------------------
Total(f, S) == MapThenFoldSet(+, 0, LAMBDA x : f[x], LAMBDA T : CHOOSE x \in T : TRUE, S)

\* What was put in and what was earned with it, as cash or as what the positions cost.
Money(a) ==
    a.cash + Total([i \in Instruments |-> Basis(a, i)], Instruments) - a.realized

RoundingApart(a, b) ==
    LET drift == Money(b) - Money(a)
    IN  \/ drift = 0
        \/ \E i \in Instruments :
              \/ /\ b.held[i] > a.held[i]
                 /\ 2 * (Lot * drift) \in -(b.held[i] + Lot)..(b.held[i] + Lot)
              \/ /\ b.held[i] < a.held[i] /\ b.held[i] > 0
                 /\ drift \in -1..1

\* Only rounding makes or loses money, and only so much: a purchase at most half
\* a unit of price for what is then held and half a unit of money, as the average
\* is divided and multiplied back; a sale of a part at most one unit; a sale of
\* all, a failure, a cancellation and whatever else nothing (apply_fill).
OnlyRoundingMovesMoney == [][RoundingApart(account, account')]_vars

\* The positions are what the orders on record bought and sold: no failure or
\* early return leaves a fill without its order, or an order without its fill.
InventoryIsExplained ==
    \A i \in Instruments :
        LET bought == [n \in 1..Len(orders) |->
                          IF orders[n].instrument # i THEN 0
                          ELSE IF orders[n].action = "Buy" THEN orders[n].filled
                          ELSE - orders[n].filled]
        IN  account.held[i] = InitialHeld[i] + Total(bought, 1..Len(orders))

\* What fills and what remains add up through any number of partial fills, and an
\* order is Filled exactly when it has been sized and nothing remains.
OrdersAddUp ==
    \A n \in 1..Len(orders) :
        LET order == orders[n]
        IN  /\ order.filled + order.remaining = order.requested
            /\ order.status = "Filled" => order.remaining = 0
            /\ order.requested > 0 /\ order.remaining = 0 => order.status = "Filled"
            /\ order.filled > 0 => order.status # "Pending"

\* No fill, at slipped prices or in parts, is beyond the order's limit.
LimitsAreKept ==
    \A n \in 1..Len(orders) :
        orders[n].limit > 0 =>
            IF orders[n].action = "Buy" THEN orders[n].traded <= orders[n].limit * orders[n].filled
            ELSE orders[n].traded >= orders[n].limit * orders[n].filled

\* A snapshot that forces an exit leaves no position and no resting order in
\* the instrument: nothing buys back in while the snapshot is worked through.
ExitsAreFinal ==
    visit.active /\ visit.exited =>
        /\ account.held[visit.market.instrument] = 0
        /\ Resting(orders, visit.market.instrument) = {}

\* A filled or cancelled order never changes again (cancel_order,
\* on_market_snapshot).
FinalOrdersStay ==
    [][\A n \in 1..Len(orders) : Open(orders[n]) \/ orders'[n] = orders[n]]_vars
================================================================================
