------------------------------ MODULE RiskEngine ------------------------------
(***************************************************************************)
(* RiskEngine::evaluate of src/risk.rs, as a function of a decision and a  *)
(* snapshot.  Money and quantities are whole units of one price; a         *)
(* reduction is given in parts of Whole; the age of a decision and the     *)
(* session's loss and drawdown are represented by whether they are beyond  *)
(* their limits.                                                           *)
(*                                                                         *)
(* A decision is a record [action, instrument, valid, stale, notional,     *)
(* reduction]; a snapshot is a record [held, available, live, safety,      *)
(* unresolved, protective, qualified, lossReached, drawdownReached].       *)
(***************************************************************************)
EXTENDS Integers, FiniteSets

CONSTANTS
    Instruments,
    MaxOpenPositions,
    MaxTradeNotional,     \* the cap on live trades
    MinimumCashReserve,
    Whole                 \* a reduction of 100 %

ASSUME RiskConfigAssumption ==
    /\ MaxOpenPositions \in Nat
    /\ MaxTradeNotional \in Nat
    /\ MinimumCashReserve \in Nat
    /\ Whole \in Nat \ {0}

When(condition, reason) == IF condition THEN {reason} ELSE {}

IsOpen(s, i) == s.held[i] > 0

\* A full exit asked for by the protective rules.
Protective(d, s) == s.protective /\ d.action = "Sell" /\ d.reduction = Whole

\* Mutant: protective exits go stale like any other decision.
Stale_ProtectiveToo(d, s) == d.stale

Stale(d, s) == d.stale /\ ~Protective(d, s)

SellQuantity(d, s) == (s.held[d.instrument] * d.reduction) \div Whole

SellReasons(d, s) ==
    When(Stale(d, s), "DecisionStale")
        \cup When(\/ ~IsOpen(s, d.instrument)
                  \/ SellQuantity(d, s) <= 0
                  \/ SellQuantity(d, s) > s.held[d.instrument], "InsufficientInventory")

\* Mutant: the reserve is not set aside.
Available_ReserveIncluded(s) == s.available

Available(s) == s.available - MinimumCashReserve

BuyReasons(d, s) ==
    LET add == IsOpen(s, d.instrument)
        short == Available(s) < d.notional
        partly == s.live /\ Available(s) > 0
        capped == s.live /\ d.notional > MaxTradeNotional
    IN  When(Stale(d, s), "DecisionStale")
            \cup When(s.lossReached, "SessionLossExceeded")
            \cup When(s.drawdownReached, "SessionDrawdownExceeded")
            \cup When(add /\ ~s.qualified, "AddWithoutNewEvidence")
            \cup When(s.safety = "Killed", "TradingKilled")
            \cup When(s.safety = "Safe", "TradingSafeMode")
            \cup When(d.instrument \in s.unresolved, "ExecutionStateUnknown")
            \cup When(~add /\ Cardinality({i \in Instruments : IsOpen(s, i)}) >= MaxOpenPositions,
                      "PositionLimitReached")
            \cup When(short /\ ~partly, "InsufficientFunds")
            \cup When((short /\ partly) \/ capped, "ConstraintApplied")
            \cup When(capped, "LiveExposureExceeded")

Least(a, b) == IF a <= b THEN a ELSE b

\* Mutant: a live trade is not cut down to the cash there is.
ApprovedNotional_CashIgnored(d, s) ==
    IF s.live THEN Least(d.notional, MaxTradeNotional) ELSE d.notional

\* What is left of a BUY under the two constraints on live trades.
ApprovedNotional(d, s) ==
    LET capped == IF s.live THEN Least(d.notional, MaxTradeNotional) ELSE d.notional
    IN  IF s.live /\ Available(s) > 0 THEN Least(capped, Available(s)) ELSE capped

OnlyConstraints(d, s) ==
    BuyReasons(d, s)
        \subseteq IF s.live THEN {"ConstraintApplied", "LiveExposureExceeded"} ELSE {}

BuyAllowed(d, s) == OnlyConstraints(d, s) /\ ApprovedNotional(d, s) > 0

Decided(outcome, reasons, size) == [outcome |-> outcome, reasons |-> reasons, size |-> size]

Evaluate(d, s) ==
    IF ~d.valid THEN Decided("Rejected", {"InvalidOrderIntent"}, 0)
    ELSE IF d.action = "Hold" THEN Decided("NoAction", {}, 0)
    ELSE IF d.action = "Sell" THEN
        IF SellReasons(d, s) = {} THEN Decided("Approved", {}, SellQuantity(d, s))
        ELSE Decided("Rejected", SellReasons(d, s), 0)
    ELSE IF BuyAllowed(d, s) THEN
        Decided(IF ApprovedNotional(d, s) < d.notional
                THEN "ApprovedWithConstraints" ELSE "Approved",
                BuyReasons(d, s), ApprovedNotional(d, s))
    ELSE Decided("Rejected",
                 BuyReasons(d, s) \cup When(OnlyConstraints(d, s), "InsufficientFunds"), 0)

IsApproved(risk) == risk.outcome \in {"Approved", "ApprovedWithConstraints"}
================================================================================
