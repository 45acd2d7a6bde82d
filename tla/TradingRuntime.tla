---------------------------- MODULE TradingRuntime ----------------------------
(***************************************************************************)
(* RuntimeCoordinator of src/runtime.rs: one decision at a time goes       *)
(* through the risk engine, the execution policy and the execution engine, *)
(* while the operator may pull the kill switch and the exchange fills what *)
(* rests there.  process_with_projection also records every stage; process *)
(* is the same call without the recording.                                 *)
(*                                                                         *)
(* The execution engine is represented by what the coordinator sees of it: *)
(* the receipts and the gate on new risk (module ExecutionEngine has the   *)
(* rest).  Order types make no difference here: every order may rest.      *)
(*                                                                         *)
(* Environment: the caller, who observes the account before each call and  *)
(* reconciles between calls; the exchange, where every price is one and    *)
(* which could refuse what it is asked for, but need not; the gateway,     *)
(* which may be down; and storage, which may refuse a write.               *)
(***************************************************************************)
EXTENDS RiskEngine, Sequences

CONSTANTS
    Decisions,     \* the decisions the agent may propose
    Contexts,      \* what the caller may add to a snapshot: its mode and flags
    GatewayLive,   \* the gateway's operating mode is Live
    InitialCash,
    MaxOrders      \* bound: orders ever placed

ASSUME RuntimeAssumption ==
    /\ Decisions # {}
    /\ Contexts # {}
    /\ \A d \in Decisions :
          /\ d.action \in {"Buy", "Sell", "Hold"}
          /\ d.instrument \in Instruments
          /\ d.notional \in Nat
          /\ d.reduction \in 0..Whole
    /\ Contexts \subseteq [live : BOOLEAN, protective : BOOLEAN, qualified : BOOLEAN,
                            lossReached : BOOLEAN, drawdownReached : BOOLEAN]
    /\ GatewayLive \in BOOLEAN
    /\ InitialCash \in Nat
    /\ InitialCash >= MinimumCashReserve
    /\ MaxOrders \in Nat

VARIABLES
    safety,     \* the SafetyStateStore
    stage,      \* where the coordinator is in its call
    decision,   \* the call's decision
    snapshot,   \* the account as the call's caller saw it
    risk,       \* the risk decision, or NotEvaluated
    trail,      \* what the projector has recorded of the call
    orders,     \* the engine's records, in the order they were placed
    complete,   \* the engine's reconciliation_complete
    free,       \* exchange: cash not tied up in orders
    held,       \* exchange: the quantity of each instrument
    killedCall  \* history: the store said Killed when the call began

call == <<decision, snapshot, risk, trail, killedCall>>
account == <<free, held>>
vars == <<safety, stage, call, orders, complete, account>>

SafetyStates == {"Normal", "Safe", "Killed"}
Stages == {"idle", "observed", "evaluated", "approved", "planned", "placed"}

NotEvaluated == Decided("None", {}, 0)

InDoubt(order) == order.action = "Buy" /\ order.state = "Unknown"

UnresolvedBuys == {orders[n].instrument : n \in {m \in 1..Len(orders) : InDoubt(orders[m])}}

CanAcceptNewRisk == complete /\ UnresolvedBuys = {}

Orders ==
    [action : {"Buy", "Sell"}, instrument : Instruments, size : Nat,
     state : {"Acknowledged", "Rejected", "Unknown"}, fate : {"Resting", "Filled", "None"},
     trail : SUBSET {"projected", "risk", "plan", "receipt"}, killed : BOOLEAN]

TypeOK ==
    /\ safety \in SafetyStates
    /\ stage \in Stages
    /\ decision \in Decisions
    /\ DOMAIN snapshot.held = Instruments
    /\ snapshot.available \in Nat
    /\ risk.outcome \in {"None", "NoAction", "Approved", "ApprovedWithConstraints", "Rejected"}
    /\ risk.size \in Nat
    /\ trail \subseteq {"projected", "risk", "plan"}
    /\ orders \in Seq(Orders)
    /\ complete \in BOOLEAN
    /\ free \in Nat
    /\ held \in [Instruments -> Nat]
    /\ killedCall \in BOOLEAN

\* The caller builds a snapshot of the account as it is: the risk engine gets
\* the mode, the safety state and the flags along with it.
Observed(context) ==
    [held |-> held, available |-> free, safety |-> safety, unresolved |-> UnresolvedBuys,
     live |-> context.live, protective |-> context.protective,
     qualified |-> context.qualified, lossReached |-> context.lossReached,
     drawdownReached |-> context.drawdownReached]

Init ==
    /\ safety \in {"Normal", "Safe"}
    /\ stage = "idle"
    /\ decision = CHOOSE d \in Decisions : TRUE
    /\ orders = <<>>
    /\ complete = TRUE
    /\ free = InitialCash
    /\ held = [i \in Instruments |-> 0]
    /\ snapshot = Observed(CHOOSE context \in Contexts : TRUE)
    /\ risk = NotEvaluated
    /\ trail = {}
    /\ killedCall = FALSE
--------------------------------------------------------------------------------
(* The call *)

Observe(d) ==
    /\ stage = "idle"
    /\ Len(orders) < MaxOrders
    /\ decision' = d
    /\ \E context \in Contexts : snapshot' = Observed(context)
    /\ risk' = NotEvaluated
    /\ trail' = {}
    /\ killedCall' = FALSE
    /\ stage' = "observed"
    /\ UNCHANGED <<safety, orders, complete, account>>

\* Mutant: the safety state of the snapshot is used as it came.
CurrentSnapshot_AsObserved == snapshot

\* The safety state is read once, here, when the call begins.
CurrentSnapshot == [snapshot EXCEPT !.safety = safety]

\* policy.plan refuses an urgent order over too wide a spread, or a BUY above
\* the price the decision accepts.
PlanRefused(quote) ==
    decision.urgent /\ (quote = "wide" \/ (quote = "above" /\ decision.action = "Buy"))

\* process: what is approved and planned goes on to the execution engine.
Process(quote) ==
    /\ stage = "observed"
    /\ snapshot' = CurrentSnapshot
    /\ risk' = Evaluate(decision, snapshot')
    /\ killedCall' = (safety = "Killed")
    /\ stage' = IF IsApproved(risk') /\ ~PlanRefused(quote) THEN "planned" ELSE "idle"
    /\ UNCHANGED <<safety, decision, trail, orders, complete, account>>

\* process_with_projection begins likewise, and records its risk decision ...
ProcessWithProjection ==
    /\ stage = "observed"
    /\ snapshot' = CurrentSnapshot
    /\ risk' = Evaluate(decision, snapshot')
    /\ killedCall' = (safety = "Killed")
    /\ trail' = {"projected"}
    /\ stage' = "evaluated"
    /\ UNCHANGED <<safety, decision, orders, complete, account>>

RecordRisk(quote) ==
    /\ stage = "evaluated"
    /\ trail' = trail \cup {"risk"}
    /\ stage' = IF IsApproved(risk) /\ ~PlanRefused(quote) THEN "approved" ELSE "idle"
    /\ UNCHANGED <<safety, decision, snapshot, risk, killedCall, orders, complete, account>>

\* ... and its plan, before the order is placed.
RecordPlan ==
    /\ stage = "approved"
    /\ trail' = trail \cup {"plan"}
    /\ stage' = "planned"
    /\ UNCHANGED <<safety, decision, snapshot, risk, killedCall, orders, complete, account>>

\* Mutant: an order goes out although its plan could not be recorded.
RecordFails_PlanIgnored ==
    /\ stage \in {"evaluated", "approved", "placed"}
    /\ stage' = IF stage = "approved" THEN "planned" ELSE "idle"
    /\ UNCHANGED <<safety, call, orders, complete, account>>

\* A record that storage refuses ends the call with an error.
RecordFails ==
    /\ stage \in {"evaluated", "approved", "placed"}
    /\ stage' = "idle"
    /\ UNCHANGED <<safety, call, orders, complete, account>>

\* execute returns an error: new risk while the engine reconciles, the wrong
\* environment, or a BUY of the instrument in doubt.
ExecuteRefused ==
    /\ stage = "planned"
    /\ \/ decision.action = "Buy" /\ ~CanAcceptNewRisk
       \/ snapshot.live # GatewayLive
       \/ decision.instrument \in UnresolvedBuys
    /\ stage' = "idle"
    /\ UNCHANGED <<safety, call, orders, complete, account>>

ExecuteUnavailable ==
    /\ stage = "planned"
    /\ decision.action = "Buy" => CanAcceptNewRisk
    /\ snapshot.live = GatewayLive
    /\ complete' = FALSE
    /\ stage' = "idle"
    /\ UNCHANGED <<safety, call, orders, account>>

\* place, and what the exchange made of it: an answer that got lost leaves the
\* receipt Unknown whether or not the order arrived.
Execute(state, fate) ==
    /\ stage = "planned"
    /\ decision.action = "Buy" => CanAcceptNewRisk
    /\ snapshot.live = GatewayLive
    /\ decision.instrument \notin UnresolvedBuys
    /\ orders' = Append(orders, [action |-> decision.action, instrument |-> decision.instrument,
                                 size |-> risk.size, state |-> state, fate |-> fate,
                                 trail |-> trail, killed |-> killedCall])
    /\ complete' = (complete /\ state # "Unknown")
    /\ free' = IF decision.action = "Buy" /\ fate = "Resting" THEN free - risk.size ELSE free
    /\ stage' = IF "projected" \in trail THEN "placed" ELSE "idle"
    /\ UNCHANGED <<safety, call, held>>

RecordReceipt ==
    /\ stage = "placed"
    /\ orders' = [orders EXCEPT ![Len(orders)].trail = @ \cup {"receipt"}]
    /\ stage' = "idle"
    /\ UNCHANGED <<safety, call, complete, account>>
--------------------------------------------------------------------------------
(* The operator, the exchange and the caller *)

\* kill_switch sets the store before it does anything else.
Kill ==
    /\ safety # "Killed"
    /\ safety' = "Killed"
    /\ UNCHANGED <<stage, call, orders, complete, account>>

Fill(n) ==
    /\ orders[n].fate = "Resting"
    /\ orders' = [orders EXCEPT ![n].fate = "Filled"]
    /\ IF orders[n].action = "Buy"
       THEN /\ held' = [held EXCEPT ![orders[n].instrument] = @ + orders[n].size]
            /\ UNCHANGED free
       ELSE /\ orders[n].size <= held[orders[n].instrument]
            /\ held' = [held EXCEPT ![orders[n].instrument] = @ - orders[n].size]
            /\ free' = free + orders[n].size
    /\ UNCHANGED <<safety, stage, call, complete>>

\* execution_mut().reconcile(): the exchange answers for the order.
Reconcile(n) ==
    /\ stage = "idle"
    /\ orders[n].state # "Rejected"
    /\ orders' = [orders EXCEPT ![n].state =
                     IF orders[n].fate = "None" THEN "Rejected" ELSE "Acknowledged"]
    /\ complete' = ~\E m \in 1..Len(orders) : InDoubt(orders'[m])
    /\ UNCHANGED <<safety, stage, call, account>>
--------------------------------------------------------------------------------
Quotes == {"good", "wide", "above"}

Next ==
    \/ \E d \in Decisions : Observe(d)
    \/ \E quote \in Quotes : Process(quote) \/ RecordRisk(quote)
    \/ ProcessWithProjection
    \/ RecordPlan
    \/ RecordFails
    \/ ExecuteRefused
    \/ ExecuteUnavailable
    \/ Execute("Acknowledged", "Resting")
    \/ Execute("Rejected", "None")
    \/ \E fate \in {"Resting", "None"} : Execute("Unknown", fate)
    \/ RecordReceipt
    \/ Kill
    \/ \E n \in 1..Len(orders) : Fill(n) \/ Reconcile(n)

Spec == Init /\ [][Next]_vars
--------------------------------------------------------------------------------
Evaluated == risk # NotEvaluated

\* A call that began after the kill switch was pulled places no BUY, however
\* old the snapshot it was given (process, RiskEngine::evaluate).
KilledCallsBuyNothing ==
    \A n \in 1..Len(orders) : orders[n].killed => orders[n].action # "Buy"

\* A protective full exit of a position is approved whatever else holds: killed
\* or safe mode, a stale decision, the session's losses.
ExitsStayOpen ==
    Evaluated /\ decision.valid /\ Protective(decision, snapshot)
        /\ IsOpen(snapshot, decision.instrument) =>
            IsApproved(risk) /\ risk.size = snapshot.held[decision.instrument]

\* Whatever the orders, their interleaving with fills and the answers lost, the
\* BUYs placed never reach into the reserve.
ReserveUntouched == free >= MinimumCashReserve

\* An order placed under projection was recorded first, so that no failure of
\* storage hides an order from the audit (process_with_projection).
RecordedBeforePlaced ==
    \A n \in 1..Len(orders) :
        "projected" \in orders[n].trail => {"risk", "plan"} \subseteq orders[n].trail

\* README: no more than MaxOpenPositions concurrent positions are allowed.
ConcurrentPositions == Cardinality({i \in Instruments : held[i] > 0}) <= MaxOpenPositions
================================================================================
