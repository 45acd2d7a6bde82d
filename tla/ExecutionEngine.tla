---------------------------- MODULE ExecutionEngine ----------------------------
(***************************************************************************)
(* The execution engine of src/execution.rs: the records it keeps of the   *)
(* orders it placed, the gate that blocks new risk (a BUY) while an order  *)
(* is in doubt, and the four calls that change them: execute, reconcile,   *)
(* expire_limit and startup_reconcile.                                     *)
(*                                                                         *)
(* Every call takes the engine by &mut, so calls never overlap; but the    *)
(* exchange moves while a call waits for the gateway, the gateway's        *)
(* process can die and the program can stop between any two gateway        *)
(* requests.  A call that makes more than one gateway request, or whose    *)
(* effect is recorded only after the request, is therefore several steps.  *)
(*                                                                         *)
(* Environment, not code of the repository: the exchange (what happened to *)
(* a request that was sent), the death of the gateway's process, and the   *)
(* program that owns the engine: it may call anything at any time, take a  *)
(* checkpoint between calls and restart from the last one it took.  What   *)
(* the engine relies on of its gateway is GatewayContract, of which        *)
(* OrderGateway holds the part used here.                                  *)
(***************************************************************************)
EXTENDS OrderGateway, FiniteSets

CONSTANTS
    ExecutionIds,   \* execution ids, compared like the UUIDs of the BTreeMap
    Instruments,
    InstrumentOf,   \* the instrument of each execution's plan
    ClientIdOf,     \* its client order id
    Buys,           \* the plans with risk_increasing = true
    Limits,         \* the plans with a limit order
    Sendable,       \* the client order ids SpotOrderRequest::build accepts
    MaxRestarts     \* bound: restarts of the program

ASSUME PlanAssumption ==
    /\ ExecutionIds \subseteq Nat
    /\ InstrumentOf \in [ExecutionIds -> Instruments]
    /\ ClientIdOf \in [ExecutionIds -> ClientIds]
    /\ Buys \subseteq ExecutionIds
    /\ Limits \subseteq ExecutionIds
    /\ Sendable \subseteq ClientIds
    /\ MaxRestarts \in Nat

VARIABLES
    records,     \* the receipt's state per execution, or "Absent"
    complete,    \* reconciliation_complete
    call,        \* the call that holds the engine
    todo,        \* the executions that call has yet to ask the gateway about
    saved,       \* the last checkpoint the owner took
    ready,       \* the gateway's is_available(): health as last observed
    restarts,
    lost,        \* history: client order ids a restart made the engine forget
    doubt,       \* history: BUYs placed whose fate nobody has reported since
    unverified   \* history: restored open orders not yet answered for

engine == <<records, complete, call, todo>>
history == <<lost, doubt, unverified>>
vars == <<engine, saved, ready, environment, restarts, history>>

ReceiptStates == {"Acknowledged", "PartiallyFilled", "Filled", "CancelPending",
                  "Cancelled", "Rejected", "Unknown"}

Terminal == {"Filled", "Cancelled", "Rejected"}

Calls == {"idle", "placing", "expiring", "startup"}

TypeOK ==
    /\ records \in [ExecutionIds -> ReceiptStates \cup {"Absent"}]
    /\ complete \in BOOLEAN
    /\ call \in Calls
    /\ todo \subseteq ExecutionIds
    /\ saved \in [ExecutionIds -> ReceiptStates \cup {"Absent"}]
    /\ ready \in BOOLEAN
    /\ alive \in BOOLEAN
    /\ exchange \in [ClientIds -> ExchangeStates]
    /\ sent \in [ClientIds -> Nat]
    /\ restarts \in 0..MaxRestarts
    /\ lost \subseteq ClientIds
    /\ doubt \subseteq Buys
    /\ unverified \subseteq ExecutionIds

Recorded == {e \in ExecutionIds : records[e] # "Absent"}

OpenIds(recs) == {e \in ExecutionIds : recs[e] \notin Terminal \cup {"Absent"}}

UnknownBuy(recs) == \E e \in Buys : recs[e] = "Unknown"

CanAcceptNewRisk == complete /\ ~UnknownBuy(records)
--------------------------------------------------------------------------------
(***************************************************************************)
(* ExecutionEngine::new, on a client that has just connected.              *)
(***************************************************************************)
Init ==
    /\ records = [e \in ExecutionIds |-> "Absent"]
    /\ complete = TRUE
    /\ call = "idle"
    /\ todo = {}
    /\ saved = [e \in ExecutionIds |-> "Absent"]
    /\ ready = TRUE
    /\ alive = TRUE
    /\ exchange = [c \in ClientIds |-> "None"]
    /\ sent = [c \in ClientIds |-> 0]
    /\ restarts = 0
    /\ lost = {}
    /\ doubt = {}
    /\ unverified = {}
--------------------------------------------------------------------------------
(* execute *)

\* The environment's side: a plan forgotten by a restart is held nowhere, so
\* neither it nor its client order id is submitted again.
Submitted(e) == call = "idle" /\ ClientIdOf[e] \notin lost

\* Mutant: market orders are not held back.
RiskGateOpen_MarketUnguarded(e) == e \in Buys \cap Limits => CanAcceptNewRisk

\* The guard on new risk comes first, before the gateway is looked at.
RiskGateOpen(e) == e \in Buys => CanAcceptNewRisk

\* Mutant: a record whose receipt is Rejected does not hold its id any more.
NoDuplicate_RejectedIgnored(e) ==
    /\ \A r \in Buys : records[r] = "Unknown" => InstrumentOf[r] # InstrumentOf[e]
    /\ \A r \in Recorded : records[r] # "Rejected" => ClientIdOf[r] # ClientIdOf[e]

\* No unresolved BUY on the instrument, no other record with this client order
\* id, and no record of this execution.
NoDuplicate(e) ==
    /\ \A r \in Buys : records[r] = "Unknown" => InstrumentOf[r] # InstrumentOf[e]
    /\ \A r \in Recorded : ClientIdOf[r] # ClientIdOf[e]

Execute(e) ==
    /\ Submitted(e)
    /\ RiskGateOpen(e)
    /\ ready
    /\ NoDuplicate(e)

\* GatewayUnavailable: the only refusal that changes the engine.
ExecuteUnavailable(e) ==
    /\ Submitted(e)
    /\ RiskGateOpen(e)
    /\ ~ready
    /\ complete' = FALSE
    /\ UNCHANGED <<records, call, todo, saved, ready, environment, restarts, history>>

\* place() has sent the request and waits for its answer.
ExecuteSend(e) ==
    /\ Execute(e)
    /\ alive
    /\ ClientIdOf[e] \in Sendable
    /\ call' = "placing"
    /\ todo' = {e}
    /\ Transmitted(ClientIdOf[e])
    /\ doubt' = doubt \cup ({e} \cap Buys)
    /\ UNCHANGED <<records, complete, saved, ready, alive, restarts, lost, unverified>>

\* place() could not build the request or found the process dead: recorded as
\* Unknown all the same.
ExecuteNotSent(e) ==
    /\ Execute(e)
    /\ ~(alive /\ ClientIdOf[e] \in Sendable)
    /\ ready' = (ready /\ ClientIdOf[e] \notin Sendable)
    /\ records' = [records EXCEPT ![e] = "Unknown"]
    /\ complete' = FALSE
    /\ doubt' = doubt \cup ({e} \cap Buys)
    /\ UNCHANGED <<call, todo, saved, environment, restarts, lost, unverified>>

\* place() returned: the record is inserted only now.
ExecuteReply(e) ==
    /\ call = "placing"
    /\ e \in todo
    /\ \E placement \in Placements(ClientIdOf[e]) :
          /\ records' = [records EXCEPT ![e] = placement]
          /\ complete' = (complete /\ placement # "Unknown")
          /\ doubt' = IF placement = "Unknown" THEN doubt ELSE doubt \ {e}
    /\ call' = "idle"
    /\ todo' = {}
    /\ UNCHANGED <<saved, ready, environment, restarts, lost, unverified>>
--------------------------------------------------------------------------------
(* reconcile, on its own and as the last part of the two other calls *)

\* Mutant: the gate is reopened by a look at this record alone.
Reconciled_OwnRecordOnly(e) ==
    \E answer \in Answers(ClientIdOf[e]) :
       /\ records' = [records EXCEPT ![e] = answer]
       /\ complete' = (answer # "Unknown")
       /\ doubt' = IF answer = "Unknown" THEN doubt ELSE doubt \ {e}
       /\ unverified' = unverified \ {e}

\* The query was answered: the record follows the answer and the gate is
\* recomputed from every record.
Reconciled(e) ==
    \E answer \in Answers(ClientIdOf[e]) :
       /\ records' = [records EXCEPT ![e] = answer]
       /\ complete' = ~UnknownBuy(records')
       /\ doubt' = IF answer = "Unknown" THEN doubt ELSE doubt \ {e}
       /\ unverified' = unverified \ {e}

\* The query failed: the error is handed to the caller; a process that was
\* dead when the call began is noticed, one that died since is not.
QueryFailed ==
    /\ ready' \in {ready, ready /\ alive}
    /\ UNCHANGED <<records, complete, doubt, unverified>>

Reconcile(e) ==
    /\ call = "idle"
    /\ e \in OpenIds(records)
    /\ \/ Reconciled(e) /\ UNCHANGED ready
       \/ QueryFailed
    /\ UNCHANGED <<call, todo, saved, environment, restarts, lost>>
--------------------------------------------------------------------------------
(* expire_limit, on a limit order older than the timeout *)

\* Filled and Cancelled orders are left alone; Rejected ones are not.
Expirable(e) ==
    /\ call = "idle"
    /\ e \in Limits \cap Recorded
    /\ records[e] \notin {"Filled", "Cancelled"}

ExpireUnavailable(e) ==
    /\ Expirable(e)
    /\ ~ready
    /\ complete' = FALSE
    /\ UNCHANGED <<records, call, todo, saved, ready, environment, restarts, history>>

\* cancel() timed out, was ambiguous, or met a process that was dead or died.
ExpireCancelUnknown(e) ==
    /\ Expirable(e)
    /\ ready
    /\ ready' \in {TRUE, alive}
    /\ records' = [records EXCEPT ![e] = "Unknown"]
    /\ complete' = FALSE
    /\ UNCHANGED <<call, todo, saved, environment, restarts, history>>

\* cancel() was confirmed (the order was open) or rejected: either way the
\* order is CancelPending and its state is asked for next.
ExpireCancelAnswered(e) ==
    /\ Expirable(e)
    /\ ready
    /\ alive
    /\ \/ /\ OnBook(ClientIdOf[e])
          /\ doubt' = doubt \ {e}
       \/ UNCHANGED doubt
    /\ records' = [records EXCEPT ![e] = "CancelPending"]
    /\ call' = "expiring"
    /\ todo' = {e}
    /\ UNCHANGED <<complete, saved, ready, environment, restarts, lost, unverified>>

ExpireReconcile(e) ==
    /\ call = "expiring"
    /\ e \in todo
    /\ \/ Reconciled(e) /\ UNCHANGED ready
       \/ QueryFailed
    /\ call' = "idle"
    /\ todo' = {}
    /\ UNCHANGED <<saved, environment, restarts, lost>>
--------------------------------------------------------------------------------
(* startup_reconcile *)

\* Mutant: only the orders in doubt are asked about.
StartupBegin_UnknownOnly ==
    /\ call = "idle"
    /\ complete' = FALSE
    /\ call' = "startup"
    /\ todo' = {e \in OpenIds(records) : records[e] = "Unknown"}
    /\ UNCHANGED <<records, saved, ready, environment, restarts, history>>

StartupBegin ==
    /\ call = "idle"
    /\ complete' = FALSE
    /\ call' = "startup"
    /\ todo' = OpenIds(records)
    /\ UNCHANGED <<records, saved, ready, environment, restarts, history>>

\* One turn of the loop, in the order of the ids.
StartupReconcile(e) ==
    /\ call = "startup"
    /\ e \in todo
    /\ \A other \in todo : e <= other
    /\ Reconciled(e)
    /\ todo' = todo \ {e}
    /\ UNCHANGED <<call, saved, ready, environment, restarts, lost>>

\* The `?` of the loop: the call returns and leaves the flag as it stands.
StartupFails ==
    /\ call = "startup"
    /\ todo # {}
    /\ QueryFailed
    /\ call' = "idle"
    /\ todo' = {}
    /\ UNCHANGED <<saved, environment, restarts, lost>>

StartupReturns ==
    /\ call = "startup"
    /\ todo = {}
    /\ complete' = (\A e \in ExecutionIds : records[e] \notin {"Unknown", "CancelPending"})
    /\ call' = "idle"
    /\ UNCHANGED <<records, todo, saved, ready, environment, restarts, history>>
--------------------------------------------------------------------------------
(* The owner of the engine, and the world *)

\* Bound: no checkpoint that no restart will read.
Checkpoint ==
    /\ call = "idle"
    /\ restarts < MaxRestarts
    /\ saved' = records
    /\ UNCHANGED <<engine, ready, environment, restarts, history>>

\* The program stops, at any point of any call, and starts again with
\* ExecutionEngine::restore on the last checkpoint and a fresh client.
Restart ==
    /\ restarts < MaxRestarts
    /\ restarts' = restarts + 1
    /\ records' = saved
    /\ complete' = FALSE
    /\ call' = "idle"
    /\ todo' = {}
    /\ ready' = TRUE
    /\ alive' = TRUE
    /\ LET forgotten == {e \in Recorded \cup (IF call = "placing" THEN todo ELSE {}) :
                            saved[e] = "Absent"}
       IN lost' = lost \cup {ClientIdOf[e] : e \in forgotten}
    /\ unverified' = OpenIds(saved)
    /\ UNCHANGED <<saved, exchange, sent, doubt>>

ProcessDies ==
    /\ alive
    /\ alive' = FALSE
    /\ UNCHANGED <<engine, saved, ready, exchange, sent, restarts, history>>

Arrive(c) ==
    /\ Arrives(c)
    /\ UNCHANGED <<engine, saved, ready, restarts, history>>

Progress(c) ==
    /\ Progresses(c)
    /\ UNCHANGED <<engine, saved, ready, restarts, history>>
--------------------------------------------------------------------------------
Next ==
    \/ \E e \in ExecutionIds :
          \/ ExecuteUnavailable(e)
          \/ ExecuteSend(e)
          \/ ExecuteNotSent(e)
          \/ ExecuteReply(e)
          \/ Reconcile(e)
          \/ ExpireUnavailable(e)
          \/ ExpireCancelUnknown(e)
          \/ ExpireCancelAnswered(e)
          \/ ExpireReconcile(e)
          \/ StartupReconcile(e)
    \/ StartupBegin
    \/ StartupFails
    \/ StartupReturns
    \/ Checkpoint
    \/ Restart
    \/ ProcessDies
    \/ \E c \in ClientIds : Arrive(c) \/ Progress(c)

Spec == Init /\ [][Next]_vars
--------------------------------------------------------------------------------
\* No client order id is ever sent to the exchange twice, whatever is retried,
\* duplicated or reconciled in between (execute's duplicate checks together
\* with the moment its record is inserted).
OnePlacementPerOrder == \A c \in ClientIds : sent[c] <= 1

\* The flag alone is sound: reconciliation_complete is never set while the
\* engine holds a BUY in state Unknown, through every call that sets either.
CompleteMeansNoUnknownBuy == complete => ~UnknownBuy(records)

\* A receipt that says an order is over says what the exchange says, although
\* fills race with cancels and answers can be stale (execute, reconcile,
\* expire_limit, restore).
TerminalAgreement ==
    \A e \in ExecutionIds :
        records[e] \in Terminal => exchange[ClientIdOf[e]] = records[e]

\* The market BUYs of unreported fate, but for those that a restart has made
\* the engine forget.
RememberedDoubt == {e \in doubt \ Limits : ClientIdOf[e] \notin lost}

\* At most one market BUY of unreported fate that the engine knows of: until it
\* is answered for, no other market BUY leaves the engine.  The exception is a
\* BUY recorded nowhere in the checkpoint of a restart, as one whose placement
\* was in flight when the program stopped: it stays in doubt, and the engine
\* sends the next.  Before the first restart there is none.
AtMostOneMarketBuyInDoubt ==
    \A a, b \in RememberedDoubt : a = b

\* While startup_reconcile runs, every restored open order that has not been
\* answered for is still ahead of it in the loop.
StartupCoversRestored == call = "startup" => unverified \subseteq todo

\* Only a restart makes the engine forget an order: before the first one, every
\* order that was sent has a record or is the one whose placement is awaited
\* (execute inserts the record after place() returned and nothing removes it).
OnlyRestartsForget ==
    restarts = 0 =>
        \A c \in ClientIds : sent[c] > 0 =>
            \E e \in ExecutionIds :
                /\ ClientIdOf[e] = c
                /\ e \in Recorded \/ (call = "placing" /\ todo = {e})

\* A Filled or Cancelled receipt is never reopened while the program runs: the
\* ids collected by startup_reconcile and the record that expire_limit cancelled
\* are still open when their answers come.
FinalReceiptsStay ==
    [][\A e \in ExecutionIds :
          records[e] \in {"Filled", "Cancelled"} /\ restarts' = restarts
              => records'[e] = records[e]]_vars

\* The engine implements the abstract order lifecycle: whatever it retries,
\* reconciles, cancels or restores, each of its steps places an order for the
\* first time, changes one report to one the exchange backs, takes or restores a
\* checkpoint, or changes nothing that the promise is about.
Promise == INSTANCE OrderPromise WITH
               Plans <- ExecutionIds,
               Orders <- ClientIds,
               OrderOf <- ClientIdOf,
               placed <- {c \in ClientIds : sent[c] > 0},
               fate <- exchange,
               report <- records,
               checkpoint <- saved

KeepsPromise == Promise!Spec

\* README.md:406, "`UNKNOWN` must be reconciled by client order identity before
\* retry": a BUY whose fate is unreported keeps every other BUY from being
\* placed.
UnknownReconciledBeforeRetry == \A a, b \in doubt : a = b

\* README.md:407, "restart reconciliation blocks new risk until exchange and
\* local state agree".
RestartBlocksNewRisk == CanAcceptNewRisk => unverified = {}
================================================================================
