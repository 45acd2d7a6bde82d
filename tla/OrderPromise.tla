----------------------------- MODULE OrderPromise -----------------------------
(***************************************************************************)
(* What src/execution.rs promises of orders, without calls, gates, queries *)
(* or cancels: an order goes to the exchange at most once, the engine's    *)
(* reports about it are backed by what the exchange did with it, and a     *)
(* restart takes the reports back to a checkpoint and nothing else.        *)
(*                                                                         *)
(* ExecutionEngine implements this specification.                          *)
(***************************************************************************)
CONSTANTS
    Plans,       \* what reports are about
    Orders,      \* the identities under which orders are placed
    OrderOf      \* the order of each plan

VARIABLES
    placed,      \* the orders that were placed
    fate,        \* what became of each order at the exchange
    report,      \* what the engine says of each plan, or "Absent"
    checkpoint   \* the reports last saved

vars == <<placed, fate, report, checkpoint>>

Init ==
    /\ placed = {}
    /\ fate = [o \in Orders |-> "None"]
    /\ report = [p \in Plans |-> "Absent"]
    /\ checkpoint = [p \in Plans |-> "Absent"]

Place(o) ==
    /\ o \notin placed
    /\ placed' = placed \cup {o}
    /\ fate' = [fate EXCEPT ![o] = "InFlight"]
    /\ UNCHANGED <<report, checkpoint>>

\* What can happen to an order, by its fate so far; the other fates are final.
Continues == [InFlight |-> {"Open", "Rejected", "None"},
              Open |-> {"PartiallyFilled", "Filled", "Cancelled"},
              PartiallyFilled |-> {"PartiallyFilled", "Filled", "Cancelled"}]

Happen(o) ==
    /\ fate[o] \in DOMAIN Continues
    /\ \E next \in Continues[fate[o]] : fate' = [fate EXCEPT ![o] = next]
    /\ UNCHANGED <<placed, report, checkpoint>>

\* A report that an order is over, or partly filled, says what its fate is; one
\* that it is acknowledged, that the exchange has taken it.
Backed(o, state) ==
    /\ state \in {"PartiallyFilled", "Filled", "Cancelled", "Rejected"} => fate[o] = state
    /\ state = "Acknowledged" => fate[o] \notin {"None", "InFlight", "Rejected"}

\* Something new about one plan; a plan is heard of before it is cancelled.
Report(p) ==
    /\ \E state \in {"Acknowledged", "PartiallyFilled", "Filled", "CancelPending", "Cancelled",
                     "Rejected", "Unknown"} :
          /\ Backed(OrderOf[p], state)
          /\ state = "CancelPending" => report[p] # "Absent"
          /\ report' = [report EXCEPT ![p] = state]
    /\ UNCHANGED <<placed, fate, checkpoint>>

Checkpoint == checkpoint' = report /\ UNCHANGED <<placed, fate, report>>

Restart == report' = checkpoint /\ UNCHANGED <<placed, fate, checkpoint>>

Next ==
    \/ \E o \in Orders : Place(o) \/ Happen(o)
    \/ \E p \in Plans : Report(p)
    \/ Checkpoint
    \/ Restart

Spec == Init /\ [][Next]_vars
================================================================================
