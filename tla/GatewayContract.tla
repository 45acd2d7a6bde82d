---------------------------- MODULE GatewayContract ----------------------------
(***************************************************************************)
(* What an execution gateway promises its owner (the trait                 *)
(* ExecutionGateway of src/execution.rs), and what it may expect: one call *)
(* at a time, and no client order id placed twice.                         *)
(*                                                                         *)
(* ExecutionEngine is written against this contract; AtkClient implements  *)
(* it.                                                                     *)
(***************************************************************************)
EXTENDS OrderGateway

CONSTANT NoOrder

VARIABLES
    opened,      \* the owner has the gateway
    ready,       \* is_available()
    placing,     \* the order whose placement waits for its answer
    answer       \* the last answer given

vars == <<environment, opened, ready, placing, answer>>

NoAnswer == [op |-> "none", id |-> NoOrder, verdict |-> "none"]

Answered(op, c, verdict) == answer' = [op |-> op, id |-> c, verdict |-> verdict]

Init ==
    /\ alive \in BOOLEAN
    /\ exchange = [c \in ClientIds |-> "None"]
    /\ sent = [c \in ClientIds |-> 0]
    /\ opened = FALSE
    /\ ready = FALSE
    /\ placing = NoOrder
    /\ answer = NoAnswer

\* The gateway is ready for orders when it is handed over, or never.
Open ==
    /\ ~opened
    /\ opened' = TRUE
    /\ ready' \in BOOLEAN
    /\ UNCHANGED <<environment, placing, answer>>

Idle == opened /\ placing = NoOrder

\* A call that did not get through: it may have found the process dead, which
\* makes the gateway unavailable for good, or be what tells that it died.
NotReached ==
    /\ ready' \in {ready, ready /\ alive}
    /\ alive' \in {alive, FALSE}
    /\ UNCHANGED <<exchange, sent, opened, placing>>

\* Only a ready gateway sends a placement, and each call sends it once.
PlaceSent(c) ==
    /\ Idle
    /\ ready
    /\ alive
    /\ sent[c] = 0
    /\ Transmitted(c)
    /\ placing' = c
    /\ UNCHANGED <<alive, opened, ready, answer>>

PlaceNotSent(c) ==
    /\ Idle
    /\ Answered("place", c, "Unknown")
    /\ NotReached

PlaceAnswered(c) ==
    /\ placing = c
    /\ \E placement \in Placements(c) : Answered("place", c, placement)
    /\ placing' = NoOrder
    /\ UNCHANGED <<environment, opened, ready>>

QueryAnswered(c) ==
    /\ Idle
    /\ \E state \in Answers(c) : Answered("query", c, state)
    /\ UNCHANGED <<environment, opened, ready, placing>>

QueryFails(c) ==
    /\ Idle
    /\ Answered("query", c, "failed")
    /\ NotReached

\* A cancel is confirmed only for an order on the book.
CancelAnswered(c) ==
    /\ Idle
    /\ ready
    /\ alive
    /\ \/ OnBook(c) /\ Answered("cancel", c, "Acknowledged")
       \/ Answered("cancel", c, "Rejected")
    /\ UNCHANGED <<environment, opened, ready, placing>>

CancelUnknown(c) ==
    /\ Idle
    /\ Answered("cancel", c, "Unknown")
    /\ NotReached

\* The gateway is shut down, or finds on another call that its process is gone.
Retires ==
    /\ ready' = FALSE
    /\ alive' = FALSE
    /\ UNCHANGED <<exchange, sent, opened, placing, answer>>

ProcessDies ==
    /\ alive' = FALSE
    /\ UNCHANGED <<exchange, sent, opened, ready, placing, answer>>

World(c) ==
    /\ Arrives(c) \/ Progresses(c)
    /\ UNCHANGED <<opened, ready, placing, answer>>

Next ==
    \/ Open
    \/ Retires
    \/ ProcessDies
    \/ \E c \in ClientIds :
          \/ PlaceSent(c)
          \/ PlaceNotSent(c)
          \/ PlaceAnswered(c)
          \/ QueryAnswered(c)
          \/ QueryFails(c)
          \/ CancelAnswered(c)
          \/ CancelUnknown(c)
          \/ World(c)

Spec == Init /\ [][Next]_vars
================================================================================
