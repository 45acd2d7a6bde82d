----------------------------- MODULE McpTransport -----------------------------
(***************************************************************************)
(* The stdio transport of src/atk/transport.rs.  Caller threads share one  *)
(* child process: each request allocates an id, registers a channel in     *)
(* `pending`, writes a line and waits on the channel; one reader thread    *)
(* hands every line of the child's output to the channel of its id.        *)
(*                                                                         *)
(* Steps are the code's critical sections: a step takes at most one of the *)
(* locks `pending` and `stdin` or touches the atomic `alive` once.         *)
(*                                                                         *)
(* Environment: the child may answer any request it has read, in any order *)
(* and more than once, print lines that are not JSON, print bytes that are *)
(* not text, stop reading its input (a write then blocks), close it (a     *)
(* write then fails) and exit at any time.                                 *)
(***************************************************************************)
EXTENDS Naturals

CONSTANTS
    Callers,      \* the threads that call request
    Closers,      \* the threads that call shutdown
    MaxRequests   \* bound: requests ever started

ASSUME TransportAssumption == MaxRequests \in Nat

VARIABLES
    nextId,    \* next_id
    pending,   \* the ids in the pending map
    alive,     \* the flag `alive`
    stage,     \* where each caller is in request()
    id,        \* the id of each caller's request
    inbox,     \* the message in the caller's channel
    reader,    \* where the reader thread is
    carried,   \* the id whose channel the reader took out of the map, or 0
    closing,   \* where each closer is in shutdown(), or how it left
    child,     \* environment: the child runs
    input,     \* environment: what the child does with its input
    asked      \* environment: the ids whose request line the child has got

caller == <<stage, id>>
world == <<child, input, asked>>
vars == <<nextId, pending, alive, caller, inbox, reader, carried, closing, world>>

Ids == 1..MaxRequests

\* What a channel holds: nothing, the answer to a request, or one of the errors
\* MalformedJson, ProcessExited and Io, which nothing here tells apart.
Nothing == <<"Nothing", 0>>
Failed == <<"Failed", 0>>
Answer(i) == <<"Answer", i>>
Messages == {Answer(i) : i \in Ids} \cup {Failed, Nothing}

\* inserted: registered; checked: alive was seen set; waiting: the line is
\* written; failed, expired: about to unregister and return an error.
Stages == {"idle", "inserted", "checked", "waiting", "failed", "expired"}

TypeOK ==
    /\ nextId \in 1..(MaxRequests + 1)
    /\ pending \subseteq Ids
    /\ alive \in BOOLEAN
    /\ stage \in [Callers -> Stages]
    /\ id \in [Callers -> Ids \cup {0}]
    /\ inbox \in [Callers -> Messages]
    /\ reader \in {"reading", "ended", "draining", "done"}
    /\ carried \in Ids \cup {0}
    /\ closing \in [Closers -> {"idle", "returned", "swapped", "drained", "closed"}]
    /\ child \in BOOLEAN
    /\ input \in {"read", "stalled", "closed"}
    /\ asked \subseteq Ids

\* Mutant: the ids start at 0, which the code uses for nothing.
Init_FromZero ==
    /\ nextId = 0
    /\ pending = {}
    /\ alive = TRUE
    /\ stage = [t \in Callers |-> "idle"]
    /\ id = [t \in Callers |-> 0]
    /\ inbox = [t \in Callers |-> Nothing]
    /\ reader = "reading"
    /\ carried = 0
    /\ closing = [k \in Closers |-> "idle"]
    /\ child = TRUE
    /\ input = "read"
    /\ asked = {}

Init ==
    /\ nextId = 1
    /\ pending = {}
    /\ alive = TRUE
    /\ stage = [t \in Callers |-> "idle"]
    /\ id = [t \in Callers |-> 0]
    /\ inbox = [t \in Callers |-> Nothing]
    /\ reader = "reading"
    /\ carried = 0
    /\ closing = [k \in Closers |-> "idle"]
    /\ child = TRUE
    /\ input = "read"
    /\ asked = {}
--------------------------------------------------------------------------------
(* request *)

\* The receiver of id i is gone once its caller has returned: a send to it is
\* dropped.
Receives(t, i) == id[t] = i /\ stage[t] # "idle"

\* A send to the channels of the ids in S.
SendTo(S, message) ==
    inbox' = [t \in Callers |->
                 IF \E i \in S : Receives(t, i) THEN message ELSE inbox[t]]

\* fetch_add and the insertion of a fresh channel.
Begin(t) ==
    /\ stage[t] = "idle"
    /\ nextId <= MaxRequests
    /\ nextId' = nextId + 1
    /\ pending' = pending \cup {nextId}
    /\ id' = [id EXCEPT ![t] = nextId]
    /\ inbox' = [inbox EXCEPT ![t] = Nothing]
    /\ stage' = [stage EXCEPT ![t] = "inserted"]
    /\ UNCHANGED <<alive, reader, carried, closing, world>>

\* Mutant: write_line writes without looking at `alive`.
CheckAlive_Skipped(t) ==
    /\ stage[t] = "inserted"
    /\ stage' = [stage EXCEPT ![t] = "checked"]
    /\ UNCHANGED <<nextId, pending, alive, id, inbox, reader, carried, closing, world>>

\* write_line looks at `alive` before it writes.
CheckAlive(t) ==
    /\ stage[t] = "inserted"
    /\ stage' = [stage EXCEPT ![t] = IF alive THEN "checked" ELSE "failed"]
    /\ UNCHANGED <<nextId, pending, alive, id, inbox, reader, carried, closing, world>>

\* The write blocks while the child runs and does not read.
Write(t) ==
    /\ stage[t] = "checked"
    /\ child
    /\ input = "read"
    /\ asked' = asked \cup {id[t]}
    /\ stage' = [stage EXCEPT ![t] = "waiting"]
    /\ UNCHANGED <<nextId, pending, alive, id, inbox, reader, carried, closing,
                   child, input>>

BrokenPipe == ~child \/ input = "closed"

WriteFails(t) ==
    /\ stage[t] = "checked"
    /\ BrokenPipe
    /\ alive' = FALSE
    /\ stage' = [stage EXCEPT ![t] = "failed"]
    /\ UNCHANGED <<nextId, pending, id, inbox, reader, carried, closing, world>>

\* recv_timeout finds a message, which request returns.
Receive(t) ==
    /\ stage[t] = "waiting"
    /\ inbox[t] # Nothing
    /\ stage' = [stage EXCEPT ![t] = "idle"]
    /\ UNCHANGED <<nextId, pending, alive, id, inbox, reader, carried, closing, world>>

\* recv_timeout gives up; an answer that arrives from now on is dropped.
TimeOut(t) ==
    /\ stage[t] = "waiting"
    /\ inbox[t] = Nothing
    /\ stage' = [stage EXCEPT ![t] = "expired"]
    /\ UNCHANGED <<nextId, pending, alive, id, inbox, reader, carried, closing, world>>

\* Mutant: a request that times out leaves its channel in the map.
Unregister_ExpiredKept(t) ==
    /\ stage[t] \in {"failed", "expired"}
    /\ pending' = IF stage[t] = "failed" THEN pending \ {id[t]} ELSE pending
    /\ stage' = [stage EXCEPT ![t] = "idle"]
    /\ UNCHANGED <<nextId, alive, id, inbox, reader, carried, closing, world>>

\* The error paths unregister the channel before they return.
Unregister(t) ==
    /\ stage[t] \in {"failed", "expired"}
    /\ pending' = pending \ {id[t]}
    /\ stage' = [stage EXCEPT ![t] = "idle"]
    /\ UNCHANGED <<nextId, alive, id, inbox, reader, carried, closing, world>>

\* notify: write_line alone; only its failure leaves a trace.
NotifyFails ==
    /\ alive
    /\ BrokenPipe
    /\ alive' = FALSE
    /\ UNCHANGED <<nextId, pending, caller, inbox, reader, carried, closing, world>>
--------------------------------------------------------------------------------
(* The reader thread *)

\* A line with the id of an asked request: its channel is taken out of the map.
TakeSender(i) ==
    /\ reader = "reading"
    /\ carried = 0
    /\ i \in asked \cap pending
    /\ pending' = pending \ {i}
    /\ carried' = i
    /\ UNCHANGED <<nextId, alive, caller, inbox, reader, closing, world>>

\* Mutant: answers go to the requests in the order they were made.
Deliver_InOrder ==
    /\ carried # 0
    /\ SendTo({CHOOSE i \in pending \cup {carried} : \A j \in pending : i <= j},
              Answer(carried))
    /\ carried' = 0
    /\ UNCHANGED <<nextId, pending, alive, caller, reader, closing, world>>

\* ... and the line is sent into it after the map is unlocked.
Deliver ==
    /\ carried # 0
    /\ SendTo({carried}, Answer(carried))
    /\ carried' = 0
    /\ UNCHANGED <<nextId, pending, alive, caller, reader, closing, world>>

\* fail_pending: every registered channel gets the error.
FailPending ==
    /\ SendTo(pending, Failed)
    /\ pending' = {}

\* A line that is not JSON fails every request there is, and reading goes on.
MalformedLine ==
    /\ reader = "reading"
    /\ carried = 0
    /\ child
    /\ pending # {}
    /\ FailPending
    /\ UNCHANGED <<nextId, alive, caller, reader, carried, closing, world>>

\* A read that fails (the line is not UTF-8) ends the reader, not the child.
ReadFails ==
    /\ reader = "reading"
    /\ carried = 0
    /\ child
    /\ FailPending
    /\ reader' = "ended"
    /\ UNCHANGED <<nextId, alive, caller, carried, closing, world>>

EndOfOutput ==
    /\ reader = "reading"
    /\ carried = 0
    /\ ~child
    /\ reader' = "ended"
    /\ UNCHANGED <<nextId, pending, alive, caller, inbox, carried, closing, world>>

ReaderMarksDead ==
    /\ reader = "ended"
    /\ alive' = FALSE
    /\ reader' = "draining"
    /\ UNCHANGED <<nextId, pending, caller, inbox, carried, closing, world>>

\* Mutant: the dying reader only sets the flag.
ReaderDrains_Silent ==
    /\ reader = "draining"
    /\ reader' = "done"
    /\ UNCHANGED <<nextId, pending, alive, caller, inbox, carried, closing, world>>

ReaderDrains ==
    /\ reader = "draining"
    /\ FailPending
    /\ reader' = "done"
    /\ UNCHANGED <<nextId, alive, caller, carried, closing, world>>
--------------------------------------------------------------------------------
(* shutdown *)

\* alive.swap(false): only who lowers the flag goes on.  Who finds it lowered, by
\* another shutdown, the reader or a write that failed, returns at once.
Swap(k) ==
    /\ closing[k] = "idle"
    /\ alive' = FALSE
    /\ closing' = [closing EXCEPT ![k] = IF alive THEN "swapped" ELSE "returned"]
    /\ UNCHANGED <<nextId, pending, caller, inbox, reader, carried, world>>

ShutdownDrains(k) ==
    /\ closing[k] = "swapped"
    /\ FailPending
    /\ closing' = [closing EXCEPT ![k] = "drained"]
    /\ UNCHANGED <<nextId, alive, caller, reader, carried, world>>

\* Mutant: shutdown forgets the child and leaves it running.
Kill_Forgets(k) ==
    /\ closing[k] = "drained"
    /\ closing' = [closing EXCEPT ![k] = "closed"]
    /\ UNCHANGED <<nextId, pending, alive, caller, inbox, reader, carried, world>>

Kill(k) ==
    /\ closing[k] = "drained"
    /\ child' = FALSE
    /\ closing' = [closing EXCEPT ![k] = "closed"]
    /\ UNCHANGED <<nextId, pending, alive, caller, inbox, reader, carried, input, asked>>
--------------------------------------------------------------------------------
(* The child *)

ChildExits ==
    /\ child
    /\ child' = FALSE
    /\ UNCHANGED <<nextId, pending, alive, caller, inbox, reader, carried, closing, input, asked>>

ChildStopsReading ==
    /\ child
    /\ input = "read"
    /\ input' \in {"stalled", "closed"}
    /\ UNCHANGED <<nextId, pending, alive, caller, inbox, reader, carried, closing, child, asked>>
--------------------------------------------------------------------------------
Next ==
    \/ \E t \in Callers :
          \/ Begin(t)
          \/ CheckAlive(t)
          \/ Write(t)
          \/ WriteFails(t)
          \/ Receive(t)
          \/ TimeOut(t)
          \/ Unregister(t)
    \/ NotifyFails
    \/ \E i \in Ids : TakeSender(i)
    \/ Deliver
    \/ MalformedLine
    \/ ReadFails
    \/ EndOfOutput
    \/ ReaderMarksDead
    \/ ReaderDrains
    \/ \E k \in Closers : Swap(k) \/ ShutdownDrains(k) \/ Kill(k)
    \/ ChildExits
    \/ ChildStopsReading

Spec == Init /\ [][Next]_vars

\* Threads that can run do run, and the reader gets to the end of the output.
\* Nothing is assumed of the child, and nothing of timeouts: a caller may set
\* one as long as it likes.
Fairness ==
    /\ \A t \in Callers :
          WF_vars(CheckAlive(t) \/ Write(t) \/ WriteFails(t) \/ Receive(t) \/ Unregister(t))
    /\ WF_vars(Deliver \/ EndOfOutput \/ ReaderMarksDead \/ ReaderDrains)
    /\ \A k \in Closers : WF_vars(ShutdownDrains(k) \/ Kill(k))

FairSpec == Spec /\ Fairness
--------------------------------------------------------------------------------
\* No caller is left waiting on a channel nobody will send to: once the reader
\* is done, whoever waits has its message, even one that registered while the
\* reader was dying (start_reader, request, write_line).
NoLostWaiter ==
    reader = "done" => \A t \in Callers : stage[t] = "waiting" => inbox[t] # Nothing

\* An answer reaches the request it answers, although answers come out of
\* order, twice, or after the request they belong to has timed out.
OwnAnswer ==
    \A t \in Callers : \A i \in Ids :
        inbox[t] = Answer(i) => i = id[t]

\* The pending map holds the requests in progress only: no path of request()
\* leaves its channel behind.
NoPendingLeak ==
    \A i \in pending : \E t \in Callers : Receives(t, i)

\* The transport implements the abstract requests: whatever is interleaved,
\* fails or comes late, each of its steps begins a request under a new id, writes
\* one for the first time, tells requests in progress their one outcome, returns,
\* or changes nothing that the promise is about.
Promise == INSTANCE RequestPromise WITH
               None <- 0,
               asking <- [t \in Callers |-> IF stage[t] = "idle" THEN 0 ELSE id[t]],
               outcome <- [t \in Callers |-> IF stage[t] = "idle" THEN Nothing ELSE inbox[t]],
               begun <- {i \in Ids : i < nextId}

KeepsRequestPromise == Promise!Spec

\* One request, one message: an answer in the reader's hands, a malformed line
\* and the two drains never send a second message to a channel, which the caller
\* would not read and which the one slot of `inbox` could not hold.
OneMessagePerRequest ==
    [][\A t \in Callers :
          inbox[t] # Nothing /\ id'[t] = id[t] => inbox'[t] = inbox[t]]_vars

\* The end of the child ends every request, with no help from its timeout.
DeathReleasesCallers ==
    \A t \in Callers : (~child /\ stage[t] # "idle") ~> (stage[t] = "idle")

\* A shutdown that lowers the flag itself ends every request: those in progress,
\* those that begin while it is under way or after it, and whatever a second
\* shutdown does meanwhile.  One that finds the flag lowered promises nothing:
\* after a failed write the child is left running, and the requests that wait for
\* it have only their timeouts.
ShutdownReleasesCallers ==
    \A k \in Closers : \A t \in Callers :
        (closing[k] \in {"swapped", "drained", "closed"} /\ stage[t] # "idle")
            ~> (stage[t] = "idle")
================================================================================
