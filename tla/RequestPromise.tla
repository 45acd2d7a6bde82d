---------------------------- MODULE RequestPromise ----------------------------
(***************************************************************************)
(* What the trait McpTransport of src/atk/transport.rs promises the        *)
(* threads that call request, without ids map, flag, locks, reader or      *)
(* shutdown: each request goes to the child at most once and is told of at *)
(* most one outcome, its own answer or an error; an answer only after the  *)
(* child has got the request.                                              *)
(*                                                                         *)
(* McpTransport implements this specification.                             *)
(***************************************************************************)
CONSTANTS
    Callers,      \* the threads that call request
    Ids,          \* the identities of requests
    Answer(_),    \* the answer to each
    Failed,       \* any error
    Nothing,      \* no outcome yet
    None          \* no request

VARIABLES
    asking,       \* the request each caller has in progress, or None
    outcome,      \* what that request was told
    begun,        \* the requests ever begun
    asked         \* the requests the child has got

vars == <<asking, outcome, begun, asked>>

Init ==
    /\ asking = [t \in Callers |-> None]
    /\ outcome = [t \in Callers |-> Nothing]
    /\ begun = {}
    /\ asked = {}

Begin(t) ==
    /\ asking[t] = None
    /\ \E i \in Ids \ begun :
          /\ asking' = [asking EXCEPT ![t] = i]
          /\ begun' = begun \cup {i}
    /\ UNCHANGED <<outcome, asked>>

\* The child gets the request.
Ask(t) ==
    /\ asking[t] \in Ids \ asked
    /\ asked' = asked \cup {asking[t]}
    /\ UNCHANGED <<asking, outcome, begun>>

Answered(t) ==
    /\ asking[t] \in asked
    /\ outcome[t] = Nothing
    /\ outcome' = [outcome EXCEPT ![t] = Answer(asking[t])]
    /\ UNCHANGED <<asking, begun, asked>>

\* Whoever has no outcome yet may get an error, many at a time.
Fails(S) ==
    /\ \A t \in S : asking[t] # None /\ outcome[t] = Nothing
    /\ outcome' = [t \in Callers |-> IF t \in S THEN Failed ELSE outcome[t]]
    /\ UNCHANGED <<asking, begun, asked>>

\* The call returns: its outcome if it has one, else an error of its own.
Return(t) ==
    /\ asking[t] # None
    /\ asking' = [asking EXCEPT ![t] = None]
    /\ outcome' = [outcome EXCEPT ![t] = Nothing]
    /\ UNCHANGED <<begun, asked>>

Next ==
    \/ \E t \in Callers : Begin(t) \/ Ask(t) \/ Answered(t) \/ Return(t)
    \/ \E S \in SUBSET Callers : Fails(S)

Spec == Init /\ [][Next]_vars
================================================================================
