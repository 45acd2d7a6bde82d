----------------------- MODULE OperatorProjectionProofs -----------------------
(***************************************************************************)
(* For any runs and either topology: what the operator read model tells is *)
(* in the audit, and a view after an acknowledged KILL says Killed.        *)
(*                                                                         *)
(* MemoryIsAudited is not inductive: a commit replaces the model with one  *)
(* derived before its event was stored.  CommitIsAudited says what that    *)
(* next model may know at each step of the commit.  A view is as good as   *)
(* the safety store, which KillReached says is Killed from the moment the  *)
(* server goes on with the KILL.                                           *)
(***************************************************************************)
EXTENDS OperatorProjection, TLAPS

StoredIds == {event.id : event \in audit}

\* The next model of a commit knows what is stored and its own event, and
\* that event is stored before the model is replaced.
CommitIsAudited ==
    \A t \in Threads :
        /\ commit[t].step = "locked" =>
              commit[t].next.seen \subseteq StoredIds \cup {commit[t].event.id}
        /\ commit[t].step = "stored" =>
              commit[t].event \in audit /\ commit[t].next.seen \subseteq StoredIds

KillReached ==
    killed \/ request \in {"killed", "marked", "recording"} => safety = "Killed"

\* The server has a commit in progress exactly while it records a KILL.
ServerCommits == commit["server"] # NoCommit => request = "recording"

IInv ==
    /\ TypeOK
    /\ MemoryIsAudited
    /\ CommitIsAudited
    /\ KillReached
    /\ ServerCommits
    /\ KillIsShown

USE DEF StoredIds

LEMMA ModelsOfRow ==
    ASSUME TypeOK
    PROVE  /\ DefaultModel \in Models
           /\ current # Nothing => current \in Models
           /\ Nothing.seen = {} /\ DefaultModel.seen = {}
  BY DEF TypeOK, DefaultModel, Models, Nothing, SafetyStates

LEMMA CommitSteps ==
    ASSUME TypeOK, NEW t \in Threads
    PROVE  /\ commit[t] \in Commits
           /\ commit[t].step = "waiting" => commit[t].event \in Events
           /\ commit[t].step \in {"locked", "stored"} =>
                 commit[t].event \in Events /\ commit[t].next \in Models
           /\ commit[t].step \in {"waiting", "locked", "stored"} => commit[t] # NoCommit
  BY DEF TypeOK, Commits, NoCommit

LEMMA InitIInv == Init => IInv
<1> SUFFICES ASSUME Init PROVE IInv
  OBVIOUS
<1>1. DefaultModel \in Models
  BY DEF DefaultModel, Models, SafetyStates
<1>2. TypeOK
  BY <1>1, ProjectionAssumption
  DEF ProjectionAssumption, Init, TypeOK, Commits, SafetyStates, Requests, Threads
<1>3. MemoryIsAudited
  BY DEF Init, MemoryIsAudited, DefaultModel, Nothing
<1>4. CommitIsAudited
  BY DEF Init, CommitIsAudited, NoCommit
<1>5. QED
  BY <1>2, <1>3, <1>4 DEF Init, IInv, KillReached, ServerCommits, KillIsShown, Threads
--------------------------------------------------------------------------------
(* The steps of a commit *)

LEMMA AppliedModel ==
    ASSUME NEW m \in Models, NEW event \in Events
    PROVE  Applied(m, event) \in Models /\ Applied(m, event).seen \subseteq m.seen \cup {event.id}
  BY DEF Applied, Models, Events

LEMMA LockIInv == ASSUME IInv, NEW t \in Threads, Lock(t) PROVE IInv'
<1> DEFINE next == Applied(model[Via(t)], commit[t].event)
<1>1. commit[t].event \in Events /\ commit[t] # NoCommit
  BY CommitSteps DEF Lock, IInv
<1>2. Via(t) \in Projectors /\ model[Via(t)] \in Models
  BY ProjectionAssumption DEF ProjectionAssumption, IInv, TypeOK, Via, Projectors
<1>3. next \in Models /\ next.seen \subseteq StoredIds \cup {commit[t].event.id}
  BY <1>1, <1>2, AppliedModel DEF IInv, MemoryIsAudited
<1>4. commit' = [commit EXCEPT ![t] =
                    [step |-> "locked", event |-> commit[t].event, next |-> next]]
  BY DEF Lock
<1> HIDE DEF next
<1>5. [step |-> "locked", event |-> commit[t].event, next |-> next] \in Commits
  BY <1>1, <1>3 DEF Commits
<1>6. TypeOK'
  BY <1>4, <1>5 DEF Lock, IInv, TypeOK, stored, server
<1>7. CommitIsAudited'
  BY <1>3, <1>4 DEF Lock, IInv, TypeOK, CommitIsAudited, stored
<1>8. ServerCommits'
  BY <1>1, <1>4 DEF Lock, IInv, TypeOK, ServerCommits, server
<1>9. QED
  BY <1>6, <1>7, <1>8
  DEF Lock, IInv, MemoryIsAudited, KillReached, KillIsShown, stored, server

LEMMA StoreIInv == ASSUME IInv, NEW t \in Threads, Store(t) PROVE IInv'
<1>1. commit[t].event \in Events /\ commit[t].next \in Models /\ commit[t] # NoCommit
  BY CommitSteps DEF Store, IInv
<1>2. commit[t].next.seen \subseteq StoredIds'
  BY DEF Store, IInv, CommitIsAudited
<1> DEFINE after == [commit[t] EXCEPT !.step = "stored"]
<1>3. /\ after \in Commits
      /\ after.step = "stored" /\ after.event = commit[t].event /\ after.next = commit[t].next
  BY <1>1, CommitSteps DEF Store, IInv, Commits, NoCommit
<1>4. commit' = [commit EXCEPT ![t] = after]
  BY DEF Store
<1> HIDE DEF after
<1>5. TypeOK'
  BY <1>1, <1>3, <1>4 DEF Store, IInv, TypeOK, server
<1>6. MemoryIsAudited'
  BY <1>2 DEF Store, IInv, MemoryIsAudited, server
<1>7. CommitIsAudited'
  BY <1>2, <1>3, <1>4 DEF Store, IInv, TypeOK, CommitIsAudited
<1>8. ServerCommits'
  BY <1>1, <1>4 DEF Store, IInv, TypeOK, ServerCommits, server
<1>9. QED
  BY <1>5, <1>6, <1>7, <1>8 DEF Store, IInv, KillReached, KillIsShown, server

LEMMA StoreFailsIInv == ASSUME IInv, NEW t \in Threads, StoreFails(t) PROVE IInv'
<1>1. TypeOK'
  BY DEF StoreFails, IInv, TypeOK, Commits, Requests, stored
<1>2. CommitIsAudited'
  BY DEF StoreFails, IInv, TypeOK, CommitIsAudited, NoCommit, stored
<1>3. ServerCommits'
  BY DEF StoreFails, IInv, TypeOK, ServerCommits, Threads
<1>4. QED
  BY <1>1, <1>2, <1>3
  DEF StoreFails, IInv, MemoryIsAudited, KillReached, KillIsShown, stored

LEMMA ReplaceIInv == ASSUME IInv, NEW t \in Threads, Replace(t) PROVE IInv'
<1>1. commit[t].event \in Events /\ commit[t].next \in Models /\ commit[t] # NoCommit
  BY CommitSteps DEF Replace, IInv
<1>a. model' \in [Projectors -> Models] /\ commit' \in [Threads -> Commits]
  BY <1>1 DEF Replace, IInv, TypeOK, Commits
<1>b. run' \in Runs \cup {NoRun} /\ request' \in Requests
      /\ shown' \in SafetyStates \cup {"None"} /\ killed' \in BOOLEAN
      /\ UNCHANGED <<safety, loaded, requests>>
  BY <1>1 DEF Replace, IInv, TypeOK, Events, Requests, server
<1>2. TypeOK'
  BY <1>a, <1>b DEF Replace, IInv, TypeOK, stored
<1>3. MemoryIsAudited'
  BY DEF Replace, IInv, TypeOK, MemoryIsAudited, CommitIsAudited, stored, server
<1>4. CommitIsAudited'
  BY DEF Replace, IInv, TypeOK, CommitIsAudited, NoCommit, stored
<1>5. KillReached' /\ KillIsShown'
  BY <1>1 DEF Replace, IInv, KillReached, KillIsShown, ServerCommits, server, Threads
<1>6. ServerCommits'
  BY DEF Replace, IInv, TypeOK, ServerCommits, server, Threads
<1>7. QED
  BY <1>2, <1>3, <1>4, <1>5, <1>6 DEF IInv
--------------------------------------------------------------------------------
(* The trading loop, the server and the restarts *)

\* A commit begun knows nothing yet.
LEMMA BeginIInv ==
    ASSUME IInv, NEW t \in Threads, NEW event \in Events, Begin(t, event)
    PROVE  /\ commit' \in [Threads -> Commits]
           /\ issued' \in Nat
           /\ audit' = audit => CommitIsAudited'
<1>1. [step |-> "waiting", event |-> event] \in Commits
  BY DEF Commits
<1>2. commit' \in [Threads -> Commits] /\ issued' \in Nat
  BY <1>1 DEF Begin, IInv, TypeOK
<1>3. ASSUME audit' = audit PROVE CommitIsAudited'
  BY <1>3 DEF Begin, IInv, TypeOK, CommitIsAudited
<1>4. QED
  BY <1>2, <1>3

LEMMA TradingIInv ==
    ASSUME IInv, NEW event \in Events, Begin("trading", event),
           UNCHANGED <<console, model, stored, run, server, restarts>>
    PROVE  IInv'
<1>1. commit' \in [Threads -> Commits] /\ issued' \in Nat /\ CommitIsAudited'
  BY BeginIInv DEF stored, Threads
<1>2. TypeOK'
  BY <1>1 DEF IInv, TypeOK, stored, server
<1>3. ServerCommits'
  BY DEF Begin, IInv, TypeOK, ServerCommits, server, Threads
<1>4. QED
  BY <1>1, <1>2, <1>3 DEF IInv, MemoryIsAudited, KillReached, KillIsShown, stored, server

LEMMA RunStartedIInv ==
    ASSUME IInv, NEW r \in Runs, NEW state \in SafetyStates, RunStarted(r, state)
    PROVE  IInv'
<1>1. [id |-> issued + 1, by |-> "trading", run |-> r, kind |-> "run_started",
       safety |-> state] \in Events
  BY DEF IInv, TypeOK, Events, Threads, Kinds
<1>2. QED
  BY <1>1, TradingIInv DEF RunStarted

LEMMA UpdatedIInv == ASSUME IInv, Updated PROVE IInv'
<1>1. [id |-> issued + 1, by |-> "trading", run |-> run, kind |-> "update",
       safety |-> "Normal"] \in Events
  BY DEF IInv, TypeOK, Updated, Events, Threads, Kinds, SafetyStates
<1>2. QED
  BY <1>1, TradingIInv DEF Updated

LEMMA ArriveIInv ==
    ASSUME IInv, NEW what \in {"GET", "POST"}, Arrive(what)
    PROVE  IInv'
<1>n. requests + 1 \in Nat
  BY DEF IInv, TypeOK
<1>r. requests' \in Nat /\ request' \in Requests
  BY <1>n DEF Arrive, Requests
<1>1. TypeOK'
  BY <1>r DEF Arrive, IInv, TypeOK, stored
<1>2. QED
  BY <1>1
  DEF Arrive, IInv, MemoryIsAudited, CommitIsAudited, KillReached, ServerCommits, KillIsShown,
      stored

LEMMA RehydrateIInv == ASSUME IInv, RehydrateReads \/ RehydrateReplaces PROVE IInv'
<1>1. CASE RehydrateReads
  <2>1. loaded' \in Models \cup {Nothing} /\ loaded'.seen \subseteq StoredIds
    BY <1>1, ModelsOfRow DEF RehydrateReads, IInv, TypeOK, MemoryIsAudited
  <2>2. TypeOK'
    BY <1>1, <2>1 DEF RehydrateReads, IInv, TypeOK, Requests, stored
  <2>3. QED
    BY <1>1, <2>1, <2>2
    DEF RehydrateReads, IInv, MemoryIsAudited, CommitIsAudited, KillReached, ServerCommits,
        KillIsShown, stored
<1>2. CASE RehydrateReplaces
  <2>1. model' \in [Projectors -> Models] /\ loaded' = Nothing
        /\ \A p \in Projectors : model'[p].seen \subseteq StoredIds
    BY <1>2 DEF RehydrateReplaces, IInv, TypeOK, MemoryIsAudited
  <2>2. TypeOK'
    BY <1>2, <2>1 DEF RehydrateReplaces, IInv, TypeOK, Requests, stored
  <2>3. MemoryIsAudited'
    BY <1>2, <2>1, ModelsOfRow DEF RehydrateReplaces, IInv, MemoryIsAudited, stored
  <2>4. QED
    BY <1>2, <2>2, <2>3
    DEF RehydrateReplaces, IInv, CommitIsAudited, KillReached, ServerCommits, KillIsShown,
        stored
<1>3. QED
  BY <1>1, <1>2

LEMMA ViewIInv == ASSUME IInv, View PROVE IInv'
<1>1. TypeOK'
  BY DEF View, IInv, TypeOK, Requests, stored
<1>2. QED
  BY <1>1
  DEF View, IInv, MemoryIsAudited, CommitIsAudited, KillReached, ServerCommits, KillIsShown,
      stored

LEMMA KillStoreIInv == ASSUME IInv, KillStore PROVE IInv'
<1>1. TypeOK'
  BY DEF KillStore, IInv, TypeOK, Requests, SafetyStates, stored
<1>2. QED
  BY <1>1
  DEF KillStore, IInv, MemoryIsAudited, CommitIsAudited, KillReached, ServerCommits,
      KillIsShown, stored

LEMMA KillModelIInv == ASSUME IInv, KillModel PROVE IInv'
<1>1. /\ model' \in [Projectors -> Models]
      /\ \A p \in Projectors : model'[p].seen = model[p].seen
  BY DEF KillModel, IInv, TypeOK, Models, SafetyStates
<1>2. TypeOK'
  BY <1>1 DEF KillModel, IInv, TypeOK, Requests, stored
<1>3. QED
  BY <1>1, <1>2
  DEF KillModel, IInv, MemoryIsAudited, CommitIsAudited, KillReached, ServerCommits,
      KillIsShown, stored

LEMMA KillRecordIInv == ASSUME IInv, KillRecord PROVE IInv'
<1> DEFINE event == [id |-> issued + 1, by |-> "server", run |-> model[console].run,
                     kind |-> "safety_updated", safety |-> "Killed"]
<1>1. console \in Projectors
  BY ProjectionAssumption DEF ProjectionAssumption, IInv, TypeOK, Projectors
<1>2. event \in Events
  BY <1>1 DEF KillRecord, IInv, TypeOK, Models, Events, Threads, Kinds, SafetyStates
<1>3. Begin("server", event)
  BY DEF KillRecord
<1> HIDE DEF event
<1>4. commit' \in [Threads -> Commits] /\ issued' \in Nat /\ CommitIsAudited'
  BY <1>2, <1>3, BeginIInv DEF KillRecord, stored, Threads
<1>5. TypeOK'
  BY <1>4 DEF KillRecord, IInv, TypeOK, Requests, stored
<1>6. QED
  BY <1>4, <1>5
  DEF KillRecord, IInv, MemoryIsAudited, KillReached, ServerCommits, KillIsShown, stored

LEMMA KillUnrecordedIInv == ASSUME IInv, KillUnrecorded PROVE IInv'
<1>1. TypeOK'
  BY DEF KillUnrecorded, IInv, TypeOK, Requests, stored
<1>2. QED
  BY <1>1
  DEF KillUnrecorded, IInv, MemoryIsAudited, CommitIsAudited, KillReached, ServerCommits,
      KillIsShown, stored

LEMMA ConsoleRestartsIInv == ASSUME IInv, ConsoleRestarts PROVE IInv'
<1> DEFINE row == IF current = Nothing THEN DefaultModel ELSE current
<1>1. row \in Models /\ row.seen \subseteq StoredIds
  BY ModelsOfRow DEF IInv, MemoryIsAudited
<1>2. model' = [model EXCEPT ![console] = row] /\ safety' = row.safety
  BY DEF ConsoleRestarts
<1> HIDE DEF row
<1>3. /\ model' \in [Projectors -> Models]
      /\ safety' \in SafetyStates
      /\ \A p \in Projectors : model'[p].seen \subseteq StoredIds
  BY <1>1, <1>2 DEF IInv, TypeOK, Models, MemoryIsAudited
<1>4. commit' \in [Threads -> Commits]
  BY DEF ConsoleRestarts, IInv, TypeOK, Commits
<1>n. restarts + 1 \in Nat
  BY DEF IInv, TypeOK
<1>5. TypeOK'
  BY <1>3, <1>4, <1>n DEF ConsoleRestarts, IInv, TypeOK, Requests, stored
<1>6. MemoryIsAudited'
  BY <1>3 DEF ConsoleRestarts, IInv, MemoryIsAudited, Nothing, stored
<1>7. CommitIsAudited'
  BY DEF ConsoleRestarts, IInv, TypeOK, CommitIsAudited, NoCommit, stored
<1>8. ServerCommits' /\ KillReached' /\ KillIsShown'
  BY DEF ConsoleRestarts, IInv, ServerCommits, KillReached, KillIsShown, Via, Threads
<1>9. QED
  BY <1>5, <1>6, <1>7, <1>8 DEF IInv

LEMMA TraderRestartsIInv == ASSUME IInv, TraderRestarts PROVE IInv'
<1>n. restarts + 1 \in Nat
  BY DEF IInv, TypeOK
<1>1. TypeOK'
  BY <1>n, ModelsOfRow DEF TraderRestarts, IInv, TypeOK, Commits, stored, server
<1>2. MemoryIsAudited'
  BY ModelsOfRow DEF TraderRestarts, IInv, TypeOK, MemoryIsAudited, stored, server
<1>3. CommitIsAudited'
  BY DEF TraderRestarts, IInv, TypeOK, CommitIsAudited, NoCommit, stored
<1>4. QED
  BY <1>1, <1>2, <1>3
  DEF TraderRestarts, IInv, TypeOK, KillReached, ServerCommits, KillIsShown, server, Threads
--------------------------------------------------------------------------------
LEMMA NextIInv == ASSUME IInv, [Next]_vars PROVE IInv'
<1>1. ASSUME NEW t \in Threads, CommitStep(t) PROVE IInv'
  BY <1>1, LockIInv, StoreIInv, StoreFailsIInv, ReplaceIInv DEF CommitStep
<1>2. CASE Serve
  BY <1>2, RehydrateIInv, ViewIInv, KillStoreIInv, KillModelIInv, KillRecordIInv,
     KillUnrecordedIInv
  DEF Serve
<1>3. CASE UNCHANGED vars
  BY <1>3
  DEF vars, IInv, TypeOK, MemoryIsAudited, CommitIsAudited, KillReached, ServerCommits,
      KillIsShown, stored, server
<1>4. QED
  BY <1>1, <1>2, <1>3, RunStartedIInv, UpdatedIInv, ArriveIInv, ConsoleRestartsIInv,
     TraderRestartsIInv
  DEF Next

LEMMA Invariant == Spec => []IInv
<1>1. IInv /\ [Next]_vars => IInv'
  BY NextIInv
<1>2. QED
  BY InitIInv, <1>1, PTL DEF Spec

\* The projection's variables keep to their types in every reachable state.
THEOREM TypeCorrect == Spec => []TypeOK
<1>1. IInv => TypeOK
  BY DEF IInv
<1>2. QED
  BY Invariant, <1>1, PTL

\* No model tells of an event that the audit does not have, whatever writes
\* are refused and wherever a process restarts.
THEOREM ModelsAreAudited == Spec => []MemoryIsAudited
<1>1. IInv => MemoryIsAudited
  BY DEF IInv
<1>2. QED
  BY Invariant, <1>1, PTL

\* After an acknowledged KILL every view of this process says Killed, whatever
\* row another projector has written.
THEOREM KillStaysVisible == Spec => []KillIsShown
<1>1. IInv => KillIsShown
  BY DEF IInv
<1>2. QED
  BY Invariant, <1>1, PTL
===============================================================================
