-------------------------- MODULE McpTransportProofs --------------------------
(***************************************************************************)
(* The safety of McpTransport, for any number of callers, closers and      *)
(* requests.                                                               *)
(*                                                                         *)
(* NoLostWaiter is not inductive: that the dying reader reaches everyone   *)
(* who waits rests on where each registered channel is (Reachable), on     *)
(* `alive` being cleared before the last drain (DeadReader), and on        *)
(* nobody passing the look at `alive` after it (Reached).  The refinement  *)
(* needs that the channel in the reader's hands is empty (CarriedUntold)   *)
(* and which requests have been written (Written).                         *)
(***************************************************************************)
EXTENDS McpTransport, TLAPS

\* A request in progress has an id.
Numbered == \A t \in Callers : stage[t] # "idle" => id[t] # 0

\* Ids in use were handed out.
Fresh ==
    /\ \A t \in Callers : id[t] < nextId
    /\ \A i \in pending : i < nextId
    /\ carried < nextId

\* No two requests in progress have one id.
Distinct ==
    \A t, u \in Callers :
        stage[t] # "idle" /\ stage[u] # "idle" /\ id[t] = id[u] => t = u

\* The channel the reader carries is out of the map.
CarriedAside == carried # 0 => reader = "reading" /\ carried \notin pending

\* A caller with a message is out of the map.
Told ==
    \A t \in Callers : stage[t] # "idle" /\ inbox[t] # Nothing => id[t] \notin pending

\* A caller is in the map, or about to be told, until it gives up.
Reachable ==
    \A t \in Callers :
        stage[t] \in {"inserted", "checked", "waiting"} /\ inbox[t] = Nothing
            => id[t] \in pending \/ (carried = id[t] /\ carried # 0)

DeadReader == reader \in {"draining", "done"} => ~alive

Reached ==
    reader = "done" =>
        \A t \in Callers : stage[t] \in {"checked", "waiting"} => inbox[t] # Nothing

IInv ==
    /\ TypeOK
    /\ Numbered
    /\ Fresh
    /\ Distinct
    /\ CarriedAside
    /\ Told
    /\ Reachable
    /\ DeadReader
    /\ Reached
    /\ OwnAnswer
    /\ NoPendingLeak
--------------------------------------------------------------------------------
\* What a send does to a channel, whichever it is.
LEMMA SendToEffect ==
    ASSUME NEW S, NEW message, SendTo(S, message), NEW t \in Callers
    PROVE  inbox'[t] = IF stage[t] # "idle" /\ id[t] \in S THEN message ELSE inbox[t]
  BY DEF SendTo, Receives

LEMMA MessagesDiffer ==
    /\ Failed # Nothing
    /\ \A i : Answer(i) # Nothing /\ Answer(i) # Failed
    /\ \A i, j : Answer(i) = Answer(j) => i = j
  BY DEF Failed, Nothing, Answer

LEMMA SendToTypes ==
    ASSUME TypeOK, NEW S, NEW message \in Messages, SendTo(S, message)
    PROVE  inbox' \in [Callers -> Messages]
  BY DEF SendTo, TypeOK

LEMMA FailPendingTypes ==
    ASSUME TypeOK, FailPending
    PROVE  inbox' \in [Callers -> Messages] /\ pending' \subseteq Ids
<1>1. Failed \in Messages
  BY DEF Messages
<1>2. SendTo(pending, Failed) /\ pending' = {}
  BY DEF FailPending
<1>3. QED
  BY <1>1, <1>2, SendToTypes
--------------------------------------------------------------------------------
\* Only a caller moves a caller.
LEMMA OthersKeepCallers ==
    [Next]_vars =>
        \/ UNCHANGED caller
        \/ \E t \in Callers :
              Begin(t) \/ CheckAlive(t) \/ Write(t) \/ WriteFails(t) \/ Receive(t)
                  \/ TimeOut(t) \/ Unregister(t)
  BY DEF Next, vars, NotifyFails, TakeSender, Deliver, MalformedLine, ReadFails, EndOfOutput,
         ReaderMarksDead, ReaderDrains, Swap, ShutdownDrains, Kill, ChildExits,
         ChildStopsReading

LEMMA TypeInit == Init => TypeOK /\ Numbered
  BY TransportAssumption DEF TransportAssumption, Init, TypeOK, Numbered, Ids, Messages, Stages

LEMMA TypeStep == TypeOK /\ Numbered /\ [Next]_vars => TypeOK'
<1> SUFFICES ASSUME TypeOK, Numbered, [Next]_vars PROVE TypeOK'
  OBVIOUS
<1> USE TransportAssumption DEF TransportAssumption
<1>1. ASSUME NEW t \in Callers, Begin(t) PROVE TypeOK'
  <2>1. nextId \in Ids /\ nextId' \in 1..(MaxRequests + 1)
    BY <1>1 DEF Begin, TypeOK, Ids
  <2>2. Nothing \in Messages /\ "inserted" \in Stages
    BY DEF Messages, Stages
  <2>3. id' \in [Callers -> Ids \cup {0}] /\ inbox' \in [Callers -> Messages]
        /\ stage' \in [Callers -> Stages] /\ pending' \subseteq Ids
    BY <1>1, <2>1, <2>2 DEF Begin, TypeOK
  <2>4. QED
    BY <1>1, <2>1, <2>3 DEF Begin, TypeOK, world
<1>2. ASSUME NEW t \in Callers,
             CheckAlive(t) \/ Write(t) \/ WriteFails(t) \/ Receive(t) \/ TimeOut(t)
                 \/ Unregister(t)
      PROVE  TypeOK'
  <2>1. stage' \in [Callers -> Stages]
    BY <1>2 DEF CheckAlive, Write, WriteFails, Receive, TimeOut, Unregister, TypeOK, Stages
  <2>2. CASE Write(t)
    <3>1. id[t] \in Ids /\ asked' = asked \cup {id[t]}
      BY <2>2 DEF Write, TypeOK, Numbered
    <3>2. QED
      BY <2>1, <2>2, <3>1 DEF Write, TypeOK
  <2>3. CASE ~Write(t)
    BY <1>2, <2>1, <2>3 DEF CheckAlive, WriteFails, Receive, TimeOut, Unregister, TypeOK, world
  <2>4. QED
    BY <2>2, <2>3
<1>3. CASE NotifyFails \/ EndOfOutput \/ ReaderMarksDead \/ ChildExits \/ ChildStopsReading
  BY <1>3 DEF NotifyFails, EndOfOutput, ReaderMarksDead, ChildExits, ChildStopsReading,
              TypeOK, caller, world
<1>4. ASSUME NEW i \in Ids, TakeSender(i) PROVE TypeOK'
  BY <1>4 DEF TakeSender, TypeOK, caller, world
<1>5. CASE Deliver
  <2>1. carried \in Ids
    BY <1>5 DEF Deliver, TypeOK
  <2>2. inbox' \in [Callers -> Messages]
    BY <1>5, <2>1, SendToTypes DEF Deliver, Messages
  <2>3. QED
    BY <1>5, <2>2 DEF Deliver, TypeOK, caller, world
<1>6. CASE MalformedLine \/ ReadFails \/ ReaderDrains
  BY <1>6, FailPendingTypes DEF MalformedLine, ReadFails, ReaderDrains, TypeOK, caller, world
<1>7. ASSUME NEW k \in Closers, Swap(k) \/ Kill(k) PROVE TypeOK'
  BY <1>7 DEF Swap, Kill, TypeOK, caller, world
<1>8. ASSUME NEW k \in Closers, ShutdownDrains(k) PROVE TypeOK'
  BY <1>8, FailPendingTypes DEF ShutdownDrains, TypeOK, caller, world
<1>9. CASE UNCHANGED vars
  BY <1>9 DEF vars, TypeOK, caller, world
<1>10. QED
  BY <1>1, <1>2, <1>3, <1>4, <1>5, <1>6, <1>7, <1>8, <1>9 DEF Next

LEMMA NumberedStep == TypeOK /\ Numbered /\ [Next]_vars => Numbered'
<1> SUFFICES ASSUME TypeOK, Numbered, [Next]_vars PROVE Numbered'
  OBVIOUS
<1>1. ASSUME NEW t \in Callers, Begin(t) PROVE Numbered'
  BY <1>1 DEF Begin, TypeOK, Numbered
<1>2. ASSUME NEW t \in Callers,
             CheckAlive(t) \/ Write(t) \/ WriteFails(t) \/ Receive(t) \/ TimeOut(t)
                 \/ Unregister(t)
      PROVE  Numbered'
  BY <1>2 DEF CheckAlive, Write, WriteFails, Receive, TimeOut, Unregister, TypeOK, Numbered
<1>3. CASE UNCHANGED caller
  BY <1>3 DEF caller, Numbered
<1>4. QED
  BY <1>1, <1>2, <1>3, OthersKeepCallers

\* The type invariant of McpTransport: the three kinds of threads keep the map,
\* the flag and the channels of transport.rs in their ranges.
THEOREM TypeCorrect == Spec => []TypeOK
  BY TypeInit, TypeStep, NumberedStep, PTL DEF Spec
--------------------------------------------------------------------------------
LEMMA InvInit == Init => IInv
<1> SUFFICES ASSUME Init PROVE IInv
  OBVIOUS
<1>1. TypeOK /\ Numbered
  BY TypeInit
<1>2. Fresh /\ Distinct /\ CarriedAside /\ Told /\ Reachable /\ DeadReader /\ Reached
      /\ NoPendingLeak
  BY DEF Init, Fresh, Distinct, CarriedAside, Told, Reachable, DeadReader, Reached,
         NoPendingLeak
<1>3. OwnAnswer
  BY MessagesDiffer DEF Init, OwnAnswer
<1>4. QED
  BY <1>1, <1>2, <1>3 DEF IInv

\* A step of a caller.
LEMMA CallerStep ==
    ASSUME IInv, TypeOK', Numbered', NEW t \in Callers,
           \/ Begin(t) \/ CheckAlive(t) \/ Write(t) \/ WriteFails(t) \/ Receive(t)
           \/ TimeOut(t) \/ Unregister(t)
    PROVE  IInv'
<1> USE DEF IInv, TypeOK
<1>1. CASE Begin(t)
  <2>1. /\ Fresh' /\ CarriedAside' /\ DeadReader'
        /\ \A u \in Callers : u # t => id'[u] = id[u] /\ stage'[u] = stage[u] /\ inbox'[u] = inbox[u]
        /\ id'[t] = nextId /\ stage'[t] = "inserted" /\ inbox'[t] = Nothing
    BY <1>1 DEF Begin, Fresh, CarriedAside, DeadReader, world, Ids
  <2>2. Distinct' /\ Told' /\ Reachable' /\ Reached'
    BY <1>1, <2>1 DEF Begin, Fresh, Distinct, Told, Reachable, Reached, Ids
  <2>3. OwnAnswer'
    BY <1>1, <2>1, MessagesDiffer DEF OwnAnswer
  <2>4. NoPendingLeak'
    BY <1>1, <2>1 DEF Begin, NoPendingLeak, Receives
  <2>5. QED
    BY <2>1, <2>2, <2>3, <2>4
<1>2. CASE CheckAlive(t) \/ Write(t) \/ WriteFails(t)
  BY <1>2 DEF CheckAlive, Write, WriteFails, Fresh, Distinct, CarriedAside, Told, Reachable,
              DeadReader, Reached, OwnAnswer, NoPendingLeak, Receives, world
<1>3. CASE Receive(t)
  BY <1>3 DEF Receive, Fresh, Distinct, CarriedAside, Told, Reachable,
              DeadReader, Reached, OwnAnswer, NoPendingLeak, Receives, world
<1>4. CASE TimeOut(t)
  BY <1>4 DEF TimeOut, Fresh, Distinct, CarriedAside, Told, Reachable,
              DeadReader, Reached, OwnAnswer, NoPendingLeak, Receives, world
<1>5. CASE Unregister(t)
  BY <1>5 DEF Unregister, Fresh, Distinct, CarriedAside, Told, Reachable,
              DeadReader, Reached, OwnAnswer, NoPendingLeak, Receives, world
<1>6. QED
  BY <1>1, <1>2, <1>3, <1>4, <1>5

\* A drain of the map: fail_pending, by the reader or by shutdown.
LEMMA DrainKeeps ==
    ASSUME IInv, FailPending, UNCHANGED <<nextId, caller, carried>>
    PROVE  /\ Fresh' /\ Distinct' /\ Told' /\ Reachable' /\ OwnAnswer' /\ NoPendingLeak'
           /\ \A t \in Callers : stage[t] # "idle" /\ id[t] \in pending => inbox'[t] = Failed
           /\ \A t \in Callers : inbox[t] # Nothing => inbox'[t] # Nothing
<1>1. SendTo(pending, Failed) /\ pending' = {}
  BY DEF FailPending
<1>2. \A t \in Callers :
          inbox'[t] = IF stage[t] # "idle" /\ id[t] \in pending THEN Failed ELSE inbox[t]
  BY <1>1, SendToEffect
<1>3. QED
  BY <1>1, <1>2, MessagesDiffer
  DEF IInv, Fresh, Distinct, Told, Reachable, OwnAnswer, NoPendingLeak, caller

\* A step of the reader.
LEMMA ReaderStep ==
    ASSUME IInv, TypeOK', Numbered',
           \/ \E i \in Ids : TakeSender(i)
           \/ Deliver \/ MalformedLine \/ ReadFails \/ EndOfOutput \/ ReaderMarksDead
           \/ ReaderDrains
    PROVE  IInv'
<1> USE DEF IInv
<1>1. ASSUME NEW i \in Ids, TakeSender(i) PROVE IInv'
  <2>1. i \in Nat /\ i # 0
    BY DEF Ids
  <2>2. QED
    BY <1>1, <2>1 DEF TakeSender, Fresh, Distinct, CarriedAside, Told, Reachable, DeadReader,
                Reached, OwnAnswer, NoPendingLeak, Receives, caller, world
<1>2. CASE Deliver
  <2>1. /\ SendTo({carried}, Answer(carried)) /\ carried # 0 /\ carried' = 0
        /\ UNCHANGED <<nextId, pending, alive, stage, id, reader>>
    BY <1>2 DEF Deliver, caller
  <2>2. \A t \in Callers :
            inbox'[t] = IF stage[t] # "idle" /\ id[t] = carried THEN Answer(carried) ELSE inbox[t]
    BY <2>1, SendToEffect
  <2>3. Fresh' /\ Distinct' /\ CarriedAside' /\ DeadReader' /\ NoPendingLeak'
    BY <2>1 DEF Fresh, Distinct, CarriedAside, DeadReader, NoPendingLeak, Receives, TypeOK, Ids
  <2>4. Told' /\ Reachable' /\ Reached' /\ OwnAnswer'
    BY <2>1, <2>2, MessagesDiffer DEF CarriedAside, Told, Reachable, Reached, OwnAnswer
  <2>5. QED
    BY <2>3, <2>4
<1>3. CASE MalformedLine \/ ReadFails \/ ReaderDrains
  <2>1. FailPending /\ UNCHANGED <<nextId, alive, caller, carried>>
    BY <1>3 DEF MalformedLine, ReadFails, ReaderDrains
  <2>2. CarriedAside' /\ DeadReader'
    BY <1>3, <2>1 DEF MalformedLine, ReadFails, ReaderDrains, CarriedAside, DeadReader, FailPending
  <2>3. Reached'
    BY <1>3, <2>1, DrainKeeps, MessagesDiffer
    DEF MalformedLine, ReadFails, ReaderDrains, Reached, Reachable, CarriedAside, caller
  <2>4. QED
    BY <2>1, <2>2, <2>3, DrainKeeps
<1>4. CASE EndOfOutput \/ ReaderMarksDead
  BY <1>4 DEF EndOfOutput, ReaderMarksDead, Fresh, Distinct, CarriedAside, Told, Reachable,
              DeadReader, Reached, OwnAnswer, NoPendingLeak, Receives, caller, world
<1>5. QED
  BY <1>1, <1>2, <1>3, <1>4

\* A step of shutdown, of notify or of the child.
LEMMA OtherStep ==
    ASSUME IInv, TypeOK', Numbered',
           \/ NotifyFails
           \/ \E k \in Closers : Swap(k) \/ ShutdownDrains(k) \/ Kill(k)
           \/ ChildExits \/ ChildStopsReading
    PROVE  IInv'
<1> USE DEF IInv
<1>1. ASSUME NEW k \in Closers, ShutdownDrains(k) PROVE IInv'
  <2>1. FailPending /\ UNCHANGED <<nextId, alive, caller, reader, carried>>
    BY <1>1 DEF ShutdownDrains
  <2>2. CarriedAside' /\ DeadReader'
    BY <2>1 DEF CarriedAside, DeadReader, FailPending
  <2>3. Reached'
    BY <2>1, DrainKeeps DEF Reached, caller
  <2>4. QED
    BY <2>1, <2>2, <2>3, DrainKeeps
<1>2. CASE ~\E k \in Closers : ShutdownDrains(k)
  <2>1. /\ UNCHANGED <<nextId, pending, stage, id, inbox, reader, carried>>
        /\ ~alive => ~alive'
    BY <1>2 DEF NotifyFails, Swap, Kill, ChildExits, ChildStopsReading, caller
  <2>2. Fresh' /\ Distinct' /\ CarriedAside' /\ DeadReader'
    BY <2>1 DEF Fresh, Distinct, CarriedAside, DeadReader
  <2>3. Told' /\ Reachable' /\ Reached'
    BY <2>1 DEF Told, Reachable, Reached
  <2>4. OwnAnswer' /\ NoPendingLeak'
    BY <2>1 DEF OwnAnswer, NoPendingLeak, Receives
  <2>5. QED
    BY <2>2, <2>3, <2>4
<1>3. QED
  BY <1>1, <1>2

LEMMA InvStep == IInv /\ [Next]_vars => IInv'
<1> SUFFICES ASSUME IInv, [Next]_vars PROVE IInv'
  OBVIOUS
<1>1. TypeOK' /\ Numbered'
  BY TypeStep, NumberedStep DEF IInv
<1>2. CASE UNCHANGED vars
  BY <1>1, <1>2 DEF IInv, vars, caller, Fresh, Distinct, CarriedAside, Told, Reachable,
                    DeadReader, Reached, OwnAnswer, NoPendingLeak, Receives
<1>3. CASE Next
  BY <1>1, <1>3, CallerStep, ReaderStep, OtherStep DEF Next
<1>4. QED
  BY <1>2, <1>3

LEMMA Inductive == Spec => []IInv
  BY InvInit, InvStep, PTL DEF Spec
--------------------------------------------------------------------------------
\* However start_reader's last drain and the registrations of request() are
\* interleaved, nobody waits on a channel that no one will send to.
THEOREM NobodyIsLost == Spec => []NoLostWaiter
<1>1. IInv => NoLostWaiter
  BY DEF IInv, Reached, NoLostWaiter
<1>2. QED
  BY <1>1, Inductive, PTL

\* Nobody has told the request whose channel the reader carries.
CarriedUntold ==
    \A t \in Callers : carried # 0 /\ Receives(t, carried) => inbox[t] = Nothing

\* A drain reaches only channels that hold nothing.
LEMMA DrainOnce ==
    ASSUME IInv, FailPending, NEW t \in Callers, inbox[t] # Nothing
    PROVE  inbox'[t] = inbox[t]
<1>1. inbox'[t] = IF stage[t] # "idle" /\ id[t] \in pending THEN Failed ELSE inbox[t]
  BY SendToEffect DEF FailPending
<1>2. QED
  BY <1>1 DEF IInv, Told

LEMMA UntoldStep == IInv /\ CarriedUntold /\ [Next]_vars => CarriedUntold'
<1> SUFFICES ASSUME IInv, CarriedUntold, [Next]_vars PROVE CarriedUntold'
  OBVIOUS
<1> USE DEF caller, world
<1>1. CASE UNCHANGED <<stage, id, inbox, carried>>
  BY <1>1 DEF CarriedUntold, Receives
<1>2. ASSUME NEW t \in Callers, Begin(t) PROVE CarriedUntold'
  <2>1. id'[t] = nextId /\ carried' = carried
    BY <1>2 DEF Begin, IInv, TypeOK
  <2>2. carried # nextId
    BY TransportAssumption DEF TransportAssumption, IInv, TypeOK, Fresh, Ids
  <2>3. \A u \in Callers :
            u # t => id'[u] = id[u] /\ stage'[u] = stage[u] /\ inbox'[u] = inbox[u]
    BY <1>2 DEF Begin, IInv, TypeOK
  <2>4. QED
    BY <2>1, <2>2, <2>3 DEF CarriedUntold, Receives
<1>3. ASSUME NEW t \in Callers,
             CheckAlive(t) \/ Write(t) \/ WriteFails(t) \/ Receive(t) \/ TimeOut(t)
                 \/ Unregister(t)
      PROVE  CarriedUntold'
  <2>1. /\ UNCHANGED <<id, inbox, carried>>
        /\ \A u \in Callers : stage'[u] # "idle" => stage[u] # "idle"
    BY <1>3 DEF CheckAlive, Write, WriteFails, Receive, TimeOut, Unregister, IInv, TypeOK
  <2>2. QED
    BY <2>1 DEF CarriedUntold, Receives
<1>4. ASSUME NEW i \in Ids, TakeSender(i) PROVE CarriedUntold'
  <2>1. i \in pending /\ carried' = i /\ UNCHANGED <<stage, id, inbox>>
    BY <1>4 DEF TakeSender
  <2>2. QED
    BY <2>1 DEF CarriedUntold, Receives, IInv, Told
<1>5. CASE Deliver
  BY <1>5 DEF Deliver, CarriedUntold
<1>6. CASE FailPending /\ UNCHANGED <<stage, id, carried>>
  <2>1. \A t \in Callers :
            inbox'[t] = IF stage[t] # "idle" /\ id[t] \in pending THEN Failed ELSE inbox[t]
    BY <1>6, SendToEffect DEF FailPending
  <2>2. QED
    BY <1>6, <2>1 DEF CarriedUntold, Receives, IInv, CarriedAside
<1>7. QED
  BY <1>1, <1>2, <1>3, <1>4, <1>5, <1>6
  DEF Next, vars, NotifyFails, MalformedLine, ReadFails, EndOfOutput, ReaderMarksDead,
      ReaderDrains, Swap, ShutdownDrains, Kill, ChildExits, ChildStopsReading

\* Whatever the reader carries while shutdown drains the map, a request is told
\* once.
THEOREM ToldOnce == Spec => OneMessagePerRequest
<1> DEFINE Once ==
        \A t \in Callers : inbox[t] # Nothing /\ id'[t] = id[t] => inbox'[t] = inbox[t]
<1>1. ASSUME IInv, CarriedUntold, [Next]_vars PROVE [Once]_vars
  <2> USE <1>1 DEF caller, world
  <2>1. CASE UNCHANGED inbox
    BY <2>1
  <2>2. ASSUME NEW t \in Callers, Begin(t) PROVE Once
    <3>1. id[t] < nextId /\ id'[t] = nextId /\ nextId \in Nat
      BY <2>2, TransportAssumption
      DEF Begin, IInv, TypeOK, Fresh, TransportAssumption
    <3>2. \A u \in Callers : u # t => inbox'[u] = inbox[u]
      BY <2>2 DEF Begin, IInv, TypeOK
    <3>3. QED
      BY <3>1, <3>2
  <2>3. CASE Deliver
    <3>1. ASSUME NEW t \in Callers, inbox[t] # Nothing PROVE inbox'[t] = inbox[t]
      <4>1. inbox'[t] = IF stage[t] # "idle" /\ id[t] \in {carried}
                          THEN Answer(carried) ELSE inbox[t]
        BY <2>3, SendToEffect DEF Deliver
      <4>2. ~Receives(t, carried)
        BY <2>3, <3>1 DEF Deliver, CarriedUntold
      <4>3. QED
        BY <4>1, <4>2 DEF Receives
    <3>2. QED
      BY <3>1
  <2>4. CASE FailPending
    BY <2>4, DrainOnce
  <2>5. QED
    BY <2>1, <2>2, <2>3, <2>4
    DEF Next, vars, CheckAlive, Write, WriteFails, Receive, TimeOut, Unregister, NotifyFails,
        TakeSender, MalformedLine, ReadFails, EndOfOutput, ReaderMarksDead, ReaderDrains,
        Swap, ShutdownDrains, Kill, ChildExits, ChildStopsReading
<1>2. Init => CarriedUntold
  BY DEF Init, CarriedUntold
<1>3. QED
  BY <1>1, <1>2, InvInit, InvStep, UntoldStep, Inductive, PTL DEF Spec, OneMessagePerRequest

\* The reader hands an answer to the request with its id, and to no other.
THEOREM AnswersAreOwn == Spec => []OwnAnswer
<1>1. IInv => OwnAnswer
  BY DEF IInv
<1>2. QED
  BY <1>1, Inductive, PTL

\* Every path of request() takes its channel out of the pending map.
THEOREM PendingIsBounded == Spec => []NoPendingLeak
<1>1. IInv => NoPendingLeak
  BY DEF IInv
<1>2. QED
  BY <1>1, Inductive, PTL
--------------------------------------------------------------------------------
(* The transport implements RequestPromise *)

\* What the child has got, was handed out; an id that is carried was answered;
\* a request before its write has not been written.
Written ==
    /\ \A i \in asked : i < nextId
    /\ carried # 0 => carried \in asked
    /\ \A t \in Callers : stage[t] \in {"inserted", "checked"} => id[t] \notin asked

LEMMA WrittenStep == IInv /\ Written /\ [Next]_vars => Written'
<1> SUFFICES ASSUME IInv, Written, [Next]_vars PROVE Written'
  OBVIOUS
<1> USE DEF caller, world
<1>1. CASE UNCHANGED <<nextId, caller, carried, asked>>
  BY <1>1 DEF Written
<1>2. ASSUME NEW t \in Callers, Begin(t) PROVE Written'
  <2>1. nextId \in Nat /\ nextId' = nextId + 1 /\ \A i \in asked : i \in Nat
    BY <1>2, TransportAssumption DEF Begin, TransportAssumption, IInv, TypeOK, Ids
  <2>2. /\ UNCHANGED <<carried, asked>>
        /\ id'[t] = nextId
        /\ \A u \in Callers : u # t => id'[u] = id[u] /\ stage'[u] = stage[u]
    BY <1>2 DEF Begin, IInv, TypeOK
  <2>3. QED
    BY <2>1, <2>2 DEF Written
<1>3. ASSUME NEW t \in Callers, Write(t) PROVE Written'
  <2>1. asked' = asked \cup {id[t]} /\ UNCHANGED <<nextId, id, carried>>
    BY <1>3 DEF Write
  <2>2. \A u \in Callers : stage'[u] \in {"inserted", "checked"} => u # t /\ stage'[u] = stage[u]
    BY <1>3 DEF Write, IInv, TypeOK
  <2>3. \A u \in Callers : u # t /\ stage[u] # "idle" => id[u] # id[t]
    BY <1>3 DEF Write, IInv, Distinct
  <2>4. QED
    BY <2>1, <2>2, <2>3 DEF Written, IInv, Fresh
<1>4. ASSUME NEW t \in Callers,
             CheckAlive(t) \/ WriteFails(t) \/ Receive(t) \/ TimeOut(t) \/ Unregister(t)
      PROVE  Written'
  <2>1. /\ UNCHANGED <<nextId, id, carried, asked>>
        /\ \A u \in Callers :
               stage'[u] \in {"inserted", "checked"} => stage[u] \in {"inserted", "checked"}
    BY <1>4 DEF CheckAlive, WriteFails, Receive, TimeOut, Unregister, IInv, TypeOK
  <2>2. QED
    BY <2>1 DEF Written
<1>5. ASSUME NEW i \in Ids, TakeSender(i) PROVE Written'
  BY <1>5 DEF TakeSender, Written
<1>6. CASE Deliver
  BY <1>6 DEF Deliver, Written
<1>7. QED
  BY <1>1, <1>2, <1>3, <1>4, <1>5, <1>6
  DEF Next, vars, NotifyFails, MalformedLine, ReadFails, EndOfOutput, ReaderMarksDead,
      ReaderDrains, FailPending, Swap, ShutdownDrains, Kill, ChildExits, ChildStopsReading

\* The abstract state.
Asking == [t \in Callers |-> IF stage[t] = "idle" THEN 0 ELSE id[t]]
Outcome == [t \in Callers |-> IF stage[t] = "idle" THEN Nothing ELSE inbox[t]]
Begun == {i \in Ids : i < nextId}

\* A step in which callers only move on, or rest, is no abstract step.
LEMMA NoRequestChanges ==
    ASSUME UNCHANGED <<nextId, id, inbox, asked>>,
           \A t \in Callers : stage'[t] = "idle" <=> stage[t] = "idle"
    PROVE  UNCHANGED Promise!vars
<1>1. Asking' = Asking /\ Outcome' = Outcome /\ Begun' = Begun
  BY DEF Asking, Outcome, Begun, Ids
<1>2. QED
  BY <1>1 DEF Promise!vars, Asking, Outcome, Begun

LEMMA BeginIsBegin ==
    ASSUME IInv, NEW t \in Callers, Begin(t)
    PROVE  Promise!Begin(t)
<1>1. nextId \in Ids /\ nextId' = nextId + 1
  BY TransportAssumption DEF Begin, TransportAssumption, IInv, TypeOK, Ids
<1>2. nextId \notin Begun /\ Begun' = Begun \cup {nextId}
  BY <1>1 DEF Begun, Ids
<1>3. /\ stage[t] = "idle"
      /\ id' = [id EXCEPT ![t] = nextId]
      /\ inbox' = [inbox EXCEPT ![t] = Nothing]
      /\ stage' = [stage EXCEPT ![t] = "inserted"]
      /\ asked' = asked
  BY DEF Begin, world
<1>4. Asking[t] = 0 /\ Asking' = [Asking EXCEPT ![t] = nextId]
  BY <1>3 DEF Asking, IInv, TypeOK
<1>5. Outcome' = Outcome
  BY <1>3 DEF Outcome, IInv, TypeOK
<1>6. QED
  BY <1>1, <1>2, <1>3, <1>4, <1>5 DEF Promise!Begin, Asking, Outcome, Begun

LEMMA WriteIsAsk ==
    ASSUME IInv, Written, NEW t \in Callers, Write(t)
    PROVE  Promise!Ask(t)
<1>1. /\ stage[t] = "checked"
      /\ stage' = [stage EXCEPT ![t] = "waiting"]
      /\ asked' = asked \cup {id[t]}
      /\ UNCHANGED <<nextId, id, inbox>>
  BY DEF Write
<1>2. Asking[t] = id[t] /\ id[t] \in Ids \ asked
  BY <1>1 DEF Asking, Written, IInv, TypeOK, Numbered
<1>3. Asking' = Asking /\ Outcome' = Outcome /\ Begun' = Begun
  BY <1>1 DEF Asking, Outcome, Begun, Ids, IInv, TypeOK
<1>4. QED
  BY <1>1, <1>2, <1>3 DEF Promise!Ask, Asking, Outcome, Begun

LEMMA ReturnIsReturn ==
    ASSUME IInv, NEW t \in Callers, Receive(t) \/ Unregister(t)
    PROVE  Promise!Return(t)
<1>1. /\ stage[t] # "idle"
      /\ stage' = [stage EXCEPT ![t] = "idle"]
      /\ UNCHANGED <<nextId, id, inbox, asked>>
  BY DEF Receive, Unregister, world
<1>2. Asking[t] # 0 /\ Asking' = [Asking EXCEPT ![t] = 0]
  BY <1>1 DEF Asking, IInv, TypeOK, Numbered
<1>3. Outcome' = [Outcome EXCEPT ![t] = Nothing]
  BY <1>1 DEF Outcome, IInv, TypeOK
<1>4. Begun' = Begun
  BY <1>1 DEF Begun, Ids
<1>5. QED
  BY <1>1, <1>2, <1>3, <1>4 DEF Promise!Return, Asking, Outcome, Begun

\* An answer whose caller has returned is dropped.
LEMMA DeliverAnswers ==
    ASSUME IInv, CarriedUntold, Written, Deliver
    PROVE  (\E t \in Callers : Promise!Answered(t)) \/ UNCHANGED Promise!vars
<1>1. /\ carried # 0 /\ carried \in asked
      /\ UNCHANGED <<nextId, stage, id, asked>>
      /\ inbox' = [u \in Callers |->
                      IF Receives(u, carried) THEN Answer(carried) ELSE inbox[u]]
  BY DEF Deliver, SendTo, caller, world, Written
<1>2. Asking' = Asking /\ Begun' = Begun
  BY <1>1 DEF Asking, Begun, Ids
<1>3. ASSUME NEW t \in Callers, Receives(t, carried) PROVE Promise!Answered(t)
  <2>1. Asking[t] = carried /\ Outcome[t] = Nothing
    BY <1>1, <1>3 DEF Asking, Outcome, Receives, CarriedUntold
  <2>2. \A u \in Callers : Receives(u, carried) => u = t
    BY <1>3 DEF Receives, IInv, Distinct
  <2>3. Outcome' = [Outcome EXCEPT ![t] = Answer(carried)]
    BY <1>1, <1>3, <2>2 DEF Outcome, Receives, IInv, TypeOK
  <2>4. QED
    BY <1>1, <1>2, <2>1, <2>3 DEF Promise!Answered, Asking, Outcome, Begun
<1>4. CASE \A t \in Callers : ~Receives(t, carried)
  <2>1. Outcome' = Outcome
    BY <1>1, <1>4 DEF Outcome
  <2>2. QED
    BY <1>1, <1>2, <2>1 DEF Promise!vars, Asking, Outcome, Begun
<1>5. QED
  BY <1>3, <1>4

LEMMA DrainFails ==
    ASSUME IInv, FailPending, UNCHANGED <<nextId, stage, id, asked>>
    PROVE  \E S \in SUBSET Callers : Promise!Fails(S)
<1> DEFINE S == {t \in Callers : stage[t] # "idle" /\ id[t] \in pending}
<1>1. inbox' = [t \in Callers |-> IF t \in S THEN Failed ELSE inbox[t]]
  BY DEF FailPending, SendTo, Receives
<1>2. \A t \in S : Asking[t] # 0 /\ Outcome[t] = Nothing
  BY DEF Asking, Outcome, IInv, Numbered, Told
<1>3. Asking' = Asking /\ Begun' = Begun
  BY DEF Asking, Begun, Ids
<1>4. Outcome' = [t \in Callers |-> IF t \in S THEN Failed ELSE Outcome[t]]
  BY <1>1 DEF Outcome
<1>5. S \in SUBSET Callers
  OBVIOUS
<1> HIDE DEF S
<1>6. QED
  BY <1>2, <1>3, <1>4, <1>5, SMT DEF Promise!Fails, Asking, Outcome, Begun

LEMMA PromiseStep ==
    IInv /\ CarriedUntold /\ Written /\ [Next]_vars => [Promise!Next]_(Promise!vars)
<1> SUFFICES ASSUME IInv, CarriedUntold, Written, [Next]_vars
             PROVE  Promise!Next \/ UNCHANGED Promise!vars
  OBVIOUS
<1> USE DEF caller, world
<1>1. CASE UNCHANGED <<nextId, caller, inbox, asked>>
  BY <1>1, NoRequestChanges
<1>2. ASSUME NEW t \in Callers, CheckAlive(t) \/ WriteFails(t) \/ TimeOut(t)
      PROVE  UNCHANGED Promise!vars
  <2>1. /\ UNCHANGED <<nextId, id, inbox, asked>>
        /\ \A u \in Callers : stage'[u] = "idle" <=> stage[u] = "idle"
    BY <1>2 DEF CheckAlive, WriteFails, TimeOut, IInv, TypeOK
  <2>2. QED
    BY <2>1, NoRequestChanges
<1>3. ASSUME NEW t \in Callers, Begin(t) \/ Write(t) \/ Receive(t) \/ Unregister(t)
      PROVE  Promise!Next
  BY <1>3, BeginIsBegin, WriteIsAsk, ReturnIsReturn DEF Promise!Next
<1>4. CASE Deliver
  BY <1>4, DeliverAnswers DEF Promise!Next
<1>5. CASE FailPending /\ UNCHANGED <<nextId, caller, asked>>
  BY <1>5, DrainFails DEF Promise!Next
<1>6. QED
  BY <1>1, <1>2, <1>3, <1>4, <1>5
  DEF Next, vars, NotifyFails, TakeSender, MalformedLine, ReadFails, EndOfOutput,
      ReaderMarksDead, ReaderDrains, Swap, ShutdownDrains, Kill, ChildExits, ChildStopsReading

\* The transport implements RequestPromise for any number of callers, closers
\* and requests.
THEOREM TransportKeepsPromise == Spec => KeepsRequestPromise
<1>1. Init => Promise!Init
  <2> SUFFICES ASSUME Init PROVE Promise!Init
    OBVIOUS
  <2>1. /\ Asking = [t \in Callers |-> 0]
        /\ Outcome = [t \in Callers |-> Nothing]
        /\ Begun = {}
    BY DEF Init, Asking, Outcome, Begun, Ids
  <2>2. QED
    BY <2>1 DEF Init, Promise!Init, Asking, Outcome, Begun
<1>2. Init => CarriedUntold /\ Written
  BY DEF Init, CarriedUntold, Written
<1>3. QED
  BY <1>1, <1>2, InvInit, InvStep, UntoldStep, WrittenStep, PromiseStep, PTL
  DEF Spec, KeepsRequestPromise, Promise!Spec
================================================================================
