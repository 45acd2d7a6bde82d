------------------------- MODULE ExecutionEngineProofs -------------------------
(***************************************************************************)
(* Proofs about ExecutionEngine, for every set of plans, every assignment  *)
(* of instruments and client order ids and any number of restarts.         *)
(*                                                                         *)
(* Beside the properties themselves the inductive invariants (Agreement,   *)
(* Placement, Doubt, Startup, AskedAreOpen) say what the last checkpoint   *)
(* can hold, which record or waiting call stands behind each placement and *)
(* which orders a call may be asking about.                                *)
(***************************************************************************)
EXTENDS ExecutionEngine, TLAPS

\* A checkpoint is never ahead of the records.
SavedRecorded == \A e \in ExecutionIds : saved[e] # "Absent" => records[e] # "Absent"

\* A checkpoint's finished orders are finished at the exchange.
SavedAgreement ==
    \A e \in ExecutionIds :
        saved[e] \in Terminal => exchange[ClientIdOf[e]] = saved[e]

\* A placement that waits for its answer is the only one and has no record.
PlacingOne ==
    call = "placing" => \E e \in ExecutionIds : todo = {e} /\ records[e] = "Absent"

\* Every request sent is behind a record, a waiting placement or a restart.
Accounted(c) ==
    \/ c \in lost
    \/ \E e \in ExecutionIds :
          /\ ClientIdOf[e] = c
          /\ records[e] # "Absent" \/ (call = "placing" /\ e \in todo)

SentAccounted ==
    \A c \in ClientIds : sent[c] <= 1 /\ (sent[c] # 0 => Accounted(c))

\* A market BUY in doubt that no restart forgot is Unknown or being placed, and
\* Unknown in the checkpoint if it is there at all.
MarketDoubt ==
    \A e \in RememberedDoubt :
        /\ records[e] = "Unknown" \/ (call = "placing" /\ todo = {e})
        /\ saved[e] \in {"Absent", "Unknown"}

UnverifiedOpen == unverified \subseteq OpenIds(records)
--------------------------------------------------------------------------------
\* What one answer of the gateway does to the engine: the part the three
\* callers of reconcile share.
LEMMA ReconciledEffect ==
    ASSUME TypeOK, NEW e \in ExecutionIds, Reconciled(e)
    PROVE  \E answer \in ReceiptStates :
              /\ records' = [records EXCEPT ![e] = answer]
              /\ answer \in Terminal => exchange[ClientIdOf[e]] = answer
              /\ complete' = ~UnknownBuy(records')
              /\ doubt' = IF answer = "Unknown" THEN doubt ELSE doubt \ {e}
              /\ unverified' = unverified \ {e}
<1>1. PICK answer \in Answers(ClientIdOf[e]) :
         /\ records' = [records EXCEPT ![e] = answer]
         /\ complete' = ~UnknownBuy(records')
         /\ doubt' = IF answer = "Unknown" THEN doubt ELSE doubt \ {e}
         /\ unverified' = unverified \ {e}
  BY DEF Reconciled
<1>2. exchange[ClientIdOf[e]] \in ExchangeStates
  BY PlanAssumption DEF TypeOK
<1>3. /\ answer \in ReceiptStates
      /\ answer \in Terminal => exchange[ClientIdOf[e]] = answer
  BY <1>1, <1>2 DEF Answers, GatewayState, ExchangeStates, ReceiptStates, Terminal
<1>4. QED
  BY <1>1, <1>3

LEMMA ReconciledTypes ==
    ASSUME TypeOK, NEW e \in ExecutionIds, Reconciled(e)
    PROVE  /\ records' \in [ExecutionIds -> ReceiptStates \cup {"Absent"}]
           /\ complete' \in BOOLEAN
           /\ doubt' \subseteq Buys
           /\ unverified' \subseteq ExecutionIds
<1>1. PICK answer \in ReceiptStates :
         /\ records' = [records EXCEPT ![e] = answer]
         /\ complete' = ~UnknownBuy(records')
         /\ doubt' = IF answer = "Unknown" THEN doubt ELSE doubt \ {e}
         /\ unverified' = unverified \ {e}
  BY ReconciledEffect
<1>2. complete' \in BOOLEAN
  BY <1>1 DEF UnknownBuy
<1>3. QED
  BY <1>1, <1>2 DEF TypeOK

LEMMA TypeInit == Init => TypeOK
  BY PlanAssumption DEF Init, TypeOK, Calls, ExchangeStates

LEMMA TypeStep == TypeOK /\ [Next]_vars => TypeOK'
<1> SUFFICES ASSUME TypeOK, [Next]_vars PROVE TypeOK'
  OBVIOUS
<1> USE DEF TypeOK, engine, environment, history
<1>1. ASSUME NEW e \in ExecutionIds, ExecuteUnavailable(e) PROVE TypeOK'
  BY <1>1 DEF ExecuteUnavailable
<1>2. ASSUME NEW e \in ExecutionIds, ExecuteSend(e) PROVE TypeOK'
  <2>1. ClientIdOf[e] \in ClientIds
    BY PlanAssumption
  <2>2. /\ exchange' \in [ClientIds -> ExchangeStates]
        /\ sent' \in [ClientIds -> Nat]
    BY <1>2, <2>1 DEF ExecuteSend, Transmitted, ExchangeStates
  <2>3. QED
    BY <1>2, <2>2 DEF ExecuteSend, Transmitted, Calls
<1>3. ASSUME NEW e \in ExecutionIds, ExecuteNotSent(e) PROVE TypeOK'
  BY <1>3 DEF ExecuteNotSent, ReceiptStates
<1>4. ASSUME NEW e \in ExecutionIds, ExecuteReply(e) PROVE TypeOK'
  <2>1. PICK placement \in Placements(ClientIdOf[e]) :
           /\ records' = [records EXCEPT ![e] = placement]
           /\ complete' = (complete /\ placement # "Unknown")
           /\ doubt' = IF placement = "Unknown" THEN doubt ELSE doubt \ {e}
    BY <1>4 DEF ExecuteReply
  <2>2. placement \in ReceiptStates
    BY <2>1 DEF Placements, Accepted, ReceiptStates
  <2>3. QED
    BY <1>4, <2>1, <2>2 DEF ExecuteReply, Calls
<1>5. ASSUME NEW e \in ExecutionIds, Reconcile(e) PROVE TypeOK'
  <2>1. CASE Reconciled(e) /\ UNCHANGED ready
    BY <1>5, <2>1, ReconciledTypes DEF Reconcile
  <2>2. CASE QueryFailed
    <3>1. ready' \in BOOLEAN /\ UNCHANGED <<records, complete, doubt, unverified>>
      BY <2>2 DEF QueryFailed
    <3>2. QED
      BY <1>5, <3>1 DEF Reconcile
  <2>3. QED
    BY <1>5, <2>1, <2>2 DEF Reconcile
<1>6. ASSUME NEW e \in ExecutionIds, ExpireUnavailable(e) PROVE TypeOK'
  BY <1>6 DEF ExpireUnavailable
<1>7. ASSUME NEW e \in ExecutionIds, ExpireCancelUnknown(e) PROVE TypeOK'
  BY <1>7 DEF ExpireCancelUnknown, ReceiptStates
<1>8. ASSUME NEW e \in ExecutionIds, ExpireCancelAnswered(e) PROVE TypeOK'
  BY <1>8 DEF ExpireCancelAnswered, ReceiptStates, Calls
<1>9. ASSUME NEW e \in ExecutionIds, ExpireReconcile(e) PROVE TypeOK'
  <2>1. CASE Reconciled(e) /\ UNCHANGED ready
    BY <1>9, <2>1, ReconciledTypes DEF ExpireReconcile, Calls
  <2>2. CASE QueryFailed
    <3>1. ready' \in BOOLEAN /\ UNCHANGED <<records, complete, doubt, unverified>>
      BY <2>2 DEF QueryFailed
    <3>2. QED
      BY <1>9, <3>1 DEF ExpireReconcile, Calls
  <2>3. QED
    BY <1>9, <2>1, <2>2 DEF ExpireReconcile
<1>10. ASSUME NEW e \in ExecutionIds, StartupReconcile(e) PROVE TypeOK'
  BY <1>10, ReconciledTypes DEF StartupReconcile
<1>11. CASE StartupBegin
  BY <1>11 DEF StartupBegin, Calls, OpenIds
<1>12. CASE StartupFails
  BY <1>12 DEF StartupFails, QueryFailed, Calls
<1>13. CASE StartupReturns
  BY <1>13 DEF StartupReturns, Calls
<1>14. CASE Checkpoint
  BY <1>14 DEF Checkpoint
<1>15. CASE Restart
  <2>1. /\ restarts' \in 0..MaxRestarts
        /\ records' = saved
        /\ unverified' \subseteq ExecutionIds
        /\ doubt' \subseteq doubt
    BY <1>15, PlanAssumption DEF Restart, OpenIds
  <2>2. lost' \subseteq ClientIds
    BY <1>15, PlanAssumption DEF Restart, Recorded
  <2>3. QED
    BY <1>15, <2>1, <2>2 DEF Restart, Calls
<1>16. CASE ProcessDies
  BY <1>16 DEF ProcessDies
<1>17. ASSUME NEW c \in ClientIds, Arrive(c) PROVE TypeOK'
  BY <1>17 DEF Arrive, Arrives, ExchangeStates
<1>18. ASSUME NEW c \in ClientIds, Progress(c) PROVE TypeOK'
  BY <1>18 DEF Progress, Progresses, OnBook, ExchangeStates
<1>19. CASE UNCHANGED vars
  BY <1>19 DEF vars
<1>20. QED
  BY <1>1, <1>2, <1>3, <1>4, <1>5, <1>6, <1>7, <1>8, <1>9, <1>10, <1>11,
     <1>12, <1>13, <1>14, <1>15, <1>16, <1>17, <1>18, <1>19 DEF Next

\* Type correctness of the engine's records, flag and checkpoint.
THEOREM TypeCorrect == Spec => []TypeOK
  BY TypeInit, TypeStep, PTL DEF Spec
--------------------------------------------------------------------------------
LEMMA GateStep ==
    TypeOK /\ CompleteMeansNoUnknownBuy /\ [Next]_vars => CompleteMeansNoUnknownBuy'
<1> SUFFICES ASSUME TypeOK, CompleteMeansNoUnknownBuy, [Next]_vars
             PROVE  CompleteMeansNoUnknownBuy'
  OBVIOUS
<1> USE DEF CompleteMeansNoUnknownBuy
<1>1. ASSUME NEW e \in ExecutionIds,
             ExecuteUnavailable(e) \/ ExecuteNotSent(e) \/ ExpireUnavailable(e)
                \/ ExpireCancelUnknown(e)
      PROVE  CompleteMeansNoUnknownBuy'
  BY <1>1 DEF ExecuteUnavailable, ExecuteNotSent, ExpireUnavailable, ExpireCancelUnknown
<1>2. ASSUME NEW e \in ExecutionIds, ExecuteReply(e)
      PROVE  CompleteMeansNoUnknownBuy'
  <2>1. PICK placement \in Placements(ClientIdOf[e]) :
           /\ records' = [records EXCEPT ![e] = placement]
           /\ complete' = (complete /\ placement # "Unknown")
    BY <1>2 DEF ExecuteReply
  <2>2. ASSUME complete', UnknownBuy(records') PROVE FALSE
    BY <2>1, <2>2, PlanAssumption DEF UnknownBuy, TypeOK
  <2>3. QED
    BY <2>2 DEF UnknownBuy
<1>3. ASSUME NEW e \in ExecutionIds, ExpireCancelAnswered(e)
      PROVE  CompleteMeansNoUnknownBuy'
  <2>1. UnknownBuy(records') => UnknownBuy(records)
    BY <1>3, PlanAssumption DEF ExpireCancelAnswered, UnknownBuy, TypeOK
  <2>2. QED
    BY <1>3, <2>1 DEF ExpireCancelAnswered, UnknownBuy
<1>4. ASSUME NEW e \in ExecutionIds, Reconciled(e)
      PROVE  CompleteMeansNoUnknownBuy'
  BY <1>4 DEF Reconciled, UnknownBuy
<1>5. CASE QueryFailed
  BY <1>5 DEF QueryFailed, UnknownBuy
<1>6. CASE StartupReturns
  <2>1. ASSUME complete', UnknownBuy(records') PROVE FALSE
    BY <1>6, <2>1, PlanAssumption DEF StartupReturns, UnknownBuy
  <2>2. QED
    BY <2>1 DEF UnknownBuy
<1>7. CASE StartupBegin \/ Restart
  BY <1>7 DEF StartupBegin, Restart
<1>8. CASE UNCHANGED <<records, complete>>
  BY <1>8 DEF UnknownBuy
<1>9. ASSUME NEW e \in ExecutionIds, Next,
             Reconcile(e) \/ ExpireReconcile(e) \/ StartupReconcile(e)
      PROVE  Reconciled(e) \/ QueryFailed
  BY <1>9 DEF Reconcile, ExpireReconcile, StartupReconcile
<1>10. QED
  BY <1>1, <1>2, <1>3, <1>4, <1>5, <1>6, <1>7, <1>8, <1>9
  DEF Next, vars, engine, ExecuteSend, Transmitted, StartupFails, Checkpoint, ProcessDies, Arrive, Arrives,
      Progress, Progresses, OnBook

\* reconciliation_complete implies, for any number of orders, that no BUY is
\* recorded Unknown.
THEOREM CompleteIsSound == Spec => []CompleteMeansNoUnknownBuy
<1>1. Init => CompleteMeansNoUnknownBuy
  BY PlanAssumption DEF Init, CompleteMeansNoUnknownBuy, UnknownBuy
<1>2. QED
  BY <1>1, GateStep, TypeCorrect, PTL DEF Spec
--------------------------------------------------------------------------------
Agreement == TerminalAgreement /\ SavedAgreement

\* A step that gives one record a state the exchange backs keeps the agreement.
LEMMA AgreementAfterUpdate ==
    ASSUME TypeOK, Agreement, NEW e \in ExecutionIds, NEW state \in ReceiptStates,
           records' = [records EXCEPT ![e] = state],
           state \in Terminal => exchange[ClientIdOf[e]] = state,
           UNCHANGED <<saved, exchange>>
    PROVE  Agreement'
  BY DEF Agreement, TerminalAgreement, SavedAgreement, TypeOK

LEMMA AgreementStep == TypeOK /\ Agreement /\ [Next]_vars => Agreement'
<1> SUFFICES ASSUME TypeOK, Agreement, [Next]_vars PROVE Agreement'
  OBVIOUS
<1> USE DEF engine, environment, history
<1>1. CASE UNCHANGED <<records, saved, exchange>>
  BY <1>1 DEF Agreement, TerminalAgreement, SavedAgreement
<1>2. ASSUME NEW e \in ExecutionIds, ExecuteSend(e) PROVE Agreement'
  <2>1. \A d \in ClientIds : exchange[d] # "None" => exchange'[d] = exchange[d]
    BY <1>2 DEF ExecuteSend, Transmitted, TypeOK
  <2>2. QED
    BY <1>2, <2>1, PlanAssumption
    DEF ExecuteSend, Transmitted, Agreement, TerminalAgreement, SavedAgreement, Terminal
<1>3. ASSUME NEW e \in ExecutionIds, ExecuteNotSent(e) PROVE Agreement'
  BY <1>3, AgreementAfterUpdate DEF ExecuteNotSent, ReceiptStates, Terminal
<1>4. ASSUME NEW e \in ExecutionIds, ExecuteReply(e) PROVE Agreement'
  <2>1. PICK placement \in Placements(ClientIdOf[e]) :
           records' = [records EXCEPT ![e] = placement]
    BY <1>4 DEF ExecuteReply
  <2>2. /\ placement \in ReceiptStates
        /\ placement \in Terminal => exchange[ClientIdOf[e]] = placement
    BY <2>1 DEF Placements, Accepted, ReceiptStates, Terminal
  <2>3. UNCHANGED <<saved, exchange>>
    BY <1>4 DEF ExecuteReply
  <2>4. QED
    BY <2>1, <2>2, <2>3, AgreementAfterUpdate
<1>5. ASSUME NEW e \in ExecutionIds, Reconciled(e), UNCHANGED <<saved, exchange>>
      PROVE  Agreement'
  BY <1>5, ReconciledEffect, AgreementAfterUpdate
<1>6. ASSUME NEW e \in ExecutionIds, ExpireCancelUnknown(e) PROVE Agreement'
  BY <1>6, AgreementAfterUpdate DEF ExpireCancelUnknown, ReceiptStates, Terminal
<1>7. ASSUME NEW e \in ExecutionIds, ExpireCancelAnswered(e) PROVE Agreement'
  BY <1>7, AgreementAfterUpdate DEF ExpireCancelAnswered, ReceiptStates, Terminal
<1>8. ASSUME NEW e \in ExecutionIds,
             Reconcile(e) \/ ExpireReconcile(e) \/ StartupReconcile(e)
      PROVE  Agreement'
  <2>1. UNCHANGED <<saved, exchange>>
    BY <1>8 DEF Reconcile, ExpireReconcile, StartupReconcile
  <2>2. Reconciled(e) \/ UNCHANGED records
    BY <1>8 DEF Reconcile, ExpireReconcile, StartupReconcile, QueryFailed
  <2>3. QED
    BY <1>1, <1>5, <2>1, <2>2
<1>9. CASE Checkpoint
  BY <1>9 DEF Checkpoint, Agreement, TerminalAgreement, SavedAgreement
<1>10. CASE Restart
  BY <1>10 DEF Restart, Agreement, TerminalAgreement, SavedAgreement
<1>11. ASSUME NEW c \in ClientIds, Arrive(c) \/ Progress(c) PROVE Agreement'
  <2>1. \A d \in ClientIds : exchange[d] \in Terminal => exchange'[d] = exchange[d]
    BY <1>11 DEF Arrive, Arrives, Progress, Progresses, OnBook, TypeOK, Terminal
  <2>2. UNCHANGED <<records, saved>>
    BY <1>11 DEF Arrive, Arrives, Progress, Progresses, OnBook
  <2>3. QED
    BY <2>1, <2>2, PlanAssumption DEF Agreement, TerminalAgreement, SavedAgreement
<1>12. QED
  BY <1>1, <1>2, <1>3, <1>4, <1>6, <1>7, <1>8, <1>9, <1>10, <1>11
  DEF Next, vars, ExecuteUnavailable, ExpireUnavailable, StartupBegin, StartupFails,
      StartupReturns, QueryFailed, ProcessDies

\* Whatever races with whatever, a receipt that reads Filled, Cancelled or
\* Rejected agrees with the exchange.
THEOREM TerminalReceiptsAgree == Spec => []TerminalAgreement
<1>1. Init => Agreement
  BY PlanAssumption DEF Init, Agreement, TerminalAgreement, SavedAgreement, Terminal
<1>2. Agreement => TerminalAgreement
  BY DEF Agreement
<1>3. QED
  BY <1>1, <1>2, AgreementStep, TypeCorrect, PTL DEF Spec
--------------------------------------------------------------------------------
Placement == SavedRecorded /\ PlacingOne /\ SentAccounted

LEMMA PlacementInit == Init => Placement
  BY PlanAssumption DEF Init, Placement, SavedRecorded, PlacingOne, SentAccounted

\* Records are never removed except by a restart; what a step neither sends,
\* removes nor takes out of a placement stays accounted for.
LEMMA PlacementKept ==
    ASSUME TypeOK, Placement,
           \A e \in ExecutionIds : records[e] # "Absent" => records'[e] # "Absent",
           call # "placing",
           call' # "placing",
           UNCHANGED <<saved, sent, lost>>
    PROVE  Placement'
  BY DEF Placement, SavedRecorded, PlacingOne, SentAccounted, Accounted

LEMMA PlacementStep == TypeOK /\ Placement /\ [Next]_vars => Placement'
<1> SUFFICES ASSUME TypeOK, Placement, [Next]_vars PROVE Placement'
  OBVIOUS
<1> USE DEF engine, environment, history
<1>1. CASE UNCHANGED <<records, call, todo, saved, sent, lost>>
  BY <1>1 DEF Placement, SavedRecorded, PlacingOne, SentAccounted, Accounted
<1>2. ASSUME NEW e \in ExecutionIds, ExecuteSend(e) PROVE Placement'
  <2>1. /\ ClientIdOf[e] \notin lost
        /\ \A r \in ExecutionIds : records[r] # "Absent" => ClientIdOf[r] # ClientIdOf[e]
        /\ call = "idle"
        /\ ClientIdOf[e] \in ClientIds
    BY <1>2, PlanAssumption DEF ExecuteSend, Transmitted, Execute, Submitted, NoDuplicate, Recorded
  <2>2. sent[ClientIdOf[e]] = 0
    BY <2>1 DEF Placement, SentAccounted, Accounted, TypeOK
  <2>3. /\ UNCHANGED <<records, saved, lost>>
        /\ call' = "placing"
        /\ todo' = {e}
        /\ sent' = [sent EXCEPT ![ClientIdOf[e]] = @ + 1]
    BY <1>2 DEF ExecuteSend, Transmitted
  <2>4. \A c \in ClientIds : Accounted(c) => Accounted(c)'
    BY <2>1, <2>3 DEF Accounted
  <2>5. Accounted(ClientIdOf[e])'
    BY <2>3 DEF Accounted
  <2>6. SentAccounted'
    BY <2>2, <2>3, <2>4, <2>5 DEF Placement, SentAccounted, TypeOK
  <2>7. QED
    BY <2>1, <2>3, <2>6 DEF Placement, SavedRecorded, PlacingOne
<1>3. ASSUME NEW e \in ExecutionIds, ExecuteNotSent(e) PROVE Placement'
  BY <1>3, PlacementKept DEF ExecuteNotSent, Execute, Submitted, TypeOK
<1>4. ASSUME NEW e \in ExecutionIds, ExecuteReply(e) PROVE Placement'
  <2>1. PICK placement \in Placements(ClientIdOf[e]) :
           records' = [records EXCEPT ![e] = placement]
    BY <1>4 DEF ExecuteReply
  <2>2. placement # "Absent"
    BY <2>1 DEF Placements, Accepted
  <2>3. todo = {e}
    BY <1>4 DEF ExecuteReply, Placement, PlacingOne
  <2>4. UNCHANGED <<saved, sent, lost>> /\ call' = "idle"
    BY <1>4 DEF ExecuteReply
  <2>5. \A c \in ClientIds : Accounted(c) => Accounted(c)'
    BY <2>1, <2>2, <2>3, <2>4 DEF Accounted, TypeOK
  <2>6. QED
    BY <2>1, <2>2, <2>4, <2>5
    DEF Placement, SavedRecorded, PlacingOne, SentAccounted, TypeOK
<1>5. ASSUME NEW e \in ExecutionIds,
             Reconcile(e) \/ ExpireReconcile(e) \/ StartupReconcile(e)
      PROVE  Placement'
  <2>1. /\ call # "placing"
        /\ call' # "placing"
        /\ UNCHANGED <<saved, sent, lost>>
    BY <1>5 DEF Reconcile, ExpireReconcile, StartupReconcile
  <2>2. Reconciled(e) \/ UNCHANGED records
    BY <1>5 DEF Reconcile, ExpireReconcile, StartupReconcile, QueryFailed
  <2>3. \A d \in ExecutionIds : records[d] # "Absent" => records'[d] # "Absent"
    BY <2>2, ReconciledEffect DEF TypeOK, ReceiptStates
  <2>4. QED
    BY <2>1, <2>3, PlacementKept
<1>6. ASSUME NEW e \in ExecutionIds,
             ExpireCancelUnknown(e) \/ ExpireCancelAnswered(e)
      PROVE  Placement'
  BY <1>6, PlacementKept DEF ExpireCancelUnknown, ExpireCancelAnswered, Expirable, TypeOK
<1>7. CASE StartupBegin \/ StartupFails \/ StartupReturns
  BY <1>7, PlacementKept DEF StartupBegin, StartupFails, StartupReturns, QueryFailed
<1>8. CASE Checkpoint
  BY <1>8 DEF Checkpoint, Placement, SavedRecorded, PlacingOne, SentAccounted, Accounted
<1>9. CASE Restart
  <2>1. \A c \in ClientIds : Accounted(c) => Accounted(c)'
    BY <1>9 DEF Restart, Accounted, Recorded
  <2>2. /\ records' = saved
        /\ call' = "idle"
        /\ UNCHANGED <<saved, sent>>
    BY <1>9 DEF Restart
  <2>3. QED
    BY <2>1, <2>2 DEF Placement, SavedRecorded, PlacingOne, SentAccounted
<1>10. QED
  BY <1>1, <1>2, <1>3, <1>4, <1>5, <1>6, <1>7, <1>8, <1>9
  DEF Next, vars, ExecuteUnavailable, ExpireUnavailable, ProcessDies, Arrive, Arrives, Progress, Progresses, OnBook

LEMMA PlacementInvariant == Spec => []Placement
  BY PlacementInit, PlacementStep, TypeCorrect, PTL DEF Spec

\* No client order id is sent to the exchange twice, for any number of plans,
\* retries, restarts and stale checkpoints.
THEOREM NeverPlacedTwice == Spec => []OnePlacementPerOrder
<1>1. Placement => OnePlacementPerOrder
  BY DEF Placement, SentAccounted, OnePlacementPerOrder
<1>2. QED
  BY <1>1, PlacementInvariant, PTL

Remembered == restarts = 0 => lost = {}

LEMMA RememberedStep == TypeOK /\ Remembered /\ [Next]_vars => Remembered'
<1> SUFFICES ASSUME TypeOK, Remembered, [Next]_vars PROVE Remembered'
  OBVIOUS
<1> USE DEF engine, environment, history
<1>1. CASE UNCHANGED <<restarts, lost>>
  BY <1>1 DEF Remembered
<1>2. CASE Restart
  BY <1>2, PlanAssumption DEF Restart, Remembered, TypeOK
<1>3. QED
  BY <1>1, <1>2
  DEF Next, vars, ExecuteUnavailable, ExecuteSend, ExecuteNotSent, ExecuteReply, Reconcile,
      ExpireUnavailable, ExpireCancelUnknown, ExpireCancelAnswered, ExpireReconcile,
      StartupReconcile, StartupBegin, StartupFails, StartupReturns, Checkpoint, ProcessDies,
      Arrive, Arrives, Progress, Progresses

\* While the program runs, an order that was sent is never out of the engine's
\* sight: execute's one record per placement is neither late nor removed.
THEOREM NothingForgotten == Spec => []OnlyRestartsForget
<1>1. Init => Remembered
  BY DEF Init, Remembered
<1>2. TypeOK /\ Placement /\ Remembered => OnlyRestartsForget
  BY DEF Placement, PlacingOne, SentAccounted, Accounted, Remembered, OnlyRestartsForget,
         Recorded, TypeOK
<1>3. QED
  BY <1>1, <1>2, RememberedStep, PlacementInvariant, TypeCorrect, PTL DEF Spec
--------------------------------------------------------------------------------
\* The records the engine waits to hear about are open.
AskedAreOpen ==
    /\ call = "startup" => todo \subseteq OpenIds(records)
    /\ call = "expiring" => \A e \in todo : records[e] = "CancelPending"

LEMMA AskedStep == TypeOK /\ AskedAreOpen /\ [Next]_vars => AskedAreOpen'
<1> SUFFICES ASSUME TypeOK, AskedAreOpen, [Next]_vars PROVE AskedAreOpen'
  OBVIOUS
<1> USE DEF engine, environment, history
<1>1. CASE UNCHANGED <<records, call, todo>>
  BY <1>1 DEF AskedAreOpen, OpenIds
<1>2. CASE call' \in {"idle", "placing"}
  BY <1>2 DEF AskedAreOpen
<1>3. ASSUME NEW e \in ExecutionIds, ExpireCancelAnswered(e) PROVE AskedAreOpen'
  BY <1>3 DEF ExpireCancelAnswered, AskedAreOpen, TypeOK
<1>4. CASE StartupBegin
  BY <1>4 DEF StartupBegin, AskedAreOpen, OpenIds
<1>5. ASSUME NEW e \in ExecutionIds, StartupReconcile(e) PROVE AskedAreOpen'
  <2>1. \A d \in ExecutionIds : d # e => records'[d] = records[d]
    BY <1>5, ReconciledEffect DEF StartupReconcile, TypeOK
  <2>2. call = "startup" /\ call' = "startup" /\ todo' = todo \ {e}
    BY <1>5 DEF StartupReconcile
  <2>3. QED
    BY <2>1, <2>2 DEF AskedAreOpen, OpenIds, TypeOK
<1>6. ASSUME NEW e \in ExecutionIds,
             ExecuteNotSent(e) \/ Reconcile(e) \/ ExpireCancelUnknown(e)
      PROVE  call' = "idle"
  BY <1>6 DEF ExecuteNotSent, Execute, Submitted, Reconcile, ExpireCancelUnknown, Expirable
<1>7. QED
  BY <1>1, <1>2, <1>3, <1>4, <1>5, <1>6
  DEF Next, vars, ExecuteUnavailable, ExecuteSend, ExecuteReply, ExpireUnavailable,
      ExpireReconcile, StartupFails, StartupReturns, Checkpoint, Restart, ProcessDies,
      Arrive, Arrives, Progress, Progresses

\* A record that no step but a query writes.
LEMMA OneRecordWritten ==
    ASSUME TypeOK, NEW e \in ExecutionIds, NEW state,
           records' = [records EXCEPT ![e] = state],
           records[e] \notin {"Filled", "Cancelled"}
    PROVE  \A d \in ExecutionIds :
               records[d] \in {"Filled", "Cancelled"} => records'[d] = records[d]
  BY DEF TypeOK

\* A receipt that reads Filled or Cancelled does so until the program stops.
THEOREM FinalReceiptsNeverReopened == Spec => FinalReceiptsStay
<1> DEFINE Stays ==
        \A e \in ExecutionIds :
            records[e] \in {"Filled", "Cancelled"} /\ restarts' = restarts
                => records'[e] = records[e]
<1>1. ASSUME TypeOK, Placement, AskedAreOpen, [Next]_vars PROVE [Stays]_vars
  <2> USE <1>1 DEF engine, environment, history
  <2>1. CASE UNCHANGED records
    BY <2>1
  <2>2. ASSUME NEW e \in ExecutionIds, ExecuteNotSent(e) PROVE Stays
    <3>1. records[e] = "Absent"
      BY <2>2 DEF ExecuteNotSent, Execute, NoDuplicate, Recorded
    <3>2. QED
      BY <2>2, <3>1, OneRecordWritten DEF ExecuteNotSent
  <2>3. ASSUME NEW e \in ExecutionIds, ExecuteReply(e) PROVE Stays
    <3>1. records[e] = "Absent"
      BY <2>3 DEF ExecuteReply, Placement, PlacingOne
    <3>2. PICK placement : records' = [records EXCEPT ![e] = placement]
      BY <2>3 DEF ExecuteReply
    <3>3. QED
      BY <3>1, <3>2, OneRecordWritten
  <2>4. ASSUME NEW e \in ExecutionIds,
               Reconcile(e) \/ ExpireReconcile(e) \/ StartupReconcile(e)
        PROVE  Stays
    <3>1. records[e] \notin {"Filled", "Cancelled"}
      BY <2>4 DEF Reconcile, ExpireReconcile, StartupReconcile, AskedAreOpen, OpenIds, Terminal
    <3>2. Reconciled(e) \/ UNCHANGED records
      BY <2>4 DEF Reconcile, ExpireReconcile, StartupReconcile, QueryFailed
    <3>3. CASE Reconciled(e)
      BY <3>1, <3>3, ReconciledEffect, OneRecordWritten
    <3>4. QED
      BY <2>1, <3>2, <3>3
  <2>5. ASSUME NEW e \in ExecutionIds, ExpireCancelUnknown(e) \/ ExpireCancelAnswered(e)
        PROVE  Stays
    BY <2>5, OneRecordWritten DEF ExpireCancelUnknown, ExpireCancelAnswered, Expirable
  <2>6. CASE Restart
    BY <2>6, PlanAssumption DEF Restart, TypeOK
  <2>7. QED
    BY <2>1, <2>2, <2>3, <2>4, <2>5, <2>6
    DEF Next, vars, ExecuteUnavailable, ExecuteSend, ExpireUnavailable, StartupBegin,
        StartupFails, StartupReturns, QueryFailed, Checkpoint, ProcessDies, Arrive, Arrives,
        Progress, Progresses
<1>2. Init => AskedAreOpen
  BY DEF Init, AskedAreOpen
<1>3. QED
  BY <1>1, <1>2, AskedStep, PlacementInvariant, TypeCorrect, PTL DEF Spec, FinalReceiptsStay
--------------------------------------------------------------------------------
Doubt == MarketDoubt /\ AtMostOneMarketBuyInDoubt

\* No known market BUY is in doubt when the engine is idle and its gate open.
LEMMA GateOpenNoDoubt ==
    ASSUME TypeOK, Doubt, call = "idle", CanAcceptNewRisk
    PROVE  RememberedDoubt = {}
  BY DEF Doubt, MarketDoubt, RememberedDoubt, CanAcceptNewRisk, UnknownBuy, TypeOK

\* A step that shrinks the doubt and leaves the records and checkpoint of the
\* market BUYs still in it alone.
LEMMA DoubtKept ==
    ASSUME TypeOK, Doubt,
           doubt' \subseteq doubt,
           \A e \in RememberedDoubt' : records[e] = "Unknown" => records'[e] = "Unknown",
           call # "placing",
           UNCHANGED <<saved, lost>>
    PROVE  Doubt'
  BY DEF Doubt, MarketDoubt, AtMostOneMarketBuyInDoubt, RememberedDoubt

LEMMA DoubtStep == TypeOK /\ Placement /\ Doubt /\ [Next]_vars => Doubt'
<1> SUFFICES ASSUME TypeOK, Placement, Doubt, [Next]_vars PROVE Doubt'
  OBVIOUS
<1> USE DEF engine, environment, history
<1>1. CASE UNCHANGED <<records, call, todo, saved, doubt, lost>>
  BY <1>1 DEF Doubt, MarketDoubt, AtMostOneMarketBuyInDoubt, RememberedDoubt
<1>2. ASSUME NEW e \in ExecutionIds, ExecuteSend(e) \/ ExecuteNotSent(e) PROVE Doubt'
  <2>1. /\ call = "idle"
        /\ e \in Buys => CanAcceptNewRisk
        /\ records[e] = "Absent"
        /\ UNCHANGED <<saved, lost>>
        /\ doubt' = doubt \cup ({e} \cap Buys)
    BY <1>2
    DEF ExecuteSend, Transmitted, ExecuteNotSent, Execute, Submitted, RiskGateOpen, NoDuplicate, Recorded
  <2>2. saved[e] = "Absent"
    BY <2>1 DEF Placement, SavedRecorded
  <2>3. e \in Buys => RememberedDoubt = {}
    BY <2>1, GateOpenNoDoubt
  <2>4. AtMostOneMarketBuyInDoubt'
    BY <2>1, <2>3 DEF Doubt, AtMostOneMarketBuyInDoubt, RememberedDoubt
  <2>5. CASE ExecuteSend(e)
    <3>1. /\ UNCHANGED records
          /\ call' = "placing"
          /\ todo' = {e}
      BY <2>5 DEF ExecuteSend, Transmitted
    <3>2. QED
      BY <2>1, <2>2, <2>4, <3>1 DEF Doubt, MarketDoubt, RememberedDoubt
  <2>6. CASE ExecuteNotSent(e)
    <3>1. records' = [records EXCEPT ![e] = "Unknown"] /\ UNCHANGED call
      BY <2>6 DEF ExecuteNotSent
    <3>2. QED
      BY <2>1, <2>2, <2>4, <3>1 DEF Doubt, MarketDoubt, RememberedDoubt, TypeOK
  <2>7. QED
    BY <1>2, <2>5, <2>6
<1>3. ASSUME NEW e \in ExecutionIds, ExecuteReply(e) PROVE Doubt'
  <2>1. PICK placement \in Placements(ClientIdOf[e]) :
           /\ records' = [records EXCEPT ![e] = placement]
           /\ doubt' = IF placement = "Unknown" THEN doubt ELSE doubt \ {e}
    BY <1>3 DEF ExecuteReply
  <2>2. todo = {e} /\ UNCHANGED <<saved, lost>>
    BY <1>3 DEF ExecuteReply, Placement, PlacingOne
  <2>3. QED
    BY <2>1, <2>2 DEF Doubt, MarketDoubt, AtMostOneMarketBuyInDoubt, RememberedDoubt, TypeOK
<1>4. ASSUME NEW e \in ExecutionIds,
             Reconcile(e) \/ ExpireReconcile(e) \/ StartupReconcile(e)
      PROVE  Doubt'
  <2>1. call # "placing" /\ UNCHANGED <<saved, lost>>
    BY <1>4 DEF Reconcile, ExpireReconcile, StartupReconcile
  <2>2. Reconciled(e) \/ UNCHANGED <<records, doubt>>
    BY <1>4 DEF Reconcile, ExpireReconcile, StartupReconcile, QueryFailed
  <2>3. CASE Reconciled(e)
    <3>1. PICK answer \in ReceiptStates :
             /\ records' = [records EXCEPT ![e] = answer]
             /\ doubt' = IF answer = "Unknown" THEN doubt ELSE doubt \ {e}
      BY <2>3, ReconciledEffect
    <3>2. \A d \in RememberedDoubt' : records[d] = "Unknown" => records'[d] = "Unknown"
      BY <3>1 DEF TypeOK, RememberedDoubt
    <3>3. QED
      BY <2>1, <3>1, <3>2, DoubtKept
  <2>4. CASE UNCHANGED <<records, doubt>>
    BY <2>1, <2>4, DoubtKept
  <2>5. QED
    BY <2>2, <2>3, <2>4
<1>5. ASSUME NEW e \in ExecutionIds, ExpireCancelUnknown(e) \/ ExpireCancelAnswered(e)
      PROVE  Doubt'
  <2>1. /\ call = "idle"
        /\ e \in Limits
        /\ doubt' \subseteq doubt
        /\ UNCHANGED <<saved, lost>>
        /\ \E state \in ReceiptStates : records' = [records EXCEPT ![e] = state]
    BY <1>5 DEF ExpireCancelUnknown, ExpireCancelAnswered, Expirable, ReceiptStates
  <2>2. \A d \in RememberedDoubt' : records[d] = "Unknown" => records'[d] = "Unknown"
    BY <2>1 DEF TypeOK, RememberedDoubt
  <2>3. QED
    BY <2>1, <2>2, DoubtKept
<1>6. CASE StartupBegin \/ StartupFails \/ StartupReturns
  BY <1>6, DoubtKept DEF StartupBegin, StartupFails, StartupReturns, QueryFailed
<1>7. CASE Checkpoint
  BY <1>7 DEF Checkpoint, Doubt, MarketDoubt, AtMostOneMarketBuyInDoubt, RememberedDoubt
<1>8. CASE Restart
  <2>1. /\ records' = saved
        /\ UNCHANGED <<saved, doubt>>
        /\ lost \subseteq lost'
    BY <1>8 DEF Restart
  <2>2. RememberedDoubt' \subseteq RememberedDoubt
    BY <2>1 DEF RememberedDoubt
  <2>3. \A e \in RememberedDoubt' : saved[e] # "Absent"
    <3>1. SUFFICES ASSUME NEW e \in RememberedDoubt', saved[e] = "Absent" PROVE FALSE
      OBVIOUS
    <3>2. e \in ExecutionIds /\ (records[e] = "Unknown" \/ (call = "placing" /\ todo = {e}))
      BY <2>2, <3>1, PlanAssumption DEF Doubt, MarketDoubt, RememberedDoubt, TypeOK
    <3>3. ClientIdOf[e] \in lost'
      BY <1>8, <3>1, <3>2 DEF Restart, Recorded
    <3>4. QED
      BY <3>1, <3>3 DEF RememberedDoubt
  <2>4. QED
    BY <2>1, <2>2, <2>3 DEF Doubt, MarketDoubt, AtMostOneMarketBuyInDoubt
<1>9. QED
  BY <1>1, <1>2, <1>3, <1>4, <1>5, <1>6, <1>7, <1>8
  DEF Next, vars, ExecuteUnavailable, ExpireUnavailable, ProcessDies, Arrive, Arrives, Progress, Progresses, OnBook

\* While the fate of a market BUY that it knows of is unreported, the engine
\* sends no other market BUY, whatever it reconciles, expires or restarts from.
THEOREM OneMarketBuyInDoubt == Spec => []AtMostOneMarketBuyInDoubt
<1>1. Init => Doubt
  BY DEF Init, Doubt, MarketDoubt, AtMostOneMarketBuyInDoubt, RememberedDoubt
<1>2. Doubt => AtMostOneMarketBuyInDoubt
  BY DEF Doubt
<1>3. QED
  BY <1>1, <1>2, DoubtStep, PlacementInvariant, TypeCorrect, PTL DEF Spec

\* Before the first restart it knows of all of them (execute records every order
\* it sent): of all the market BUYs ever sent, at most one is unreported.
THEOREM OneInDoubtBeforeRestart ==
    Spec => [](restarts = 0 => \A a, b \in doubt \ Limits : a = b)
<1>1. AtMostOneMarketBuyInDoubt /\ Remembered => (restarts = 0 => \A a, b \in doubt \ Limits : a = b)
  BY DEF AtMostOneMarketBuyInDoubt, RememberedDoubt, Remembered
<1>2. Init => Remembered
  BY DEF Init, Remembered
<1>3. QED
  BY <1>1, <1>2, OneMarketBuyInDoubt, RememberedStep, TypeCorrect, PTL DEF Spec
--------------------------------------------------------------------------------
Startup == UnverifiedOpen /\ StartupCoversRestored

LEMMA StartupStep == TypeOK /\ Placement /\ Startup /\ [Next]_vars => Startup'
<1> SUFFICES ASSUME TypeOK, Placement, Startup, [Next]_vars PROVE Startup'
  OBVIOUS
<1> USE DEF engine, environment, history
<1>1. CASE UNCHANGED <<records, unverified>> /\ call' # "startup"
  BY <1>1 DEF Startup, UnverifiedOpen, StartupCoversRestored, OpenIds
<1>2. CASE UNCHANGED <<records, call, todo, unverified>>
  BY <1>2 DEF Startup, UnverifiedOpen, StartupCoversRestored, OpenIds
<1>3. ASSUME NEW e \in ExecutionIds, ExecuteNotSent(e) PROVE Startup'
  BY <1>3 DEF ExecuteNotSent, Execute, Submitted, Startup, UnverifiedOpen,
              StartupCoversRestored, OpenIds, Terminal, TypeOK
<1>4. ASSUME NEW e \in ExecutionIds, ExecuteReply(e) PROVE Startup'
  <2>1. PICK placement \in Placements(ClientIdOf[e]) :
           records' = [records EXCEPT ![e] = placement]
    BY <1>4 DEF ExecuteReply
  <2>2. records[e] = "Absent"
    BY <1>4 DEF ExecuteReply, Placement, PlacingOne
  <2>3. call' = "idle" /\ UNCHANGED unverified
    BY <1>4 DEF ExecuteReply
  <2>4. QED
    BY <2>1, <2>2, <2>3
    DEF Startup, UnverifiedOpen, StartupCoversRestored, OpenIds, TypeOK
<1>5. ASSUME NEW e \in ExecutionIds,
             Reconcile(e) \/ ExpireReconcile(e) \/ StartupReconcile(e)
      PROVE  Startup'
  <2>1. \/ Reconciled(e)
        \/ UNCHANGED <<records, unverified>> /\ call' # "startup"
    BY <1>5 DEF Reconcile, ExpireReconcile, StartupReconcile, QueryFailed
  <2>2. CASE Reconciled(e)
    <3>1. PICK answer \in ReceiptStates :
             /\ records' = [records EXCEPT ![e] = answer]
             /\ unverified' = unverified \ {e}
      BY <2>2, ReconciledEffect
    <3>2. call' = "startup" => call = "startup" /\ todo' = todo \ {e}
      BY <1>5 DEF Reconcile, ExpireReconcile, StartupReconcile
    <3>3. QED
      BY <3>1, <3>2 DEF Startup, UnverifiedOpen, StartupCoversRestored, OpenIds, TypeOK
  <2>3. QED
    BY <1>1, <2>1, <2>2
<1>6. ASSUME NEW e \in ExecutionIds, ExpireCancelUnknown(e) \/ ExpireCancelAnswered(e)
      PROVE  Startup'
  <2>1. /\ call' # "startup"
        /\ UNCHANGED unverified
        /\ \E state \in {"Unknown", "CancelPending"} :
              records' = [records EXCEPT ![e] = state]
    BY <1>6 DEF ExpireCancelUnknown, ExpireCancelAnswered, Expirable
  <2>2. QED
    BY <2>1
    DEF Startup, UnverifiedOpen, StartupCoversRestored, OpenIds, Terminal, TypeOK
<1>7. CASE StartupBegin
  BY <1>7 DEF StartupBegin, Startup, UnverifiedOpen, StartupCoversRestored
<1>8. CASE StartupFails \/ StartupReturns
  BY <1>1, <1>8 DEF StartupFails, StartupReturns, QueryFailed
<1>9. CASE Restart
  BY <1>9 DEF Restart, Startup, UnverifiedOpen, StartupCoversRestored
<1>10. QED
  BY <1>1, <1>2, <1>3, <1>4, <1>5, <1>6, <1>7, <1>8, <1>9
  DEF Next, vars, ExecuteUnavailable, ExpireUnavailable, ExecuteSend, Transmitted, Checkpoint,
      ProcessDies, Arrive, Arrives, Progress, Progresses, OnBook

\* The loop invariant of startup_reconcile: no restored open order is passed
\* over, so when the loop ends every one of them has been answered for.
THEOREM StartupCovers == Spec => []StartupCoversRestored
<1>1. Init => Startup
  BY DEF Init, Startup, UnverifiedOpen, StartupCoversRestored
<1>2. Startup => StartupCoversRestored
  BY DEF Startup
<1>3. QED
  BY <1>1, <1>2, StartupStep, PlacementInvariant, TypeCorrect, PTL DEF Spec
--------------------------------------------------------------------------------
\* What was never sent has not reached the exchange.
Untouched == \A c \in ClientIds : sent[c] = 0 => exchange[c] = "None"

LEMMA UntouchedStep == TypeOK /\ Untouched /\ [Next]_vars => Untouched'
<1> SUFFICES ASSUME TypeOK, Untouched, [Next]_vars PROVE Untouched'
  OBVIOUS
<1> USE DEF engine, environment, history
<1>1. CASE UNCHANGED <<exchange, sent>>
  BY <1>1 DEF Untouched
<1>2. ASSUME NEW e \in ExecutionIds, ExecuteSend(e) PROVE Untouched'
  <2>1. ASSUME NEW c \in ClientIds, sent'[c] = 0 PROVE sent[c] = 0 /\ exchange'[c] = exchange[c]
    BY <1>2, <2>1, PlanAssumption DEF ExecuteSend, Transmitted, TypeOK
  <2>2. QED
    BY <2>1 DEF Untouched
<1>3. ASSUME NEW c \in ClientIds, Arrive(c) \/ Progress(c) PROVE Untouched'
  <2>1. /\ sent' = sent
        /\ \A d \in ClientIds : exchange[d] = "None" => exchange'[d] = "None"
    BY <1>3 DEF Arrive, Arrives, Progress, Progresses, OnBook, TypeOK
  <2>2. QED
    BY <2>1 DEF Untouched
<1>4. QED
  BY <1>1, <1>2, <1>3
  DEF Next, vars, ExecuteUnavailable, ExecuteNotSent, ExecuteReply, Reconcile, ExpireUnavailable,
      ExpireCancelUnknown, ExpireCancelAnswered, ExpireReconcile, StartupReconcile, StartupBegin,
      StartupFails, StartupReturns, Checkpoint, Restart, ProcessDies

\* A step that changes one record to a state the exchange backs is a report.
LEMMA ReportStep ==
    ASSUME TypeOK, NEW e \in ExecutionIds, NEW state \in ReceiptStates,
           Promise!Backed(ClientIdOf[e], state),
           state = "CancelPending" => records[e] # "Absent",
           records' = [records EXCEPT ![e] = state],
           UNCHANGED <<saved, exchange, sent>>
    PROVE  Promise!Next
<1>1. Promise!Report(e)
  BY DEF Promise!Report, ReceiptStates
<1>2. QED
  BY <1>1 DEF Promise!Next

\* What the gateway answers to a query is backed.
LEMMA ReconciledReports ==
    ASSUME TypeOK, NEW e \in ExecutionIds, Reconciled(e), UNCHANGED <<saved, exchange, sent>>
    PROVE  Promise!Next
<1>1. PICK answer \in Answers(ClientIdOf[e]) : records' = [records EXCEPT ![e] = answer]
  BY DEF Reconciled
<1>2. exchange[ClientIdOf[e]] \in ExchangeStates
  BY PlanAssumption DEF TypeOK
<1>3. /\ answer \in ReceiptStates \ {"CancelPending"}
      /\ Promise!Backed(ClientIdOf[e], answer)
  BY <1>1, <1>2
  DEF Answers, GatewayState, ExchangeStates, ReceiptStates, Promise!Backed
<1>4. QED
  BY <1>1, <1>3, ReportStep

LEMMA PromiseStep ==
    TypeOK /\ OnePlacementPerOrder' /\ Untouched /\ [Next]_vars => [Promise!Next]_(Promise!vars)
<1> SUFFICES ASSUME TypeOK, OnePlacementPerOrder', Untouched, [Next]_vars
             PROVE  Promise!Next \/ UNCHANGED Promise!vars
  OBVIOUS
<1> USE DEF engine, environment, history
<1>1. CASE UNCHANGED <<records, saved, exchange, sent>>
  BY <1>1 DEF Promise!vars
<1>2. ASSUME NEW e \in ExecutionIds, ExecuteSend(e) PROVE Promise!Next
  <2> DEFINE c == ClientIdOf[e]
  <2>1. c \in ClientIds
    BY PlanAssumption
  <2>2. sent' = [sent EXCEPT ![c] = @ + 1] /\ sent[c] = 0
    BY <1>2, <2>1 DEF ExecuteSend, Transmitted, OnePlacementPerOrder, TypeOK
  <2>3. exchange' = [exchange EXCEPT ![c] = "InFlight"]
    BY <1>2, <2>1, <2>2 DEF ExecuteSend, Transmitted, Untouched, TypeOK
  <2>4. {d \in ClientIds : sent'[d] > 0} = {d \in ClientIds : sent[d] > 0} \cup {c}
    BY <2>1, <2>2 DEF TypeOK
  <2>5. c \notin {d \in ClientIds : sent[d] > 0}
    BY <2>2
  <2>6. UNCHANGED <<records, saved>>
    BY <1>2 DEF ExecuteSend
  <2>7. Promise!Place(c)
    BY <2>3, <2>4, <2>5, <2>6 DEF Promise!Place
  <2>8. QED
    BY <2>1, <2>7 DEF Promise!Next
<1>3. ASSUME NEW e \in ExecutionIds, ExecuteNotSent(e) \/ ExpireCancelUnknown(e)
      PROVE  Promise!Next
  BY <1>3, ReportStep DEF ExecuteNotSent, ExpireCancelUnknown, ReceiptStates, Promise!Backed
<1>4. ASSUME NEW e \in ExecutionIds, ExecuteReply(e) PROVE Promise!Next
  <2>1. PICK placement \in Placements(ClientIdOf[e]) :
           records' = [records EXCEPT ![e] = placement]
    BY <1>4 DEF ExecuteReply
  <2>2. /\ placement \in ReceiptStates \ {"CancelPending"}
        /\ Promise!Backed(ClientIdOf[e], placement)
    BY <2>1 DEF Placements, Accepted, ReceiptStates, Promise!Backed
  <2>3. QED
    BY <1>4, <2>1, <2>2, ReportStep DEF ExecuteReply
<1>5. ASSUME NEW e \in ExecutionIds, ExpireCancelAnswered(e) PROVE Promise!Next
  BY <1>5, ReportStep
  DEF ExpireCancelAnswered, Expirable, Recorded, ReceiptStates, Promise!Backed
<1>6. ASSUME NEW e \in ExecutionIds,
             Reconcile(e) \/ ExpireReconcile(e) \/ StartupReconcile(e)
      PROVE  Promise!Next \/ UNCHANGED Promise!vars
  <2>1. UNCHANGED <<saved, exchange, sent>>
    BY <1>6 DEF Reconcile, ExpireReconcile, StartupReconcile
  <2>2. Reconciled(e) \/ UNCHANGED records
    BY <1>6 DEF Reconcile, ExpireReconcile, StartupReconcile, QueryFailed
  <2>3. QED
    BY <1>1, <2>1, <2>2, ReconciledReports
<1>7. CASE Checkpoint \/ Restart
  BY <1>7 DEF Checkpoint, Restart, Promise!Next, Promise!Checkpoint, Promise!Restart
<1>8. ASSUME NEW c \in ClientIds, Arrive(c) \/ Progress(c) PROVE Promise!Next
  <2>1. Promise!Happen(c)
    BY <1>8 DEF Arrive, Arrives, Progress, Progresses, OnBook, Promise!Happen, Promise!Continues
  <2>2. QED
    BY <2>1 DEF Promise!Next
<1>9. QED
  BY <1>1, <1>2, <1>3, <1>4, <1>5, <1>6, <1>7, <1>8
  DEF Next, vars, ExecuteUnavailable, ExpireUnavailable, StartupBegin, StartupFails,
      StartupReturns, QueryFailed, ProcessDies

\* The engine implements OrderPromise for any plans, client order ids and
\* number of restarts.
THEOREM EngineKeepsPromise == Spec => KeepsPromise
<1>1. Init => Promise!Init
  BY DEF Init, Promise!Init
<1>2. Init => Untouched
  BY DEF Init, Untouched
<1>3. QED
  BY <1>1, <1>2, UntouchedStep, PromiseStep, TypeCorrect, NeverPlacedTwice, PTL
  DEF Spec, KeepsPromise, Promise!Spec
================================================================================
