--------------------------- MODULE PersistenceProofs ---------------------------
(***************************************************************************)
(* Proofs about Persistence, for any numbers of processes, rows, events    *)
(* and stops: an open store is complete, its own events and the tables     *)
(* agree whatever is appended, what is shown was saved or came in an       *)
(* intelligence snapshot, and what is reported unresolved was Unknown.     *)
(*                                                                         *)
(* The audit only grows at its end, so the proofs go by what one more      *)
(* event does to a sequence that agrees with some rows.                    *)
(***************************************************************************)
EXTENDS Persistence, SequenceTheorems, TLAPS

(* Opening *)

\* What is known of the file while a process opens it.
Opening ==
    \A p \in Processes :
        /\ phase[p] = "unversioned" => version # 2
        /\ phase[p] = "migrated" => version = 1
        /\ phase[p] = "open" => version = 1 /\ projectable

LEMMA OpeningStep ==
    ASSUME phase \in [Processes -> Phases], version \in 0..2, Opening, [Next]_vars
    PROVE  Opening'
<1>1. ASSUME NEW p \in Processes, ReadVersion(p) PROVE Opening'
  <2>1. \/ version = 0 /\ phase' = [phase EXCEPT ![p] = "unversioned"]
        \/ version = 1 /\ phase' = [phase EXCEPT ![p] = "migrated"]
        \/ version = 2 /\ phase' = [phase EXCEPT ![p] = "refused"]
    <3>1. version = 0 \/ version = 1 \/ version = 2
      OBVIOUS
    <3>2. CASE version = 0
      BY <1>1, <3>2 DEF ReadVersion
    <3>3. CASE version = 1
      BY <1>1, <3>3 DEF ReadVersion
    <3>4. CASE version = 2
      BY <1>1, <3>4 DEF ReadVersion
    <3>5. QED
      BY <3>1, <3>2, <3>3, <3>4
  <2>2. UNCHANGED schema
    BY <1>1 DEF ReadVersion
  <2>3. QED
    BY <2>1, <2>2 DEF Opening, schema
<1>2. ASSUME NEW p \in Processes, Migrate(p) \/ EnsureProjections(p) \/ Stop(p) PROVE Opening'
  <2>1. CASE Migrate(p)
    BY <2>1 DEF Migrate, Opening, schema
  <2>2. CASE EnsureProjections(p)
    BY <2>2 DEF EnsureProjections, Opening, schema
  <2>3. CASE Stop(p)
    BY <2>3 DEF Stop, Opening, schema
  <2>4. QED
    BY <1>2, <2>1, <2>2, <2>3
<1>3. CASE UNCHANGED <<schema, phase>>
  BY <1>3 DEF Opening, schema
<1>4. ASSUME NEW r \in Runs,
             \/ \E entry \in Appends : AppendEvent(r, entry)
             \/ \E d \in Decisions, k \in RiskDecisions : SaveDecisionBundle(r, d, k)
             \/ \E e \in Executions, state \in States : SaveExecution(r, e, state)
             \/ \E f \in Fills, e \in Executions : SaveFill(r, f, e)
             \/ \E s \in Snapshots : SavePortfolioSnapshot(r, s)
             \/ RunStarted(r)
             \/ \E items \in SUBSET EvidenceIds : Gather(r, items) \/ IntelligenceSnapshot(r, items)
      PROVE  UNCHANGED <<schema, phase>>
  BY <1>4
  DEF AppendEvent, SaveDecisionBundle, SaveExecution, SaveFill, SavePortfolioSnapshot, RunStarted,
      Project, Gather, IntelligenceSnapshot, Records
<1>5. ASSUME GatherFails \/ GatherCommit \/ \E v \in EvidenceIds : GatherSave(v)
      PROVE  UNCHANGED <<schema, phase>>
  BY <1>5 DEF GatherSave, SaveEvidence, GatherFails, GatherCommit, Project, Records
<1>6. CASE UNCHANGED vars
  BY <1>6, <1>3 DEF vars
<1>7. QED
  BY <1>1, <1>2, <1>3, <1>4, <1>5, <1>6 DEF Next

--------------------------------------------------------------------------------
(* Types *)

\* What a transaction that records events leaves of the types to show.
Recorded(r) ==
    /\ runs' \subseteq Runs /\ runs \subseteq runs' /\ r \in runs'
    /\ audit' \in Seq(AuditEvents(runs'))
    /\ version' \in 0..2 /\ projectable' \in BOOLEAN /\ phase' \in [Processes -> Phases]

LEMMA RecordsTyped ==
    ASSUME TypeOK, NEW r \in Runs, NEW events \in Seq(AuditEvents(runs \cup {r})),
           Records(r, events)
    PROVE  Recorded(r)
<1>1. audit \in Seq(AuditEvents(runs \cup {r}))
  <2>1. AuditEvents(runs) \subseteq AuditEvents(runs \cup {r})
    BY DEF AuditEvents
  <2>2. audit \in Seq(AuditEvents(runs))
    BY DEF TypeOK
  <2>3. QED
    BY ONLY <2>1, <2>2, SeqMonotonic
<1>2. audit \o events \in Seq(AuditEvents(runs \cup {r}))
  BY ONLY <1>1, ConcatProperties, events \in Seq(AuditEvents(runs \cup {r}))
<1>3. audit' = audit \o events /\ runs' = runs \cup {r} /\ UNCHANGED <<version, projectable, phase>>
  BY DEF Records, schema
<1>4. QED
  BY <1>2, <1>3 DEF Recorded, TypeOK

\* One event, and the two of a bundle.
LEMMA OneEventTyped ==
    ASSUME NEW r \in Runs, NEW type \in Types, NEW x \in Subjects,
           NEW state \in States \cup {Absent}
    PROVE  /\ Event(r, type, x, state) \in AuditEvents(runs \cup {r})
           /\ <<Event(r, type, x, state)>> \in Seq(AuditEvents(runs \cup {r}))
<1>1. Event(r, type, x, state) \in AuditEvents(runs \cup {r})
  BY DEF Event, AuditEvents
<1>2. \A S, y : y \in S => <<y>> \in Seq(S)
  OBVIOUS
<1>3. QED
  BY ONLY <1>1, <1>2

\* One that is appended, and that of an intelligence snapshot.
LEMMA AppendedTyped ==
    ASSUME NEW r \in Runs, NEW entry \in Appends
    PROVE  /\ AppendedEvent(r, entry) \in AuditEvents(runs \cup {r})
           /\ AppendedEvent(r, entry).type = entry.type /\ AppendedEvent(r, entry).subject = entry.subject
           /\ AppendedEvent(r, entry).state = entry.state /\ AppendedEvent(r, entry).own = FALSE
           /\ entry.type = "execution" => entry.subject \in Executions /\ entry.state \in States
<1>1. entry \in Entries
  BY StoreAssumption
<1>2. /\ entry.type \in Types /\ entry.subject \in Subjects /\ entry.state \in States \cup {Absent}
      /\ entry.type = "execution" => entry.subject \in Executions /\ entry.state \in States
  BY <1>1 DEF Entries, Types, Subjects
<1>3. QED
  BY <1>2 DEF AppendedEvent, AuditEvents

LEMMA SnapshotTyped ==
    ASSUME NEW r \in Runs, NEW observations \in SUBSET EvidenceIds
    PROVE  /\ SnapshotEvent(r, observations) \in AuditEvents(runs \cup {r})
           /\ SnapshotEvent(r, observations).run = r
           /\ SnapshotEvent(r, observations).type = "intelligence_snapshot"
           /\ SnapshotEvent(r, observations).observed = observations
           /\ SnapshotEvent(r, observations).own
<1>1. "intelligence_snapshot" \in Types /\ r \in Subjects
  BY DEF Types, Subjects
<1>2. QED
  BY <1>1 DEF SnapshotEvent, AuditEvents

\* The event of any other projection.
LEMMA ProjectingTyped ==
    ASSUME NEW r \in Runs
    PROVE  /\ Event(r, "other", r, Absent) \in AuditEvents(runs \cup {r})
           /\ Event(r, "other", r, Absent).run = r /\ Event(r, "other", r, Absent).type = "other"
<1>1. "other" \in Types /\ r \in Subjects
  BY DEF Types, Subjects
<1>2. QED
  BY <1>1, OneEventTyped DEF Event

\* What the reports may take for the latest are receipts, or none.
LEMMA LatestTyped ==
    ASSUME newest \in [Executions -> States \cup {Absent}],
           NEW e \in Executions, NEW state \in States, NEW next \in Latest(e, state)
    PROVE  /\ next \in [Executions -> States \cup {Absent}]
           /\ next = [newest EXCEPT ![e] = state] \/ (newest[e] # Absent /\ next = newest)
<1>1. \A f \in Executions : SameExecution(e, f) <=> e = f
  BY DEF SameExecution
<1> DEFINE rivals == {f \in Executions : SameExecution(e, f) /\ newest[f] # Absent}
<1>2. \A f \in rivals : f = e /\ newest[e] # Absent
  BY <1>1
<1>3. \/ next = [f \in Executions |-> IF f = e THEN state
                                      ELSE IF f \in rivals THEN Absent ELSE newest[f]]
      \/ rivals # {} /\ next = newest
  BY DEF Latest
<1> HIDE DEF rivals
<1>4. newest = [f \in Executions |-> newest[f]]
  OBVIOUS
<1>5. next = [newest EXCEPT ![e] = state] \/ (newest[e] # Absent /\ next = newest)
  BY <1>2, <1>3, <1>4
<1>6. QED
  BY <1>5

\* Every row and every receipt has its place among the subjects.
LEMMA SubjectsOf ==
    /\ Types = {"decision", "risk_decision", "evidence", "execution", "fill",
                "intelligence_snapshot", "other"}
    /\ \A rows \in {Runs, Decisions, RiskDecisions, EvidenceIds, Executions, Fills} :
          \A x \in rows : x \in Subjects
  BY DEF Types, Subjects

\* What a projection does to the types, whoever commits it.
LEMMA ProjectTyped ==
    ASSUME TypeOK, NEW r \in Runs, NEW event \in AuditEvents(runs \cup {r}), event.run = r,
           NEW next \in Models, Project(event, next), gathering' \in Gatherings
    PROVE  TypeOK'
<1>1. Recorded(r)
  <2>1. Records(r, <<event>>)
    BY DEF Project
  <2>2. <<event>> \in Seq(AuditEvents(runs \cup {r}))
    OBVIOUS
  <2>3. QED
    BY <2>1, <2>2, RecordsTyped
<1>2. /\ UNCHANGED <<newest, evidence, decisions, risks, executions, fills, snapshots>>
      /\ current' \in Models \cup {Absent} /\ model' \in Models
      /\ projections' \in [Runs -> Models \cup {Absent}]
  BY DEF Project, TypeOK
<1>3. QED
  BY <1>1, <1>2 DEF Recorded, TypeOK

LEMMA TypedStep == TypeOK /\ [Next]_vars => TypeOK'
<1> SUFFICES ASSUME TypeOK, [Next]_vars PROVE TypeOK'
  OBVIOUS
<1> USE StoreAssumption
<1>1. ASSUME NEW p \in Processes, ReadVersion(p) \/ Migrate(p) \/ EnsureProjections(p) \/ Stop(p)
      PROVE  TypeOK'
  <2>1. /\ version' \in 0..2 /\ projectable' \in BOOLEAN /\ UNCHANGED tables
    <3>1. /\ version' = version \/ version' = 1
          /\ projectable' = projectable \/ projectable' = TRUE
          /\ UNCHANGED tables
      BY <1>1 DEF ReadVersion, Migrate, EnsureProjections, Stop, schema
    <3>2. version \in 0..2 /\ projectable \in BOOLEAN
      BY DEF TypeOK
    <3>3. version' \in 0..2
      BY <3>1, <3>2
    <3>4. projectable' \in BOOLEAN
      BY <3>1, <3>2, Zenon
    <3>5. QED
      BY <3>1, <3>3, <3>4
  <2>2. phase' \in [Processes -> Phases]
    <3>1. PICK next : phase' = [phase EXCEPT ![p] = next] /\ next \in Phases
      BY <1>1 DEF ReadVersion, Migrate, EnsureProjections, Stop, Phases
    <3>2. QED
      BY <3>1 DEF TypeOK
  <2>3. model' \in Models /\ gathering' \in Gatherings
    <3>1. \/ UNCHANGED <<model, gathering>>
          \/ model' = NoModel /\ gathering' = NotGathering
      BY <1>1 DEF ReadVersion, Migrate, EnsureProjections, Stop
    <3>2. QED
      BY <3>1 DEF TypeOK, Models, NoModel, Gatherings
  <2>4. QED
    BY <2>1, <2>2, <2>3 DEF TypeOK, tables
<1>2. ASSUME NEW r \in Runs, NEW entry \in Appends, AppendEvent(r, entry) PROVE TypeOK'
  <2>1. Recorded(r)
    <3>1. Records(r, <<AppendedEvent(r, entry)>>)
      BY <1>2 DEF AppendEvent
    <3>2. <<AppendedEvent(r, entry)>> \in Seq(AuditEvents(runs \cup {r}))
      <4>1. AppendedEvent(r, entry) \in AuditEvents(runs \cup {r})
        BY AppendedTyped
      <4>2. \A S, y : y \in S => <<y>> \in Seq(S)
        OBVIOUS
      <4>3. QED
        BY ONLY <4>1, <4>2
    <3>3. QED
      BY <3>1, <3>2, RecordsTyped
  <2>2. newest' \in [Executions -> States \cup {Absent}]
    <3>1. CASE entry.type = "execution"
      BY <1>2, <3>1, AppendedTyped, LatestTyped DEF AppendEvent, TypeOK
    <3>2. CASE entry.type # "execution"
      BY <1>2, <3>2 DEF AppendEvent, TypeOK
    <3>3. QED
      BY <3>1, <3>2
  <2>3. QED
    BY <1>2, <2>1, <2>2 DEF AppendEvent, TypeOK, Recorded
<1>3. ASSUME NEW r \in Runs, NEW d \in Decisions, NEW k \in RiskDecisions,
             SaveDecisionBundle(r, d, k)
      PROVE  TypeOK'
  <2>1. Recorded(r)
    <3> DEFINE E == AuditEvents(runs \cup {r})
               first == Event(r, "decision", d, Absent)
               second == Event(r, "risk_decision", k, Absent)
    <3>1. first \in E /\ second \in E
      BY OneEventTyped, SubjectsOf
    <3>2. Records(r, <<first, second>>)
      BY <1>3 DEF SaveDecisionBundle
    <3> HIDE DEF E, first, second
    <3>3. <<first, second>> \in Seq(E)
      BY <3>1
    <3> USE DEF E
    <3>4. QED
      BY <3>2, <3>3, RecordsTyped
  <2>2. /\ decisions' \in [Decisions -> runs' \cup {Absent}]
        /\ \A x \in Decisions : decisions[x] # Absent => decisions'[x] # Absent
        /\ decisions'[d] # Absent
    BY <1>3, <2>1 DEF SaveDecisionBundle, TypeOK, Recorded
  <2>3. /\ risks' \in [RiskDecisions -> {x \in Decisions : decisions'[x] # Absent} \cup {Absent}]
        /\ \A x \in RiskDecisions : risks[x] # Absent => risks'[x] # Absent
    BY <1>3, <2>2 DEF SaveDecisionBundle, TypeOK
  <2>4. \A e \in Executions : executions[e] # Absent => risks'[Plan[e].risk] # Absent
    BY <2>3 DEF TypeOK
  <2>5. QED
    BY <1>3, <2>1, <2>2, <2>3, <2>4 DEF SaveDecisionBundle, TypeOK, Recorded
<1>4. ASSUME NEW r \in Runs, NEW e \in Executions, NEW state \in States, SaveExecution(r, e, state)
      PROVE  TypeOK'
  <2>1. Recorded(r)
    BY <1>4, OneEventTyped, SubjectsOf, RecordsTyped DEF SaveExecution
  <2>2. /\ executions' \in [Executions -> States \cup {Absent}]
        /\ \A f \in Executions : executions'[f] # Absent => risks[Plan[f].risk] # Absent
        /\ \A f \in Executions : executions[f] # Absent => executions'[f] # Absent
    BY <1>4 DEF SaveExecution, TypeOK
  <2>3. fills \in [Fills -> {f \in Executions : executions'[f] # Absent} \cup {Absent}]
    BY <2>2 DEF TypeOK
  <2>4. newest' \in [Executions -> States \cup {Absent}]
    BY <1>4, LatestTyped DEF SaveExecution, TypeOK
  <2>5. QED
    BY <1>4, <2>1, <2>2, <2>3, <2>4 DEF SaveExecution, TypeOK, Recorded
<1>5. ASSUME NEW r \in Runs, NEW f \in Fills, NEW e \in Executions, SaveFill(r, f, e)
      PROVE  TypeOK'
  <2>1. Recorded(r)
    BY <1>5, OneEventTyped, SubjectsOf, RecordsTyped DEF SaveFill
  <2>2. QED
    BY <1>5, <2>1 DEF SaveFill, TypeOK, Recorded
<1>6. ASSUME NEW r \in Runs, NEW s \in Snapshots, SavePortfolioSnapshot(r, s) PROVE TypeOK'
  <2>1. Recorded(r)
    BY <1>6, EmptySeq, RecordsTyped DEF SavePortfolioSnapshot
  <2>2. QED
    BY <1>6, <2>1 DEF SavePortfolioSnapshot, TypeOK, Recorded
<1>7. ASSUME NEW r \in Runs, RunStarted(r) PROVE TypeOK'
  BY <1>7, ProjectingTyped, ProjectTyped DEF RunStarted, Models, TypeOK
<1>8. CASE GatherCommit
  <2>1. gathering.run \in Runs /\ gathering.all \subseteq EvidenceIds
    BY <1>8 DEF GatherCommit, TypeOK, Gatherings
  <2>2. [model EXCEPT !.shown = @ \cup gathering.all] \in Models
    BY <2>1 DEF TypeOK, Models
  <2>3. QED
    BY <1>8, <2>1, <2>2, ProjectingTyped, ProjectTyped DEF GatherCommit, Gatherings
<1>9. ASSUME NEW v \in EvidenceIds, GatherSave(v) PROVE TypeOK'
  <2>1. gathering \in [run : Runs, all : SUBSET EvidenceIds, left : SUBSET EvidenceIds]
    BY <1>9 DEF GatherSave, TypeOK, Gatherings, NotGathering
  <2>2. Recorded(gathering.run)
    BY <1>9, <2>1, OneEventTyped, SubjectsOf, RecordsTyped DEF GatherSave, SaveEvidence
  <2>3. gathering' \in Gatherings
    BY <1>9, <2>1 DEF GatherSave, Gatherings
  <2>4. QED
    BY <1>9, <2>2, <2>3 DEF GatherSave, SaveEvidence, TypeOK, Recorded
<1>10. ASSUME NEW r \in Runs, NEW items \in SUBSET EvidenceIds, Gather(r, items) PROVE TypeOK'
  BY <1>10 DEF Gather, TypeOK, schema, tables, Gatherings
<1>11. CASE GatherFails
  BY <1>11 DEF GatherFails, TypeOK, schema, tables, Gatherings
<1>12. CASE UNCHANGED vars
  BY <1>12 DEF vars, TypeOK, schema, tables
<1>13. ASSUME NEW r \in Runs, NEW items \in SUBSET EvidenceIds, IntelligenceSnapshot(r, items)
       PROVE  TypeOK'
  <2>1. [model EXCEPT !.shown = @ \cup items] \in Models /\ gathering' \in Gatherings
    BY <1>13 DEF IntelligenceSnapshot, TypeOK, Models
  <2>2. Project(SnapshotEvent(r, items), [model EXCEPT !.shown = @ \cup items])
    BY <1>13 DEF IntelligenceSnapshot
  <2>3. QED
    BY <2>1, <2>2, SnapshotTyped, ProjectTyped
<1>14. QED
  BY <1>1, <1>2, <1>3, <1>4, <1>5, <1>6, <1>7, <1>8, <1>9, <1>10, <1>11, <1>12, <1>13 DEF Next

LEMMA InitTyped == Init => TypeOK /\ Opening
<1> SUFFICES ASSUME Init PROVE TypeOK /\ Opening
  OBVIOUS
<1>1. audit \in Seq(AuditEvents(runs))
  BY EmptySeq DEF Init
<1>2. /\ model \in Models /\ gathering \in Gatherings
      /\ version \in 0..2 /\ phase \in [Processes -> Phases]
  BY DEF Init, NoModel, Models, Gatherings, Phases
<1>3. TypeOK
  BY <1>1, <1>2 DEF Init, TypeOK
<1>4. Opening
  BY DEF Init, Opening
<1>5. QED
  BY <1>3, <1>4

\* Every table has its type and every reference between tables its row.
THEOREM TypeCorrect == Spec => []TypeOK
  BY InitTyped, TypedStep, PTL DEF Spec

\* Whatever process migrates the file, and wherever it stops, an open store
\* has all its tables.
THEOREM OpenIsComplete == Spec => []OpenMeansComplete
<1>1. TypeOK /\ Opening /\ [Next]_vars => Opening'
  BY OpeningStep DEF TypeOK
<1>2. Opening => OpenMeansComplete
  BY DEF Opening, OpenMeansComplete
<1>3. QED
  BY <1>1, <1>2, InitTyped, TypeCorrect, PTL DEF Spec
--------------------------------------------------------------------------------
(* The audit grows at its end *)

\* The sequence t is s with the event e after it.
Longer(s, t, e) ==
    \E n \in Nat :
        /\ n \notin DOMAIN s
        /\ DOMAIN t = DOMAIN s \cup {n}
        /\ t[n] = e
        /\ \A i \in DOMAIN s : i \in Nat /\ i < n /\ t[i] = s[i]

LEMMA OneLonger ==
    ASSUME NEW S, NEW s \in Seq(S), NEW e \in S
    PROVE  Longer(s, s \o <<e>>, e) /\ s \o <<e>> \in Seq(S)
<1> DEFINE t == s \o <<e>>
           n == Len(s) + 1
<1>1. <<e>> \in Seq(S) /\ Len(<<e>>) = 1 /\ <<e>>[1] = e
  OBVIOUS
<1>2. /\ t \in Seq(S)
      /\ Len(t) = Len(s) + 1
      /\ \A i \in 1..(Len(s) + 1) : t[i] = IF i <= Len(s) THEN s[i] ELSE <<e>>[i - Len(s)]
  BY <1>1, ConcatProperties
<1>3. Len(s) \in Nat /\ DOMAIN s = 1..Len(s) /\ DOMAIN t = 1..Len(t)
  BY <1>2
<1> HIDE DEF t
<1>4. DOMAIN t = DOMAIN s \cup {n} /\ n \notin DOMAIN s /\ n \in Nat
  BY <1>2, <1>3
<1>5. \A i \in DOMAIN s : i \in Nat /\ i < n /\ t[i] = s[i]
  BY <1>2, <1>3
<1>6. t[n] = e
  <2>1. n \in 1..(Len(s) + 1) /\ ~(n <= Len(s)) /\ n - Len(s) = 1
    BY <1>3
  <2>2. QED
    BY <1>1, <1>2, <2>1
<1>7. Longer(s, t, e)
  BY <1>4, <1>5, <1>6 DEF Longer
<1>8. QED
  BY <1>2, <1>7 DEF t

LEMMA TwoLonger ==
    ASSUME NEW S, NEW s \in Seq(S), NEW a \in S, NEW b \in S
    PROVE  Longer(s \o <<a>>, s \o <<a, b>>, b)
<1> DEFINE m == s \o <<a>>
           t == s \o <<a, b>>
           n == Len(s) + 2
<1>1. /\ <<a>> \in Seq(S) /\ Len(<<a>>) = 1 /\ <<a>>[1] = a
      /\ <<a, b>> \in Seq(S) /\ Len(<<a, b>>) = 2 /\ <<a, b>>[1] = a /\ <<a, b>>[2] = b
  OBVIOUS
<1>2. /\ m \in Seq(S)
      /\ Len(m) = Len(s) + 1
      /\ \A i \in 1..(Len(s) + 1) : m[i] = IF i <= Len(s) THEN s[i] ELSE <<a>>[i - Len(s)]
  BY <1>1, ConcatProperties
<1>3. /\ t \in Seq(S)
      /\ Len(t) = Len(s) + 2
      /\ \A i \in 1..(Len(s) + 2) : t[i] = IF i <= Len(s) THEN s[i] ELSE <<a, b>>[i - Len(s)]
  BY <1>1, ConcatProperties
<1>4. Len(s) \in Nat /\ DOMAIN m = 1..Len(m) /\ DOMAIN t = 1..Len(t)
  BY <1>2, <1>3
<1> HIDE DEF m, t
<1>5. DOMAIN t = DOMAIN m \cup {n} /\ n \notin DOMAIN m /\ n \in Nat
  BY <1>2, <1>3, <1>4
<1>6. ASSUME NEW i \in DOMAIN m PROVE i \in Nat /\ i < n /\ t[i] = m[i]
  <2>1. CASE i <= Len(s)
    BY <1>2, <1>3, <1>4, <1>6, <2>1
  <2>2. CASE i = Len(s) + 1
    <3>1. i - Len(s) = 1 /\ ~(i <= Len(s)) /\ i \in 1..(Len(s) + 1) /\ i \in 1..(Len(s) + 2)
      BY <1>4, <2>2
    <3>2. t[i] = a /\ m[i] = a
      BY <1>1, <1>2, <1>3, <3>1
    <3>3. QED
      BY <1>4, <2>2, <3>2
  <2>3. QED
    BY <1>2, <1>4, <1>6, <2>1, <2>2
<1>7. t[n] = b
  <2>1. n \in 1..(Len(s) + 2) /\ ~(n <= Len(s)) /\ n - Len(s) = 2
    BY <1>4
  <2>2. QED
    BY <1>1, <1>3, <2>1
<1>8. Longer(m, t, b)
  BY <1>5, <1>6, <1>7 DEF Longer
<1>9. QED
  BY <1>8 DEF m, t

\* What a step does to the audit and the tables it tells of.
Quiet == UNCHANGED <<newest, evidence, decisions, risks, executions, fills>>

\* An event that tells of no row: one that was appended or that a projection brings.
Rowless(e) == e.own = FALSE \/ e.type \in {"intelligence_snapshot", "other"}

Noted ==
    \E e : Rowless(e) /\ e.type # "execution" /\ Longer(audit, audit', e) /\ Quiet

Bundle(m, r, d, k) ==
    /\ decisions[d] = Absent
    /\ risks[k] = Absent
    /\ Longer(audit, m, Event(r, "decision", d, Absent))
    /\ Longer(m, audit', Event(r, "risk_decision", k, Absent))
    /\ decisions' = [decisions EXCEPT ![d] = r]
    /\ risks' = [risks EXCEPT ![k] = d]
    /\ UNCHANGED <<newest, evidence, executions, fills>>

Bundled == \E m : \E r \in Runs, d \in Decisions, k \in RiskDecisions : Bundle(m, r, d, k)

Sighted ==
    \E r \in Runs, v \in EvidenceIds :
        /\ Longer(audit, audit', Event(r, "evidence", v, Absent))
        /\ evidence' = [evidence EXCEPT ![EventOf[v]] = v]
        /\ UNCHANGED <<newest, decisions, risks, executions, fills>>

\* One more receipt, the store's own or not.
Received(event) ==
    /\ event.type = "execution" /\ event.subject \in Executions /\ event.state \in States
    /\ Longer(audit, audit', event)
    /\ \/ newest' = [newest EXCEPT ![event.subject] = event.state]
       \/ newest[event.subject] # Absent /\ newest' = newest
    /\ UNCHANGED <<evidence, decisions, risks, fills>>

Appended == \E event : event.own = FALSE /\ Received(event) /\ UNCHANGED executions

Executed ==
    \E r \in Runs, e \in Executions, state \in States :
        /\ Received(Event(r, "execution", e, state))
        /\ executions' = [executions EXCEPT ![e] = state]

Booked ==
    \E r \in Runs, f \in Fills, e \in Executions :
        /\ fills[f] = Absent
        /\ Longer(audit, audit', Event(r, "fill", f, Absent))
        /\ fills' = [fills EXCEPT ![f] = e]
        /\ UNCHANGED <<newest, evidence, decisions, risks, executions>>

LEMMA AnyRecordsLonger ==
    ASSUME TypeOK, NEW r \in Runs, NEW event \in AuditEvents(runs \cup {r}), Records(r, <<event>>)
    PROVE  Longer(audit, audit', event)
<1>1. audit \in Seq(AuditEvents(runs \cup {r}))
  <2>1. AuditEvents(runs) \subseteq AuditEvents(runs \cup {r})
    BY DEF AuditEvents
  <2>2. audit \in Seq(AuditEvents(runs))
    BY DEF TypeOK
  <2>3. QED
    BY ONLY <2>1, <2>2, SeqMonotonic
<1>2. audit' = audit \o <<event>>
  BY DEF Records
<1>3. QED
  BY ONLY <1>1, <1>2, event \in AuditEvents(runs \cup {r}), OneLonger

LEMMA RecordsLonger ==
    ASSUME TypeOK, NEW r \in Runs, NEW type \in Types, NEW x \in Subjects,
           NEW state \in States \cup {Absent}, Records(r, <<Event(r, type, x, state)>>)
    PROVE  Longer(audit, audit', Event(r, type, x, state))
<1>1. Event(r, type, x, state) \in AuditEvents(runs \cup {r})
  BY OneEventTyped
<1>2. QED
  BY <1>1, AnyRecordsLonger

LEMMA AuditStep ==
    ASSUME TypeOK, [Next]_vars
    PROVE  \/ audit' = audit /\ Quiet
           \/ Noted \/ Appended \/ Bundled \/ Sighted \/ Executed \/ Booked
<1> USE StoreAssumption
<1>1. ASSUME NEW p \in Processes, ReadVersion(p) \/ Migrate(p) \/ EnsureProjections(p) \/ Stop(p)
      PROVE  audit' = audit /\ Quiet
  BY <1>1 DEF ReadVersion, Migrate, EnsureProjections, Stop, tables, Quiet
<1>2. ASSUME NEW r \in Runs, NEW event \in AuditEvents(runs \cup {r}), Rowless(event),
             event.type # "execution", Records(r, <<event>>), Quiet
      PROVE  Noted
  BY <1>2, AnyRecordsLonger DEF Noted
<1>3. ASSUME NEW r \in Runs, NEW event \in AuditEvents(runs \cup {r}), event.run = r,
             event.type \in {"intelligence_snapshot", "other"}, NEW next, Project(event, next)
      PROVE  Noted
  BY <1>2, <1>3 DEF Project, Quiet, Rowless
<1>4. ASSUME NEW r \in Runs, NEW items \in SUBSET EvidenceIds,
             RunStarted(r) \/ IntelligenceSnapshot(r, items)
      PROVE  Noted
  <2>1. CASE RunStarted(r)
    BY <1>3, <2>1, ProjectingTyped DEF RunStarted
  <2>2. CASE IntelligenceSnapshot(r, items)
    BY <1>3, <2>2, SnapshotTyped DEF IntelligenceSnapshot
  <2>3. QED
    BY <1>4, <2>1, <2>2
<1>12. CASE GatherCommit
  <2>1. gathering.run \in Runs
    BY <1>12 DEF GatherCommit, TypeOK, Gatherings
  <2>2. QED
    BY <1>3, <1>12, <2>1, ProjectingTyped DEF GatherCommit
<1>13. ASSUME NEW r \in Runs, NEW entry \in Appends, AppendEvent(r, entry)
       PROVE  Noted \/ Appended
  <2> DEFINE event == AppendedEvent(r, entry)
  <2>1. /\ event \in AuditEvents(runs \cup {r}) /\ event.own = FALSE
        /\ event.type = entry.type /\ event.subject = entry.subject /\ event.state = entry.state
        /\ entry.type = "execution" => entry.subject \in Executions /\ entry.state \in States
    BY AppendedTyped
  <2>2. Records(r, <<event>>)
    BY <1>13 DEF AppendEvent
  <2>3. Longer(audit, audit', event)
    BY <2>1, <2>2, AnyRecordsLonger
  <2> HIDE DEF event
  <2>4. CASE entry.type = "execution"
    <3>1. \/ newest' = [newest EXCEPT ![entry.subject] = entry.state]
          \/ newest[entry.subject] # Absent /\ newest' = newest
      BY <1>13, <2>1, <2>4, LatestTyped DEF AppendEvent, TypeOK
    <3>2. Received(event) /\ UNCHANGED executions
      BY <1>13, <2>1, <2>3, <2>4, <3>1 DEF AppendEvent, Received
    <3>3. QED
      BY <2>1, <3>2 DEF Appended
  <2>5. CASE entry.type # "execution"
    <3>1. Quiet
      BY <1>13, <2>5 DEF AppendEvent, Quiet
    <3>2. QED
      BY <1>2, <2>1, <2>2, <2>5, <3>1 DEF Rowless
  <2>6. QED
    BY <2>4, <2>5
<1>5. ASSUME NEW r \in Runs, NEW d \in Decisions, NEW k \in RiskDecisions,
             SaveDecisionBundle(r, d, k)
      PROVE  Bundled
  <2> DEFINE E == AuditEvents(runs \cup {r})
             first == Event(r, "decision", d, Absent)
             second == Event(r, "risk_decision", k, Absent)
             m == audit \o <<first>>
  <2>1. first \in E /\ second \in E
    BY OneEventTyped, SubjectsOf
  <2>2. audit \in Seq(E)
    <3>1. AuditEvents(runs) \subseteq E
      BY DEF AuditEvents
    <3>2. audit \in Seq(AuditEvents(runs))
      BY DEF TypeOK
    <3>3. QED
      BY ONLY <3>1, <3>2, SeqMonotonic
  <2>3. audit' = audit \o <<first, second>>
    BY <1>5 DEF SaveDecisionBundle, Records
  <2> HIDE DEF E, first, second
  <2>4. Longer(audit, m, first)
    BY ONLY <2>1, <2>2, OneLonger
  <2>5. Longer(m, audit', second)
    BY ONLY <2>1, <2>2, <2>3, TwoLonger
  <2> HIDE DEF m
  <2>6. QED
    BY <1>5, <2>4, <2>5 DEF SaveDecisionBundle, Bundled, Bundle, first, second
<1>6. ASSUME NEW r \in Runs, NEW v \in EvidenceIds, SaveEvidence(r, v) PROVE Sighted
  <2>1. Longer(audit, audit', Event(r, "evidence", v, Absent))
    BY <1>6, RecordsLonger, SubjectsOf DEF SaveEvidence
  <2>2. QED
    BY <1>6, <2>1 DEF SaveEvidence, Sighted
<1>7. ASSUME NEW v \in EvidenceIds, GatherSave(v) PROVE Sighted
  <2>1. gathering.run \in Runs
    BY <1>7 DEF GatherSave, TypeOK, Gatherings, NotGathering
  <2>2. QED
    BY <1>6, <1>7, <2>1 DEF GatherSave
<1>8. ASSUME NEW r \in Runs, NEW e \in Executions, NEW state \in States, SaveExecution(r, e, state)
      PROVE  Executed
  <2>1. Longer(audit, audit', Event(r, "execution", e, state))
    BY <1>8, RecordsLonger, SubjectsOf DEF SaveExecution
  <2>2. \/ newest' = [newest EXCEPT ![e] = state]
        \/ newest[e] # Absent /\ newest' = newest
    BY <1>8, LatestTyped DEF SaveExecution, TypeOK
  <2>3. LET event == Event(r, "execution", e, state)
        IN  event.type = "execution" /\ event.subject = e /\ event.state = state
    BY DEF Event
  <2>4. Received(Event(r, "execution", e, state))
    BY <1>8, <2>1, <2>2, <2>3 DEF SaveExecution, Received
  <2>5. QED
    BY <1>8, <2>4 DEF SaveExecution, Executed
<1>9. ASSUME NEW r \in Runs, NEW f \in Fills, NEW e \in Executions, SaveFill(r, f, e)
      PROVE  Booked
  <2>1. Longer(audit, audit', Event(r, "fill", f, Absent))
    BY <1>9, RecordsLonger, SubjectsOf DEF SaveFill
  <2>2. QED
    BY <1>9, <2>1 DEF SaveFill, Booked
<1>10. ASSUME NEW r \in Runs, NEW s \in Snapshots, SavePortfolioSnapshot(r, s)
       PROVE  audit' = audit /\ Quiet
  <2>1. audit \in Seq(AuditEvents(runs)) /\ audit' = audit \o <<>>
    BY <1>10 DEF SavePortfolioSnapshot, Records, TypeOK
  <2>2. audit' = audit
    BY ONLY <2>1, ConcatEmptySeq
  <2>3. QED
    BY <1>10, <2>2 DEF SavePortfolioSnapshot, Quiet
<1>11. ASSUME UNCHANGED tables PROVE audit' = audit /\ Quiet
  BY <1>11 DEF tables, Quiet
<1>14. QED
  BY <1>1, <1>4, <1>5, <1>7, <1>8, <1>9, <1>10, <1>11, <1>12, <1>13
  DEF Next, Gather, GatherFails, vars
--------------------------------------------------------------------------------
(* The audit and the tables *)

\* Where the store's own events of an audit tell of a type.
Tells(e, type) == e.own /\ e.type = type
Of(s, type) == {i \in DOMAIN s : Tells(s[i], type)}

\* AuditMatchesTables of any audit s, row by row.
Once(s, type, rows) ==
    /\ \A i \in Of(s, type) : s[i].subject \in rows
    /\ \A x \in rows : \E i \in Of(s, type) : s[i].subject = x
    /\ \A i, j \in Of(s, type) : s[i].subject = s[j].subject => i = j

\* What a key's last event says: rows[x] is absent if there is none.
LastExecution(s, rows, e) ==
    /\ rows[e] # Absent <=> \E i \in Of(s, "execution") : s[i].subject = e
    /\ \A i \in Of(s, "execution") :
          s[i].subject = e /\ (\A j \in Of(s, "execution") : s[j].subject = e => j <= i) =>
              s[i].state = rows[e]

LastEvidence(s, rows, x) ==
    /\ rows[x] # Absent <=> \E i \in Of(s, "evidence") : EventOf[s[i].subject] = x
    /\ \A i \in Of(s, "evidence") :
          EventOf[s[i].subject] = x
              /\ (\A j \in Of(s, "evidence") : EventOf[s[j].subject] = x => j <= i) =>
              s[i].subject = rows[x]

\* The keys that have a row.
Rows(table, keys) == {x \in keys : table[x] # Absent}

\* Every part of AuditMatchesTables.
RowsAreTold ==
    /\ Once(audit, "decision", Rows(decisions, Decisions))
    /\ Once(audit, "risk_decision", Rows(risks, RiskDecisions))
    /\ Once(audit, "fill", Rows(fills, Fills))
    /\ \A e \in Executions : LastExecution(audit, executions, e)
    /\ \A x \in SourceEvents : LastEvidence(audit, evidence, x)

LEMMA RowsToldSuffice == RowsAreTold => AuditMatchesTables
<1> SUFFICES ASSUME RowsAreTold PROVE AuditMatchesTables
  OBVIOUS
<1>1. \A type, rows : Once(audit, type, rows) => OneEventEach(type, rows)
  <2> SUFFICES ASSUME NEW type, NEW rows, Once(audit, type, rows) PROVE OneEventEach(type, rows)
    OBVIOUS
  <2>1. {audit[i].subject : i \in Saves(type)} \subseteq rows
    BY DEF Once, Of, Tells, Saves, Told
  <2>2. rows \subseteq {audit[i].subject : i \in Saves(type)}
    BY DEF Once, Of, Tells, Saves, Told
  <2>3. QED
    BY <2>1, <2>2 DEF Once, Of, Tells, Saves, Told, OneEventEach
<1>2. /\ OneEventEach("decision", {d \in Decisions : decisions[d] # Absent})
      /\ OneEventEach("risk_decision", {k \in RiskDecisions : risks[k] # Absent})
      /\ OneEventEach("fill", {f \in Fills : fills[f] # Absent})
  BY <1>1 DEF RowsAreTold, Rows
<1>3. ASSUME NEW e \in Executions
      PROVE  LET receipts == {i \in Saves("execution") : audit[i].subject = e}
             IN  /\ executions[e] # Absent <=> receipts # {}
                 /\ \A i \in receipts :
                       (\A j \in receipts : j <= i) => audit[i].state = executions[e]
  BY DEF RowsAreTold, LastExecution, Of, Tells, Saves, Told
<1>4. ASSUME NEW x \in SourceEvents
      PROVE  LET sightings == {i \in Saves("evidence") : EventOf[audit[i].subject] = x}
             IN  /\ evidence[x] # Absent <=> sightings # {}
                 /\ \A i \in sightings :
                       (\A j \in sightings : j <= i) => audit[i].subject = evidence[x]
  BY DEF RowsAreTold, LastEvidence, Of, Tells, Saves, Told
<1>5. QED
  BY <1>2, <1>3, <1>4 DEF AuditMatchesTables

\* An event of another type, or that was appended, leaves them alone ...
LEMMA OtherType ==
    ASSUME NEW s, NEW t, NEW e, Longer(s, t, e)
    PROVE  /\ \A type : ~Tells(e, type) =>
                 /\ Of(t, type) = Of(s, type)
                 /\ \A i \in Of(s, type) : t[i] = s[i]
                 /\ \A rows : Once(s, type, rows) => Once(t, type, rows)
           /\ ~Tells(e, "execution") =>
                 \A rows, x : LastExecution(s, rows, x) => LastExecution(t, rows, x)
           /\ ~Tells(e, "evidence") =>
                 \A rows, x : LastEvidence(s, rows, x) => LastEvidence(t, rows, x)
<1>1. ASSUME NEW type, ~Tells(e, type)
      PROVE  Of(t, type) = Of(s, type) /\ \A i \in Of(s, type) : t[i] = s[i]
  BY <1>1 DEF Longer, Of, Tells
<1>2. ASSUME NEW type, ~Tells(e, type), NEW rows, Once(s, type, rows) PROVE Once(t, type, rows)
  <2>1. Of(t, type) = Of(s, type) /\ \A i \in Of(s, type) : t[i] = s[i]
    BY <1>1, <1>2
  <2>2. QED
    BY <1>2, <2>1 DEF Once
<1>3. ASSUME ~Tells(e, "execution"), NEW rows, NEW x, LastExecution(s, rows, x)
      PROVE  LastExecution(t, rows, x)
  <2>1. Of(t, "execution") = Of(s, "execution") /\ \A i \in Of(s, "execution") : t[i] = s[i]
    BY <1>1, <1>3
  <2>2. QED
    BY <1>3, <2>1 DEF LastExecution
<1>4. ASSUME ~Tells(e, "evidence"), NEW rows, NEW x, LastEvidence(s, rows, x)
      PROVE  LastEvidence(t, rows, x)
  <2>1. Of(t, "evidence") = Of(s, "evidence") /\ \A i \in Of(s, "evidence") : t[i] = s[i]
    BY <1>1, <1>4
  <2>2. QED
    BY <1>4, <2>1 DEF LastEvidence
<1>5. QED
  BY <1>1, <1>2, <1>3, <1>4

\* ... and one of their own adds its row.
LEMMA OneMoreOnce ==
    ASSUME NEW s, NEW t, NEW e, e.own, Longer(s, t, e), NEW rows, Once(s, e.type, rows),
           e.subject \notin rows
    PROVE  Once(t, e.type, rows \cup {e.subject})
<1>1. PICK n \in Nat :
          /\ n \notin DOMAIN s
          /\ DOMAIN t = DOMAIN s \cup {n}
          /\ t[n] = e
          /\ \A i \in DOMAIN s : t[i] = s[i]
  BY DEF Longer
<1>2. Of(t, e.type) = Of(s, e.type) \cup {n} /\ \A i \in Of(s, e.type) : t[i] = s[i]
  BY <1>1 DEF Of, Tells
<1>3. QED
  BY <1>1, <1>2 DEF Once

LEMMA OneMoreExecution ==
    ASSUME NEW s, NEW t, NEW r, NEW e \in Executions, NEW state, state # Absent,
           Longer(s, t, Event(r, "execution", e, state)),
           NEW rows, DOMAIN rows = Executions, NEW x \in Executions, LastExecution(s, rows, x)
    PROVE  LastExecution(t, [rows EXCEPT ![e] = state], x)
<1> DEFINE new == [rows EXCEPT ![e] = state]
           type == "execution"
<1>1. PICK n \in Nat :
          /\ n \notin DOMAIN s
          /\ DOMAIN t = DOMAIN s \cup {n}
          /\ t[n] = Event(r, "execution", e, state)
          /\ \A i \in DOMAIN s : i \in Nat /\ i < n /\ t[i] = s[i]
  BY DEF Longer
<1>2. Tells(t[n], type) /\ t[n].subject = e /\ t[n].state = state
  BY <1>1 DEF Event, Tells
<1>3. Of(t, type) = Of(s, type) \cup {n}
  BY <1>1, <1>2 DEF Of, Tells
<1>4. \A i \in Of(s, type) : i \in Nat /\ i < n /\ t[i] = s[i]
  BY <1>1 DEF Of, Tells
<1>5. CASE x = e
  <2>1. new[x] = state
    BY <1>5
  <2>2. new[x] # Absent /\ \E i \in Of(t, type) : t[i].subject = x
    BY <2>1, <1>2, <1>3, <1>5
  <2>3. ASSUME NEW i \in Of(t, type), t[i].subject = x,
               \A j \in Of(t, type) : t[j].subject = x => j <= i
        PROVE  i = n
    BY <2>3, <1>2, <1>3, <1>4, <1>5
  <2>4. QED
    BY <2>1, <2>2, <2>3, <1>2 DEF LastExecution
<1>6. CASE x # e
  <2>1. new[x] = rows[x]
    BY <1>6
  <2>2. QED
    BY <2>1, <1>2, <1>3, <1>4, <1>6 DEF LastExecution
<1>7. QED
  BY <1>5, <1>6

LEMMA OneMoreEvidence ==
    ASSUME NEW s, NEW t, NEW r, NEW v \in EvidenceIds,
           Longer(s, t, Event(r, "evidence", v, Absent)),
           NEW rows, DOMAIN rows = SourceEvents, NEW x \in SourceEvents, LastEvidence(s, rows, x)
    PROVE  LastEvidence(t, [rows EXCEPT ![EventOf[v]] = v], x)
<1> DEFINE new == [rows EXCEPT ![EventOf[v]] = v]
           type == "evidence"
<1>1. PICK n \in Nat :
          /\ n \notin DOMAIN s
          /\ DOMAIN t = DOMAIN s \cup {n}
          /\ t[n] = Event(r, "evidence", v, Absent)
          /\ \A i \in DOMAIN s : i \in Nat /\ i < n /\ t[i] = s[i]
  BY DEF Longer
<1>2. Tells(t[n], type) /\ t[n].subject = v
  BY <1>1 DEF Event, Tells
<1>3. Of(t, type) = Of(s, type) \cup {n}
  BY <1>1, <1>2 DEF Of, Tells
<1>4. \A i \in Of(s, type) : i \in Nat /\ i < n /\ t[i] = s[i]
  BY <1>1 DEF Of, Tells
<1>5. EventOf[v] \in SourceEvents /\ v # Absent
  BY StoreAssumption
<1>6. CASE x = EventOf[v]
  <2>1. new[x] = v
    BY <1>5, <1>6
  <2>2. new[x] # Absent /\ \E i \in Of(t, type) : EventOf[t[i].subject] = x
    BY <2>1, <1>2, <1>3, <1>5, <1>6
  <2>3. ASSUME NEW i \in Of(t, type), EventOf[t[i].subject] = x,
               \A j \in Of(t, type) : EventOf[t[j].subject] = x => j <= i
        PROVE  i = n
    BY <2>3, <1>2, <1>3, <1>4, <1>6
  <2>4. QED
    BY <2>1, <2>2, <2>3, <1>2 DEF LastEvidence
<1>7. CASE x # EventOf[v]
  <2>1. new[x] = rows[x]
    BY <1>7
  <2>2. QED
    BY <2>1, <1>2, <1>3, <1>4, <1>7 DEF LastEvidence
<1>8. QED
  BY <1>6, <1>7

LEMMA RowsToldStep == TypeOK /\ RowsAreTold /\ [Next]_vars => RowsAreTold'
<1> SUFFICES ASSUME TypeOK, RowsAreTold, [Next]_vars PROVE RowsAreTold'
  OBVIOUS
<1> USE StoreAssumption
<1>1. CASE audit' = audit /\ Quiet
  BY <1>1 DEF RowsAreTold, Quiet
<1>2. CASE Noted
  <2>1. PICK e : Rowless(e) /\ Longer(audit, audit', e)
    BY <1>2 DEF Noted
  <2>2. \A type \in {"decision", "risk_decision", "fill", "execution", "evidence"} : ~Tells(e, type)
    BY <2>1 DEF Rowless, Tells
  <2>3. QED
    BY <1>2, <2>1, <2>2, OtherType DEF Noted, Quiet, RowsAreTold
<1>7. CASE Appended
  <2>1. PICK e : e.own = FALSE /\ Longer(audit, audit', e)
    BY <1>7 DEF Appended, Received
  <2>2. \A type : ~Tells(e, type)
    BY <2>1 DEF Tells
  <2>3. QED
    BY <1>7, <2>1, <2>2, OtherType DEF Appended, Received, RowsAreTold
<1>3. CASE Bundled
  <2>0. PICK m : \E r \in Runs, d \in Decisions, k \in RiskDecisions : Bundle(m, r, d, k)
    BY <1>3 DEF Bundled
  <2>1. PICK r \in Runs, d \in Decisions, k \in RiskDecisions : Bundle(m, r, d, k)
    BY <2>0
  <2> DEFINE first == Event(r, "decision", d, Absent)
             second == Event(r, "risk_decision", k, Absent)
  <2>2. /\ first.type = "decision" /\ first.subject = d /\ first.own
        /\ second.type = "risk_decision" /\ second.subject = k /\ second.own
        /\ \A type : type # "decision" => ~Tells(first, type)
        /\ \A type : type # "risk_decision" => ~Tells(second, type)
    BY DEF Event, Tells
  <2>3. Longer(audit, m, first) /\ Longer(m, audit', second)
    BY <2>1 DEF Bundle
  <2>4. r # Absent /\ d # Absent
    OBVIOUS
  <2>5. /\ Rows(decisions', Decisions) = Rows(decisions, Decisions) \cup {d}
        /\ d \notin Rows(decisions, Decisions)
    BY <2>1, <2>4 DEF Bundle, Rows, TypeOK
  <2>6. /\ Rows(risks', RiskDecisions) = Rows(risks, RiskDecisions) \cup {k}
        /\ k \notin Rows(risks, RiskDecisions)
    BY <2>1, <2>4 DEF Bundle, Rows, TypeOK
  <2> HIDE DEF first, second
  <2>7. Once(audit', "decision", Rows(decisions', Decisions))
    <3>1. Once(m, "decision", Rows(decisions', Decisions))
      BY <2>2, <2>3, <2>5, OneMoreOnce DEF RowsAreTold
    <3>2. QED
      BY <2>2, <2>3, <3>1, OtherType
  <2>8. Once(audit', "risk_decision", Rows(risks', RiskDecisions))
    <3>1. Once(m, "risk_decision", Rows(risks, RiskDecisions))
      BY <2>2, <2>3, OtherType DEF RowsAreTold
    <3>2. QED
      BY <2>2, <2>3, <2>6, <3>1, OneMoreOnce
  <2>9. /\ Once(audit', "fill", Rows(fills, Fills))
        /\ \A e \in Executions : LastExecution(audit', executions, e)
        /\ \A x \in SourceEvents : LastEvidence(audit', evidence, x)
    BY <2>2, <2>3, OtherType DEF RowsAreTold
  <2>10. QED
    BY <2>1, <2>7, <2>8, <2>9 DEF Bundle, RowsAreTold
<1>4. CASE Sighted
  <2>1. PICK r \in Runs, v \in EvidenceIds :
            /\ Longer(audit, audit', Event(r, "evidence", v, Absent))
            /\ evidence' = [evidence EXCEPT ![EventOf[v]] = v]
            /\ UNCHANGED <<newest, decisions, risks, executions, fills>>
    BY <1>4 DEF Sighted
  <2>2. \A type : type # "evidence" => ~Tells(Event(r, "evidence", v, Absent), type)
    BY DEF Event, Tells
  <2>3. DOMAIN evidence = SourceEvents
    BY DEF TypeOK
  <2>4. \A x \in SourceEvents : LastEvidence(audit', evidence', x)
    BY <2>1, <2>3, OneMoreEvidence DEF RowsAreTold
  <2>5. /\ Once(audit', "decision", Rows(decisions, Decisions))
        /\ Once(audit', "risk_decision", Rows(risks, RiskDecisions))
        /\ Once(audit', "fill", Rows(fills, Fills))
        /\ \A e \in Executions : LastExecution(audit', executions, e)
    BY <2>1, <2>2, OtherType DEF RowsAreTold
  <2>6. QED
    BY <2>1, <2>4, <2>5 DEF RowsAreTold
<1>5. CASE Executed
  <2>1. PICK r \in Runs, e \in Executions, state \in States :
            /\ Longer(audit, audit', Event(r, "execution", e, state))
            /\ executions' = [executions EXCEPT ![e] = state]
            /\ UNCHANGED <<evidence, decisions, risks, fills>>
    BY <1>5 DEF Executed, Received
  <2>2. \A type : type # "execution" => ~Tells(Event(r, "execution", e, state), type)
    BY DEF Event, Tells
  <2>3. DOMAIN executions = Executions /\ state # Absent
    BY DEF TypeOK
  <2>4. \A x \in Executions : LastExecution(audit', executions', x)
    BY <2>1, <2>3, OneMoreExecution DEF RowsAreTold
  <2>5. /\ Once(audit', "decision", Rows(decisions, Decisions))
        /\ Once(audit', "risk_decision", Rows(risks, RiskDecisions))
        /\ Once(audit', "fill", Rows(fills, Fills))
        /\ \A x \in SourceEvents : LastEvidence(audit', evidence, x)
    BY <2>1, <2>2, OtherType DEF RowsAreTold
  <2>6. QED
    BY <2>1, <2>4, <2>5 DEF RowsAreTold
<1>6. CASE Booked
  <2>1. PICK r \in Runs, f \in Fills, e \in Executions :
            /\ fills[f] = Absent
            /\ Longer(audit, audit', Event(r, "fill", f, Absent))
            /\ fills' = [fills EXCEPT ![f] = e]
            /\ UNCHANGED <<newest, evidence, decisions, risks, executions>>
    BY <1>6 DEF Booked
  <2> DEFINE event == Event(r, "fill", f, Absent)
  <2>2. /\ event.type = "fill" /\ event.subject = f /\ event.own
        /\ \A type : type # "fill" => ~Tells(event, type)
    BY DEF Event, Tells
  <2>3. Longer(audit, audit', event)
    BY <2>1
  <2>4. Rows(fills', Fills) = Rows(fills, Fills) \cup {f} /\ f \notin Rows(fills, Fills)
    BY <2>1 DEF Rows, TypeOK
  <2> HIDE DEF event
  <2>5. Once(audit', "fill", Rows(fills', Fills))
    BY <2>2, <2>3, <2>4, OneMoreOnce DEF RowsAreTold
  <2>6. /\ Once(audit', "decision", Rows(decisions, Decisions))
        /\ Once(audit', "risk_decision", Rows(risks, RiskDecisions))
        /\ \A x \in Executions : LastExecution(audit', executions, x)
        /\ \A x \in SourceEvents : LastEvidence(audit', evidence, x)
    BY <2>2, <2>3, OtherType DEF RowsAreTold
  <2>7. QED
    BY <2>1, <2>5, <2>6 DEF RowsAreTold
<1>8. QED
  BY <1>1, <1>2, <1>3, <1>4, <1>5, <1>6, <1>7, AuditStep

\* Each row is told of by one event of the store's own, or told last by the one
\* that has its status, whatever operations follow each other, whatever is
\* appended and wherever a process stops.
THEOREM AuditAndTablesAgree == Spec => []AuditMatchesTables
<1>1. Init => RowsAreTold
  BY DEF Init, RowsAreTold, Once, Of, Rows, LastExecution, LastEvidence
<1>2. QED
  BY <1>1, InitTyped, TypedStep, RowsToldStep, RowsToldSuffice, PTL DEF Spec
--------------------------------------------------------------------------------
(* What is shown was saved *)

\* The audit and the table have the evidence.
Saved(v) ==
    /\ \E i \in Of(audit, "evidence") : audit[i].subject = v
    /\ evidence[EventOf[v]] # Absent

\* The audit has an intelligence snapshot that observed it.
Observed(v) == \E i \in Of(audit, "intelligence_snapshot") : v \in audit[i].observed

Known(v) == Saved(v) \/ Observed(v)

\* What the call in progress no longer has to save was saved, and so was what
\* any projection shows, but for what a snapshot observed.
Gathered ==
    /\ \A v \in gathering.all \ gathering.left : Saved(v)
    /\ \A v \in model.shown : Known(v)
    /\ \A p \in {model, current} \cup {projections[r] : r \in Runs} :
          p # Absent => \A v \in p.shown : Known(v)

LEMMA SavedStays ==
    ASSUME TypeOK, [Next]_vars, NEW v \in EvidenceIds, Saved(v)
    PROVE  Saved(v)'
<1> USE StoreAssumption
<1>1. ASSUME NEW s, NEW t, NEW e, Longer(s, t, e),
             \E i \in Of(s, "evidence") : s[i].subject = v
      PROVE  \E i \in Of(t, "evidence") : t[i].subject = v
  BY <1>1 DEF Longer, Of, Tells
<1>2. CASE audit' = audit /\ Quiet
  BY <1>2 DEF Saved, Quiet
<1>3. CASE Noted
  BY <1>1, <1>3 DEF Noted, Quiet, Saved
<1>8. CASE Appended
  BY <1>1, <1>8 DEF Appended, Received, Saved
<1>4. CASE Bundled
  BY <1>1, <1>4 DEF Bundled, Bundle, Saved
<1>5. CASE Sighted
  <2>1. EventOf[v] \in SourceEvents /\ DOMAIN evidence = SourceEvents
    BY DEF TypeOK
  <2>2. PICK r \in Runs, w \in EvidenceIds :
            /\ Longer(audit, audit', Event(r, "evidence", w, Absent))
            /\ evidence' = [evidence EXCEPT ![EventOf[w]] = w]
    BY <1>5 DEF Sighted
  <2>3. evidence'[EventOf[v]] # Absent
    BY <2>1, <2>2 DEF Saved
  <2>4. QED
    BY <1>1, <2>2, <2>3 DEF Saved
<1>6. CASE Executed
  BY <1>1, <1>6 DEF Executed, Received, Saved
<1>7. CASE Booked
  BY <1>1, <1>7 DEF Booked, Saved
<1>9. QED
  BY <1>2, <1>3, <1>4, <1>5, <1>6, <1>7, <1>8, AuditStep

LEMMA ObservedStays ==
    ASSUME TypeOK, [Next]_vars, NEW v, Observed(v)
    PROVE  Observed(v)'
<1>1. ASSUME NEW s, NEW t, NEW e, Longer(s, t, e),
             \E i \in Of(s, "intelligence_snapshot") : v \in s[i].observed
      PROVE  \E i \in Of(t, "intelligence_snapshot") : v \in t[i].observed
  BY <1>1 DEF Longer, Of, Tells
<1>2. CASE audit' = audit
  BY <1>2 DEF Observed
<1>3. CASE Noted \/ Appended
  BY <1>1, <1>3 DEF Noted, Appended, Received, Observed
<1>4. CASE Bundled
  BY <1>1, <1>4 DEF Bundled, Bundle, Observed
<1>5. CASE Sighted \/ Executed \/ Booked
  BY <1>1, <1>5 DEF Sighted, Executed, Received, Booked, Observed
<1>6. QED
  BY <1>2, <1>3, <1>4, <1>5, AuditStep

LEMMA KnownStays ==
    ASSUME TypeOK, [Next]_vars, NEW v \in EvidenceIds, Known(v)
    PROVE  Known(v)'
  BY SavedStays, ObservedStays DEF Known

\* The item that was just saved is.
LEMMA SightedIsSaved ==
    ASSUME TypeOK, NEW r \in Runs, NEW v \in EvidenceIds, SaveEvidence(r, v)
    PROVE  Saved(v)'
<1>1. Longer(audit, audit', Event(r, "evidence", v, Absent))
  BY RecordsLonger, SubjectsOf DEF SaveEvidence
<1>2. \E i \in Of(audit', "evidence") : audit'[i].subject = v
  BY <1>1 DEF Longer, Of, Tells, Event
<1>3. evidence'[EventOf[v]] # Absent
  BY StoreAssumption DEF SaveEvidence, TypeOK
<1>4. QED
  BY <1>2, <1>3 DEF Saved

\* Who may be shown what, before and after a projection is committed.
LEMMA ProjectShows ==
    ASSUME TypeOK, Gathered, [Next]_vars, NEW event, event.run \in Runs, NEW next \in Models,
           Project(event, next), \A v \in next.shown : Known(v)'
    PROVE  /\ \A v \in model'.shown : Known(v)'
           /\ \A p \in {model', current'} \cup {projections'[q] : q \in Runs} :
                 p # Absent => \A v \in p.shown : Known(v)'
<1>1. /\ model' = next /\ current' = next
      /\ \A q \in Runs : projections'[q] = next \/ projections'[q] = projections[q]
  BY DEF Project, TypeOK
<1>2. \A q \in Runs : projections[q] # Absent => projections[q].shown \subseteq EvidenceIds
  BY DEF TypeOK, Models
<1>3. ASSUME NEW q \in Runs, projections[q] # Absent, NEW v \in projections[q].shown
      PROVE  Known(v)'
  BY <1>2, <1>3, KnownStays DEF Gathered
<1>4. QED
  BY <1>1, <1>3

LEMMA GatheredStep == TypeOK /\ Gathered /\ [Next]_vars => Gathered'
<1> SUFFICES ASSUME TypeOK, Gathered, [Next]_vars PROVE Gathered'
  OBVIOUS
<1> USE StoreAssumption
<1>1. gathering.all \subseteq EvidenceIds
  BY DEF TypeOK, Gatherings, NotGathering
<1>2. \A p \in {model, current} \cup {projections[r] : r \in Runs} :
          p # Absent => p.shown \subseteq EvidenceIds
  BY DEF TypeOK, Models
<1>3. /\ \A v \in gathering.all \ gathering.left : Saved(v)'
      /\ \A v \in model.shown : Known(v)'
  <2>1. model.shown \subseteq EvidenceIds
    BY DEF TypeOK, Models
  <2>2. QED
    BY <1>1, <2>1, SavedStays, KnownStays DEF Gathered
<1>4. \A p \in {model, current} \cup {projections[r] : r \in Runs} :
          p # Absent => \A v \in p.shown : Known(v)'
  BY <1>2, KnownStays DEF Gathered
<1>5. ASSUME UNCHANGED <<current, projections>>, model' = model \/ model' = NoModel,
             \/ gathering' = gathering
             \/ gathering'.all = gathering'.left
      PROVE  Gathered'
  BY <1>3, <1>4, <1>5 DEF Gathered, NoModel
<1>6. ASSUME NEW p \in Processes, ReadVersion(p) \/ Migrate(p) \/ EnsureProjections(p) \/ Stop(p)
      PROVE  Gathered'
  BY <1>5, <1>6 DEF ReadVersion, Migrate, EnsureProjections, Stop, tables, NotGathering
<1>7. ASSUME NEW r \in Runs,
             \/ \E entry \in Appends : AppendEvent(r, entry)
             \/ \E d \in Decisions, k \in RiskDecisions : SaveDecisionBundle(r, d, k)
             \/ \E e \in Executions, state \in States : SaveExecution(r, e, state)
             \/ \E f \in Fills, e \in Executions : SaveFill(r, f, e)
             \/ \E s \in Snapshots : SavePortfolioSnapshot(r, s)
      PROVE  Gathered'
  BY <1>5, <1>7 DEF AppendEvent, SaveDecisionBundle, SaveExecution, SaveFill, SavePortfolioSnapshot
<1>8. ASSUME NEW r \in Runs, NEW items \in SUBSET EvidenceIds, Gather(r, items) PROVE Gathered'
  BY <1>5, <1>8 DEF Gather, tables
<1>9. CASE GatherFails
  BY <1>5, <1>9 DEF GatherFails, tables, NotGathering
<1>10. CASE UNCHANGED vars
  BY <1>5, <1>10 DEF vars, tables
<1>11. ASSUME NEW v \in EvidenceIds, GatherSave(v) PROVE Gathered'
  <2>1. gathering \in [run : Runs, all : SUBSET EvidenceIds, left : SUBSET EvidenceIds]
    BY <1>11 DEF GatherSave, TypeOK, Gatherings, NotGathering
  <2>2. Saved(v)'
    BY <1>11, <2>1, SightedIsSaved DEF GatherSave
  <2>3. /\ UNCHANGED <<model, current, projections>>
        /\ gathering'.all = gathering.all /\ gathering'.left = gathering.left \ {v}
    BY <1>11, <2>1 DEF GatherSave, SaveEvidence
  <2>4. QED
    BY <1>3, <1>4, <2>2, <2>3 DEF Gathered
<1>12. ASSUME NEW r \in Runs, RunStarted(r) PROVE Gathered'
  <2>1. [run |-> r, shown |-> {}] \in Models /\ [run |-> r, shown |-> {}].shown = {}
    BY DEF Models
  <2>2. Project(Event(r, "other", r, Absent), [run |-> r, shown |-> {}]) /\ gathering' = gathering
    BY <1>12 DEF RunStarted
  <2>3. QED
    BY <1>3, <2>1, <2>2, ProjectingTyped, ProjectShows DEF Gathered
<1>13. CASE GatherCommit
  <2> DEFINE next == [model EXCEPT !.shown = @ \cup gathering.all]
  <2>1. gathering.run \in Runs /\ model \in Models /\ gathering.left = {}
    BY <1>13 DEF GatherCommit, TypeOK, Gatherings
  <2>2. next \in Models /\ next.shown = model.shown \cup gathering.all
    BY <1>1, <2>1 DEF Models
  <2> DEFINE event == Event(gathering.run, "other", gathering.run, Absent)
  <2>3. Project(event, next) /\ event.run \in Runs /\ gathering' = NotGathering
    BY <1>13, <2>1, ProjectingTyped DEF GatherCommit
  <2>4. \A v \in next.shown : Known(v)'
    BY <1>3, <2>1, <2>2 DEF Known
  <2> HIDE DEF next, event
  <2>5. /\ \A v \in model'.shown : Known(v)'
        /\ \A p \in {model', current'} \cup {projections'[q] : q \in Runs} :
              p # Absent => \A v \in p.shown : Known(v)'
    BY <2>1, <2>2, <2>3, <2>4, ProjectShows
  <2>6. QED
    BY <2>3, <2>5 DEF Gathered, NotGathering
<1>14. ASSUME NEW r \in Runs, NEW items \in SUBSET EvidenceIds, IntelligenceSnapshot(r, items)
       PROVE  Gathered'
  <2> DEFINE next == [model EXCEPT !.shown = @ \cup items]
             event == SnapshotEvent(r, items)
  <2>1. next \in Models /\ next.shown = model.shown \cup items
    BY DEF TypeOK, Models
  <2>2. /\ event \in AuditEvents(runs \cup {r}) /\ event.run = r
        /\ Tells(event, "intelligence_snapshot") /\ event.observed = items
    BY SnapshotTyped DEF Tells
  <2>3. Project(event, next) /\ gathering' = gathering
    BY <1>14 DEF IntelligenceSnapshot
  <2> HIDE DEF next, event
  <2>4. Longer(audit, audit', event)
    BY <2>2, <2>3, AnyRecordsLonger DEF Project
  <2>5. \A v \in items : Observed(v)'
    BY <2>2, <2>4 DEF Longer, Of, Observed
  <2>6. \A v \in next.shown : Known(v)'
    BY <1>3, <2>1, <2>5 DEF Known
  <2>7. /\ \A v \in model'.shown : Known(v)'
        /\ \A p \in {model', current'} \cup {projections'[q] : q \in Runs} :
              p # Absent => \A v \in p.shown : Known(v)'
    BY <2>1, <2>2, <2>3, <2>6, ProjectShows
  <2>8. QED
    BY <1>3, <2>3, <2>7 DEF Gathered
<1>15. QED
  BY <1>6, <1>7, <1>8, <1>9, <1>10, <1>11, <1>12, <1>13, <1>14 DEF Next

\* No stop, refused item or other writer makes a projection show evidence that
\* the audit and the evidence table do not have, unless an intelligence
\* snapshot, which the audit has, observed it.
THEOREM ShownIsSaved == Spec => []ShownEvidenceIsSaved
<1>1. Init => Gathered
  BY DEF Init, Gathered, NoModel, NotGathering
<1>2. Gathered => ShownEvidenceIsSaved
  BY DEF Gathered, Known, Saved, Observed, Of, Tells, Saves, Told, ShownEvidenceIsSaved
<1>3. QED
  BY <1>1, <1>2, InitTyped, TypedStep, GatheredStep, PTL DEF Spec
--------------------------------------------------------------------------------
(* What is reported unresolved *)

\* The receipts of an audit, the store's own and the others.
Receipts(s) == {i \in DOMAIN s : s[i].type = "execution"}

\* The receipt that the reports take for the latest is one that was recorded.
NewestIsTold ==
    \A e \in Executions :
        /\ newest[e] = Absent => \A i \in Receipts(audit) : audit[i].subject # e
        /\ newest[e] # Absent =>
              \E i \in Receipts(audit) : audit[i].subject = e /\ audit[i].state = newest[e]

LEMMA NewestStep == TypeOK /\ NewestIsTold /\ [Next]_vars => NewestIsTold'
<1> SUFFICES ASSUME TypeOK, NewestIsTold, [Next]_vars PROVE NewestIsTold'
  OBVIOUS
<1> USE StoreAssumption
<1>1. ASSUME NEW s, NEW t, NEW e, e.type # "execution", Longer(s, t, e)
      PROVE  Receipts(t) = Receipts(s)
                 /\ \A i \in Receipts(s) : t[i] = s[i]
  BY <1>1 DEF Longer, Receipts
<1>2. ASSUME Receipts(audit') = Receipts(audit),
             \A i \in Receipts(audit) : audit'[i] = audit[i], newest' = newest
      PROVE  NewestIsTold'
  BY <1>2 DEF NewestIsTold
<1>3. CASE audit' = audit /\ Quiet
  BY <1>3 DEF NewestIsTold, Quiet
<1>4. CASE Noted
  BY <1>1, <1>2, <1>4 DEF Noted, Quiet
<1>5. CASE Bundled
  <2>1. PICK a, b, m : /\ a.type = "decision" /\ Longer(audit, m, a)
                       /\ b.type = "risk_decision" /\ Longer(m, audit', b)
    BY <1>5 DEF Bundled, Bundle, Event
  <2>2. a.type # "execution" /\ b.type # "execution"
    BY <2>1
  <2>3. Receipts(m) = Receipts(audit)
            /\ \A i \in Receipts(audit) : m[i] = audit[i]
    BY <1>1, <2>1, <2>2
  <2>4. Receipts(audit') = Receipts(m)
            /\ \A i \in Receipts(m) : audit'[i] = m[i]
    BY <1>1, <2>1, <2>2
  <2>5. QED
    BY <1>2, <1>5, <2>3, <2>4 DEF Bundled, Bundle
<1>6. CASE Sighted
  <2>1. PICK a : a.type = "evidence" /\ Longer(audit, audit', a)
    BY <1>6 DEF Sighted, Event
  <2>2. QED
    BY <1>1, <1>2, <1>6, <2>1 DEF Sighted
<1>7. CASE Booked
  <2>1. PICK a : a.type = "fill" /\ Longer(audit, audit', a)
    BY <1>7 DEF Booked, Event
  <2>2. QED
    BY <1>1, <1>2, <1>7, <2>1 DEF Booked
<1>8. ASSUME NEW event, Received(event) PROVE NewestIsTold'
  <2> DEFINE e == event.subject
             state == event.state
  <2>1. /\ e \in Executions /\ state \in States /\ event.type = "execution"
        /\ Longer(audit, audit', event)
        /\ \/ newest' = [newest EXCEPT ![e] = state]
           \/ newest[e] # Absent /\ newest' = newest
    BY <1>8 DEF Received
  <2>2. PICK n \in Nat :
            /\ n \notin DOMAIN audit
            /\ DOMAIN audit' = DOMAIN audit \cup {n}
            /\ audit'[n] = event
            /\ \A i \in DOMAIN audit : audit'[i] = audit[i]
    BY <2>1 DEF Longer
  <2>3. audit'[n].type = "execution" /\ audit'[n].subject = e /\ audit'[n].state = state
    BY <2>1, <2>2
  <2> HIDE DEF e, state
  <2>4. /\ Receipts(audit') = Receipts(audit) \cup {n}
        /\ \A i \in Receipts(audit) : audit'[i] = audit[i]
    BY <2>2, <2>3 DEF Receipts
  <2>5. ASSUME NEW f \in Executions
        PROVE  /\ newest'[f] = Absent => \A i \in Receipts(audit') : audit'[i].subject # f
               /\ newest'[f] # Absent =>
                     \E i \in Receipts(audit') :
                        audit'[i].subject = f /\ audit'[i].state = newest'[f]
    <3>1. CASE f # e
      <4>1. newest'[f] = newest[f]
        BY <2>1, <3>1 DEF TypeOK
      <4>2. QED
        BY <2>3, <2>4, <3>1, <4>1 DEF NewestIsTold
    <3>2. CASE f = e /\ newest' = [newest EXCEPT ![e] = state]
      <4>1. newest'[f] = state /\ state # Absent
        BY <2>1, <3>2 DEF TypeOK
      <4>2. QED
        BY <2>3, <2>4, <3>2, <4>1
    <3>3. CASE f = e /\ newest[e] # Absent /\ newest' = newest
      BY <2>4, <3>3 DEF NewestIsTold
    <3>4. QED
      BY <2>1, <3>1, <3>2, <3>3
  <2>6. QED
    BY <2>5 DEF NewestIsTold
<1>9. CASE Appended \/ Executed
  BY <1>8, <1>9 DEF Appended, Executed
<1>10. QED
  BY <1>3, <1>4, <1>5, <1>6, <1>7, <1>9, AuditStep

\* Executions do not hide each other from the report of what is unresolved,
\* however many share a decision or a time.
THEOREM UnresolvedAreReported == Spec => []UnresolvedIsRight
<1>1. Init => NewestIsTold
  BY DEF Init, NewestIsTold, Receipts
<1>2. NewestIsTold /\ TypeOK => UnresolvedIsRight
  <2> SUFFICES ASSUME NewestIsTold, TypeOK, NEW e \in Executions
               PROVE  LET told == {audit[i].state : i \in {j \in Told("execution") :
                                                               audit[j].subject = e}}
                      IN  /\ told = {"Unknown"} => e \in Unresolved
                          /\ e \in Unresolved => "Unknown" \in told
    BY DEF UnresolvedIsRight
  <2> DEFINE told == {audit[i].state : i \in {j \in Told("execution") : audit[j].subject = e}}
  <2>1. \A x : x \in told <=> \E i \in Receipts(audit) :
                                  audit[i].subject = e /\ audit[i].state = x
    BY DEF Receipts, Told
  <2> HIDE DEF told
  <2>2. newest[e] # Absent => newest[e] \in told
    BY <2>1 DEF NewestIsTold
  <2>3. newest[e] = Absent => \A x : x \notin told
    BY <2>1 DEF NewestIsTold
  <2>4. told = {"Unknown"} => newest[e] = "Unknown"
    BY <2>2, <2>3
  <2>5. newest[e] = "Unknown" => "Unknown" \in told
    BY <2>2, StoreAssumption
  <2>6. QED
    BY <2>4, <2>5 DEF Unresolved, told
<1>3. QED
  BY <1>1, <1>2, InitTyped, TypedStep, NewestStep, PTL DEF Spec
================================================================================
