------------------------------ MODULE Persistence ------------------------------
(***************************************************************************)
(* The SQLite audit store of src/persistence.rs: how processes open the    *)
(* database file and migrate it, the operations that write its tables, and *)
(* what the reports read back.                                             *)
(*                                                                         *)
(* Every operation of an open store is one transaction: it is an action    *)
(* whose guard is what its statements require (primary and foreign keys,   *)
(* UNIQUE), and one that fails is rolled back and no step.  The steps of   *)
(* opening are not in one transaction.  A process may stop between any     *)
(* two; the file stays.                                                    *)
(*                                                                         *)
(* What the operator's projector does around the store is modelled as far  *)
(* as it spans transactions: evidence is saved item by item and only then  *)
(* shown by a projection, except by intelligence_snapshot, which saves     *)
(* none.                                                                   *)
(*                                                                         *)
(* append_event takes any event from its caller, of a type the store's own *)
(* operations write too, and looks at no table: the audit is only as true  *)
(* to the tables as what is appended.                                      *)
(***************************************************************************)
EXTENDS Naturals, Sequences

CONSTANTS
    Processes,      \* that open the file
    Writer,         \* the one whose writes are followed
    Runs, Decisions, RiskDecisions, Executions, Fills, Snapshots, EvidenceIds,
    SourceEvents,
    Plan,           \* risk decision, decision and client order id of an execution
    EventOf,        \* the source event that an evidence id stands for
    States,         \* receipt states
    Appends,        \* what callers of append_event append
    Absent,         \* no row
    MaxEvents       \* bound: audit events

Types == {"decision", "risk_decision", "evidence", "execution", "fill", "intelligence_snapshot",
          "other"}

Subjects == Runs \cup Decisions \cup RiskDecisions \cup EvidenceIds \cup Executions \cup Fills

\* An appended receipt is of what its payload, or else its entity, names as an execution,
\* and a state that is not Unknown stands for a payload without one.
Entries ==
    [type : Types \ {"execution"}, subject : Subjects, state : {Absent}]
        \cup [type : {"execution"}, subject : Executions, state : States]

ASSUME StoreAssumption ==
    /\ Writer \in Processes
    /\ \A e \in Executions : Plan[e].risk \in RiskDecisions /\ Plan[e].decision \in Decisions
    /\ EventOf \in [EvidenceIds -> SourceEvents]
    /\ \A rows \in {Runs, Decisions, RiskDecisions, Executions, Fills, EvidenceIds, States} :
          Absent \notin rows
    /\ "Unknown" \in States
    /\ Appends \subseteq Entries
    /\ MaxEvents \in Nat

VARIABLES
    version,        \* schema_migrations: 0 before the first migration
    projectable,    \* the table operator_projections exists
    phase,          \* how far each process is with opening the store
    runs,
    audit,          \* audit_events, in the order of their insertion
    newest,         \* the receipt of each execution that ORDER BY puts first
    evidence,       \* the evidence id in the row of each source event
    decisions,      \* the run of each decision
    risks,          \* the decision of each risk decision
    executions,     \* the status of each execution
    fills,          \* the execution of each fill
    snapshots,      \* the run of each portfolio snapshot
    current,        \* the current operator projection
    projections,    \* the operator projection of each run
    model,          \* the projector's read model in memory
    gathering       \* the evidence a projector call is saving

schema == <<version, projectable>>
tables == <<runs, audit, newest, evidence, decisions, risks, executions, fills, snapshots,
            current, projections>>
vars == <<schema, phase, tables, model, gathering>>

\* An audit event of an operation of the store: what it is about, and the state a receipt
\* tells.
Event(r, type, subject, state) ==
    [run |-> r, type |-> type, subject |-> subject, state |-> state, observed |-> {}, own |-> TRUE]

\* One that was appended is not the store's own.
AppendedEvent(r, entry) ==
    [run |-> r, type |-> entry.type, subject |-> entry.subject, state |-> entry.state,
     observed |-> {}, own |-> FALSE]

\* That of an intelligence snapshot has the observations in its payload.
SnapshotEvent(r, observations) ==
    [run |-> r, type |-> "intelligence_snapshot", subject |-> r, state |-> Absent,
     observed |-> observations, own |-> TRUE]

Models == [run : Runs \cup {Absent}, shown : SUBSET EvidenceIds]
NoModel == [run |-> Absent, shown |-> {}]
NotGathering == [run |-> Absent, all |-> {}, left |-> {}]

Phases == {"closed", "unversioned", "migrated", "open", "refused"}
AuditEvents(some) ==
    [run : some, type : Types, subject : Subjects, state : States \cup {Absent},
     observed : SUBSET EvidenceIds, own : BOOLEAN]
Gatherings == [run : Runs, all : SUBSET EvidenceIds, left : SUBSET EvidenceIds] \cup {NotGathering}

\* The types, and the references between tables that SQLite enforces.
TypeOK ==
    /\ version \in 0..2
    /\ projectable \in BOOLEAN
    /\ phase \in [Processes -> Phases]
    /\ runs \subseteq Runs
    /\ audit \in Seq(AuditEvents(runs))
    /\ newest \in [Executions -> States \cup {Absent}]
    /\ evidence \in [SourceEvents -> EvidenceIds \cup {Absent}]
    /\ decisions \in [Decisions -> runs \cup {Absent}]
    /\ risks \in [RiskDecisions -> {d \in Decisions : decisions[d] # Absent} \cup {Absent}]
    /\ executions \in [Executions -> States \cup {Absent}]
    /\ \A e \in Executions : executions[e] # Absent => risks[Plan[e].risk] # Absent
    /\ fills \in [Fills -> {e \in Executions : executions[e] # Absent} \cup {Absent}]
    /\ snapshots \in [Snapshots -> runs \cup {Absent}]
    /\ current \in Models \cup {Absent}
    /\ projections \in [Runs -> Models \cup {Absent}]
    /\ model \in Models
    /\ gathering \in Gatherings
--------------------------------------------------------------------------------
(* Opening the store *)

\* A new file, or one that a later release has migrated further.
Init ==
    /\ version \in {0, 2}
    /\ projectable = FALSE
    /\ phase = [p \in Processes |-> "closed"]
    /\ runs = {}
    /\ audit = <<>>
    /\ newest = [e \in Executions |-> Absent]
    /\ evidence = [x \in SourceEvents |-> Absent]
    /\ decisions = [d \in Decisions |-> Absent]
    /\ risks = [k \in RiskDecisions |-> Absent]
    /\ executions = [e \in Executions |-> Absent]
    /\ fills = [f \in Fills |-> Absent]
    /\ snapshots = [s \in Snapshots |-> Absent]
    /\ current = Absent
    /\ projections = [r \in Runs |-> Absent]
    /\ model = NoModel
    /\ gathering = NotGathering

\* Mutant: a database of the current version is taken to be complete.
ReadVersion_Trusted(p) ==
    /\ phase[p] = "closed"
    /\ phase' = [phase EXCEPT ![p] = IF version = 0 THEN "unversioned"
                                     ELSE IF version = 1 THEN "open" ELSE "refused"]
    /\ UNCHANGED <<schema, tables, model, gathering>>

\* migrate, up to the version: schema_migrations is created if it is missing.
ReadVersion(p) ==
    /\ phase[p] = "closed"
    /\ phase' = [phase EXCEPT ![p] = IF version = 0 THEN "unversioned"
                                     ELSE IF version = 1 THEN "migrated" ELSE "refused"]
    /\ UNCHANGED <<schema, tables, model, gathering>>

\* The transaction that creates the tables and records the version.  It fails
\* where another process has created them since the version was read.
Migrate(p) ==
    /\ phase[p] = "unversioned"
    /\ version' = 1
    /\ phase' = [phase EXCEPT ![p] = IF version = 0 THEN "migrated" ELSE "refused"]
    /\ UNCHANGED <<projectable, tables, model, gathering>>

\* ensure_operator_projection_table, after that transaction or without one.
EnsureProjections(p) ==
    /\ phase[p] = "migrated"
    /\ projectable' = TRUE
    /\ phase' = [phase EXCEPT ![p] = "open"]
    /\ UNCHANGED <<version, tables, model, gathering>>

\* A process ends, or gives up opening; what it had in memory is gone.
Stop(p) ==
    /\ phase[p] # "closed"
    /\ phase' = [phase EXCEPT ![p] = "closed"]
    /\ IF p = Writer THEN model' = NoModel /\ gathering' = NotGathering
       ELSE UNCHANGED <<model, gathering>>
    /\ UNCHANGED <<schema, tables>>
--------------------------------------------------------------------------------
(* Operations *)

\* A transaction that records these events, under a run that it ensures.
Records(r, events) ==
    /\ phase[Writer] = "open"
    /\ Len(audit) + Len(events) <= MaxEvents
    /\ runs' = runs \cup {r}
    /\ audit' = audit \o events
    /\ UNCHANGED <<schema, phase>>

\* Mutant: latest events are told apart by their entity, the decision.
SameExecution_Entity(e, f) == Plan[e].decision = Plan[f].decision

\* The executions whose receipts compete for being the latest.
SameExecution(e, f) == e = f

\* What the reports may take for the latest receipts after one more.  All receipts of a
\* plan are recorded at the plan's created_at and an appended one at any time, so which
\* one comes first is left open: a random event id may decide.
Latest(e, state) ==
    LET rivals == {f \in Executions : SameExecution(e, f) /\ newest[f] # Absent}
    IN  {[f \in Executions |-> IF f = e THEN state ELSE IF f \in rivals THEN Absent ELSE newest[f]]}
            \cup (IF rivals = {} THEN {} ELSE {newest})

\* append_event: any event the caller has, and no row.
AppendEvent(r, entry) ==
    /\ Records(r, <<AppendedEvent(r, entry)>>)
    /\ newest' \in IF entry.type = "execution" THEN Latest(entry.subject, entry.state) ELSE {newest}
    /\ UNCHANGED <<evidence, decisions, risks, executions, fills, snapshots, current, projections,
                   model, gathering>>

\* A decision or a risk decision that is there already fails the bundle.
SaveDecisionBundle(r, d, k) ==
    /\ decisions[d] = Absent
    /\ risks[k] = Absent
    /\ Records(r, <<Event(r, "decision", d, Absent), Event(r, "risk_decision", k, Absent)>>)
    /\ decisions' = [decisions EXCEPT ![d] = r]
    /\ risks' = [risks EXCEPT ![k] = d]
    /\ UNCHANGED <<newest, evidence, executions, fills, snapshots, current, projections, model,
                   gathering>>

\* The row of the source event is updated, or inserted if there is none.
SaveEvidence(r, v) ==
    /\ Records(r, <<Event(r, "evidence", v, Absent)>>)
    /\ evidence' = [evidence EXCEPT ![EventOf[v]] = v]
    /\ UNCHANGED <<newest, decisions, risks, executions, fills, snapshots, current, projections>>

\* Mutant: foreign keys are not enforced.
SaveExecution_Unreferenced(r, e, state) ==
    /\ Records(r, <<Event(r, "execution", e, state)>>)
    /\ executions' = [executions EXCEPT ![e] = state]
    /\ newest' = [newest EXCEPT ![e] = state]
    /\ UNCHANGED <<evidence, decisions, risks, fills, snapshots, current, projections, model,
                   gathering>>

\* Mutant: a row that is there already is passed over, its event is not.
SaveExecution_FirstKept(r, e, state) ==
    /\ risks[Plan[e].risk] # Absent
    /\ executions[e] = Absent =>
          \A f \in Executions : executions[f] # Absent => Plan[f].order # Plan[e].order
    /\ Records(r, <<Event(r, "execution", e, state)>>)
    /\ executions' = [executions EXCEPT ![e] = IF @ = Absent THEN state ELSE @]
    /\ newest' \in Latest(e, state)
    /\ UNCHANGED <<evidence, decisions, risks, fills, snapshots, current, projections, model,
                   gathering>>

\* The client order id of another row fails the upsert.
SaveExecution(r, e, state) ==
    /\ risks[Plan[e].risk] # Absent
    /\ executions[e] = Absent =>
          \A f \in Executions : executions[f] # Absent => Plan[f].order # Plan[e].order
    /\ Records(r, <<Event(r, "execution", e, state)>>)
    /\ executions' = [executions EXCEPT ![e] = state]
    /\ newest' \in Latest(e, state)
    /\ UNCHANGED <<evidence, decisions, risks, fills, snapshots, current, projections, model,
                   gathering>>

SaveFill(r, f, e) ==
    /\ executions[e] # Absent
    /\ fills[f] = Absent
    /\ Records(r, <<Event(r, "fill", f, Absent)>>)
    /\ fills' = [fills EXCEPT ![f] = e]
    /\ UNCHANGED <<newest, evidence, decisions, risks, executions, snapshots, current, projections,
                   model, gathering>>

\* A snapshot leaves no event.
SavePortfolioSnapshot(r, s) ==
    /\ snapshots[s] = Absent
    /\ Records(r, <<>>)
    /\ snapshots' = [snapshots EXCEPT ![s] = r]
    /\ UNCHANGED <<newest, evidence, decisions, risks, executions, fills, current, projections,
                   model, gathering>>

\* append_event_with_projection, and the model that replaces the one in memory:
\* event, current projection and the run's projection in one transaction.
Project(event, next) ==
    /\ Records(event.run, <<event>>)
    /\ current' = next
    /\ projections' = [projections EXCEPT ![event.run] = next]
    /\ model' = next
    /\ UNCHANGED <<newest, evidence, decisions, risks, executions, fills, snapshots>>
--------------------------------------------------------------------------------
(* Projector calls *)

RunStarted(r) ==
    /\ gathering = NotGathering
    /\ Project(Event(r, "other", r, Absent), [run |-> r, shown |-> {}])
    /\ UNCHANGED gathering

\* context_snapshot or source_completed is called with evidence of a run.
Gather(r, items) ==
    /\ phase[Writer] = "open"
    /\ gathering = NotGathering
    /\ gathering' = [run |-> r, all |-> items, left |-> items]
    /\ UNCHANGED <<schema, phase, tables, model>>

GatherSave(v) ==
    /\ v \in gathering.left
    /\ SaveEvidence(gathering.run, v)
    /\ gathering' = [gathering EXCEPT !.left = @ \ {v}]
    /\ UNCHANGED model

\* An item, or the commit, that is refused ends the call; what was saved stays.
GatherFails ==
    /\ gathering # NotGathering
    /\ gathering' = NotGathering
    /\ UNCHANGED <<schema, phase, tables, model>>

\* Mutant: the commit does not wait for the evidence.
GatherCommit_Early ==
    /\ gathering # NotGathering
    /\ Project(Event(gathering.run, "other", gathering.run, Absent),
               [model EXCEPT !.shown = @ \cup gathering.all])
    /\ gathering' = NotGathering

\* merge_signals adds the evidence to what is shown.
GatherCommit ==
    /\ gathering # NotGathering
    /\ gathering.left = {}
    /\ Project(Event(gathering.run, "other", gathering.run, Absent),
               [model EXCEPT !.shown = @ \cup gathering.all])
    /\ gathering' = NotGathering

\* Observations are shown, and in the payload of the event, but not saved as evidence.
IntelligenceSnapshot(r, observations) ==
    /\ gathering = NotGathering
    /\ Project(SnapshotEvent(r, observations), [model EXCEPT !.shown = @ \cup observations])
    /\ UNCHANGED gathering

Next ==
    \/ \E p \in Processes : ReadVersion(p) \/ Migrate(p) \/ EnsureProjections(p) \/ Stop(p)
    \/ \E r \in Runs :
          \/ \E entry \in Appends : AppendEvent(r, entry)
          \/ \E d \in Decisions, k \in RiskDecisions : SaveDecisionBundle(r, d, k)
          \/ \E e \in Executions, state \in States : SaveExecution(r, e, state)
          \/ \E f \in Fills, e \in Executions : SaveFill(r, f, e)
          \/ \E s \in Snapshots : SavePortfolioSnapshot(r, s)
          \/ RunStarted(r)
          \/ \E items \in SUBSET EvidenceIds : Gather(r, items) \/ IntelligenceSnapshot(r, items)
    \/ \E v \in EvidenceIds : GatherSave(v)
    \/ GatherFails
    \/ GatherCommit

Spec == Init /\ [][Next]_vars
--------------------------------------------------------------------------------
(* What the reports read *)

Told(type) == {i \in DOMAIN audit : audit[i].type = type}

\* The events among them that the store's own operations wrote.
Saves(type) == {i \in Told(type) : audit[i].own}

\* unresolved_execution_ids, and the count of unknown executions of report.
Unresolved == {e \in Executions : newest[e] = "Unknown"}
--------------------------------------------------------------------------------
\* An open store has all its tables, whichever process created them and
\* wherever that process, or an earlier one, stopped (migrate).
OpenMeansComplete == \A p \in Processes : phase[p] = "open" => version = 1 /\ projectable

\* Exactly one event of the store's own tells of each row, and none of what is no row.
OneEventEach(type, rows) ==
    /\ {audit[i].subject : i \in Saves(type)} = rows
    /\ \A i, j \in Saves(type) : audit[i].subject = audit[j].subject => i = j

\* The store's own events and the tables tell the same story: each decision, risk decision
\* and fill is told of once, the last event of an execution tells the status in its row,
\* and of evidence, the id.  Not so with append_event: the counts and fees of report are
\* over all events, so a receipt or a fill that was appended counts and has no row.
AuditMatchesTables ==
    /\ OneEventEach("decision", {d \in Decisions : decisions[d] # Absent})
    /\ OneEventEach("risk_decision", {k \in RiskDecisions : risks[k] # Absent})
    /\ OneEventEach("fill", {f \in Fills : fills[f] # Absent})
    /\ \A e \in Executions :
          LET receipts == {i \in Saves("execution") : audit[i].subject = e}
          IN  /\ executions[e] # Absent <=> receipts # {}
              /\ \A i \in receipts : (\A j \in receipts : j <= i) => audit[i].state = executions[e]
    /\ \A x \in SourceEvents :
          LET sightings == {i \in Saves("evidence") : EventOf[audit[i].subject] = x}
          IN  /\ evidence[x] # Absent <=> sightings # {}
              /\ \A i \in sightings : (\A j \in sightings : j <= i) => audit[i].subject = evidence[x]

\* What a projection shows was saved: wherever the process stops, of every piece of
\* evidence in a stored or served projection the audit has the event of its saving, and
\* its source event has a row (context_snapshot, source_completed).  The one exception is
\* what an intelligence_snapshot in the audit has brought: that is in its payload only.
ShownEvidenceIsSaved ==
    \A p \in {model, current} \cup {projections[r] : r \in Runs} : p # Absent =>
        \A v \in p.shown :
            \/ \E i \in Saves("intelligence_snapshot") : v \in audit[i].observed
            \/ /\ \E i \in Saves("evidence") : audit[i].subject = v
               /\ evidence[EventOf[v]] # Absent

\* tests/persistence.rs reports an Unknown execution as unresolved, whether its receipt was
\* saved or appended.  It holds as far as the receipts leave no doubt: executions of one
\* decision do not hide each other.
UnresolvedIsRight ==
    \A e \in Executions :
        LET told == {audit[i].state : i \in {j \in Told("execution") : audit[j].subject = e}}
        IN  /\ told = {"Unknown"} => e \in Unresolved
            /\ e \in Unresolved => "Unknown" \in told
================================================================================
