------------------------- MODULE DecisionOrchestrator -------------------------
(***************************************************************************)
(* DecisionOrchestrator of src/decision.rs over the intelligence service   *)
(* it owns as its ResearchProvider: cycle after cycle, the planner's       *)
(* requests are checked against the budget, researched one by one, shown   *)
(* to the agent together with the context's evidence, and the agent's      *)
(* decisions become proposals or nothing.                                  *)
(*                                                                         *)
(* The caller may have collected a snapshot before the orchestrator took   *)
(* the service over, and builds contexts from it; it passes what earlier   *)
(* cycles proposed as the prior decisions.  The agent cites evidence it    *)
(* was shown.  Every call of the observer may fail, which ends the cycle   *)
(* with an error.  An agent request that fails, an empty or too long list  *)
(* of payloads, an undecodable payload and two payloads of one instrument  *)
(* or decision id all end it with no action.                               *)
(***************************************************************************)
EXTENDS IntelligenceService, SequencesExt

CONSTANTS
    Universe,           \* the instruments the context trades
    Positions,          \* instrument -> "none" (not known), "flat" or "open"
    Plans,              \* what the planner may ask for
    Collections,        \* the queries the caller may collect for
    AgentActions,       \* what the agent decides
    MaxSourceCalls, MaxActionable, MaxResults, MaxPerSource,    \* the research budget
    One,                \* the weight at which attention is full
    MaxCollections, MaxCycles   \* bounds of the model

\* A request carries the planner's own query, with the planner's time and age limit.
Requests ==
    [source : Sources, instrument : Instruments, query : Queries, rationale : BOOLEAN]
Actions == {"Buy", "Sell", "Hold"}

ASSUME OrchestratorAssumption ==
    /\ Universe \subseteq Instruments /\ Universe # {}
    /\ \A e \in Events : Catalog[e].affects \subseteq Universe
    /\ Positions \in [Universe -> {"none", "flat", "open"}]
    /\ Plans \subseteq Seq(Requests)
    /\ Collections \subseteq Queries
    /\ AgentActions \subseteq Actions
    /\ {MaxSourceCalls, MaxActionable, MaxResults, MaxPerSource, MaxCollections, MaxCycles}
          \subseteq Nat
    /\ One \in Nat \ {0}
    /\ MaxCollections <= MaxReads

VARIABLES
    snapshot,   \* what the caller collected: its query and the records it holds
    phase,      \* "idle", "researching" or "deciding"
    origin,     \* the query the context's evidence was collected with, before any research
    requests,   \* the accepted requests
    done,       \* how many of them have been researched
    evidence,   \* the evidence of the context: event -> record
    view,       \* the source health of the context
    errors,     \* how many requests failed
    emitted     \* the proposals of every cycle that has ended

cycle == <<origin, requests, done, evidence, view, errors>>
vars == <<serviceVars, snapshot, phase, cycle, emitted>>

Unknowns == [s \in Sources |-> "Unknown"]
NoQuery == [asOf |-> 0, maxAge |-> Unlimited, targets |-> {}, results |-> 1, perSource |-> 1]
NoSnapshot == [query |-> NoQuery, records |-> <<>>, health |-> Unknowns]

OrchestratorInit ==
    /\ Init
    /\ snapshot = NoSnapshot
    /\ phase = "idle" /\ origin = NoQuery /\ requests = <<>> /\ done = 0
    /\ evidence = <<>> /\ view = Unknowns /\ errors = 0
    /\ emitted = <<>>

Records(book, events) == [e \in events |-> book[e]]
--------------------------------------------------------------------------------
(* Attention: each catalyst counts once, with its strongest observation.   *)

Weights(shown, instrument) ==
    {<<Catalog[e].fingerprint, Catalog[e].weight>> :
        e \in {o \in DOMAIN shown : instrument \in Catalog[o].affects}}

\* Mutant: every observation counts.
AttentionScore_PerObservation(shown, instrument) ==
    LET total == MapThenSumSet(LAMBDA e : Catalog[e].weight,
                               {e \in DOMAIN shown : instrument \in Catalog[e].affects})
    IN  IF total > One THEN One ELSE total

AttentionScore(shown, instrument) ==
    LET weights == Weights(shown, instrument)
        strongest == {w \in weights : \A v \in weights : v[1] = w[1] => v[2] <= w[2]}
        total == MapThenSumSet(LAMBDA w : w[2], strongest)
    IN  IF total > One THEN One ELSE total
--------------------------------------------------------------------------------
(* Before the orchestrator owns the service *)

Collect(query, replies) ==
    /\ phase = "idle" /\ emitted = <<>>
    /\ reads < MaxCollections
    /\ LET result == Collected(Registered, query, replies)
       IN  /\ Remembers(result)
           /\ snapshot' = [query |-> query, records |-> Records(result.ledger, result.observations),
                           health |-> result.health]
    /\ UNCHANGED <<phase, cycle, emitted>>

Toggle(source, on) ==
    /\ phase = "idle"
    /\ SetSourceEnabled(source, on)
    /\ UNCHANGED <<snapshot, phase, cycle, emitted>>

Wait ==
    /\ Tick
    /\ UNCHANGED <<snapshot, phase, cycle, emitted>>
--------------------------------------------------------------------------------
(* The plan *)

Key(request) == <<request.source, request.instrument>>
KeysOf(plan, n) == {Key(plan[j]) : j \in 1..n}

\* Mutant: one call too many.
Refused_OneMore(plan) ==
    \E k \in 1..Len(plan) :
        \/ Cardinality(KeysOf(plan, k - 1)) > MaxSourceCalls
        \/ plan[k].instrument \notin Universe
        \/ ~plan[k].rationale

\* Some request comes when the calls are used up, or is itself not acceptable.
Refused(plan) ==
    \E k \in 1..Len(plan) :
        \/ Cardinality(KeysOf(plan, k - 1)) >= MaxSourceCalls
        \/ plan[k].instrument \notin Universe
        \/ ~plan[k].rationale
        \/ plan[k].query.results > MaxResults
        \/ plan[k].query.perSource > MaxPerSource
        \/ plan[k].instrument \notin plan[k].query.targets

\* A second request for the same source and instrument is dropped.
Accepted(plan) ==
    FoldLeft(LAMBDA kept, request :
                IF \E j \in DOMAIN kept : Key(kept[j]) = Key(request) THEN kept
                ELSE Append(kept, request),
             <<>>, plan)

\* A context from the snapshot, or one that holds nothing.
Contexts == {snapshot, NoSnapshot}

BeginCycle(context, plan) ==
    /\ phase = "idle" /\ Len(emitted) < MaxCycles
    /\ ~Refused(plan)
    /\ reads + Len(Accepted(plan)) <= MaxReads
    /\ phase' = IF plan = <<>> THEN "deciding" ELSE "researching"
    /\ origin' = context.query /\ evidence' = context.records /\ view' = context.health
    /\ requests' = Accepted(plan) /\ done' = 0 /\ errors' = 0
    /\ UNCHANGED <<serviceVars, snapshot, emitted>>

\* The end of a cycle; what it knew is dropped, and so is the snapshot, which the caller
\* uses for one context.
Ends(proposals) ==
    /\ phase' = "idle"
    /\ emitted' = Append(emitted, proposals)
    /\ origin' = NoQuery /\ requests' = <<>> /\ done' = 0
    /\ evidence' = <<>> /\ view' = Unknowns /\ errors' = 0
    /\ snapshot' = NoSnapshot

\* A planner that fails, a refused plan, or an observer that fails before any call.
CycleRefused ==
    /\ phase = "idle" /\ Len(emitted) < MaxCycles
    /\ Ends({})
    /\ UNCHANGED serviceVars
--------------------------------------------------------------------------------
(* Research *)

\* Mutant: the errors of the snapshot are not looked at.
Answer_ErrorsIgnored(source, result) ==
    [error |-> IF source \in result.silent THEN "Disabled" ELSE NoError,
     observations |-> IF source \in result.silent THEN {} ELSE result.observations]

\* IntelligenceService::research: what the service answers the orchestrator.
Answer(source, result) ==
    [error |-> IF source \in result.silent THEN "Disabled"
               ELSE IF source \in DOMAIN result.failed THEN result.failed[source] ELSE NoError,
     observations |-> IF source \in result.silent \cup DOMAIN result.failed THEN {}
                      ELSE result.observations]

\* The events of an answer that join the evidence: no second record of a known one.
Joins(request, answer, book) ==
    {e \in answer.observations \ DOMAIN evidence :
        /\ Matches(e, book[e].at, request.query)
        /\ request.instrument \in Catalog[e].affects}

Learns(request, answer, book) ==
    LET joining == Joins(request, answer, book)
        failed == answer.error # NoError
    IN  /\ evidence' = [e \in DOMAIN evidence \cup joining |->
                            IF e \in joining THEN book[e] ELSE evidence[e]]
        /\ view' = [view EXCEPT ![request.source] =
                        IF failed THEN StatusOf(answer.error) ELSE "Healthy"]
        /\ errors' = errors + (IF failed THEN 1 ELSE 0)
        /\ done' = done + 1
        /\ phase' = IF done' = Len(requests) THEN "deciding" ELSE "researching"
        /\ UNCHANGED <<snapshot, origin, requests, emitted>>

Asked(request) == {request.source} \cap Registered

\* One request; when the observer fails the service remembers what the cycle loses.
Research(replies, observed) ==
    /\ phase = "researching"
    /\ LET request == requests[done + 1]
           result == Collected(Asked(request), request.query, replies)
       IN  /\ Remembers(result)
           /\ IF observed THEN Learns(request, Answer(request.source, result), result.ledger)
              ELSE Ends({})
--------------------------------------------------------------------------------
(* The agent's decisions *)

Cites(events) == {<<e, evidence[e].id>> : e \in events}

\* What a batch may hold: one decision on each chosen instrument, citing what affects it.
BatchesOn(chosen) ==
    LET Citable == {p \in chosen \X DOMAIN evidence : p[1] \in Catalog[p[2]].affects}
        Batch(actions, cited) ==
            {[instrument |-> i, action |-> actions[i], cites |-> {p[2] : p \in {q \in cited : q[1] = i}}] :
                i \in chosen}
    IN  {Batch(actions, cited) : actions \in [chosen -> AgentActions], cited \in SUBSET Citable}

Batches == UNION {BatchesOn(chosen) : chosen \in (SUBSET Universe) \ {{}}}

Proposal(decision) ==
    [instrument |-> decision.instrument, action |-> decision.action,
     cites |-> Cites(decision.cites)]

Prior == UNION {emitted[k] : k \in DOMAIN emitted}

InTheDark == requests # <<>> /\ errors = Len(requests) /\ DOMAIN evidence = {}

Uncorroborated(decision) ==
    /\ decision.action # "Hold"
    /\ decision.cites # {}
    /\ \A e \in decision.cites : Catalog[e].source = "Reddit"

\* What rejects the whole batch.  The order of its decisions makes no difference: whatever
\* the first objection is, nothing is proposed.
Rejected(batch) ==
    \E d \in batch :
        \/ InTheDark /\ d.action # "Hold"
        \/ d.action = "Sell" /\ Positions[d.instrument] = "flat"
        \/ Uncorroborated(d)

\* The proposals of a batch that is not rejected: what is not a prior decision again.
Fresh(batch) == {Proposal(d) : d \in batch} \ Prior

Proposed(batch) ==
    LET fresh == Fresh(batch)
        actionable == {p \in fresh : p.action # "Hold"}
    IN  IF Rejected(batch) \/ Cardinality(actionable) > MaxActionable THEN {} ELSE fresh

Decide(batch) ==
    /\ phase = "deciding"
    /\ Ends(Proposed(batch))
    /\ UNCHANGED serviceVars

\* The agent or the observer fails, or the payloads are none, too many or undecodable, or two
\* of them share an instrument or a decision id.
NoDecision ==
    /\ phase = "deciding"
    /\ Ends({})
    /\ UNCHANGED serviceVars
--------------------------------------------------------------------------------
Next ==
    \/ Wait
    \/ \E s \in Toggled, on \in BOOLEAN : Toggle(s, on)
    \/ /\ phase = "idle" /\ reads < MaxCollections
       /\ \E query \in Collections, replies \in AnswersOf(Registered) : Collect(query, replies)
    \/ \E context \in Contexts, plan \in Plans : BeginCycle(context, plan)
    \/ CycleRefused
    \/ /\ phase = "researching"
       /\ \E replies \in AnswersOf(Asked(requests[done + 1])), observed \in BOOLEAN :
             Research(replies, observed)
    \/ /\ phase = "deciding"
       /\ \E batch \in Batches : Decide(batch)
    \/ NoDecision

Spec == OrchestratorInit /\ [][Next]_vars
--------------------------------------------------------------------------------
(* Properties *)

\* Every variable has its type; the cycle's progress and its errors stay within its
\* requests, and what it was shown is of events the ledger knows.
TypeOK ==
    /\ ServiceTypeOK
    /\ {snapshot.query, origin} \subseteq Queries /\ DOMAIN snapshot.records \subseteq DOMAIN ledger
    /\ phase \in {"idle", "researching", "deciding"}
    /\ requests \in Seq(Requests) /\ Len(requests) <= MaxSourceCalls
    /\ done \in 0..Len(requests) /\ errors \in 0..done
    /\ phase = "researching" => done < Len(requests)
    /\ DOMAIN evidence \subseteq DOMAIN ledger
    /\ \A e \in DOMAIN evidence : evidence[e] \in Entries
    /\ view \in [Sources -> Statuses]
    /\ Len(emitted) <= MaxCycles

\* The ledger forgets nothing, yet what is shown was asked for: every record of a snapshot
\* matches the query of that snapshot, and every record of a context matches the query the
\* context was collected with or the one of a request of this cycle on its own source and
\* on an instrument it affects.  It is that query's time and age limit that decide: a
\* planner that sets no limit, or runs on a clock of its own, is shown what is old, or
\* later than the cycle (decision.rs, run_with_observer; query.rs, matches).
EvidenceWasAskedFor ==
    /\ \A e \in DOMAIN snapshot.records : Matches(e, snapshot.records[e].at, snapshot.query)
    /\ \A e \in DOMAIN evidence :
          \/ Matches(e, evidence[e].at, origin)
          \/ \E k \in 1..done :
                /\ requests[k].source = Catalog[e].source
                /\ requests[k].instrument \in Catalog[e].affects
                /\ Matches(e, evidence[e].at, requests[k].query)

\* A source that failed or is switched off stays silent: what a call adds to the evidence
\* comes from a source that has just answered without an error, and never from what the
\* ledger remembers of it.
FailedSourcesAddNothing ==
    [][phase = "researching" =>
          \A e \in DOMAIN evidence' \ DOMAIN evidence :
              /\ Catalog[e].source \in enabled
              /\ health'[Catalog[e].source] = "Healthy"]_vars

\* After research on a source the cycle and the service, which keep a health registry each,
\* say the same of it.
HealthAgrees ==
    \A k \in 1..done : requests[k].source \in Registered =>
        view[requests[k].source] = health[requests[k].source]

\* No two cycles propose the same action on the same instrument because of the same source
\* events, however often those are observed again, and under whatever evidence id.
NothingProposedTwice ==
    \A c, d \in DOMAIN emitted : c # d =>
        \A p \in emitted[c], q \in emitted[d] :
            \/ p.instrument # q.instrument \/ p.action # q.action
            \/ {cite[1] : cite \in p.cites} # {cite[1] : cite \in q.cites}

\* A source event keeps its evidence id and its lineage for as long as the service lives.
IdentityKept ==
    [][\A e \in DOMAIN ledger :
          /\ e \in DOMAIN ledger'
          /\ ledger'[e].id = ledger[e].id /\ ledger'[e].lineage = ledger[e].lineage]_vars

\* One more observation of a known catalyst, no stronger than one that is known, does not
\* raise the attention of any instrument it affects.
CatalystsCountOnce ==
    [][phase = "researching" /\ phase' # "idle" =>
          \A i \in Universe :
              \/ AttentionScore(evidence', i) = AttentionScore(evidence, i)
              \/ \E e \in DOMAIN evidence' \ DOMAIN evidence : \A o \in DOMAIN evidence :
                    \/ i \notin Catalog[o].affects
                    \/ Catalog[o].fingerprint # Catalog[e].fingerprint
                    \/ Catalog[o].weight < Catalog[e].weight]_vars
================================================================================
