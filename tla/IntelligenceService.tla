-------------------------- MODULE IntelligenceService --------------------------
(***************************************************************************)
(* The intelligence service (src/intelligence): adapters that are polled   *)
(* for observations of a bounded query, a ledger that remembers one record *)
(* per source event, and the health of every source.                       *)
(*                                                                         *)
(* A call polls its adapters one after the other and returns; nothing else *)
(* runs meanwhile but the clock and the world.  What makes it hard is its  *)
(* memory: the ledger outlives the calls, the time window of their queries *)
(* and the switch of their sources.                                        *)
(*                                                                         *)
(* An observation is its source event: the Catalog says whose it is, what  *)
(* it affects, its fingerprint, its weight (strength, freshness,           *)
(* reliability, novelty and relevance in one number) and its place in the  *)
(* order of source and event id.  There is one adapter per source.         *)
(***************************************************************************)
EXTENDS Integers, FiniteSets

CONSTANTS
    Instruments,
    Sources,        \* every IntelligenceSource
    Registered,     \* those an adapter is registered for
    Live,           \* those whose adapter stamps an event with the time of its reading
    Renaming,       \* those whose adapter draws a new evidence id for each sighting
    Toggled,        \* those whose adapter can be switched
    Events,
    Catalog,
    Undated,        \* the time of an event that has none
    Unlimited,      \* the age limit of a query that has none
    Faults,         \* the error categories adapters report
    MaxNow, MaxReads                    \* bounds of the model

ASSUME ServiceAssumption ==
    /\ Registered \subseteq Sources /\ Live \cup Renaming \cup Toggled \subseteq Sources
    /\ Catalog \in [Events -> [source : Sources, affects : (SUBSET Instruments) \ {{}},
                               fingerprint : STRING, weight : Nat, rank : Nat,
                               at : Nat \cup {Undated}]]
    /\ \A a, b \in Events : Catalog[a].rank = Catalog[b].rank => a = b
    /\ Undated \notin Nat /\ Unlimited \notin Nat
    /\ {MaxNow, MaxReads} \subseteq Nat

\* A BoundedEvidenceQuery: its own time, an optional age limit, the instruments it is about
\* (any, when there are none) and how many results it wants, in all and of a source.
Queries ==
    [asOf : Nat, maxAge : Nat \cup {Unlimited}, targets : SUBSET Instruments,
     results : Nat \ {0}, perSource : Nat \ {0}]

VARIABLES
    now,
    reads,      \* calls made so far
    enabled,    \* the sources whose adapter is switched on
    ledger,     \* source event -> its record
    lineages,   \* fingerprint -> the event that opened its lineage
    health      \* source -> status

serviceVars == <<now, reads, enabled, ledger, lineages, health>>

NoError == "NoError"
Statuses == {"Unknown", "Healthy", "Degraded", "Unavailable", "Disabled"}
Times == Nat \cup {Undated}
Entries == [at : Times, seen : Nat, id : Nat, lineage : Events]

StatusOf(category) ==
    CASE category \in {"Unavailable", "Unauthorized", "CapabilityMissing", "ProcessFailure"} ->
            "Unavailable"
      [] category = "Disabled" -> "Disabled"
      [] OTHER -> "Degraded"

SourceEvents(source) == {e \in Events : Catalog[e].source = source}

Init ==
    /\ now = 0 /\ reads = 0
    /\ enabled = Registered
    /\ ledger = <<>> /\ lineages = <<>>
    /\ health = [s \in Sources |-> "Unknown"]
--------------------------------------------------------------------------------
(* A query is for events that are not of the future as seen from its own   *)
(* time, nor too old for its limit if it has one, and that affect one of   *)
(* its targets.                                                            *)

Current(at, query) ==
    \/ at = Undated
    \/ at <= query.asOf /\ (query.maxAge = Unlimited \/ query.asOf - at <= query.maxAge)

Matches(event, at, query) ==
    /\ Current(at, query)
    /\ query.targets = {} \/ Catalog[event].affects \cap query.targets # {}

(* The world: what an adapter can answer now. *)

Reportable(source) ==
    {e \in SourceEvents(source) :
        source \in Live \/ Catalog[e].at = Undated \/ Catalog[e].at <= now}

Sighted(event) == IF Catalog[event].source \in Live THEN now ELSE Catalog[event].at
--------------------------------------------------------------------------------
(* The ledger *)

\* Ingestion of observations: a known source event is updated in place and keeps its
\* evidence id and its lineage; a new one joins its fingerprint's lineage or opens it.
Lineages(events) ==
    LET new == events \ DOMAIN ledger
        opened == {Catalog[e].fingerprint : e \in new} \ DOMAIN lineages
    IN  [f \in DOMAIN lineages \cup opened |->
            IF f \in opened THEN CHOOSE e \in new : Catalog[e].fingerprint = f ELSE lineages[f]]

\* Mutant: an update brings its own evidence id.
Sighting_NewId(event, lineageOf) ==
    [at |-> Sighted(event), seen |-> now,
     id |-> IF Catalog[event].source \in Renaming THEN reads ELSE 0,
     lineage |-> IF event \in DOMAIN ledger THEN ledger[event].lineage
                 ELSE lineageOf[Catalog[event].fingerprint]]

Sighting(event, lineageOf) ==
    [at |-> Sighted(event), seen |-> now,
     id |-> IF event \in DOMAIN ledger THEN ledger[event].id
            ELSE IF Catalog[event].source \in Renaming THEN reads ELSE 0,
     lineage |-> IF event \in DOMAIN ledger THEN ledger[event].lineage
                 ELSE lineageOf[Catalog[event].fingerprint]]

Ingested(events) ==
    [e \in DOMAIN ledger \cup events |->
        IF e \in events THEN Sighting(e, Lineages(events)) ELSE ledger[e]]
--------------------------------------------------------------------------------
(* collect and collect_source *)

\* The newest first, then by source and event id; so many of a source and so many of all.
Bounded(book, events, query) ==
    LET Before(a, b) == \/ book[a].seen > book[b].seen
                        \/ book[a].seen = book[b].seen /\ Catalog[a].rank < Catalog[b].rank
        Newer(e, among) == {a \in among : Before(a, e)}
        ofSource == {e \in events : Cardinality(Newer(e, events \cap SourceEvents(Catalog[e].source)))
                                        < query.perSource}
    IN  {e \in ofSource : Cardinality(Newer(e, ofSource)) < query.results}

\* Mutant: remembered evidence is not matched against the query again.
Visible_Unmatched(book, asked, silent, query) ==
    {e \in DOMAIN book : Catalog[e].source \in asked \ silent}

\* What the ledger knows of the asked sources that matches the query.
Visible(book, asked, silent, query) ==
    {e \in DOMAIN book : /\ Catalog[e].source \in asked \ silent
                         /\ Matches(e, book[e].at, query)}

Silent(asked) == asked \ enabled

\* The sources that failed, with the category of their first error.
Failed(taken, replies) ==
    LET failing == {s \in DOMAIN replies : replies[s].error # NoError
                                           \/ replies[s].bad \cap taken # {}}
    IN  [s \in failing |-> IF replies[s].error # NoError THEN replies[s].error
                           ELSE "InvalidData"]

Recorded(silent, polled, failed) ==
    [s \in Sources |-> CASE s \in silent -> "Disabled"
                         [] s \in DOMAIN failed -> StatusOf(failed[s])
                         [] s \in polled \ DOMAIN failed -> "Healthy"
                         [] OTHER -> health[s]]

\* The whole of collect_internal, for the adapters of the sources `asked`.
Collected(asked, query, replies) ==
    LET silent == Silent(asked)
        taken == {e \in UNION {replies[s].seen : s \in DOMAIN replies} :
                    Matches(e, Sighted(e), query)}
        bad == UNION {replies[s].bad : s \in DOMAIN replies}
        failed == Failed(taken, replies)
        book == Ingested(taken \ bad)
    IN  [ledger |-> book, lineages |-> Lineages(taken \ bad),
         health |-> Recorded(silent, DOMAIN replies, failed),
         failed |-> failed, silent |-> silent,
         observations |-> Bounded(book, Visible(book, asked, silent, query), query)]

\* The service after a call.
Remembers(result) ==
    /\ reads' = reads + 1
    /\ ledger' = result.ledger /\ lineages' = result.lineages /\ health' = result.health
    /\ UNCHANGED <<now, enabled>>

\* The answers of the adapters that are asked and switched on: errors, or observations of
\* which some fail validation.
AnswersOf(asked) ==
    LET polled == asked \cap enabled
        Observed(errors) == UNION {Reportable(s) : s \in {p \in polled : errors[p] = NoError}}
        Answers(errors, seen, bad) ==
            [s \in polled |-> [error |-> errors[s], seen |-> seen \cap SourceEvents(s),
                                bad |-> bad \cap SourceEvents(s)]]
    IN  UNION {UNION {{Answers(errors, seen, bad) : bad \in SUBSET seen} :
                        seen \in SUBSET Observed(errors)} :
                 errors \in [polled -> Faults \cup {NoError}]}
--------------------------------------------------------------------------------
SetSourceEnabled(source, on) ==
    /\ source \in Registered \cap Toggled
    /\ enabled' = IF on THEN enabled \cup {source} ELSE enabled \ {source}
    /\ UNCHANGED <<now, reads, ledger, lineages, health>>

Tick ==
    /\ now < MaxNow
    /\ now' = now + 1
    /\ UNCHANGED <<reads, enabled, ledger, lineages, health>>

ServiceTypeOK ==
    /\ now \in 0..MaxNow /\ reads \in 0..MaxReads
    /\ enabled \subseteq Registered
    /\ DOMAIN ledger \subseteq Events /\ \A e \in DOMAIN ledger : ledger[e] \in Entries
    /\ \A f \in DOMAIN lineages : lineages[f] \in DOMAIN ledger /\ Catalog[lineages[f]].fingerprint = f
    /\ health \in [Sources -> Statuses]
================================================================================
