---------------------- MODULE DecisionOrchestratorProofs ----------------------
(***************************************************************************)
(* Theorems about the decision cycle, for any sources, events, answers,    *)
(* plans and decisions.                                                    *)
(*                                                                         *)
(* The invariant of the cycle (IInv) is about identities and health, that  *)
(* of the types (TypeInv) also about what research has still to do.  What  *)
(* the fold over a plan computes is shown place by place: the places that  *)
(* go wrong, if any, have a least one, and it cannot exist.                *)
(***************************************************************************)
EXTENDS DecisionOrchestrator, FiniteSetTheorems, TLAPS

Proposals == [instrument : Universe, action : AgentActions, cites : SUBSET (Events \X Nat)]

(* The parts of the inductive invariant *)

LedgerInv ==
    /\ reads \in Nat
    /\ DOMAIN ledger \subseteq Events
    /\ \A e \in DOMAIN ledger : ledger[e].id \in Nat

\* Records copied from the ledger have the identity the ledger has.
Identified(records) ==
    \A e \in DOMAIN records : e \in DOMAIN ledger /\ records[e].id = ledger[e].id

EvidenceInv ==
    /\ EvidenceWasAskedFor
    /\ Identified(snapshot.records)
    /\ Identified(evidence)

HealthInv ==
    /\ HealthAgrees
    /\ done \in Nat
    /\ phase = "idle" => done = 0
    /\ DOMAIN view = Sources
    /\ DOMAIN snapshot.health = Sources

\* What was proposed cites events the ledger still has, by the ids it has them under.
ProposalInv ==
    /\ emitted \in Seq(SUBSET Proposals)
    /\ \A k \in DOMAIN emitted : \A p \in emitted[k] : \A c \in p.cites :
          c[1] \in DOMAIN ledger /\ c[2] = ledger[c[1]].id
    /\ NothingProposedTwice

IInv == LedgerInv /\ EvidenceInv /\ HealthInv /\ ProposalInv
--------------------------------------------------------------------------------
(* The accepted requests: what the fold over a plan computes *)

\* Whatever holds of some subset of a finite set holds of a minimal one: this is how
\* the proofs below go by induction over a finite set.
LEMMA MinimalSubset ==
    ASSUME NEW S, IsFiniteSet(S), NEW K \in SUBSET SUBSET S, K # {}
    PROVE  \E T \in K : \A U \in K : U \subseteq T => U = T
  <1> DEFINE R == StrictSubsetOrdering(S)
  <1>1. IsWellFoundedOn(R, FiniteSubsetsOf(S)) /\ FiniteSubsetsOf(S) = SUBSET S
    BY FS_StrictSubsetOrderingWellFounded, FS_FiniteSubsetsOfFinite
  <1>2. \A T, U \in SUBSET S : U \subseteq T /\ U # T => <<U, T>> \in R
    BY DEF StrictSubsetOrdering
  <1> HIDE DEF R
  <1>3. PICK T \in K : \A U \in K : ~(<<U, T>> \in R)
    BY <1>1, WFMin
  <1> QED BY <1>2, <1>3

\* A finite set of places of a plan.
Places(S) == IsFiniteSet(S) /\ S \subseteq Nat

LEMMA PlacesPart ==
    ASSUME NEW S, Places(S)
    PROVE  IsFiniteSet(S) /\ \A T \in SUBSET S : Places(T)
  BY FS_Subset DEF Places

\* Places that are some have a last one.
LEMMA MaxIsIn ==
    ASSUME NEW S, Places(S), S # {}
    PROVE  Max(S) \in S /\ \A y \in S : Max(S) >= y
  <1> DEFINE K == {T \in SUBSET S : T # {} /\ ~ \E x \in T : \A y \in T : x >= y}
  <1>1. K = {}
    <2>1. SUFFICES ASSUME K # {} PROVE FALSE
      OBVIOUS
    <2>2. PICK T \in K : \A U \in K : U \subseteq T => U = T
      <3>1. K \in SUBSET SUBSET S
        OBVIOUS
      <3>2. IsFiniteSet(S)
        BY PlacesPart
      <3> HIDE DEF K
      <3> QED BY <2>1, <3>1, <3>2, MinimalSubset
    <2>3. PICK x : x \in T
      OBVIOUS
    <2> USE DEF Places
    <2>4. CASE T \ {x} = {}
      BY <2>3, <2>4
    <2>5. CASE T \ {x} # {}
      <3>1. T \ {x} \notin K
        BY <2>2, <2>3
      <3>2. PICK m \in T \ {x} : \A y \in T \ {x} : m >= y
        BY <2>5, <3>1
      <3>3. m \in Nat /\ x \in Nat /\ \A y \in T : y \in Nat
        BY <2>3
      <3>4. CASE m >= x
        BY <3>2, <3>4
      <3>5. CASE x >= m
        <4>1. \A y \in T : x >= y
          BY <3>2, <3>3, <3>5
        <4> QED BY <2>3, <4>1
      <3> QED BY <3>3, <3>4, <3>5
    <2> QED BY <2>4, <2>5
  <1>2. \E x \in S : \A y \in S : x >= y
    BY <1>1
  <1> QED BY <1>2 DEF Max

\* One request of a plan: kept, unless one of its source and instrument is.
Keep(kept, request) ==
    IF \E j \in DOMAIN kept : Key(kept[j]) = Key(request) THEN kept ELSE Append(kept, request)

\* What the fold of Accepted computes: g gives what is kept of every part of the plan.
IsKept(g, plan, S) ==
    g = [T \in SUBSET S |-> IF T = {} THEN <<>>
                            ELSE LET k == Max(T) IN Keep(g[T \ {k}], plan[k])]

Kept(plan, S) == (CHOOSE g : IsKept(g, plan, S))[S]

LEMMA AcceptedIsKept ==
    ASSUME NEW plan
    PROVE  Accepted(plan) = Kept(plan, DOMAIN plan)
  BY DEF Accepted, FoldLeft, MapThenFoldSet, Kept, IsKept, Keep

LEMMA KeptAgree ==
    ASSUME NEW plan, NEW S, Places(S), NEW T \in SUBSET S, NEW g, NEW h,
           IsKept(g, plan, S), IsKept(h, plan, T)
    PROVE  g[T] = h[T]
  <1> DEFINE K == {U \in SUBSET T : g[U] # h[U]}
  <1>1. SUFFICES ASSUME K # {} PROVE FALSE
    OBVIOUS
  <1>2. IsFiniteSet(T)
    BY PlacesPart, FS_Subset
  <1>3. PICK U \in K : \A V \in K : V \subseteq U => V = U
    <2>1. K \in SUBSET SUBSET T
      OBVIOUS
    <2> HIDE DEF K
    <2> QED BY <1>1, <1>2, <2>1, MinimalSubset
  <1>4. U \in SUBSET S /\ U \in SUBSET T /\ g[U] # h[U]
    OBVIOUS
  <1>5. U # {}
    BY <1>4 DEF IsKept
  <1> DEFINE k == Max(U)
  <1>6. k \in U
    <2>1. Places(U)
      BY <1>4, PlacesPart
    <2> QED BY <1>5, <2>1, MaxIsIn
  <1>7. g[U] = Keep(g[U \ {k}], plan[k]) /\ h[U] = Keep(h[U \ {k}], plan[k])
    BY <1>4, <1>5 DEF IsKept
  <1>8. g[U \ {k}] = h[U \ {k}]
    <2>1. U \ {k} \in SUBSET T /\ U \ {k} # U
      BY <1>4, <1>6
    <2> QED BY <1>3, <2>1
  <1> QED BY <1>4, <1>7, <1>8

LEMMA KeptExists ==
    ASSUME NEW plan, NEW S, Places(S)
    PROVE  \E g : IsKept(g, plan, S)
  <1> DEFINE K == {T \in SUBSET S : ~ \E g : IsKept(g, plan, T)}
  <1>1. SUFFICES ASSUME K # {} PROVE FALSE
    OBVIOUS
  <1>2. PICK T \in K : \A U \in K : U \subseteq T => U = T
    <2>1. K \in SUBSET SUBSET S
      OBVIOUS
    <2>2. IsFiniteSet(S)
      BY PlacesPart
    <2> HIDE DEF K
    <2> QED BY <1>1, <2>1, <2>2, MinimalSubset
  <1>3. Places(T)
    BY PlacesPart
  <1>4. \A U \in SUBSET T : U # T => \E g : IsKept(g, plan, U)
    BY <1>2
  <1> DEFINE at(U) == CHOOSE g : IsKept(g, plan, U)
  <1>5. \A U \in SUBSET T : U # T => IsKept(at(U), plan, U) /\ Kept(plan, U) = at(U)[U]
    BY <1>4 DEF Kept
  <1> HIDE DEF at
  <1>6. ASSUME NEW U \in SUBSET T, U # T, NEW V \in SUBSET U
        PROVE  at(U)[V] = Kept(plan, V)
    <2>1. V \in SUBSET T /\ V # T /\ Places(U)
      BY <1>3, <1>6, PlacesPart
    <2>2. IsKept(at(U), plan, U) /\ IsKept(at(V), plan, V) /\ Kept(plan, V) = at(V)[V]
      BY <1>5, <1>6, <2>1
    <2>3. at(U)[V] = at(V)[V]
      BY <2>1, <2>2, KeptAgree
    <2> QED BY <2>2, <2>3
  <1> DEFINE last(U) == Max(U)
             G == [U \in SUBSET T |->
                      IF U # T THEN Kept(plan, U)
                      ELSE IF T = {} THEN <<>> ELSE Keep(Kept(plan, T \ {last(T)}), plan[last(T)])]
  <1>7. ASSUME NEW U \in SUBSET T
        PROVE  G[U] = IF U = {} THEN <<>> ELSE Keep(G[U \ {last(U)}], plan[last(U)])
    <2>1. U # {} => last(U) \in U
      BY <1>3, PlacesPart, MaxIsIn
    <2> HIDE DEF last
    <2>2. CASE U = T
      BY <2>1, <2>2
    <2>3. CASE U # T
      <3>1. G[U] = at(U)[U] /\ IsKept(at(U), plan, U)
        BY <1>5, <2>3
      <3>2. CASE U = {}
        BY <3>1, <3>2 DEF IsKept
      <3>3. CASE U # {}
        <4>1. at(U)[U] = Keep(at(U)[U \ {last(U)}], plan[last(U)])
          BY <3>1, <3>3 DEF IsKept, last
        <4>2. at(U)[U \ {last(U)}] = Kept(plan, U \ {last(U)})
          BY <1>6, <2>3
        <4>3. G[U \ {last(U)}] = Kept(plan, U \ {last(U)})
          BY <2>1, <2>3, <3>3
        <4> QED BY <3>1, <3>3, <4>1, <4>2, <4>3
      <3> QED BY <3>2, <3>3
    <2> QED BY <2>2, <2>3
  <1>8. IsKept(G, plan, T)
    <2>1. G = [U \in SUBSET T |-> IF U = {} THEN <<>> ELSE Keep(G[U \ {last(U)}], plan[last(U)])]
      BY <1>7
    <2> QED BY <2>1 DEF IsKept
  <1> QED BY <1>2, <1>8

\* The recursion equation of the fold.
LEMMA KeptRecursion ==
    ASSUME NEW plan, NEW S, Places(S)
    PROVE  Kept(plan, S) = IF S = {} THEN <<>>
                           ELSE LET k == Max(S) IN Keep(Kept(plan, S \ {k}), plan[k])
  <1> DEFINE at(U) == CHOOSE g : IsKept(g, plan, U)
  <1>1. \A U \in SUBSET S : IsKept(at(U), plan, U) /\ Kept(plan, U) = at(U)[U]
    <2>1. ASSUME NEW U \in SUBSET S PROVE \E g : IsKept(g, plan, U)
      <3>1. Places(U)
        BY PlacesPart
      <3> QED BY <3>1, KeptExists
    <2> QED BY <2>1 DEF Kept
  <1> HIDE DEF at
  <1>2. ASSUME NEW U \in SUBSET S PROVE at(S)[U] = Kept(plan, U)
    <2>1. S \in SUBSET S
      OBVIOUS
    <2>2. IsKept(at(S), plan, S) /\ IsKept(at(U), plan, U) /\ Kept(plan, U) = at(U)[U]
      BY <1>1, <2>1
    <2> DEFINE g == at(S)
               h == at(U)
    <2>3. IsKept(g, plan, S) /\ IsKept(h, plan, U)
      BY <2>2
    <2> HIDE DEF g, h
    <2>4. g[U] = h[U]
      BY <2>3, KeptAgree
    <2> QED BY <2>2, <2>4 DEF g, h
  <1>3. at(S)[S] = IF S = {} THEN <<>> ELSE Keep(at(S)[S \ {Max(S)}], plan[Max(S)])
    BY <1>1 DEF IsKept
  <1> QED BY <1>2, <1>3

\* What is kept of a part of a plan: one request of each source and instrument in it.
LEMMA KeptIsSound ==
    ASSUME NEW plan \in Seq(Requests)
    PROVE  \A S \in SUBSET DOMAIN plan :
              /\ Kept(plan, S) \in Seq(Requests)
              /\ {Key(Kept(plan, S)[j]) : j \in DOMAIN Kept(plan, S)} = {Key(plan[k]) : k \in S}
              /\ IsFiniteSet({Key(plan[k]) : k \in S})
              /\ Len(Kept(plan, S)) = Cardinality({Key(plan[k]) : k \in S})
  <1> DEFINE Good(T) ==
                /\ Kept(plan, T) \in Seq(Requests)
                /\ {Key(Kept(plan, T)[j]) : j \in DOMAIN Kept(plan, T)} = {Key(plan[k]) : k \in T}
                /\ IsFiniteSet({Key(plan[k]) : k \in T})
                /\ Len(Kept(plan, T)) = Cardinality({Key(plan[k]) : k \in T})
             S == DOMAIN plan
             K == {T \in SUBSET S : ~Good(T)}
  <1>0. Places(S) /\ \A k \in S : plan[k] \in Requests
    <2>1. S = 1..Len(plan) /\ Len(plan) \in Nat
      OBVIOUS
    <2>2. \A k \in S : plan[k] \in Requests
      OBVIOUS
    <2>3. Places(1..Len(plan))
      BY ONLY <2>1, FS_Interval DEF Places
    <2> QED BY <2>1, <2>2, <2>3
  <1>1. SUFFICES ASSUME K # {} PROVE FALSE
    OBVIOUS
  <1>2. PICK T \in K : \A U \in K : U \subseteq T => U = T
    <2>1. K \in SUBSET SUBSET S
      OBVIOUS
    <2>2. IsFiniteSet(S)
      BY <1>0, PlacesPart
    <2> HIDE DEF K, S
    <2> QED BY <1>1, <2>1, <2>2, MinimalSubset
  <1>3. Places(T) /\ T \in SUBSET S /\ ~Good(T)
    <2> HIDE DEF Good, S
    <2> QED BY <1>0, PlacesPart
  <1>4. T # {}
    <2>1. Kept(plan, {}) = <<>>
      BY FS_EmptySet, KeptRecursion DEF Places
    <2>2. Good({})
      <3>1. {Key(Kept(plan, {})[j]) : j \in DOMAIN Kept(plan, {})} = {}
        BY <2>1
      <3> DEFINE none == {Key(plan[k]) : k \in {}}
      <3>2. none = {}
        OBVIOUS
      <3>3. Len(<<>>) = 0 /\ <<>> \in Seq(Requests)
        OBVIOUS
      <3> HIDE DEF none
      <3>4. IsFiniteSet(none) /\ Cardinality(none) = 0
        BY <3>2, FS_EmptySet
      <3> QED BY <2>1, <3>1, <3>2, <3>3, <3>4 DEF none
    <2> HIDE DEF Good
    <2> QED BY <1>3, <2>2
  <1> DEFINE k == Max(T)
             kept == Kept(plan, T \ {k})
             keys == {Key(plan[j]) : j \in T \ {k}}
  <1>5. k \in T
    BY <1>3, <1>4, MaxIsIn
  <1>6. Kept(plan, T) = Keep(kept, plan[k])
    BY <1>3, <1>4, KeptRecursion
  <1>7. Good(T \ {k})
    <2>1. T \ {k} \in SUBSET S /\ T \ {k} # T
      BY <1>3, <1>5
    <2> HIDE DEF Good, k, S
    <2> QED BY <1>2, <2>1
  <1>8. {Key(plan[j]) : j \in T} = keys \cup {Key(plan[k])} /\ plan[k] \in Requests
    BY <1>0, <1>3, <1>5
  <1>10. /\ kept \in Seq(Requests) /\ IsFiniteSet(keys) /\ {Key(kept[j]) : j \in DOMAIN kept} = keys
         /\ Len(kept) = Cardinality(keys)
    BY <1>7
  <1> DEFINE x == plan[k]
  <1> HIDE DEF k, kept, keys, x, Good
  <1>11. CASE Key(x) \in keys
    <2>1. Keep(kept, x) = kept /\ keys \cup {Key(x)} = keys
      BY <1>10, <1>11 DEF Keep
    <2> QED BY <1>3, <1>6, <1>8, <1>10, <2>1 DEF Good, x
  <1>12. CASE Key(x) \notin keys
    <2>1. Keep(kept, x) = Append(kept, x)
      BY <1>10, <1>12 DEF Keep
    <2>2. Append(kept, x) \in Seq(Requests) /\ Len(Append(kept, x)) = Len(kept) + 1
      BY <1>8, <1>10 DEF x
    <2>3. /\ Cardinality(keys \cup {Key(x)}) = Cardinality(keys) + 1
          /\ IsFiniteSet(keys \cup {Key(x)})
      BY <1>10, <1>12, FS_AddElement
    <2>4. {Key(Append(kept, x)[j]) : j \in DOMAIN Append(kept, x)} = keys \cup {Key(x)}
      <3>1. /\ DOMAIN Append(kept, x) = DOMAIN kept \cup {Len(kept) + 1}
            /\ \A j \in DOMAIN kept : Append(kept, x)[j] = kept[j]
            /\ Append(kept, x)[Len(kept) + 1] = x
        BY <1>10
      <3> QED BY <1>10, <3>1
    <2> QED BY <1>3, <1>6, <1>8, <1>10, <2>1, <2>2, <2>3, <2>4 DEF Good, x
  <1> QED BY <1>11, <1>12

\* What a plan that is not refused becomes: one request of each source and instrument it
\* names, never more than the budget has calls, and none only when it is empty.
THEOREM OneCallPerTarget ==
    ASSUME NEW plan \in Seq(Requests)
    PROVE  /\ Accepted(plan) \in Seq(Requests)
           /\ {Key(Accepted(plan)[j]) : j \in DOMAIN Accepted(plan)} = KeysOf(plan, Len(plan))
           /\ Len(Accepted(plan)) = Cardinality(KeysOf(plan, Len(plan)))
           /\ ~Refused(plan) => Len(Accepted(plan)) <= MaxSourceCalls
           /\ Accepted(plan) = <<>> <=> plan = <<>>
  <1> DEFINE n == Len(plan)
             keys == KeysOf(plan, n)
  <1>1. n \in Nat /\ DOMAIN plan = 1..n
    OBVIOUS
  <1>2. keys = {Key(plan[k]) : k \in DOMAIN plan}
    BY <1>1 DEF KeysOf
  <1>3. /\ Accepted(plan) \in Seq(Requests)
        /\ {Key(Accepted(plan)[j]) : j \in DOMAIN Accepted(plan)} = keys
        /\ Len(Accepted(plan)) = Cardinality(keys)
    <2>1. DOMAIN plan \in SUBSET DOMAIN plan
      OBVIOUS
    <2> QED BY <1>2, <2>1, AcceptedIsKept, KeptIsSound
  <1>4. ASSUME ~Refused(plan) PROVE Cardinality(keys) <= MaxSourceCalls
    <2>1. CASE n = 0
      <3>1. keys = {}
        BY <2>1 DEF KeysOf
      <3>2. Cardinality(keys) = 0 /\ MaxSourceCalls \in Nat
        BY <3>1, FS_EmptySet, OrchestratorAssumption
      <3> QED BY <3>2
    <2>2. CASE n # 0
      <3> DEFINE before == KeysOf(plan, n - 1)
      <3>1. ~(Cardinality(before) >= MaxSourceCalls)
        <4>1. n \in 1..n
          BY <1>1, <2>2
        <4> QED BY <1>4, <4>1 DEF Refused
      <3>2. keys = before \cup {Key(plan[n])}
        BY <1>1, <2>2 DEF KeysOf
      <3>3. IsFiniteSet(before)
        <4>1. before \subseteq keys
          BY <3>2
        <4>2. IsFiniteSet(keys)
          BY <1>2, KeptIsSound
        <4> HIDE DEF keys, before
        <4> QED BY <4>1, <4>2, FS_Subset
      <3>4. /\ Cardinality(before) \in Nat /\ MaxSourceCalls \in Nat
            /\ Cardinality(keys) = Cardinality(before)
               \/ Cardinality(keys) = Cardinality(before) + 1
        <4> HIDE DEF keys, before
        <4>1. Cardinality(before \cup {Key(plan[n])}) =
                  IF Key(plan[n]) \in before THEN Cardinality(before) ELSE Cardinality(before) + 1
          BY <3>3, FS_AddElement
        <4> QED BY <3>2, <3>3, <4>1, FS_CardinalityType, OrchestratorAssumption
      <3> HIDE DEF keys, before
      <3> QED BY <3>1, <3>4
    <2> QED BY <2>1, <2>2
  <1>5. Accepted(plan) = <<>> <=> plan = <<>>
    <2>1. plan = <<>> <=> n = 0
      OBVIOUS
    <2>2. keys = {} <=> n = 0
      BY <1>1 DEF KeysOf
    <2>3. Accepted(plan) = <<>> <=> DOMAIN Accepted(plan) = {}
      BY <1>3
    <2>4. DOMAIN Accepted(plan) = {} <=> keys = {}
      BY <1>3
    <2> QED BY <2>1, <2>2, <2>3, <2>4
  <1> QED BY <1>3, <1>4, <1>5
--------------------------------------------------------------------------------
(* One call of the service *)

\* One answer for each source that is asked and enabled, of events of its own.
LEMMA AnswersOfSources ==
    ASSUME NEW asked, NEW replies \in AnswersOf(asked)
    PROVE  /\ DOMAIN replies = asked \cap enabled
           /\ \A s \in DOMAIN replies : replies[s].seen \subseteq Events
  <1> DEFINE polled == asked \cap enabled
             Observed(faults) == UNION {Reportable(s) : s \in {p \in polled : faults[p] = NoError}}
             Answers(faults, seen, bad) ==
                 [s \in polled |-> [error |-> faults[s], seen |-> seen \cap SourceEvents(s),
                                     bad |-> bad \cap SourceEvents(s)]]
             OfSeen(faults, seen) == {Answers(faults, seen, bad) : bad \in SUBSET seen}
             OfErrors(faults) == UNION {OfSeen(faults, seen) : seen \in SUBSET Observed(faults)}
  <1>1. replies \in UNION {OfErrors(faults) : faults \in [polled -> Faults \cup {NoError}]}
    BY DEF AnswersOf
  <1>2. PICK faults \in [polled -> Faults \cup {NoError}] : replies \in OfErrors(faults)
    <2> HIDE DEF OfErrors
    <2> QED BY <1>1
  <1>3. PICK seen \in SUBSET Observed(faults) : replies \in OfSeen(faults, seen)
    <2> HIDE DEF OfSeen, Observed
    <2> QED BY <1>2
  <1>4. PICK bad \in SUBSET seen : replies = Answers(faults, seen, bad)
    BY <1>3
  <1> QED BY <1>4 DEF SourceEvents

\* A known event keeps its id and its lineage, whatever is ingested.
LEMMA IngestedKeeps ==
    ASSUME NEW events, NEW e \in DOMAIN ledger
    PROVE  /\ e \in DOMAIN Ingested(events)
           /\ Ingested(events)[e].id = ledger[e].id
           /\ Ingested(events)[e].lineage = ledger[e].lineage
  BY DEF Ingested, Sighting

\* Every event of the ledger has an id.
LEMMA IngestedTyped ==
    ASSUME LedgerInv, NEW events \in SUBSET Events
    PROVE  /\ DOMAIN Ingested(events) \subseteq Events
           /\ \A e \in DOMAIN Ingested(events) : Ingested(events)[e].id \in Nat
  BY DEF LedgerInv, Ingested, Sighting

\* What a call shows is in the ledger, of a source that was asked and is enabled, and
\* matches the query.
LEMMA ObservationsMatch ==
    ASSUME NEW asked, NEW query, NEW replies,
           NEW result, result = Collected(asked, query, replies),
           NEW e \in result.observations
    PROVE  /\ e \in DOMAIN result.ledger
           /\ Catalog[e].source \in asked \cap enabled
           /\ Matches(e, result.ledger[e].at, query)
  <1>1. result.observations \subseteq Visible(result.ledger, asked, Silent(asked), query)
    BY DEF Collected, Bounded
  <1> QED BY <1>1 DEF Visible, Silent

\* What a call says of a source.
LEMMA HealthOfCall ==
    ASSUME NEW asked, NEW query, NEW replies \in AnswersOf(asked),
           NEW result, result = Collected(asked, query, replies)
    PROVE  /\ result.silent = asked \ enabled
           /\ DOMAIN result.failed \subseteq asked \cap enabled
           /\ \A s \in DOMAIN result.failed : result.failed[s] # NoError
           /\ DOMAIN result.health = Sources
           /\ \A s \in Sources :
                 result.health[s] =
                    IF s \in result.silent THEN "Disabled"
                    ELSE IF s \in DOMAIN result.failed THEN StatusOf(result.failed[s])
                    ELSE IF s \in asked THEN "Healthy" ELSE health[s]
  <1>1. DOMAIN replies = asked \cap enabled
    BY AnswersOfSources
  <1>2. result.silent = asked \ enabled
    BY DEF Collected, Silent
  <1>3. PICK taken : result.failed = Failed(taken, replies)
    BY DEF Collected
  <1>4. /\ DOMAIN result.failed \subseteq asked \cap enabled
        /\ \A s \in DOMAIN result.failed : result.failed[s] # NoError
    BY <1>1, <1>3 DEF Failed, NoError
  <1>5. result.health = Recorded(result.silent, asked \cap enabled, result.failed)
    BY <1>1 DEF Collected
  <1>6. DOMAIN result.health = Sources
    BY <1>5 DEF Recorded
  <1>7. ASSUME NEW s \in Sources
        PROVE  result.health[s] =
                    IF s \in result.silent THEN "Disabled"
                    ELSE IF s \in DOMAIN result.failed THEN StatusOf(result.failed[s])
                    ELSE IF s \in asked THEN "Healthy" ELSE health[s]
    <2>1. CASE s \in result.silent
      BY <2>1, <1>2, <1>4, <1>5 DEF Recorded
    <2>2. CASE s \in DOMAIN result.failed
      BY <2>2, <1>2, <1>4, <1>5 DEF Recorded
    <2>3. CASE s \notin result.silent /\ s \notin DOMAIN result.failed
      BY <2>3, <1>2, <1>4, <1>5 DEF Recorded
    <2> QED BY <2>1, <2>2, <2>3
  <1> QED BY <1>2, <1>4, <1>6, <1>7

\* After a call the ledger knows what it knew, under the same ids.
LEMMA CallKeeps ==
    ASSUME LedgerInv, NEW asked, NEW query, NEW replies \in AnswersOf(asked),
           Remembers(Collected(asked, query, replies))
    PROVE  /\ LedgerInv'
           /\ \A e \in DOMAIN ledger : /\ e \in DOMAIN ledger'
                                       /\ ledger'[e].id = ledger[e].id
                                       /\ ledger'[e].lineage = ledger[e].lineage
  <1> DEFINE taken == {e \in UNION {replies[s].seen : s \in DOMAIN replies} :
                          Matches(e, Sighted(e), query)}
             bad == UNION {replies[s].bad : s \in DOMAIN replies}
  <1>1. ledger' = Ingested(taken \ bad) /\ reads' = reads + 1
    BY DEF Collected, Remembers
  <1>2. taken \ bad \subseteq Events
    <2>1. \A s \in DOMAIN replies : replies[s].seen \subseteq Events
      BY AnswersOfSources
    <2> QED BY ONLY <2>1
  <1>3. /\ DOMAIN ledger' \subseteq Events
        /\ \A e \in DOMAIN ledger' : ledger'[e].id \in Nat
    <2> HIDE DEF taken, bad
    <2> QED BY <1>1, <1>2, IngestedTyped
  <1>4. LedgerInv'
    BY <1>1, <1>3 DEF LedgerInv
  <1> HIDE DEF taken, bad
  <1> QED BY <1>1, <1>4, IngestedKeeps
--------------------------------------------------------------------------------
(* The steps of a cycle *)

\* Ending a cycle leaves nothing of it but its proposals.
LEMMA EndsClears ==
    ASSUME NEW proposals, Ends(proposals)
    PROVE  /\ DOMAIN evidence' = {} /\ DOMAIN snapshot'.records = {}
           /\ phase' = "idle" /\ done' = 0
           /\ DOMAIN view' = Sources /\ DOMAIN snapshot'.health = Sources
           /\ emitted' = Append(emitted, proposals)
  BY DEF Ends, NoSnapshot, Unknowns

\* A cycle that ends keeps the invariant of evidence and health.
LEMMA EndsKeeps ==
    ASSUME NEW proposals, Ends(proposals)
    PROVE  EvidenceInv' /\ HealthInv'
  <1>1. EvidenceInv'
    BY EndsClears DEF EvidenceInv, EvidenceWasAskedFor, Identified
  <1>2. HealthInv'
    BY EndsClears DEF HealthInv, HealthAgrees
  <1> QED BY <1>1, <1>2

\* What has been proposed still cites the ledger after a call that keeps ids.
LEMMA ProposalsKept ==
    ASSUME ProposalInv, UNCHANGED emitted,
           \A e \in DOMAIN ledger : e \in DOMAIN ledger' /\ ledger'[e].id = ledger[e].id
    PROVE  ProposalInv'
  <1>1. emitted' \in Seq(SUBSET Proposals)
    BY DEF ProposalInv
  <1>3. NothingProposedTwice'
    <2> SUFFICES ASSUME NEW c \in DOMAIN emitted', NEW d \in DOMAIN emitted', c # d,
                        NEW p \in emitted'[c], NEW q \in emitted'[d]
                 PROVE  \/ p.instrument # q.instrument \/ p.action # q.action
                        \/ {cite[1] : cite \in p.cites} # {cite[1] : cite \in q.cites}
      BY DEF NothingProposedTwice
    <2>1. NothingProposedTwice /\ emitted' = emitted
      BY DEF ProposalInv
    <2> QED BY <2>1 DEF NothingProposedTwice
  <1>2. ASSUME NEW k \in DOMAIN emitted', NEW p \in emitted'[k], NEW c \in p.cites
        PROVE  c[1] \in DOMAIN ledger' /\ c[2] = ledger'[c[1]].id
    BY <1>2 DEF ProposalInv
  <1> QED BY <1>1, <1>2, <1>3 DEF ProposalInv

\* A cycle that ends with nothing keeps what is said of proposals.
LEMMA NothingKept ==
    ASSUME ProposalInv, Ends({}),
           \A e \in DOMAIN ledger : e \in DOMAIN ledger' /\ ledger'[e].id = ledger[e].id
    PROVE  ProposalInv'
  <1>1. emitted' = Append(emitted, {}) /\ emitted \in Seq(SUBSET Proposals)
    BY EndsClears DEF ProposalInv
  <1>2. /\ emitted' \in Seq(SUBSET Proposals)
        /\ \A k \in DOMAIN emitted' : emitted'[k] = {} \/ (k \in DOMAIN emitted /\ emitted'[k] = emitted[k])
    <2> DEFINE S == SUBSET Proposals
    <2>1. {} \in S
      OBVIOUS
    <2> HIDE DEF S
    <2> QED BY <1>1, <2>1
  <1>3. NothingProposedTwice'
    <2> SUFFICES ASSUME NEW c \in DOMAIN emitted', NEW d \in DOMAIN emitted', c # d,
                        NEW p \in emitted'[c], NEW q \in emitted'[d]
                 PROVE  \/ p.instrument # q.instrument \/ p.action # q.action
                        \/ {cite[1] : cite \in p.cites} # {cite[1] : cite \in q.cites}
      BY DEF NothingProposedTwice
    <2>1. /\ c \in DOMAIN emitted /\ p \in emitted[c]
          /\ d \in DOMAIN emitted /\ q \in emitted[d]
      BY <1>2
    <2>2. NothingProposedTwice
      BY DEF ProposalInv
    <2> QED BY <2>1, <2>2 DEF NothingProposedTwice
  <1>4. ASSUME NEW k \in DOMAIN emitted', NEW p \in emitted'[k], NEW c \in p.cites
        PROVE  c[1] \in DOMAIN ledger' /\ c[2] = ledger'[c[1]].id
    <2>1. k \in DOMAIN emitted /\ p \in emitted[k]
      BY <1>2
    <2> QED BY <2>1 DEF ProposalInv
  <1> QED BY <1>2, <1>3, <1>4 DEF ProposalInv

\* Records the ledger identifies stay identified.
LEMMA IdentifiedKept ==
    ASSUME NEW records, Identified(records),
           \A e \in DOMAIN ledger : e \in DOMAIN ledger' /\ ledger'[e].id = ledger[e].id
    PROVE  \A e \in DOMAIN records : e \in DOMAIN ledger' /\ records[e].id = ledger'[e].id
  BY DEF Identified

\* What a call adds to the evidence of the cycle: events of the source asked, which has
\* answered without error, as the ledger has them.
LEMMA ResearchAdds ==
    ASSUME NEW replies \in AnswersOf(Asked(requests[done + 1])), Research(replies, TRUE),
           NEW e \in DOMAIN evidence'
    PROVE  \/ e \in DOMAIN evidence /\ evidence'[e] = evidence[e]
           \/ /\ e \notin DOMAIN evidence
              /\ e \in DOMAIN ledger' /\ evidence'[e] = ledger'[e]
              /\ Catalog[e].source = requests[done + 1].source
              /\ requests[done + 1].instrument \in Catalog[e].affects
              /\ Matches(e, ledger'[e].at, requests[done + 1].query)
              /\ Catalog[e].source \in enabled \cap Registered
              /\ health'[Catalog[e].source] = "Healthy"
  <1> DEFINE request == requests[done + 1]
             asked == Asked(request)
             result == Collected(asked, request.query, replies)
             answer == Answer(request.source, result)
             joining == Joins(request, answer, result.ledger)
  <1>0. /\ result = Collected(asked, request.query, replies)
        /\ replies \in AnswersOf(asked)
    OBVIOUS
  <1>1. /\ ledger' = result.ledger /\ health' = result.health
        /\ evidence' = [x \in DOMAIN evidence \cup joining |->
                            IF x \in joining THEN result.ledger[x] ELSE evidence[x]]
    BY DEF Research, Remembers, Learns
  <1>2. CASE e \notin joining
    BY <1>1, <1>2
  <1>3. CASE e \in joining
    <2>1. /\ e \in answer.observations /\ e \notin DOMAIN evidence
          /\ request.instrument \in Catalog[e].affects
          /\ Matches(e, result.ledger[e].at, request.query)
      BY <1>3 DEF Joins
    <2>2. /\ e \in result.observations
          /\ request.source \notin result.silent \cup DOMAIN result.failed
      <3> HIDE DEF result
      <3>1. PICK error :
                answer = [error |-> error,
                          observations |->
                              IF request.source \in result.silent \cup DOMAIN result.failed THEN {}
                              ELSE result.observations]
        BY DEF Answer
      <3> QED BY <2>1, <3>1
    <2>3. e \in DOMAIN result.ledger /\ Catalog[e].source \in asked \cap enabled
      <3> HIDE DEF result, asked, request
      <3> QED BY <1>0, <2>2, ObservationsMatch
    <2>4. Catalog[e].source = request.source /\ request.source \in Registered \cap enabled
      BY <2>3 DEF Asked
    <2>5. result.health[request.source] = "Healthy"
      <3>1. request.source \in Sources /\ request.source \in asked
        BY <2>4, ServiceAssumption DEF Asked
      <3>2. result.health[request.source] =
                IF request.source \in result.silent THEN "Disabled"
                ELSE IF request.source \in DOMAIN result.failed
                     THEN StatusOf(result.failed[request.source])
                     ELSE IF request.source \in asked THEN "Healthy" ELSE health[request.source]
        <4> HIDE DEF result, asked, request
        <4> QED BY <1>0, <3>1, HealthOfCall
      <3> QED BY <3>1, <3>2, <2>2
    <2> HIDE DEF result, joining
    <2> QED BY <1>1, <1>3, <2>1, <2>3, <2>4, <2>5
  <1> QED BY <1>2, <1>3

\* The service answers with the error its snapshot has of the source.
LEMMA AnswerOfCall ==
    ASSUME NEW source, NEW result, \A s \in DOMAIN result.failed : result.failed[s] # NoError
    PROVE  LET error == Answer(source, result).error IN
           /\ source \in result.silent => error = "Disabled" /\ error # NoError
           /\ source \notin result.silent /\ source \in DOMAIN result.failed
                 => error = result.failed[source] /\ error # NoError
           /\ source \notin result.silent /\ source \notin DOMAIN result.failed => error = NoError
  <1>1. CASE source \in result.silent
    BY <1>1 DEF Answer, NoError
  <1>2. CASE source \notin result.silent /\ source \in DOMAIN result.failed
    BY <1>2 DEF Answer, NoError
  <1>3. CASE source \notin result.silent /\ source \notin DOMAIN result.failed
    BY <1>3 DEF Answer, NoError
  <1> QED BY <1>1, <1>2, <1>3

\* After research the cycle says of each source what the service says.
LEMMA ResearchHealth ==
    ASSUME HealthInv, phase = "researching",
           NEW replies \in AnswersOf(Asked(requests[done + 1])), Research(replies, TRUE)
    PROVE  HealthInv'
  <1> DEFINE request == requests[done + 1]
             asked == Asked(request)
             result == Collected(asked, request.query, replies)
             answer == Answer(request.source, result)
  <1>0. /\ result = Collected(asked, request.query, replies)
        /\ replies \in AnswersOf(asked)
    OBVIOUS
  <1>1. /\ health' = result.health /\ done' = done + 1 /\ phase' # "idle"
        /\ view' = [view EXCEPT ![request.source] =
                        IF answer.error # NoError THEN StatusOf(answer.error) ELSE "Healthy"]
        /\ UNCHANGED <<snapshot, requests>>
    BY DEF Research, Remembers, Learns
  <1>2. /\ result.silent = asked \ enabled
        /\ DOMAIN result.failed \subseteq asked \cap enabled
        /\ \A s \in DOMAIN result.failed : result.failed[s] # NoError
        /\ \A s \in Sources :
              result.health[s] =
                 IF s \in result.silent THEN "Disabled"
                 ELSE IF s \in DOMAIN result.failed THEN StatusOf(result.failed[s])
                 ELSE IF s \in asked THEN "Healthy" ELSE health[s]
    <2> HIDE DEF result, asked, request
    <2> QED BY <1>0, HealthOfCall
  <1> HIDE DEF result
  <1>3. ASSUME NEW s \in Registered, s # request.source
        PROVE  health'[s] = health[s] /\ view'[s] = view[s]
    <2>1. s \notin asked /\ s \in Sources
      BY <1>3, ServiceAssumption DEF Asked
    <2> QED BY <2>1, <1>1, <1>2, <1>3 DEF HealthInv
  <1>4. ASSUME request.source \in Registered
        PROVE  health'[request.source] = view'[request.source]
    <2>1. request.source \in Sources /\ request.source \in asked
      BY <1>4, ServiceAssumption DEF Asked
    <2>2. view'[request.source] = IF answer.error # NoError THEN StatusOf(answer.error) ELSE "Healthy"
      BY <1>1, <2>1 DEF HealthInv
    <2>3. /\ request.source \in result.silent => answer.error = "Disabled" /\ answer.error # NoError
          /\ request.source \notin result.silent /\ request.source \in DOMAIN result.failed
                => answer.error = result.failed[request.source] /\ answer.error # NoError
          /\ request.source \notin result.silent /\ request.source \notin DOMAIN result.failed
                => answer.error = NoError
      BY <1>2, AnswerOfCall
    <2>4. StatusOf("Disabled") = "Disabled"
      BY DEF StatusOf
    <2> HIDE DEF answer, request, asked
    <2> QED BY <1>1, <1>2, <2>1, <2>2, <2>3, <2>4
  <1>5. HealthAgrees'
    <2> SUFFICES ASSUME NEW k \in 1..done', requests'[k].source \in Registered
                 PROVE  view'[requests'[k].source] = health'[requests'[k].source]
      BY DEF HealthAgrees
    <2>1. k \in 1..done \/ k = done + 1
      BY <1>1 DEF HealthInv
    <2>2. requests' = requests
      BY <1>1
    <2>3. CASE requests[k].source = request.source
      BY <1>4, <2>2, <2>3
    <2>4. CASE requests[k].source # request.source
      BY <1>3, <2>1, <2>2, <2>4 DEF HealthInv, HealthAgrees
    <2> QED BY <2>3, <2>4
  <1>6. DOMAIN view' = Sources /\ done' \in Nat
    BY <1>1 DEF HealthInv
  <1> QED BY <1>1, <1>5, <1>6 DEF HealthInv

\* Nothing is proposed that an earlier cycle proposed, and what is proposed cites the
\* evidence by the ids of the ledger.
LEMMA DecideKeeps ==
    ASSUME LedgerInv, EvidenceInv, ProposalInv, UNCHANGED ledger,
           NEW batch \in Batches, Ends(Proposed(batch))
    PROVE  ProposalInv'
  <1>1. emitted' = Append(emitted, Proposed(batch)) /\ emitted \in Seq(SUBSET Proposals)
    BY EndsClears DEF ProposalInv
  <1>2. Proposed(batch) \subseteq Fresh(batch)
    BY DEF Proposed
  <1>3. ASSUME NEW d \in batch
        PROVE  d.instrument \in Universe /\ d.action \in AgentActions /\ d.cites \subseteq DOMAIN evidence
    <2>1. PICK chosen \in SUBSET Universe : batch \in BatchesOn(chosen)
      BY DEF Batches
    <2> DEFINE Citable == {p \in chosen \X DOMAIN evidence : p[1] \in Catalog[p[2]].affects}
               Batch(actions, cited) ==
                   {[instrument |-> i, action |-> actions[i],
                     cites |-> {p[2] : p \in {q \in cited : q[1] = i}}] : i \in chosen}
    <2>2. PICK actions \in [chosen -> AgentActions], cited \in SUBSET Citable :
              batch = Batch(actions, cited)
      BY <2>1 DEF BatchesOn
    <2>3. PICK i \in chosen : d = [instrument |-> i, action |-> actions[i],
                                   cites |-> {p[2] : p \in {q \in cited : q[1] = i}}]
      BY <2>2
    <2> QED BY <2>2, <2>3
  <1>4. ASSUME NEW p \in Proposed(batch)
        PROVE  /\ p \in Proposals /\ p \notin Prior
               /\ \A c \in p.cites : /\ c = <<c[1], ledger[c[1]].id>>
                                     /\ c[1] \in DOMAIN ledger
    <2>1. PICK d \in batch : p = Proposal(d) /\ p \notin Prior
      BY <1>2 DEF Fresh
    <2>2. \A c \in p.cites : \E e \in DOMAIN evidence : c = <<e, evidence[e].id>>
      BY <1>3, <2>1 DEF Proposal, Cites
    <2>3. \A e \in DOMAIN evidence : /\ e \in DOMAIN ledger /\ evidence[e].id = ledger[e].id
                                     /\ e \in Events /\ ledger[e].id \in Nat
      BY DEF EvidenceInv, Identified, LedgerInv
    <2>4. \A c \in p.cites : /\ c = <<c[1], ledger[c[1]].id>> /\ c[1] \in DOMAIN ledger
                            /\ c \in Events \X Nat
      BY <2>2, <2>3
    <2>5. p \in Proposals
      BY <1>3, <2>1, <2>4 DEF Proposals, Proposal
    <2> QED BY <2>1, <2>4, <2>5
  <1>5. /\ emitted' \in Seq(SUBSET Proposals)
        /\ DOMAIN emitted' = DOMAIN emitted \cup {Len(emitted) + 1}
        /\ \A k \in DOMAIN emitted : emitted'[k] = emitted[k]
        /\ emitted'[Len(emitted) + 1] = Proposed(batch)
        /\ Len(emitted) + 1 \notin DOMAIN emitted
    <2> DEFINE S == SUBSET Proposals
               x == Proposed(batch)
    <2>1. x \in S /\ emitted \in Seq(S) /\ emitted' = Append(emitted, x)
      BY <1>1, <1>4
    <2> HIDE DEF S, x
    <2>2. emitted' \in Seq(S) /\ Len(emitted') = Len(emitted) + 1
      BY <2>1
    <2>3. \A k \in DOMAIN emitted : emitted'[k] = emitted[k]
      BY <2>1
    <2>4. emitted'[Len(emitted) + 1] = x
      BY <2>1
    <2>5. /\ DOMAIN emitted = 1..Len(emitted) /\ DOMAIN emitted' = 1..Len(emitted')
          /\ Len(emitted) \in Nat
      BY <2>1, <2>2
    <2>6. DOMAIN emitted' = DOMAIN emitted \cup {Len(emitted) + 1} /\ Len(emitted) + 1 \notin DOMAIN emitted
      BY <2>2, <2>5
    <2> QED BY <2>2, <2>3, <2>4, <2>6 DEF S, x
  <1>6. ASSUME NEW k \in DOMAIN emitted, NEW p \in emitted[k], NEW q \in Proposed(batch),
               p.instrument = q.instrument, p.action = q.action,
               {cite[1] : cite \in p.cites} = {cite[1] : cite \in q.cites}
        PROVE  FALSE
    <2>1. /\ p \in Proposals /\ p \in Prior
          /\ \A c \in p.cites : c = <<c[1], ledger[c[1]].id>>
      <3>1. p \in Proposals
        BY <1>1
      <3>2. \A c \in p.cites : c \in Events \X Nat /\ c[2] = ledger[c[1]].id
        BY <3>1 DEF ProposalInv, Proposals
      <3> QED BY <3>1, <3>2 DEF Prior
    <2>2. /\ q \in Proposals /\ q \notin Prior
          /\ \A c \in q.cites : c = <<c[1], ledger[c[1]].id>>
      BY <1>4
    <2>3. p.cites = q.cites
      <3>1. \A c \in p.cites : \E b \in q.cites : b[1] = c[1]
        BY <1>6
      <3>2. \A c \in q.cites : \E b \in p.cites : b[1] = c[1]
        BY <1>6
      <3>3. ASSUME NEW c \in p.cites PROVE c \in q.cites
        <4>1. PICK b \in q.cites : b[1] = c[1]
          BY <3>1
        <4>2. b = <<b[1], ledger[b[1]].id>> /\ c = <<c[1], ledger[c[1]].id>>
          BY <2>1, <2>2
        <4> QED BY <4>1, <4>2
      <3>4. ASSUME NEW c \in q.cites PROVE c \in p.cites
        <4>1. PICK b \in p.cites : b[1] = c[1]
          BY <3>2
        <4>2. b = <<b[1], ledger[b[1]].id>> /\ c = <<c[1], ledger[c[1]].id>>
          BY <2>1, <2>2
        <4> QED BY <4>1, <4>2
      <3> QED BY <3>3, <3>4
    <2>4. p = q
      BY <1>6, <2>1, <2>2, <2>3 DEF Proposals
    <2> QED BY <2>1, <2>2, <2>4
  <1>7. NothingProposedTwice'
    <2> SUFFICES ASSUME NEW c \in DOMAIN emitted', NEW d \in DOMAIN emitted', c # d,
                        NEW p \in emitted'[c], NEW q \in emitted'[d]
                 PROVE  \/ p.instrument # q.instrument \/ p.action # q.action
                        \/ {cite[1] : cite \in p.cites} # {cite[1] : cite \in q.cites}
      BY DEF NothingProposedTwice
    <2>1. CASE c \in DOMAIN emitted /\ d \in DOMAIN emitted
      <3>1. p \in emitted[c] /\ q \in emitted[d]
        BY <1>5, <2>1
      <3> QED BY <2>1, <3>1 DEF ProposalInv, NothingProposedTwice
    <2>2. CASE c \in DOMAIN emitted /\ d = Len(emitted) + 1
      BY <1>5, <1>6, <2>2
    <2>3. CASE d \in DOMAIN emitted /\ c = Len(emitted) + 1
      BY <1>5, <1>6, <2>3
    <2> QED BY <1>5, <2>1, <2>2, <2>3
  <1>8. ASSUME NEW k \in DOMAIN emitted', NEW p \in emitted'[k], NEW c \in p.cites
        PROVE  c[1] \in DOMAIN ledger' /\ c[2] = ledger'[c[1]].id
    <2>1. CASE k \in DOMAIN emitted
      BY <1>5, <2>1 DEF ProposalInv
    <2>2. CASE k = Len(emitted) + 1
      <3>1. c = <<c[1], ledger[c[1]].id>> /\ c[1] \in DOMAIN ledger
        BY <1>4, <1>5, <2>2
      <3> QED BY <3>1
    <2> QED BY <1>5, <2>1, <2>2
  <1> QED BY <1>5, <1>7, <1>8 DEF ProposalInv
--------------------------------------------------------------------------------
(* The invariant *)

LEMMA InitEstablishes ==
    ASSUME OrchestratorInit
    PROVE  IInv
  <1> USE DEF OrchestratorInit, Init, NoSnapshot, Unknowns
  <1>1. LedgerInv
    BY DEF LedgerInv
  <1>2. EvidenceInv
    BY DEF EvidenceInv, EvidenceWasAskedFor, Identified
  <1>3. HealthInv
    BY DEF HealthInv, HealthAgrees
  <1>4. ProposalInv
    BY DEF ProposalInv, NothingProposedTwice
  <1> QED BY <1>1, <1>2, <1>3, <1>4 DEF IInv

\* A step that leaves the cycle, the ledger's records and what was proposed alone.
LEMMA NothingChanges ==
    ASSUME IInv, UNCHANGED <<reads, ledger, health, snapshot, phase, cycle, emitted>>
    PROVE  IInv'
  <1> USE DEF IInv, cycle
  <1>1. LedgerInv'
    BY DEF LedgerInv
  <1>2. EvidenceInv'
    BY DEF EvidenceInv, EvidenceWasAskedFor, Identified
  <1>3. HealthInv'
    BY DEF HealthInv, HealthAgrees
  <1>4. ProposalInv'
    BY ProposalsKept
  <1> QED BY <1>1, <1>2, <1>3, <1>4

LEMMA CollectKeeps ==
    ASSUME IInv, NEW query, NEW replies \in AnswersOf(Registered),
           Collect(query, replies)
    PROVE  IInv'
  <1> DEFINE result == Collected(Registered, query, replies)
  <1>0. result = Collected(Registered, query, replies)
    OBVIOUS
  <1>1. /\ Remembers(Collected(Registered, query, replies))
        /\ ledger' = result.ledger /\ phase = "idle"
        /\ snapshot' = [query |-> query, records |-> Records(result.ledger, result.observations),
                        health |-> result.health]
        /\ UNCHANGED <<phase, origin, requests, done, evidence, view, emitted>>
    BY DEF Collect, Remembers, cycle
  <1>2. /\ LedgerInv'
        /\ \A e \in DOMAIN ledger : e \in DOMAIN ledger' /\ ledger'[e].id = ledger[e].id
    BY <1>1, CallKeeps DEF IInv
  <1>3. ASSUME NEW e \in result.observations
        PROVE  e \in DOMAIN result.ledger /\ Matches(e, result.ledger[e].at, query)
    <2> HIDE DEF result
    <2> QED BY <1>0, <1>3, ObservationsMatch
  <1>4. DOMAIN result.health = Sources
    <2> HIDE DEF result
    <2> QED BY <1>0, HealthOfCall
  <1> HIDE DEF result
  <1>5. EvidenceInv'
    <2>1. EvidenceWasAskedFor'
      BY <1>1, <1>3 DEF IInv, EvidenceInv, EvidenceWasAskedFor, Records
    <2>2. Identified(snapshot.records)'
      BY <1>1, <1>3 DEF Identified, Records
    <2>3. Identified(evidence)'
      BY <1>1, <1>2 DEF IInv, EvidenceInv, Identified
    <2> QED BY <2>1, <2>2, <2>3 DEF EvidenceInv
  <1>6. HealthInv'
    BY <1>1, <1>4 DEF IInv, HealthInv, HealthAgrees
  <1>7. ProposalInv'
    BY <1>1, <1>2, ProposalsKept DEF IInv
  <1> QED BY <1>2, <1>5, <1>6, <1>7 DEF IInv

LEMMA BeginKeeps ==
    ASSUME IInv, NEW context \in Contexts, NEW plan, BeginCycle(context, plan)
    PROVE  IInv'
  <1>1. /\ phase' # "idle" /\ done' = 0
        /\ origin' = context.query /\ evidence' = context.records /\ view' = context.health
        /\ UNCHANGED <<reads, ledger, health, snapshot, emitted>>
    BY DEF BeginCycle, serviceVars
  <1>2. \/ context = snapshot
        \/ DOMAIN context.records = {} /\ DOMAIN context.health = Sources
    BY DEF Contexts, NoSnapshot, Unknowns
  <1>3. LedgerInv'
    BY <1>1 DEF IInv, LedgerInv
  <1>4. EvidenceInv'
    BY <1>1, <1>2 DEF IInv, EvidenceInv, EvidenceWasAskedFor, Identified
  <1>5. HealthInv'
    BY <1>1, <1>2 DEF IInv, HealthInv, HealthAgrees
  <1>6. ProposalInv'
    BY <1>1, ProposalsKept DEF IInv
  <1> QED BY <1>3, <1>4, <1>5, <1>6 DEF IInv

LEMMA ResearchKeeps ==
    ASSUME IInv, phase = "researching", NEW observed \in BOOLEAN,
           NEW replies \in AnswersOf(Asked(requests[done + 1])), Research(replies, observed)
    PROVE  IInv'
  <1>1. /\ LedgerInv'
        /\ \A e \in DOMAIN ledger : e \in DOMAIN ledger' /\ ledger'[e].id = ledger[e].id
    BY CallKeeps DEF IInv, Research
  <1>2. CASE observed = TRUE
    <2>1. /\ Research(replies, TRUE)
          /\ UNCHANGED <<snapshot, origin, emitted>>
      BY <1>2 DEF Research, Learns
    <2>2. EvidenceInv'
      <3>1. EvidenceWasAskedFor'
        <4>1. \A e \in DOMAIN snapshot'.records : Matches(e, snapshot'.records[e].at, snapshot'.query)
          BY <2>1 DEF IInv, EvidenceInv, EvidenceWasAskedFor
        <4>2. /\ done \in Nat /\ done' = done + 1 /\ UNCHANGED <<origin, requests>>
              /\ 1..done \subseteq 1..done' /\ done + 1 \in 1..done'
          BY <2>1 DEF Research, Learns, IInv, HealthInv
        <4>3. ASSUME NEW e \in DOMAIN evidence'
              PROVE  \/ Matches(e, evidence'[e].at, origin')
                     \/ \E k \in 1..done' : /\ requests'[k].source = Catalog[e].source
                                            /\ requests'[k].instrument \in Catalog[e].affects
                                            /\ Matches(e, evidence'[e].at, requests'[k].query)
          <5>1. CASE e \in DOMAIN evidence /\ evidence'[e] = evidence[e]
            BY <4>2, <5>1 DEF IInv, EvidenceInv, EvidenceWasAskedFor
          <5>2. CASE /\ evidence'[e] = ledger'[e]
                     /\ Catalog[e].source = requests[done + 1].source
                     /\ requests[done + 1].instrument \in Catalog[e].affects
                     /\ Matches(e, ledger'[e].at, requests[done + 1].query)
            BY <4>2, <5>2
          <5> QED BY <2>1, <5>1, <5>2, ResearchAdds
        <4> QED BY <4>1, <4>3 DEF EvidenceWasAskedFor
      <3>2. Identified(snapshot.records)'
        BY <1>1, <2>1 DEF IInv, EvidenceInv, Identified
      <3>3. Identified(evidence)'
        BY <1>1, <2>1, ResearchAdds DEF IInv, EvidenceInv, Identified
      <3> QED BY <3>1, <3>2, <3>3 DEF EvidenceInv
    <2>3. HealthInv'
      BY <2>1, ResearchHealth DEF IInv
    <2>4. ProposalInv'
      BY <1>1, <2>1, ProposalsKept DEF IInv
    <2> QED BY <1>1, <2>2, <2>3, <2>4 DEF IInv
  <1>3. CASE observed = FALSE
    <2>1. Ends({})
      BY <1>3 DEF Research
    <2> QED BY <1>1, <2>1, EndsKeeps, NothingKept DEF IInv
  <1> QED BY <1>2, <1>3

\* Every step keeps the invariant.
LEMMA StepKeeps ==
    ASSUME IInv, [Next]_vars
    PROVE  IInv'
  <1>1. CASE Wait
    BY <1>1, NothingChanges DEF Wait, Tick
  <1>2. ASSUME NEW s \in Toggled, NEW on \in BOOLEAN, Toggle(s, on)
        PROVE  IInv'
    BY <1>2, NothingChanges DEF Toggle, SetSourceEnabled
  <1>3. ASSUME NEW query \in Collections, NEW replies \in AnswersOf(Registered), Collect(query, replies)
        PROVE  IInv'
    BY <1>3, CollectKeeps
  <1>4. ASSUME NEW context \in Contexts, NEW plan \in Plans, BeginCycle(context, plan)
        PROVE  IInv'
    BY <1>4, BeginKeeps
  <1>5. ASSUME Ends({}), UNCHANGED serviceVars
        PROVE  IInv'
    <2>1. LedgerInv'
      BY <1>5 DEF IInv, LedgerInv, serviceVars
    <2> QED BY <1>5, <2>1, EndsKeeps, NothingKept DEF IInv, serviceVars
  <1>6. ASSUME phase = "researching", NEW observed \in BOOLEAN,
               NEW replies \in AnswersOf(Asked(requests[done + 1])), Research(replies, observed)
        PROVE  IInv'
    BY <1>6, ResearchKeeps
  <1>7. ASSUME NEW batch \in Batches, Decide(batch)
        PROVE  IInv'
    <2>1. Ends(Proposed(batch)) /\ UNCHANGED <<reads, ledger>>
      BY <1>7 DEF Decide, serviceVars
    <2>2. LedgerInv'
      BY <2>1 DEF IInv, LedgerInv
    <2>3. ProposalInv'
      BY <2>1, DecideKeeps DEF IInv
    <2> QED BY <2>1, <2>2, <2>3, EndsKeeps DEF IInv
  <1>8. CASE UNCHANGED vars
    BY <1>8, NothingChanges DEF vars, serviceVars
  <1> QED
    BY <1>1, <1>2, <1>3, <1>4, <1>5, <1>6, <1>7, <1>8 DEF Next, CycleRefused, NoDecision
--------------------------------------------------------------------------------
(* The types *)

\* What TypeOK needs to be inductive: the records of the snapshot, which become the evidence
\* of a cycle, the bound of calls, of which a cycle still makes one for each request, and
\* that of cycles, of which the one that runs is still to come.
TypeInv ==
    /\ TypeOK
    /\ \A e \in DOMAIN snapshot.records : snapshot.records[e] \in Entries
    /\ snapshot.health \in [Sources -> Statuses]
    /\ phase = "researching" => reads + (Len(requests) - done) <= MaxReads
    /\ phase # "idle" => Len(emitted) < MaxCycles

LEMMA StatusTyped == \A category : StatusOf(category) \in Statuses
  BY DEF StatusOf, Statuses

\* A lineage is the event that opened it, and both have the same fingerprint.
LEMMA LineagesTyped ==
    ASSUME ServiceTypeOK, NEW events \in SUBSET Events
    PROVE  /\ \A f \in DOMAIN Lineages(events) :
                 /\ Lineages(events)[f] \in DOMAIN ledger \cup events
                 /\ Catalog[Lineages(events)[f]].fingerprint = f
           /\ \A e \in events \ DOMAIN ledger : Catalog[e].fingerprint \in DOMAIN Lineages(events)
  <1> DEFINE new == events \ DOMAIN ledger
             opened == {Catalog[e].fingerprint : e \in new} \ DOMAIN lineages
             opener(f) == CHOOSE e \in new : Catalog[e].fingerprint = f
  <1>1. Lineages(events) = [f \in DOMAIN lineages \cup opened |->
                                IF f \in opened THEN opener(f) ELSE lineages[f]]
    BY DEF Lineages
  <1>2. \A f \in opened : opener(f) \in new /\ Catalog[opener(f)].fingerprint = f
    OBVIOUS
  <1>3. \A e \in new : Catalog[e].fingerprint \in DOMAIN lineages \cup opened
    OBVIOUS
  <1>4. \A f \in DOMAIN lineages : lineages[f] \in DOMAIN ledger /\ Catalog[lineages[f]].fingerprint = f
    BY DEF ServiceTypeOK
  <1>5. new \subseteq events
    OBVIOUS
  <1> HIDE DEF opened, opener
  <1>6. ASSUME NEW f \in DOMAIN Lineages(events)
        PROVE  /\ Lineages(events)[f] \in DOMAIN ledger \cup events
               /\ Catalog[Lineages(events)[f]].fingerprint = f
    BY <1>1, <1>2, <1>4, <1>5
  <1> QED BY <1>1, <1>3, <1>6

\* What is ingested makes records of the ledger.
LEMMA IngestedEntries ==
    ASSUME ServiceTypeOK, NEW events \in SUBSET Events
    PROVE  /\ DOMAIN Ingested(events) = DOMAIN ledger \cup events
           /\ \A e \in DOMAIN Ingested(events) : Ingested(events)[e] \in Entries
  <1>1. DOMAIN Ingested(events) = DOMAIN ledger \cup events
    BY DEF Ingested
  <1>2. ASSUME NEW e \in events PROVE Sighting(e, Lineages(events)) \in Entries
    <2> DEFINE lineage == IF e \in DOMAIN ledger THEN ledger[e].lineage
                          ELSE Lineages(events)[Catalog[e].fingerprint]
               id == IF e \in DOMAIN ledger THEN ledger[e].id
                     ELSE IF Catalog[e].source \in Renaming THEN reads ELSE 0
    <2>1. now \in Nat /\ reads \in Nat
      BY ServiceAssumption DEF ServiceTypeOK
    <2>2. Sighted(e) \in Times
      <3>1. Catalog[e].at \in Nat \cup {Undated}
        BY ServiceAssumption
      <3> QED BY <2>1, <3>1 DEF Sighted, Times
    <2>3. e \in DOMAIN ledger => ledger[e].id \in Nat /\ ledger[e].lineage \in Events
      BY DEF ServiceTypeOK, Entries
    <2>4. lineage \in Events
      <3>1. CASE e \in DOMAIN ledger
        BY <2>3, <3>1
      <3>2. CASE e \notin DOMAIN ledger
        <4>1. lineage \in DOMAIN ledger \cup events
          BY <3>2, LineagesTyped
        <4> QED BY <4>1 DEF ServiceTypeOK
      <3> QED BY <3>1, <3>2
    <2>5. id \in Nat
      BY <2>1, <2>3
    <2>6. Sighting(e, Lineages(events)) = [at |-> Sighted(e), seen |-> now, id |-> id, lineage |-> lineage]
      BY DEF Sighting
    <2> HIDE DEF id, lineage
    <2> QED BY <2>1, <2>2, <2>4, <2>5, <2>6 DEF Entries
  <1>3. ASSUME NEW e \in DOMAIN ledger \cup events PROVE Ingested(events)[e] \in Entries
    <2>1. CASE e \in events
      BY <1>2, <2>1 DEF Ingested
    <2>2. CASE e \notin events
      BY <1>3, <2>2 DEF Ingested, ServiceTypeOK
    <2> QED BY <2>1, <2>2
  <1> QED BY <1>1, <1>3

\* A call of the service keeps its types; it shows events the ledger knows.
LEMMA CallTyped ==
    ASSUME ServiceTypeOK, reads < MaxReads, NEW asked, NEW query,
           NEW replies \in AnswersOf(asked), NEW result,
           result = Collected(asked, query, replies), Remembers(result)
    PROVE  /\ ServiceTypeOK'
           /\ DOMAIN ledger \subseteq DOMAIN ledger'
           /\ result.observations \subseteq DOMAIN ledger'
           /\ result.health \in [Sources -> Statuses]
  <1> DEFINE taken == {e \in UNION {replies[s].seen : s \in DOMAIN replies} :
                          Matches(e, Sighted(e), query)}
             bad == UNION {replies[s].bad : s \in DOMAIN replies}
             events == taken \ bad
  <1>1. /\ ledger' = Ingested(events) /\ lineages' = Lineages(events) /\ health' = result.health
        /\ reads' = reads + 1 /\ UNCHANGED <<now, enabled>> /\ result.ledger = ledger'
    BY DEF Collected, Remembers
  <1>2. events \in SUBSET Events
    <2>1. \A s \in DOMAIN replies : replies[s].seen \subseteq Events
      BY AnswersOfSources
    <2> QED BY <2>1
  <1> HIDE DEF events
  <1>3. /\ DOMAIN ledger' = DOMAIN ledger \cup events
        /\ \A e \in DOMAIN ledger' : ledger'[e] \in Entries
    BY <1>1, <1>2, IngestedEntries
  <1>4. \A f \in DOMAIN lineages' : /\ lineages'[f] \in DOMAIN ledger'
                                    /\ Catalog[lineages'[f]].fingerprint = f
    BY <1>1, <1>2, <1>3, LineagesTyped
  <1>5. result.health \in [Sources -> Statuses]
    <2>1. /\ DOMAIN result.health = Sources
          /\ \A s \in Sources :
                result.health[s] =
                   IF s \in result.silent THEN "Disabled"
                   ELSE IF s \in DOMAIN result.failed THEN StatusOf(result.failed[s])
                   ELSE IF s \in asked THEN "Healthy" ELSE health[s]
      BY HealthOfCall
    <2>2. \A s \in Sources : health[s] \in Statuses
      BY DEF ServiceTypeOK
    <2>3. "Disabled" \in Statuses /\ "Healthy" \in Statuses
      BY DEF Statuses
    <2>4. \A s \in Sources : result.health[s] \in Statuses
      BY <2>1, <2>2, <2>3, StatusTyped
    <2>5. result.health = [s \in Sources |-> result.health[s]]
      <3>1. result.health = Recorded(result.silent, DOMAIN replies, result.failed)
        BY DEF Collected
      <3> HIDE DEF events
      <3> QED BY <3>1 DEF Recorded
    <2> QED BY <2>4, <2>5
  <1>6. reads' \in 0..MaxReads
    BY <1>1, ServiceAssumption DEF ServiceTypeOK
  <1>7. ServiceTypeOK'
    BY <1>1, <1>2, <1>3, <1>4, <1>5, <1>6 DEF ServiceTypeOK
  <1>8. result.observations \subseteq DOMAIN ledger'
    BY <1>1, ObservationsMatch
  <1> QED BY <1>3, <1>5, <1>7, <1>8

\* The query of an empty context is one.
LEMMA NoQueryTyped == NoQuery \in Queries
  BY DEF NoQuery, Queries

\* A cycle that ends leaves typed values.
LEMMA EndsTyped ==
    ASSUME ServiceTypeOK', emitted \in Seq(SUBSET Proposals), Len(emitted) < MaxCycles,
           NEW proposals, Ends(proposals)
    PROVE  TypeInv'
  <1>1. /\ snapshot' = NoSnapshot /\ phase' = "idle" /\ origin' = NoQuery /\ requests' = <<>> /\ done' = 0
        /\ evidence' = <<>> /\ view' = Unknowns /\ errors' = 0
        /\ Len(emitted') = Len(emitted) + 1
    BY DEF Ends
  <1>2. Unknowns \in [Sources -> Statuses]
    BY DEF Unknowns, Statuses
  <1>3. MaxNow \in Nat /\ MaxSourceCalls \in Nat /\ MaxCycles \in Nat
    BY ServiceAssumption, OrchestratorAssumption
  <1>4. Len(emitted) \in Nat
    OBVIOUS
  <1>5. DOMAIN <<>> = {} /\ Len(<<>>) = 0 /\ <<>> \in Seq(Requests)
    OBVIOUS
  <1> QED BY <1>1, <1>2, <1>3, <1>4, <1>5, NoQueryTyped DEF TypeInv, TypeOK, NoSnapshot

LEMMA CollectTyped ==
    ASSUME TypeInv, NEW query \in Collections, NEW replies \in AnswersOf(Registered),
           Collect(query, replies)
    PROVE  TypeInv'
  <1> DEFINE result == Collected(Registered, query, replies)
  <1>1. /\ Remembers(result) /\ phase = "idle" /\ reads < MaxCollections
        /\ result = Collected(Registered, query, replies)
        /\ snapshot' = [query |-> query, records |-> Records(result.ledger, result.observations),
                        health |-> result.health]
        /\ UNCHANGED <<phase, origin, requests, done, evidence, view, errors, emitted>>
    BY DEF Collect, cycle
  <1> HIDE DEF result
  <1>2. ServiceTypeOK /\ reads < MaxReads
    <2>1. reads \in Int /\ MaxCollections \in Int /\ MaxReads \in Int /\ MaxCollections <= MaxReads
      BY ServiceAssumption, OrchestratorAssumption DEF TypeInv, TypeOK, ServiceTypeOK
    <2> QED BY <1>1, <2>1 DEF TypeInv, TypeOK
  <1>3. /\ ServiceTypeOK' /\ DOMAIN ledger \subseteq DOMAIN ledger'
        /\ result.observations \subseteq DOMAIN ledger'
        /\ result.health \in [Sources -> Statuses]
    BY <1>1, <1>2, CallTyped
  <1>4. /\ DOMAIN snapshot'.records \subseteq DOMAIN ledger'
        /\ \A e \in DOMAIN snapshot'.records : snapshot'.records[e] \in Entries
        /\ snapshot'.query \in Queries /\ snapshot'.health \in [Sources -> Statuses]
    <2>1. result.ledger = ledger'
      BY <1>1 DEF Remembers
    <2>2. query \in Queries
      BY OrchestratorAssumption
    <2> QED BY <1>1, <1>3, <2>1, <2>2 DEF Records, ServiceTypeOK
  <1> QED BY <1>1, <1>3, <1>4 DEF TypeInv, TypeOK

LEMMA BeginTyped ==
    ASSUME TypeInv, NEW context \in Contexts, NEW plan \in Plans, BeginCycle(context, plan)
    PROVE  TypeInv'
  <1>1. /\ Len(emitted) < MaxCycles /\ ~Refused(plan)
        /\ reads + Len(Accepted(plan)) <= MaxReads
        /\ phase' = IF plan = <<>> THEN "deciding" ELSE "researching"
        /\ origin' = context.query /\ evidence' = context.records /\ view' = context.health
        /\ requests' = Accepted(plan) /\ done' = 0 /\ errors' = 0
        /\ UNCHANGED <<now, reads, enabled, ledger, lineages, health, snapshot, emitted>>
    BY DEF BeginCycle, serviceVars
  <1>2. /\ context.query \in Queries /\ DOMAIN context.records \subseteq DOMAIN ledger
        /\ \A e \in DOMAIN context.records : context.records[e] \in Entries
        /\ context.health \in [Sources -> Statuses]
    <2>1. CASE context = snapshot
      BY <2>1 DEF TypeInv, TypeOK
    <2>2. CASE context = NoSnapshot
      BY <2>2, NoQueryTyped DEF NoSnapshot, Unknowns, Statuses
    <2> QED BY <2>1, <2>2 DEF Contexts
  <1>3. /\ requests' \in Seq(Requests) /\ Len(requests') <= MaxSourceCalls
        /\ plan # <<>> => Len(requests') > 0
    <2>1. plan \in Seq(Requests)
      BY OrchestratorAssumption
    <2> DEFINE accepted == Accepted(plan)
    <2>2. /\ accepted \in Seq(Requests) /\ Len(accepted) <= MaxSourceCalls
          /\ accepted = <<>> <=> plan = <<>>
      BY <1>1, <2>1, OneCallPerTarget
    <2> HIDE DEF accepted
    <2>3. accepted # <<>> => Len(accepted) > 0
      BY <2>2
    <2> QED BY <1>1, <2>2, <2>3 DEF accepted
  <1>4. ServiceTypeOK'
    BY <1>1 DEF TypeInv, TypeOK, ServiceTypeOK
  <1>5. Len(requests') \in Nat /\ reads \in Nat
    BY <1>3 DEF TypeInv, TypeOK, ServiceTypeOK
  <1>6. done' \in 0..Len(requests') /\ errors' \in 0..done'
        /\ (phase' = "researching" => done' < Len(requests')
                                     /\ reads' + (Len(requests') - done') <= MaxReads)
    BY <1>1, <1>3, <1>5
  <1>7. phase' \in {"idle", "researching", "deciding"} /\ Len(emitted') < MaxCycles
    BY <1>1
  <1>8. Len(emitted') <= MaxCycles
    BY <1>1 DEF TypeInv, TypeOK
  <1> QED BY <1>1, <1>2, <1>3, <1>4, <1>6, <1>7, <1>8 DEF TypeInv, TypeOK

LEMMA ResearchTyped ==
    ASSUME TypeInv, emitted \in Seq(SUBSET Proposals), phase = "researching", NEW observed \in BOOLEAN,
           NEW replies \in AnswersOf(Asked(requests[done + 1])), Research(replies, observed)
    PROVE  TypeInv'
  <1> DEFINE request == requests[done + 1]
             asked == Asked(request)
             result == Collected(asked, request.query, replies)
  <1>1. /\ Remembers(result) /\ replies \in AnswersOf(asked)
        /\ result = Collected(asked, request.query, replies)
    BY DEF Research
  <1>2. /\ requests \in Seq(Requests) /\ Len(requests) \in Nat /\ done \in Nat /\ errors \in 0..done
        /\ done < Len(requests) /\ reads \in Nat /\ MaxReads \in Nat
        /\ reads + (Len(requests) - done) <= MaxReads /\ Len(emitted) < MaxCycles
        /\ ServiceTypeOK
    BY ServiceAssumption DEF TypeInv, TypeOK, ServiceTypeOK
  <1>3. request \in Requests /\ reads < MaxReads
    BY <1>2
  <1>4. ServiceTypeOK' /\ DOMAIN ledger \subseteq DOMAIN ledger' /\ reads' = reads + 1
    <2>1. reads' = reads + 1
      BY <1>1 DEF Remembers
    <2> HIDE DEF result, asked, request
    <2> QED BY <1>1, <1>2, <1>3, <2>1, CallTyped
  <1>5. CASE observed = TRUE
    <2>1. /\ Research(replies, TRUE)
          /\ done' = done + 1 /\ (errors' = errors \/ errors' = errors + 1)
          /\ phase' = IF done' = Len(requests) THEN "deciding" ELSE "researching"
          /\ UNCHANGED <<snapshot, origin, requests, emitted>>
      <3> DEFINE learns == Learns(request, Answer(request.source, result), result.ledger)
      <3>1. Research(replies, TRUE) /\ learns
        BY <1>5 DEF Research
      <3>2. PICK n \in {0, 1} : errors' = errors + n
        BY <3>1 DEF Learns
      <3>3. errors' = errors \/ errors' = errors + 1
        BY <1>2, <3>2
      <3> HIDE DEF request, result
      <3> QED BY <3>1, <3>3 DEF Learns
    <2>2. PICK status \in Statuses : view' = [view EXCEPT ![request.source] = status]
      <3> DEFINE answer == Answer(request.source, result)
      <3>1. view' = [view EXCEPT ![request.source] =
                        IF answer.error # NoError THEN StatusOf(answer.error) ELSE "Healthy"]
        BY <2>1 DEF Research, Learns
      <3>2. "Healthy" \in Statuses
        BY DEF Statuses
      <3> HIDE DEF answer, request
      <3> QED BY <3>1, <3>2, StatusTyped
    <2>3. view' \in [Sources -> Statuses]
      BY <1>3, <2>2 DEF TypeInv, TypeOK, Requests
    <2>4. \A e \in DOMAIN evidence' : e \in DOMAIN ledger' /\ evidence'[e] \in Entries
      <3> SUFFICES ASSUME NEW e \in DOMAIN evidence'
                   PROVE  e \in DOMAIN ledger' /\ evidence'[e] \in Entries
        OBVIOUS
      <3>1. CASE e \in DOMAIN evidence /\ evidence'[e] = evidence[e]
        BY <1>4, <3>1 DEF TypeInv, TypeOK
      <3>2. CASE e \in DOMAIN ledger' /\ evidence'[e] = ledger'[e]
        BY <1>4, <3>2 DEF ServiceTypeOK
      <3> QED BY <2>1, <3>1, <3>2, ResearchAdds
    <2>5. /\ done' \in 0..Len(requests') /\ errors' \in 0..done'
          /\ phase' \in {"idle", "researching", "deciding"}
          /\ phase' = "researching" => /\ done' < Len(requests')
                                       /\ reads' + (Len(requests') - done') <= MaxReads
      <3>1. /\ Len(requests) \in Nat /\ done \in Nat /\ errors \in 0..done /\ done < Len(requests)
            /\ reads \in Nat /\ MaxReads \in Nat /\ reads + (Len(requests) - done) <= MaxReads
        BY <1>2
      <3>2. /\ requests' = requests /\ done' = done + 1 /\ reads' = reads + 1
            /\ errors' = errors \/ errors' = errors + 1
            /\ phase' = IF done' = Len(requests) THEN "deciding" ELSE "researching"
        BY <1>4, <2>1
      <3> QED BY ONLY <3>1, <3>2
    <2>6. Len(emitted') < MaxCycles /\ Len(emitted') <= MaxCycles /\ DOMAIN snapshot'.records \subseteq DOMAIN ledger'
      BY <1>2, <1>4, <2>1 DEF TypeInv, TypeOK
    <2> QED BY <1>4, <2>1, <2>3, <2>4, <2>5, <2>6 DEF TypeInv, TypeOK
  <1>6. CASE observed = FALSE
    <2>1. Ends({})
      BY <1>6 DEF Research
    <2> QED BY <1>2, <1>4, <2>1, EndsTyped
  <1> QED BY <1>5, <1>6

\* A step that leaves the cycle and the calls of the service alone.
LEMMA OthersTyped ==
    ASSUME TypeInv, UNCHANGED <<reads, ledger, lineages, health, snapshot, phase, cycle, emitted>>,
           now' \in 0..MaxNow, enabled' \subseteq Registered
    PROVE  TypeInv'
  <1>1. ServiceTypeOK'
    BY DEF TypeInv, TypeOK, ServiceTypeOK
  <1> QED BY <1>1 DEF TypeInv, TypeOK, cycle

LEMMA InitTyped ==
    ASSUME OrchestratorInit
    PROVE  TypeInv
  <1> USE DEF OrchestratorInit, Init, NoSnapshot, Unknowns
  <1>1. ServiceTypeOK
    BY ServiceAssumption DEF ServiceTypeOK, Statuses
  <1>2. Unknowns \in [Sources -> Statuses]
    BY DEF Statuses
  <1>3. MaxNow \in Nat /\ MaxSourceCalls \in Nat /\ MaxCycles \in Nat
    BY ServiceAssumption, OrchestratorAssumption
  <1> QED BY <1>1, <1>2, <1>3, NoQueryTyped DEF TypeInv, TypeOK

\* Every step keeps the types.
LEMMA StepTyped ==
    ASSUME TypeInv, emitted \in Seq(SUBSET Proposals), [Next]_vars
    PROVE  TypeInv'
  <1>1. CASE Wait
    <2>1. now \in 0..MaxNow /\ MaxNow \in Nat /\ now < MaxNow /\ now' = now + 1
      BY <1>1, ServiceAssumption DEF Wait, Tick, TypeInv, TypeOK, ServiceTypeOK
    <2>2. now' \in 0..MaxNow /\ enabled' \subseteq Registered
      BY <1>1, <2>1 DEF Wait, Tick, TypeInv, TypeOK, ServiceTypeOK
    <2> QED BY <1>1, <2>2, OthersTyped DEF Wait, Tick
  <1>2. ASSUME NEW s \in Toggled, NEW on \in BOOLEAN, Toggle(s, on)
        PROVE  TypeInv'
    <2>1. enabled' \subseteq Registered /\ now' \in 0..MaxNow
      BY <1>2 DEF Toggle, SetSourceEnabled, TypeInv, TypeOK, ServiceTypeOK
    <2> QED BY <1>2, <2>1, OthersTyped DEF Toggle, SetSourceEnabled
  <1>3. ASSUME NEW query \in Collections, NEW replies \in AnswersOf(Registered), Collect(query, replies)
        PROVE  TypeInv'
    BY <1>3, CollectTyped
  <1>4. ASSUME NEW context \in Contexts, NEW plan \in Plans, BeginCycle(context, plan)
        PROVE  TypeInv'
    BY <1>4, BeginTyped
  <1>5. ASSUME NEW proposals, Ends(proposals), UNCHANGED serviceVars, Len(emitted) < MaxCycles
        PROVE  TypeInv'
    <2>1. ServiceTypeOK'
      BY <1>5 DEF TypeInv, TypeOK, ServiceTypeOK, serviceVars
    <2> QED BY <1>5, <2>1, EndsTyped
  <1>6. ASSUME phase = "researching", NEW observed \in BOOLEAN,
               NEW replies \in AnswersOf(Asked(requests[done + 1])), Research(replies, observed)
        PROVE  TypeInv'
    BY <1>6, ResearchTyped
  <1>7. phase # "idle" => Len(emitted) < MaxCycles
    BY DEF TypeInv
  <1>8. ASSUME NEW batch \in Batches, Decide(batch)
        PROVE  TypeInv'
    BY <1>5, <1>7, <1>8 DEF Decide
  <1>9. CASE NoDecision
    BY <1>5, <1>7, <1>9 DEF NoDecision
  <1>10. CASE CycleRefused
    BY <1>5, <1>10 DEF CycleRefused
  <1>11. CASE UNCHANGED vars
    BY <1>11, OthersTyped DEF vars, serviceVars, TypeInv, TypeOK, ServiceTypeOK
  <1> QED
    BY <1>1, <1>2, <1>3, <1>4, <1>6, <1>8, <1>9, <1>10, <1>11 DEF Next
--------------------------------------------------------------------------------
(* The theorems *)

\* The invariant holds of every state of the decision cycle, however many calls, cycles,
\* failures and toggles there have been.
THEOREM CycleInvariant == Spec => []IInv
  <1>1. OrchestratorInit => IInv
    BY InitEstablishes
  <1>2. IInv /\ [Next]_vars => IInv'
    BY StepKeeps
  <1> QED BY <1>1, <1>2, PTL DEF Spec

\* Every variable keeps its type: a cycle makes no more calls than its budget has, its errors
\* never outnumber the requests it has researched, and it is shown only what the ledger
\* knows.
THEOREM TypeCorrect == Spec => []TypeOK
  <1>1. OrchestratorInit => TypeInv
    BY InitTyped
  <1>2. IInv /\ TypeInv /\ [Next]_vars => TypeInv'
    BY StepTyped DEF IInv, ProposalInv
  <1>3. TypeInv => TypeOK
    BY DEF TypeInv
  <1> QED BY <1>1, <1>2, <1>3, CycleInvariant, PTL DEF Spec

\* Whatever a snapshot or the evidence of a cycle holds matches a query it was asked for
\* with: that of the snapshot or, source and instrument included, one of a request of the
\* cycle.  How old it may be, and as of when, is for those queries to say.
THEOREM EvidenceAlwaysAskedFor == Spec => []EvidenceWasAskedFor
  <1>1. IInv => EvidenceWasAskedFor
    BY DEF IInv, EvidenceInv
  <1> QED BY <1>1, CycleInvariant, PTL

\* After research on a source the registry of the cycle and the registry of the service say
\* the same of it, whether it answered, failed or was switched off.
THEOREM HealthsAgree == Spec => []HealthAgrees
  <1>1. IInv => HealthAgrees
    BY DEF IInv, HealthInv
  <1> QED BY <1>1, CycleInvariant, PTL

\* No two cycles propose the same action on the same instrument because of the same source
\* events: the deduplication by evidence id is one by source event.
THEOREM NeverProposedTwice == Spec => []NothingProposedTwice
  <1>1. IInv => NothingProposedTwice
    BY DEF IInv, ProposalInv
  <1> QED BY <1>1, CycleInvariant, PTL

\* A source event keeps its evidence id and its lineage for as long as the service lives.
THEOREM EventsKeepIdentity == Spec => IdentityKept
  <1> DEFINE Keeps == \A e \in DOMAIN ledger :
                        /\ e \in DOMAIN ledger'
                        /\ ledger'[e].id = ledger[e].id /\ ledger'[e].lineage = ledger[e].lineage
  <1>1. IInv /\ [Next]_vars => [Keeps]_vars
    <2> SUFFICES ASSUME IInv, Next PROVE Keeps
      OBVIOUS
    <2>1. ASSUME UNCHANGED ledger PROVE Keeps
      BY <2>1
    <2>2. ASSUME NEW asked, NEW query, NEW replies \in AnswersOf(asked),
                 Remembers(Collected(asked, query, replies))
          PROVE  Keeps
      BY <2>2, CallKeeps DEF IInv
    <2> HIDE DEF Keeps
    <2>3. ASSUME NEW query, NEW replies \in AnswersOf(Registered), Collect(query, replies)
          PROVE  Keeps
      BY <2>2, <2>3 DEF Collect
    <2>4. ASSUME NEW replies \in AnswersOf(Asked(requests[done + 1])), NEW observed,
                 Research(replies, observed)
          PROVE  Keeps
      BY <2>2, <2>4 DEF Research
    <2>5. ASSUME NEW s, NEW on, Toggle(s, on) PROVE Keeps
      BY <2>1, <2>5 DEF Toggle, SetSourceEnabled
    <2>6. ASSUME NEW context, NEW plan, BeginCycle(context, plan) PROVE Keeps
      BY <2>1, <2>6 DEF BeginCycle, serviceVars
    <2>7. ASSUME NEW batch, Decide(batch) PROVE Keeps
      BY <2>1, <2>7 DEF Decide, serviceVars
    <2>8. ASSUME Wait \/ CycleRefused \/ NoDecision PROVE Keeps
      BY <2>1, <2>8 DEF Wait, Tick, CycleRefused, NoDecision, serviceVars
    <2> QED BY <2>3, <2>4, <2>5, <2>6, <2>7, <2>8 DEF Next
  <1> QED BY <1>1, CycleInvariant, PTL DEF Spec, IdentityKept

\* What research adds to the evidence comes from a source that has just answered without an
\* error, never from what the ledger remembers of one that failed or is switched off.
THEOREM SilentSourcesAddNothing == Spec => FailedSourcesAddNothing
  <1> DEFINE Sound == phase = "researching" =>
                         \A e \in DOMAIN evidence' \ DOMAIN evidence :
                             /\ Catalog[e].source \in enabled
                             /\ health'[Catalog[e].source] = "Healthy"
  <1>1. [Next]_vars => [Sound]_vars
    <2> SUFFICES ASSUME Next, phase = "researching",
                        NEW e \in DOMAIN evidence' \ DOMAIN evidence
                 PROVE  Catalog[e].source \in enabled /\ health'[Catalog[e].source] = "Healthy"
      OBVIOUS
    <2>1. ASSUME NEW proposals, Ends(proposals) PROVE FALSE
      BY <2>1, EndsClears
    <2>2. ASSUME UNCHANGED evidence PROVE FALSE
      BY <2>2
    <2>3. ASSUME NEW replies \in AnswersOf(Asked(requests[done + 1])), NEW observed \in BOOLEAN,
                 Research(replies, observed)
          PROVE  Catalog[e].source \in enabled /\ health'[Catalog[e].source] = "Healthy"
      <3>1. CASE observed = TRUE
        BY <2>3, <3>1, ResearchAdds
      <3>2. CASE observed = FALSE
        BY <2>1, <2>3, <3>2 DEF Research
      <3> QED BY <3>1, <3>2
    <2>4. ~ Wait
      BY <2>2 DEF Wait, cycle
    <2>5. ASSUME NEW batch, Decide(batch) PROVE FALSE
      BY <2>1, <2>5 DEF Decide
    <2>6. ~ NoDecision
      BY <2>1 DEF NoDecision
    <2> QED BY <2>3, <2>4, <2>5, <2>6 DEF Next, Toggle, BeginCycle, CycleRefused
  <1> QED BY <1>1, PTL DEF Spec, FailedSourcesAddNothing

\* Attention depends on the strongest observation of each catalyst alone.
LEMMA AttentionOfStrongest ==
    ASSUME NEW shown, NEW more, NEW i,
           DOMAIN shown \subseteq DOMAIN more, DOMAIN more \subseteq Events,
           \A e \in DOMAIN more \ DOMAIN shown : \E o \in DOMAIN shown :
               /\ i \in Catalog[o].affects
               /\ Catalog[o].fingerprint = Catalog[e].fingerprint
               /\ Catalog[o].weight >= Catalog[e].weight
    PROVE  AttentionScore(more, i) = AttentionScore(shown, i)
  <1> DEFINE old == Weights(shown, i)
             all == Weights(more, i)
             Top(weights) == {w \in weights : \A v \in weights : v[1] = w[1] => v[2] <= w[2]}
  <1>1. \A e \in Events : Catalog[e].weight \in Nat
    BY ServiceAssumption
  <1>2. old \subseteq all
    BY DEF Weights
  <1>3. /\ \A w \in all : w[2] \in Nat
        /\ \A w \in all : w = <<w[1], w[2]>>
    BY <1>1 DEF Weights
  <1>4. ASSUME NEW v \in all PROVE \E w \in old : w[1] = v[1] /\ w[2] >= v[2]
    <2>1. PICK e \in DOMAIN more : /\ i \in Catalog[e].affects
                                   /\ v = <<Catalog[e].fingerprint, Catalog[e].weight>>
      BY DEF Weights
    <2>2. CASE e \in DOMAIN shown
      <3>1. v \in old
        BY <2>1, <2>2 DEF Weights
      <3> QED BY <3>1, <1>2, <1>3
    <2>3. CASE e \notin DOMAIN shown
      <3>1. PICK o \in DOMAIN shown : /\ i \in Catalog[o].affects
                                      /\ Catalog[o].fingerprint = Catalog[e].fingerprint
                                      /\ Catalog[o].weight >= Catalog[e].weight
        BY <2>1, <2>3
      <3>2. <<Catalog[o].fingerprint, Catalog[o].weight>> \in old
        BY <3>1 DEF Weights
      <3> QED BY <2>1, <3>1, <3>2
    <2> QED BY <2>2, <2>3
  <1> HIDE DEF old, all
  <1>5. ASSUME NEW w \in Top(all) PROVE w \in Top(old)
    <2>1. PICK v \in old : v[1] = w[1] /\ v[2] >= w[2]
      BY <1>4
    <2>2. v[2] <= w[2] /\ v[2] \in Nat /\ w[2] \in Nat
      BY <1>2, <1>3, <2>1
    <2>3. v = w
      BY <1>2, <1>3, <2>1, <2>2
    <2> QED BY <1>2, <2>1, <2>3
  <1>6. ASSUME NEW w \in Top(old) PROVE w \in Top(all)
    <2>1. ASSUME NEW v \in all, v[1] = w[1] PROVE v[2] <= w[2]
      <3>1. PICK u \in old : u[1] = v[1] /\ u[2] >= v[2]
        BY <1>4
      <3>2. u[2] <= w[2]
        BY <2>1, <3>1
      <3>3. u[2] \in Nat /\ w[2] \in Nat /\ v[2] \in Nat
        BY <1>2, <1>3
      <3> QED BY <3>1, <3>2, <3>3
    <2> QED BY <1>2, <2>1
  <1>7. Top(all) = Top(old)
    BY <1>5, <1>6
  <1>8. Top(Weights(more, i)) = Top(Weights(shown, i))
    BY <1>7 DEF old, all
  <1> QED BY <1>8 DEF AttentionScore

\* However often a catalyst is observed again, the attention of an instrument rises only with
\* an observation of a catalyst it was not shown, or a stronger one of a catalyst it was.
THEOREM CatalystsNeverCountTwice == Spec => CatalystsCountOnce
  <1> DEFINE Rises(i) == \E e \in DOMAIN evidence' \ DOMAIN evidence : \A o \in DOMAIN evidence :
                            \/ i \notin Catalog[o].affects
                            \/ Catalog[o].fingerprint # Catalog[e].fingerprint
                            \/ Catalog[o].weight < Catalog[e].weight
             Counts == phase = "researching" /\ phase' # "idle" =>
                 \A i \in Universe :
                     \/ AttentionScore(evidence', i) = AttentionScore(evidence, i)
                     \/ \E e \in DOMAIN evidence' \ DOMAIN evidence : \A o \in DOMAIN evidence :
                           \/ i \notin Catalog[o].affects
                           \/ Catalog[o].fingerprint # Catalog[e].fingerprint
                           \/ Catalog[o].weight < Catalog[e].weight
  <1>1. IInv /\ [Next]_vars => [Counts]_vars
    <2> SUFFICES ASSUME IInv, IInv', Next, phase = "researching", phase' # "idle", NEW i \in Universe
                 PROVE  AttentionScore(evidence', i) = AttentionScore(evidence, i) \/ Rises(i)
      BY StepKeeps
    <2>1. ASSUME NEW proposals, Ends(proposals) PROVE FALSE
      BY <2>1, EndsClears
    <2>2. CASE UNCHANGED evidence
      BY <2>2
    <2>3. ASSUME NEW replies \in AnswersOf(Asked(requests[done + 1])), Research(replies, TRUE), ~Rises(i)
          PROVE  AttentionScore(evidence', i) = AttentionScore(evidence, i)
      <3>1. DOMAIN evidence \subseteq DOMAIN evidence'
        BY <2>3 DEF Research, Learns
      <3>2. DOMAIN evidence' \subseteq Events
        BY DEF IInv, LedgerInv, EvidenceInv, Identified
      <3>3. ASSUME NEW e \in DOMAIN evidence' \ DOMAIN evidence
            PROVE  \E o \in DOMAIN evidence :
                      /\ i \in Catalog[o].affects
                      /\ Catalog[o].fingerprint = Catalog[e].fingerprint
                      /\ Catalog[o].weight >= Catalog[e].weight
        <4>1. PICK o \in DOMAIN evidence : /\ i \in Catalog[o].affects
                                           /\ Catalog[o].fingerprint = Catalog[e].fingerprint
                                           /\ ~(Catalog[o].weight < Catalog[e].weight)
          BY <2>3
        <4>2. e \in Events /\ o \in Events
          BY <3>1, <3>2
        <4>3. Catalog[o].weight \in Nat /\ Catalog[e].weight \in Nat
          BY <4>2, ServiceAssumption
        <4> QED BY <4>1, <4>3
      <3> QED BY <3>1, <3>2, <3>3, AttentionOfStrongest
    <2>4. ASSUME NEW replies \in AnswersOf(Asked(requests[done + 1])), NEW observed \in BOOLEAN,
                 Research(replies, observed)
          PROVE  AttentionScore(evidence', i) = AttentionScore(evidence, i) \/ Rises(i)
      <3>1. CASE observed = TRUE
        <4> HIDE DEF Rises
        <4> QED BY <2>3, <2>4, <3>1
      <3>2. CASE observed = FALSE
        BY <2>1, <2>4, <3>2 DEF Research
      <3> QED BY <3>1, <3>2
    <2>5. CASE Wait
      BY <2>2, <2>5 DEF Wait, cycle
    <2>6. ASSUME NEW batch, Decide(batch) PROVE FALSE
      BY <2>1, <2>6 DEF Decide
    <2>7. ~ NoDecision
      BY <2>1 DEF NoDecision
    <2> HIDE DEF Rises
    <2> QED BY <2>4, <2>5, <2>6, <2>7 DEF Next, Toggle, BeginCycle, CycleRefused
  <1> QED BY <1>1, CycleInvariant, PTL DEF Spec, CatalystsCountOnce
================================================================================
