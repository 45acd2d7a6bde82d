------------------------ MODULE MC_DecisionOrchestrator ------------------------
(***************************************************************************)
(* Instances of DecisionOrchestrator: a live market that can be switched   *)
(* off, posts that get a new evidence id at every sighting and do not      *)
(* count for attention, an undated report of the market's catalyst, and a  *)
(* source without an adapter.                                              *)
(***************************************************************************)
EXTENDS DecisionOrchestrator

Event(source, affects, fingerprint, weight, rank, at) ==
    [source |-> source, affects |-> affects, fingerprint |-> fingerprint, weight |-> weight,
     rank |-> rank, at |-> at]

MCCatalog ==
    [e \in Events |->
        CASE e = "market" -> Event("Polymarket", {"BTC"}, "approval", 2, 1, 0)
          [] e = "post" -> Event("Reddit", {"BTC"}, "thread", 0, 2, 0)
          [] e = "report" -> Event("AtkNews", {"BTC", "ETH"}, "approval", 1, 0, Undated)]

MCPositions == [i \in Universe |-> IF i = "BTC" THEN "none" ELSE "flat"]

\* The planner asks on a clock of its own: as of asOf, with an age limit or without one.
Request(source, instrument, asOf, maxAge) ==
    [source |-> source, instrument |-> instrument, rationale |-> TRUE,
     query |-> [asOf |-> asOf, maxAge |-> maxAge, targets |-> {instrument}, results |-> 2,
                perSource |-> 1]]

MCPlans ==
    {<<>>, <<Request("MarxFinance", "ETH", 0, 0)>>,
     <<Request("Reddit", "BTC", 0, 0), Request("Reddit", "BTC", 1, 0)>>,
     <<Request("AtkNews", "BTC", 0, 0), Request("Reddit", "BTC", 1, Unlimited)>>,
     <<Request("Polymarket", "BTC", 1, 0), Request("AtkNews", "ETH", 1, 0)>>,
     <<Request("Reddit", "BTC", 0, 0), Request("AtkNews", "ETH", 0, 0),
       Request("Polymarket", "BTC", 0, 0)>>,
     <<Request("Reddit", "DOGE", 0, 0)>>,
     <<[Request("Reddit", "BTC", 0, 0) EXCEPT !.rationale = FALSE]>>,
     <<[Request("Reddit", "BTC", 0, 0) EXCEPT !.query.targets = {}]>>,
     <<[Request("Reddit", "BTC", 0, 0) EXCEPT !.query.results = 3]>>,
     <<[Request("Reddit", "BTC", 0, 0) EXCEPT !.query.perSource = 2]>>}

MCCollections ==
    {[asOf |-> 0, maxAge |-> 0, targets |-> {}, results |-> 2, perSource |-> 1],
     [asOf |-> 1, maxAge |-> 0, targets |-> {}, results |-> 2, perSource |-> 1]}
================================================================================
