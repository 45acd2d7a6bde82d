---------------------------- MODULE MC_Persistence ----------------------------
(***************************************************************************)
(* Two processes on one file.  Of the three executions of one decision one *)
(* would reuse the client order id of another; both evidence ids are of    *)
(* one source event.                                                       *)
(***************************************************************************)
EXTENDS Persistence

MCPlan == [e1 |-> [risk |-> "k1", decision |-> "d1", order |-> "c1"],
           e2 |-> [risk |-> "k1", decision |-> "d1", order |-> "c2"],
           e3 |-> [risk |-> "k1", decision |-> "d1", order |-> "c1"]]

\* A receipt, a fill and evidence that have no row, or one of another state.
MCAppends ==
    {[type |-> "execution", subject |-> "e1", state |-> "Unknown"],
     [type |-> "fill", subject |-> "f1", state |-> Absent],
     [type |-> "evidence", subject |-> "v1", state |-> Absent]}

MCEventOf == [v \in EvidenceIds |-> "x1"]
================================================================================
