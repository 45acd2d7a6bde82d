-------------------------- MODULE MC_ExecutionEngine --------------------------
(***************************************************************************)
(* Small instances of ExecutionEngine for TLC: plans for two instruments,  *)
(* half of them limit orders.  MCSharedClientIds gives the last two the     *)
(* client order ids of the first two (only a hand-built plan               *)
(* does that), so that the duplicate check has work; MCOwnClientIds is     *)
(* what ExecutionPolicy::plan produces.                                    *)
(***************************************************************************)
EXTENDS ExecutionEngine

MCInstrumentOf == [e \in ExecutionIds |-> IF e \in {2, 3} THEN "BTC" ELSE "ETH"]

MCSharedClientIds == [e \in ExecutionIds |-> IF e > 2 THEN e - 2 ELSE e]

MCOwnClientIds == [e \in ExecutionIds |-> e]
================================================================================
