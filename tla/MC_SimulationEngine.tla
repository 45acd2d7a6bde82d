-------------------------- MODULE MC_SimulationEngine --------------------------
(***************************************************************************)
(* Instances of SimulationEngine: resting and market orders by quantity    *)
(* and by notional on one instrument, with prices that cross the limits,   *)
(* the stop and the target, and a second instrument that competes for the  *)
(* cash.                                                                   *)
(***************************************************************************)
EXTENDS SimulationEngine

Market(instrument, bid, ask) == [instrument |-> instrument, bid |-> bid, ask |-> ask]

Request(instrument, action, quantity, notional, limit) ==
    [instrument |-> instrument, action |-> action, quantity |-> quantity,
     notional |-> notional, limit |-> limit]

MCSnapshots ==
    {Market("BTC", 10, 10), Market("BTC", 20, 20), Market("BTC", 29, 30), Market("ETH", 20, 20)}

MCRequests ==
    {Request("BTC", "Buy", 4, 0, 0), Request("BTC", "Buy", 0, 100, 30),
     Request("BTC", "Buy", 2, 0, 20), Request("BTC", "Sell", 2, 0, 20),
     Request("BTC", "Sell", 3, 0, 0), Request("ETH", "Buy", 3, 0, 0)}

MCHeld == [i \in Instruments |-> IF i = "BTC" THEN 2 ELSE 0]
MCAverage == [i \in Instruments |-> IF i = "BTC" THEN 22 ELSE 0]
================================================================================
