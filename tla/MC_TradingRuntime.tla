--------------------------- MODULE MC_TradingRuntime ---------------------------
(***************************************************************************)
(* Instances of TradingRuntime: every kind of decision for one instrument  *)
(* and BUYs of another, sized so that the live cap, the reserve and the    *)
(* position limit all bite.                                                *)
(***************************************************************************)
EXTENDS TradingRuntime

Decision(action, instrument, notional, reduction, stale, urgent) ==
    [action |-> action, instrument |-> instrument, valid |-> TRUE, stale |-> stale,
     urgent |-> urgent, notional |-> notional, reduction |-> reduction]

MCDecisions ==
    {Decision("Buy", "BTC", 4, 0, FALSE, TRUE), Decision("Buy", "BTC", 10, 0, FALSE, FALSE),
     Decision("Buy", "ETH", 4, 0, FALSE, FALSE), Decision("Sell", "BTC", 0, 1, FALSE, FALSE),
     Decision("Sell", "BTC", 0, 2, TRUE, TRUE), Decision("Hold", "BTC", 0, 0, FALSE, FALSE),
     [Decision("Buy", "BTC", 0, 0, FALSE, FALSE) EXCEPT !.valid = FALSE]}

Context(live, flags) ==
    [live |-> live, protective |-> "protective" \in flags, qualified |-> "qualified" \in flags,
     lossReached |-> "loss" \in flags, drawdownReached |-> "drawdown" \in flags]

MCContexts ==
    {Context(TRUE, {}), Context(TRUE, {"protective", "loss"}), Context(TRUE, {"qualified"}),
     Context(FALSE, {"protective", "drawdown"})}

MCBuys == {Decision("Buy", "BTC", 4, 0, FALSE, FALSE), Decision("Buy", "ETH", 4, 0, FALSE, FALSE)}
================================================================================
