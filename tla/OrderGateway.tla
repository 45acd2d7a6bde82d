----------------------------- MODULE OrderGateway -----------------------------
(***************************************************************************)
(* The exchange as an order gateway sees it, and what a gateway may        *)
(* truthfully say of an order: the ground that the execution engine, which *)
(* uses a gateway, and the ATK client, which is one, stand on.             *)
(*                                                                         *)
(* The exchange and the gateway's process are environment.  An order is    *)
(* named by its client order id, as in every request of src/execution.rs.  *)
(***************************************************************************)
EXTENDS Naturals

CONSTANT ClientIds   \* client order ids

VARIABLES
    alive,       \* environment: the gateway's process runs
    exchange,    \* environment: what became of a client order id
    sent         \* environment: placement requests sent per client order id

environment == <<alive, exchange, sent>>

ExchangeStates == {"None", "InFlight", "Open", "PartiallyFilled", "Filled",
                   "Cancelled", "Rejected"}

\* A placement request is written to the process.
Transmitted(c) ==
    /\ exchange' = [exchange EXCEPT ![c] = IF @ = "None" THEN "InFlight" ELSE @]
    /\ sent' = [sent EXCEPT ![c] = @ + 1]

\* A request on its way is accepted, refused, or never arrives.
Arrives(c) ==
    /\ exchange[c] = "InFlight"
    /\ \E x \in {"Open", "Rejected", "None"} : exchange' = [exchange EXCEPT ![c] = x]
    /\ UNCHANGED <<alive, sent>>

\* An order on the book: it can be cancelled.
OnBook(c) == exchange[c] \in {"Open", "PartiallyFilled"}

\* An order on the book is filled or leaves it, asked to or not.
Progresses(c) ==
    /\ OnBook(c)
    /\ \E x \in {"PartiallyFilled", "Filled", "Cancelled"} :
          exchange' = [exchange EXCEPT ![c] = x]
    /\ UNCHANGED <<alive, sent>>

\* The exchange has taken the order.
Accepted(c) == exchange[c] \notin {"None", "InFlight", "Rejected"}

\* Mutant: an order that was not refused is said to be acknowledged.
Placements_Assumed(c) ==
    IF ~alive THEN {"Unknown"}
    ELSE IF exchange[c] = "Rejected" THEN {"Unknown", "Rejected"}
    ELSE {"Unknown", "Acknowledged"}

\* What the answer to a placement can be: Acknowledged or Rejected report what
\* the exchange did; Unknown (timeout, ambiguous or invalid answer) always may.
Placements(c) ==
    {"Unknown"}
    \cup (IF alive /\ Accepted(c) THEN {"Acknowledged"} ELSE {})
    \cup (IF alive /\ exchange[c] = "Rejected" THEN {"Rejected"} ELSE {})

\* Mutant: the gateway's states are stored untranslated.
GatewayState_Untranslated(x) == x

GatewayState(x) == IF x = "Open" THEN "Acknowledged" ELSE x

\* What query() can answer: the exchange's state, or one the client does not
\* recognise.  It may also fail, whatever the state.
Answers(c) == IF alive /\ exchange[c] \notin {"None", "InFlight"}
              THEN {GatewayState(exchange[c]), "Unknown"} ELSE {}
================================================================================
