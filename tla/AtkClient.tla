------------------------------- MODULE AtkClient -------------------------------
(***************************************************************************)
(* The ATK client of src/atk/mod.rs: the handshake that decides whether    *)
(* the MCP server it was given may be traded with, and the calls of an     *)
(* open session, each classified by what its reply does and does not say.  *)
(* It includes the implementation of ExecutionGateway for the client in    *)
(* src/execution.rs.                                                       *)
(*                                                                         *)
(* A call owns the client (&mut self) until its reply is classified; while *)
(* it waits the process can die and the exchange moves.  A reply is a      *)
(* record of what the code looks at in it.  Environment: the server, which *)
(* answers anything it can but never lies about an order or about its own  *)
(* settings, and the owner, which calls in any order and places no client  *)
(* order id twice (OnePlacementPerOrder of ExecutionEngine).               *)
(***************************************************************************)
EXTENDS OrderGateway

CONSTANTS
    NoOrder,        \* the id of calls that are not about an order
    Pinned,         \* the versions that AtkConfig expects: "protocol", "server"
    Misshapen,      \* environment: tools whose schema may lack what is sent
    VerdictsOnly    \* environment: a tool error on a placement is a refusal by
                    \* the exchange

\* The tool behind each capability, and the server module the tool belongs to.
ToolOf == [market |-> "market_get_ticker", balance |-> "account_get_balance",
           query |-> "spot_get_order", place |-> "spot_place_order",
           cancel |-> "spot_cancel_order"]

ModuleOf == [market |-> "market", balance |-> "account",
             query |-> "spot", place |-> "spot", cancel |-> "spot"]

Capabilities == DOMAIN ToolOf
Mutations == {"place", "cancel"}
Modules == {"market", "account", "spot"}
Tools == {ToolOf[a] : a \in Capabilities}
Versions == {"protocol", "server"}

ASSUME ClientAssumption ==
    /\ NoOrder \notin ClientIds
    /\ Pinned \subseteq Versions
    /\ Misshapen \subseteq Tools
    /\ VerdictsOnly \in BOOLEAN

VARIABLES
    config,         \* AtkConfig: demo or live, read only, and whether live is armed
    server,         \* environment: how the server's process really runs
    stage,          \* how far connect() is
    tools,          \* the tools the server listed
    capabilities,   \* what the session may do
    health,
    call,           \* the call that waits for its reply
    answer          \* what the last call returned

session == <<config, server, stage, tools, capabilities>>
vars == <<environment, session, health, call, answer>>

Configs == [demo : BOOLEAN, readOnly : BOOLEAN, armed : BOOLEAN]
Servers == [demo : BOOLEAN, readOnly : BOOLEAN, auth : BOOLEAN,
            expected : SUBSET Versions,       \* the versions that are as expected
            misshapen : SUBSET Misshapen]

Stages == {"new", "initialize", "tools", "capabilities", "open", "refused"}

NoCall == [op |-> "none", id |-> NoOrder]
NoAnswer == [op |-> "none", id |-> NoOrder, verdict |-> "none"]
Answered(op, c, verdict) == answer' = [op |-> op, id |-> c, verdict |-> verdict]

Verdicts == {"none", "Acknowledged", "Rejected", "Unknown", "PartiallyFilled", "Filled",
             "Cancelled", "failed"}

TypeOK ==
    /\ alive \in BOOLEAN
    /\ exchange \in [ClientIds -> ExchangeStates]
    /\ sent \in [ClientIds -> 0..1]
    /\ config \in Configs
    /\ server \in Servers
    /\ stage \in Stages
    /\ tools \subseteq Tools
    /\ capabilities \subseteq Capabilities
    /\ health \in {"Starting", "Ready", "Unavailable"}
    /\ call \in [op : Capabilities \cup {"none"}, id : ClientIds \cup {NoOrder}]
    /\ answer \in [op : Capabilities \cup {"none"}, id : ClientIds \cup {NoOrder},
                   verdict : Verdicts]
--------------------------------------------------------------------------------
(* connect *)

Init ==
    /\ alive \in BOOLEAN
    /\ exchange = [c \in ClientIds |-> "None"]
    /\ sent = [c \in ClientIds |-> 0]
    /\ config \in Configs
    /\ server \in Servers
    /\ stage = "new"
    /\ tools = {}
    /\ capabilities = {}
    /\ health = "Starting"
    /\ call = NoCall
    /\ answer = NoAnswer

\* AtkConfig::validate: live orders need PROOFTRADE_LIVE_ARM.
ConfigValid == ~config.demo /\ ~config.readOnly => config.armed

\* The request after which connect() goes on, or gives up.
Handshake(from, to) ==
    /\ stage = from
    /\ stage' = to
    /\ UNCHANGED <<environment, config, server, call, answer>>

Connect ==
    /\ ConfigValid
    /\ alive
    /\ Handshake("new", "initialize")
    /\ UNCHANGED <<tools, capabilities, health>>

\* What the server can say of itself: the truth, or nothing.
Reports(setting) == {{setting}, {}}

\* A version has to be reported, and be the expected one if one is expected.
VersionAccepted(which) ==
    \E report \in Reports(which \in server.expected) :
        /\ report # {}
        /\ which \in Pinned => report = {TRUE}

Initialize ==
    /\ alive
    /\ \A which \in Versions : VersionAccepted(which)
    /\ Handshake("initialize", "tools")
    /\ UNCHANGED <<tools, capabilities, health>>

\* A listed tool whose schema lacks what the client will send ends connect();
\* a tool that is not listed is missed only when it is required.
ListTools ==
    /\ alive
    /\ \E listed \in SUBSET Tools :
          /\ listed \cap server.misshapen = {}
          /\ tools' = listed
    /\ Handshake("tools", "capabilities")
    /\ UNCHANGED <<capabilities, health>>

\* Mutant: a snapshot without the demo field passes.
SettingsAccepted_DemoOptional(demo, readOnly, auth) ==
    /\ demo \subseteq {config.demo}
    /\ readOnly = {config.readOnly}
    /\ ~config.demo /\ ~config.readOnly => TRUE \in auth

\* Demo and read-only must be reported and be as configured; live orders need
\* an authenticated server.
SettingsAccepted(demo, readOnly, auth) ==
    /\ demo = {config.demo}
    /\ readOnly = {config.readOnly}
    /\ ~config.demo /\ ~config.readOnly => TRUE \in auth

\* What the listed tools and the enabled modules add up to.
Granted(enabled) ==
    {a \in Capabilities :
        /\ ToolOf[a] \in tools
        /\ ModuleOf[a] \in enabled
        /\ a \in Mutations => ~config.readOnly}

Required == IF config.readOnly THEN Capabilities \ Mutations ELSE Capabilities

GetCapabilities ==
    /\ alive
    /\ \E demo \in Reports(server.demo), readOnly \in Reports(server.readOnly),
          auth \in Reports(server.auth), enabled \in SUBSET Modules :
          /\ SettingsAccepted(demo, readOnly, auth)
          /\ Required \subseteq Granted(enabled)
          /\ capabilities' = Granted(enabled)
    /\ health' = "Ready"
    /\ Handshake("capabilities", "open")
    /\ UNCHANGED tools

\* Any check that fails (another site, which the server need not report, is one
\* more), or a request that is not answered, ends connect() with an error; there
\* is no client then.
ConnectFails ==
    /\ \E from \in {"new", "initialize", "tools", "capabilities"} : Handshake(from, "refused")
    /\ health' = "Unavailable"
    /\ UNCHANGED <<tools, capabilities>>
--------------------------------------------------------------------------------
(* Calls: the guard (ensure_read, ensure_mutation) *)

Idle == stage = "open" /\ call = NoCall

Permitted(a) == alive /\ health = "Ready" /\ a \in capabilities

\* ensure_available looks at the process first: a dead one makes the client
\* unavailable for good.
Refused(a) ==
    /\ ~Permitted(a)
    /\ health' = IF alive THEN health ELSE "Unavailable"

\* A request goes out and the call waits.
Send(a, c) ==
    /\ Idle
    /\ Permitted(a)
    /\ call' = [op |-> a, id |-> c]
    /\ UNCHANGED <<session, alive, health, answer>>

\* The guard turns the call away, with the given result.
Refuse(a, c, verdict) ==
    /\ Idle
    /\ Refused(a)
    /\ Answered(a, c, verdict)
    /\ UNCHANGED <<environment, session, call>>

Waiting(a, c) == call = [op |-> a, id |-> c]

\* The waiting call returns; health is not touched, whatever the reply was.
Return(a, c, verdict) ==
    /\ call' = NoCall
    /\ Answered(a, c, verdict)
    /\ UNCHANGED <<environment, session, health>>
--------------------------------------------------------------------------------
(* Replies *)

\* How a request ends: with a result, or in one of the ways transport and
\* request_rpc_with_timeout call an error.
Frames == {"result", "timeout", "exited", "malformed", "version", "rpc error", "no result"}

\* What the client looks at: whether the result parses, whether the tool says it
\* failed (isError, or ok = false), whether there is a record with the ids, and
\* the record's say on the order.
Reply(says) ==
    [frame : Frames, readable : BOOLEAN, toolError : BOOLEAN, record : BOOLEAN,
     clOrdId : BOOLEAN, ordId : BOOLEAN, says : says]

\* Only a running process can be heard.
Heard(reply) == reply.frame \in {"timeout", "exited"} \/ alive

\* call_tool_result: what is no result or does not parse is an error, and only
\* then is the tool asked whether it failed.
ToolResult(reply) ==
    IF reply.frame # "result" \/ ~reply.readable THEN "error"
    ELSE IF reply.toolError THEN "rejection" ELSE "payload"

HasRecord(reply) == ToolResult(reply) = "payload" /\ reply.record
--------------------------------------------------------------------------------
(* place_spot_order *)

\* Mutant: the placement is tried again while it waits for its answer.
PlaceOrder_Retried(c) ==
    \/ sent[c] = 0 /\ Send("place", c) /\ Transmitted(c)
    \/ Waiting("place", c) /\ sent[c] = 1 /\ Transmitted(c)
       /\ UNCHANGED <<session, alive, health, call, answer>>

PlaceOrder(c) ==
    /\ sent[c] = 0
    /\ Send("place", c)
    /\ Transmitted(c)

\* The write fails: nothing reaches the exchange.
PlaceWriteFails(c) ==
    /\ Idle
    /\ Permitted("place")
    /\ alive' = FALSE
    /\ Answered("place", c, "Unknown")
    /\ UNCHANGED <<exchange, sent, session, health, call>>

PlaceRefused(c) == Refuse("place", c, "Unknown")

\* sCode is "0" or not.
OrderReplies == Reply({"accepted", "refused"})

\* A server that shows a record tells what the exchange did with the order.
PlacementTrue(reply, c) ==
    /\ Heard(reply)
    /\ ToolResult(reply) = "rejection" /\ VerdictsOnly => exchange[c] = "Rejected"
    /\ HasRecord(reply) =>
          IF reply.says = "accepted" THEN Accepted(c) ELSE exchange[c] = "Rejected"

\* Mutant: a reply that cannot be used is taken for a rejection.
Placement_Guessed(reply) ==
    IF ToolResult(reply) # "payload" \/ ~reply.record THEN "Rejected"
    ELSE IF reply.says = "refused" THEN "Rejected" ELSE "Acknowledged"

\* parse_placement: a refusal needs the client's id, an acceptance the
\* exchange's id too; without them, and without a record, the fate is Unknown.
\* A tool error is a rejection.
Placement(reply) ==
    IF ToolResult(reply) = "error" THEN "Unknown"
    ELSE IF ToolResult(reply) = "rejection" THEN "Rejected"
    ELSE IF ~reply.record \/ ~reply.clOrdId THEN "Unknown"
    ELSE IF reply.says = "refused" THEN "Rejected"
    ELSE IF ~reply.ordId THEN "Unknown" ELSE "Acknowledged"

PlaceReturns(c) ==
    /\ Waiting("place", c)
    /\ \E verdict \in {Placement(reply) : reply \in {r \in OrderReplies : PlacementTrue(r, c)}} :
          Return("place", c, verdict)
--------------------------------------------------------------------------------
(* query_order *)

QueryOrder(c) == Send("query", c) /\ UNCHANGED <<exchange, sent>>

QueryRefused(c) == Refuse("query", c, "failed")

\* OrderStatus::from_exchange and the gateway's translation of it.
StatusOf == [live |-> "Acknowledged", partially_filled |-> "PartiallyFilled",
             filled |-> "Filled", canceled |-> "Cancelled", mmp_canceled |-> "Cancelled",
             order_failed |-> "Rejected", other |-> "Unknown"]

\* The words the exchange has for a state.
WordsFor == [Open |-> {"live"}, PartiallyFilled |-> {"partially_filled"}, Filled |-> {"filled"},
             Cancelled |-> {"canceled", "mmp_canceled"}, Rejected |-> {"order_failed"}]

\* The state's word, or "" for a state or number that is absent or unreadable.
StatusReplies == Reply(DOMAIN StatusOf \cup {""})

StatusTrue(reply, c) ==
    /\ Heard(reply)
    /\ HasRecord(reply) =>
          /\ exchange[c] \in DOMAIN WordsFor
          /\ reply.says \in WordsFor[exchange[c]] \cup {"other", ""}

\* parse_order_status: the client's id is not looked at.
Status(reply) ==
    IF ~HasRecord(reply) \/ ~reply.ordId \/ reply.says = "" THEN "failed"
    ELSE StatusOf[reply.says]

QueryReturns(c) ==
    /\ Waiting("query", c)
    /\ \E verdict \in {Status(reply) : reply \in {r \in StatusReplies : StatusTrue(r, c)}} :
          Return("query", c, verdict)
--------------------------------------------------------------------------------
(* cancel_order *)

CancelOrder(c) == Send("cancel", c) /\ UNCHANGED <<exchange, sent>>

CancelRefused(c) == Refuse("cancel", c, "Unknown")

CancellationTrue(reply, c) ==
    /\ Heard(reply)
    /\ HasRecord(reply) /\ reply.says = "accepted" => OnBook(c)

\* parse_cancellation: as a placement, but the client's id may be missing.
Cancellation(reply) ==
    IF ToolResult(reply) = "error" THEN "Unknown"
    ELSE IF ToolResult(reply) = "rejection" THEN "Rejected"
    ELSE IF ~reply.record THEN "Unknown"
    ELSE IF reply.says = "refused" THEN "Rejected"
    ELSE IF ~reply.ordId THEN "Unknown" ELSE "Acknowledged"

CancelReturns(c) ==
    /\ Waiting("cancel", c)
    /\ \E verdict \in {Cancellation(reply) :
                          reply \in {r \in OrderReplies : CancellationTrue(r, c)}} :
          Return("cancel", c, verdict)
--------------------------------------------------------------------------------
(* market_ticker, account_balance, shutdown *)

\* What these two read is not followed.
Read(a) == Send(a, NoOrder) /\ UNCHANGED <<exchange, sent>>

ReadRefused(a) ==
    /\ Idle
    /\ Refused(a)
    /\ UNCHANGED <<environment, session, call, answer>>

ReadReturns(a) ==
    /\ Waiting(a, NoOrder)
    /\ call' = NoCall
    /\ UNCHANGED <<environment, session, health, answer>>

\* shutdown: the transport's failure leaves the health as it is.
Shutdown ==
    /\ Idle
    /\ alive' = FALSE
    /\ health' \in {health, "Unavailable"}
    /\ UNCHANGED <<exchange, sent, session, call, answer>>
--------------------------------------------------------------------------------
(* The world *)

ProcessDies ==
    /\ alive
    /\ alive' = FALSE
    /\ UNCHANGED <<exchange, sent, session, health, call, answer>>

World(c) ==
    /\ Arrives(c) \/ Progresses(c)
    /\ UNCHANGED <<session, health, call, answer>>

Next ==
    \/ Connect
    \/ Initialize
    \/ ListTools
    \/ GetCapabilities
    \/ ConnectFails
    \/ \E c \in ClientIds :
          \/ PlaceOrder(c)
          \/ PlaceWriteFails(c)
          \/ PlaceRefused(c)
          \/ PlaceReturns(c)
          \/ QueryOrder(c)
          \/ QueryRefused(c)
          \/ QueryReturns(c)
          \/ CancelOrder(c)
          \/ CancelRefused(c)
          \/ CancelReturns(c)
          \/ World(c)
    \/ \E a \in {"market", "balance"} : Read(a) \/ ReadRefused(a) \/ ReadReturns(a)
    \/ Shutdown
    \/ ProcessDies

Spec == Init /\ [][Next]_vars
--------------------------------------------------------------------------------
\* is_available: the client is ready and may do everything.
IsAvailable == health = "Ready" /\ capabilities = Capabilities

\* The client is an execution gateway: seen through is_available and the answers
\* of place, query and cancel, each of its steps is one the contract allows.
Contract == INSTANCE GatewayContract WITH
                opened <- stage = "open",
                ready <- IsAvailable,
                placing <- IF call.op = "place" THEN call.id ELSE NoOrder

ImplementsContract == Contract!Spec

\* No order leaves through a server that runs in another mode or version than
\* configured: a demo order never goes live or the reverse, a read-only server
\* is never asked, and live orders were armed and the server authenticated
\* (validate, startup and ensure_mutation together).
OnlyVerifiedSessionsTrade ==
    (\E c \in ClientIds : sent[c] > 0) =>
        /\ server.demo = config.demo
        /\ ~config.readOnly /\ ~server.readOnly
        /\ ~config.demo => config.armed /\ server.auth
        /\ Pinned \subseteq server.expected

\* README.md:405, "an ATK timeout or ambiguous response becomes `UNKNOWN`": a
\* placement is reported Rejected only if the exchange rejected it.
RejectionsAreVerdicts ==
    answer.op = "place" /\ answer.verdict = "Rejected" => exchange[answer.id] = "Rejected"
================================================================================
