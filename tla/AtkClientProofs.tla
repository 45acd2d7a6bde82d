---------------------------- MODULE AtkClientProofs ----------------------------
(***************************************************************************)
(* Proofs about AtkClient, for any client order ids, pinned versions and   *)
(* servers: that only a verified session trades, and that the client is    *)
(* the gateway that GatewayContract promises, provided a tool error is a   *)
(* verdict of the exchange (VerdictsOnly).                                 *)
(*                                                                         *)
(* Both rest on Session: what each stage of connect has established, and   *)
(* that a call in progress was permitted and still is.                     *)
(***************************************************************************)
EXTENDS AtkClient, TLAPS

\* What a stage of connect has established of configuration and server.
ArmedIfLive == stage \in {"initialize", "tools", "capabilities", "open"} => ConfigValid

VersionsPinned == stage \in {"tools", "capabilities", "open"} => Pinned \subseteq server.expected

SettingsVerified ==
    stage = "open" =>
        /\ server.demo = config.demo
        /\ server.readOnly = config.readOnly
        /\ ~config.demo /\ ~config.readOnly => server.auth

CapabilitiesSuffice ==
    stage = "open" =>
        /\ Required \subseteq capabilities
        /\ config.readOnly => capabilities \cap Mutations = {}

\* Before the session is open nothing may be done, and nothing was.
NothingEarly ==
    stage # "open" => health # "Ready" /\ call = NoCall /\ \A c \in ClientIds : sent[c] = 0

\* A call in progress was permitted, and only a call changes that.
CallIsPermitted ==
    call # NoCall =>
        /\ health = "Ready"
        /\ call.op \in capabilities
        /\ call.op \in {"place", "query", "cancel"} => call.id \in ClientIds

PlacementsArePermitted == (\E c \in ClientIds : sent[c] > 0) => "place" \in capabilities

Session ==
    /\ ArmedIfLive
    /\ VersionsPinned
    /\ SettingsVerified
    /\ CapabilitiesSuffice
    /\ NothingEarly
    /\ CallIsPermitted
    /\ PlacementsArePermitted
--------------------------------------------------------------------------------
(* Types *)

USE DEF environment, session

LEMMA InitTyped == Init => TypeOK
  BY ClientAssumption
  DEF Init, TypeOK, ExchangeStates, Stages, NoCall, NoAnswer, Verdicts

\* What a placement, a query and a cancel can return is a verdict.
LEMMA VerdictsTyped ==
    /\ \A reply \in OrderReplies : Placement(reply) \in Verdicts /\ Cancellation(reply) \in Verdicts
    /\ \A reply \in StatusReplies : Status(reply) \in Verdicts
<1>1. \A reply \in OrderReplies : Placement(reply) \in Verdicts /\ Cancellation(reply) \in Verdicts
  BY DEF Placement, Cancellation, Verdicts
<1>2. ASSUME NEW reply \in StatusReplies PROVE Status(reply) \in Verdicts
  <2>1. reply.says \in DOMAIN StatusOf \cup {""}
    BY DEF StatusReplies, Reply
  <2>2. \A word \in DOMAIN StatusOf : StatusOf[word] \in Verdicts
    BY DEF StatusOf, Verdicts
  <2>3. QED
    BY <2>1, <2>2 DEF Status, Verdicts
<1>3. QED
  BY <1>1, <1>2

LEMMA AnswerTyped ==
    ASSUME NEW a \in Capabilities, NEW c \in ClientIds, NEW verdict \in Verdicts,
           Answered(a, c, verdict)
    PROVE  answer' \in [op : Capabilities \cup {"none"}, id : ClientIds \cup {NoOrder},
                        verdict : Verdicts]
  BY DEF Answered

LEMMA TypedStep == TypeOK /\ [Next]_vars => TypeOK'
<1> SUFFICES ASSUME TypeOK, [Next]_vars PROVE TypeOK'
  OBVIOUS
<1>0. /\ {"place", "query", "cancel", "market", "balance"} \subseteq Capabilities
      /\ {"none", "Acknowledged", "Rejected", "Unknown", "failed"} \subseteq Verdicts
  BY DEF Capabilities, ToolOf, Verdicts
<1>1. CASE Connect \/ Initialize \/ ConnectFails
  BY <1>1 DEF Connect, Initialize, ConnectFails, Handshake, TypeOK, Stages
<1>2. CASE ListTools
  BY <1>2 DEF ListTools, Handshake, TypeOK, Stages
<1>3. CASE GetCapabilities
  BY <1>3 DEF GetCapabilities, Handshake, Granted, TypeOK, Stages
<1>4. ASSUME NEW c \in ClientIds, PlaceOrder(c) PROVE TypeOK'
  <2>1. sent' \in [ClientIds -> 0..1] /\ exchange' \in [ClientIds -> ExchangeStates]
    BY <1>4 DEF PlaceOrder, Transmitted, TypeOK, ExchangeStates
  <2>2. QED
    BY <1>0, <1>4, <2>1 DEF PlaceOrder, Send, TypeOK
<1>5. ASSUME NEW c \in ClientIds, QueryOrder(c) \/ CancelOrder(c) PROVE TypeOK'
  BY <1>0, <1>5 DEF QueryOrder, CancelOrder, Send, TypeOK
<1>6. ASSUME NEW c \in ClientIds, PlaceWriteFails(c) PROVE TypeOK'
  BY <1>0, <1>6, AnswerTyped DEF PlaceWriteFails, TypeOK
<1>7. ASSUME NEW c \in ClientIds, PlaceRefused(c) \/ QueryRefused(c) \/ CancelRefused(c)
      PROVE  TypeOK'
  BY <1>0, <1>7, AnswerTyped DEF PlaceRefused, QueryRefused, CancelRefused, Refuse, Refused, TypeOK
<1>8. ASSUME NEW c \in ClientIds, PlaceReturns(c) \/ QueryReturns(c) \/ CancelReturns(c)
      PROVE  TypeOK'
  <2>1. PICK a \in {"place", "query", "cancel"}, verdict \in Verdicts : Return(a, c, verdict)
    BY <1>8, VerdictsTyped DEF PlaceReturns, QueryReturns, CancelReturns
  <2>2. answer' \in [op : Capabilities \cup {"none"}, id : ClientIds \cup {NoOrder},
                     verdict : Verdicts]
    BY <1>0, <2>1, AnswerTyped DEF Return
  <2>3. QED
    BY <2>1, <2>2 DEF Return, NoCall, TypeOK
<1>9. ASSUME NEW a \in {"market", "balance"}, Read(a) \/ ReadRefused(a) \/ ReadReturns(a)
      PROVE  TypeOK'
  BY <1>0, <1>9 DEF Read, Send, ReadRefused, Refused, ReadReturns, NoCall, TypeOK
<1>10. ASSUME NEW c \in ClientIds, World(c) PROVE TypeOK'
  BY <1>10 DEF World, Arrives, Progresses, ExchangeStates, TypeOK
<1>11. CASE Shutdown \/ ProcessDies
  BY <1>11 DEF Shutdown, ProcessDies, TypeOK
<1>12. CASE UNCHANGED vars
  BY <1>12 DEF vars, TypeOK
<1>13. QED
  BY <1>1, <1>2, <1>3, <1>4, <1>5, <1>6, <1>7, <1>8, <1>9, <1>10, <1>11, <1>12 DEF Next

\* Every state of the client has its type; no client order id is sent twice.
THEOREM TypeCorrect == Spec => []TypeOK
  BY InitTyped, TypedStep, PTL DEF Spec
--------------------------------------------------------------------------------
(* The session *)

LEMMA InitSession == Init => Session
  BY ClientAssumption
  DEF Init, Session, ArmedIfLive, VersionsPinned, SettingsVerified, CapabilitiesSuffice,
      NothingEarly, CallIsPermitted, PlacementsArePermitted, NoCall

\* A setting that was reported, and not found otherwise, is as expected.
LEMMA ReportIsTrue ==
    ASSUME NEW setting, NEW expected, NEW report \in Reports(setting), expected \in report
    PROVE  setting = expected
  BY DEF Reports

\* A pinned version that was accepted is the expected one.
LEMMA AcceptedIsExpected ==
    ASSUME NEW which \in Pinned, VersionAccepted(which)
    PROVE  which \in server.expected
<1>1. PICK report \in Reports(which \in server.expected) : report = {TRUE}
  BY DEF VersionAccepted
<1>2. (which \in server.expected) = TRUE
  BY <1>1, ReportIsTrue
<1>3. QED
  BY <1>2

\* The checks of connect, one stage after the other.
LEMMA HandshakeStep ==
    ASSUME TypeOK, Session, Connect \/ Initialize \/ ListTools \/ GetCapabilities \/ ConnectFails
    PROVE  Session'
<1>1. /\ stage # "open"
      /\ UNCHANGED <<environment, config, server, call>>
      /\ call = NoCall
      /\ \A c \in ClientIds : sent[c] = 0
  BY DEF Connect, Initialize, ListTools, GetCapabilities, ConnectFails, Handshake, Session,
         NothingEarly
<1>2. ArmedIfLive' /\ VersionsPinned'
  <2>1. ArmedIfLive'
    BY <1>1
    DEF Connect, Initialize, ListTools, GetCapabilities, ConnectFails, Handshake, Session,
        ArmedIfLive, ConfigValid
  <2>2. CASE Initialize
    BY <1>1, <2>1, <2>2, AcceptedIsExpected, ClientAssumption DEF Initialize, VersionsPinned
  <2>3. CASE Connect \/ ListTools \/ GetCapabilities \/ ConnectFails
    BY <1>1, <2>1, <2>3
    DEF Connect, ListTools, GetCapabilities, ConnectFails, Handshake, Session, VersionsPinned
  <2>4. QED
    BY <2>1, <2>2, <2>3
<1>3. CASE GetCapabilities
  <2>1. PICK demo \in Reports(server.demo), readOnly \in Reports(server.readOnly),
             auth \in Reports(server.auth), enabled \in SUBSET Modules :
           /\ SettingsAccepted(demo, readOnly, auth)
           /\ Required \subseteq Granted(enabled)
           /\ capabilities' = Granted(enabled)
    BY <1>3 DEF GetCapabilities
  <2>2. SettingsVerified'
    <3>1. /\ config.demo \in demo
          /\ config.readOnly \in readOnly
          /\ ~config.demo /\ ~config.readOnly => TRUE \in auth
      BY <2>1 DEF SettingsAccepted
    <3>2. /\ server.demo = config.demo
          /\ server.readOnly = config.readOnly
          /\ ~config.demo /\ ~config.readOnly => server.auth = TRUE
      <4>1. server.demo = config.demo
        BY <3>1, ReportIsTrue
      <4>2. server.readOnly = config.readOnly
        BY <3>1, ReportIsTrue
      <4>3. ASSUME TRUE \in auth PROVE server.auth = TRUE
        BY <4>3, ReportIsTrue
      <4>4. QED
        BY <3>1, <4>1, <4>2, <4>3
    <3>3. QED
      BY <1>1, <3>2 DEF SettingsVerified
  <2>3. CapabilitiesSuffice'
    BY <1>1, <2>1 DEF Granted, Required, CapabilitiesSuffice
  <2>4. NothingEarly' /\ CallIsPermitted' /\ PlacementsArePermitted'
    BY <1>1, <1>3
    DEF GetCapabilities, Handshake, NothingEarly, CallIsPermitted, PlacementsArePermitted, TypeOK
  <2>5. QED
    BY <1>2, <2>2, <2>3, <2>4 DEF Session
<1>4. CASE Connect \/ Initialize \/ ListTools \/ ConnectFails
  <2>1. stage' # "open" /\ health' # "Ready"
    BY <1>1, <1>4
    DEF Connect, Initialize, ListTools, ConnectFails, Handshake, Session, NothingEarly
  <2>2. QED
    BY <1>1, <1>2, <2>1
    DEF Session, SettingsVerified, CapabilitiesSuffice, NothingEarly, CallIsPermitted,
        PlacementsArePermitted, TypeOK
<1>5. QED
  BY <1>3, <1>4

\* An open session goes on as it is: only calls begin and end in it.
LEMMA OpenStep ==
    ASSUME Session, stage = "open", UNCHANGED session, CallIsPermitted',
           PlacementsArePermitted'
    PROVE  Session'
  BY DEF Session, ArmedIfLive, VersionsPinned, SettingsVerified, CapabilitiesSuffice, NothingEarly,
         ConfigValid, Required

LEMMA SessionStep == TypeOK /\ Session /\ [Next]_vars => Session'
<1> SUFFICES ASSUME TypeOK, Session, [Next]_vars PROVE Session'
  OBVIOUS
<1>1. CASE Connect \/ Initialize \/ ListTools \/ GetCapabilities \/ ConnectFails
  BY <1>1, HandshakeStep
<1>2. ASSUME NEW c \in ClientIds, PlaceOrder(c) PROVE Session'
  <2>1. stage = "open" /\ UNCHANGED session /\ CallIsPermitted'
    BY <1>2 DEF PlaceOrder, Send, Idle, Permitted, CallIsPermitted
  <2>2. PlacementsArePermitted'
    BY <1>2 DEF PlaceOrder, Send, Permitted, PlacementsArePermitted
  <2>3. QED
    BY <2>1, <2>2, OpenStep
<1>3. ASSUME NEW c \in ClientIds, QueryOrder(c) \/ CancelOrder(c) PROVE Session'
  <2>1. stage = "open" /\ UNCHANGED session /\ CallIsPermitted' /\ UNCHANGED sent
    BY <1>3 DEF QueryOrder, CancelOrder, Send, Idle, Permitted, CallIsPermitted
  <2>2. QED
    BY <2>1, OpenStep DEF Session, PlacementsArePermitted
<1>4. ASSUME NEW a \in {"market", "balance"}, Read(a) PROVE Session'
  <2>1. stage = "open" /\ UNCHANGED session /\ CallIsPermitted' /\ UNCHANGED sent
    BY <1>4 DEF Read, Send, Idle, Permitted, CallIsPermitted
  <2>2. QED
    BY <2>1, OpenStep DEF Session, PlacementsArePermitted
\* The calls that are turned away, or fail, leave no call; the others that end
\* leave the session as it was.
<1>5. ASSUME stage = "open", UNCHANGED <<session, sent>>, call' = NoCall PROVE Session'
  BY <1>5, OpenStep DEF Session, CallIsPermitted, PlacementsArePermitted
<1>6. ASSUME NEW c \in ClientIds,
             \/ PlaceWriteFails(c) \/ PlaceRefused(c) \/ QueryRefused(c) \/ CancelRefused(c)
             \/ PlaceReturns(c) \/ QueryReturns(c) \/ CancelReturns(c)
      PROVE  Session'
  <2>1. stage = "open"
    BY <1>6
    DEF PlaceWriteFails, PlaceRefused, QueryRefused, CancelRefused, Refuse, Idle, PlaceReturns,
        QueryReturns, CancelReturns, Waiting, Session, NothingEarly, NoCall
  <2>2. UNCHANGED <<session, sent>> /\ call' = NoCall
    BY <1>6
    DEF PlaceWriteFails, PlaceRefused, QueryRefused, CancelRefused, Refuse, Idle, PlaceReturns,
        QueryReturns, CancelReturns, Return
  <2>3. QED
    BY <1>5, <2>1, <2>2
<1>7. ASSUME NEW a \in {"market", "balance"}, ReadRefused(a) \/ ReadReturns(a) PROVE Session'
  <2>1. stage = "open" /\ UNCHANGED <<session, sent>> /\ call' = NoCall
    BY <1>7 DEF ReadRefused, ReadReturns, Idle, Waiting, Session, NothingEarly, NoCall
  <2>2. QED
    BY <1>5, <2>1
<1>8. CASE Shutdown
  BY <1>5, <1>8 DEF Shutdown, Idle
<1>9. CASE UNCHANGED <<session, sent, health, call>>
  BY <1>9
  DEF Session, ArmedIfLive, VersionsPinned, SettingsVerified, CapabilitiesSuffice, NothingEarly,
      ConfigValid, Required, CallIsPermitted, PlacementsArePermitted
<1>10. QED
  BY <1>1, <1>2, <1>3, <1>4, <1>6, <1>7, <1>8, <1>9
  DEF Next, vars, ProcessDies, World, Arrives, Progresses

THEOREM SessionInvariant == Spec => []Session
  BY InitSession, SessionStep, TypeCorrect, PTL DEF Spec

\* Placing takes a session that is open and not read only, and there every
\* capability is granted.
LEMMA MutationsNeedEverything ==
    ASSUME TypeOK, Session, stage = "open", capabilities \cap Mutations # {}
    PROVE  ~config.readOnly /\ capabilities = Capabilities
  BY DEF Session, CapabilitiesSuffice, Required, TypeOK, Configs

LEMMA SessionVerifies == TypeOK /\ Session => OnlyVerifiedSessionsTrade
<1> SUFFICES ASSUME TypeOK, Session, NEW c \in ClientIds, sent[c] > 0
             PROVE  /\ server.demo = config.demo
                    /\ ~config.readOnly /\ ~server.readOnly
                    /\ ~config.demo => config.armed /\ server.auth
                    /\ Pinned \subseteq server.expected
  BY DEF OnlyVerifiedSessionsTrade
<1>1. stage = "open"
  BY DEF Session, NothingEarly
<1>2. "place" \in capabilities \cap Mutations
  BY DEF Session, PlacementsArePermitted, Mutations
<1>3. ~config.readOnly
  BY <1>1, <1>2, MutationsNeedEverything
<1>4. QED
  BY <1>1, <1>3
  DEF Session, ArmedIfLive, ConfigValid, VersionsPinned, SettingsVerified, TypeOK, Servers, Configs

\* No order leaves through a server that runs otherwise than configured.
THEOREM OnlyVerifiedTrade == Spec => []OnlyVerifiedSessionsTrade
  BY SessionInvariant, SessionVerifies, TypeCorrect, PTL
--------------------------------------------------------------------------------
(* The contract *)

LEMMA InitContract == Init => Contract!Init
  BY DEF Init, Contract!Init, IsAvailable, NoCall, NoAnswer, Contract!NoAnswer

\* With a verdict behind every tool error, a placement's answer is one that the
\* contract allows, and an answer that says anything came from a live process.
LEMMA PlacementAllowed ==
    ASSUME TypeOK, VerdictsOnly, NEW c \in ClientIds, NEW reply \in OrderReplies,
           PlacementTrue(reply, c)
    PROVE  Placement(reply) \in Contract!Placements(c)
  BY DEF PlacementTrue, Placement, ToolResult, HasRecord, Heard, OrderReplies, Reply,
         Contract!Placements, Accepted, Contract!Accepted

\* The translation of a state's word gives the state back.
LEMMA WordsMeanStates ==
    \A x \in DOMAIN WordsFor : \A word \in WordsFor[x] :
        StatusOf[word] = IF x = "Open" THEN "Acknowledged" ELSE x
<1>1. DOMAIN WordsFor = {"Open", "PartiallyFilled", "Filled", "Cancelled", "Rejected"}
  BY DEF WordsFor
<1>2. WordsFor["Open"] = {"live"} /\ StatusOf["live"] = "Acknowledged"
  BY DEF WordsFor, StatusOf
<1>3. /\ WordsFor["PartiallyFilled"] = {"partially_filled"}
      /\ StatusOf["partially_filled"] = "PartiallyFilled"
  BY DEF WordsFor, StatusOf
<1>4. WordsFor["Filled"] = {"filled"} /\ StatusOf["filled"] = "Filled"
  BY DEF WordsFor, StatusOf
<1>5. /\ WordsFor["Cancelled"] = {"canceled", "mmp_canceled"}
      /\ StatusOf["canceled"] = "Cancelled" /\ StatusOf["mmp_canceled"] = "Cancelled"
  BY DEF WordsFor, StatusOf
<1>6. WordsFor["Rejected"] = {"order_failed"} /\ StatusOf["order_failed"] = "Rejected"
  BY DEF WordsFor, StatusOf
<1>7. QED
  BY ONLY <1>1, <1>2, <1>3, <1>4, <1>5, <1>6

LEMMA StatusAllowed ==
    ASSUME TypeOK, NEW c \in ClientIds, NEW reply \in StatusReplies, StatusTrue(reply, c)
    PROVE  Status(reply) \in Contract!Answers(c) \cup {"failed"}
<1> SUFFICES ASSUME HasRecord(reply), reply.ordId, reply.says # ""
             PROVE  StatusOf[reply.says] \in Contract!Answers(c)
  BY DEF Status
<1>1. alive /\ exchange[c] \in DOMAIN WordsFor /\ reply.says \in WordsFor[exchange[c]] \cup {"other"}
  BY DEF StatusTrue, HasRecord, ToolResult, Heard
<1>2. ASSUME reply.says \in WordsFor[exchange[c]]
      PROVE  StatusOf[reply.says] = Contract!GatewayState(exchange[c])
  <2>1. StatusOf[reply.says] = IF exchange[c] = "Open" THEN "Acknowledged" ELSE exchange[c]
    BY ONLY <1>1, <1>2, WordsMeanStates
  <2>2. QED
    BY <2>1 DEF Contract!GatewayState
<1>3. StatusOf["other"] = "Unknown"
  BY DEF StatusOf
<1>4. StatusOf[reply.says] \in {Contract!GatewayState(exchange[c]), "Unknown"}
  BY <1>1, <1>2, <1>3
<1>5. exchange[c] \notin {"None", "InFlight"}
  BY <1>1 DEF WordsFor
<1>6. QED
  BY <1>1, <1>4, <1>5 DEF Contract!Answers

LEMMA ContractStep ==
    ASSUME VerdictsOnly, TypeOK, Session, [Next]_vars
    PROVE  Contract!Next \/ UNCHANGED Contract!vars
<1> DEFINE placing == IF call.op = "place" THEN call.id ELSE NoOrder
<1>1. CASE Connect \/ Initialize \/ ListTools \/ ConnectFails
  <2>1. stage # "open" /\ stage' # "open" /\ health # "Ready" /\ health' # "Ready"
    BY <1>1
    DEF Connect, Initialize, ListTools, ConnectFails, Handshake, Session, NothingEarly
  <2>2. UNCHANGED <<environment, call, answer>>
    BY <1>1 DEF Connect, Initialize, ListTools, ConnectFails, Handshake
  <2>3. QED
    BY <2>1, <2>2 DEF Contract!vars, Contract!environment, IsAvailable
<1>2. CASE GetCapabilities
  BY <1>2
  DEF GetCapabilities, Handshake, Contract!Next, Contract!Open, Contract!environment, IsAvailable
<1>3. ASSUME NEW c \in ClientIds, PlaceOrder(c) PROVE Contract!PlaceSent(c)
  <2>1. IsAvailable
    BY <1>3, MutationsNeedEverything
    DEF PlaceOrder, Send, Idle, Permitted, IsAvailable, Mutations
  <2>2. IsAvailable'
    BY <1>3, <2>1 DEF PlaceOrder, Send, IsAvailable
  <2>3. QED
    BY <1>3, <2>1, <2>2
    DEF PlaceOrder, Send, Idle, Permitted, NoCall, Transmitted, Contract!PlaceSent, Contract!Idle,
        Contract!Transmitted
<1>4. ASSUME NEW c \in ClientIds, PlaceWriteFails(c) PROVE Contract!PlaceNotSent(c)
  BY <1>4
  DEF PlaceWriteFails, Idle, NoCall, Answered, IsAvailable, TypeOK, Contract!PlaceNotSent,
      Contract!Idle, Contract!Answered, Contract!NotReached
\* A call that is turned away did not get through.
<1>5. ASSUME NEW a, NEW c \in ClientIds, NEW verdict, Refuse(a, c, verdict)
      PROVE  /\ Contract!Idle
             /\ Contract!NotReached
             /\ Contract!Answered(a, c, verdict)
  BY <1>5
  DEF Refuse, Refused, Idle, NoCall, Answered, IsAvailable, TypeOK, Contract!Idle,
      Contract!Answered, Contract!NotReached
<1>6. ASSUME NEW c \in ClientIds, PlaceRefused(c) PROVE Contract!PlaceNotSent(c)
  BY <1>5, <1>6 DEF PlaceRefused, Contract!PlaceNotSent
<1>7. ASSUME NEW c \in ClientIds, QueryRefused(c) PROVE Contract!QueryFails(c)
  BY <1>5, <1>7 DEF QueryRefused, Contract!QueryFails
<1>8. ASSUME NEW c \in ClientIds, CancelRefused(c) PROVE Contract!CancelUnknown(c)
  BY <1>5, <1>8 DEF CancelRefused, Contract!CancelUnknown
<1>9. ASSUME NEW c \in ClientIds, PlaceReturns(c) PROVE Contract!PlaceAnswered(c)
  <2>1. PICK reply \in OrderReplies :
           PlacementTrue(reply, c) /\ Return("place", c, Placement(reply))
    BY <1>9 DEF PlaceReturns
  <2>2. Placement(reply) \in Contract!Placements(c)
    BY <2>1, PlacementAllowed
  <2>3. QED
    BY <1>9, <2>1, <2>2
    DEF PlaceReturns, Waiting, Return, NoCall, Answered, IsAvailable, Contract!PlaceAnswered,
        Contract!Answered, Contract!environment
\* A query or a cancel that returns was made in an open session.
<1>10. ASSUME NEW a \in {"query", "cancel"}, NEW c \in ClientIds, NEW verdict, Waiting(a, c),
              Return(a, c, verdict)
       PROVE  /\ Contract!Idle
              /\ Contract!Answered(a, c, verdict)
              /\ UNCHANGED <<environment, stage, health, capabilities, IsAvailable, placing>>
  BY <1>10
  DEF Waiting, Return, NoCall, Answered, IsAvailable, Session, NothingEarly, Contract!Idle,
      Contract!Answered
<1>11. ASSUME NEW c \in ClientIds, QueryReturns(c)
       PROVE  Contract!QueryAnswered(c) \/ Contract!QueryFails(c)
  <2>1. PICK reply \in StatusReplies : StatusTrue(reply, c) /\ Return("query", c, Status(reply))
    BY <1>11 DEF QueryReturns
  <2>2. Status(reply) \in Contract!Answers(c) \cup {"failed"}
    BY <2>1, StatusAllowed
  <2>3. QED
    BY <1>10, <1>11, <2>1, <2>2
    DEF QueryReturns, Contract!QueryAnswered, Contract!QueryFails, Contract!NotReached,
        Contract!environment
<1>12. ASSUME NEW c \in ClientIds, CancelReturns(c)
       PROVE  Contract!CancelAnswered(c) \/ Contract!CancelUnknown(c)
  <2>1. PICK reply \in OrderReplies :
           CancellationTrue(reply, c) /\ Return("cancel", c, Cancellation(reply))
    BY <1>12 DEF CancelReturns
  <2>2. IsAvailable
    <3>1. stage = "open" /\ health = "Ready" /\ "cancel" \in capabilities
      BY <1>12 DEF CancelReturns, Waiting, NoCall, Session, NothingEarly, CallIsPermitted
    <3>2. QED
      BY <3>1, MutationsNeedEverything DEF IsAvailable, Mutations
  <2>3. \/ Cancellation(reply) = "Unknown"
        \/ alive /\ Cancellation(reply) = "Rejected"
        \/ alive /\ OnBook(c) /\ Cancellation(reply) = "Acknowledged"
    BY <2>1 DEF CancellationTrue, Cancellation, ToolResult, HasRecord, Heard, OrderReplies, Reply
  <2>4. QED
    BY <1>10, <1>12, <2>1, <2>2, <2>3
    DEF CancelReturns, OnBook, Contract!CancelAnswered, Contract!CancelUnknown, Contract!OnBook,
        Contract!NotReached, Contract!environment
<1>13. ASSUME NEW a \in {"market", "balance", "query", "cancel"}, NEW c, Send(a, c),
              UNCHANGED <<exchange, sent>>
       PROVE  UNCHANGED Contract!vars
  BY <1>13
  DEF Send, Idle, NoCall, IsAvailable, Contract!vars, Contract!environment
<1>14. ASSUME NEW a \in {"market", "balance"}, ReadRefused(a) \/ ReadReturns(a)
       PROVE  Contract!Retires \/ UNCHANGED Contract!vars
  BY <1>14
  DEF ReadRefused, Refused, ReadReturns, Waiting, NoCall, IsAvailable, TypeOK, Contract!Retires,
      Contract!vars, Contract!environment
<1>15. CASE Shutdown
  BY <1>15
  DEF Shutdown, IsAvailable, Contract!Next, Contract!Retires, Contract!ProcessDies
<1>16. CASE ProcessDies
  BY <1>16 DEF ProcessDies, IsAvailable, Contract!Next, Contract!ProcessDies
<1>17. ASSUME NEW c \in ClientIds, World(c) PROVE Contract!World(c)
  BY <1>17
  DEF World, Arrives, Progresses, OnBook, IsAvailable, Contract!World, Contract!Arrives,
      Contract!Progresses, Contract!OnBook
<1>18. CASE UNCHANGED vars
  BY <1>18 DEF vars, IsAvailable, Contract!vars, Contract!environment
<1>19. QED
  BY <1>1, <1>2, <1>3, <1>4, <1>6, <1>7, <1>8, <1>9, <1>11, <1>12, <1>13, <1>14, <1>15, <1>16,
     <1>17, <1>18
  DEF Next, Contract!Next, QueryOrder, CancelOrder, Read

\* The client is an execution gateway, for any orders, configuration and server,
\* as long as a tool error on a placement is the exchange's verdict.
THEOREM ClientKeepsContract ==
    ASSUME VerdictsOnly
    PROVE  Spec => ImplementsContract
<1>1. TypeOK /\ Session /\ [Next]_vars => [Contract!Next]_(Contract!vars)
  BY ContractStep
<1>2. QED
  BY <1>1, InitContract, SessionInvariant, TypeCorrect, PTL
  DEF Spec, ImplementsContract, Contract!Spec
================================================================================
