# ProofTrade in TLA+

Models of the parts of ProofTrade that decide whether money is put at risk, and of the parts whose
behaviour depends on timing: the execution engine, the MCP transport to the exchange gateway, the
ATK client that speaks over it, the risk engine and the runtime that drives it, the operator's projection
and kill switch, the audit store, the simulation engine, and the decision cycle with the intelligence
service it asks. TLC checks each on a small instance; TLAPS proves every safety property of the passing runs, and
the three refinements, for every value of the constants. All definitions are read off the Rust sources under `src/src`;
`PROJECT.json` names the lines each one stands for.

## The system

ProofTrade is a spot-trading agent. A trading loop collects evidence, asks an agent (Hermes) for
proposals, turns a proposal into a decision, has the decision judged by deterministic risk rules,
plans and places an order, and records every stage for an operator who watches a dashboard and can
pull a kill switch.

| component | state | operations | what makes it right |
|---|---|---|---|
| execution engine (`execution.rs`) | receipts by execution id, `reconciliation_complete` | execute, reconcile, expire_limit, startup_reconcile, checkpoints, restore | no order twice; receipts agree with the exchange; no new risk while a BUY is in doubt |
| execution policy (`execution.rs`) | none | plan | plans are within spread and price |
| MCP transport (`atk/transport.rs`) | id counter, pending map, `alive`, child | request, notify, reader thread, shutdown | answers reach their request; nobody waits forever; the map does not leak |
| ATK client (`atk/mod.rs`) | health, tool catalogue, capabilities | connect, place, query, cancel, balances, shutdown | it trades in verified sessions only; what it says of an order is what the exchange did, or Unknown |
| risk engine (`risk.rs`) | safety store | evaluate, kill | reserve kept, killed means no BUY, exits always pass |
| runtime (`runtime.rs`) | owns risk, policy and engine | process, process_with_projection | only judged decisions are placed, and only recorded ones |
| operator projector (`operator.rs`) | model in memory, audit store | commit of some twenty events, rehydrate | memory, row and audit tell one story |
| operator controller (`operator.rs`) | safety store, projector | serve, handle_current, kill_switch | KILL takes effect, is shown and recorded |
| persistence (`persistence.rs`) | SQLite tables | open, migrate, append_event_with_projection, save_*, replay, reports | audit and tables tell one story; an open store is complete; reports find what is unresolved |
| simulation engine (`simulation.rs`) | account, orders, snapshots | execute, cancel_order, on_market_snapshot | fills explain the account, but for rounding; limits and exits hold |
| decision orchestrator (`decision.rs`) | the cycle's context; owns the research provider | run_with_observer, the Polymarket switch | research stays in budget, evidence is what a query asked for, nothing is proposed twice |
| intelligence service (`intelligence/`) | ledger of source events, lineages, health, switches | collect, collect_source, set_source_enabled | events keep their identity; a failed source adds nothing and spoils no other |
| intelligence sources (`intelligence/sources/`) | probability history | collect | what they report is dated and bounded |
| Hermes runner, agent contract, domain types, reporting, demo, command line | none that changes | decoding, validation, printing | plain functions |

How they interact. `RuntimeCoordinator` owns a `RiskEngine`, an `ExecutionPolicy` and an
`ExecutionEngine` and calls them one after the other. `ExecutionEngine` calls a gateway (`AtkClient`),
which sends requests over the shared `StdioTransport` from any thread. The safety store is an
`Arc<RwLock<..>>` shared by runtime and controller. Projectors and controllers share the model in
memory when they live in one process, and the SQLite row `current` when they do not. The orchestrator owns
an `IntelligenceService` and calls it once for each research request, after the planner and before the agent; the service
polls its adapters one after the other. The dashboard's
server is a loop of its own that handles one request at a time.

Where the difficulty is: an answer of the exchange can be late, lost or ambiguous; the gateway's
process can die in a call; the program can stop between placing an order and recording it; callers of
the transport race its reader; the kill switch races a call in progress; two processes write one row;
partial fills at different prices must add up; the ledger of evidence remembers what the calls that read it must no longer show. The `hazards` of `PROJECT.json` list these at their lines.

## The modules

**OrderGateway** is the common ground of engine and client: the exchange and the gateway's process (`exchange`,
`alive`, `sent`, environment of both), and what a gateway may truthfully say of an order (`Placements`,
`Answers`). **GatewayContract** EXTENDS it to a specification of the trait `ExecutionGateway`: one call at a time, each placement sent
once and only by a gateway that is ready, verdicts that the exchange backs, `Unknown` or an error at any time.

**OrderPromise** is the abstract order lifecycle: an order is placed at most once, and a report on it is backed by its fate at
the exchange when the report is made; a restart takes reports back to a checkpoint. No calls, no gate, no gateway.

**ExecutionEngine** (`MC_ExecutionEngine`, `ExecutionEngineProofs`) EXTENDS OrderGateway and implements OrderPromise. `records[e]` is the state of the
receipt of execution `e`, or `"Absent"`; `complete` is `reconciliation_complete`; `call` and `todo` say which
call holds the engine (`&mut self`: at most one) and whom it has still to ask about. Each gateway
request is a step of its own, because the exchange (`exchange`, `Arrive`, `Progress`) and the gateway's
process (`alive`, `ProcessDies`) move meanwhile, and because the program can stop there (`Restart`,
from the last `Checkpoint`). `ready` is what `is_available()` answers: health as last seen, so it may be TRUE while
the process is dead. Early returns are conjuncts of `Execute`, in the order of the code; of the refusals
only `ExecuteUnavailable` changes anything. Quantities and prices of receipts are left out. `sent`,
`lost`, `doubt` and `unverified` are history, read by properties, and `lost` also by `Submitted`: a plan that
a restart forgot exists nowhere any more, so nobody can submit it again. A BUY that is in doubt when a restart forgets it stays in `doubt`:
the engine has no record of it, but nobody has reported its fate either.

**McpTransport** (`McpTransportProofs`). One step per critical section: every lock of `pending` or
`stdin` and every access to the atomic `alive` is a step. `stage[t]` is where caller `t` is in `request`,
`inbox[t]` the channel it waits on, `carried` the sender the reader has taken out of the map and not
yet used; `closing[k]` is where closer `k` is in `shutdown`, and whether it found the flag up (`closed`) or down (`returned`). The child is environment: it answers what it has read, in any order and repeatedly, writes garbage,
stalls, closes its input or exits. `reader` goes through `ended`, `draining`, `done` as `start_reader` does: first
the flag, then the drain. It implements **RequestPromise**, in which there are only requests: each begins under a fresh id, reaches the
child at most once, and is told at most one outcome, its own answer (once the child has got it) or an error, before it returns.

**AtkClient** (`AtkClientProofs`) EXTENDS OrderGateway and implements GatewayContract. `stage` is how far `connect` has come; each of its
requests is a step that succeeds on what the server may list and report (`Reports`: the truth, or nothing), or
`ConnectFails`. A call of an open session is a guard (`Refuse`), a request (`Send`) and a return; between the last two the process can die and the
exchange moves. A reply is a record of the flags the code looks at, `Placement`, `Status` and `Cancellation` are the decoders, and
`PlacementTrue` and its like say what a server that does not lie can reply. `server` is how the process really runs, `config` what the client was told.
`VerdictsOnly` assumes that a tool error on a placement is a refusal by the exchange; the code takes it for one.

**RiskEngine** is `RiskEngine::evaluate` as operators on a decision and a snapshot, with sets of reasons
for the vectors of the code. Money is in whole units and a reduction in parts of the constant `Whole`.
Validation of a decision is one Boolean, its age another (`stale`).

**TradingRuntime** (`MC_TradingRuntime`, `TradingRuntimeProofs`) EXTENDS RiskEngine. A call is
`Observe` (the caller builds a snapshot), then `Process`, or `ProcessWithProjection`, `RecordRisk` and
`RecordPlan`, then `Execute` and `RecordReceipt`; any record may fail (`RecordFails`). The kill switch,
fills and reconciliations interleave. The execution engine is reduced to its receipts and gate;
an order that rests ties up its cash, as at the exchange.

**OperatorProjection** (`OperatorProjectionProofs`). Two threads, the trading loop and the dashboard's
server, commit through projectors: the same one (`console = "trader"`) when they share a process, each
its own when they share only the database. A commit is `Begin`, `Lock` (derive the next model), `Store` (one SQLite
transaction) or `StoreFails`, and `Replace`. A request is rehydrated in two steps, as the row is read and
put in place without the update lock, then viewed or turned into a KILL (`KillStore`, `KillModel`, and
`KillRecord` or `KillUnrecorded`). A model is its run, its safety state and the set of events
it has seen; what single events write into the view is left out.

**Persistence** (`MC_Persistence`, `PersistenceProofs`). Tables are functions from keys to rows, `Absent` for no row;
`audit` is the append-only table of events. Opening is `ReadVersion`, `Migrate`, `EnsureProjections`, of any number of processes, which may stop
at any point; an operation of the open store is one action, as it is one transaction, guarded by the keys it depends on. A projector call that
brings evidence is `Gather`, one `GatherSave` for each item, `GatherCommit`: these are separate transactions. `IntelligenceSnapshot` shows
observations without saving them; they are `observed` in its event. `AppendEvent` takes an event of any type and touches no table; `own` tells
the events that the store's operations write from those. `newest` is the receipt that
the reports' ORDER BY puts first. The `created_at` of a saved one is that of the plan, equal for every receipt, and that of an appended one is its caller's, so
`Latest` leaves open which of several comes first.

**SimulationEngine** (`MC_SimulationEngine`, `SimulationEngineProofs`). `execute`, `cancel_order` and `on_market_snapshot` with
everything they call. `account` is cash, profit, fees, and quantity and average entry price by instrument; fees,
slippage and fill ratio are parts of `Whole`, quantities parts of `Lot`, and every product and quotient is rounded to the nearest unit, as the
code's decimals are at their last digit (`Nearest`). A position keeps its average price as the code does: a purchase divides the cost by the quantity, a sale and the next
purchase multiply it back. Nothing runs
concurrently here, but a snapshot's round over the resting orders stops at the first error, so each order it visits is a
step (`VisitOrder`, `VisitEnds`) and the calls wait for the round to end.

**IntelligenceService** (extended by DecisionOrchestrator). An observation is its source event; `Catalog` says what
it affects, which catalyst it reports (its fingerprint) and how much it weighs. `ledger[e]` is what the
service remembers of it, `lineages` the event that opened each fingerprint's lineage. `Collected` is the whole of
`collect_internal`: poll the adapters that are asked and enabled (`AnswersOf` is what they can say), match, ingest, record health,
and read the ledger back through the query, newest first and bounded. Sources in `Live` stamp an event with the time of the reading, as
the Polymarket readers do; those in `Renaming` draw a new evidence id for each sighting, as Reddit's does.

**DecisionOrchestrator** (`MC_DecisionOrchestrator`, `DecisionOrchestratorProofs`) EXTENDS IntelligenceService. `BeginCycle` is `run_with_observer` up to the research
loop, with the refusals of a plan in `Refused`; each request is a `Research` step, in which the service always
remembers and the cycle learns unless its observer fails; `Decide` turns a batch of decisions into proposals or nothing. `CycleRefused` and
`NoDecision` are the ways to end without proposals. Before its first cycle the caller may `Collect` and build a context from
the snapshot; all proposals of earlier cycles are the prior decisions of the next. A research request carries the planner's own query, of which the
code checks the limits and the target and neither the time nor the age (`Refused`); `origin` is the query of the snapshot that the cycle's context was built from. The agent is taken to cite
evidence it was shown, which the code does not check.

Composition. DecisionOrchestrator uses IntelligenceService and TradingRuntime uses RiskEngine by EXTENDS; the proof modules EXTEND
their component. Engine and client are composed by contract: AtkClient implements `GatewayContract` under `VerdictsOnly` (without it finding 4 is what breaks) and if its owner
places no client order id twice, which is the guard `sent[c] = 0` of `PlaceOrder`; ExecutionEngine never does (`OnePlacementPerOrder`) if its gateway's
answers are those of `OrderGateway`, which AtkClient's are. The circle is sound because each side assumes of the other only what happened in earlier steps.
Both sides are refinements by INSTANCE ... WITH: `Contract` in AtkClient (`placing`, `ready` and `answer` from the call, the
health and the last verdict) and `Promise` in ExecutionEngine (`placed` from `sent`, `fate` from `exchange`, `report` from `records`).
So is `Promise` in McpTransport (`asking` from `id` and `stage`, `outcome` from `inbox`, `begun` from `nextId`).
TradingRuntime does not contain ExecutionEngine: what it assumes of the engine's gate are the guards of `Execute`, which both modules
state. Persistence and OperatorProjection divide the projector: OperatorProjection has threads, memory and the one row, Persistence the
tables and what spans several transactions.

## The runs

| run | instance | what it shows |
|---|---|---|
| `engine` | 4 plans, 2 instruments, 2 client ids shared by pairs, 3 BUYs, 2 limit orders, 1 restart; about 1.0 M states | no duplicate placement, sound gate flag, at most one market BUY in doubt of those the engine remembers, startup covers what was restored, every step one of the abstract lifecycle |
| `engine_unknown_retry` | 3 limit BUYs, no restart | violation, see findings |
| `engine_restart_gate` | 3 limit BUYs, 1 restart | violation, see findings |
| `transport` | 2 callers, 2 closers, 2 requests; 0.2 M states, with liveness | no lost waiter, no leak, every step one of the abstract requests (own answers, one outcome each); death, and a shutdown that lowers the flag itself, release every caller |
| `atk_client` | 2 orders; every configuration against every server that differs in settings, versions and tools, one version pinned, one tool possibly misshapen, `VerdictsOnly`; 0.2 M states | only verified sessions trade; the client is the gateway that the engine is written against |
| `atk_tool_error` | the same without `VerdictsOnly` | violation, see findings |
| `runtime` | 7 decisions, 4 contexts, 2 orders, cash 10, reserve 2, cap 6, 1 position allowed; 72 k states | killed calls buy nothing, exits stay open, reserve kept, records come first |
| `runtime_positions` | 2 BUY decisions | violation, see findings |
| `projection` | both topologies, 4 commits, 2 requests, 1 restart, 2 runs; 0.6 M states, with liveness | models are audited, acknowledged KILLs are shown, requests are answered |
| `persistence` | 2 processes, 3 executions of one decision with 2 client ids, 2 evidence ids of one source event, 3 appended events (receipt, fill, evidence), 4 events; 2.3 M states | an open store is complete, the store's own events and the tables agree, shown evidence was saved or observed by an intelligence snapshot, Unknown executions are reported |
| `simulation` | 3 orders from 6 requests, 4 snapshots, 2 instruments, fees, slippage, fill ratios 0, 1/2 and 1, averages that do not divide evenly; 0.3 M states | money moves by bounded rounding only, inventory and orders add up, limits kept, exits final |
| `decision` | 3 events of 3 sources (a live market, a post that is renamed, an undated report of the market's catalyst), a source without adapter, 11 plans, with the planner's clock and age limit the cycle's or not, and a plain cycle, 2 collections, 3 service calls, 2 cycles, 2 instruments; 0.6 M states | evidence is what a query of the cycle asked for, failed sources add nothing, nothing is proposed twice, catalysts count once |

The bounds. Two plans must compete for an instrument and two for a client id, and one of each pair must be a limit order;
four plans with two ids do both, and a third BUY makes a second doubt possible beside a first. The
properties of the engine compare at most two orders, and one restart already puts any checkpoint against any state of
the exchange. In the transport every race has at most two callers, the reader and two closers, of which one returns at once; two requests
are one of each caller, or two of one caller, the second begun before the answer to the first. The client has one call at a time and no verdict looks at a second order, so a second id
only serves to have one order's verdict stand while another is asked about. Two orders and one allowed position let the limits of the
risk engine bite; larger sums only repeat the same comparisons. Four commits are a run's start, an update,
a KILL and the commit that follows it. For the store, two processes are what racing migrations need, executions of one decision of which one reuses
a client id are the cases of its keys, and four events hold a decision bundle with two receipts, a receipt and a fill or an appended one, or a projection of two
sightings of one source event and the one after it; a fill that comes twice would be a fifth event and is left to the theorem. In the simulation three orders hold a resting order, a market order and the exit.
For the decision cycle two collections let the second read what the first left in the ledger after the clock has moved, a third call
lets research do the same, and two cycles are what a repetition needs; of the agent's actions Sell and Hold are enumerated, as Buy
differs from Sell only in passing the check of the position. Counters that the code leaves open (`MaxRequests`, `MaxRestarts`, `MaxCommits`,
`MaxEvents`, `MaxOrders`, `MaxReads`, `MaxCollections`, `MaxCycles`, `MaxNow`) are bounded in the guards
of the action that counts them.
Deadlock is checked for the engine, the simulation and persistence; the other instances reach their bounds, or a session that is over, and stop.

Each property has a mutant, a definition next to the one it changes and named after it
(`Reconciled_OwnRecordOnly`), which makes TLC find the property violated.

### Fairness

Only `transport` and `projection` state liveness. In McpTransport a caller that can take its next step does, and so do the
reader and each closer that has begun: they are threads of the operating system, and a lock is held for a few
instructions. No fairness is assumed of the child, of timeouts (`TimeOut` is in no fairness condition, a caller
may wait as long as it likes) or of new requests; a writer whose pipe is full is not
released by fairness either, only by the child's end or by `WriteFails`. In OperatorProjection the two threads
go on with their commit and the server with its request. A waiting commit contends with at most one other
thread for the update lock, and the bound on commits keeps the other from taking it infinitely often, which
`std::sync::Mutex` does not exclude by itself but the pauses between a trading loop's events do.

### Findings

Four statements of the repository do not hold of the code as modelled. Each is a run of its own.

1. `README.md:406`, "`UNKNOWN` must be reconciled by client order identity before retry". After `expire_limit`
   an Unknown order may be left CancelPending with its fate unknown; a reconcile of any other order then
   reopens the gate (`engine_unknown_retry`).
2. `README.md:407`, "restart reconciliation blocks new risk until exchange and local state agree". One reconcile after
   `restore`, or a startup that fails half way, reopens the gate with other orders unasked (`engine_restart_gate`).
3. `README.md:400`, "no more than three concurrent positions". Resting BUYs are not counted (`runtime_positions`).
4. `README.md:405`, "an ATK timeout or ambiguous response becomes `UNKNOWN`". A placement whose tool result is the server's own error,
   which can follow a request that reached the exchange, is reported Rejected (`atk_tool_error`).

Limits of the code met on the way that no run is about:

- A market BUY whose placement is in flight when the program stops is in no checkpoint: the engine forgets it and sends the next one while nobody has
  reported the first (`execution.rs:429`). AtMostOneMarketBuyInDoubt is of the BUYs the engine remembers.
- A call that has read the safety state places its BUY although a KILL comes before it does (`runtime.rs:76`, `operator.rs:1339`): KILL is
  for later calls.
- The stored row loses a KILL to the next commit of another process (`persistence.rs:322`; `tests/operator.rs:372` tests one process).
  A projector shared by two threads can be set back by a rehydration.
- An Unknown BUY blocks every other order on its instrument, a protective SELL included (`execution.rs:385`). A BUY by notional is converted to
  a quantity at its first price, so later partial fills can cost more.
- The policy's client order ids have 35 characters, the ATK request accepts 32 (`execution.rs:281`): with this policy every ATK placement ends Unknown
  before anything is sent.
- A transport whose write failed is never shut down: the flag is down already, the child is not killed (`transport.rs:198`), and the requests that wait for
  it have only their timeouts. ShutdownReleasesCallers is of the shutdowns that lower the flag themselves.
- A position's average price is rounded to the last digit of a decimal and multiplied back (`simulation.rs:611`, `:647`): cash, cost and profit drift apart by the rounding of
  each purchase and each partial sale. OnlyRoundingMovesMoney bounds the drift of a step, not of a history.
- A planner's query has a time of its own and may have no age limit; only its limits and its target are checked (`decision.rs:664`). What joins a context is what such a query
  asked for, be it old, or of the cycle's future (EvidenceWasAskedFor).
- `append_event` stores an event of any type (`persistence.rs:277`), and the counts and fees of `report` are over all events: an appended receipt or fill counts and has no row, as
  `tests/persistence.rs:190` expects. AuditMatchesTables is of the events that the store's own operations write.
- `intelligence_snapshot` shows observations without saving them as evidence (`operator.rs:474`); ShownEvidenceIsSaved names it as the exception.
- Of several receipts of a plan the reports show a random one (`persistence.rs:688`), and an operator's update of an execution is an event of a
  type that they do not read (`operator.rs:795`). A run that starts while a KILL waits has its first row stored under the older run (`operator.rs:1291`).
- Of two processes that open a new file at once, one can get an error; it may try again.
- A round over resting orders takes an order out of the map before it asks whether it can be filled; an overflow in that question loses the
  order (`simulation.rs:891`). Overflow is not modelled.
- A Polymarket reading is stamped when it arrives, later than the `as_of` of its query, and dropped (`intelligence/query.rs:74`).
- The ledger is empty after a restart, so a post then gets a new evidence id and a decision on it can be repeated; a source that no
  adapter is registered for answers research with nothing and is reported Healthy.

## What is proved

`tlapm` checks the proof modules from nothing. They assume only the ASSUMEs on constants in the
component modules, which TLC evaluates on the instances.

**ExecutionEngineProofs**: TypeOK, CompleteMeansNoUnknownBuy, TerminalAgreement, OnePlacementPerOrder,
AtMostOneMarketBuyInDoubt, OneInDoubtBeforeRestart, StartupCoversRestored, OnlyRestartsForget, FinalReceiptsStay, and EngineKeepsPromise, the refinement. None of the invariants is inductive alone. A placement not yet answered is
in no record, so the strengthening says that an id that was sent is recorded, in the call's hands, or lost; that
a recorded final state agrees with the exchange in the checkpoint too (a restart
brings it back); and that a BUY in doubt that no restart has forgotten is Unknown, CancelPending or being placed; before the first restart that is every BUY in doubt, so of
all market BUYs ever sent at most one is. OnlyRestartsForget is what the first of these says while nothing is
lost; that a final receipt is never reopened needs that the orders a call has yet to ask about are open. For the refinement each action is an abstract step or leaves
the abstract state alone: a placement is `Place` because `OnePlacementPerOrder` holds of the next state too, and a verdict is `Report`
because an answer is backed at the moment it is given.

**AtkClientProofs**: TypeOK, SessionInvariant, OnlyVerifiedSessionsTrade and, assuming `VerdictsOnly`, the refinement of GatewayContract. The invariant `Session`
says what each stage of the handshake has verified: settings and versions once past their steps, the required capabilities once open, nothing sent and
no call before that, and that a call in progress passed the guard. The refinement is a lemma for each
decoder (a verdict other than Unknown or failed is one the exchange backs, for every true reply) and one step per action.

**PersistenceProofs**: TypeOK, with the references between tables that SQLite enforces; OpenMeansComplete, which needs that a process past the
version has a migrated file; AuditMatchesTables, ShownEvidenceIsSaved and UnresolvedIsRight. `AuditStep` says what any step does to the audit (nothing, or
one or two events after the others) and to the tables those events tell of; the invariants then follow from lemmas on what one more event does to an audit that
agrees with some rows. For what is shown, the strengthening is that the call in progress has saved what it no longer has left to save, and that what was saved
stays so; for what is unresolved, that the receipt taken for the latest is one that was recorded. Appended events change neither: no agreement counts them, and what they tell of an execution is a receipt like the others.

**McpTransportProofs**: TypeOK, NoLostWaiter, OwnAnswer, NoPendingLeak, OneMessagePerRequest and TransportKeepsPromise, the refinement of RequestPromise. The strengthening ties ids to
callers (ids are handed out once and below `nextId`), and says where a waiting caller's sender is: in the map,
carried by the reader, or used. NoLostWaiter needs that a caller past `CheckAlive` registered before
the reader set the flag, hence before it drained. That no channel gets a second message, which is also why one slot models it, needs that
the channel in the reader's hands is empty while drains run; the refinement, that an id is written only by its caller and carried only once written.

**TradingRuntimeProofs**: four facts about `Evaluate` (a BUY is funded; it keeps the cap and the limit on open positions of its snapshot, so that finding 3
comes of resting BUYs alone; killed approves none; a protective exit passes) and the theorems TypeOK, ReserveUntouched, KilledCallsBuyNothing, RecordedBeforePlaced and ExitsStayOpen. The
strengthening says that a call in progress saw no more cash than there is (only the call itself ties up cash;
fills only add to it), and that the trail matches the stage.

**OperatorProjectionProofs**: TypeOK, MemoryIsAudited, KillIsShown. MemoryIsAudited needs that a commit's next model has only audited events
besides its own, and that its own is audited once it is stored. KillIsShown needs that the safety store, once killed, stays so.

**SimulationEngineProofs**: FillMovesMoneyByRounding (a purchase moves the money of its instrument by at most half a unit of price for what is then held and half a unit of money, a sale of a
part by at most one unit, a sale of all not at all, and a fill touches no other instrument), TypeOK, OnlyRoundingMovesMoney, InventoryIsExplained, OrdersAddUp, LimitsAreKept, ExitsAreFinal and the action property FinalOrdersStay (an order that is over stays as it is). Lemmas on `Nearest` say
that it is at most half a divisor off, that a part is at most the whole and that rounding keeps the order of its dividends; from them a part of an
affordable remainder is affordable, fee included. The strengthening is that each order is sound by itself, and that what a round
has still to visit is open: without it a round could fill an order that the exit cancelled. OnlyRoundingMovesMoney and InventoryIsExplained are about folds over a finite set of
instruments and over the orders; a sum is shown to change as its one changed addend does, by taking a smallest set of which that fails,
which is why the module assumes finitely many instruments.

**DecisionOrchestratorProofs**: TypeOK, EvidenceWasAskedFor, HealthAgrees, NothingProposedTwice, and the action properties IdentityKept,
FailedSourcesAddNothing and CatalystsCountOnce. A prior decision is compared by evidence id, so that nothing is proposed twice rests on the ids: the strengthening
says that whatever a snapshot, a context or a proposal holds is in the ledger and has the id the ledger has for it, which
every ingestion keeps (`CallKeeps`). EvidenceWasAskedFor is inductive as it stands: a record keeps the time it joined with, whatever the ledger ingests later. For health it says that an idle cycle has researched nothing and that both
registries cover all sources. TypeOK needs that the reads made and the requests left stay within `MaxReads`; the bounds of the model are
related by `MaxCollections <= MaxReads`. OneCallPerTarget says what the fold that accepts a plan returns: one request of each target named, within the
budget; the proof takes the first place of the plan at which the fold would go wrong. CatalystsCountOnce holds because the strongest weight of each catalyst, all that the score adds up,
is the same after evidence no stronger than some that was known.

Nine theorems are about properties that no run repeats, because another property says more or rests on them: TerminalAgreement, OneInDoubtBeforeRestart, OnlyRestartsForget,
FinalReceiptsStay, OwnAnswer, OneMessagePerRequest, FinalOrdersStay, HealthAgrees and IdentityKept.

Only model-checked is liveness (DeathReleasesCallers, ShutdownReleasesCallers, RequestsAnswered), because the prover does not treat
fairness and ENABLED. Folds are proved about where needed, by a least counterexample instead of an induction theorem: those take an operator
as a parameter, which the provers do not instantiate.

## Not modelled

The protocols of the intelligence sources, Hermes decoding, the agent contract, `SimulationExecutor`, reporting and the HTML of
the dashboard; of the ATK client what `market_ticker` and `account_balance` read and the checks of an order request before anything is sent; of
persistence replay, the counts of reports, fees in rows and payloads, and the masking of secrets. Of the decision cycle: kinds of
proposals, the order of ranked candidates, market context, counters and times of source health. Decimals
are integers: of the last digit's unit in the simulation, which rounds, of a whole unit in the risk engine. Overflow errors are left out.

## Plan

In this order: the Polymarket readers, whose probability history rejects readings out of order; `SimulationExecutor`; TradingRuntime over ExecutionEngine
instead of its summary.
