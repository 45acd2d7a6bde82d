-------------------------- MODULE OperatorProjection --------------------------
(***************************************************************************)
(* The operator read model of src/operator.rs: what a trading thread       *)
(* projects of its runs, what the dashboard's server thread shows of it,   *)
(* and the SQLite store both write (src/persistence.rs).                   *)
(*                                                                         *)
(* A projector holds a model in memory and an update lock.  A commit takes *)
(* the lock, derives the next model from the one in memory, writes event   *)
(* and projection in one transaction and then replaces the model.  The     *)
(* store has one row of the current projection, which every projector on   *)
(* the database overwrites.  Dashboard and trading run in processes of     *)
(* their own, as the binaries do, or share one projector in a process, as  *)
(* the library allows.                                                     *)
(*                                                                         *)
(* Environment: the trading loop that reports its progress, the operator's *)
(* requests, a store that may refuse a write, and processes that restart.  *)
(***************************************************************************)
EXTENDS Integers, FiniteSets

CONSTANTS
    Runs,
    NoRun,
    Consoles,     \* the projectors the dashboard may use: "own", "trader"
    MaxCommits,   \* bound: the trading loop begins none beyond as many commits
    MaxRequests,  \* bound: requests served
    MaxRestarts   \* bound: restarts of a process

ASSUME ProjectionAssumption ==
    /\ NoRun \notin Runs
    /\ Consoles \subseteq {"own", "trader"}
    /\ Consoles # {}

VARIABLES
    console,   \* the projector of the dashboard; trading uses "trader"
    model,     \* each projector's model in memory
    current,   \* the stored row of the current projection, or Nothing
    audit,     \* the stored events
    commit,    \* each thread's commit in progress
    issued,    \* commits begun so far
    run,       \* the run the trading loop has started, or NoRun
    safety,    \* the SafetyStateStore of the dashboard's process
    request,   \* where the server is with its request
    loaded,    \* what rehydrate has read
    requests,
    restarts,
    shown,     \* history: the safety state of the last view since the last KILL, or "None"
    killed     \* history: a KILL was acknowledged since the dashboard's process started

stored == <<current, audit>>
server == <<safety, request, loaded, requests, shown, killed>>
vars == <<console, model, stored, commit, issued, run, server, restarts>>

Projectors == {"own", "trader"}
Threads == {"trading", "server"}
SafetyStates == {"Normal", "Safe", "Killed"}
Kinds == {"run_started", "safety_updated", "update"}
Requests == {"idle", "GET", "POST", "loadedGET", "loadedPOST", "view", "kill", "killed",
             "marked", "recording"}

Nothing == [run |-> NoRun, safety |-> "None", seen |-> {}]

DefaultModel == [run |-> NoRun, safety |-> "Normal", seen |-> {}]

Models ==
    [run : Runs \cup {NoRun}, safety : SafetyStates, seen : SUBSET Nat]

Events ==
    [id : Nat, by : Threads, run : Runs, kind : Kinds, safety : SafetyStates]

NoCommit == [step |-> "none"]

Commits ==
    [step : {"waiting"}, event : Events]
        \cup [step : {"locked", "stored"}, event : Events, next : Models]
        \cup {NoCommit}

TypeOK ==
    /\ console \in Consoles
    /\ model \in [Projectors -> Models]
    /\ current \in Models \cup {Nothing}
    /\ audit \subseteq Events
    /\ commit \in [Threads -> Commits]
    /\ issued \in Nat
    /\ run \in Runs \cup {NoRun}
    /\ safety \in SafetyStates
    /\ request \in Requests
    /\ loaded \in Models \cup {Nothing}
    /\ requests \in Nat
    /\ restarts \in Nat
    /\ shown \in SafetyStates \cup {"None"}
    /\ killed \in BOOLEAN

\* The projector a thread commits through.
Via(t) == IF t = "trading" THEN "trader" ELSE console

Init ==
    /\ console \in Consoles
    /\ model = [p \in Projectors |-> DefaultModel]
    /\ current = Nothing
    /\ audit = {}
    /\ commit = [t \in Threads |-> NoCommit]
    /\ issued = 0
    /\ run = NoRun
    /\ safety = "Normal"
    /\ request = "idle"
    /\ loaded = Nothing
    /\ requests = 0
    /\ restarts = 0
    /\ shown = "None"
    /\ killed = FALSE
--------------------------------------------------------------------------------
(* commit, by either thread *)

Begin(t, event) ==
    /\ commit[t] = NoCommit
    /\ issued' = issued + 1
    /\ commit' = [commit EXCEPT ![t] = [step |-> "waiting", event |-> event]]

\* What an event does to the model: a run's start clears the last run's.
Applied(m, event) ==
    [run |-> IF event.kind = "run_started" THEN event.run ELSE m.run,
     safety |-> IF event.kind = "update" THEN m.safety ELSE event.safety,
     seen |-> IF event.kind = "run_started" THEN {event.id} ELSE m.seen \cup {event.id}]

Locked(p) == \E t \in Threads : Via(t) = p /\ commit[t].step \in {"locked", "stored"}

\* Mutant: the model in memory is updated before the transaction.
Lock_ReplacesEarly(t) ==
    /\ commit[t].step = "waiting"
    /\ ~Locked(Via(t))
    /\ commit' = [commit EXCEPT ![t] =
                     [step |-> "locked", event |-> commit[t].event,
                      next |-> Applied(model[Via(t)], commit[t].event)]]
    /\ model' = [model EXCEPT ![Via(t)] = commit'[t].next]
    /\ UNCHANGED <<console, stored, issued, run, server, restarts>>

Lock(t) ==
    /\ commit[t].step = "waiting"
    /\ ~Locked(Via(t))
    /\ commit' = [commit EXCEPT ![t] =
                     [step |-> "locked", event |-> commit[t].event,
                      next |-> Applied(model[Via(t)], commit[t].event)]]
    /\ UNCHANGED <<console, model, stored, issued, run, server, restarts>>

\* append_event_with_projection: event and projection in one transaction.
Store(t) ==
    /\ commit[t].step = "locked"
    /\ audit' = audit \cup {commit[t].event}
    /\ current' = commit[t].next
    /\ commit' = [commit EXCEPT ![t].step = "stored"]
    /\ UNCHANGED <<console, model, issued, run, server, restarts>>

\* Mutant: a refused write is tried again, for as long as it is refused.
StoreFails_Retried(t) ==
    /\ commit[t].step = "locked"
    /\ commit' = [commit EXCEPT ![t] = [step |-> "waiting", event |-> commit[t].event]]
    /\ UNCHANGED <<console, model, stored, issued, run, server, restarts>>

\* A KILL that could not be recorded is answered with an error; safety store
\* and model in memory keep it.  Trading gets the error of its own commit.
StoreFails(t) ==
    /\ commit[t].step = "locked"
    /\ commit' = [commit EXCEPT ![t] = NoCommit]
    /\ request' = IF t = "server" THEN "idle" ELSE request
    /\ UNCHANGED <<console, model, stored, issued, run, safety, loaded, requests, shown, killed,
                   restarts>>

\* What a commit's success means to its thread: the trading loop has its run,
\* the operator is told that the KILL took effect.
Replace(t) ==
    /\ commit[t].step = "stored"
    /\ model' = [model EXCEPT ![Via(t)] = commit[t].next]
    /\ commit' = [commit EXCEPT ![t] = NoCommit]
    /\ IF t = "trading"
       THEN /\ run' = commit[t].event.run
            /\ UNCHANGED server
       ELSE /\ request' = "idle"
            /\ killed' = TRUE
            /\ shown' = "None"
            /\ UNCHANGED <<run, safety, loaded, requests>>
    /\ UNCHANGED <<console, stored, issued, restarts>>
--------------------------------------------------------------------------------
(* The trading loop *)

\* run_started: the caller says which safety state the run starts in, Normal
\* as the demo does or what the process's store holds.
RunStarted(r, state) ==
    /\ issued < MaxCommits
    /\ r \notin {event.run : event \in audit}
    /\ state \in {"Normal", IF console = "trader" THEN safety ELSE "Normal"}
    /\ Begin("trading", [id |-> issued + 1, by |-> "trading", run |-> r,
                         kind |-> "run_started", safety |-> state])
    /\ UNCHANGED <<console, model, stored, run, server, restarts>>

\* Every other event of the run: research, market, decision, risk, execution,
\* portfolio, completion and failure.
Updated ==
    /\ issued < MaxCommits
    /\ run # NoRun
    /\ Begin("trading", [id |-> issued + 1, by |-> "trading", run |-> run,
                         kind |-> "update", safety |-> "Normal"])
    /\ UNCHANGED <<console, model, stored, run, server, restarts>>
--------------------------------------------------------------------------------
(* The dashboard's server, one request after the other *)

Arrive(what) ==
    /\ request = "idle"
    /\ requests < MaxRequests
    /\ request' = what
    /\ requests' = requests + 1
    /\ UNCHANGED <<console, model, stored, commit, issued, run, safety, loaded, shown, killed, restarts>>

\* handle_current ignores a rehydrate that fails and serves what it has.
RehydrateReads ==
    /\ request \in {"GET", "POST"}
    /\ loaded' \in {current, Nothing}
    /\ request' = IF request = "GET" THEN "loadedGET" ELSE "loadedPOST"
    /\ UNCHANGED <<console, model, stored, commit, issued, run, safety, requests, shown, killed, restarts>>

\* The row replaces the model, whatever was committed since it was read.
RehydrateReplaces ==
    /\ request \in {"loadedGET", "loadedPOST"}
    /\ model' = IF loaded = Nothing THEN model ELSE [model EXCEPT ![console] = loaded]
    /\ loaded' = Nothing
    /\ request' = IF request = "loadedGET" THEN "view" ELSE "kill"
    /\ UNCHANGED <<console, stored, commit, issued, run, safety, requests, shown, killed, restarts>>

\* Mutant: the view shows the safety state of the model.
View_OfModel ==
    /\ request = "view"
    /\ shown' = model[console].safety
    /\ request' = "idle"
    /\ UNCHANGED <<console, model, stored, commit, issued, run, safety, loaded, requests, killed, restarts>>

View ==
    /\ request = "view"
    /\ shown' = safety
    /\ request' = "idle"
    /\ UNCHANGED <<console, model, stored, commit, issued, run, safety, loaded, requests, killed, restarts>>

KillStore ==
    /\ request = "kill"
    /\ safety' = "Killed"
    /\ request' = "killed"
    /\ UNCHANGED <<console, model, stored, commit, issued, run, loaded, requests, shown, killed,
                   restarts>>

\* set_safety_state, which does not take the update lock.
KillModel ==
    /\ request = "killed"
    /\ model' = [model EXCEPT ![console].safety = "Killed"]
    /\ request' = "marked"
    /\ UNCHANGED <<console, stored, commit, issued, run, safety, loaded, requests, shown, killed,
                   restarts>>

\* Mutant: the event is recorded under whatever run there is.
KillRecord_RunUnchecked ==
    /\ request = "marked"
    /\ Begin("server", [id |-> issued + 1, by |-> "server", run |-> model[console].run,
                        kind |-> "safety_updated", safety |-> "Killed"])
    /\ request' = "recording"
    /\ UNCHANGED <<console, model, stored, run, safety, loaded, requests, shown, killed,
                   restarts>>

\* The KILL is committed under the run of the model in memory.
KillRecord ==
    /\ request = "marked"
    /\ model[console].run # NoRun
    /\ Begin("server", [id |-> issued + 1, by |-> "server", run |-> model[console].run,
                        kind |-> "safety_updated", safety |-> "Killed"])
    /\ request' = "recording"
    /\ UNCHANGED <<console, model, stored, run, safety, loaded, requests, shown, killed,
                   restarts>>

\* Without a run there is nothing to record it under, and no event.
KillUnrecorded ==
    /\ request = "marked"
    /\ model[console].run = NoRun
    /\ killed' = TRUE
    /\ shown' = "None"
    /\ request' = "idle"
    /\ UNCHANGED <<console, model, stored, commit, issued, run, safety, loaded, requests, restarts>>
--------------------------------------------------------------------------------
(* Restarts: commits in progress are lost, stored or not *)

\* The dashboard rehydrates, and takes its safety state from the row.
ConsoleRestarts ==
    /\ restarts < MaxRestarts
    /\ restarts' = restarts + 1
    /\ LET row == IF current = Nothing THEN DefaultModel ELSE current
       IN  /\ model' = [model EXCEPT ![console] = row]
           /\ safety' = row.safety
    /\ commit' = [t \in Threads |-> IF Via(t) = console THEN NoCommit ELSE commit[t]]
    /\ run' = IF console = "trader" THEN NoRun ELSE run
    /\ request' = "idle"
    /\ loaded' = Nothing
    /\ shown' = "None"
    /\ killed' = FALSE
    /\ UNCHANGED <<console, stored, issued, requests>>

\* A trading process of its own begins with the default model.
TraderRestarts ==
    /\ console # "trader"
    /\ restarts < MaxRestarts
    /\ restarts' = restarts + 1
    /\ model' = [model EXCEPT !["trader"] = DefaultModel]
    /\ commit' = [commit EXCEPT !["trading"] = NoCommit]
    /\ run' = NoRun
    /\ UNCHANGED <<console, stored, issued, server>>
--------------------------------------------------------------------------------
CommitStep(t) == Lock(t) \/ Store(t) \/ StoreFails(t) \/ Replace(t)

Serve ==
    \/ RehydrateReads \/ RehydrateReplaces \/ View
    \/ KillStore \/ KillModel \/ KillRecord \/ KillUnrecorded

Next ==
    \/ \E t \in Threads : CommitStep(t)
    \/ \E r \in Runs, state \in SafetyStates : RunStarted(r, state)
    \/ Updated
    \/ \E what \in {"GET", "POST"} : Arrive(what)
    \/ Serve
    \/ ConsoleRestarts
    \/ TraderRestarts

Spec == Init /\ [][Next]_vars

\* Both threads run: a commit waits for nothing but the update lock, and the
\* server goes through its request.
FairSpec == Spec /\ WF_vars(Serve) /\ \A t \in Threads : WF_vars(CommitStep(t))
--------------------------------------------------------------------------------
\* No model, in memory or stored, tells of an event that the audit does not
\* have: not when a write is refused, nor after a restart between two steps.
MemoryIsAudited ==
    LET events == {event.id : event \in audit}
    IN  /\ \A p \in Projectors : model[p].seen \subseteq events
        /\ current.seen \subseteq events
        /\ loaded.seen \subseteq events

\* From the acknowledgement of a KILL until the process ends, every view says
\* Killed, though other projectors overwrite the row the view is read from.
KillIsShown == killed => shown \in {"None", "Killed"}

\* Every request is answered: the server never waits forever for the lock.
RequestsAnswered == request # "idle" ~> request = "idle"
================================================================================
