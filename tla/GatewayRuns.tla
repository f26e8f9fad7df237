---------------------------- MODULE GatewayRuns -----------------------------
(***************************************************************************)
(* The run dispatcher of the gateway: POST /runs persists a record, writes *)
(* a row of the durable queue and starts an asyncio task that drives the   *)
(* run through its gates, the compute meter and the engine to a terminal   *)
(* status, removes the row and starts the webhook.  The process may crash  *)
(* between any two writes and may be shut down (drain), and the next one   *)
(* re-submits every row it finds.                                          *)
(*                                                                         *)
(* One event loop runs every task.  `loop` names the task that is in the   *)
(* middle of a slice without an await: nothing but a crash (or somebody    *)
(* outside the process) comes between two of its steps.                    *)
(***************************************************************************)
EXTENDS Naturals, FiniteSets

CONSTANTS Runs,          \* the run ids
          Hooked,        \* the runs whose spec names a webhook
          Idle,          \* no task is in the middle of a slice
          MaxRetries,    \* retries of a webhook's POST
          MaxCrashes,    \* bound: crashes of the process
          MaxShutdowns,  \* bound: orderly shutdowns
          MaxFaults,     \* bound: failures of the SQLite queue
          MaxLosses      \* bound: records removed or damaged from outside

ASSUME ConstantsOK ==
    /\ Hooked \subseteq Runs /\ Idle \notin Runs
    /\ {MaxRetries, MaxCrashes, MaxShutdowns, MaxFaults, MaxLosses} \subseteq Nat

VARIABLES
    \* on disk
    status,       \* the status of each run's record: "none" before it exists,
                  \* "gone" once it cannot be read any more
    queue,        \* the rows of pending_runs
    \* in the process
    phase,        \* where the process is in its lifespan
    loop,         \* the run whose slice is under way, or Idle
    task,         \* what each run's task is about to do
    verdict,      \* the terminal status the task is about to write
    cancelled,    \* the tasks whose CancelledError is still to be delivered
    hook,         \* the webhook task of each run
    awaitedHooks, \* the webhook tasks drain() waits for
    \* history
    charges,      \* compute units charged to each run
    spawns,       \* engines spawned for each run
    fired,        \* webhook tasks started for each run
    posts,        \* POSTs sent for each run
    unqueued,     \* runs that never got a row
    interrupted,  \* runs whose task died before it could end the run
    sweepFailed,  \* the recovery sweep of this process failed
    crashes, shutdowns, faults, losses

disk    == <<status, queue>>
process == <<phase, loop, task, verdict, cancelled, hook, awaitedHooks>>
history == <<charges, spawns, fired, posts, unqueued, interrupted, sweepFailed>>
bounds  == <<crashes, shutdowns, faults, losses>>
vars    == <<disk, process, history, bounds>>

Terminal == {"completed", "failed", "budget_exceeded"}
Active   == {"accepted", "running"}
Statuses == Active \cup Terminal \cup {"none", "gone"}

\* What a task is about to do.  It awaits in "gate", "meter" and "engine";
\* "creating", "settle", "dequeue" and "notify" are inside a slice.
Stages   == {"none", "creating", "ready", "gate", "meter", "engine",
             "settle", "dequeue", "notify"}
InSlice  == {"creating", "settle", "dequeue", "notify"}
Driving  == {"gate", "meter", "engine", "settle", "dequeue", "notify"}
Phases   == {"up", "drain_runs", "drain_hooks", "exit", "down"}

TypeOK ==
    /\ status \in [Runs -> Statuses]
    /\ queue \subseteq Runs
    /\ phase \in Phases
    /\ loop \in Runs \cup {Idle}
    /\ task \in [Runs -> Stages]
    /\ verdict \in [Runs -> Terminal \cup {"none"}]
    /\ cancelled \subseteq Runs
    /\ hook \in [Runs -> {"none", "run"}]
    /\ awaitedHooks \subseteq Runs
    /\ charges \in [Runs -> Nat] /\ spawns \in [Runs -> Nat]
    /\ fired \in [Runs -> Nat] /\ posts \in [Runs -> Nat]
    /\ unqueued \subseteq Runs /\ interrupted \subseteq Runs
    /\ sweepFailed \in BOOLEAN
    /\ crashes \in Nat /\ shutdowns \in Nat /\ faults \in Nat /\ losses \in Nat

Init ==
    /\ status = [r \in Runs |-> "none"]
    /\ queue = {}
    /\ phase = "up" /\ loop = Idle
    /\ task = [r \in Runs |-> "none"]
    /\ verdict = [r \in Runs |-> "none"]
    /\ cancelled = {}
    /\ hook = [r \in Runs |-> "none"]
    /\ awaitedHooks = {}
    /\ charges = [r \in Runs |-> 0] /\ spawns = [r \in Runs |-> 0]
    /\ fired = [r \in Runs |-> 0] /\ posts = [r \in Runs |-> 0]
    /\ unqueued = {} /\ interrupted = {}
    /\ sweepFailed = FALSE
    /\ crashes = 0 /\ shutdowns = 0 /\ faults = 0 /\ losses = 0

Alive == phase # "down"

-----------------------------------------------------------------------------
(* Steps of a slice *)

\* The task goes on to `stage` and gives the loop back.
Await(r, stage) ==
    /\ task' = [task EXCEPT ![r] = stage]
    /\ verdict' = [verdict EXCEPT ![r] = "none"]
    /\ loop' = Idle

\* The task enters _set_terminal with the terminal status v.
Settle(r, v) ==
    /\ task' = [task EXCEPT ![r] = "settle"]
    /\ verdict' = [verdict EXCEPT ![r] = v]
    /\ loop' = r

\* A best-effort call to the queue either works or fails and is swallowed.
QueueCall(ok) ==
    /\ ok \/ faults < MaxFaults
    /\ faults' = IF ok THEN faults ELSE faults + 1

\* Mutant: a status is missing from ALL_STATES.
SettableUnknownBudget(r, s) ==
    s # "budget_exceeded" /\ status[r] \in Active

\* set_status refuses an unknown status, a record it cannot read and a second
\* terminal status.
Settable(r, s) ==
    /\ s \in Active \cup Terminal
    /\ status[r] \notin {"none", "gone"}
    /\ status[r] \in Terminal => status[r] = s

\* Mutant: a DELETE that forgets the run id.
RowsOfNobody(r) == {}

\* The rows that are left when mark_terminal has removed the one of r.
RowsWithout(r) == queue \ {r}

\* Mutant: the sweep takes up what was running, as its name suggests.
SweptRunning == {r \in queue : status[r] = "running"}

\* The rows the recovery sweep submits: all of them.
Swept == queue

\* The task of r is resumed: the loop is free and no CancelledError is due.
Resumed(r, stage) ==
    /\ Alive /\ loop = Idle
    /\ task[r] = stage
    /\ r \notin cancelled

-----------------------------------------------------------------------------
(* POST /v1/tenants/{tid}/runs *)

\* RunRegistry.create writes the accepted record.
Create(r) ==
    /\ phase = "up" /\ loop = Idle
    /\ status[r] = "none"
    /\ status' = [status EXCEPT ![r] = "accepted"]
    /\ task' = [task EXCEPT ![r] = "creating"]
    /\ loop' = r
    /\ UNCHANGED <<queue, phase, verdict, cancelled, hook, awaitedHooks,
                   history, bounds>>

\* RunDispatcher.submit: enqueue, best effort, then create the task.
Submit(r) ==
    /\ Alive /\ loop = r /\ task[r] = "creating"
    /\ \E ok \in BOOLEAN :
          /\ QueueCall(ok)
          /\ queue' = IF ok THEN queue \cup {r} ELSE queue
          /\ unqueued' = IF ok THEN unqueued ELSE unqueued \cup {r}
    /\ Await(r, "ready")
    /\ UNCHANGED <<status, phase, cancelled, hook, awaitedHooks,
                   charges, spawns, fired, posts, interrupted, sweepFailed,
                   crashes, shutdowns, losses>>

-----------------------------------------------------------------------------
(* RunDispatcher._run_one *)

\* Mutant: a run found `running` is taken up again.
StartableActive(r) == status[r] \in Active

\* The idempotency check of _run_one.
Startable(r) == status[r] = "accepted"

\* The first slice returns unless the record is still accepted; otherwise it
\* marks the run running and goes on to the gates, or fails it: no spawn
\* environment, no engine, a denied engine or zone.
StartRun(r) ==
    /\ Resumed(r, "ready")
    /\ \/ /\ ~Startable(r)
          /\ Await(r, "none")
          /\ UNCHANGED status
       \/ /\ Startable(r)
          /\ status' = [status EXCEPT ![r] = "running"]
          /\ Await(r, "gate") \/ Settle(r, "failed")
    /\ UNCHANGED <<queue, phase, cancelled, hook, awaitedHooks,
                   history, bounds>>

\* The L34, L35 and L44 gates, each awaited in a thread: all of them pass, or
\* the first that refuses or raises fails the run.
GateReturns(r) ==
    /\ Resumed(r, "gate")
    /\ Await(r, "meter") \/ Settle(r, "failed")
    /\ UNCHANGED <<disk, phase, cancelled, hook, awaitedHooks, history, bounds>>

\* The compute meter charges a unit, refuses, or fails operationally, which
\* lets the run pass uncharged.  The engine is spawned in the same slice.
MeterReturns(r) ==
    /\ Resumed(r, "meter")
    /\ \/ /\ \E unit \in {0, 1} :
                charges' = [charges EXCEPT ![r] = @ + unit]
          /\ spawns' = [spawns EXCEPT ![r] = @ + 1]
          /\ Await(r, "engine")
       \/ /\ Settle(r, "failed")
          /\ UNCHANGED <<charges, spawns>>
    /\ UNCHANGED <<disk, phase, cancelled, hook, awaitedHooks, fired, posts,
                   unqueued, interrupted, sweepFailed, bounds>>

\* The engine's stream ends, with a result or an error, or the wall-clock
\* budget runs out first.
EngineReturns(r) ==
    /\ Resumed(r, "engine")
    /\ \E v \in Terminal : Settle(r, v)
    /\ UNCHANGED <<disk, phase, cancelled, hook, awaitedHooks, history, bounds>>

\* CancelledError before the engine is awaited: the task never began, or it
\* is at a gate or at the meter, whose `except Exception` does not catch it.
\* The meter's thread may still have charged the unit.
CancelEarly(r) ==
    /\ Alive /\ loop = Idle
    /\ r \in cancelled /\ task[r] \in {"ready", "gate", "meter"}
    /\ \/ UNCHANGED charges
       \/ task[r] = "meter" /\ charges' = [charges EXCEPT ![r] = @ + 1]
    /\ interrupted' = interrupted \cup {r}
    /\ cancelled' = cancelled \ {r}
    /\ Await(r, "none")
    /\ UNCHANGED <<disk, phase, hook, awaitedHooks, spawns, fired, posts,
                   unqueued, sweepFailed, bounds>>

\* Mutant: the run ends in a status of its own.
CancelEngineAsCancelled(r) ==
    /\ Alive /\ loop = Idle
    /\ r \in cancelled /\ task[r] = "engine"
    /\ cancelled' = cancelled \ {r}
    /\ Settle(r, "cancelled")
    /\ UNCHANGED <<disk, phase, hook, awaitedHooks, history, bounds>>

\* CancelledError while the engine is awaited: the run is failed.
CancelEngine(r) ==
    /\ Alive /\ loop = Idle
    /\ r \in cancelled /\ task[r] = "engine"
    /\ cancelled' = cancelled \ {r}
    /\ Settle(r, "failed")
    /\ UNCHANGED <<disk, phase, hook, awaitedHooks, history, bounds>>

-----------------------------------------------------------------------------
(* RunDispatcher._set_terminal *)

\* set_status; a refusal returns at once.
WriteTerminal(r) ==
    /\ Alive /\ loop = r /\ task[r] = "settle"
    /\ \/ /\ Settable(r, verdict[r])
          /\ status' = [status EXCEPT ![r] = verdict[r]]
          /\ task' = [task EXCEPT ![r] = "dequeue"]
          /\ verdict' = [verdict EXCEPT ![r] = "none"]
          /\ UNCHANGED loop
       \/ /\ ~Settable(r, verdict[r])
          /\ Await(r, "none")
          /\ UNCHANGED status
    /\ UNCHANGED <<queue, phase, cancelled, hook, awaitedHooks,
                   history, bounds>>

\* mark_terminal, best effort.
Dequeue(r) ==
    /\ Alive /\ loop = r /\ task[r] = "dequeue"
    /\ \E ok \in BOOLEAN :
          /\ QueueCall(ok)
          /\ queue' = IF ok THEN RowsWithout(r) ELSE queue
    /\ task' = [task EXCEPT ![r] = "notify"]
    /\ UNCHANGED <<status, phase, loop, verdict, cancelled, hook,
                   awaitedHooks, history, crashes, shutdowns, losses>>

\* Mutant: the record is not read again.
NotifiableUnread(r) == r \in Hooked

\* What _maybe_dispatch_webhook asks of the record it reads again.
Notifiable(r) == status[r] \in Terminal /\ r \in Hooked

\* _maybe_dispatch_webhook starts the webhook, or does nothing.
Notify(r) ==
    /\ Alive /\ loop = r /\ task[r] = "notify"
    /\ \/ /\ Notifiable(r)
          /\ hook' = [hook EXCEPT ![r] = "run"]
          /\ fired' = [fired EXCEPT ![r] = @ + 1]
       \/ /\ ~Notifiable(r)
          /\ UNCHANGED <<hook, fired>>
    /\ Await(r, "none")
    /\ UNCHANGED <<disk, phase, cancelled, awaitedHooks, charges, spawns,
                   posts, unqueued, interrupted, sweepFailed, bounds>>

-----------------------------------------------------------------------------
(* WebhookDispatcher.dispatch_for_record *)

\* The URL is refused, the secret is missing or httpx is not installed.
HookBlocked(r) ==
    /\ Alive /\ loop = Idle
    /\ hook[r] = "run" /\ posts[r] = 0
    /\ hook' = [hook EXCEPT ![r] = "none"]
    /\ UNCHANGED <<disk, phase, loop, task, verdict, cancelled, awaitedHooks,
                   history, bounds>>

\* Mutant: one attempt too many.
AttemptLeftAfterLast(r) == posts[r] <= MaxRetries

\* Another attempt follows the one that is made now.
AttemptLeft(r) == posts[r] < MaxRetries

\* One POST: 2xx and 4xx end the delivery, anything else is retried while an
\* attempt is left.
HookPost(r) ==
    /\ Alive /\ loop = Idle
    /\ hook[r] = "run"
    /\ posts' = [posts EXCEPT ![r] = @ + 1]
    /\ \/ hook' = [hook EXCEPT ![r] = "none"]
       \/ AttemptLeft(r) /\ UNCHANGED hook
    /\ UNCHANGED <<disk, phase, loop, task, verdict, cancelled, awaitedHooks,
                   charges, spawns, fired, unqueued, interrupted, sweepFailed,
                   bounds>>

-----------------------------------------------------------------------------
(* Shutdown: the lifespan handler and RunDispatcher.drain(timeout=15) *)

InFlight == {r \in Runs : task[r] # "none"}
Posting  == {r \in Runs : hook[r] = "run"}

\* The server stops taking requests and drain() begins to wait for the runs.
Shutdown ==
    /\ phase = "up" /\ loop = Idle
    /\ shutdowns < MaxShutdowns
    /\ shutdowns' = shutdowns + 1
    /\ phase' = "drain_runs"
    /\ UNCHANGED <<disk, loop, task, verdict, cancelled, hook, awaitedHooks,
                   history, crashes, faults, losses>>

\* Every run is done or the timeout is over: cancel what is left, then take
\* the list of webhook tasks.
DrainRuns ==
    /\ phase = "drain_runs" /\ loop = Idle
    /\ cancelled' = InFlight
    /\ awaitedHooks' = Posting
    /\ phase' = "drain_hooks"
    /\ UNCHANGED <<disk, loop, task, verdict, hook, history, bounds>>

\* The listed webhooks are done or the timeout is over.  The loop then cancels
\* every task that is left (asyncio.run).
DrainHooks ==
    /\ phase = "drain_hooks" /\ loop = Idle
    /\ cancelled' = InFlight
    /\ hook' = [r \in Runs |-> "none"]
    /\ awaitedHooks' = {}
    /\ phase' = "exit"
    /\ UNCHANGED <<disk, loop, task, verdict, history, bounds>>

\* The cancelled tasks have ended and the process exits: a webhook task that
\* one of them started is lost.
Exit ==
    /\ phase = "exit" /\ loop = Idle
    /\ InFlight = {}
    /\ hook' = [r \in Runs |-> "none"]
    /\ phase' = "down"
    /\ UNCHANGED <<disk, loop, task, verdict, cancelled, awaitedHooks, history,
                   bounds>>

-----------------------------------------------------------------------------
(* Crash and restart *)

Crash ==
    /\ Alive
    /\ crashes < MaxCrashes
    /\ crashes' = crashes + 1
    /\ phase' = "down" /\ loop' = Idle
    /\ interrupted' = interrupted \cup InFlight
    /\ unqueued' = unqueued \cup {r \in Runs : task[r] = "creating"}
    /\ task' = [r \in Runs |-> "none"]
    /\ verdict' = [r \in Runs |-> "none"]
    /\ cancelled' = {}
    /\ hook' = [r \in Runs |-> "none"]
    /\ awaitedHooks' = {}
    /\ UNCHANGED <<disk, charges, spawns, fired, posts, sweepFailed,
                   shutdowns, faults, losses>>

\* The lifespan handler of the next process: recover_pending submits a task
\* for every row, or fails to read the queue and recovers nothing.
Boot ==
    /\ phase = "down"
    /\ phase' = "up"
    /\ \E ok \in BOOLEAN :
          /\ QueueCall(ok)
          /\ sweepFailed' = ~ok
          /\ task' = [r \in Runs |-> IF ok /\ r \in Swept THEN "ready" ELSE "none"]
    /\ UNCHANGED <<disk, loop, verdict, cancelled, hook, awaitedHooks, charges,
                   spawns, fired, posts, unqueued, interrupted,
                   crashes, shutdowns, losses>>

\* Somebody outside the process removes or damages a record.
LoseRecord(r) ==
    /\ losses < MaxLosses
    /\ status[r] \in Active \cup Terminal
    /\ losses' = losses + 1
    /\ status' = [status EXCEPT ![r] = "gone"]
    /\ UNCHANGED <<queue, process, history, crashes, shutdowns, faults>>

-----------------------------------------------------------------------------
(* Specification *)

RunOne(r) ==
    \/ Submit(r) \/ StartRun(r) \/ GateReturns(r) \/ MeterReturns(r)
    \/ EngineReturns(r) \/ CancelEarly(r) \/ CancelEngine(r)
    \/ WriteTerminal(r) \/ Dequeue(r) \/ Notify(r)

Next ==
    \/ \E r \in Runs : Create(r) \/ RunOne(r) \/ HookBlocked(r) \/ HookPost(r)
                       \/ LoseRecord(r)
    \/ Shutdown \/ DrainRuns \/ DrainHooks \/ Exit \/ Crash \/ Boot

\* The loop resumes every task that can go on (gates answer, an engine ends or
\* exhausts its budget), the drain timeouts fire, and a process that is down
\* is started again.
Fairness ==
    /\ \A r \in Runs : WF_vars(RunOne(r))
    /\ WF_vars(DrainRuns) /\ WF_vars(DrainHooks) /\ WF_vars(Exit) /\ WF_vars(Boot)

Spec == Init /\ [][Next]_vars /\ Fairness

-----------------------------------------------------------------------------
(* Properties *)

\* Recovery never runs a run twice: over all crashes and restarts its engine
\* is spawned at most once and at most one compute unit is charged, because
\* `running` is on disk before the first gate and _run_one skips every record
\* that is not accepted.
EngineAtMostOnce == \A r \in Runs : spawns[r] <= 1 /\ charges[r] <= 1

\* Over all restarts a customer is sent at most 1 + MaxRetries POSTs for a
\* run, and none before the run has ended.
WebhookBounded ==
    \A r \in Runs : /\ posts[r] <= 1 + MaxRetries
                    /\ posts[r] > 0 => status[r] \in Terminal \cup {"gone"}

\* A run that has not ended is in the durable queue, unless its enqueue failed
\* or the process died between the record and the row: no step of another run,
\* no sweep and no restart removes the row that recovery rests on.
ActiveRunsQueued ==
    \A r \in Runs : status[r] \in Active =>
        r \in queue \cup unqueued \/ task[r] = "creating"

\* A run is left `running` without a task that will end it only when the
\* process died or drain() cancelled the task before the engine was awaited:
\* every other path of _run_one goes through _set_terminal.
RunningHasDriver ==
    \A r \in Runs : status[r] = "running" => task[r] \in Driving \/ r \in interrupted

\* An accepted run with a row is started, however often the process dies, as
\* long as the recovery sweep can read the queue.
QueuedRunStarts ==
    \A r \in Runs : (status[r] = "accepted" /\ r \in queue)
                        ~> (status[r] # "accepted" \/ sweepFailed)

\* A running run ends unless it is interrupted or its record disappears.
RunningRunEnds ==
    \A r \in Runs : (status[r] = "running")
                        ~> (status[r] \in Terminal \cup {"gone"} \/ r \in interrupted)

\* The gateway implements the abstract life cycle of a run.
Lifecycle == INSTANCE RunLifecycle
ImplementsRunLifecycle == Lifecycle!Spec

-----------------------------------------------------------------------------
(* The inductive invariant behind the safety properties *)

\* A task is inside a slice exactly when it holds the loop, and a process that
\* is down has no task.
LoopInv ==
    /\ \A r \in Runs : task[r] \in InSlice <=> loop = r
    /\ phase = "down" => \A r \in Runs : task[r] = "none"

\* What the stage of a task says about its record and its history.
StageInv ==
    \A r \in Runs :
        /\ status[r] \in {"none", "accepted"} =>
              /\ task[r] \in {"none", "creating", "ready"}
              /\ spawns[r] = 0 /\ charges[r] = 0 /\ fired[r] = 0
        /\ task[r] \in {"gate", "meter"} => spawns[r] = 0 /\ charges[r] = 0
        /\ task[r] \in {"gate", "meter", "engine", "settle"} =>
              status[r] \in {"running", "gone"}
        /\ task[r] \in {"dequeue", "notify"} => status[r] \in Terminal \cup {"gone"}
        /\ task[r] \in Driving => fired[r] = 0
        /\ task[r] = "settle" => verdict[r] \in Terminal

\* What the webhook's history says about its task and the record.
HookInv ==
    \A r \in Runs :
        /\ fired[r] <= 1
        /\ fired[r] = 0 => hook[r] = "none" /\ posts[r] = 0
        /\ fired[r] > 0 => status[r] \in Terminal \cup {"gone"}
        /\ hook[r] = "run" => posts[r] <= MaxRetries
        /\ posts[r] <= 1 + MaxRetries

IInv == TypeOK /\ LoopInv /\ StageInv /\ HookInv
        /\ EngineAtMostOnce /\ RunningHasDriver /\ ActiveRunsQueued

-----------------------------------------------------------------------------
(* What the documentation claims and the code does not do *)

\* What submit's docstring and the comment in the CancelledError branch say:
\* neither a crash after submit nor a drain leaves a run `running` with nobody
\* to end it once the gateway serves again.
NoStrandedRun ==
    \A r \in Runs : phase = "up" /\ status[r] = "running" => task[r] # "none"
=============================================================================
