# CorvinOS in TLA+

CorvinOS is a self-hosted agent runtime. Messages from chat services and HTTP
requests become turns and runs of an LLM engine; long work is moved to detached
processes whose results come back later. Everything durable is a file or a row
of SQLite, everything concurrent is a thread, an asyncio task or a process, and
any process may be killed at any line. This directory holds the TLA+ model of
the parts of the repository where that combination decides whether the system is
correct, the TLC runs that check the model, and the TLAPS proofs of what matters
most.

Paths below are relative to `src/`; `shared/` stands for
`corvin_operator/bridges/shared/`, `gateway/` for `core/gateway/corvin_gateway/`.

- [The system](#the-system)
- [The modules](#the-modules)
- [The runs](#the-runs)
- [Fairness](#fairness)
- [The proofs](#the-proofs)
- [What the code does not do as documented](#what-the-code-does-not-do-as-documented)
- [What is left out](#what-is-left-out)
- [Plan](#plan)

## The system

| Component | State it keeps | Operations | Hard behaviour |
| --- | --- | --- | --- |
| Gateway run dispatcher (`gateway/dispatcher.py`) | the tasks in flight, the webhook tasks | `submit`, `_run_one`, `_set_terminal`, `recover_pending`, `drain` | cancellation at any await; crash between any two writes; recovery of what was half done |
| Run registry (`gateway/runs.py`) | one JSON record per run | `create`, `get`, `set_status` | a record that disappears or cannot be parsed |
| Durable queue (`gateway/durable_queue.py`) | SQLite rows `pending_runs` | `enqueue`, `mark_terminal`, `recover_pending` | every call is best effort and may fail silently |
| Webhook delivery (`gateway/webhooks.py`) | none | `dispatch_for_record` with retries | retries against shutdown and restart |
| Run event stream (`gateway/sse.py`) | a buffer and subscriber queues per run | `append`, `close`, `subscribe` | an engine's thread appends while the loop closes |
| Bridge dispatcher (`shared/adapter.py`) | inbox files, `_in_flight`, `_chat_locks`, two thread pools | poll, `submit_inbox_item`, the runner, two cleanups, drain, Ctrl-C | polling re-reads what is being handled; locks and entries are aged out under live runners; kill and restart |
| Chat turn control (`shared/adapter.py`) | per chat: the running engine and its processes, `/btw` notes, a cancel stamp, an active mark | `_open_turn_task`, `inject_btw`, `drain_btw_buffer`, `_cancel_chat`, `_close_turn_task` | a side-channel command against a turn that is starting or ending |
| Completion queue (`shared/completion_notify.py`) | one JSON record and one lock file per task | `register`, `claim`, `attach_voice`, `mark_done`, `deliver_ready`, `purge_user` | several polling processes; read-modify-write without the lock; stale locks |
| Background worker (`shared/bg_task_worker.py`) | none of its own | the calls on the queue and the run record | killed between any two calls |
| Background supervisor (`shared/task_supervisor.py`) | a run record, a heartbeat and a spawn lock per task | `register_run`, `attempt_started`, `attempt_finished`, `supervise` | several pollers decide to relaunch the same worker |
| Scheduler (`shared/scheduler.py`) | due tasks | writes envelopes into the inbox | restart between fire and save |
| Agent-to-agent exchange (`core/a2a/`, `shared/a2a_outbox.py`, `shared/remote_trigger_*.py`) | nonces, task stages, an outbox | signed requests, retries, results | lost, repeated and reordered requests |
| Hash-chained audit log (`corvin_operator/forge/forge/security_events.py`) | a file whose lines are chained | append, rotate, verify | two processes append; a torn line |

How they interact:

- A messenger daemon writes an envelope into the bridge's **inbox** directory;
  the scheduler writes into the same directory. The bridge dispatcher polls it.
  Answers go to the **outbox** directory, which the daemon sends and deletes.
- A turn that starts background work calls `register` (completion queue) and, if
  supervision is on, `register_run` (supervisor), then spawns a detached worker.
  From then on only files connect them: the worker calls `claim`,
  `attempt_finished`, `attach_voice`, `mark_done`; the adapter's main loop, the
  timer of `bg_monitor` and each worker at its end call `deliver_ready`, which
  writes into the outbox.
- The gateway's HTTP handler calls `RunRegistry.create` and
  `RunDispatcher.submit`; the dispatcher calls the registry, the durable queue,
  the event buffers and the webhook; its task is resumed by the asyncio loop.
  The lifespan handler calls `recover_pending` at start and `drain` at exit.

What makes each of them correct:

- *Gateway*: a run is executed at most once over all restarts; its status only
  follows the state machine of `runs.py`; a run that has not ended stays
  findable; a webhook is bounded and never early; an accepted run starts.
- *Bridge*: turns of a chat exclude each other; an instruction is executed again
  only if a process died or a file operation failed; a `/stop` is always served;
  every message leaves the inbox.
- *Completion queue*: a result is sent, and sent once; a failure never replaces
  it; a dead worker is always reported.
- *Supervisor*: one worker per task at a time; launches are bounded; a task
  that has finished is neither run again nor reported as failed.
- *Chat turn*: an acknowledged note is used once; a `/stop` acts on the turn it
  found, and that turn is recorded as cancelled and does not begin to answer.
- *Event stream*: every subscriber sees the same sequence and its end.
- *Exchange*: a message is worked on once however often it is sent; what the
  sender is told of it is true; it does not wait for ever.

`PROJECT.json` lists every component with what is modelled of it, and under
`hazards` the places in this code that tests hardly reach, each at its line with
the properties that would catch it. Where the code itself takes the bad turn, and a
property names it as its exception, the hazard has no property and says so.

## The modules

| Module | What it is |
| --- | --- |
| `RunLifecycle` | what the gateway promises of a run: status, spawns, webhook |
| `GatewayRuns` | the run dispatcher with registry, queue, webhook, drain, crash and restart; implements `RunLifecycle` |
| `GatewayRuns_proofs` | its proofs |
| `ChatInbox` | what the bridge promises of its inbox |
| `BridgeDispatch` | the bridge dispatcher with its threads, tables and cleanups; implements `ChatInbox` |
| `MCBridgeDispatch` | gives `BridgeDispatch` a function constant for TLC |
| `BridgeDispatch_proofs` | its proofs |
| `CompletionNotify` | the completion queue with its workers, pollers and what it sees of the supervisor |
| `SupervisedTask` | what the supervisor promises of a task: launches, the living worker, the answer |
| `TaskSupervisor` | the supervisor of a background task, with the workers it launches; implements `SupervisedTask` |
| `PeerMessage` | what the exchange promises of a message: worked on once, and true verdicts |
| `PeerExchange` | one message between two agents: outbox, network, receiver; implements `PeerMessage` |
| `ChatTurn` | the turns of a chat with `/btw` and `/stop` |
| `RunEvents` | the event stream of a run: the engine's thread, the event loop, the clients |
| `CompletionNotify_proofs`, `TaskSupervisor_proofs`, `PeerExchange_proofs`, `ChatTurn_proofs`, `RunEvents_proofs` | the proofs about these five |
| `MCTaskSupervisor`, `MCChatTurn` | their symmetry sets for TLC |

Each specification keeps to one shape: variables grouped as *on disk*, *in the
process* and *history*; one action per step the code cannot interleave;
fairness; properties; and last, where there is one, a statement of the
documentation that the code does not keep. The inductive invariant, in named
parts, stands before it (gateway, bridge) or at the head of the proofs.
History variables count what the properties speak of (spawns, POSTs, envelopes,
deaths) and are never read by a guard, except that the counters of mishaps are
compared with the bound of their constant. The definitions called "mutant" are
plausible slips in the definition they precede; nothing uses them here. They
exist to be put in the place of that definition: each property is violated by at
least one.

Two modules keep a record of *slips*: events of the environment, or races the
code does not close, after which its promise no longer holds. A property then
reads "P, or one of these slips has happened". This is weaker than P and says
exactly how much weaker; removing a slip from a property gives a counterexample.

### GatewayRuns

A run's task is at `gate`, `meter` or `engine` when it awaits; `creating`,
`settle`, `dequeue` and `notify` lie inside one slice of the event loop, between
two writes. `loop` names the task in the middle of a slice: no other task runs,
but the process may die there, which is why a slice has more than one step.

| Code | Model |
| --- | --- |
| `submit_run` → `RunRegistry.create` | `Create` |
| `RunDispatcher.submit`: `enqueue` swallowed on failure, `create_task` | `Submit` |
| `_run_one` up to the first await | `StartRun` (the check `status == "accepted"` is `Startable`) |
| the L34, L35 and L44 gates in threads | `GateReturns` |
| the compute meter, then the spawn | `MeterReturns` |
| stream end, error, `asyncio.TimeoutError` | `EngineReturns` |
| `CancelledError` before, and at, the engine | `CancelEarly`, `CancelEngine` |
| `_set_terminal`: `set_status`, `mark_terminal`, `_maybe_dispatch_webhook` | `WriteTerminal`, `Dequeue`, `Notify` |
| `dispatch_for_record`, `_post_with_retry` | `HookBlocked`, `HookPost` |
| lifespan exit, `drain(timeout=15)`, end of `asyncio.run` | `Shutdown`, `DrainRuns`, `DrainHooks`, `Exit` |
| process death; lifespan start with `recover_pending` | `Crash`; `Boot` |
| a record removed or damaged from outside | `LoseRecord` |

Abstractions: the three gates are one await, since they decide alike; a result
is its terminal status; the meter's charge is 0 or 1 because an operational
failure of the meter lets the run pass; the sweep's submissions are one step,
since no other task runs before it returns, and re-enqueueing a row is a no-op
(`INSERT OR IGNORE`); an exception of another kind that leaves `_run_one` outside
its `try` (`dispatcher.py:691`, `714`, `926`-`938`), after which the run would
stay as it is until the next start, is left out; the delay between two POSTs is no state of its own, as it
starts and ends at the same stage. Writes of the record do not fail (they are
`os.replace` on the disk that holds everything else); calls of the queue may.

### BridgeDispatch

Messages are numbers because file names are sorted. A message's runner goes
`queued` → `waiting` (turns only) → `turn` → (`raised` →) `leaving` → `none`;
`inFlight` is its entry in `_in_flight`: absent, without a future (`bare`), or
with one (`attached`). A lock of `_chat_locks` is named by the number of its
creation, so that a lock dropped from the table and a new one for the same chat
are different locks; that is the hazard of `_cleanup_chat_locks`.

| Code | Model |
| --- | --- |
| a daemon's envelope | `Arrive` |
| one tick: `sorted(INBOX.glob(...))`, then each file | `List`, then `Submit` or `Skip`, `Attach` |
| `_route_key`, `_peek_side_channel` | `RouteKey` |
| choice of the pool, its size | `PoolOf`, `Workers` |
| `_cleanup_in_flight`, `_cleanup_chat_locks` | `CleanupInFlight`, `CleanupChatLocks` |
| the pool starts the runner; `_chat_lock_for` | `BeginTurn` (`BeginUnlocked` for side channels) |
| `with lock:` | `AcquireLock` |
| `process_one`: handled, raises, unparsable | `ProcessOne`, `ProcessOneRaises`, `QuarantinePoison` |
| the runner's `except` and `finally` | `Quarantine`, `Leave` |
| SIGTERM flag, `_drain_and_exit`, its budget | `Terminate`, `DrainComplete`, `DrainTimeout` |
| Ctrl-C: `shutdown(cancel_futures=True)`, the interpreter joins | `Interrupt`, `Joined` |
| kill; start | `Kill`; `Boot` |

Abstractions: what happens inside `process_one` is one step, its end (this is
the turn; `begun` counts its entries). `submit_inbox_item` up to `pool.submit`
is one step because only the main thread enters messages and the peek reads a
file that no runner of that message touches yet. A worker that takes a runner
fetches its lock in the same step: whichever order two workers do that in, the
locks they get are the same. Ages are not counted: any entry, and any lock that
nobody holds, may be old enough. `LongWaits` names the one age that matters: if
FALSE, a runner does not wait for a lock longer than `CHAT_LOCK_IDLE_TTL`
(default 24 hours, `adapter.py:1209`), so a lock somebody waits for is not idle.
The code has no such guard (`_cleanup_chat_locks` looks whether a lock is held,
not whether it is waited for): its docstring relies on the same ("Skips locks
currently held by a runner"), and so do `ChatSequential` and the refinement: with `LongWaits = TRUE` TLC finds two
turns of one chat side by side after 13 steps. A lock that is fetched and not
yet asked for is covered by the same assumption. `RouteKey` falls back to the
message's own key when the file is gone or cannot be parsed; `_peek_envelope`
(`adapter.py:14065`) does so at any `OSError`, also a passing one, and such a
message would run beside its chat's turns: files that are there can be read, in
the model.

### CompletionNotify

Every call that reads a record and writes it back without the lock is two
actions (`ClaimRead`/`ClaimWrite`, `VoiceRead`/`VoiceWrite`,
`MarkRead`/`MarkWrite`); so is `_fail_terminally` (`GiveUp`/`FailWrite`).

| Code | Model |
| --- | --- |
| adapter: `register`, `register_run`, spawn | `Register` |
| worker: `claim`, the work, `attempt_finished(ok=True)`, `attach_voice`, `mark_done` | `ClaimRead` … `MarkWrite` |
| worker killed, or it leaves a failed attempt to the supervisor | `ProducerDies` |
| `supervise`: relaunch, or `_fail_terminally` | `Resume`, `GiveUp`, `FailWrite` |
| `deliver_ready`: the scan reads a record | `Notice`, `Prune` |
| stale lock: `stat`, `rename` + `unlink` | `Stat`, `Steal` |
| `O_EXCL` create; re-read under the lock | `Claim`, `Reread` |
| envelope, existence check, delivered mark, unlink of the lock | `Emit`, `Check`, `MarkDelivered`, `Unlock` |
| dead-producer reap | `Reapable`, then `Claim`, `Reread`, `ReapWrite`, `Unlock` |
| poller killed; `CN_LOCK_STALE` passes | `PollerDies`; `LockAges` |
| `purge_user` | `Purge` |

Abstractions: a record's text is whether it is the worker's result or a report
of failure; a poller's scan visits records in some order (`Notice` picks any);
the condition of the reap (record, pid, run record) is one step, like the read
and the unlink of a prune; a lock grows old only if its poller is dead, i.e. no
delivery of a living poller, the synthesis of its voice included
(`completion_notify.py:852`), takes longer than `CN_LOCK_STALE`: a slower one
would be robbed of its lock, and the model does not show it. The reap judges by
the pid in the record; in the model that is the worker itself, so a pid that was
used again, or never stamped, is left out. So is a failing write of
`attempt_finished`, which its callers swallow (`bg_task_worker.py:528`,
`task_supervisor.py:592`); `TaskSupervisor` has it. `LateWorkers`
says whether a worker that the supervisor took for wedged may still write after
its termination; `OrphanReaper` is the feature flag of the same name.

### TaskSupervisor

The run record of a task is read by whoever needs it, changed in memory, and
written back whole; only the relaunch is under a lock file. So each pass of
`supervise` over the record is a walk through the stages `idle`, `consult`,
`judge`, `clear`, `fail`, `close`, `stat`, `steal`, `claim`, `reread`, `spawn`,
`record`/`postpone`, `unlock`, with the poller's own `copy` of the record; a
worker walks `starting`, `stamping`, `running`, `reporting` or `failing`,
`marking`, `over`, with its own.

| Code | Model |
| --- | --- |
| `register_run`, then the adapter's launch | `Init`, `LaunchFails` |
| `get_run` and `attempt_started` | `StartRead`, `StartWrite` |
| `attempt_finished`: read, then write | `FinishRead`, `FinishWrite` |
| `classify_failure`, `_record_classified_failure` | `Classified` |
| `mark_done` on the completion record | `MarkDone`, `Marked` |
| the heartbeat stops | `GoesSilent` |
| the scan; `_completion_state` | `Scan`; `Consult` |
| alive, silent, dead, in its grace; `_terminate` | `Healthy`, `Judge` |
| the pid is cleared and the failure classified | `Clear` |
| budgets, backoff | `Spent`, `Verdict` |
| `_fail_terminally` | `Fail`, `Close` |
| spawn lock: stat, rename, `O_EXCL`, unlink | `Steal`, `Claim`, `Unlock` |
| re-read; launch; record of it | `Reread`; `Spawn`; `RecordLaunch`, `Postpone` |
| a process dies | `WorkerDies`, `PollerDies` |
| time | `GraceOver`, `BackoffOver`, `BudgetOver`, `LockAges`, `Prune` |
| delivery; `purge_user` | `Deliver`; `Purge` |

Abstractions: of the record's times the model has what they decide (`grace`,
`wait`, `budget`), of its attempt log the number of transient failures at its end.
A time that passes is passed for every copy that will still be written, since
whoever writes the record writes the same time stamps back. A pid is not reused.
The completion record is what `_completion_state` and `mark_done` see of it.
Heartbeats are a set of workers that have fallen silent. Runs with supervision
off, which `supervise` skips, and the slowing of a crash loop by its backoff
(`next_attempt_at`, which a property would have to count in time) are left out.
The slips are: a write that undoes another's launch, report or retirement; a
launch nobody recorded; a lock file removed under its holder; a silent worker
that survives SIGTERM; a first worker slower than `SUP_LAUNCH_GRACE`; a failing
write of `attempt_started` or `attempt_finished`.

### PeerExchange

| Code | Model |
| --- | --- |
| `send`, `_send_impl`: refused before posting, direct, then relay | `Post` |
| the answer, or none, or provably not delivered | `Answered`, `TimedOut`, `Unreached` |
| `_keep_in_outbox`, `enqueue` | `Keep` |
| `update`, `close`, `_persist`, `_rewrite` | `Update`, `Close`, `Store` |
| `drain`, `_drain_one` up to the query | `Drain` |
| `task_status` and what follows | `Ask` |
| the mark before the attempt | `Mark` |
| `cancel`, `erase_peer` | `Cancel`, `Erase` |
| restart of the sender, `_load` | `SenderDies` |
| nonce, rate limit, audit, stage "delivered" | `Receive`, `Refuse` |
| an envelope seen before | `Replay` |
| worker slot, stages "accepted" and "processing" | `Admit` |
| worker, final stage, answer | `Finish`, `Answers` |
| `record_stage`, `_advances` | `Record`, `Advances` |
| `_MAX_LIVE`, `erase_origin` | `Forget` |
| restart of the receiver, `_load` | `PeerDies`, `AfterRestart` |

Abstractions: an envelope is a number; the answer to it may come at any time
until the sender has stopped waiting; `maybe_delivered` and `stale_until` are
the entry's `sent`: "no", "held" while `stale_until` is in the future, which
passes when the sender is not waiting (`HoldOver`), and "maybe" after it.
`stale_until` is chosen so that the relay has by then
nothing left of the envelope and the peer drops what it gets after its
deliver-by; a copy posted directly carries no deliver-by and is accepted for
`_TIME_WINDOW_S` (300 s, against a hold of about 105 s): if one is still on its
way then, that is the slip "straggler". `MIN_ATTEMPT_GAP_S` and `next_at` only
delay, and are part of `Due`'s nondeterminism: `Drain` may always wait. The other
slips are "rollback" (the sender's mark did not reach its file and it died),
"forgotten" (the receiver lost or dropped the stage of the task) and "doubled"
(the relay gave the envelope to two connections of the peer). "accepted" and
"processing" are one stage, since nothing happens between them; "timeout" is a
failure. A run whose result is "filtered", for which an empty one suffices, is
"completed" at the peer ("that is a finished task, not a failure",
`remote_trigger_receiver.py:1581`) and answered with something else than "ok",
which the sender closes as "failed"; so does an answer that fails the sender's
checks of its signature, its instance or its attachments
(`remote_trigger_sender.py:1613`-`1727`). Answers that the peer has not given (an
envelope reflected to the sender, an unsigned refusal of an old version) are left
out.

`PeerMessage` is the same without envelopes, marks, nonces and stages: `verdict`
is the state of the outbox's entry; `reached`, `started`, `running` and `done`
say whether some envelope has been let in, has had a worker, has one and has been
completed; `excuses` are the slips, "lost" for the three that lose track of a
copy and "doubled". A verdict is given only if it is founded (`Founded`), which
relates two machines at that instant, and is final until the message is erased.
"sent" says that the peer has completed the work. "failed" says less: the peer
does not work on the message, and will not, because it has refused it, has never
been sent it, or has come to an end of which the sender has no result to show;
the work may have been done.

### ChatTurn

A chat's turns run one after the other in its worker (that is `ChatSequential`
of `BridgeDispatch`); `/btw` and `/stop` run on side threads. The engines are of
two kinds: `live` ones (Claude Code) are written to while they run and are
registered when they have a process; `buffered` ones (Codex, OpenCode) are
registered before they have one and get notes with their next prompt.

The first result is not the end of a live engine. Its process works on what it has
begun in the background, and what comes of that wakes it for further turns
(ADR-2236, `claude_code.py:1215`); the adapter takes the first result, stops writing
to the engine, and goes on reading until the stream ends (`adapter.py:6546`). So
`Says`, `Hears` and `Ends` are three actions: from the first result on a note can no
longer reach the engine, but a `/stop` still finds the process in
`_running_subprocs` and kills it. The turn may then come back with the text it has
kept, or with a closing line of the adapter's, although "Task aborted" has been said,
and is recorded as cancelled, because the process has not ended well
(`adapter.py:7092`). A process that stays at work beyond its cap is ended by the
adapter itself, which does not hold that against it (`capped`).

| Code | Model |
| --- | --- |
| `_open_turn_task`, `_close_turn_task` | `Open`, `Close`, `Recorded` |
| `_mark_turn_active` | `Activate`, `TurnActive` |
| gates, budget, routing refuse | `Refuse` |
| `drain_btw_buffer` before the spawn | `Drain` |
| `_register_engine`, `_register_subproc`; `engine.spawn` | `Register`, `Spawn`, `SpawnFails` |
| the engine's text or first result; the result is taken up | `Says`; `Hears` |
| the stream ends, or is ended at a cap | `Ends` |
| the retries of the Claude path | `Retry` |
| `_turn.report`, `_turn_refused`; what is returned | `Report`; `Replies` |
| the `finally` clauses | `Unregister` |
| `inject_btw`, `dispatch_btw` | `Inject`, `Append` |
| `process_one`, `/btw` | `Check`, `Queue` |
| `_cancel_chat`, `_cancel_chat_impl` | `Stamp`, `Look`, `Kill`, `Withdraw` |

Abstractions: a list taken from the note buffer is named by the number of
drains before it, so that a list that a turn has taken and the one that follows
are different. The two reads of `_cancel_chat_impl` and its two removals are one
step each. A kill takes down what was found; `engine.cancel()` of an engine
without a process is remembered by it (`latched`). `outcome` is the event
`_close_turn_task` records; `reply` is what the turn comes back with: the engine's
text, a line of the adapter's, nothing, or an exception. Left out: a stop that fails
half way (`adapter.py:1586`, which withdraws the stamp whatever it has stopped so
far), an `engine.cancel()` that raises, and a process that ends by itself, and well,
between SIGTERM and SIGKILL.

### RunEvents

| Code | Model |
| --- | --- |
| `append`: under the lock; then `_schedule_put` per queue | `Emit`; `HandOut` |
| `_run_one` starts the engine's thread | `Spawn` |
| `_set_terminal`, `close` under the lock; then the queues | `Settle`; `SayFarewell`, `SliceEnds` |
| the early return when the record is gone | `Settle`, after `Vanish` |
| `call_soon_threadsafe(q.put_nowait, ...)` | `RunCallback` |
| `stream_run_events`, `subscribe` | `Connect`, `Read`, `Leave` |

The engine's thread may go on after the task has settled the run (that is how
`asyncio.wait_for` leaves it). Between two steps of the task's closing slice the
loop does nothing else (`LoopFree`), while the engine's thread goes on. A client
that leaves during the replay leaves its queue in the buffer, because the
generator is not inside its `try` yet; the model has that and no property
forbids it. Left out: the buffer of a run that was never dispatched by this
process (one frame is sent), a task cancelled at a gate by the drain, and
`sweep_expired`, which nothing calls: buffers are kept for the life of the
process, although a docstring says that the dispatcher schedules it.

## The runs

| Run | Bounds | States | Shows |
| --- | --- | --- | --- |
| `gateway_runs` | 2 runs, one with a webhook, 1 retry; 1 crash, 1 shutdown, 1 queue failure, 1 lost record | 0.57 M | all safety and liveness of the gateway, and that it implements `RunLifecycle` |
| `gateway_stranded_crash` | 1 run, 1 crash | – | counterexample to `NoStrandedRun` |
| `bridge_dispatch` | 2 turns of one chat and a side-channel message, 2 workers; 1 mishap of any kind | 0.62 M | safety of the bridge, and that it implements `ChatInbox` |
| `bridge_live` | a turn, a side-channel message, an unparsable envelope, 1 worker; 1 mishap; `LongWaits` | 0.17 M | liveness of the bridge |
| `bridge_order` | 2 turns of one chat | – | counterexample to `ChatOrderKept` |
| `completion_notify` | 1 record, 2 pollers, 2 attempts; 2 mishaps | 0.25 M | safety and liveness of the queue |
| `notify_steal` | 1 record, 2 pollers, 1 mishap | – | counterexample to `OneDeliverer` |
| `notify_lost` | the same | – | counterexample to `DeliveredWasSent` |
| `task_supervisor` | 2 pollers, 2 attempts, 3 workers; 1 mishap, no slip | 1.1 M | safety of the supervisor, and that it implements `SupervisedTask` |
| `peer_exchange` | 3 envelopes; 2 mishaps | 0.89 M | the exchange: once, known, in the end closed, and that it implements `PeerMessage` |
| `chat_turn` | 2 turns, 2 attempts each, 1 note, 2 stops | 8.7 M | the registers of a chat |
| `run_events` | 2 clients, 2 events | 0.24 M | what a client is sent, and that its stream ends |

Why the bounds are enough. Runs of the gateway share only the loop and the
queue, so two of them show every interference; one crash and one shutdown
already put a restart after each step of each slice, a second restart (after the
shutdown or the crash) included, and one failing call of the queue is placed at
any of the calls. Turns of different chats share only the pool, so the bridge
is checked on one chat, with two turns for the exclusion and a third message for
the pool that does not wait; one mishap is a kill, a stop, a failing call or a
dropped lock at each point of each interleaving. Two of them (4.7 M states, no
violation) only repeat the first one's restart, and the proofs, which cover each
property of this run, allow any number. Records of the completion queue share
nothing, as every file is named by the task, so one record stands for all; two
pollers are the two sides of every race over its lock, and with two mishaps both
may die. In the supervisor two pollers are the two sides of every race, and a
third worker is one more than two attempts allow; the states after a slip are
not explored (a constraint), as every property there excepts them. In the
exchange three envelopes are a first attempt, a retry, and a retry that follows
one that may have been delivered. Notes do not meet in a chat, stops do; two
turns put each command before, in, between and after turns. Clients meet only in the order in which queues are served,
which two of them have; two events are one that got through and one that was on
its way, and three of them pass as well. What these small instances cannot exclude
is what the proofs are for: they cover every safety property of every module.

Deadlock is not checked: each of these systems may rest with nothing to do.

The properties, by what they say beyond one step:

- `EngineAtMostOnce`, `WebhookBounded`, `ActiveRunsQueued`, `RunningHasDriver`
  relate the record, the row and the task over any number of restarts.
  `QueuedRunStarts` and `RunningRunEnds` name the only ways a run can be left:
  a failed sweep, an interruption, a lost record.
- `ChatSequential` and `RunnersRegistered` say that no cleanup, late attachment,
  restart or drain opens the window in which a message or a chat is handled
  twice; `TakenUpOnce` charges every further execution to a death or a fault.
- `SideChannelServed` holds although turns are given no fairness at all;
  `MessagesLeave` assumes that turns end.
- `SentOnce` charges every further envelope to a lock removed by another, a mark
  that could not be written or a producer's late write; pollers among
  themselves never send twice. `ResultReachesUser` says that an acknowledged
  result is what the user gets. `ReadyIsDelivered` and `DeadWorkerSettled` are
  the recovery promises, with the one known exception, a lock left on a
  *pending* record (only the ready path steals locks), named in the property.

- `OneWorker` says that pollers with stale copies do not launch beside each other
  as long as no slip has happened; `ImplementsSupervisedTask` adds that they do not
  launch beyond the budget, nor for a task whose result is queued, and that a
  worker is gone when its result is. `ResultKept` relates the supervisor's
  decision, taken on an old copy, to a worker that has finished since: a report of
  failure can displace a waiting result in one way without a slip, when the budget
  of time runs out between two pollers' looks at the clock, one reports and the
  other relaunches; it is named by the overtaken copy (`outdated` in
  `SupervisedTask`).
- `RunsOnce` and `RanIsKnown` relate the two sides of the exchange through
  losses, restarts and copies in flight; `ImplementsPeerMessage` says that what
  the sender is told ("sent", "delivered", "failed", in the sense given with
  `PeerMessage`) is so at the peer when it is told, stays so, and is not taken back
  by a late answer; `ClosedNotPosted`
  says that a withdrawn message stays withdrawn, `WaitingCloses` that the
  deadline holds whatever the peer and the network do.
- `NotesKept` accounts for every acknowledged note; the exception is the list
  that a turn takes between `inject_btw`'s two accesses to it. `StampMeansStop`,
  `StoppedIsCancelled` and `AbortedNotAnswered` relate a stop to the turn it
  found, through turns that end, fail, are retried, go on after their first result
  or begin meanwhile. `AbortedNotAnswered` is about an attempt that is stopped before
  its engine has said anything: it does not come back with a text of that engine. Of
  an attempt that had something to say when it was stopped nothing of the kind is
  true, see above.
- `SeenInOrder` says that the k-th event a client is sent is the k-th of the
  log, wherever the replay ends and the live stream begins, and `EndedSawAll`
  that a client whose stream has ended has been sent all of them; `late` names
  the queues an event was still on its way to when the buffer closed, the only
  ones that can miss it or see it after the end. `StreamEnds` excepts a lost
  record, for which `_set_terminal` returns before it closes the buffer.

`completion_notify` sets `LateWorkers` to FALSE. With TRUE and one mishap, TLC
finds no violation of the safety properties in 1.3 million states.

## Fairness

- *Gateway.* Weak fairness of every run's task: the loop resumes whatever can go
  on, gates answer, and the engine ends or `asyncio.wait_for` ends it. Weak
  fairness of the drain's steps (both waits have a timeout) and of `Boot` (the
  service manager restarts the process). None on requests, crashes, webhooks or
  lost records.
- *Bridge.* Weak fairness of the main loop, of each runner outside its turn, and
  of handling what has no turn (side channels, poison). Strong fairness of
  `CleanupInFlight`: the sweep comes at the end of a tick, which disables it
  while files are being submitted, and comes back for ever. No fairness on
  turns: an engine may hang, and `SideChannelServed` must hold then too.
- *Completion queue.* Weak fairness of a poller inside `deliver_ready`, of the
  passing of `CN_LOCK_STALE`, and of the supervisor once a worker is gone; strong
  fairness of noticing a record, since a poller that is busy elsewhere returns to
  it at every poll. No fairness on workers: they may hang for ever.
- *Exchange.* Weak fairness of the sender's steps (its task ticks for ever, a
  send has a timeout) and of the passing of the deadline. None of the peer, of
  the network, or of restarts.
- *Event stream.* Weak fairness of the loop's callbacks and of each client's
  reading; of the task's settling once the engine has been started, because
  `asyncio.wait_for` bounds it. None of the gates, which have no timeout, of the
  engine, or of clients' comings and goings.
- *Supervisor, chat turn.* None: only safety is checked.

## The proofs

Seven modules prove what the runs check of safety, all of it, for any set of
runs, messages, records, pollers, notes, stops and clients, and for any number of
crashes, mishaps, launches, envelopes, turns and events:

| Module | Theorem | States |
| --- | --- | --- |
| all seven | `TypeCorrect` | `Spec => []TypeOK` |
| `GatewayRuns_proofs` | `EngineSpawnedAtMostOnce` | `Spec => []EngineAtMostOnce` |
| | `WebhookIsBounded` | `Spec => []WebhookBounded` |
| | `RecoveryFindsActiveRuns` | `Spec => []ActiveRunsQueued` |
| | `RunningRunsAreDriven` | `Spec => []RunningHasDriver` |
| | `GatewayImplementsLifecycle` | `Spec => ImplementsRunLifecycle` |
| `BridgeDispatch_proofs` | `LiveRunnersAreRegistered` | `Spec => []RunnersRegistered` |
| | `MessagesAreTakenUpOnce` | `Spec => []TakenUpOnce` |
| | `TurnsAreSequential` | `~LongWaits => (Spec => []ChatSequential)` |
| | `DispatchImplementsInbox` | `~LongWaits => (Spec => ImplementsChatInbox)` |
| `CompletionNotify_proofs` | `SentOnceTheorem` | `Spec => []SentOnce` |
| | `ResultReachesUserTheorem` | `~OrphanReaper => (Spec => []ResultReachesUser)` |
| `TaskSupervisor_proofs` | `OneWorkerTheorem` | `Spec => []OneWorker` |
| | `ResultIsKept` | `Spec => ResultKept` |
| | `SupervisorImplementsTask` | `Spec => ImplementsSupervisedTask` |
| `PeerExchange_proofs` | `RunsOnceTheorem` | `Spec => []RunsOnce` |
| | `RanIsKnownTheorem` | `Spec => []RanIsKnown` |
| | `ClosedNotPostedTheorem` | `Spec => ClosedNotPosted` |
| | `ExchangeImplementsMessage` | `Spec => ImplementsPeerMessage` |
| | `VerdictStaysTrue` | `Spec => []Message!Founded(entry.state)` |
| `ChatTurn_proofs` | `NotesKeptTheorem` | `Spec => []NotesKept` |
| | `StampMeansStopTheorem` | `Spec => []StampMeansStop` |
| | `StoppedIsCancelledTheorem` | `Spec => []StoppedIsCancelled` |
| | `AbortedNotAnsweredTheorem` | `Spec => []AbortedNotAnswered` |
| `RunEvents_proofs` | `LogIsSeenInOrder` | `Spec => []SeenInOrder` |
| | `EndedStreamsAreWhole` | `Spec => []EndedSawAll` |

They assume `ConstantsOK` (in `ChatTurn`, `TurnsOK`, in `RunEvents`, `EventsOK`)
of each module and nothing else; `LongWaits` and `OrphanReaper` are hypotheses
where they are named. Each module first defines its inductive invariant `IInv`,
which TLC has checked on the instance of the run before it was proved; then come
one lemma per action, or per group of actions that disturb the same part, and
the theorems last. Where a property excepts a slip, so does the invariant: a
part of it is stated only while the slip has not happened, and a step that slips
makes it void.

*Gateway.* `EngineAtMostOnce` is not inductive: a state with a task at `meter`
and a spawn already counted satisfies it and steps out of it. `StageInv` says
what each stage knows: before the engine nothing is counted, and a task between
`gate` and `settle` has a record that is `running` or lost, so that the
idempotency check cannot let a second one in. `LoopInv` makes a slice exclusive,
which is what keeps the record between `WriteTerminal` and `Notify` from
changing; `HookInv` ties the webhook's history to the record.

*Bridge.* `RunnersRegistered` needs `EntryInv`: while the main loop runs, an
entry without a future has no runner, except the one about to be attached.
That is what makes `_cleanup_in_flight` safe, and it fails if the sweep could run
between submit and attach. `ChatSequential` needs `LockInv`: whoever waits for
or holds a chat's lock has the one in the table; creation, cleanup and death
preserve it. `QueueInv` says that a future is queued once, `KeyInv` what a runner
knows of its envelope, and `BegunInv` is the account behind `TakenUpOnce`.

*Completion queue.* `Covered` is an account. What has been sent, plus the
pollers that may still send although the lock is no longer theirs (`Lost`), plus
the one envelope the rightful holder of the lock can send (`Sendable`), is at
most one more than the events in `again`. Most steps leave the account alone
(`Calm`); a steal, a reap or a late write moves an entry from one side to the
other. `ResultReachesUser` needs to know where a text comes from: `WorkerInv`
says that an acknowledgement is the end of the task, `FailureInv` that a failure
is written, read and sent only for a task that has ended without one. The reaper
of orphans, off by default, is excluded by hypothesis, and has to be: it may
take a worker that never claimed its record for dead, as its docstring says
(`completion_notify.py:933`), and with the flag set TLC finds a failure written
over the result of such a worker.

*Supervisor.* As long as no slip has happened, workers are numbered by the
attempts of the record: only the last one launched may live, and the record
names it or leaves it its grace (`TaskInv`). Whoever decides to launch has a copy
of the record that is too old, which the re-read under the lock will show, or has
seen that worker dead; whoever is past the re-read has the lock and there is
nobody alive (`PollerInv`). The run constrains the slips to none; the proofs do
not, any number of them may happen.

*Exchange.* `RepeatInv` is the argument behind "a retry can never run a message
twice": when the next envelope is posted, every earlier one is neither on its
way nor let in (`Quiet`), because the entry says that nothing was sent, or
because the hold has passed and the peer has been asked. `RefusalInv` says the
same of an envelope that was refused; `KnownInv` ties the peer's stages to what
it has let in; `ArrivalInv` and `SendInv` say what nonces, answers and the
sender's stage imply. `TruthInv`, kept beside them, says what a verdict in memory
or in the file, an answer or a stage is evidence of; the refinement needs it of
the file too, since a restart goes back to it.

*Chat turn.* `StampInv` and `RobInv` are the two directions of a stamp: whose it
is, and for whom it must still be there. They rest on `TargetInv` (a stop has
found only attempts that have begun), `CutInv` (what was stopped, was stopped by
a stop that has answered, in a turn that has begun) and `RegisterInv` (what is registered belongs to the turn that is open).
`SilenceInv` and `RunInv` carry `AbortedNotAnswered`: an attempt that was stopped in
silence stays latched or killed and says nothing more, and an answer needs an engine
that has said something (`NextSilenced`, `RunInv`). `NoteInv` counts the uses of a note by where it is.

*Event stream.* What a client will have been sent in the end is what it has seen,
followed by what is in its queue, followed by the callbacks that will put
something there, followed, if the thread is in the middle of handing out, by the
event in its hand. `StreamInv` says that this concatenation is the log and its
end, element by element: `Place(n, m, item)` is the place at which an item must
stand when the log has n events and the last of them comes m items later than it
should. m is 0 for whoever was served in order; for a queue to which the last
event was still on its way when the buffer closed (`late`) it is 0, 1 or 2, before,
between or after the two items of the end, as far as these have been said
(`Delays`). The invariant quantifies over m instead of carrying it in a history
variable. Places are compared one by one, so no induction over sequences is
needed; `SeenInOrder` then counts the events among the first items sent.

*The refinements.* They follow from the invariant and one step per action: a step
of the gateway is a step of the life cycle or leaves `status`, `spawns` and
`fired` alone; a step of the bridge begins, ends or drops a message, or leaves
`where` and the handled set alone; a step of the sender reports something or
nothing (`ReportIsStep`), and a step of the peer lets in, starts, ends, or slips;
a step of the supervisor or of a worker launches, ends, finishes, fails or ponders,
and after a slip nothing is promised but that what is delivered stays delivered.

*Only model-checked.* Liveness: `QueuedRunStarts`, `RunningRunEnds`,
`SideChannelServed`, `MessagesLeave`, `ReadyIsDelivered`, `DeadWorkerSettled`,
`WaitingCloses` and `StreamEnds`, since the prover does not reason about
fairness. The fairness conditions of a specification play no part in the
theorems, which hold of `Init /\ [][Next]_vars`.

## What the code does not do as documented

| Run | Documented | What happens |
| --- | --- | --- |
| `gateway_stranded_crash` | a crash "doesn't strand the run" (`dispatcher.py:542`) | the sweep submits the run, `_run_one` sees `running` and returns; the run stays `running`, its row stays in the queue, at every start |
| `bridge_order` | items of a chat "keep their order" (`adapter.py:14102`) | two workers take the two messages and ask for a lock that does not queue its waiters |
| `notify_steal` | "exactly one poller moves the stale file away" (`completion_notify.py:815`) | the rename is by name: the slower poller moves away the fresh lock the faster one has made since, and both send |
| `notify_lost` | the direct write is the fallback so that a completion is not "silently lost to a house-rules false-positive or a broken gate" (`completion_notify.py:529`) | `_write_outbox_direct` returns FALSE, nobody looks, the record is marked delivered |

Four more statements are true only up to the exceptions that a property names:

- "two pollers in the same second can never double-launch a worker"
  (`task_supervisor.py:838`): not if one of them writes its old copy of the
  record over the other's launch, or dies before it has recorded its own
  (`OneWorker`, the slips).
- "a retry can never run a message twice" (`a2a_outbox.py:7`) holds but for a receiver that has
  dropped the task from its memory, a sender that lost its mark, and a direct
  copy older than the hold (`RunsOnce`).
- "Task aborted" (`adapter.py:12775`) may be said of an attempt whose error then
  counts as transient: the retry runs and answers; and of a process that had given a
  result before: what the turn holds of it is still sent (`AbortedNotAnswered`). And a
  second `/stop` withdraws the stamp of the first (`StoppedIsCancelled`).
- "Not delivered — the peer stayed offline until the deadline"
  (`a2a_outbox.py:397`) is also said of a message that was posted, and may have
  been worked on, when the peer could not be asked afterwards.

## What is left out

- Everything a turn does between its start and its end (prompt, roles, gates,
  voice, commands): one step of `BridgeDispatch`; `ChatTurn` has the registers
  that `/btw` and `/stop` use, and a turn's engine as what these see of it.
- Notes that a failed attempt has taken are not in the prompt of its retry; the
  model has that, and no property says otherwise.
- Contents: prompts, results, envelopes, signatures, audit details.
- Time: every timeout may fire whenever what it waits for has not happened;
  every age may be reached. The two places where an age must not be reached are
  named above (`LongWaits`, `LockAges`).
- In the gateway, failing writes of a run's record; in the queue, `send_interim`, `count_active`, `get_recently_completed`
  and the ledger, which change nothing another step reads.
- Components without a protocol of their own (user interfaces, installers,
  policies that answer one question, daemons that only copy) and experimental
  subsystems beside the main path; `PROJECT.json` says which and why.

## Plan

Done: the two dispatchers, which all work of the system passes through; the
completion queue and the supervisor of background tasks; the control of a chat's
turn; the exchange between two agents; the event stream; the proofs of the safety
of all these, and four refinements.

Open, in the order of their worth:

1. `CompletionNotify` sees the supervisor as one that launches only when no worker
   is left and decides in one step; `TaskSupervisor` has the decision and the races
   in it. To be done: let a relaunch and a give-up of the former race as they do in
   the latter (or in `SupervisedTask`, which the queue could use in its place),
   compose the two, and redo the queue's proofs.
2. The hash-chained audit log: append under a file lock, rotation, a torn line.
3. The scheduler's restart between fire and save, which feeds the inbox.
