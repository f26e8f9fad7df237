--------------------------- MODULE TaskSupervisor ---------------------------
(***************************************************************************)
(* The supervisor of one background task (task_supervisor.py).  The        *)
(* adapter registers a run record and launches a worker; from then on the  *)
(* pollers (the adapter's main loop and the timer of bg_monitor) call      *)
(* supervise, which relaunches a worker that is dead or silent, within a   *)
(* budget of attempts and of time, or reports the failure.                 *)
(*                                                                         *)
(* Everybody reads the record, decides, and writes it back whole; only the *)
(* launch is under a lock file.  A poller or a worker may die anywhere.    *)
(* Records of different tasks are different files, so one task is all.     *)
(***************************************************************************)
EXTENDS Naturals, FiniteSets

CONSTANTS Pollers,      \* the processes that call supervise
          MaxAttempts,  \* max_attempts of the run
          MaxLaunches,  \* bound: worker processes there can ever be
          MaxMishaps,   \* bound: failing calls, dead pollers, silent workers
          MaxSlips      \* bound: slips (see there) after which states are explored

Workers == 1..MaxLaunches

ASSUME ConstantsOK ==
    /\ MaxAttempts \in Nat \ {0}
    /\ MaxLaunches \in Nat \ {0}
    /\ MaxMishaps \in Nat /\ MaxSlips \in Nat
    /\ Pollers \cap {"none", "left", "old", "nobody"} = {}

VARIABLES
    \* on disk
    rec,        \* the run record
    completion, \* the completion record: "pending", whose text is ready, "closed"
    lock,       \* the spawn lock: a poller's, or left by a dead one, or old
    \* the workers
    stage,      \* what each worker is about to do
    own,        \* the record it has read
    silent,     \* the workers whose heartbeat has stopped
    \* the pollers
    pc,         \* what each poller is about to do
    copy,       \* its copy of the record
    child,      \* the worker it has just launched
    \* history
    launches,   \* workers launched
    slips,      \* events after which two workers may work on the task
    mishaps

disk    == <<rec, completion, lock>>
workers == <<stage, own, silent>>
pollers == <<pc, copy, child>>
history == <<launches, slips, mishaps>>
vars    == <<disk, workers, pollers, history>>

\* pid 0 is None; streak counts the transient failures at the end of the
\* attempt log.  The rest compares the record's times with now: the last launch
\* is younger than SUP_LAUNCH_GRACE, next_attempt_at lies ahead (for good, after
\* a permanent failure), the total budget of time is spent.
Record == [state: {"active", "done", "gone"}, pid: 0..MaxLaunches, attempts: 0..MaxAttempts,
           streak: 0..2, grace: {"on", "over"}, wait: {"no", "backoff", "never"},
           budget: {"left", "spent"}]

Gone == [state |-> "gone", pid |-> 0, attempts |-> 0, streak |-> 0,
         grace |-> "over", wait |-> "no", budget |-> "left"]

LiveStages == {"starting", "stamping", "running", "reporting", "failing",
               "marking"}
Stages == {"idle", "consult", "judge", "clear", "fail", "close", "stat", "steal",
           "claim", "reread", "spawn", "record", "postpone", "unlock"}

TypeOK ==
    /\ rec \in Record
    /\ completion \in {"pending", "result", "failure", "closed"}
    /\ lock \in Pollers \cup {"none", "left", "old"}
    /\ stage \in [Workers -> LiveStages \cup {"none", "over"}]
    /\ own \in [Workers -> Record]
    /\ silent \subseteq Workers
    /\ pc \in [Pollers -> Stages]
    /\ copy \in [Pollers -> Record]
    /\ child \in [Pollers -> 0..MaxLaunches]
    /\ launches \in Workers
    /\ slips \in Nat /\ mishaps \in Nat

\* register_run has written the record, and the adapter launches the worker.
Init ==
    /\ rec = [Gone EXCEPT !.state = "active", !.attempts = 1, !.grace = "on"]
    /\ completion = "pending" /\ lock = "none"
    /\ stage = [w \in Workers |-> IF w = 1 THEN "starting" ELSE "none"]
    /\ own = [w \in Workers |-> Gone]
    /\ silent = {}
    /\ pc = [p \in Pollers |-> "idle"]
    /\ copy = [p \in Pollers |-> Gone]
    /\ child = [p \in Pollers |-> 0]
    /\ launches = 1 /\ slips = 0 /\ mishaps = 0

\* What is left of a record once it is retired.
Retired == [Gone EXCEPT !.state = "done"]

Live(w) == stage[w] \in LiveStages
Mishap == mishaps < MaxMishaps /\ mishaps' = mishaps + 1
SlipIf(cond) == slips' = IF cond THEN slips + 1 ELSE slips

\* Somebody has launched, reported or retired since c was read.
Overtaken(c) ==
    <<rec.state, rec.pid, rec.attempts>> # <<c.state, c.pid, c.attempts>>

\* The record is written back whole, as c, by someone who has read it as base.
Write(base, c) == rec' = c /\ SlipIf(Overtaken(base))

\* classify_failure and the rest of _record_classified_failure.
Classified(c, class) ==
    LET k == IF c.streak >= 2 THEN "unknown" ELSE class
    IN  [c EXCEPT !.pid = 0,
                  !.streak = IF k = "transient" THEN @ + 1 ELSE 0,
                  !.wait = IF k = "transient" THEN "no"
                           ELSE IF k = "permanent" THEN "never" ELSE "backoff"]

-----------------------------------------------------------------------------
(* A worker: attempt_started, attempt_finished and mark_done *)

Step(w, from, to) ==
    /\ stage[w] = from
    /\ stage' = [stage EXCEPT ![w] = to]

\* The record is read, and kept if there is a write to follow.
ReadRecord(w, from, to) ==
    /\ Step(w, from, to)
    /\ own' = [own EXCEPT ![w] = IF to \in {"stamping", "reporting", "failing"}
                                THEN rec ELSE Gone]
    /\ UNCHANGED <<disk, silent, pollers, history>>

\* The write succeeds, or fails and the worker goes on regardless, perhaps with
\* nobody knowing that it runs, or that it has finished.
WorkerWrites(w, from, to, c) ==
    /\ Step(w, from, to)
    /\ own' = [own EXCEPT ![w] = Gone]
    /\ \/ Write(own[w], c) /\ UNCHANGED mishaps
       \/ /\ Mishap /\ UNCHANGED rec
          /\ SlipIf((to = "running" /\ rec.pid # w) \/ to = "marking")
    /\ UNCHANGED <<completion, lock, silent, pollers, launches>>

\* get_run and attempt_started: a worker without a record works unsupervised,
\* one whose run is over is not stamped.
StartRead(w) ==
    \/ rec.state = "active" /\ ReadRecord(w, "starting", "stamping")
    \/ rec.state # "active" /\ ReadRecord(w, "starting", "running")

StartWrite(w) ==
    WorkerWrites(w, "stamping", "running",
                 [own[w] EXCEPT !.pid = w, !.grace = "on"])

\* Mutant: a worker that succeeded queues its result and leaves the run open.
FinishUnreported(w) ==
    \/ ReadRecord(w, "running", "marking")
    \/ rec.state # "gone" /\ ReadRecord(w, "running", "failing")

\* attempt_finished: the work is done, or the attempt is over.
FinishRead(w) ==
    \/ rec.state # "gone" /\ ReadRecord(w, "running", "reporting")
    \/ rec.state # "gone" /\ ReadRecord(w, "running", "failing")
    \/ rec.state = "gone" /\ ReadRecord(w, "running", "marking")
    \/ rec.state = "gone" /\ ReadRecord(w, "running", "over")

FinishWrite(w) ==
    \/ WorkerWrites(w, "reporting", "marking",
                    Retired)
    \/ \E class \in {"unknown", "permanent"} \cup (IF w \in silent THEN {"transient"} ELSE {}) :
           WorkerWrites(w, "failing", "over", Classified(own[w], class))

\* mark_done on the completion record refuses one that is gone or delivered.
Marked(text) == IF completion = "closed" THEN completion ELSE text

MarkDone(w) ==
    /\ Step(w, "marking", "over")
    /\ completion' = Marked("result")
    /\ UNCHANGED <<rec, lock, own, silent, pollers, history>>

\* The worker is killed, or the adapter dies before it launches the first one.
WorkerDies(w) ==
    /\ Live(w)
    /\ stage' = [stage EXCEPT ![w] = "over"]
    /\ own' = [own EXCEPT ![w] = Gone]
    /\ silent' = silent \ {w}
    /\ UNCHANGED <<disk, pollers, history>>

\* The adapter cannot launch the first worker and says so.
LaunchFails ==
    /\ Step(1, "starting", "over") /\ Mishap
    /\ completion' = Marked("failure")
    /\ UNCHANGED <<rec, lock, own, silent, pollers, launches, slips>>

\* The heartbeat stops while the process lives: it hangs, or cannot write.
GoesSilent(w) ==
    /\ stage[w] = "running" /\ w \notin silent /\ Mishap
    /\ silent' = silent \cup {w}
    /\ UNCHANGED <<disk, stage, own, pollers, launches, slips>>

-----------------------------------------------------------------------------
(* A poller: one pass of supervise over the record *)

\* The poller goes on with the copy c, which is forgotten at the end.
Goto(p, from, to, c) ==
    /\ pc[p] = from
    /\ pc' = [pc EXCEPT ![p] = to]
    /\ copy' = [copy EXCEPT ![p] = IF to = "idle" THEN Gone ELSE c]
    /\ child' = [child EXCEPT ![p] = IF to = "record" THEN launches + 1 ELSE 0]

Decide(p, from, to, c) == Goto(p, from, to, c) /\ UNCHANGED <<disk, workers, history>>

\* The poller writes c, or the write fails; it goes on with c either way.
PollerWrites(p, from, to, c) ==
    /\ Goto(p, from, to, c)
    /\ \/ Write(copy[p], c) /\ UNCHANGED mishaps
       \/ Mishap /\ UNCHANGED <<rec, slips>>
    /\ UNCHANGED <<completion, lock, workers, launches>>

Scan(p) == rec.state = "active" /\ Decide(p, "idle", "consult", rec)

\* _completion_state: the run of a task that is no longer pending is retired;
\* one whose state cannot be read is left for the next pass.
Consult(p) ==
    \/ /\ completion # "pending"
       /\ PollerWrites(p, "consult", "idle", Retired)
    \/ completion = "pending" /\ Decide(p, "consult", "judge", copy[p])
    \/ /\ Goto(p, "consult", "idle", Gone) /\ Mishap
       /\ UNCHANGED <<disk, workers, launches, slips>>

\* Mutant: a worker is judged by its pid alone, in its launch grace or not.
HealthyByPid(c) == c.pid # 0 /\ Live(c.pid) /\ c.pid \notin silent

\* Alive with a fresh heartbeat, or young.
Healthy(c) == c.grace = "on" \/ (c.pid # 0 /\ Live(c.pid) /\ c.pid \notin silent)

\* Mutant: the last attempt is not counted.
SpentAfterLast(c) == c.budget = "spent" \/ c.attempts > MaxAttempts

Spent(c) == c.budget = "spent" \/ c.attempts >= MaxAttempts

\* Out of budget, backing off, or to be resumed.
Verdict(c) == IF Spent(c) THEN "fail" ELSE IF c.wait # "no" THEN "idle" ELSE "stat"

\* Is the current attempt still alive?  A silent worker gets SIGTERM, which it
\* may or may not heed.
Judge(p) ==
    LET c == copy[p] IN
    \/ Healthy(c) /\ Decide(p, "judge", "idle", c)
    \/ ~Healthy(c) /\ c.pid = 0 /\ Decide(p, "judge", Verdict(c), c)
    \/ /\ ~Healthy(c) /\ c.pid # 0 /\ Goto(p, "judge", "clear", c)
       /\ \/ /\ Live(c.pid)
             /\ stage' = [stage EXCEPT ![c.pid] = "over"]
             /\ own' = [own EXCEPT ![c.pid] = Gone]
             /\ silent' = silent \ {c.pid}
             /\ UNCHANGED slips
          \/ SlipIf(Live(c.pid)) /\ UNCHANGED workers
       /\ UNCHANGED <<disk, launches, mishaps>>

\* The failure is classified as transient and written at once.
Clear(p) ==
    LET c == Classified(copy[p], "transient") IN PollerWrites(p, "clear", Verdict(c), c)

\* _fail_terminally: mark_done first, then the record.
Fail(p) ==
    /\ Goto(p, "fail", "close", copy[p])
    /\ completion' = Marked("failure")
    /\ UNCHANGED <<rec, lock, workers, history>>

Close(p) == PollerWrites(p, "close", "idle", Retired)

\* x removes the lock file that lies there by now.
Remove(x) == lock' = "none" /\ SlipIf(lock \in Pollers \ {x})

\* An old spawn lock is renamed away by its name.
Steal(p) ==
    \/ lock = "old" /\ Decide(p, "stat", "steal", copy[p])
    \/ /\ Goto(p, "steal", "claim", copy[p]) /\ Remove("nobody")
       /\ UNCHANGED <<rec, completion, workers, launches, mishaps>>

\* The O_EXCL create wins, or the pass over this record ends.
Claim(p) == \E from \in {"stat", "claim"} :
    /\ from = "stat" => lock # "old"
    /\ \/ /\ lock = "none" /\ Goto(p, from, "reread", copy[p])
          /\ lock' = p
          /\ UNCHANGED <<rec, completion, workers, history>>
       \/ lock # "none" /\ Decide(p, from, "idle", Gone)

\* Mutant: the attempts are not compared with the ones first seen.
UntouchedActive(p) == rec.state = "active"

\* Nobody else has launched, or ended, the run since it was scanned.
Untouched(p) == rec.state = "active" /\ rec.attempts = copy[p].attempts

Reread(p) ==
    \/ Untouched(p) /\ Decide(p, "reread", "spawn", rec)
    \/ ~Untouched(p) /\ Decide(p, "reread", "unlock", Gone)

\* A worker is launched, or the launch fails.
Spawn(p) ==
    \/ /\ Goto(p, "spawn", "record", copy[p])
       /\ launches < MaxLaunches
       /\ launches' = launches + 1
       /\ stage' = [stage EXCEPT ![launches'] = "starting"]
       /\ UNCHANGED <<disk, own, silent, slips, mishaps>>
    \/ /\ Goto(p, "spawn", "postpone", copy[p]) /\ Mishap
       /\ UNCHANGED <<disk, workers, launches, slips>>

Postpone(p) == PollerWrites(p, "postpone", "unlock", [copy[p] EXCEPT !.wait = "backoff"])

Launched(c, w) == [c EXCEPT !.pid = w, !.attempts = @ + 1, !.grace = "on",
                            !.wait = "backoff"]

\* The launch is written, or nobody will know of it.
RecordLaunch(p) ==
    /\ Goto(p, "record", "unlock", copy[p])
    /\ \/ Write(copy[p], Launched(copy[p], child[p])) /\ UNCHANGED mishaps
       \/ Mishap /\ slips' = slips + 1 /\ UNCHANGED rec
    /\ UNCHANGED <<completion, lock, workers, launches>>

\* The lock file is unlinked by its name.
Unlock(p) ==
    /\ Goto(p, "unlock", "idle", Gone) /\ Remove(p)
    /\ UNCHANGED <<rec, completion, workers, launches, mishaps>>

PollerDies(p) ==
    /\ pc[p] # "idle" /\ Goto(p, pc[p], "idle", Gone) /\ Mishap
    /\ lock' = IF lock = p THEN "left" ELSE lock
    /\ SlipIf(pc[p] = "record")
    /\ UNCHANGED <<rec, completion, workers, launches>>

-----------------------------------------------------------------------------
(* Time, delivery and erasure *)

\* What time changes is the same in every copy that is still to be written.
Pass(time, now) ==
    /\ rec' = [rec EXCEPT ![time] = now]
    /\ own' = [w \in Workers |-> IF own[w].state = "gone" THEN Gone
                              ELSE [own[w] EXCEPT ![time] = now]]
    /\ UNCHANGED <<completion, lock, stage, silent, pollers, launches>>

\* SUP_LAUNCH_GRACE has passed.  A first worker that has not stamped the record
\* by then is taken for one that was never launched.
GraceOver ==
    /\ rec.grace = "on" /\ Pass("grace", "over")
    /\ IF \E w \in Workers : stage[w] \in {"starting", "stamping"} /\ rec.pid # w
       THEN slips' = slips + 1 /\ Mishap
       ELSE UNCHANGED <<slips, mishaps>>

BackoffOver ==
    /\ rec.wait = "backoff" /\ Pass("wait", "no")
    /\ UNCHANGED <<slips, mishaps>>

BudgetOver ==
    /\ rec.state = "active" /\ rec.budget = "left"
    /\ Pass("budget", "spent")
    /\ UNCHANGED <<slips, mishaps>>

\* SUP_LOCK_STALE has passed.  A poller that lives is done before that.
LockAges ==
    /\ lock = "left" /\ lock' = "old"
    /\ UNCHANGED <<rec, completion, workers, pollers, history>>

\* SUP_DONE_TTL has passed, longer than any pass over the record takes.
Prune ==
    /\ rec.state = "done" /\ \A p \in Pollers : pc[p] = "idle"
    /\ rec' = Gone
    /\ UNCHANGED <<completion, lock, workers, pollers, history>>

\* The completion queue sends what is ready, or drops the record for its age.
Deliver ==
    /\ completion # "closed" /\ completion' = "closed"
    /\ UNCHANGED <<rec, lock, workers, pollers, history>>

\* purge_user: the run record and its lock are unlinked.
Purge ==
    /\ rec.state # "gone" /\ rec' = Gone
    /\ Remove("nobody")
    /\ UNCHANGED <<completion, workers, pollers, launches, mishaps>>

-----------------------------------------------------------------------------
(* Specification *)

Worker(w) ==
    \/ StartRead(w) \/ StartWrite(w) \/ FinishRead(w) \/ FinishWrite(w) \/ MarkDone(w)

Supervise(p) ==
    \/ Consult(p) \/ Judge(p) \/ Clear(p) \/ Fail(p) \/ Close(p) \/ Steal(p)
    \/ Claim(p) \/ Reread(p) \/ Spawn(p) \/ Postpone(p) \/ RecordLaunch(p) \/ Unlock(p)

Next ==
    \/ \E w \in Workers : Worker(w) \/ WorkerDies(w) \/ GoesSilent(w)
    \/ \E p \in Pollers : Scan(p) \/ Supervise(p) \/ PollerDies(p)
    \/ LaunchFails \/ GraceOver \/ BackoffOver \/ BudgetOver \/ LockAges \/ Prune
    \/ Deliver \/ Purge

Spec == Init /\ [][Next]_vars

FewSlips == slips <= MaxSlips

-----------------------------------------------------------------------------
(* Properties *)

\* "two pollers in the same second can never double-launch": two workers live
\* at once only after one of the named slips: a write that undid another's, a launch
\* that was never recorded, a lock removed under its holder, a silent worker that
\* survives SIGTERM, a first worker slower than the launch grace.
OneWorker == slips = 0 => Cardinality({w \in Workers : Live(w)}) <= 1

\* A result that waits to be sent is replaced by a report of failure only if the
\* supervisor decided on a copy of the record that a write has overtaken since:
\* a worker ends its run before it queues its result.
ResultKept ==
    [][(completion = "result" /\ completion' = "failure")
       => slips > 0 \/ \E p \in Pollers : pc[p] = "fail" /\ Overtaken(copy[p])]_vars

\* "An unbounded restart until done is a fork bomb", "never resurrect such a run": the
\* supervisor implements the task, whose workers are launched one after the other,
\* within the attempts, and never beside a queued result.
Task == INSTANCE SupervisedTask WITH
    live     <- \E w \in Workers : Live(w),
    answer   <- completion,
    outdated <- \E p \in Pollers : pc[p] = "fail" /\ Overtaken(copy[p]),
    slipped  <- slips > 0
ImplementsSupervisedTask == Task!Spec
=============================================================================
