-------------------------- MODULE CompletionNotify --------------------------
(***************************************************************************)
(* The durable queue of background completions (completion_notify.py).     *)
(* The adapter registers a record and starts a detached worker, which      *)
(* claims the record and, when it has a result, marks it ready.  Several   *)
(* processes poll the queue: the adapter's main loop, the timer of         *)
(* bg_monitor, and every worker at its end.  A poller takes a lock file    *)
(* per record, writes the envelope to the outbox and marks the record      *)
(* delivered; it also reports a task whose worker died.                    *)
(*                                                                         *)
(* The producer's calls read the record and write it back without the      *)
(* lock, so each is two steps.  A poller, or a worker, may die anywhere.   *)
(***************************************************************************)
EXTENDS Naturals, FiniteSets

CONSTANTS Records,      \* the task ids
          Pollers,      \* the processes that call deliver_ready
          NoRecord,     \* what an idle poller works on
          OrphanReaper, \* the flag bridge_orphan_task_reaper
          LateWorkers,  \* a wedged worker outlives its termination
          MaxAttempts,  \* workers launched for a supervised task
          MaxMishaps    \* bound: poller deaths and failing writes

ASSUME ConstantsOK ==
    /\ NoRecord \notin Records
    /\ Pollers \cap {"none", "left", "stale"} = {}
    /\ OrphanReaper \in BOOLEAN /\ LateWorkers \in BOOLEAN
    /\ MaxAttempts \in Nat \ {0} /\ MaxMishaps \in Nat

VARIABLES
    \* on disk
    state,    \* the state of each record, "gone" once it is unlinked
    claimed,  \* the record names the worker's pid
    text,     \* whose text the record carries
    lock,     \* whose lock file each record has: a poller's, or one that a dead
              \* poller has left, which is "stale" once it is old
    run,      \* the supervisor's record of each task
    \* the processes
    producer, \* what the worker of each record is about to do
    copy,     \* the state the worker found when it read the record
    pc,       \* what each poller is about to do
    at,       \* the record it works on
    found,    \* the text it found when it read the record under the lock
    \* history
    attempts, \* workers launched for each task
    acked,    \* the records whose worker was told that its result is queued
    givenUp,  \* the records the supervisor failed
    outbox,   \* the texts written to the outbox for each record
    sent,     \* envelopes written for each record
    dropped,  \* the records whose envelope could not be written
    again,    \* events that let a record be delivered once more
    orphaned, \* the records whose lock was left by a poller that died
    mishaps

onDisk    == <<state, claimed, text, lock>>
producing == <<run, producer, copy, attempts, acked, givenUp>>
polling   == <<pc, at, found>>
results   == <<outbox, sent, dropped>>
vars      == <<onDisk, producing, polling, results, again, orphaned, mishaps>>

States   == {"none", "pending", "ready", "delivered", "gone"}
Present  == {"pending", "ready", "delivered"}
Texts    == {"result", "failure"}
Alive    == {"started", "claiming", "working", "finishing", "voicing", "voiced",
             "marking"}
InLock   == {"reread", "emit", "check", "mark", "unlock", "reapread", "reapwrite"}
Stages   == {"idle", "stat", "steal", "claim", "reapclaim"} \cup InLock

TypeOK ==
    /\ state \in [Records -> States]
    /\ claimed \in [Records -> BOOLEAN]
    /\ text \in [Records -> Texts \cup {"none"}]
    /\ lock \in [Records -> Pollers \cup {"none", "left", "stale"}]
    /\ run \in [Records -> {"none", "active", "failing", "done"}]
    /\ producer \in [Records -> Alive \cup {"none", "over"}]
    /\ copy \in [Records -> {"none", "pending", "ready"}]
    /\ pc \in [Pollers -> Stages]
    /\ at \in [Pollers -> Records \cup {NoRecord}]
    /\ found \in [Pollers -> Texts \cup {"none"}]
    /\ attempts \in [Records -> Nat]
    /\ acked \subseteq Records /\ givenUp \subseteq Records
    /\ outbox \in [Records -> SUBSET Texts]
    /\ sent \in [Records -> Nat] /\ again \in [Records -> Nat]
    /\ dropped \subseteq Records /\ orphaned \subseteq Records
    /\ mishaps \in Nat

Init ==
    /\ state = [r \in Records |-> "none"]
    /\ claimed = [r \in Records |-> FALSE]
    /\ text = [r \in Records |-> "none"]
    /\ lock = [r \in Records |-> "none"]
    /\ run = [r \in Records |-> "none"]
    /\ producer = [r \in Records |-> "none"]
    /\ copy = [r \in Records |-> "none"]
    /\ pc = [p \in Pollers |-> "idle"]
    /\ at = [p \in Pollers |-> NoRecord]
    /\ found = [p \in Pollers |-> "none"]
    /\ attempts = [r \in Records |-> 0]
    /\ acked = {} /\ givenUp = {}
    /\ outbox = [r \in Records |-> {}]
    /\ sent = [r \in Records |-> 0] /\ again = [r \in Records |-> 0]
    /\ dropped = {} /\ orphaned = {}
    /\ mishaps = 0

Mishap == mishaps < MaxMishaps /\ mishaps' = mishaps + 1

-----------------------------------------------------------------------------
(* The producer: the adapter's spawn and the detached worker *)

Work(r, from, to) ==
    /\ producer[r] = from
    /\ producer' = [producer EXCEPT ![r] = to]

\* The producer writes the record back, in the state s.  Over a record that is
\* delivered or unlinked by now, this lets it be delivered again.
WriteBack(r, s) ==
    /\ state' = [state EXCEPT ![r] = s]
    /\ again' = [again EXCEPT ![r] = IF state[r] \in {"delivered", "gone"}
                                     THEN @ + 1 ELSE @]

\* register, register_run if the task is supervised, and the spawn.
Register(r) ==
    /\ state[r] = "none"
    /\ state' = [state EXCEPT ![r] = "pending"]
    /\ Work(r, "none", "started")
    /\ attempts' = [attempts EXCEPT ![r] = 1]
    /\ \E s \in {"none", "active"} : run' = [run EXCEPT ![r] = s]
    /\ UNCHANGED <<claimed, text, lock, copy, acked, givenUp, polling, results,
                   again, orphaned, mishaps>>

\* claim: a record that is not pending is left alone.
ClaimRead(r) ==
    /\ \/ state[r] = "pending" /\ Work(r, "started", "claiming")
       \/ state[r] # "pending" /\ Work(r, "started", "working")
    /\ UNCHANGED <<onDisk, run, copy, attempts, acked, givenUp, polling,
                   results, again, orphaned, mishaps>>

ClaimWrite(r) ==
    /\ Work(r, "claiming", "working")
    /\ WriteBack(r, "pending")
    /\ claimed' = [claimed EXCEPT ![r] = TRUE]
    /\ text' = [text EXCEPT ![r] = "none"]
    /\ UNCHANGED <<lock, run, copy, attempts, acked, givenUp, polling, results,
                   orphaned, mishaps>>

\* A producer that never claims: the compute worker, or the adapter itself
\* when the spawn fails.
StartUnclaimed(r) ==
    /\ Work(r, "started", "working")
    /\ UNCHANGED <<onDisk, run, copy, attempts, acked, givenUp, polling,
                   results, again, orphaned, mishaps>>

\* The attempt has succeeded: attempt_finished retires the supervised run.
FinishAttempt(r) ==
    /\ Work(r, "working", "finishing")
    /\ run' = [run EXCEPT ![r] = IF @ = "active" THEN "done" ELSE @]
    /\ UNCHANGED <<onDisk, copy, attempts, acked, givenUp, polling, results,
                   again, orphaned, mishaps>>

\* Mutant: attach_voice does not look at the record it has read.
OpenAny(r) == TRUE

\* attach_voice and mark_done refuse a record that is gone or delivered.
Open(r) == state[r] \in {"pending", "ready"}

\* attach_voice: the record is read and written back as it was read.
VoiceRead(r) ==
    /\ \/ /\ Open(r)
          /\ Work(r, "finishing", "voicing")
          /\ copy' = [copy EXCEPT ![r] = state[r]]
       \/ /\ Work(r, "finishing", "voiced")
          /\ UNCHANGED copy
    /\ UNCHANGED <<onDisk, run, attempts, acked, givenUp, polling, results,
                   again, orphaned, mishaps>>

VoiceWrite(r) ==
    /\ Work(r, "voicing", "voiced")
    /\ WriteBack(r, copy[r])
    /\ copy' = [copy EXCEPT ![r] = "none"]
    /\ UNCHANGED <<claimed, text, lock, run, attempts, acked, givenUp, polling,
                   results, orphaned, mishaps>>

\* mark_done: the record is read, and written back as ready.
MarkRead(r) ==
    /\ \/ Open(r) /\ Work(r, "voiced", "marking")
       \/ ~Open(r) /\ Work(r, "voiced", "over")
    /\ UNCHANGED <<onDisk, run, copy, attempts, acked, givenUp, polling,
                   results, again, orphaned, mishaps>>

MarkWrite(r) ==
    /\ Work(r, "marking", "over")
    /\ WriteBack(r, "ready")
    /\ text' = [text EXCEPT ![r] = "result"]
    /\ acked' = acked \cup {r}
    /\ UNCHANGED <<claimed, lock, run, copy, attempts, givenUp, polling,
                   results, orphaned, mishaps>>

\* The worker is killed, or leaves a failed attempt to the supervisor.
ProducerDies(r) ==
    /\ producer[r] \in Alive
    /\ producer' = [producer EXCEPT ![r] = "over"]
    /\ copy' = [copy EXCEPT ![r] = "none"]
    /\ UNCHANGED <<onDisk, run, attempts, acked, givenUp, polling, results,
                   again, orphaned, mishaps>>

-----------------------------------------------------------------------------
(* The supervisor (task_supervisor.supervise), as the queue sees it *)

Resume(r) ==
    /\ run[r] = "active" /\ state[r] = "pending"
    /\ attempts[r] < MaxAttempts
    /\ Work(r, "over", "started")
    /\ attempts' = [attempts EXCEPT ![r] = @ + 1]
    /\ UNCHANGED <<onDisk, run, copy, acked, givenUp, polling, results, again,
                   orphaned, mishaps>>

\* _fail_terminally: the budget is spent; a wedged worker may still be alive.
\* Its mark_done has read the record, and writes it in the next step.
GiveUp(r) ==
    /\ run[r] = "active" /\ state[r] = "pending"
    /\ producer[r] = "over" \/ LateWorkers
    /\ run' = [run EXCEPT ![r] = "failing"]
    /\ givenUp' = givenUp \cup {r}
    /\ UNCHANGED <<onDisk, producer, copy, attempts, acked, polling, results,
                   again, orphaned, mishaps>>

FailWrite(r) ==
    /\ run[r] = "failing"
    /\ run' = [run EXCEPT ![r] = "done"]
    /\ WriteBack(r, "ready")
    /\ text' = [text EXCEPT ![r] = "failure"]
    /\ UNCHANGED <<claimed, lock, producer, copy, attempts, acked, givenUp,
                   polling, results, orphaned, mishaps>>

-----------------------------------------------------------------------------
(* A poller: deliver_ready on one record *)

\* The poller goes on from one stage to the next, with the text t in hand.
GotoWith(p, from, to, t) ==
    /\ pc[p] = from
    /\ pc' = [pc EXCEPT ![p] = to]
    /\ at' = IF to = "idle" THEN [at EXCEPT ![p] = NoRecord] ELSE at
    /\ found' = [found EXCEPT ![p] = t]

Goto(p, from, to) ==
    GotoWith(p, from, to, IF to \in {"idle", "unlock"} THEN "none" ELSE found[p])

\* The lock file of r is removed, whoever it belongs to.  If the one who does it
\* is not among the owners, the record may be delivered again.
Remove(r, owners) ==
    /\ lock' = [lock EXCEPT ![r] = "none"]
    /\ again' = [again EXCEPT ![r] = IF lock[r] \in owners \cup {"none"}
                                     THEN @ ELSE @ + 1]

\* Mutant: the supervisor is not asked.
ReapableSupervised(r) == state[r] = "pending" /\ claimed[r] /\ producer[r] = "over"

\* Mutant: a run that is over still counts as supervised.
ReapableUnsupervised(r) ==
    state[r] = "pending" /\ claimed[r] /\ producer[r] = "over" /\ run[r] = "none"

\* A pending record whose worker is gone is reaped unless the supervisor will
\* see to it.  One that was never claimed is left to its age, or to the orphan
\* reaper, which cannot tell whether its producer lives.
Reapable(r) ==
    /\ state[r] = "pending"
    /\ IF claimed[r] THEN producer[r] = "over" ELSE OrphanReaper
    /\ run[r] \notin {"active", "failing"}

\* The poller reads a record and finds something to do.
Notice(p, r) ==
    /\ pc[p] = "idle"
    /\ \/ state[r] = "ready" /\ pc' = [pc EXCEPT ![p] = "stat"]
       \/ Reapable(r) /\ pc' = [pc EXCEPT ![p] = "reapclaim"]
    /\ at' = [at EXCEPT ![p] = r]
    /\ UNCHANGED <<found, onDisk, producing, results, again, orphaned, mishaps>>

\* A record that is too old is unlinked, a ready one with its lock.
Prune(r) ==
    /\ state[r] \in Present
    /\ state' = [state EXCEPT ![r] = "gone"]
    /\ IF state[r] = "ready" THEN Remove(r, {}) ELSE UNCHANGED <<lock, again>>
    /\ UNCHANGED <<claimed, text, producing, polling, results, orphaned, mishaps>>

\* Mutant: a lock is never taken for stale.
StaleNever(r) == FALSE

Stale(r) == lock[r] = "stale"

\* The lock file is looked at, and an old one is stolen: the file that lies
\* there by now, old or not, is renamed away.
Stat(p) ==
    /\ \/ Stale(at[p]) /\ Goto(p, "stat", "steal")
       \/ ~Stale(at[p]) /\ Goto(p, "stat", "claim")
    /\ UNCHANGED <<onDisk, producing, results, again, orphaned, mishaps>>

Steal(p) ==
    /\ Goto(p, "steal", "claim")
    /\ Remove(at[p], {})
    /\ UNCHANGED <<state, claimed, text, producing, results, orphaned, mishaps>>

\* Mutant: the lock file is opened without O_EXCL.
FreeAlways(r) == TRUE

Free(r) == lock[r] = "none"

\* The O_EXCL create wins, or the record is skipped.
Claim(p) ==
    /\ \/ /\ Free(at[p])
          /\ \/ Goto(p, "claim", "reread") \/ Goto(p, "reapclaim", "reapread")
          /\ lock' = [lock EXCEPT ![at[p]] = p]
       \/ /\ ~Free(at[p])
          /\ Goto(p, "claim", "idle") \/ Goto(p, "reapclaim", "idle")
          /\ UNCHANGED lock
    /\ UNCHANGED <<state, claimed, text, producing, results, again, orphaned,
                   mishaps>>

\* The record is read again under the lock.
Reread(p) ==
    /\ \/ state[at[p]] = "ready" /\ GotoWith(p, "reread", "emit", text[at[p]])
       \/ state[at[p]] # "ready" /\ Goto(p, "reread", "unlock")
       \/ state[at[p]] = "pending" /\ Goto(p, "reapread", "reapwrite")
       \/ state[at[p]] # "pending" /\ Goto(p, "reapread", "unlock")
    /\ UNCHANGED <<onDisk, producing, results, again, orphaned, mishaps>>

\* The envelope is written to the outbox, or the write fails and nobody hears
\* of it, or the rate limit or an error leaves the record as it is.
Emit(p) ==
    /\ \/ /\ Goto(p, "emit", "check")
          /\ outbox' = [outbox EXCEPT ![at[p]] = @ \cup {found[p]}]
          /\ sent' = [sent EXCEPT ![at[p]] = @ + 1]
          /\ UNCHANGED <<dropped, mishaps>>
       \/ /\ Goto(p, "emit", "check") /\ Mishap
          /\ dropped' = dropped \cup {at[p]}
          /\ UNCHANGED <<outbox, sent>>
       \/ /\ Goto(p, "emit", "unlock") /\ Mishap
          /\ UNCHANGED results
    /\ UNCHANGED <<onDisk, producing, again, orphaned>>

\* A record that was purged meanwhile is not written back.
Check(p) ==
    /\ \/ state[at[p]] # "gone" /\ Goto(p, "check", "mark")
       \/ state[at[p]] = "gone" /\ Goto(p, "check", "unlock")
    /\ UNCHANGED <<onDisk, producing, results, again, orphaned, mishaps>>

\* The record as it was read under the lock is written back as delivered, or
\* the write fails.
MarkDelivered(p) ==
    /\ Goto(p, "mark", "unlock")
    /\ \/ /\ state' = [state EXCEPT ![at[p]] = "delivered"]
          /\ text' = [text EXCEPT ![at[p]] = found[p]]
          /\ UNCHANGED <<again, mishaps>>
       \/ /\ Mishap
          /\ again' = [again EXCEPT ![at[p]] = @ + 1]
          /\ UNCHANGED <<state, text>>
    /\ UNCHANGED <<claimed, lock, producing, results, orphaned>>

\* The reaper writes the failure, or the write fails.
ReapWrite(p) ==
    /\ Goto(p, "reapwrite", "unlock")
    /\ \/ /\ state' = [state EXCEPT ![at[p]] = "ready"]
          /\ text' = [text EXCEPT ![at[p]] = "failure"]
          /\ UNCHANGED mishaps
       \/ /\ Mishap
          /\ UNCHANGED <<state, text>>
    /\ UNCHANGED <<claimed, lock, producing, results, again, orphaned>>

\* The lock file that lies there by now is unlinked.
Unlock(p) ==
    /\ Goto(p, "unlock", "idle")
    /\ Remove(at[p], {p})
    /\ UNCHANGED <<state, claimed, text, producing, results, orphaned, mishaps>>

-----------------------------------------------------------------------------
(* What happens to the processes and their files *)

PollerDies(p) ==
    /\ pc[p] # "idle"
    /\ Mishap
    /\ Goto(p, pc[p], "idle")
    /\ IF lock[at[p]] = p
       THEN /\ lock' = [lock EXCEPT ![at[p]] = "left"]
            /\ orphaned' = orphaned \cup {at[p]}
       ELSE UNCHANGED <<lock, orphaned>>
    /\ UNCHANGED <<state, claimed, text, producing, results, again>>

\* CN_LOCK_STALE has passed.  A poller that lives does not hold a lock so long.
LockAges(r) ==
    /\ lock[r] = "left"
    /\ lock' = [lock EXCEPT ![r] = "stale"]
    /\ UNCHANGED <<state, claimed, text, producing, polling, results, again,
                   orphaned, mishaps>>

\* purge_user: the user asks for erasure.
Purge(r) ==
    /\ state[r] \in Present
    /\ state' = [state EXCEPT ![r] = "gone"]
    /\ UNCHANGED <<claimed, text, lock, producing, polling, results, again,
                   orphaned, mishaps>>

-----------------------------------------------------------------------------
(* Specification *)

Worker(r) ==
    \/ ClaimRead(r) \/ ClaimWrite(r) \/ StartUnclaimed(r) \/ FinishAttempt(r)
    \/ VoiceRead(r) \/ VoiceWrite(r) \/ MarkRead(r) \/ MarkWrite(r)

Supervisor(r) == Resume(r) \/ GiveUp(r) \/ FailWrite(r)

Deliver(p) ==
    /\ at[p] # NoRecord
    /\ \/ Stat(p) \/ Steal(p) \/ Claim(p) \/ Reread(p) \/ Emit(p) \/ Check(p)
       \/ MarkDelivered(p) \/ ReapWrite(p) \/ Unlock(p)

Next ==
    \/ \E r \in Records : \/ Register(r) \/ Worker(r) \/ ProducerDies(r)
                          \/ Supervisor(r) \/ Prune(r) \/ LockAges(r) \/ Purge(r)
    \/ \E p \in Pollers : \/ \E r \in Records : Notice(p, r)
                          \/ Deliver(p) \/ PollerDies(p)

\* A poller that works on a record goes on, every poll looks at every record,
\* a lock nobody renews grows old.  Nothing is assumed of the workers; the
\* supervisor resumes or fails a run whose worker is gone.
Fairness ==
    /\ \A p \in Pollers : /\ WF_vars(Deliver(p))
                          /\ \A r \in Records : SF_vars(Notice(p, r))
    /\ \A r \in Records : /\ WF_vars(LockAges(r))
                          /\ WF_vars(FailWrite(r))
                          /\ WF_vars(producer[r] = "over" /\ Supervisor(r))

Spec == Init /\ [][Next]_vars /\ Fairness

-----------------------------------------------------------------------------
(* Properties *)

\* "Exactly once": a completion is delivered once more only after somebody else
\* has removed a poller's lock, the delivered mark could not be written, or a
\* producer's call that had read the record wrote it after the delivery.
\* Pollers alone, in whatever order their steps come, never send it twice.
SentOnce == \A r \in Records : sent[r] <= 1 + again[r]

\* The tasks whose wedged worker may still write after the supervisor's report.
Contested == IF LateWorkers THEN givenUp ELSE {}

\* A result the worker was told is queued is what the user gets: a delivered
\* record has had its result sent, unless the envelope could not be written.
\* Neither the reaper nor the supervisor puts a failure in its place.
ResultReachesUser ==
    \A r \in acked \ Contested :
        state[r] = "delivered" => "result" \in outbox[r] \/ r \in dropped

\* A ready record is delivered, or goes with its age or its user, whatever
\* poller died in the middle of a delivery.
ReadyIsDelivered ==
    \A r \in Records :
        (state[r] = "ready") ~> (state[r] \in {"delivered", "gone"} \/ r \in Contested)

\* A claimed task whose worker died is settled: somebody resumes it, reports a
\* result or reports the failure, unless a poller died holding its lock.
DeadWorkerSettled ==
    \A r \in Records :
        (state[r] = "pending" /\ claimed[r] /\ producer[r] = "over")
            ~> (state[r] # "pending" \/ producer[r] \in Alive \/ r \in orphaned)

-----------------------------------------------------------------------------
(* What the documentation claims and the code does not do *)

\* "exactly one poller moves the stale file away ... the O_EXCL claim ... is the
\* real single mutex", "so double-delivery is impossible": two pollers are never
\* both about to write the envelope of a record.
OneDeliverer ==
    \A p, q \in Pollers :
        pc[p] = "emit" /\ pc[q] = "emit" /\ at[p] = at[q] => p = q

\* "must never be silently lost": a delivered record has had an envelope.
DeliveredWasSent == \A r \in Records : state[r] = "delivered" => sent[r] > 0
=============================================================================
