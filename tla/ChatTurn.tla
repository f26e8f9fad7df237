------------------------------ MODULE ChatTurn ------------------------------
(***************************************************************************)
(* The turns of one chat and the commands that reach into them             *)
(* (adapter.py).  A chat's turns run one after the other in its main       *)
(* thread; /btw and /stop come in on side threads while a turn runs.  They *)
(* meet in registers kept per chat: the engine and the processes that run, *)
(* the notes for the next prompt, and a stamp that says the operator has   *)
(* stopped the turn.  Each register has a lock; nothing locks two of them. *)
(***************************************************************************)
EXTENDS Naturals, FiniteSets

CONSTANTS Notes,     \* the /btw messages
          Stops,     \* the /stop messages
          MaxTurns   \* bound: turns of the chat

ASSUME TurnsOK == MaxTurns \in Nat

VARIABLES
    \* the turn's thread
    pc,       \* what the turn has come to
    turn,     \* its number
    kind,     \* its engine takes notes while it runs ("live"), or does not
    tracked,  \* it has a task record
    attempt,  \* it is being retried: 1
    run,      \* how far the attempt's process has come
    said,     \* its engine has said something: a result, or text
    report,   \* the outcome the last attempt has reported
    reply,    \* what the turn has come back with
    outcome,  \* the outcome recorded for the turn that closed last
    \* the registers
    engine,   \* _running_engines: one attempt, or none
    procs,    \* _running_subprocs: attempts
    buffer,   \* _btw_buffers: the notes for the next prompt
    lists,    \* and how many lists have been taken from it
    stamp,    \* _TURN_CANCEL_REQUESTS
    \* the side threads
    note, fetched,  \* what a note has come to; the list it is to be put in
    stop, target,   \* what a stop has come to; the attempts it has found
    \* history
    uses,     \* prompts and live sessions a note has been given to
    cut,      \* which stop has taken down which turn before it had ended
    silenced, \* the attempts that were stopped before their engine had said anything
    robbed    \* the stops whose stamp another stop, or a turn, has taken away

process  == <<run, said>>
account  == <<report, reply, outcome>>
turnvars == <<pc, turn, kind, tracked, attempt, process, account>>
running  == <<engine, procs>>
notebook == <<buffer, lists, note, fetched, uses>>
stopping == <<stop, target>>
history  == <<cut, silenced, robbed>>
vars     == <<turnvars, running, notebook, stamp, stopping, history>>

Attempts == (1..MaxTurns) \X {0, 1}

This == <<turn, attempt>>

TypeOK ==
    /\ pc \in {"idle", "open", "active", "drained", "spawning", "running", "ended",
               "reported", "unregistered", "closing"}
    /\ turn \in 0..MaxTurns /\ kind \in {"live", "buffered"} /\ tracked \in BOOLEAN
    /\ attempt \in {0, 1}
    /\ run \in {"none", "latched", "running", "done", "error", "killed", "capped"}
    /\ said \in BOOLEAN
    /\ report \in {"none", "completed", "failed", "cancelled", "refused"}
    /\ reply \in {"none", "answer", "notice", "silence", "raised"}
    /\ outcome \in {"none", "completed", "failed", "cancelled", "refused"}
    /\ engine \subseteq Attempts /\ Cardinality(engine) <= 1 /\ procs \subseteq Attempts
    /\ buffer \subseteq Notes /\ lists \in 0..2 * MaxTurns /\ stamp \in BOOLEAN
    /\ note \in [Notes -> {"idle", "fetched", "undelivered", "queuing",
                           "queued", "orphaned", "delivered", "refused"}]
    /\ fetched \in [Notes -> 0..2 * MaxTurns]
    /\ stop \in [Stops -> {"idle", "stamped", "found", "nothing", "aborted", "unfounded"}]
    /\ target \in [Stops -> SUBSET Attempts]
    /\ uses \in [Notes -> 0..2 * MaxTurns]
    /\ cut \subseteq (1..MaxTurns) \X Stops /\ silenced \subseteq Attempts /\ robbed \subseteq Stops

Init ==
    /\ pc = "idle" /\ turn = 0 /\ kind = "live" /\ tracked = FALSE /\ attempt = 0
    /\ run = "none" /\ said = FALSE
    /\ report = "none" /\ reply = "none" /\ outcome = "none"
    /\ engine = {} /\ procs = {}
    /\ buffer = {} /\ lists = 0 /\ stamp = FALSE
    /\ note = [n \in Notes |-> "idle"] /\ fetched = [n \in Notes |-> 0]
    /\ stop = [s \in Stops |-> "idle"] /\ target = [s \in Stops |-> {}]
    /\ uses = [n \in Notes |-> 0] /\ cut = {} /\ silenced = {} /\ robbed = {}

InFlight(s) == stop[s] \in {"stamped", "found", "nothing"}

\* If the stamp is taken away in this step, these stops have lost theirs.
Robs(stops) == robbed' = IF stamp /\ ~stamp' THEN robbed \cup stops ELSE robbed

\* _turn_active: marked for the whole dispatch, a retry included.
TurnActive == pc \notin {"idle", "open", "closing"}

-----------------------------------------------------------------------------
(* The turn *)

\* Mutant: a stamp that is left over is taken over.
StampAtOpenKept == stamp

\* A stamp that is there when a turn opens is not meant for it.
StampAtOpen == stamp /\ ~tracked'

\* _open_turn_task; its failure leaves the turn without a record.
Open ==
    /\ pc = "idle" /\ turn < MaxTurns
    /\ pc' = "open" /\ turn' = turn + 1
    /\ kind' \in {"live", "buffered"} /\ tracked' \in BOOLEAN
    /\ attempt' = 0 /\ run' = "none" /\ said' = FALSE /\ report' = "none" /\ reply' = "none"
    /\ stamp' = StampAtOpen
    /\ Robs({s \in Stops : InFlight(s)})
    /\ UNCHANGED <<outcome, running, notebook, stopping, cut, silenced>>

\* What is left to do when an attempt comes to nothing before it is registered.
Abandoned == IF procs = {} THEN "closing" ELSE "reported"

\* One of the gates on the way refuses the turn.
Refuse ==
    /\ pc \in {"open", "active"} \/ (pc = "drained" /\ kind = "live")
    /\ report' = "refused" /\ reply' = "notice" /\ pc' = Abandoned
    /\ UNCHANGED <<turn, kind, tracked, attempt, process, outcome, running, notebook, stamp,
                   stopping, history>>

Activate ==
    /\ pc = "open" /\ pc' = "active"
    /\ UNCHANGED <<turn, kind, tracked, attempt, process, account, running, notebook,
                   stamp, stopping, history>>

\* Mutant: the notes are read and left where they are.
LeftAfterDrainAll == buffer

\* drain_btw_buffer pops the list.
LeftAfterDrain == {}

Drain ==
    /\ pc = "active" /\ pc' = "drained"
    /\ uses' = [n \in Notes |-> IF n \in buffer THEN uses[n] + 1 ELSE uses[n]]
    /\ buffer' = LeftAfterDrain /\ lists' = lists + 1
    /\ UNCHANGED <<turn, kind, tracked, attempt, process, account, running, note, fetched,
                   stamp, stopping, history>>

\* A live engine is registered when its process is there, the other kind before.
Register ==
    /\ pc = "drained" /\ engine' = {This}
    /\ IF kind = "live"
       THEN pc' = "running" /\ run' = "running" /\ procs' = procs \cup {This}
       ELSE pc' = "spawning" /\ UNCHANGED <<run, procs>>
    /\ UNCHANGED <<turn, kind, tracked, attempt, said, account, notebook, stamp, stopping,
                   history>>

\* The process of an engine that was cancelled before it had one is killed at once.
Spawn ==
    /\ pc = "spawning" /\ pc' = "running" /\ procs' = procs \cup {This}
    /\ run' = IF run = "latched" THEN "killed" ELSE "running"
    /\ UNCHANGED <<turn, kind, tracked, attempt, said, account, engine, notebook, stamp,
                   stopping, history>>

\* No process came of it.
SpawnFails ==
    /\ (pc = "drained" /\ kind = "live") \/ pc = "spawning"
    /\ pc' = Abandoned /\ run' = "error" /\ report' = "failed" /\ reply' = "notice"
    /\ engine' = {}
    /\ UNCHANGED <<turn, kind, tracked, attempt, said, outcome, procs, notebook, stamp,
                   stopping, history>>

\* The engine says something; a live one may go on after its first result, as what it
\* has begun in the background wakes it again.
Says ==
    /\ pc = "running" /\ run = "running" /\ ~said /\ said' = TRUE
    /\ UNCHANGED <<pc, turn, kind, tracked, attempt, run, account, running, notebook, stamp,
                   stopping, history>>

\* The adapter takes up a live engine's first result and does not write to it any more;
\* its process stays registered.
Hears ==
    /\ pc = "running" /\ kind = "live" /\ said /\ engine # {} /\ engine' = {}
    /\ UNCHANGED <<pc, turn, kind, tracked, attempt, process, account, procs, notebook, stamp,
                   stopping, history>>

\* The process ends, well or not, or is found killed; a live one that ends without a
\* result has failed.  One that works in the background beyond a cap ("capped") the
\* adapter ends itself, and does not mind how the process has ended.
Ends ==
    /\ pc = "running" /\ pc' = "ended"
    /\ \/ run = "running" /\ run' = "error"
       \/ run = "running" /\ (said \/ kind = "buffered") /\ run' = "done"
       \/ run = "killed" /\ UNCHANGED run
       \/ kind = "live" /\ run' = "capped"
    /\ engine' = IF kind = "live" THEN {} ELSE engine
    /\ UNCHANGED <<turn, kind, tracked, attempt, said, account, procs, notebook, stamp,
                   stopping, history>>

\* An error that looks transient, or like a broken session, is retried once; the
\* first attempt stays registered until the retry is over.
Retry ==
    /\ pc = "ended" /\ kind = "live" /\ attempt = 0 /\ run \in {"error", "killed"}
    /\ pc' = "active" /\ attempt' = 1 /\ run' = "none" /\ said' = FALSE
    /\ UNCHANGED <<turn, kind, tracked, account, running, notebook, stamp, stopping, history>>

Unregister ==
    /\ pc = IF kind = "live" THEN "reported" ELSE "ended"
    /\ engine' = {}
    /\ procs' = procs \ {IF This \in procs THEN This ELSE <<turn, 0>>}
    /\ pc' = IF procs' # {} THEN pc ELSE IF kind = "live" THEN "closing" ELSE "unregistered"
    /\ UNCHANGED <<turn, kind, tracked, attempt, process, account, notebook, stamp,
                   stopping, history>>

\* What the turn may come back with: the engine's text, which what ends badly may have
\* left, a line of the adapter's own, nothing, or an exception.
Replies ==
    IF run = "capped" THEN {"notice", "raised"}
    ELSE {"notice", "silence", "raised"} \cup (IF said THEN {"answer"} ELSE {})

\* The attempt's own account: of a process that has ended badly, whether or not it has
\* left a text.  An engine of the other kind gives none if it has said something before,
\* or has ended without an error.
Report ==
    /\ pc = IF kind = "live" THEN "ended" ELSE "unregistered"
    /\ pc' = IF kind = "live" THEN "reported" ELSE "closing"
    /\ reply' \in Replies
    /\ \/ kind = "live" /\ run \in {"done", "capped"} /\ report' = "completed"
       \/ run \notin {"done", "capped"} /\ report' = IF stamp THEN "cancelled" ELSE "failed"
       \/ kind = "buffered" /\ reply' # "notice" /\ report' = "none"
    /\ UNCHANGED <<turn, kind, tracked, attempt, process, outcome, running, notebook, stamp,
                   stopping, history>>

\* Mutant: a turn that has not reported is recorded by how its process has ended.
RecordedRun == IF report = "none" THEN run ELSE report

\* Mutant: the stamp is not read when the turn closes.
RecordedReport == report

\* A turn the operator has stopped is cancelled unless its process has ended well; an
\* exception outranks the report, and a turn without one is completed if it has a text.
Recorded ==
    IF stamp /\ report # "completed" THEN "cancelled"
    ELSE IF reply = "raised" THEN "failed"
    ELSE IF report # "none" THEN report
    ELSE IF reply = "answer" THEN "completed" ELSE "failed"

\* _close_turn_task
Close ==
    /\ pc = "closing" /\ pc' = "idle"
    /\ IF tracked
       THEN outcome' = Recorded /\ stamp' = FALSE
       ELSE outcome' = "none" /\ UNCHANGED stamp
    /\ Robs({s \in Stops : InFlight(s)})
    /\ UNCHANGED <<turn, kind, tracked, attempt, process, report, reply, running, notebook,
                   stopping, cut, silenced>>

-----------------------------------------------------------------------------
(* /btw *)

\* Only a live engine whose process has not ended can be written to, and after its
\* first result only as long as its input is not closed.
TakesNotes == kind = "live" /\ pc = "running" /\ run = "running"

\* inject_btw: the note is written to the engine; or the list it is to be put in
\* is looked up; or neither can be done.
Inject(n) ==
    /\ note[n] = "idle"
    /\ \/ /\ engine # {} /\ TakesNotes
          /\ note' = [note EXCEPT ![n] = "delivered"] /\ uses' = [uses EXCEPT ![n] = @ + 1]
          /\ UNCHANGED fetched
       \/ /\ engine # {} /\ kind = "buffered"
          /\ note' = [note EXCEPT ![n] = "fetched"] /\ fetched' = [fetched EXCEPT ![n] = lists]
          /\ UNCHANGED uses
       \/ /\ engine = {} \/ (kind = "live" /\ (said \/ ~TakesNotes))
          /\ note' = [note EXCEPT ![n] = "undelivered"] /\ UNCHANGED <<fetched, uses>>
    /\ UNCHANGED <<turnvars, running, buffer, lists, stamp, stopping, history>>

\* dispatch_btw appends to that list, which a turn may have taken meanwhile.
Append(n) ==
    /\ note[n] = "fetched"
    /\ IF fetched[n] = lists
       THEN note' = [note EXCEPT ![n] = "queued"] /\ buffer' = buffer \cup {n}
       ELSE note' = [note EXCEPT ![n] = "orphaned"] /\ UNCHANGED buffer
    /\ UNCHANGED <<turnvars, running, lists, fetched, uses, stamp, stopping, history>>

\* process_one: what was not delivered is queued if a turn is active.
Check(n) ==
    /\ note[n] = "undelivered"
    /\ note' = [note EXCEPT ![n] = IF TurnActive THEN "queuing" ELSE "refused"]
    /\ UNCHANGED <<turnvars, running, buffer, lists, fetched, uses, stamp, stopping, history>>

Queue(n) ==
    /\ note[n] = "queuing"
    /\ note' = [note EXCEPT ![n] = "queued"] /\ buffer' = buffer \cup {n}
    /\ UNCHANGED <<turnvars, running, lists, fetched, uses, stamp, stopping, history>>

-----------------------------------------------------------------------------
(* /stop: _cancel_chat *)

\* The stamp comes first: the turn's thread wakes as soon as the process is gone.
Stamp(s) ==
    /\ stop[s] = "idle"
    /\ stop' = [stop EXCEPT ![s] = "stamped"] /\ stamp' = TRUE
    /\ UNCHANGED <<turnvars, running, notebook, target, history>>

\* _cancel_chat_impl: what is there to be stopped?
Look(s) ==
    /\ stop[s] = "stamped"
    /\ target' = [target EXCEPT ![s] = engine \cup procs]
    /\ stop' = [stop EXCEPT ![s] = IF target'[s] = {} THEN "nothing" ELSE "found"]
    /\ UNCHANGED <<turnvars, running, notebook, stamp, history>>

\* Mutant: an engine that has no process yet is not told.
KilledRunning == IF run = "running" THEN "killed" ELSE run

\* engine.cancel and terminate_process_tree; an engine that has no process yet
\* remembers that it was cancelled.
Killed ==
    CASE run = "running" -> "killed"
      [] run = "none"    -> "latched"
      [] OTHER           -> run

\* What a stop has found is still there to be taken down.
Reached(s) == This \in target[s] /\ run \notin {"done", "error", "capped"}

\* Whatever engine is registered by now is not any more.  What was found is
\* stopped, unless it has ended by itself; "Task aborted" is the answer anyhow.
Kill(s) ==
    /\ stop[s] = "found"
    /\ stop' = [stop EXCEPT ![s] = "aborted"]
    /\ engine' = {}
    /\ run' = IF This \in target[s] THEN Killed ELSE run
    /\ cut' = IF Reached(s) THEN cut \cup {<<turn, s>>} ELSE cut
    /\ silenced' = IF Reached(s) /\ ~said THEN silenced \cup {This} ELSE silenced
    /\ UNCHANGED <<pc, turn, kind, tracked, attempt, said, account, procs, notebook, stamp,
                   target, robbed>>

\* Nothing was stopped: the stamp is withdrawn.
Withdraw(s) ==
    /\ stop[s] = "nothing"
    /\ stop' = [stop EXCEPT ![s] = "unfounded"] /\ stamp' = FALSE
    /\ Robs({t \in Stops \ {s} : InFlight(t) \/ <<turn, t>> \in cut})
    /\ UNCHANGED <<turnvars, running, notebook, target, cut, silenced>>

-----------------------------------------------------------------------------
(* Specification *)

Turn ==
    \/ Open \/ Refuse \/ Activate \/ Drain \/ Register \/ Spawn \/ SpawnFails \/ Says
    \/ Hears \/ Ends \/ Retry \/ Unregister \/ Report \/ Close

Next ==
    \/ Turn
    \/ \E n \in Notes : Inject(n) \/ Append(n) \/ Check(n) \/ Queue(n)
    \/ \E s \in Stops : Stamp(s) \/ Look(s) \/ Kill(s) \/ Withdraw(s)

Spec == Init /\ [][Next]_vars

-----------------------------------------------------------------------------
(* Properties *)

\* A note that was acknowledged as delivered or queued is given to one attempt and
\* no more, or still waits for one; a note that was refused is given to none.
NotesKept ==
    \A n \in Notes :
        note[n] # "orphaned" =>
            IF note[n] = "delivered" \/ (note[n] = "queued" /\ n \notin buffer)
            THEN uses[n] = 1
            ELSE uses[n] = 0

\* A turn is not relabelled: while it is open and the stamp is set, a stop is being
\* carried out, or one has found something of this turn.
StampMeansStop ==
    (pc # "idle" /\ tracked /\ stamp) =>
        \E s \in Stops :
            \/ InFlight(s)
            \/ stop[s] = "aborted" /\ \E a \in {0, 1} : <<turn, a>> \in target[s]

\* A turn whose process a stop has taken down is recorded as cancelled, not as
\* failed or answered, unless another stop that found nothing, or a turn that
\* opened or closed just then, has taken the stamp away.
StoppedIsCancelled ==
    (pc = "idle" /\ tracked /\ run = "killed") =>
        \A s \in Stops \ robbed : <<turn, s>> \in cut => outcome = "cancelled"

\* A turn stopped before its engine had said anything does not come back with an answer
\* of that engine after "Task aborted", also if the engine had no process yet; only a
\* second attempt may answer, when the stopped one is taken for one that failed.
AbortedNotAnswered == This \in silenced => reply # "answer"
=============================================================================
