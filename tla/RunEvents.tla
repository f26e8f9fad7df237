----------------------------- MODULE RunEvents ------------------------------
(***************************************************************************)
(* The event stream of one run: GET /runs/{id}/events (sse.py).  A worker  *)
(* thread appends what the engine emits to the run's buffer; the event     *)
(* loop runs the clients' generators and the dispatcher's task, which      *)
(* closes the buffer when it has ended the run.  Under its lock the buffer *)
(* keeps the log and the clients' queues; what is put into a queue goes    *)
(* through the loop's list of callbacks, and that happens after the lock   *)
(* has been released.  When the budget has run out, or the process drains, *)
(* the worker is still at work while the task closes the buffer.           *)
(***************************************************************************)
EXTENDS Naturals, Sequences, FiniteSets, SequencesExt

CONSTANTS Clients,    \* one for each connection
          MaxEvents   \* bound: events the engine emits

ASSUME EventsOK == MaxEvents \in Nat

\* What a queue can hold: an event, the terminal event, or the sentinel None.
Terminal == MaxEvents + 1
Sentinel == MaxEvents + 2
Events   == 1..MaxEvents

VARIABLES
    status,     \* of the run's record
    task,       \* what the run's task is about to do
    farewell,   \* the queues it has still to close, and with what
    worker,     \* the engine's thread
    emitted,    \* events emitted
    sending,    \* the queues the last of them has still to be put into
    log,        \* the buffer's events
    closed,     \* the buffer is closed
    subs,       \* the clients whose queues the buffer knows
    callbacks,  \* the loop's callbacks: <<client, item>>
    queue,      \* each client's queue
    client,     \* what has become of each client
    seen,       \* what it has been sent
    late        \* the queues an event was on its way to when the buffer closed

dispatcher == <<status, task, farewell>>
engine     == <<worker, emitted, sending>>
buffer     == <<log, closed, subs>>
stream     == <<queue, client, seen>>
vars       == <<dispatcher, engine, buffer, callbacks, stream, late>>

TypeOK ==
    /\ status \in {"running", "terminal", "gone"}
    /\ task \in {"gates", "engine", "closing", "done"}
    /\ farewell \in [Clients -> Seq({Terminal, Sentinel})]
    /\ worker \in {"none", "running", "done"} /\ emitted \in 0..MaxEvents
    /\ sending \subseteq Clients
    /\ log \in Seq(Events) /\ closed \in BOOLEAN /\ subs \subseteq Clients
    /\ callbacks \in Seq(Clients \X (1..Sentinel))
    /\ queue \in [Clients -> Seq(1..Sentinel)]
    /\ client \in [Clients -> {"away", "live", "ended", "left", "refused"}]
    /\ seen \in [Clients -> Seq(1..Terminal)]
    /\ late \subseteq Clients

Init ==
    /\ status = "running" /\ task = "gates" /\ farewell = [c \in Clients |-> <<>>]
    /\ worker = "none" /\ emitted = 0 /\ sending = {}
    /\ log = <<>> /\ closed = FALSE /\ subs = {}
    /\ callbacks = <<>> /\ queue = [c \in Clients |-> <<>>]
    /\ client = [c \in Clients |-> "away"] /\ seen = [c \in Clients |-> <<>>]
    /\ late = {}

-----------------------------------------------------------------------------
(* The engine's thread: _spawn_collect *)

\* Mutant: a closed buffer takes events as an open one does.
AcceptsAlways == TRUE

Accepts == ~closed

\* append: under the lock the event is logged and the queues are listed.
Emit ==
    /\ worker = "running" /\ sending = {} /\ emitted < MaxEvents
    /\ emitted' = emitted + 1
    /\ IF Accepts
       THEN log' = Append(log, emitted') /\ sending' = subs
       ELSE UNCHANGED <<log, sending>>
    /\ UNCHANGED <<dispatcher, worker, closed, subs, callbacks, stream, late>>

\* append: the lock released, the event is put into one queue after the other.
HandOut(c) ==
    /\ c \in sending
    /\ sending' = sending \ {c} /\ callbacks' = Append(callbacks, <<c, emitted>>)
    /\ UNCHANGED <<dispatcher, worker, emitted, buffer, stream, late>>

EngineEnds ==
    /\ worker = "running" /\ sending = {} /\ worker' = "done"
    /\ UNCHANGED <<dispatcher, emitted, sending, buffer, callbacks, stream, late>>

-----------------------------------------------------------------------------
(* The run's task: _run_one, _set_terminal *)

\* The loop is not in the middle of a slice of the task.
LoopFree == task # "closing"

Spawn ==
    /\ task = "gates" /\ task' = "engine" /\ worker' = "running"
    /\ UNCHANGED <<status, farewell, emitted, sending, buffer, callbacks, stream, late>>

\* Mutant: the sentinel comes first.
FarewellSwapped == <<Sentinel, Terminal>>

\* What close puts into every queue.
Farewell == <<Terminal, Sentinel>>

\* A gate has refused the run, its engine has ended, or its time is over: the
\* record is written, if it is still there, and the buffer closed under its lock.
Settle ==
    /\ task \in {"gates", "engine"}
    /\ IF status = "gone"
       THEN task' = "done" /\ UNCHANGED <<status, farewell, closed, subs, late>>
       ELSE /\ task' = "closing" /\ status' = "terminal"
            /\ closed' = TRUE /\ subs' = {} /\ late' = sending
            /\ farewell' = [c \in Clients |-> IF c \in subs THEN Farewell ELSE <<>>]
    /\ UNCHANGED <<engine, log, callbacks, stream>>

\* close: the lock released, the queues are closed.
SayFarewell(c) ==
    /\ task = "closing" /\ farewell[c] # <<>>
    /\ callbacks' = Append(callbacks, <<c, Head(farewell[c])>>)
    /\ farewell' = [farewell EXCEPT ![c] = Tail(@)]
    /\ UNCHANGED <<status, task, engine, buffer, stream, late>>

SliceEnds ==
    /\ task = "closing" /\ \A c \in Clients : farewell[c] = <<>>
    /\ task' = "done"
    /\ UNCHANGED <<status, farewell, engine, buffer, callbacks, stream, late>>

\* The record is removed or damaged from outside.
Vanish ==
    /\ status = "running" /\ status' = "gone"
    /\ UNCHANGED <<task, farewell, engine, buffer, callbacks, stream, late>>

-----------------------------------------------------------------------------
(* The clients: stream_run_events, subscribe *)

RunCallback ==
    /\ LoopFree /\ callbacks # <<>>
    /\ LET c == Head(callbacks)[1] IN
       queue' = [queue EXCEPT ![c] = Append(@, Head(callbacks)[2])]
    /\ callbacks' = Tail(callbacks)
    /\ UNCHANGED <<dispatcher, engine, buffer, client, seen, late>>

\* Mutant: a client gets only what comes after it.
ReplayNothing == <<>>

\* Mutant: the end of a replay is marked as the end of a queue is.
ReplayToSentinel == IF closed THEN Append(log, Sentinel) ELSE log

\* What a new client gets at once.
Replay == IF closed THEN Append(log, Terminal) ELSE log

\* Mutant: a client waits for a buffer that is closed.
WaitsAlways == TRUE

\* There is more to come.
Waits == ~closed

\* A client connects: a record that is gone cannot be followed; otherwise it gets
\* the history and, unless the buffer is closed, a queue, in one go.
Connect(c) ==
    /\ LoopFree /\ client[c] = "away"
    /\ IF status = "gone"
       THEN client' = [client EXCEPT ![c] = "refused"] /\ UNCHANGED <<subs, seen>>
       ELSE /\ seen' = [seen EXCEPT ![c] = Replay]
            /\ client' = [client EXCEPT ![c] = IF Waits THEN "live" ELSE "ended"]
            /\ subs' = IF Waits THEN subs \cup {c} ELSE subs
    /\ UNCHANGED <<dispatcher, engine, log, closed, callbacks, queue, late>>

\* The generator takes the next item of its queue.
Read(c) ==
    /\ LoopFree /\ client[c] = "live" /\ queue[c] # <<>>
    /\ queue' = [queue EXCEPT ![c] = Tail(@)]
    /\ IF Head(queue[c]) = Sentinel
       THEN client' = [client EXCEPT ![c] = "ended"] /\ UNCHANGED seen
       ELSE seen' = [seen EXCEPT ![c] = Append(@, Head(queue[c]))] /\ UNCHANGED client
    /\ UNCHANGED <<dispatcher, engine, buffer, callbacks, late>>

\* A client goes.  Its queue is taken out when the generator is closed, and not
\* at all when it went during the replay.
Leave(c) ==
    /\ LoopFree /\ client[c] = "live"
    /\ client' = [client EXCEPT ![c] = "left"]
    /\ subs' \in {subs, subs \ {c}}
    /\ UNCHANGED <<dispatcher, engine, log, closed, callbacks, queue, seen, late>>

-----------------------------------------------------------------------------
(* Specification *)

Worker == Emit \/ EngineEnds \/ \E c \in Clients : HandOut(c)

Task == Spawn \/ Settle \/ SliceEnds \/ \E c \in Clients : SayFarewell(c)

Next ==
    \/ Worker \/ Task \/ Vanish \/ RunCallback
    \/ \E c \in Clients : Connect(c) \/ Read(c) \/ Leave(c)

\* The loop runs its callbacks and its generators, and does not leave the engine
\* more time than the budget; a gate may take for ever.
Fairness ==
    /\ WF_vars(RunCallback)
    /\ WF_vars(task # "gates" /\ (Settle \/ SliceEnds \/ \E c \in Clients : SayFarewell(c)))
    /\ \A c \in Clients : WF_vars(Read(c))

Spec == Init /\ [][Next]_vars /\ Fairness

-----------------------------------------------------------------------------
(* Properties *)

\* How many events a client has been sent, when it has been sent i items.
EventsSent(c, i) == Cardinality({j \in 1..i : seen[c][j] \in Events})

\* Every client is sent the log from its beginning, in order, without a gap and
\* without a repetition, whenever it has connected: the k-th event it is sent is the
\* k-th of the log.
SeenInOrder ==
    \A c \in Clients : \A i \in DOMAIN seen[c] :
        seen[c][i] \in Events =>
            EventsSent(c, i) <= Len(log) /\ seen[c][i] = log[EventsSent(c, i)]

\* A stream that has ended has carried the whole log and then the terminal event,
\* so that a client that watched the run and one that came afterwards have been
\* sent the same.  Only an event that was on its way to this client when the buffer
\* was closed can be missing, or come after the terminal event.
EndedSawAll ==
    \A c \in Clients :
        client[c] = "ended" =>
            \/ seen[c] = Append(log, Terminal)
            \/ c \in late /\ seen[c] \in {Append(Front(log), Terminal),
                                         Front(log) \o <<Terminal, Last(log)>>}

\* No client waits for ever on a run whose engine has been started, unless its
\* record has been lost.
StreamEnds ==
    \A c \in Clients :
        (client[c] = "live" /\ task # "gates") ~> (client[c] # "live" \/ status = "gone")
=============================================================================
