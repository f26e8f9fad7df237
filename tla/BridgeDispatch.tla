--------------------------- MODULE BridgeDispatch ---------------------------
(***************************************************************************)
(* The dispatcher of the messenger bridge (adapter.py).  The main loop     *)
(* lists the inbox directory and submits every envelope that is not in     *)
(* flight to one of two thread pools: turns are serialised by a lock per   *)
(* chat, side-channel envelopes (/stop, /btw, /sig, observer) take no lock *)
(* and have a pool of their own.  The runner handles the envelope, moves   *)
(* it out of the inbox and takes its entry out of the in-flight table.     *)
(* The process may be killed anywhere, drained or interrupted, and the     *)
(* next one starts from what lies in the inbox.                            *)
(*                                                                         *)
(* Messages are numbers: the order of their file names.                    *)
(***************************************************************************)
EXTENDS Naturals, Sequences, FiniteSets

CONSTANTS Msgs,         \* the messages
          SideMsgs,     \* the ones flagged _btw, _cancel, _signal, _observer
          Garbled,      \* the ones whose envelope is not a JSON object
          ChatOf,       \* the chat (channel and chat id) of each message
          MaxParallel,  \* workers of the turn pool
          LongWaits,    \* a runner may wait for a lock longer than a lock may idle
          MaxMishaps    \* bound: deaths and orderly stops of the process,
                        \* failing calls and locks dropped, taken together

ASSUME ConstantsOK ==
    /\ Msgs \subseteq Nat /\ IsFiniteSet(Msgs)
    /\ SideMsgs \subseteq Msgs /\ Garbled \subseteq Msgs \ SideMsgs
    /\ DOMAIN ChatOf = Msgs
    /\ \A m \in Msgs : ChatOf[m] \notin {"side", "own"}
    /\ MaxParallel \in Nat \ {0}
    /\ LongWaits \in BOOLEAN
    /\ MaxMishaps \in Nat

VARIABLES
    \* on disk
    where,     \* where the envelope of each message lies
    \* the main thread
    phase,     \* what the process is doing
    listing,   \* what is left of the listing of the inbox
    main,      \* where submit_inbox_item is with the first of the listing
    \* shared by the threads
    inFlight,  \* the entry of each message in _in_flight
    queue,     \* the futures each pool has not begun
    lockTable, \* the number of each chat's lock in _chat_locks, 0 if none
    lockCount, \* locks made so far for each chat
    \* the runners
    runner,    \* where the runner of each message is
    key,       \* what it has to lock: a chat, "side": nothing, "own": its name
    ref,       \* the number of the lock it got from _chat_lock_for
    \* history
    begun,     \* how often each message has been taken up
    kills,     \* deaths of the process
    stops,     \* SIGTERM and Ctrl-C
    faults,    \* failing file operations and pool submissions
    drops      \* locks dropped by the cleanup

mainVars   == <<phase, listing, main>>
lockVars   == <<lockTable, lockCount>>
runnerVars == <<runner, key, ref, begun>>
bounds     == <<kills, stops, faults, drops>>
vars       == <<where, mainVars, inFlight, queue, lockVars, runnerVars, bounds>>

Chats   == {ChatOf[m] : m \in Msgs}
Keys    == Chats \cup {"side", "own"}
Pools   == {"turns", "side"}
Places  == {"absent", "inbox", "processed", "poison", "removed"}
Stages  == {"none", "queued", "waiting", "turn", "raised", "leaving"}

TypeOK ==
    /\ where \in [Msgs -> Places]
    /\ phase \in {"up", "draining", "joining", "down"}
    /\ listing \subseteq Msgs
    /\ main \in {"next", "attach"}
    /\ inFlight \in [Msgs -> {"absent", "bare", "attached"}]
    /\ queue \in [Pools -> Seq(Msgs)]
    /\ lockTable \in [Chats -> Nat] /\ lockCount \in [Chats -> Nat]
    /\ runner \in [Msgs -> Stages]
    /\ key \in [Msgs -> Keys]
    /\ ref \in [Msgs -> Nat]
    /\ begun \in [Msgs -> Nat]
    /\ kills \in Nat /\ stops \in Nat /\ faults \in Nat /\ drops \in Nat

Init ==
    /\ where = [m \in Msgs |-> "absent"]
    /\ phase = "up" /\ listing = {} /\ main = "next"
    /\ inFlight = [m \in Msgs |-> "absent"]
    /\ queue = [p \in Pools |-> <<>>]
    /\ lockTable = [c \in Chats |-> 0] /\ lockCount = [c \in Chats |-> 0]
    /\ runner = [m \in Msgs |-> "none"]
    /\ key = [m \in Msgs |-> "own"]
    /\ ref = [m \in Msgs |-> 0]
    /\ begun = [m \in Msgs |-> 0]
    /\ kills = 0 /\ stops = 0 /\ faults = 0 /\ drops = 0

Alive == phase # "down"

MishapLeft == kills + stops + faults + drops < MaxMishaps

\* A call that touches the file system or a pool works or fails.
Attempt(ok) ==
    /\ ok \/ MishapLeft
    /\ faults' = IF ok THEN faults ELSE faults + 1

-----------------------------------------------------------------------------
(* Helpers *)

\* Mutant: what cannot be read goes under one name, without the file's.
RouteKeyUnknown(m) ==
    IF where[m] # "inbox" \/ m \in Garbled THEN "unknown"
    ELSE IF m \in SideMsgs THEN "side" ELSE ChatOf[m]

\* _route_key and _peek_side_channel: an envelope that is gone or cannot be
\* read is routed by its own name.
RouteKey(m) ==
    IF where[m] # "inbox" \/ m \in Garbled THEN "own"
    ELSE IF m \in SideMsgs THEN "side" ELSE ChatOf[m]

\* Mutant: one pool for everything.
PoolOfTurns(k) == "turns"

PoolOf(k) == IF k = "side" THEN "side" ELSE "turns"

Workers == [p \in Pools |->
              IF p = "turns" \/ MaxParallel > 2 THEN MaxParallel ELSE 2]

Busy(p) == {m \in Msgs : runner[m] \notin {"none", "queued"} /\ PoolOf(key[m]) = p}

\* The runners that hold the lock g of chat c, and the ones that wait for it.
Holders(c, g) == {m \in Msgs : runner[m] = "turn" /\ key[m] = c /\ ref[m] = g}
Waiters(c, g) == {m \in Msgs : runner[m] = "waiting" /\ key[m] = c /\ ref[m] = g}

\* The runner of m takes the step to `stage`.
Goto(m, stage) == runner' = [runner EXCEPT ![m] = stage]

\* How often the messages have been taken up once the runner of m has entered
\* process_one and read the envelope.
BegunBy(m) == [begun EXCEPT ![m] = IF where[m] = "inbox" THEN @ + 1 ELSE @]

-----------------------------------------------------------------------------
(* The daemons, and the main loop *)

Arrive(m) ==
    /\ where[m] = "absent"
    /\ where' = [where EXCEPT ![m] = "inbox"]
    /\ UNCHANGED <<mainVars, inFlight, queue, lockVars, runnerVars, bounds>>

\* One tick lists the inbox.
List ==
    /\ phase = "up" /\ main = "next" /\ listing = {}
    /\ listing' = {m \in Msgs : where[m] = "inbox"}
    /\ listing' # {}
    /\ UNCHANGED <<where, phase, main, inFlight, queue, lockVars, runnerVars, bounds>>

\* sorted(): the next item is the first by name.
IsNext(m) == m \in listing /\ \A n \in listing : m <= n

\* Re-submission of a message that is in flight is a no-op.
Submittable(m) == inFlight[m] = "absent"

\* submit_inbox_item enters the message into the table, peeks at the envelope
\* and hands the runner to the pool; when that fails, the rest of the tick is
\* skipped and the entry stays.
Submit(m) ==
    /\ phase = "up" /\ main = "next" /\ IsNext(m)
    /\ Submittable(m)
    /\ inFlight' = [inFlight EXCEPT ![m] = "bare"]
    /\ \/ /\ key' = [key EXCEPT ![m] = RouteKey(m)]
          /\ queue' = [queue EXCEPT ![PoolOf(RouteKey(m))] = Append(@, m)]
          /\ Goto(m, "queued")
          /\ main' = "attach"
          /\ UNCHANGED <<listing, faults>>
       \/ /\ Attempt(FALSE)
          /\ listing' = {}
          /\ UNCHANGED <<key, queue, runner, main>>
    /\ UNCHANGED <<where, phase, lockVars, ref, begun, kills, stops, drops>>

Skip(m) ==
    /\ phase = "up" /\ main = "next" /\ IsNext(m)
    /\ ~Submittable(m)
    /\ listing' = listing \ {m}
    /\ UNCHANGED <<where, phase, main, inFlight, queue, lockVars, runnerVars, bounds>>

\* It attaches the future, unless the runner is already through.
Attach(m) ==
    /\ phase = "up" /\ main = "attach" /\ IsNext(m)
    /\ inFlight' = IF inFlight[m] = "absent" THEN inFlight
                   ELSE [inFlight EXCEPT ![m] = "attached"]
    /\ main' = "next" /\ listing' = listing \ {m}
    /\ UNCHANGED <<where, phase, queue, lockVars, runnerVars, bounds>>

\* Mutant: an old entry goes whether its runner lives or not.
ReapableByAge(m) == inFlight[m] # "absent"

\* Mutant: only an entry with a future goes.
ReapableDone(m) == inFlight[m] = "attached" /\ runner[m] = "none"

\* What _cleanup_in_flight asks of an old entry: no future, or one that is done.
Reapable(m) ==
    inFlight[m] = "bare" \/ (inFlight[m] = "attached" /\ runner[m] = "none")

CleanupInFlight(m) ==
    /\ phase = "up" /\ main = "next" /\ listing = {}
    /\ Reapable(m)
    /\ inFlight' = [inFlight EXCEPT ![m] = "absent"]
    /\ UNCHANGED <<where, mainVars, queue, lockVars, runnerVars, bounds>>

\* Mutant: the lock goes without being tried.
DroppableHeld(c) == lockTable[c] # 0

\* What _cleanup_chat_locks asks of an idle lock: nobody holds it.  A runner
\* that still waits for it keeps it from being idle, unless the wait is long.
Droppable(c) ==
    /\ lockTable[c] # 0
    /\ Holders(c, lockTable[c]) = {}
    /\ LongWaits \/ Waiters(c, lockTable[c]) = {}

CleanupChatLocks(c) ==
    /\ phase = "up" /\ main = "next" /\ listing = {}
    /\ MishapLeft
    /\ Droppable(c)
    /\ lockTable' = [lockTable EXCEPT ![c] = 0]
    /\ drops' = drops + 1
    /\ UNCHANGED <<where, mainVars, inFlight, queue, lockCount, runnerVars,
                   kills, stops, faults>>

-----------------------------------------------------------------------------
(* A pool's worker, and the runner it executes *)

\* A free worker takes the first future of its pool.
Take(p, m) ==
    /\ Alive
    /\ queue[p] # <<>> /\ m = Head(queue[p])
    /\ Cardinality(Busy(p)) < Workers[p]
    /\ queue' = [queue EXCEPT ![p] = Tail(@)]

\* The runner of a turn asks _chat_lock_for for the lock of its chat, which is
\* made when there is none.
BeginTurn(m) ==
    /\ key[m] \in Chats
    /\ Take("turns", m)
    /\ LET c    == key[m]
           lock == IF lockTable[c] = 0 THEN lockCount[c] + 1 ELSE lockTable[c]
       IN  /\ ref' = [ref EXCEPT ![m] = lock]
           /\ lockTable' = [lockTable EXCEPT ![c] = lock]
           /\ lockCount' = [lockCount EXCEPT ![c] = IF lock > @ THEN lock ELSE @]
    /\ Goto(m, "waiting")
    /\ UNCHANGED <<where, mainVars, inFlight, key, begun, bounds>>

\* A side-channel envelope takes no lock, and the lock of a file's own name is
\* always free: the runner enters process_one at once.
BeginUnlocked(m) ==
    /\ key[m] \notin Chats
    /\ \E p \in Pools : Take(p, m)
    /\ Goto(m, "turn")
    /\ begun' = BegunBy(m)
    /\ UNCHANGED <<where, mainVars, inFlight, lockVars, key, ref, bounds>>

\* Mutant: the runner does not wait.
LockFreeAlways(m) == TRUE

LockFree(m) == Holders(key[m], ref[m]) = {}

\* The lock is acquired, by any of the runners that wait for it.
AcquireLock(m) ==
    /\ runner[m] = "waiting"
    /\ LockFree(m)
    /\ Goto(m, "turn")
    /\ begun' = BegunBy(m)
    /\ UNCHANGED <<where, mainVars, inFlight, queue, lockVars, key, ref, bounds>>

\* process_one answers or drops the message and moves the envelope as its last
\* step; if the move fails it is unlinked, and if that fails too it stays.
\* Returning releases the lock.
ProcessOne(m) ==
    /\ runner[m] = "turn"
    /\ m \notin Garbled /\ where[m] = "inbox"
    /\ \/ where' = [where EXCEPT ![m] = "processed"] /\ UNCHANGED faults
       \/ /\ Attempt(FALSE)
          /\ where' \in {where, [where EXCEPT ![m] = "removed"]}
    /\ Goto(m, "leaving")
    /\ UNCHANGED <<mainVars, inFlight, queue, lockVars, key, ref, begun,
                   kills, stops, drops>>

\* An error gets out of process_one, or the envelope is gone; this, too,
\* releases the lock.
ProcessOneRaises(m) ==
    /\ runner[m] = "turn"
    /\ m \notin Garbled \/ where[m] # "inbox"
    /\ Goto(m, "raised")
    /\ ref' = [ref EXCEPT ![m] = 0]
    /\ UNCHANGED <<where, mainVars, inFlight, queue, lockVars, key, begun, bounds>>

\* process_one quarantines what it cannot parse, and returns either way.
QuarantinePoison(m) ==
    /\ runner[m] = "turn"
    /\ m \in Garbled /\ where[m] = "inbox"
    /\ \E ok \in BOOLEAN :
        /\ Attempt(ok)
        /\ where' = IF ok THEN [where EXCEPT ![m] = "poison"] ELSE where
    /\ Goto(m, "leaving")
    /\ UNCHANGED <<mainVars, inFlight, queue, lockVars, key, ref, begun,
                   kills, stops, drops>>

\* The runner's handler quarantines an envelope that is still there.
Quarantine(m) ==
    /\ runner[m] = "raised"
    /\ \E ok \in BOOLEAN :
        /\ Attempt(ok)
        /\ where' = IF ok /\ where[m] = "inbox"
                    THEN [where EXCEPT ![m] = "poison"] ELSE where
    /\ Goto(m, "leaving")
    /\ UNCHANGED <<mainVars, inFlight, queue, lockVars, key, ref, begun,
                   kills, stops, drops>>

\* The runner takes its entry out of the table.
Leave(m) ==
    /\ runner[m] = "leaving"
    /\ inFlight' = [inFlight EXCEPT ![m] = "absent"]
    /\ Goto(m, "none")
    /\ key' = [key EXCEPT ![m] = "own"] /\ ref' = [ref EXCEPT ![m] = 0]
    /\ UNCHANGED <<where, mainVars, queue, lockVars, begun, bounds>>

-----------------------------------------------------------------------------
(* Shutdown, crash and restart *)

\* Everything in memory is gone.
Die ==
    /\ phase' = "down" /\ listing' = {} /\ main' = "next"
    /\ inFlight' = [m \in Msgs |-> "absent"]
    /\ queue' = [p \in Pools |-> <<>>]
    /\ lockTable' = [c \in Chats |-> 0] /\ lockCount' = [c \in Chats |-> 0]
    /\ runner' = [m \in Msgs |-> "none"]
    /\ key' = [m \in Msgs |-> "own"]
    /\ ref' = [m \in Msgs |-> 0]
    /\ UNCHANGED <<where, begun>>

\* The main loop sees the flag of the SIGTERM handler at the top of a tick.
Terminate ==
    /\ phase = "up" /\ main = "next" /\ listing = {}
    /\ MishapLeft
    /\ stops' = stops + 1
    /\ phase' = "draining"
    /\ UNCHANGED <<where, listing, main, inFlight, queue, lockVars, runnerVars,
                   kills, faults, drops>>

\* Mutant: the drain looks at the pools' queues only.
DrainedQueues == \A p \in Pools : queue[p] = <<>>

\* The drain is complete when nothing is in flight.
Drained == \A m \in Msgs : inFlight[m] = "absent"

DrainComplete ==
    /\ phase = "draining" /\ Drained
    /\ Die
    /\ UNCHANGED bounds

\* The drain's budget is used up: os._exit in the middle of the turns.
DrainTimeout ==
    /\ phase = "draining" /\ ~Drained
    /\ kills' = kills + 1
    /\ Die
    /\ UNCHANGED <<stops, faults, drops>>

\* Ctrl-C: the pools drop what they have not begun, and the interpreter waits
\* for the workers.
Interrupt ==
    /\ phase \in {"up", "draining"}
    /\ MishapLeft
    /\ stops' = stops + 1
    /\ phase' = "joining" /\ listing' = {} /\ main' = "next"
    /\ queue' = [p \in Pools |-> <<>>]
    /\ runner' = [m \in Msgs |-> IF runner[m] = "queued" THEN "none" ELSE runner[m]]
    /\ UNCHANGED <<where, inFlight, lockVars, key, ref, begun, kills, faults, drops>>

Joined ==
    /\ phase = "joining"
    /\ \A m \in Msgs : runner[m] = "none"
    /\ Die
    /\ UNCHANGED bounds

Kill ==
    /\ Alive
    /\ MishapLeft
    /\ kills' = kills + 1
    /\ Die
    /\ UNCHANGED <<stops, faults, drops>>

Boot ==
    /\ phase = "down"
    /\ phase' = "up"
    /\ UNCHANGED <<where, listing, main, inFlight, queue, lockVars, runnerVars, bounds>>

-----------------------------------------------------------------------------
(* Specification *)

MainLoop(m) == Submit(m) \/ Skip(m) \/ Attach(m)

\* A runner up to process_one, in it, and after it.
Begin(m)  == BeginTurn(m) \/ BeginUnlocked(m) \/ AcquireLock(m)
Handle(m) == ProcessOne(m) \/ ProcessOneRaises(m) \/ QuarantinePoison(m)
Finish(m) == Quarantine(m) \/ Leave(m)

Next ==
    \/ \E m \in Msgs : \/ Arrive(m) \/ MainLoop(m) \/ CleanupInFlight(m)
                       \/ Begin(m) \/ Handle(m) \/ Finish(m)
    \/ \E c \in Chats : CleanupChatLocks(c)
    \/ List \/ Terminate \/ DrainComplete \/ DrainTimeout
    \/ Interrupt \/ Joined \/ Kill \/ Boot

\* The main loop and the threads keep running; every tick of the main loop may
\* be the one that sweeps, so that an entry that can be reaped again and again
\* is reaped; the drain's budget runs out and a process that is down is started
\* again.  Nothing is assumed of turns: only side-channel envelopes, and those
\* process_one cannot read, are sure to be handled in finite time.
Fairness ==
    /\ WF_vars(List \/ \E m \in Msgs : MainLoop(m))
    /\ \A m \in Msgs : /\ SF_vars(CleanupInFlight(m))
                       /\ WF_vars(\/ Begin(m) \/ Finish(m)
                                  \/ key[m] \notin Chats /\ Handle(m))
    /\ WF_vars(DrainComplete \/ DrainTimeout \/ Joined \/ Boot)

Spec == Init /\ [][Next]_vars /\ Fairness

-----------------------------------------------------------------------------
(* Properties *)

\* "Per-chat sequential": two turns of a chat never run at the same time, over
\* lock creation, lock cleanup and restarts.
ChatSequential ==
    \A m, n \in Msgs :
        /\ runner[m] = "turn" /\ runner[n] = "turn"
        /\ key[m] \in Chats /\ key[m] = key[n]
        => m = n

\* A message whose runner is queued or running is in the in-flight table, so
\* that the poll loop cannot submit it a second time: neither the cleanup nor
\* the late attachment of the future opens that window.
RunnersRegistered ==
    \A m \in Msgs : runner[m] # "none" => inFlight[m] # "absent"

\* A message is taken up again only after a death of the process or a failing
\* file operation: neither polling, nor the cleanups, nor an orderly drain,
\* nor Ctrl-C makes the bridge execute an instruction twice.
TakenUpOnce == \A m \in Msgs : begun[m] <= 1 + kills + faults

\* A side-channel message is handled even if no turn ever ends, as long as the
\* process is not waiting to exit.
SideChannelServed ==
    \A m \in SideMsgs : (where[m] = "inbox")
                            ~> (where[m] # "inbox" \/ phase = "joining")

\* If every turn ends, every message leaves the inbox.
MessagesLeave ==
    (\A m \in Msgs : []<>(runner[m] # "turn"))
        => \A m \in Msgs : (where[m] = "inbox") ~> (where[m] # "inbox")

\* The messages the bridge is handling, as the abstract inbox sees them.
Handled == {m \in Msgs : runner[m] = "turn" /\ key[m] # "own"}

\* The dispatcher implements the inbox.
Inbox == INSTANCE ChatInbox WITH busy <- Handled
ImplementsChatInbox == Inbox!Spec

-----------------------------------------------------------------------------
(* The inductive invariant behind the safety properties *)

\* A message is in a pool's queue once, and only while its runner is queued.
QueueInv ==
    \A p \in Pools :
        /\ \A i \in DOMAIN queue[p] : /\ runner[queue[p][i]] = "queued"
                                      /\ PoolOf(key[queue[p][i]]) = p
        /\ \A i, j \in DOMAIN queue[p] : queue[p][i] = queue[p][j] => i = j

\* While the main loop runs, an entry without a future has no runner, but for
\* the one whose future is about to be attached; a dead process has no runner.
EntryInv ==
    /\ phase = "up" => \A m \in Msgs :
          inFlight[m] = "bare" /\ runner[m] # "none" => main = "attach" /\ IsNext(m)
    /\ phase = "down" => \A m \in Msgs : runner[m] = "none"

\* What a runner knows of its envelope: nobody else moves it.
KeyInv ==
    /\ \A m \in listing : where[m] # "absent"
    /\ \A m \in Msgs : runner[m] # "none" =>
          /\ where[m] # "absent"
          /\ key[m] = "side" => m \in SideMsgs
          /\ key[m] \in Chats => m \notin SideMsgs /\ key[m] = ChatOf[m]
          /\ key[m] # "own" => m \notin Garbled
          /\ key[m] = "own" => m \in Garbled \/ where[m] # "inbox"
          /\ runner[m] \in {"queued", "waiting", "turn"} /\ key[m] # "own" =>
                where[m] = "inbox"
          /\ runner[m] = "waiting" => key[m] \in Chats

\* Unless a wait may outlast the lock, whoever waits for the lock of a chat or
\* holds it has the one in the table.
LockInv ==
    ~LongWaits => \A m \in Msgs :
        runner[m] \in {"waiting", "turn"} /\ key[m] \in Chats =>
            ref[m] = lockTable[key[m]] /\ ref[m] # 0

\* A message that may still be taken up pays for an earlier try with a death
\* or a fault.
BegunInv ==
    \A m \in Msgs :
        /\ where[m] = "absent" => begun[m] = 0
        /\ where[m] = "inbox" /\ runner[m] \notin {"turn", "raised"} =>
              begun[m] <= kills + faults
        /\ begun[m] <= 1 + kills + faults

IInv == /\ TypeOK /\ QueueInv /\ EntryInv /\ KeyInv /\ LockInv /\ BegunInv
        /\ RunnersRegistered /\ (~LongWaits => ChatSequential)

-----------------------------------------------------------------------------
(* What the documentation claims and the code does not do *)

\* "Items in the same (channel, chat) keep their order": a turn does not begin
\* while an earlier item of its chat, already accepted, has yet to begin.
ChatOrderKept ==
    [][\A m, n \in Msgs :
          /\ m < n /\ key[m] \in Chats /\ key[m] = key[n]
          /\ runner[m] \in {"queued", "waiting"} /\ runner[n] # "turn"
          => runner'[n] # "turn"]_vars
=============================================================================
