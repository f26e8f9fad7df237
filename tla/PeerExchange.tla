---------------------------- MODULE PeerExchange ----------------------------
(***************************************************************************)
(* One chat message from an agent to its peer (layer 38).  The sender      *)
(* posts a signed envelope and waits for the answer; a message that could  *)
(* not be delivered, or was not answered in time, is kept in the outbox    *)
(* and posted again, as a fresh envelope for the same task, until it has   *)
(* been answered, is known to the peer, is withdrawn, or is too old        *)
(* (remote_trigger_sender.py, a2a_outbox.py).  The peer refuses an         *)
(* envelope it has seen and records how far a task has come, but it does   *)
(* not refuse a second envelope for a task (remote_trigger_receiver.py,    *)
(* a2a_nonce_store.py, a2a_task_state.py).                                 *)
(*                                                                         *)
(* Envelopes are lost, delayed and doubled, either side may die anywhere,  *)
(* and either side's disk may fail.  Messages do not meet: one is all.     *)
(***************************************************************************)
EXTENDS Naturals, FiniteSets

CONSTANTS MaxCopies,   \* bound: envelopes ever posted
          MaxMishaps   \* bound: deaths, failing writes, doubled envelopes

Copies == 1..MaxCopies

ASSUME ConstantsOK == MaxCopies \in Nat \ {0} /\ MaxMishaps \in Nat

VARIABLES
    \* the sender
    entry,      \* the outbox's entry, in memory
    disk,       \* and in its file
    pc,         \* what the send, or the drain of the outbox, is about to do
    posted,     \* envelopes posted; the last of them is the one waited for
    late,       \* the deadline of the entry has passed
    \* between them
    net,        \* the envelopes on their way
    answer,     \* what has been answered to each
    \* the peer
    older,      \* it runs a build that answers no stage query
    nonces,     \* the envelopes it has seen
    handling,   \* how far it has come with each
    stage,      \* the stage of the task, in memory
    kept,       \* and in its file
    \* history
    slips,      \* what has happened of the things that excuse a second run
    mishaps

outbox  == <<entry, disk>>
sender  == <<outbox, pc, posted, late>>
network == <<net, answer>>
peer    == <<older, nonces, handling, stage, kept>>
history == <<slips, mishaps>>
vars    == <<sender, network, peer, history>>

Verdicts == {"sent", "delivered", "expired", "cancelled", "unconfirmed", "failed"}

\* Of the attempts so far: none can have been delivered; the last may have been, and
\* now < stale_until ("held"); one may have been ("maybe").
Entry == [state: Verdicts \cup {"none", "waiting", "erased"}, sent: {"no", "held", "maybe"}]

Terminal == {"completed", "failed", "rejected"}

TypeOK ==
    /\ entry \in Entry /\ disk \in Entry
    /\ pc \in {"new", "await", "unreached", "idle", "ask", "go", "marked"}
    /\ posted \in 0..MaxCopies /\ late \in BOOLEAN
    /\ net \subseteq 1..posted
    /\ answer \in [Copies -> {"none", "ok", "refused"}]
    /\ older \in BOOLEAN /\ nonces \subseteq 1..posted
    /\ handling \in [Copies -> {"idle", "delivered", "working", "refused", "died",
                                "completed", "failed"}]
    /\ stage \in {"unknown", "delivered", "processing"} \cup Terminal
    /\ kept \in {"unknown", "delivered", "processing"} \cup Terminal
    /\ slips \subseteq {"forgotten", "rollback", "straggler", "doubled"}
    /\ mishaps \in 0..MaxMishaps

Init ==
    /\ entry = [state |-> "none", sent |-> "no"] /\ disk = entry
    /\ pc = "new" /\ posted = 0 /\ late = FALSE
    /\ net = {} /\ answer = [c \in Copies |-> "none"]
    /\ older \in BOOLEAN /\ nonces = {}
    /\ handling = [c \in Copies |-> "idle"]
    /\ stage = "unknown" /\ kept = "unknown"
    /\ slips = {} /\ mishaps = 0

Mishap == mishaps < MaxMishaps /\ mishaps' = mishaps + 1

-----------------------------------------------------------------------------
(* The sender: the first attempt *)

\* The entry becomes e; the file follows unless the write fails.
Store(e) ==
    /\ entry' = e
    /\ \/ disk' = e /\ UNCHANGED mishaps
       \/ disk # e /\ Mishap /\ UNCHANGED disk

\* update and close change an entry only while it is waiting.
Update(sent) ==
    IF entry.state = "waiting"
    THEN Store([entry EXCEPT !.sent = sent])
    ELSE UNCHANGED <<outbox, mishaps>>

\* Mutant: an answer that comes late closes what has been erased meanwhile.
CloseAnyway(verdict) == Store([entry EXCEPT !.state = verdict])

Close(verdict) ==
    IF entry.state = "waiting"
    THEN Store([entry EXCEPT !.state = verdict])
    ELSE UNCHANGED <<outbox, mishaps>>

First == entry.state = "none"

\* The envelope leaves, or it provably does not, or the message is refused before it
\* is posted: the endpoint is revoked, the text too long, the network not granted.
Post ==
    /\ pc \in {"new", "marked"}
    /\ \/ /\ posted < MaxCopies
          /\ posted' = posted + 1 /\ net' = net \cup {posted'}
          /\ pc' = "await" /\ UNCHANGED <<outbox, mishaps>>
       \/ pc' = "unreached" /\ UNCHANGED <<posted, net, outbox, mishaps>>
       \/ pc' = "idle" /\ Close("failed") /\ UNCHANGED <<posted, net>>
    /\ UNCHANGED <<late, answer, peer, slips>>

\* Mutant: nothing is said of the copy that may be on its way.
KeepUnmarked(sent) == Store([state |-> "waiting"])

\* _keep_in_outbox: the failed message is kept, or the outbox is full.
Keep(sent) ==
    \/ Store([state |-> "waiting", sent |-> sent])
    \/ Mishap /\ UNCHANGED outbox

\* An answer that is not "ok", and one that does not pass the checks (its signature,
\* the peer's instance, the files that came with it), closes the message as failed.
Answered ==
    /\ pc = "await" /\ pc' = "idle"
    /\ \/ answer[posted] = "ok" /\ Close("sent")
       \/ answer[posted] # "none" /\ Close("failed")
    /\ UNCHANGED <<posted, late, network, peer, slips>>

\* No answer in time: a copy may be anywhere.
TimedOut ==
    /\ pc = "await" /\ pc' = "idle"
    /\ IF First THEN Keep("held") ELSE Update("held")
    /\ UNCHANGED <<posted, late, network, peer, slips>>

Unreached ==
    /\ pc = "unreached" /\ pc' = "idle"
    /\ IF First THEN Keep("no") ELSE Update("no")
    /\ UNCHANGED <<posted, late, network, peer, slips>>

-----------------------------------------------------------------------------
(* The sender: drain, cancel, erase_peer *)

\* Mutant: whoever may have it is not asked.
MustAskNever == FALSE

MustAsk == entry.sent # "no"

\* Mutant: a copy that may still be on its way does not delay the next one.
DueAtOnce == TRUE

Due == entry.sent # "held"

\* Mutant: a message the peer may have is asked about, however old it is.
OverdueUnlessMaybe == late /\ entry.sent = "no"

Overdue == late

Drain ==
    /\ pc = "idle" /\ entry.state = "waiting"
    /\ \/ Overdue /\ Close("expired") /\ UNCHANGED pc
       \/ /\ ~Overdue /\ Due
          /\ pc' = IF MustAsk THEN "ask" ELSE "go"
          /\ UNCHANGED <<outbox, mishaps>>
    /\ UNCHANGED <<posted, late, network, peer, slips>>

\* task_status: no answer, no such query, a task it knows, or one it does not.
Ask ==
    /\ pc = "ask"
    /\ \/ pc' = "idle" /\ UNCHANGED <<outbox, mishaps>>
       \/ older /\ pc' = "idle" /\ Close("unconfirmed")
       \/ ~older /\ stage # "unknown" /\ pc' = "idle" /\ Close("delivered")
       \/ ~older /\ stage = "unknown" /\ pc' = "go" /\ UNCHANGED <<outbox, mishaps>>
    /\ UNCHANGED <<posted, late, network, peer, slips>>

\* Before the attempt the entry says that it may have been delivered.
Mark ==
    /\ pc = "go"
    /\ pc' = IF entry.state = "waiting" THEN "marked" ELSE "idle"
    /\ Update("held")
    /\ UNCHANGED <<posted, late, network, peer, slips>>

\* Mutant: a message that is being sent can be withdrawn.
InflightNever == FALSE

Inflight == pc # "idle"

Cancel ==
    /\ entry.state = "waiting" /\ ~Inflight /\ Close("cancelled")
    /\ UNCHANGED <<pc, posted, late, network, peer, slips>>

Erase ==
    /\ entry.state \notin {"none", "erased"}
    /\ Store([entry EXCEPT !.state = "erased"])
    /\ UNCHANGED <<pc, posted, late, network, peer, slips>>

\* A restart loads the file; a first attempt that was under way is not repeated.
SenderDies ==
    /\ Mishap
    /\ entry' = disk /\ pc' = "idle"
    /\ slips' = IF disk = entry THEN slips ELSE slips \cup {"rollback"}
    /\ UNCHANGED <<disk, posted, late, network, peer>>

\* stale_until, no sooner than the send has returned: by then the peer drops what
\* the relay still has.  A copy sent directly it accepts for longer.
HoldOver ==
    /\ entry.sent = "held" /\ pc \notin {"marked", "await"}
    /\ entry' = [entry EXCEPT !.sent = "maybe"]
    /\ disk' = [disk EXCEPT !.sent = IF @ = "held" THEN "maybe" ELSE @]
    /\ \/ net = {} /\ UNCHANGED history
       \/ net # {} /\ Mishap /\ slips' = slips \cup {"straggler"}
    /\ UNCHANGED <<pc, posted, late, network, peer>>

DeadlinePasses ==
    /\ entry.state = "waiting" /\ ~late /\ late' = TRUE
    /\ UNCHANGED <<outbox, pc, posted, network, peer, history>>

-----------------------------------------------------------------------------
(* The peer: _receive_task *)

\* Stages only advance, and a terminal one stays.
Advances(new) ==
    /\ stage \notin Terminal /\ new # stage
    /\ new = "delivered" => stage = "unknown"

\* record_stage: in memory, and in the file unless the write fails.
Record(new) ==
    IF Advances(new)
    THEN /\ stage' = new
         /\ \/ kept' = new /\ UNCHANGED mishaps
            \/ kept # new /\ Mishap /\ UNCHANGED kept
    ELSE UNCHANGED <<stage, kept, mishaps>>

\* _rejected_response closes a task that is known.
Refuse(c) ==
    /\ answer' = [answer EXCEPT ![c] = IF @ = "none" THEN "refused" ELSE @]
    /\ IF stage = "unknown" THEN UNCHANGED <<stage, kept, mishaps>> ELSE Record("rejected")

\* A fresh envelope is recorded before anything else is done with it; when the
\* audit record cannot be written, or the rate is too high, it is as if unseen.
Receive(c) ==
    /\ c \in net \ nonces /\ net' = net \ {c}
    /\ \/ /\ nonces' = nonces \cup {c} /\ handling' = [handling EXCEPT ![c] = "delivered"]
          /\ Record("delivered") /\ UNCHANGED answer
       \/ Refuse(c) /\ UNCHANGED <<nonces, handling>>
    /\ UNCHANGED <<sender, older, slips>>

\* The relay sends an envelope to every connection of the peer: the copy that
\* comes second is refused as a replay, and its refusal may be the first answer.
Replay(c) ==
    /\ c \in nonces /\ Refuse(c)
    /\ slips' = slips \cup {"doubled"}
    /\ mishaps < MaxMishaps /\ "doubled" \notin slips
    /\ UNCHANGED <<sender, net, older, nonces, handling>>

\* All slots of the origin are busy, or a worker starts.
Admit(c) ==
    /\ handling[c] = "delivered"
    /\ \/ handling' = [handling EXCEPT ![c] = "refused"] /\ Refuse(c)
       \/ /\ handling' = [handling EXCEPT ![c] = "working"]
          /\ Record("processing") /\ UNCHANGED answer
    /\ UNCHANGED <<sender, net, older, nonces, slips>>

\* A worker that has completed its task may have nothing to show for it ("filtered"):
\* the peer records the task as completed, and does not answer "ok".
Answers(outcome) == IF outcome = "completed" THEN {"ok", "refused"} ELSE {"refused"}

\* The worker ends, and the answer is sent.
Finish(c) ==
    /\ handling[c] = "working"
    /\ \E outcome \in {"completed", "failed"} :
           /\ handling' = [handling EXCEPT ![c] = outcome]
           /\ Record(outcome)
           /\ \E a \in Answers(outcome) :
                  answer' = [answer EXCEPT ![c] = IF @ = "none" THEN a ELSE @]
    /\ UNCHANGED <<sender, net, older, nonces, slips>>

Lose(c) ==
    /\ c \in net /\ net' = net \ {c}
    /\ UNCHANGED <<sender, answer, peer, history>>

\* Mutant: a restart takes an unfinished task for one it has never heard of.
AfterRestartForgets(s) == IF s \in Terminal THEN s ELSE "unknown"

\* _load: what an earlier process left unfinished has failed.
AfterRestart(s) == IF s \in Terminal \cup {"unknown"} THEN s ELSE "failed"

\* The nonces and the stages are read back from their files.
PeerDies ==
    /\ Mishap
    /\ handling' = [c \in Copies |-> CASE handling[c] = "working" -> "died"
                                       [] handling[c] = "delivered" -> "refused"
                                       [] OTHER -> handling[c]]
    /\ stage' = AfterRestart(kept) /\ kept' = stage'
    /\ slips' = IF kept = "unknown" /\ stage # "unknown" THEN slips \cup {"forgotten"} ELSE slips
    /\ UNCHANGED <<sender, network, older, nonces>>

\* The oldest of _MAX_LIVE tasks is dropped from memory, or the origin is erased.
Forget ==
    /\ stage # "unknown" /\ stage' = "unknown" /\ kept' \in {kept, "unknown"}
    /\ Mishap /\ slips' = slips \cup {"forgotten"}
    /\ UNCHANGED <<sender, network, older, nonces, handling>>

-----------------------------------------------------------------------------
(* Specification *)

Sender == Post \/ Answered \/ TimedOut \/ Unreached \/ Drain \/ Ask \/ Mark

Next ==
    \/ Sender \/ Cancel \/ Erase \/ SenderDies \/ HoldOver \/ DeadlinePasses
    \/ \E c \in Copies : Receive(c) \/ Replay(c) \/ Admit(c) \/ Finish(c) \/ Lose(c)
    \/ PeerDies \/ Forget

\* The outbox task ticks for ever and a send waits only so long; of the peer and
\* the network nothing is assumed.
Fairness == WF_vars(Sender) /\ WF_vars(DeadlinePasses)

Spec == Init /\ [][Next]_vars /\ Fairness

-----------------------------------------------------------------------------
(* Properties *)

Ran == {c \in Copies : handling[c] \in {"working", "died", "completed", "failed"}}

\* The slips that excuse a second run.
Excused == slips \cap {"forgotten", "rollback", "straggler"} # {}

\* "A retry can never run a message twice": a second worker starts for the task
\* only if the peer has lost the record of the first, the sender has lost the
\* mark it made before an attempt, or a copy outlived the time it is allowed.
RunsOnce == Cardinality(Ran) <= 1 \/ Excused

\* A task that has been worked on is never answered "unknown", over restarts.
RanIsKnown == Ran # {} => stage # "unknown" \/ "forgotten" \in slips

\* A message that was withdrawn, or closed for any other reason, is not posted;
\* one whose peer is erased, only if it was on the point of being posted.
ClosedNotPosted ==
    [][posted' > posted => \/ entry.state \in {"none", "waiting"}
                           \/ entry.state = "erased" /\ pc = "marked"]_vars

\* A waiting message does not wait for ever, whatever becomes of the peer.
WaitingCloses == entry.state = "waiting" ~> entry.state # "waiting"

\* The exchange implements the message: what the outbox says of it is true of the
\* peer and stays true, and the peer works on it once, up to the slips that excuse.
Message == INSTANCE PeerMessage WITH
    verdict <- entry.state,
    reached <- nonces # {},
    running <- \E c \in Copies : handling[c] = "working",
    started <- Ran # {},
    done    <- \E c \in Copies : handling[c] = "completed",
    excuses <- (IF Excused THEN {"lost"} ELSE {}) \cup (slips \cap {"doubled"})
ImplementsPeerMessage == Message!Spec
=============================================================================
