------------------------ MODULE PeerExchange_proofs -------------------------
(***************************************************************************)
(* Proofs about PeerExchange for every number of envelopes and of mishaps: *)
(* that a retry does not run a message twice, that the peer knows what it  *)
(* has run, and what the sender may conclude from a refusal.               *)
(***************************************************************************)
EXTENDS PeerExchange, FiniteSetTheorems, TLAPS

-----------------------------------------------------------------------------
(* The inductive invariant *)

\* No worker runs for envelope c, and none will.
Quiet(c) == c \notin net /\ handling[c] \in {"idle", "refused"}

\* The peer does not work on envelope c, and will not any more.
Over(c) == c \notin net /\ handling[c] \in {"idle", "refused", "completed", "failed"}

\* What has been let in is known, as what has run is.
KnownInv ==
    (\E c \in Copies : handling[c] \notin {"idle", "refused"}) =>
        stage # "unknown" \/ "forgotten" \in slips

\* Nothing is done with an envelope before it has arrived, nor answered to one before
\* it is posted.
ArrivalInv ==
    /\ net \cap nonces = {}
    /\ \A c \in Copies : c \notin nonces => handling[c] = "idle"
    /\ \A c \in Copies : c > posted => answer[c] = "none"

\* Where a send is tells what the entry says: a repeated attempt is marked.
SendInv ==
    /\ pc = "new" => posted = 0 /\ entry.state = "none"
    /\ pc = "await" => posted \in Copies
    /\ pc = "marked" => entry.state \in {"waiting", "erased"}
    /\ pc \in {"marked", "await"} /\ entry.state = "waiting" => entry.sent = "held"

\* The next envelope is posted only when the earlier ones are quiet: the entry
\* shows that they are, or nothing is on its way any more and the peer is asked.
RepeatInv ==
    /\ \A c \in Copies : c < posted => Quiet(c)
    /\ pc \in {"go", "marked", "unreached"} => \A c \in Copies : Quiet(c)
    /\ entry.state = "waiting" /\ entry.sent = "no" => \A c \in Copies : Quiet(c)
    /\ pc = "ask" => net = {}
    /\ pc = "idle" /\ entry.state = "waiting" /\ entry.sent # "held" => net = {}

\* An answer is the end of its envelope, and a failed message of all of them.
AnswerInv ==
    /\ \A c \in Copies : answer[c] # "none" => Over(c)
    /\ entry.state = "failed" => \A c \in Copies : Over(c)

IInv ==
    /\ TypeOK /\ KnownInv /\ ArrivalInv /\ SendInv
    /\ Excused \/ RepeatInv
    /\ slips = {} => AnswerInv

-----------------------------------------------------------------------------
(* It holds at first and is kept *)

LEMMA InitIInv == Init => IInv
<1> SUFFICES ASSUME Init PROVE IInv
    OBVIOUS
<1> USE ConstantsOK DEF Init, Copies
<1>1. TypeOK
      <2>1. entry \in Entry /\ disk \in Entry
            BY DEF Entry, Verdicts
      <2>2. /\ answer \in [Copies -> {"none", "ok", "refused"}]
            /\ handling \in [Copies -> {"idle", "delivered", "working", "refused", "died",
                                        "completed", "failed"}]
            OBVIOUS
      <2>3. posted \in 0..MaxCopies /\ mishaps \in 0..MaxMishaps
            OBVIOUS
      <2>4. pc = "new" /\ late \in BOOLEAN /\ older \in BOOLEAN /\ net = {} /\ nonces = {}
            /\ stage = "unknown" /\ kept = "unknown" /\ slips = {}
            OBVIOUS
      <2> HIDE DEF Init
      <2> QED
          BY <2>1, <2>2, <2>3, <2>4 DEF TypeOK, Terminal
<1>2. KnownInv /\ ArrivalInv /\ SendInv /\ RepeatInv /\ AnswerInv
      BY DEF KnownInv, ArrivalInv, SendInv, RepeatInv, AnswerInv, Quiet, Over
<1> QED
    BY <1>1, <1>2 DEF IInv

\* No step leaves the types.
LEMMA NextTyped == TypeOK /\ [Next]_vars => TypeOK'
<1> SUFFICES ASSUME TypeOK, [Next]_vars PROVE TypeOK'
    OBVIOUS
<1> USE ConstantsOK DEF TypeOK, Entry, Verdicts, Terminal, Copies, Mishap, Store,
        Update, Close, Keep, Record, Refuse,
        outbox, sender, network, peer, history
<1>1. CASE Post
      <2>1. /\ \/ posted < MaxCopies /\ posted' = posted + 1 /\ net' = net \cup {posted'}
               \/ posted' = posted /\ net' = net
            /\ nonces' = nonces
            BY <1>1 DEF Post
      <2>0. posted' \in 0..MaxCopies
            BY <2>1
      <2>2. pc' \in {"await", "unreached", "idle"}
            /\ UNCHANGED <<late, answer, older, handling, stage, kept, slips>>
            BY <1>1 DEF Post
      <2>5. UNCHANGED <<outbox, mishaps>> \/ Close("failed")
            BY <1>1 DEF Post
      <2>6. entry' \in Entry /\ disk' \in Entry /\ mishaps' \in 0..MaxMishaps
            BY <2>5
      <2>3. 1..posted \subseteq 1..posted' /\ (posted' = posted + 1 => posted' \in 1..posted')
            BY <2>1
      <2>4. net' \subseteq 1..posted' /\ nonces' \subseteq 1..posted'
            BY <2>1, <2>3
      <2> QED
          BY <2>0, <2>2, <2>4, <2>6
<1>2. CASE Answered
      BY <1>2 DEF Answered
<1>3. CASE TimedOut
      BY <1>3 DEF TimedOut
<1>4. CASE Unreached
      BY <1>4 DEF Unreached
<1>5. CASE Drain
      BY <1>5 DEF Drain
<1>6. CASE Ask
      BY <1>6 DEF Ask
<1>7. CASE Mark
      BY <1>7 DEF Mark
<1>8. CASE Cancel
      BY <1>8 DEF Cancel
<1>9. CASE Erase
      BY <1>9 DEF Erase
<1>10. CASE SenderDies
      BY <1>10 DEF SenderDies
<1>11. CASE HoldOver
      BY <1>11 DEF HoldOver
<1>12. CASE DeadlinePasses
      BY <1>12 DEF DeadlinePasses
<1>13. ASSUME NEW c \in Copies, Receive(c) PROVE TypeOK'
      <2>1. c \in 1..posted /\ net' \subseteq 1..posted /\ nonces' \subseteq 1..posted
            BY <1>13 DEF Receive
      <2>2. CASE UNCHANGED answer /\ handling' = [handling EXCEPT ![c] = "delivered"]
                 /\ Record("delivered")
            BY <1>13, <2>1, <2>2 DEF Receive
      <2>3. CASE UNCHANGED <<nonces, handling>> /\ Refuse(c)
            BY <1>13, <2>1, <2>3 DEF Receive
      <2> QED
          BY <1>13, <2>2, <2>3 DEF Receive
<1>14. ASSUME NEW c \in Copies, Replay(c) PROVE TypeOK'
      BY <1>14 DEF Replay
<1>15. ASSUME NEW c \in Copies, Admit(c) PROVE TypeOK'
      BY <1>15, SMTT(30) DEF Admit
<1>16. ASSUME NEW c \in Copies, Finish(c) PROVE TypeOK'
      <2>1. PICK outcome \in {"completed", "failed"} :
                /\ handling' = [handling EXCEPT ![c] = outcome] /\ Record(outcome)
                /\ \E a \in Answers(outcome) :
                       answer' = [answer EXCEPT ![c] = IF @ = "none" THEN a ELSE @]
            BY <1>16 DEF Finish
      <2>2. PICK a \in {"ok", "refused"} :
                answer' = [answer EXCEPT ![c] = IF @ = "none" THEN a ELSE @]
            BY <2>1 DEF Answers
      <2>3. answer' \in [Copies -> {"none", "ok", "refused"}]
            BY <2>2
      <2>4. /\ stage' \in {"unknown", "delivered", "processing"} \cup Terminal
            /\ kept' \in {"unknown", "delivered", "processing"} \cup Terminal
            /\ mishaps' \in 0..MaxMishaps
            BY <2>1
      <2>5. handling' \in [Copies -> {"idle", "delivered", "working", "refused", "died",
                                      "completed", "failed"}]
            BY <2>1
      <2>6. UNCHANGED <<entry, disk, pc, posted, late, net, older, nonces, slips>>
            BY <1>16 DEF Finish
      <2> QED
          BY <2>3, <2>4, <2>5, <2>6
<1>17. ASSUME NEW c \in Copies, Lose(c) PROVE TypeOK'
      BY <1>17 DEF Lose
<1>18. CASE PeerDies
      BY <1>18 DEF PeerDies, AfterRestart
<1>19. CASE Forget
      BY <1>19 DEF Forget
<1>20. CASE UNCHANGED vars
      BY <1>20 DEF vars
<1> QED
    BY <1>1, <1>2, <1>3, <1>4, <1>5, <1>6, <1>7, <1>8, <1>9, <1>10, <1>11, <1>12,
       <1>13, <1>14, <1>15, <1>16, <1>17, <1>18, <1>19, <1>20
    DEF Next, Sender

\* No step leaves the invariant.
LEMMA NextIInv == IInv /\ [Next]_vars => IInv'
<1> SUFFICES ASSUME IInv, [Next]_vars PROVE IInv'
    OBVIOUS
<1>0. TypeOK'
      BY NextTyped DEF IInv
<1> DEFINE Kept == /\ KnownInv' /\ ArrivalInv' /\ SendInv'
                   /\ Excused' \/ RepeatInv'
                   /\ slips' = {} => AnswerInv'
<1> SUFFICES Kept
    BY <1>0 DEF IInv
<1> USE ConstantsOK DEF IInv, TypeOK, Entry, Verdicts, KnownInv, ArrivalInv, SendInv, Excused,
        RepeatInv, AnswerInv, Quiet, Over, Copies, Mishap, Store, Update, Close,
        outbox, sender, network, peer, history
<1>1. CASE Post
      <2>1. KnownInv'
            BY <1>1 DEF Post
      <2>2. SendInv'
            BY <1>1 DEF Post
      <2>5. posted' \in {posted, posted + 1} /\ net' \subseteq net \cup {posted + 1}
            /\ UNCHANGED <<nonces, handling, answer>>
            BY <1>1 DEF Post
      <2>6. posted + 1 \notin nonces /\ \A c \in Copies : c > posted' => c > posted
            BY <2>5
      <2>7. ArrivalInv'
            BY <2>5, <2>6
      <2>3. Excused' \/ RepeatInv'
            BY <1>1 DEF Post
      <2>4. slips' = {} => AnswerInv'
            BY <1>1 DEF Post
      <2> QED
          BY <2>1, <2>2, <2>7, <2>3, <2>4
<1>2. CASE Answered
      BY <1>2 DEF Answered
<1>3. CASE TimedOut
      BY <1>3 DEF TimedOut, First, Keep
<1>4. CASE Unreached
      BY <1>4 DEF Unreached, First, Keep
<1>5. CASE Drain
      BY <1>5 DEF Drain, Due, MustAsk
<1>6. CASE Ask
      BY <1>6 DEF Ask
<1>7. CASE Mark
      BY <1>7 DEF Mark
<1>8. CASE Cancel
      BY <1>8 DEF Cancel, Inflight
<1>9. CASE Erase
      BY <1>9 DEF Erase
<1>10. CASE SenderDies
      BY <1>10 DEF SenderDies
<1>11. CASE HoldOver
      BY <1>11 DEF HoldOver
<1>12. CASE DeadlinePasses
      BY <1>12 DEF DeadlinePasses
<1>13. ASSUME NEW c \in Copies, Receive(c) PROVE Kept
      <2>1. KnownInv'
            BY <1>13 DEF Receive, Refuse, Record, Advances, Terminal
      <2>2. SendInv'
            BY <1>13 DEF Receive, Refuse, Record, Advances, Terminal
      <2>5. /\ c \in 1..posted /\ ~(c > posted) /\ UNCHANGED posted
            /\ net' = net \ {c} /\ nonces' \subseteq nonces \cup {c}
            /\ \A d \in Copies : d # c => handling'[d] = handling[d] /\ answer'[d] = answer[d]
            /\ c \notin nonces' => handling'[c] = handling[c]
            BY <1>13 DEF Receive, Refuse
      <2>6. nonces \subseteq nonces'
            BY <1>13 DEF Receive
      <2>7. ArrivalInv'
            BY <1>13, <2>5, <2>6 DEF Receive
      <2>3. Excused' \/ RepeatInv'
            BY <1>13 DEF Receive, Refuse, Record, Advances, Terminal
      <2>4. slips' = {} => AnswerInv'
            BY <1>13 DEF Receive, Refuse, Record, Advances, Terminal
      <2> QED
          BY <2>1, <2>2, <2>7, <2>3, <2>4
<1>14. ASSUME NEW c \in Copies, Replay(c) PROVE Kept
      BY <1>14 DEF Replay, Refuse, Record, Advances, Terminal
<1>15. ASSUME NEW c \in Copies, Admit(c) PROVE Kept
      <2>1. KnownInv'
            BY <1>15 DEF Admit, Refuse, Record, Advances, Terminal
      <2>2. ArrivalInv' /\ SendInv'
            BY <1>15 DEF Admit, Refuse, Record, Advances, Terminal
      <2>3. Excused' \/ RepeatInv'
            BY <1>15 DEF Admit, Refuse, Record, Advances, Terminal
      <2>4. slips' = {} => AnswerInv'
            BY <1>15 DEF Admit, Refuse, Record, Advances, Terminal
      <2> QED
          BY <2>1, <2>2, <2>3, <2>4
<1>16. ASSUME NEW c \in Copies, Finish(c) PROVE Kept
      <2>1. KnownInv'
            BY <1>16 DEF Finish, Record, Advances, Terminal
      <2>2. ArrivalInv' /\ SendInv'
            BY <1>16 DEF Finish, Record, Advances, Terminal
      <2>3. Excused' \/ RepeatInv'
            BY <1>16 DEF Finish, Record, Advances, Terminal
      <2>4. slips' = {} => AnswerInv'
            BY <1>16 DEF Finish, Record, Advances, Terminal
      <2> QED
          BY <2>1, <2>2, <2>3, <2>4
<1>17. ASSUME NEW c \in Copies, Lose(c) PROVE Kept
      BY <1>17 DEF Lose
<1>18. CASE PeerDies
      BY <1>18 DEF PeerDies, AfterRestart, Terminal
<1>19. CASE Forget
      BY <1>19 DEF Forget
<1>20. CASE UNCHANGED vars
      BY <1>20 DEF vars
<1> QED
    BY <1>1, <1>2, <1>3, <1>4, <1>5, <1>6, <1>7, <1>8, <1>9, <1>10, <1>11, <1>12,
       <1>13, <1>14, <1>15, <1>16, <1>17, <1>18, <1>19, <1>20
    DEF Next, Sender

LEMMA Invariance == Spec => []IInv
<1> QED
    BY InitIInv, NextIInv, PTL DEF Spec

-----------------------------------------------------------------------------
(* What follows from it *)

\* Every variable keeps to its type: the outbox's entry, the stages, the envelopes.
THEOREM TypeCorrect == Spec => []TypeOK
<1>1. IInv => TypeOK
      BY DEF IInv
<1> QED
    BY <1>1, Invariance, PTL

\* The peer starts one worker for a message, however often it is posted again:
\* envelopes may be lost, doubled and late, either side may die and its disk may
\* fail, as long as no record of it is lost and no copy outlives its time.
THEOREM RunsOnceTheorem == Spec => []RunsOnce
<1>1. IInv => RunsOnce
      <2> SUFFICES ASSUME IInv, ~Excused PROVE Cardinality(Ran) <= 1
          BY DEF RunsOnce, Excused
      <2>1. \A c \in Ran : c = posted
            BY DEF IInv, RepeatInv, Quiet, ArrivalInv, TypeOK, Ran, Copies
      <2>2. Ran = {} \/ Ran = {posted}
            BY <2>1
      <2>3. Cardinality({}) = 0 /\ Cardinality({posted}) = 1
            BY FS_EmptySet, FS_Singleton
      <2> QED
          BY <2>2, <2>3
<1> QED
    BY <1>1, Invariance, PTL

\* What the peer has worked on it does not answer "unknown" for, over its restarts.
THEOREM RanIsKnownTheorem == Spec => []RanIsKnown
<1>1. IInv => RanIsKnown
      BY DEF IInv, KnownInv, RanIsKnown, Ran
<1> QED
    BY <1>1, Invariance, PTL

\* What has been withdrawn, answered or given up is not posted again.
THEOREM ClosedNotPostedTheorem == Spec => ClosedNotPosted
<1> DEFINE Allowed == posted' > posted => \/ entry.state \in {"none", "waiting"}
                                          \/ entry.state = "erased" /\ pc = "marked"
<1>1. IInv /\ [Next]_vars => [Allowed]_vars
      <2> SUFFICES ASSUME IInv, [Next]_vars, posted' > posted PROVE Allowed
          OBVIOUS
      <2>1. posted \in Nat
            BY DEF IInv, TypeOK
      <2>2. CASE Post
            BY <2>2 DEF Post, IInv, SendInv
      <2>3. CASE posted' = posted
            BY <2>1, <2>3
      <2>4. Post \/ posted' = posted
            BY DEF Next, Sender, Answered, TimedOut, Unreached, Drain, Ask, Mark, Cancel,
                   Erase, SenderDies, HoldOver, DeadlinePasses, Receive, Replay, Admit,
                   Finish, Lose, PeerDies, Forget, vars, sender
      <2> QED
          BY <2>2, <2>3, <2>4
<1> QED
    BY <1>1, Invariance, PTL DEF Spec, ClosedNotPosted
-----------------------------------------------------------------------------
(* The refinement *)

\* What has been reported is true of the peer: an answer "ok", a stage, a verdict in
\* memory or in the file.
TruthInv ==
    /\ \A c \in Copies : answer[c] = "ok" => handling[c] = "completed"
    /\ stage # "unknown" \/ kept # "unknown" => nonces # {}
    /\ "sent" \in {entry.state, disk.state} => \E c \in Copies : handling[c] = "completed"
    /\ "delivered" \in {entry.state, disk.state} => nonces # {}

LEMMA InitTruth == Init => TruthInv
<1> QED
    BY DEF Init, TruthInv

LEMMA NextTruth == IInv /\ TruthInv /\ [Next]_vars => TruthInv'
<1> SUFFICES ASSUME IInv, TruthInv, [Next]_vars PROVE TruthInv'
    OBVIOUS
<1> USE ConstantsOK DEF IInv, TypeOK, TruthInv, ArrivalInv, Entry, Verdicts, Copies, Mishap,
        Store, Update, Close, outbox, sender, network, peer, history
<1>1. CASE Post
      BY <1>1 DEF Post
<1>2. CASE Answered
      <2>1. posted \in Copies
            BY <1>2 DEF Answered, SendInv
      <2> QED
          BY <1>2, <2>1 DEF Answered
<1>3. CASE TimedOut
      BY <1>3 DEF TimedOut, First, Keep
<1>4. CASE Unreached
      BY <1>4 DEF Unreached, First, Keep
<1>5. CASE Drain
      BY <1>5 DEF Drain
<1>6. CASE Ask
      BY <1>6 DEF Ask
<1>7. CASE Mark
      BY <1>7 DEF Mark
<1>8. CASE Cancel
      BY <1>8 DEF Cancel
<1>9. CASE Erase
      BY <1>9 DEF Erase
<1>10. CASE SenderDies
      BY <1>10 DEF SenderDies
<1>11. CASE HoldOver
      BY <1>11 DEF HoldOver
<1>12. CASE DeadlinePasses
      BY <1>12 DEF DeadlinePasses
<1>13. ASSUME NEW c \in Copies, Receive(c) PROVE TruthInv'
      BY <1>13 DEF Receive, Refuse, Record, Advances, Terminal
<1>14. ASSUME NEW c \in Copies, Replay(c) PROVE TruthInv'
      BY <1>14 DEF Replay, Refuse, Record, Advances, Terminal
<1>15. ASSUME NEW c \in Copies, Admit(c) PROVE TruthInv'
      BY <1>15 DEF Admit, Refuse, Record, Advances, Terminal
<1>16. ASSUME NEW c \in Copies, Finish(c) PROVE TruthInv'
      <2>1. PICK outcome \in {"completed", "failed"} :
                /\ handling' = [handling EXCEPT ![c] = outcome] /\ Record(outcome)
                /\ \E a \in Answers(outcome) :
                       answer' = [answer EXCEPT ![c] = IF @ = "none" THEN a ELSE @]
            BY <1>16 DEF Finish
      <2>2. handling[c] = "working" /\ c \in nonces /\ UNCHANGED <<entry, disk, nonces>>
            BY <1>16 DEF Finish
      <2>3. answer'[c] = "ok" => answer[c] = "ok" \/ outcome = "completed"
            BY <2>1 DEF Answers
      <2>4. \A d \in Copies : d # c => answer'[d] = answer[d] /\ handling'[d] = handling[d]
            BY <2>1
      <2>5. \A d \in Copies : handling[d] = "completed" => handling'[d] = "completed"
            BY <2>1, <2>2
      <2>6. \A d \in Copies : answer'[d] = "ok" => handling'[d] = "completed"
            BY <2>1, <2>2, <2>3, <2>4
      <2> QED
          BY <2>2, <2>5, <2>6
<1>17. ASSUME NEW c \in Copies, Lose(c) PROVE TruthInv'
      BY <1>17 DEF Lose
<1>18. CASE PeerDies
      BY <1>18 DEF PeerDies, AfterRestart, Terminal
<1>19. CASE Forget
      BY <1>19 DEF Forget
<1>20. CASE UNCHANGED vars
      BY <1>20 DEF vars
<1> QED
    BY <1>1, <1>2, <1>3, <1>4, <1>5, <1>6, <1>7, <1>8, <1>9, <1>10, <1>11, <1>12,
       <1>13, <1>14, <1>15, <1>16, <1>17, <1>18, <1>19, <1>20
    DEF Next, Sender

LEMMA TruthKept == Spec => []TruthInv
<1> QED
    BY Invariance, InitTruth, NextTruth, PTL DEF Spec
\* The mapped variables, but for the verdict.
Reached == nonces # {}
Running == \E c \in Copies : handling[c] = "working"
Done    == \E c \in Copies : handling[c] = "completed"
Excuses == (IF Excused THEN {"lost"} ELSE {}) \cup (slips \cap {"doubled"})
Work    == <<Reached, Running, Ran # {}, Done, Excuses>>

\* The verdict is true of the peer.
LEMMA VerdictFounded == IInv /\ TruthInv => Message!Founded(entry.state)
<1> SUFFICES ASSUME IInv, TruthInv PROVE Message!Founded(entry.state)
    OBVIOUS
<1>1. slips = {} \/ Excuses # {}
      BY DEF IInv, TypeOK, Excuses, Excused
<1>2. entry.state = "failed" /\ slips = {} => ~Running
      BY DEF IInv, AnswerInv, Over, Running
<1>3. /\ entry.state = "sent" => Done
      /\ entry.state = "delivered" => Reached
      BY DEF TruthInv, Done, Reached
<1> QED
    BY <1>1, <1>2, <1>3 DEF Message!Founded, Running, Done, Reached, Excuses

\* What the sender does by itself.
Reports ==
    \/ entry'.state = entry.state
    \/ entry.state = "none" /\ entry'.state = "waiting"
    \/ entry.state = "waiting" /\ entry'.state \in Verdicts
    \/ entry.state # "none" /\ entry'.state = "erased"

LEMMA ReportIsStep ==
  ASSUME IInv', TruthInv', Reports, UNCHANGED <<nonces, handling, slips>>
  PROVE  Message!Next \/ UNCHANGED Message!vars
<1>1. UNCHANGED Work
      BY DEF Work, Reached, Running, Ran, Done, Excuses, Excused
<1>2. Message!Founded(entry.state)'
      BY VerdictFounded, PTL
<1>3. CASE entry'.state = entry.state
      BY <1>1, <1>3 DEF Message!vars, Work, Reached, Running, Done, Excuses
<1>4. CASE entry.state = "none" /\ entry'.state = "waiting"
      <2>1. Message!Keep
            BY <1>1, <1>4 DEF Message!Keep, Work, Reached, Running, Done, Excuses
      <2> QED
          BY <2>1 DEF Message!Next
<1>5. CASE entry.state = "waiting" /\ entry'.state \in Verdicts
      <2>1. Message!Founded(entry'.state)
            BY <1>1, <1>2 DEF Message!Founded, Work, Reached, Running, Done, Excuses
      <2>2. Message!Close(entry'.state)
            BY <1>1, <1>5, <2>1 DEF Message!Close, Work, Reached, Running, Done, Excuses
      <2> QED
          BY <1>5, <2>2 DEF Message!Next, Message!Final, Verdicts
<1>6. CASE entry.state # "none" /\ entry'.state = "erased"
      <2>1. Message!Erase
            BY <1>1, <1>6 DEF Message!Erase, Work, Reached, Running, Done, Excuses
      <2> QED
          BY <2>1 DEF Message!Next
<1> QED
    BY <1>3, <1>4, <1>5, <1>6 DEF Reports

\* What happens to the excuses and to the work, when the verdict stays.
LEMMA SlipIsStep ==
  ASSUME slips \subseteq slips', entry'.state = entry.state, nonces' = nonces,
         Ran' = Ran, Done' = Done, Running' => Running
  PROVE  Message!Next
<1>1. Excuses' \in SUBSET {"lost", "doubled"} /\ Excuses \subseteq Excuses'
      BY DEF Excuses, Excused
<1>2. Running \in BOOLEAN /\ Running' \in BOOLEAN
      BY DEF Running
<1>3. Running' \in {Running, FALSE}
      BY <1>2
<1>4. Message!Slip
      BY <1>1, <1>3 DEF Message!Slip, Message!Kinds, Reached, Running, Done, Excuses
<1> QED
    BY <1>4 DEF Message!Next

LEMMA InitMessage == Init => Message!Init
<1> SUFFICES ASSUME Init PROVE Message!Init
    OBVIOUS
<1>1. Ran = {} /\ ~Running /\ ~Done /\ nonces = {} /\ Excuses = {} /\ entry.state = "none"
      BY DEF Init, Ran, Running, Done, Excuses, Excused
<1> QED
    BY <1>1 DEF Message!Init, Running, Done, Excuses
\* What the sender, the clock and the network do reports something, or nothing.
LEMMA SenderReports ==
  ASSUME IInv, Sender \/ Cancel \/ Erase \/ DeadlinePasses \/ \E c \in Copies : Lose(c)
  PROVE  Reports /\ UNCHANGED <<nonces, handling, slips>>
<1> USE DEF IInv, TypeOK, Entry, Verdicts, Reports, Store, Update, Close, Mishap,
        outbox, sender, network, peer, history
<1>1. CASE Post
      BY <1>1 DEF Post
<1>2. CASE Answered
      BY <1>2 DEF Answered
<1>3. CASE TimedOut
      BY <1>3 DEF TimedOut, First, Keep
<1>4. CASE Unreached
      BY <1>4 DEF Unreached, First, Keep
<1>5. CASE Drain
      BY <1>5 DEF Drain
<1>6. CASE Ask
      BY <1>6 DEF Ask
<1>7. CASE Mark
      BY <1>7 DEF Mark
<1>8. CASE Cancel
      BY <1>8 DEF Cancel
<1>9. CASE Erase
      BY <1>9 DEF Erase
<1>10. CASE DeadlinePasses
      BY <1>10 DEF DeadlinePasses
<1>11. CASE \E c \in Copies : Lose(c)
      BY <1>11 DEF Lose
<1> QED
    BY <1>1, <1>2, <1>3, <1>4, <1>5, <1>6, <1>7, <1>8, <1>9, <1>10, <1>11 DEF Sender

\* A worker starts: the message has arrived, and is not started again but for a slip.
LEMMA StartIsStep ==
  ASSUME IInv, NEW c \in Copies, Admit(c), handling' = [handling EXCEPT ![c] = "working"]
  PROVE  Message!Next
<1> USE DEF IInv, TypeOK
<1>1. handling[c] = "delivered" /\ UNCHANGED <<entry, nonces, slips>>
      BY DEF Admit, sender, outbox
<1>2. Reached
      BY <1>1 DEF ArrivalInv, Reached
<1>3. Ran = {} \/ Excused
      BY <1>1 DEF RepeatInv, ArrivalInv, Quiet, Ran, Copies
<1>4. Excuses # {} \/ slips = {}
      BY DEF Excuses, Excused
<1>5. entry.state # "failed" \/ Excuses # {}
      BY <1>1, <1>4 DEF AnswerInv, Over
<1>6. Running' /\ Ran' # {} /\ Done' = Done
      BY <1>1 DEF Running, Ran, Done
<1>7. Excused <=> "lost" \in Excuses
      BY DEF Excuses
<1>8. UNCHANGED <<entry.state, Reached, Excuses>>
      BY <1>1 DEF Reached, Excuses, Excused
<1>9. Message!Start
      BY <1>2, <1>3, <1>5, <1>6, <1>7, <1>8
      DEF Message!Start, Reached, Running, Done, Excuses
<1> QED
    BY <1>9 DEF Message!Next

\* A worker ends: another one goes on only after a slip.
LEMMA EndIsStep ==
  ASSUME IInv, NEW c \in Copies, Finish(c)
  PROVE  Message!Next
<1> USE DEF IInv, TypeOK
<1>1. handling[c] = "working" /\ UNCHANGED <<entry, nonces, slips>>
      BY DEF Finish, sender, outbox
<1>2. PICK outcome \in {"completed", "failed"} : handling' = [handling EXCEPT ![c] = outcome]
      BY DEF Finish
<1>3. Running /\ Running' \in BOOLEAN /\ Done' \in {Done, TRUE} /\ (Ran' # {}) = (Ran # {})
      BY <1>1, <1>2 DEF Running, Ran, Done
<1>4. Running' => Excused
      BY <1>1, <1>2 DEF RepeatInv, ArrivalInv, Quiet, Running, Copies
<1>5. Excused <=> "lost" \in Excuses
      BY DEF Excuses
<1>6. UNCHANGED <<entry.state, Reached, Excuses>>
      BY <1>1 DEF Reached, Excuses, Excused
<1>7. Message!End
      BY <1>3, <1>4, <1>5, <1>6 DEF Message!End, Reached, Running, Done, Excuses
<1> QED
    BY <1>7 DEF Message!Next

\* A restart that loads an older entry goes back to an earlier verdict.
LEMMA DeathIsStep ==
  ASSUME IInv, TruthInv, SenderDies
  PROVE  Message!Next \/ UNCHANGED Message!vars
<1>1. entry' = disk /\ UNCHANGED <<nonces, handling>>
      BY DEF SenderDies, peer
<1>2. Ran' = Ran /\ Running' = Running /\ Done' = Done /\ Reached' = Reached
      BY <1>1 DEF Ran, Running, Done, Reached
<1>3. CASE disk = entry
      <2>1. Excuses' = Excuses /\ entry'.state = entry.state
            BY <1>1, <1>3 DEF SenderDies, Excuses, Excused
      <2> QED
          BY <1>2, <2>1 DEF Message!vars, Reached, Running, Done, Excuses
<1>4. CASE disk # entry
      <2>1. Excuses' = Excuses \cup {"lost"}
            BY <1>4 DEF SenderDies, Excuses, Excused
      <2>2. disk.state \in Message!Final \cup {"none", "waiting", "erased"}
            BY DEF IInv, TypeOK, Entry, Verdicts, Message!Final
      <2>3. /\ disk.state = "sent" => Done
            /\ disk.state = "delivered" => Reached
            BY DEF TruthInv, Done, Reached
      <2>4. Message!Rollback(disk.state)
            BY <1>1, <1>2, <2>1, <2>3
            DEF Message!Rollback, Reached, Running, Done, Excuses
      <2> QED
          BY <2>2, <2>4 DEF Message!Next
<1> QED
    BY <1>3, <1>4

\* A step of the exchange is a step of the message or leaves it alone.
LEMMA StepMessage ==
  ASSUME IInv, TruthInv, [Next]_vars
  PROVE  Message!Next \/ UNCHANGED Message!vars
<1>0. IInv' /\ TruthInv'
      BY NextIInv, NextTruth
<1> USE DEF IInv, TypeOK, outbox, sender, network, peer, history
<1>1. CASE Sender \/ Cancel \/ Erase \/ DeadlinePasses \/ \E c \in Copies : Lose(c)
      <2>1. Reports /\ UNCHANGED <<nonces, handling, slips>>
            BY <1>1, SenderReports
      <2> QED
          BY <1>0, <2>1, ReportIsStep
<1>2. CASE SenderDies
      BY <1>2, DeathIsStep
<1>3. CASE HoldOver
      <2>1. slips \subseteq slips' /\ entry'.state = entry.state /\ UNCHANGED <<nonces, handling>>
            BY <1>3 DEF HoldOver, Entry, Mishap
      <2>2. Ran' = Ran /\ Done' = Done /\ Running' = Running
            BY <2>1 DEF Ran, Done, Running
      <2> QED
          BY <2>1, <2>2, SlipIsStep
<1>4. ASSUME NEW c \in Copies, Receive(c) PROVE Message!Next \/ UNCHANGED Message!vars
      <2>1. UNCHANGED <<entry, slips>> /\ handling[c] = "idle"
            BY <1>4 DEF Receive, ArrivalInv
      <2>2. CASE UNCHANGED <<nonces, handling>>
            BY <2>1, <2>2, <1>0, ReportIsStep DEF Reports
      <2>3. CASE nonces' = nonces \cup {c} /\ handling' = [handling EXCEPT ![c] = "delivered"]
            <3>1. Reached' /\ Ran' = Ran /\ Done' = Done /\ Running' = Running
                  BY <2>1, <2>3 DEF Reached, Ran, Done, Running
            <3>2. UNCHANGED <<entry.state, Excuses>>
                  BY <2>1 DEF Excuses, Excused
            <3>3. Message!Reach
                  BY <3>1, <3>2 DEF Message!Reach, Reached, Done, Running, Excuses
            <3> QED
                BY <3>3 DEF Message!Next
      <2> QED
          BY <1>4, <2>2, <2>3 DEF Receive
<1>5. ASSUME NEW c \in Copies, Replay(c) PROVE Message!Next
      <2>1. slips \subseteq slips' /\ UNCHANGED <<entry, nonces, handling>>
            BY <1>5 DEF Replay
      <2>2. Ran' = Ran /\ Done' = Done /\ Running' = Running
            BY <2>1 DEF Ran, Done, Running
      <2> QED
          BY <2>1, <2>2, SlipIsStep
<1>6. ASSUME NEW c \in Copies, Admit(c) PROVE Message!Next
      <2>1. CASE handling' = [handling EXCEPT ![c] = "working"]
            BY <1>6, <2>1, StartIsStep
      <2>2. CASE handling' = [handling EXCEPT ![c] = "refused"]
            <3>1. handling[c] = "delivered" /\ UNCHANGED <<entry, nonces, slips>>
                  BY <1>6 DEF Admit
            <3>2. Ran' = Ran /\ Done' = Done /\ Running' = Running
                  BY <2>2, <3>1 DEF Ran, Done, Running
            <3> QED
                BY <3>1, <3>2, SlipIsStep
      <2> QED
          BY <1>6, <2>1, <2>2 DEF Admit
<1>7. ASSUME NEW c \in Copies, Finish(c) PROVE Message!Next
      BY <1>7, EndIsStep
<1>8. CASE PeerDies
      <2>1. slips \subseteq slips' /\ UNCHANGED <<entry, nonces>>
            BY <1>8 DEF PeerDies
      <2>2. \A c \in Copies : /\ (c \in Ran') = (c \in Ran)
                              /\ (handling'[c] = "completed") = (handling[c] = "completed")
                              /\ handling'[c] # "working"
            BY <1>8 DEF PeerDies, Ran
      <2>3. Ran' = Ran /\ Done' = Done /\ ~Running'
            BY <2>2 DEF Ran, Done, Running
      <2> QED
          BY <2>1, <2>3, SlipIsStep
<1>9. CASE Forget
      <2>1. slips \subseteq slips' /\ UNCHANGED <<entry, nonces, handling>>
            BY <1>9 DEF Forget
      <2>2. Ran' = Ran /\ Done' = Done /\ Running' = Running
            BY <2>1 DEF Ran, Done, Running
      <2> QED
          BY <2>1, <2>2, SlipIsStep
<1>10. CASE UNCHANGED vars
      BY <1>0, <1>10, ReportIsStep DEF vars, Reports
<1> QED
    BY <1>1, <1>2, <1>3, <1>4, <1>5, <1>6, <1>7, <1>8, <1>9, <1>10 DEF Next

\* The exchange implements the message: the peer works on it once, every verdict is
\* true of the peer when it is given, and it is not taken back, up to the slips.
THEOREM ExchangeImplementsMessage == Spec => ImplementsPeerMessage
<1>1. IInv /\ TruthInv /\ [Next]_vars => [Message!Next]_Message!vars
      BY StepMessage
<1> QED
    BY Invariance, TruthKept, InitMessage, <1>1, PTL
    DEF Spec, ImplementsPeerMessage, Message!Spec

\* What the sender is told stays true: "sent" means that the peer has completed the
\* work, "delivered" that it has let the message in, and "failed" that it does not work
\* on it, unless an envelope was doubled or a record lost.
THEOREM VerdictStaysTrue == Spec => []Message!Founded(entry.state)
<1> QED
    BY VerdictFounded, Invariance, TruthKept, PTL
=============================================================================
