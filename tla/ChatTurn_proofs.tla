-------------------------- MODULE ChatTurn_proofs --------------------------
(***************************************************************************)
(* Proofs about ChatTurn for every set of notes and of stops and every     *)
(* number of turns: a note is neither lost nor given twice, and a stop     *)
(* reaches the turn it was meant for.                                      *)
(***************************************************************************)
EXTENDS ChatTurn, FiniteSetTheorems, TLAPS

-----------------------------------------------------------------------------
(* The inductive invariant *)

\* The attempt has an engine, or has had one.
Begun == pc = "spawning" \/ run # "none"

Before == {"open", "active", "drained"}

\* A turn has a number, and each of its attempts takes one list of notes.
CountInv ==
    /\ (pc # "idle" \/ engine # {}) => turn >= 1
    /\ lists <= CASE pc = "idle" -> 2 * turn
                  [] pc \in {"open", "active"} -> 2 * turn - 2 + attempt
                  [] OTHER -> 2 * turn - 1 + attempt

\* What is registered belongs to this turn and has begun.
RegisterInv ==
    /\ engine \subseteq {This}
    /\ engine # {} => pc \in {"spawning", "running"} \/ (pc = "ended" /\ kind = "buffered")
    /\ procs \subseteq {<<turn, 0>>, This}
    /\ pc \in {"idle", "open", "closing", "unregistered"} => procs = {}
    /\ This \in procs => Begun

\* How far the process has come agrees with where the turn is, and so do the report and
\* the reply.
RunInv ==
    /\ pc \in Before => run = "none"
    /\ pc = "spawning" => run \in {"none", "latched"}
    /\ pc \in {"running", "ended"} => run # "none"
    /\ run = "latched" => pc = "spawning"
    /\ run = "running" => pc = "running"
    /\ pc \in Before \cup {"spawning", "running", "ended", "unregistered"} =>
           report = "none" /\ reply = "none"
    /\ report = "completed" => run \in {"done", "capped"}
    /\ reply = "answer" => said

\* What a stop has found is an attempt that has begun.
TargetInv ==
    \A s \in Stops : \A t \in 1..MaxTurns, a \in {0, 1} :
        <<t, a>> \in target[s] => t < turn \/ (t = turn /\ a < attempt)
                                    \/ (t = turn /\ a = attempt /\ Begun)

\* A stop that has taken a turn down has said so.
CutInv ==
    \A s \in Stops : \A t \in 1..MaxTurns :
        <<t, s>> \in cut => t <= turn /\ stop[s] = "aborted"

\* An attempt that was stopped before its engine had said anything says nothing more.
SilenceInv ==
    /\ \A t \in 1..MaxTurns, a \in {0, 1} :
           <<t, a>> \in silenced => t < turn \/ (t = turn /\ a <= attempt)
    /\ This \in silenced => ~said /\ run \notin {"none", "running"}

\* Where a note is, it is once.
NoteInv ==
    \A n \in Notes :
        CASE note[n] = "queued"    -> uses[n] = IF n \in buffer THEN 0 ELSE 1
          [] note[n] = "delivered" -> uses[n] = 1 /\ n \notin buffer
          [] OTHER                 -> uses[n] = 0 /\ n \notin buffer

\* A stamp on a tracked turn is the work of a stop that has still to look, or has
\* found something of this turn.
StampInv ==
    (pc # "idle" /\ tracked /\ stamp) =>
        \E s \in Stops : \/ stop[s] \in {"stamped", "nothing"}
                         \/ /\ stop[s] \in {"found", "aborted"}
                            /\ \E a \in {0, 1} : <<turn, a>> \in target[s]

\* The stamp is there for the stops that are under way and for those that have
\* stopped this turn, but for the robbed ones.
RobInv ==
    \A s \in Stops \ robbed :
        /\ InFlight(s) => stamp
        /\ pc # "idle" /\ tracked /\ <<turn, s>> \in cut => stamp
        /\ pc = "idle" /\ tracked => stop[s] # "found"

IInv ==
    /\ TypeOK /\ CountInv /\ RegisterInv /\ RunInv /\ TargetInv /\ CutInv
    /\ SilenceInv /\ NoteInv /\ StampInv /\ RobInv /\ StoppedIsCancelled
-----------------------------------------------------------------------------
(* It holds at first and is kept *)

LEMMA InitIInv == Init => IInv
<1> SUFFICES ASSUME Init PROVE IInv
    OBVIOUS
<1>1. TypeOK
      <2>1. engine = {} /\ Cardinality(engine) <= 1
            BY FS_EmptySet DEF Init
      <2>2. /\ uses \in [Notes -> 0..2 * MaxTurns] /\ fetched \in [Notes -> 0..2 * MaxTurns]
            /\ lists \in 0..2 * MaxTurns /\ turn \in 0..MaxTurns
            BY TurnsOK DEF Init
      <2> QED
          BY <2>1, <2>2 DEF Init, TypeOK
<1>2. CountInv /\ RegisterInv /\ RunInv /\ TargetInv /\ CutInv /\ SilenceInv
      BY TurnsOK DEF Init, CountInv, RegisterInv, RunInv, TargetInv, CutInv, SilenceInv,
         Before, This
<1>3. NoteInv /\ StampInv /\ RobInv /\ StoppedIsCancelled
      BY DEF Init, NoteInv, StampInv, RobInv, StoppedIsCancelled, InFlight
<1> QED
    BY <1>1, <1>2, <1>3 DEF IInv

LEMMA AtMostOne ==
  ASSUME NEW x, NEW S, S \subseteq {x} PROVE Cardinality(S) <= 1
<1>1. S = {} \/ S = {x}
      OBVIOUS
<1>2. Cardinality({}) = 0 /\ Cardinality({x}) = 1
      BY FS_EmptySet, FS_Singleton
<1> QED
    BY <1>1, <1>2

LEMMA NextRegisters == IInv /\ [Next]_vars => CountInv' /\ RegisterInv' /\ RunInv'
<1> SUFFICES ASSUME IInv, [Next]_vars PROVE CountInv' /\ RegisterInv' /\ RunInv'
    OBVIOUS
<1> USE TurnsOK DEF IInv, TypeOK, CountInv, RegisterInv, RunInv, TargetInv, Begun,
        Before, This, Attempts, turnvars, process, account, running, notebook,
        stopping, history
<1>1. CASE Open
      BY <1>1 DEF Open, StampAtOpen
<1>2. CASE Refuse
      BY <1>2 DEF Refuse, Abandoned
<1>3. CASE Activate
      BY <1>3 DEF Activate
<1>4. CASE Drain
      BY <1>4 DEF Drain, LeftAfterDrain
<1>5. CASE Register
      BY <1>5 DEF Register
<1>6. CASE Spawn
      BY <1>6 DEF Spawn
<1>7. CASE SpawnFails
      BY <1>7 DEF SpawnFails, Abandoned
<1>8. CASE Says
      BY <1>8 DEF Says
<1>9. CASE Hears
      BY <1>9 DEF Hears
<1>10. CASE Ends
      BY <1>10 DEF Ends
<1>11. CASE Retry
      BY <1>11 DEF Retry
<1>12. CASE Unregister
      <2>1. CountInv'
            BY <1>12 DEF Unregister
      <2>4. engine' = {} /\ procs' \subseteq procs /\ UNCHANGED <<turn, attempt, run>>
            BY <1>12 DEF Unregister
      <2>5. pc' \in {pc, "closing", "unregistered"} /\ pc \in {"reported", "ended"}
            BY <1>12 DEF Unregister
      <2>6. pc' # pc => procs' = {}
            BY <1>12 DEF Unregister
      <2>2. RegisterInv'
            BY <2>4, <2>5, <2>6
      <2>3. RunInv'
            BY <1>12 DEF Unregister
      <2> QED
          BY <2>1, <2>2, <2>3
<1>13. CASE Report
      BY <1>13 DEF Report, Replies
<1>14. CASE Close
      BY <1>14 DEF Close, Recorded
<1>15. ASSUME NEW n \in Notes, Inject(n) PROVE CountInv' /\ RegisterInv' /\ RunInv'
      BY <1>15 DEF Inject, TakesNotes
<1>16. ASSUME NEW n \in Notes, Append(n) PROVE CountInv' /\ RegisterInv' /\ RunInv'
      BY <1>16 DEF Append
<1>17. ASSUME NEW n \in Notes, Check(n) PROVE CountInv' /\ RegisterInv' /\ RunInv'
      BY <1>17 DEF Check, TurnActive
<1>18. ASSUME NEW n \in Notes, Queue(n) PROVE CountInv' /\ RegisterInv' /\ RunInv'
      BY <1>18 DEF Queue
<1>19. ASSUME NEW s \in Stops, Stamp(s) PROVE CountInv' /\ RegisterInv' /\ RunInv'
      BY <1>19 DEF Stamp
<1>20. ASSUME NEW s \in Stops, Look(s) PROVE CountInv' /\ RegisterInv' /\ RunInv'
      BY <1>20 DEF Look
<1>21. ASSUME NEW s \in Stops, Kill(s) PROVE CountInv' /\ RegisterInv' /\ RunInv'
      <2>1. CountInv'
            BY <1>21 DEF Kill, Killed, Reached
      <2>2. RegisterInv'
            BY <1>21 DEF Kill, Killed, Reached
      <2>3. RunInv'
            <3>1. UNCHANGED <<pc, report, turn, attempt>>
                  BY <1>21 DEF Kill
            <3>2. CASE This \in target[s]
                  <4>1. <<turn, attempt>> \in target[s] /\ turn \in 1..MaxTurns
                        BY <3>2
                  <4>3. ~(turn < turn) /\ ~(attempt < attempt) /\ attempt \in {0, 1}
                        OBVIOUS
                  <4>2. Begun
                        BY <4>1, <4>3, Zenon
                  <4> QED
                      BY <1>21, <3>1, <3>2, <4>2 DEF Kill, Killed, Reached
            <3>3. CASE This \notin target[s]
                  BY <1>21, <3>1, <3>3 DEF Kill, Reached
            <3> QED
                BY <3>2, <3>3
      <2> QED
          BY <2>1, <2>2, <2>3
<1>22. ASSUME NEW s \in Stops, Withdraw(s) PROVE CountInv' /\ RegisterInv' /\ RunInv'
      BY <1>22 DEF Withdraw
<1>23. CASE UNCHANGED vars
      BY <1>23 DEF vars
<1> QED
    BY <1>1, <1>2, <1>3, <1>4, <1>5, <1>6, <1>7, <1>8, <1>9, <1>10, <1>11, <1>12,
       <1>13, <1>14, <1>15, <1>16, <1>17, <1>18, <1>19, <1>20, <1>21, <1>22, <1>23
    DEF Next, Turn

\* No step leaves the types; that one engine is registered at most, RegisterInv says.
LEMMA NextTyped == IInv /\ [Next]_vars => TypeOK'
<1> SUFFICES ASSUME IInv, [Next]_vars PROVE TypeOK'
    OBVIOUS
<1>0. Cardinality(engine') <= 1
      BY NextRegisters, AtMostOne DEF RegisterInv
<1> USE <1>0, TurnsOK DEF IInv, TypeOK, CountInv, RegisterInv, NoteInv, Attempts, This,
        Robs, turnvars, process, account, running, notebook,
        stopping, history
<1>1. CASE Open
      <2>1. turn' \in 0..MaxTurns /\ stamp' \in BOOLEAN /\ robbed' \subseteq Stops
            BY <1>1 DEF Open, StampAtOpen
      <2>2. /\ pc' = "open" /\ kind' \in {"live", "buffered"} /\ tracked' \in BOOLEAN
            /\ attempt' = 0 /\ run' = "none" /\ said' = FALSE /\ report' = "none"
            /\ reply' = "none"
            /\ UNCHANGED <<outcome, engine, procs, buffer, lists, note, fetched, uses, stop,
                           target, cut, silenced>>
            BY <1>1 DEF Open
      <2> QED
          BY <2>1, <2>2
<1>2. CASE Refuse
      BY <1>2 DEF Refuse, Abandoned
<1>3. CASE Activate
      BY <1>3 DEF Activate
<1>4. CASE Drain
      BY <1>4 DEF Drain, LeftAfterDrain
<1>5. CASE Register
      BY <1>5 DEF Register
<1>6. CASE Spawn
      BY <1>6 DEF Spawn
<1>7. CASE SpawnFails
      BY <1>7 DEF SpawnFails, Abandoned
<1>8. CASE Says
      BY <1>8 DEF Says
<1>9. CASE Hears
      BY <1>9 DEF Hears
<1>10. CASE Ends
      BY <1>10 DEF Ends
<1>11. CASE Retry
      <2>1. pc' = "active" /\ attempt' = 1 /\ run' = "none" /\ said' = FALSE
            BY <1>11 DEF Retry
      <2>2. /\ UNCHANGED <<turn, kind, tracked, report, reply, outcome, engine, procs, buffer>>
            /\ UNCHANGED <<lists, stamp, note, fetched, uses, stop, target, cut, silenced>>
            /\ UNCHANGED robbed
            BY <1>11 DEF Retry
      <2>3. TypeOK /\ tracked' \in BOOLEAN /\ stamp' \in BOOLEAN /\ said' \in BOOLEAN
            BY <2>1, <2>2
      <2>4. Cardinality(engine') <= 1
            OBVIOUS
      <2> HIDE DEF IInv, CountInv, RegisterInv, NoteInv
      <2> QED
          BY <2>1, <2>2, <2>3, <2>4
<1>12. CASE Unregister
      BY <1>12 DEF Unregister
<1>13. CASE Report
      BY <1>13 DEF Report, Replies
<1>14. CASE Close
      <2>1. outcome' \in {"none", "completed", "failed", "cancelled", "refused"}
            BY <1>14 DEF Close, Recorded
      <2>2. stamp' \in BOOLEAN /\ robbed' \subseteq Stops
            BY <1>14 DEF Close
      <2>3. /\ pc' = "idle"
            /\ UNCHANGED <<turn, kind, tracked, attempt, run, said, report, reply>>
            /\ UNCHANGED <<engine, procs, buffer, lists, note, fetched, uses, stop, target,
                           cut, silenced>>
            BY <1>14 DEF Close
      <2> QED
          BY <2>1, <2>2, <2>3
<1>15. ASSUME NEW n \in Notes, Inject(n) PROVE TypeOK'
      BY <1>15 DEF Inject, TakesNotes
<1>16. ASSUME NEW n \in Notes, Append(n) PROVE TypeOK'
      BY <1>16 DEF Append
<1>17. ASSUME NEW n \in Notes, Check(n) PROVE TypeOK'
      BY <1>17 DEF Check, TurnActive
<1>18. ASSUME NEW n \in Notes, Queue(n) PROVE TypeOK'
      BY <1>18 DEF Queue
<1>19. ASSUME NEW s \in Stops, Stamp(s) PROVE TypeOK'
      BY <1>19 DEF Stamp
<1>20. ASSUME NEW s \in Stops, Look(s) PROVE TypeOK'
      BY <1>20 DEF Look
<1>21. ASSUME NEW s \in Stops, Kill(s) PROVE TypeOK'
      BY <1>21 DEF Kill, Killed, Reached
<1>22. ASSUME NEW s \in Stops, Withdraw(s) PROVE TypeOK'
      <2>1. robbed' \subseteq Stops
            BY <1>22 DEF Withdraw
      <2>2. stop' \in [Stops -> {"idle", "stamped", "found", "nothing", "aborted", "unfounded"}]
            /\ stamp' \in BOOLEAN
            BY <1>22 DEF Withdraw
      <2>3. /\ UNCHANGED <<pc, turn, kind, tracked, attempt, run, said, report, reply, outcome>>
            /\ UNCHANGED <<engine, procs, buffer, lists, note, fetched, uses, target, cut,
                           silenced>>
            BY <1>22 DEF Withdraw
      <2> QED
          BY <2>1, <2>2, <2>3
<1>23. CASE UNCHANGED vars
      BY <1>23 DEF vars
<1> QED
    BY <1>1, <1>2, <1>3, <1>4, <1>5, <1>6, <1>7, <1>8, <1>9, <1>10, <1>11, <1>12,
       <1>13, <1>14, <1>15, <1>16, <1>17, <1>18, <1>19, <1>20, <1>21, <1>22, <1>23
    DEF Next, Turn

LEMMA NextCuts == IInv /\ [Next]_vars => TargetInv' /\ CutInv'
<1> SUFFICES ASSUME IInv, [Next]_vars PROVE TargetInv' /\ CutInv'
    OBVIOUS
<1> USE TurnsOK DEF IInv, TypeOK, RegisterInv, RunInv, TargetInv, CutInv, Begun,
        Before, This, Attempts, turnvars, process, account, running, notebook,
        stopping, history
<1>1. CASE Open
      <2>3. turn' = turn + 1 /\ turn' \in 1..MaxTurns /\ UNCHANGED <<target, cut>>
            BY <1>1 DEF Open
      <2>1. TargetInv'
            <3>1. \A t \in 1..MaxTurns : t <= turn => t < turn'
                  BY <2>3
            <3>2. \A t \in 1..MaxTurns : t < turn => t < turn'
                  BY <2>3
            <3>3. \A t \in 1..MaxTurns : t = turn => t < turn'
                  BY <2>3
            <3> QED
                BY <2>3, <3>2, <3>3, Zenon
      <2>2. CutInv'
            <3>0. \A t \in 1..MaxTurns : t <= turn => t <= turn'
                  BY <2>3
            <3>2. \A s \in Stops : \A t \in 1..MaxTurns :
                      <<t, s>> \in cut => t <= turn' /\ stop[s] = "aborted"
                  BY <2>3, <3>0, Zenon
            <3>3. UNCHANGED stop
                  BY <1>1 DEF Open
            <3> QED
                BY <2>3, <3>2, <3>3, Zenon
      <2> QED
          BY <2>1, <2>2
<1>2. CASE Refuse
      BY <1>2 DEF Refuse, Abandoned
<1>3. CASE Activate
      BY <1>3 DEF Activate
<1>4. CASE Drain
      BY <1>4 DEF Drain, LeftAfterDrain
<1>5. CASE Register
      BY <1>5 DEF Register
<1>6. CASE Spawn
      BY <1>6 DEF Spawn
<1>7. CASE SpawnFails
      BY <1>7 DEF SpawnFails, Abandoned
<1>8. CASE Says
      BY <1>8 DEF Says
<1>9. CASE Hears
      BY <1>9 DEF Hears
<1>10. CASE Ends
      BY <1>10 DEF Ends
<1>11. CASE Retry
      <2>3. attempt = 0 /\ attempt' = 1 /\ UNCHANGED <<turn, target, cut, stop>>
            BY <1>11 DEF Retry
      <2>1. TargetInv'
            <3>1. attempt \in {0, 1}
                  OBVIOUS
            <3>2. \A a \in {0, 1} : a < 1 <=> a = 0
                  OBVIOUS
            <3>3. ~(1 < 0) /\ ~(0 < 0)
                  OBVIOUS
            <3> QED
                BY <2>3, <3>1, <3>2, <3>3, Zenon
      <2>2. CutInv'
            BY <2>3, Zenon
      <2> QED
          BY <2>1, <2>2
<1>12. CASE Unregister
      BY <1>12 DEF Unregister
<1>13. CASE Report
      BY <1>13 DEF Report, Replies
<1>14. CASE Close
      BY <1>14 DEF Close, Recorded
<1>15. ASSUME NEW n \in Notes, Inject(n) PROVE TargetInv' /\ CutInv'
      BY <1>15 DEF Inject, TakesNotes
<1>16. ASSUME NEW n \in Notes, Append(n) PROVE TargetInv' /\ CutInv'
      BY <1>16 DEF Append
<1>17. ASSUME NEW n \in Notes, Check(n) PROVE TargetInv' /\ CutInv'
      BY <1>17 DEF Check, TurnActive
<1>18. ASSUME NEW n \in Notes, Queue(n) PROVE TargetInv' /\ CutInv'
      BY <1>18 DEF Queue
<1>19. ASSUME NEW s \in Stops, Stamp(s) PROVE TargetInv' /\ CutInv'
      BY <1>19 DEF Stamp
<1>20. ASSUME NEW s \in Stops, Look(s) PROVE TargetInv' /\ CutInv'
      <2>1. TargetInv'
            <3>1. /\ target'[s] = engine \cup procs
                  /\ \A t \in Stops \ {s} : target'[t] = target[t]
                  /\ UNCHANGED <<turn, attempt, pc, run>>
                  BY <1>20 DEF Look
            <3>2. engine \cup procs \subseteq {<<turn, 0>>, <<turn, attempt>>}
                  BY DEF This
            <3>3. This \in engine \cup procs => Begun
                  OBVIOUS
            <3>4. \A t \in 1..MaxTurns, a \in {0, 1} : <<t, a>> \in target'[s] =>
                      t = turn /\ (a < attempt \/ (a = attempt /\ Begun))
                  BY <3>1, <3>2, <3>3
            <3> QED
                BY <3>1, <3>4, ZenonT(60)
      <2>2. CutInv'
            BY <1>20 DEF Look
      <2> QED
          BY <2>1, <2>2
<1>21. ASSUME NEW s \in Stops, Kill(s) PROVE TargetInv' /\ CutInv'
      BY <1>21 DEF Kill, Killed, Reached
<1>22. ASSUME NEW s \in Stops, Withdraw(s) PROVE TargetInv' /\ CutInv'
      BY <1>22 DEF Withdraw
<1>23. CASE UNCHANGED vars
      BY <1>23 DEF vars
<1> QED
    BY <1>1, <1>2, <1>3, <1>4, <1>5, <1>6, <1>7, <1>8, <1>9, <1>10, <1>11, <1>12,
       <1>13, <1>14, <1>15, <1>16, <1>17, <1>18, <1>19, <1>20, <1>21, <1>22, <1>23
    DEF Next, Turn

LEMMA NextSilenced == IInv /\ [Next]_vars => SilenceInv'
<1> SUFFICES ASSUME IInv, [Next]_vars PROVE SilenceInv'
    OBVIOUS
<1> USE TurnsOK DEF IInv, TypeOK, RunInv, SilenceInv, Before, This, Attempts, turnvars,
        process, account, running, notebook, stopping, history
<1>1. CASE Open
      <2>1. /\ turn' = turn + 1 /\ attempt' = 0 /\ turn' \in 1..MaxTurns
            /\ UNCHANGED silenced
            BY <1>1 DEF Open
      <2>2. \A t \in 1..MaxTurns : t < turn \/ t = turn => t < turn' /\ t # turn'
            BY <2>1
      <2>3. \A t \in 1..MaxTurns, a \in {0, 1} : <<t, a>> \in silenced => t < turn' /\ t # turn'
            BY <2>2
      <2>4. This' \notin silenced'
            BY <2>1, <2>3
      <2> QED
          BY <2>1, <2>3, <2>4
<1>2. CASE Register
      BY <1>2 DEF Register
<1>3. CASE Spawn
      BY <1>3 DEF Spawn
<1>4. CASE SpawnFails
      BY <1>4 DEF SpawnFails
<1>5. CASE Says
      BY <1>5 DEF Says
<1>6. CASE Ends
      BY <1>6 DEF Ends
<1>7. CASE Retry
      <2>1. attempt = 0 /\ attempt' = 1 /\ UNCHANGED <<turn, silenced>>
            BY <1>7 DEF Retry
      <2>2. <<turn, 1>> \notin silenced
            BY <2>1
      <2> QED
          BY <2>1, <2>2
<1>8. ASSUME NEW s \in Stops, Kill(s) PROVE SilenceInv'
      <2>1. UNCHANGED <<turn, attempt, said>>
            BY <1>8 DEF Kill
      <2>2. CASE Reached(s) /\ ~said
            <3>1. silenced' = silenced \cup {This} /\ run' \notin {"none", "running"}
                  BY <1>8, <2>2 DEF Kill, Killed, Reached
            <3> QED
                BY <2>1, <2>2, <3>1
      <2>3. CASE ~(Reached(s) /\ ~said)
            <3>1. silenced' = silenced /\ run' \in {run, "latched", "killed"}
                  BY <1>8, <2>3 DEF Kill, Killed
            <3> QED
                BY <2>1, <3>1
      <2> QED
          BY <2>2, <2>3
<1>9. CASE \/ Refuse \/ Activate \/ Drain \/ Hears \/ Unregister \/ Report \/ Close
      <2>1. UNCHANGED <<turn, attempt, said, run, silenced>>
            BY <1>9 DEF Refuse, Activate, Drain, Hears, Unregister, Report, Close
      <2> QED
          BY <2>1
<1>10. CASE \/ \E n \in Notes : Inject(n) \/ Append(n) \/ Check(n) \/ Queue(n)
            \/ \E s \in Stops : Stamp(s) \/ Look(s) \/ Withdraw(s)
            \/ UNCHANGED vars
      <2>1. UNCHANGED <<turn, attempt, said, run, silenced>>
            BY <1>10 DEF Inject, Append, Check, Queue, Stamp, Look, Withdraw, vars
      <2> QED
          BY <2>1
<1> QED
    BY <1>1, <1>2, <1>3, <1>4, <1>5, <1>6, <1>7, <1>8, <1>9, <1>10 DEF Next, Turn

LEMMA NextNotes == IInv /\ [Next]_vars => NoteInv'
<1> SUFFICES ASSUME IInv, [Next]_vars PROVE NoteInv'
    OBVIOUS
<1> USE TurnsOK DEF IInv, TypeOK, NoteInv,
        turnvars, process, account, running, notebook,
        stopping, history
<1>1. CASE Open
      BY <1>1 DEF Open, StampAtOpen
<1>2. CASE Refuse
      BY <1>2 DEF Refuse, Abandoned
<1>3. CASE Activate
      BY <1>3 DEF Activate
<1>4. CASE Drain
      BY <1>4 DEF Drain, LeftAfterDrain
<1>5. CASE Register
      BY <1>5 DEF Register
<1>6. CASE Spawn
      BY <1>6 DEF Spawn
<1>7. CASE SpawnFails
      BY <1>7 DEF SpawnFails, Abandoned
<1>8. CASE Says
      BY <1>8 DEF Says
<1>9. CASE Hears
      BY <1>9 DEF Hears
<1>10. CASE Ends
      BY <1>10 DEF Ends
<1>11. CASE Retry
      BY <1>11 DEF Retry
<1>12. CASE Unregister
      BY <1>12 DEF Unregister
<1>13. CASE Report
      BY <1>13 DEF Report, Replies
<1>14. CASE Close
      BY <1>14 DEF Close, Recorded
<1>15. ASSUME NEW n \in Notes, Inject(n) PROVE NoteInv'
      BY <1>15 DEF Inject, TakesNotes
<1>16. ASSUME NEW n \in Notes, Append(n) PROVE NoteInv'
      BY <1>16 DEF Append
<1>17. ASSUME NEW n \in Notes, Check(n) PROVE NoteInv'
      BY <1>17 DEF Check, TurnActive
<1>18. ASSUME NEW n \in Notes, Queue(n) PROVE NoteInv'
      BY <1>18 DEF Queue
<1>19. ASSUME NEW s \in Stops, Stamp(s) PROVE NoteInv'
      BY <1>19 DEF Stamp
<1>20. ASSUME NEW s \in Stops, Look(s) PROVE NoteInv'
      BY <1>20 DEF Look
<1>21. ASSUME NEW s \in Stops, Kill(s) PROVE NoteInv'
      BY <1>21 DEF Kill, Killed, Reached
<1>22. ASSUME NEW s \in Stops, Withdraw(s) PROVE NoteInv'
      BY <1>22 DEF Withdraw
<1>23. CASE UNCHANGED vars
      BY <1>23 DEF vars
<1> QED
    BY <1>1, <1>2, <1>3, <1>4, <1>5, <1>6, <1>7, <1>8, <1>9, <1>10, <1>11, <1>12,
       <1>13, <1>14, <1>15, <1>16, <1>17, <1>18, <1>19, <1>20, <1>21, <1>22, <1>23
    DEF Next, Turn

LEMMA NextStamps == IInv /\ [Next]_vars => StampInv' /\ RobInv' /\ StoppedIsCancelled'
<1> SUFFICES ASSUME IInv, [Next]_vars PROVE StampInv' /\ RobInv' /\ StoppedIsCancelled'
    OBVIOUS
<1> USE TurnsOK DEF IInv, TypeOK, RegisterInv, RunInv, TargetInv, CutInv, StampInv, RobInv,
        StoppedIsCancelled, InFlight, Robs, Begun, Before, This, turnvars, process, account, running, notebook,
        stopping, history
<1>1. CASE Open
      <2>1. StampInv'
            BY <1>1 DEF Open, StampAtOpen
      <2>4. /\ pc = "idle" /\ pc' = "open" /\ turn' = turn + 1 /\ turn' \in 1..MaxTurns
            /\ UNCHANGED <<stop, cut>> /\ (stamp' => stamp)
            /\ stamp /\ ~stamp' => robbed' = robbed \cup {s \in Stops : InFlight(s)}
            /\ ~(stamp /\ ~stamp') => robbed' = robbed
            BY <1>1 DEF Open, StampAtOpen
      <2>6. ~(turn' <= turn)
            BY <2>4
      <2>5. \A s \in Stops : <<turn', s>> \notin cut
            BY <2>4, <2>6, Zenon
      <2>2. RobInv'
            BY <2>4, <2>5
      <2>3. StoppedIsCancelled'
            BY <1>1 DEF Open, StampAtOpen
      <2> QED
          BY <2>1, <2>2, <2>3
<1>2. CASE Refuse
      BY <1>2 DEF Refuse, Abandoned
<1>3. CASE Activate
      BY <1>3 DEF Activate
<1>4. CASE Drain
      BY <1>4 DEF Drain, LeftAfterDrain
<1>5. CASE Register
      BY <1>5 DEF Register
<1>6. CASE Spawn
      BY <1>6 DEF Spawn
<1>7. CASE SpawnFails
      BY <1>7 DEF SpawnFails, Abandoned
<1>8. CASE Says
      BY <1>8 DEF Says
<1>9. CASE Hears
      BY <1>9 DEF Hears
<1>10. CASE Ends
      BY <1>10 DEF Ends
<1>11. CASE Retry
      BY <1>11 DEF Retry
<1>12. CASE Unregister
      BY <1>12 DEF Unregister
<1>13. CASE Report
      BY <1>13 DEF Report, Replies
<1>14. CASE Close
      <2>1. StampInv'
            BY <1>14 DEF Close, Recorded
      <2>2. RobInv'
            BY <1>14 DEF Close, Recorded
      <2>3. StoppedIsCancelled'
            <3> SUFFICES ASSUME tracked', run' = "killed", NEW s \in Stops \ robbed',
                                <<turn', s>> \in cut'
                         PROVE  outcome' = "cancelled"
                OBVIOUS
            <3>1. tracked /\ run = "killed" /\ <<turn, s>> \in cut /\ s \notin robbed
                  /\ pc # "idle"
                  BY <1>14 DEF Close
            <3>2. stamp /\ report # "completed"
                  BY <3>1
            <3>3. tracked => outcome' = Recorded
                  BY <1>14 DEF Close
            <3> QED
                BY <3>1, <3>2, <3>3 DEF Recorded
      <2> QED
          BY <2>1, <2>2, <2>3
<1>15. ASSUME NEW n \in Notes, Inject(n) PROVE StampInv' /\ RobInv' /\ StoppedIsCancelled'
      BY <1>15 DEF Inject, TakesNotes
<1>16. ASSUME NEW n \in Notes, Append(n) PROVE StampInv' /\ RobInv' /\ StoppedIsCancelled'
      BY <1>16 DEF Append
<1>17. ASSUME NEW n \in Notes, Check(n) PROVE StampInv' /\ RobInv' /\ StoppedIsCancelled'
      BY <1>17 DEF Check, TurnActive
<1>18. ASSUME NEW n \in Notes, Queue(n) PROVE StampInv' /\ RobInv' /\ StoppedIsCancelled'
      BY <1>18 DEF Queue
<1>19. ASSUME NEW s \in Stops, Stamp(s) PROVE StampInv' /\ RobInv' /\ StoppedIsCancelled'
      BY <1>19 DEF Stamp
<1>20. ASSUME NEW s \in Stops, Look(s) PROVE StampInv' /\ RobInv' /\ StoppedIsCancelled'
      <2>1. /\ target' = [target EXCEPT ![s] = engine \cup procs]
            /\ stop' = [stop EXCEPT ![s] = IF engine \cup procs = {} THEN "nothing" ELSE "found"]
            /\ stop[s] = "stamped"
            /\ UNCHANGED <<pc, turn, tracked, attempt, run, outcome, stamp, cut, robbed>>
            BY <1>20 DEF Look
      <2>2. engine \cup procs # {} => \E a \in {0, 1} : <<turn, a>> \in engine \cup procs
            OBVIOUS
      <2>3. StampInv'
            BY <2>1, <2>2
      <2>4. pc = "idle" => engine \cup procs = {}
            OBVIOUS
      <2>5. RobInv'
            BY <2>1, <2>4
      <2>6. StoppedIsCancelled'
            BY <2>1
      <2> QED
          BY <2>3, <2>5, <2>6
<1>21. ASSUME NEW s \in Stops, Kill(s) PROVE StampInv' /\ RobInv' /\ StoppedIsCancelled'
      BY <1>21 DEF Kill, Killed, Reached
<1>22. ASSUME NEW s \in Stops, Withdraw(s) PROVE StampInv' /\ RobInv' /\ StoppedIsCancelled'
      <2>1. StampInv'
            BY <1>22 DEF Withdraw
      <2>4. /\ ~stamp' /\ stop[s] = "nothing" /\ stop' = [stop EXCEPT ![s] = "unfounded"]
            /\ UNCHANGED <<pc, turn, tracked, cut>>
            /\ robbed \subseteq robbed'
            /\ stamp => \A t \in Stops \ {s} :
                            InFlight(t) \/ <<turn, t>> \in cut => t \in robbed'
            BY <1>22 DEF Withdraw
      <2>5. \A t \in Stops : <<turn, t>> \in cut => stop[t] = "aborted"
            OBVIOUS
      <2>2. RobInv'
            BY <2>4, <2>5
      <2>3. StoppedIsCancelled'
            BY <1>22 DEF Withdraw
      <2> QED
          BY <2>1, <2>2, <2>3
<1>23. CASE UNCHANGED vars
      BY <1>23 DEF vars
<1> QED
    BY <1>1, <1>2, <1>3, <1>4, <1>5, <1>6, <1>7, <1>8, <1>9, <1>10, <1>11, <1>12,
       <1>13, <1>14, <1>15, <1>16, <1>17, <1>18, <1>19, <1>20, <1>21, <1>22, <1>23
    DEF Next, Turn

LEMMA Invariance == Spec => []IInv
<1>1. IInv /\ [Next]_vars => IInv'
      BY NextTyped, NextRegisters, NextCuts, NextSilenced, NextNotes, NextStamps DEF IInv
<1> QED
    BY InitIInv, <1>1, PTL DEF Spec

-----------------------------------------------------------------------------
(* What follows from it *)

\* Every variable keeps to its type: a chat has one engine at most, and an attempt one
\* list of notes.
THEOREM TypeCorrect == Spec => []TypeOK
<1>1. IInv => TypeOK
      BY DEF IInv
<1> QED
    BY <1>1, Invariance, PTL

\* A note that was acknowledged is given to one attempt or still waits, and a note that
\* was refused is not given, whatever the turn and the retry do meanwhile.
THEOREM NotesKeptTheorem == Spec => []NotesKept
<1>1. IInv => NotesKept
      BY DEF IInv, NoteInv, NotesKept, TypeOK
<1> QED
    BY <1>1, Invariance, PTL

\* The mark "stopped by the operator" on a turn comes from a stop that was meant for it.
THEOREM StampMeansStopTheorem == Spec => []StampMeansStop
<1>1. IInv => StampMeansStop
      BY DEF IInv, StampInv, StampMeansStop, InFlight
<1> QED
    BY <1>1, Invariance, PTL

\* A turn whose process a stop has taken down is recorded as cancelled, unless its mark
\* was taken away by another stop or by a turn that opened or closed just then.
THEOREM StoppedIsCancelledTheorem == Spec => []StoppedIsCancelled
<1>1. IInv => StoppedIsCancelled
      BY DEF IInv
<1> QED
    BY <1>1, Invariance, PTL

\* What a stop reaches before its engine has said anything answers nothing after "Task
\* aborted", be it an engine whose process comes only then.
THEOREM AbortedNotAnsweredTheorem == Spec => []AbortedNotAnswered
<1>1. IInv => AbortedNotAnswered
      BY DEF IInv, RunInv, SilenceInv, AbortedNotAnswered
<1> QED
    BY <1>1, Invariance, PTL
=============================================================================
