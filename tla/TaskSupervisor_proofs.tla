----------------------- MODULE TaskSupervisor_proofs ------------------------
(***************************************************************************)
(* The safety of the supervisor, for any number of pollers, attempts,      *)
(* mishaps and launches.  As long as no slip has happened, the workers are *)
(* numbered by the attempts: the last one launched is the only one that    *)
(* may live, and whoever is about to launch holds the lock and has seen    *)
(* that one dead.                                                          *)
(***************************************************************************)
EXTENDS TaskSupervisor, FiniteSetTheorems, TLAPS

-----------------------------------------------------------------------------
(* The inductive invariant *)

\* The stages in which a poller works on its copy, those that decide to launch,
\* and those in which it holds the lock.
Working == Stages \ {"idle", "unlock"}
Deciding == {"clear", "stat", "steal", "claim", "reread"}
Locked == {"reread", "spawn", "record", "postpone", "unlock"}

\* The stages on the way to a launch, for which there must be budget.
Launching == {"stat", "steal", "claim", "reread", "spawn", "record", "postpone"}

\* What is written is a copy of a run that was not over, within its budget.
PollersOK ==
    /\ pc \in [Pollers -> Stages]
    /\ copy \in [Pollers -> Record]
    /\ child \in [Pollers -> 0..MaxLaunches]
    /\ \A p \in Pollers : /\ pc[p] \in Working => copy[p].state = "active"
                          /\ pc[p] \in Launching => copy[p].attempts < MaxAttempts

WorkersOK ==
    /\ stage \in [Workers -> LiveStages \cup {"none", "over"}]
    /\ own \in [Workers -> Record]
    /\ \A w \in Workers :
          /\ stage[w] = "stamping" => own[w].state = "active"
          /\ stage[w] \in {"reporting", "failing"} => own[w].state \in {"active", "done"}

\* A worker has been launched that the record does not name yet.
Unrecorded == \E p \in Pollers : pc[p] = "record"

SomeLive == \E w \in Workers : Live(w)

\* The launches are counted by the attempts, and a record names the last of them.
Counts(c) == c.pid <= launches /\ c.pid \in {0, c.attempts, c.attempts + 1}

\* The record counts the launches; only the last worker may live, and the record
\* names it or leaves it time; a worker ends its run before it queues its result,
\* and works no more after it.
TaskInv ==
    /\ launches <= MaxAttempts
    /\ rec.state = "active" =>
          /\ launches = IF Unrecorded THEN rec.attempts + 1 ELSE rec.attempts
          /\ Counts(rec)
    /\ \A w \in Workers : Live(w) =>
          /\ w = launches
          /\ rec.state = "active" /\ ~Unrecorded /\ rec.pid # w =>
                rec.grace = "on" /\ stage[w] \in {"starting", "stamping"}
          /\ stage[w] = "marking" => rec.state # "active"
    /\ completion = "result" => rec.state # "active" /\ ~SomeLive

\* The copy leads to a launch.
Doomed(p) ==
    \/ pc[p] \in Deciding
    \/ pc[p] \in {"consult", "judge"} /\ copy[p].pid = 0 /\ copy[p].grace = "over"

\* Whoever is about to launch has the lock, and has seen the last worker dead;
\* whoever decides to launch has seen it dead, or has a copy that is too old.
PollerInv(p) ==
    /\ pc[p] \in Locked => lock = p
    /\ pc[p] \in Working =>
          /\ Counts(copy[p])
          /\ rec.state = "active" => copy[p].attempts <= rec.attempts
    /\ pc[p] \in {"spawn", "postpone"} => ~SomeLive
    /\ pc[p] = "spawn" => launches < MaxAttempts /\ completion # "result"
    /\ pc[p] = "record" => child[p] = launches
    /\ Doomed(p) /\ rec.state = "active" /\ rec.attempts = copy[p].attempts /\ ~Unrecorded =>
          ~SomeLive

Slipless == TaskInv /\ \A p \in Pollers : PollerInv(p)

Typed == TypeOK /\ PollersOK /\ WorkersOK

IInv == Typed /\ (slips = 0 => Slipless)

-----------------------------------------------------------------------------
(* What is written into a record *)

LEMMA RecordFacts ==
    /\ Gone \in Record /\ Gone.state = "gone" /\ Gone.attempts = 0 /\ Gone.pid = 0
    /\ Retired \in Record /\ Retired.state = "done"
<1>1. Retired = [state |-> "done", pid |-> 0, attempts |-> 0, streak |-> 0,
                 grace |-> "over", wait |-> "no", budget |-> "left"]
      BY DEF Retired, Gone
<1> QED
    BY <1>1, ConstantsOK DEF Gone, Record

\* d is c but for one field.
Agree(c, d, fields) ==
    /\ d \in Record
    /\ "state" \in fields => d.state = c.state
    /\ "pid" \in fields => d.pid = c.pid
    /\ "attempts" \in fields => d.attempts = c.attempts
    /\ "streak" \in fields => d.streak = c.streak
    /\ "grace" \in fields => d.grace = c.grace

LEMMA PidFacts ==
  ASSUME NEW c \in Record, NEW x \in 0..MaxLaunches
  PROVE  LET d == [c EXCEPT !.pid = x] IN
         Agree(c, d, {"state", "attempts", "streak", "grace"}) /\ d.pid = x
<1> QED
    BY DEF Record, Agree

LEMMA AttemptsFacts ==
  ASSUME NEW c \in Record, NEW x \in 0..MaxAttempts
  PROVE  LET d == [c EXCEPT !.attempts = x] IN
         Agree(c, d, {"state", "pid", "streak", "grace"}) /\ d.attempts = x
<1> QED
    BY DEF Record, Agree

LEMMA StreakFacts ==
  ASSUME NEW c \in Record, NEW x \in 0..2
  PROVE  Agree(c, [c EXCEPT !.streak = x], {"state", "pid", "attempts", "grace"})
<1> QED
    BY DEF Record, Agree

LEMMA GraceFacts ==
  ASSUME NEW c \in Record, NEW x \in {"on", "over"}
  PROVE  Agree(c, [c EXCEPT !.grace = x], {"state", "pid", "attempts", "streak"})
<1> QED
    BY DEF Record, Agree

LEMMA WaitFacts ==
  ASSUME NEW c \in Record, NEW x \in {"no", "backoff", "never"}
  PROVE  Agree(c, [c EXCEPT !.wait = x], {"state", "pid", "attempts", "streak", "grace"})
<1> QED
    BY DEF Record, Agree

LEMMA BudgetFacts ==
  ASSUME NEW c \in Record
  PROVE  Agree(c, [c EXCEPT !.budget = "spent"], {"state", "pid", "attempts", "streak", "grace"})
<1> QED
    BY DEF Record, Agree

LEMMA ClassifiedFacts ==
  ASSUME NEW c \in Record, NEW class \in {"transient", "permanent", "unknown"}
  PROVE  LET d == Classified(c, class) IN
         Agree(c, d, {"state", "attempts", "grace"}) /\ d.pid = 0
<1> DEFINE k == IF c.streak >= 2 THEN "unknown" ELSE class
           streak == IF k = "transient" THEN c.streak + 1 ELSE 0
           wait == IF k = "transient" THEN "no"
                   ELSE IF k = "permanent" THEN "never" ELSE "backoff"
           d1 == [c EXCEPT !.pid = 0]
           d2 == [d1 EXCEPT !.streak = streak]
           d3 == [d2 EXCEPT !.wait = wait]
<1>1. streak \in 0..2 /\ wait \in {"no", "backoff", "never"}
      BY DEF Record
<1>2. Agree(c, d1, {"state", "attempts", "streak", "grace"}) /\ d1.pid = 0
      BY PidFacts, ConstantsOK
<1>3. d3 = Classified(c, class)
  <2>1. d1.streak = c.streak
        BY <1>2 DEF Agree
  <2> QED
      BY Zenon DEF Classified
<1> HIDE DEF streak, wait, d1
<1>4. Agree(d1, d2, {"state", "pid", "attempts", "grace"})
      BY <1>1, <1>2, StreakFacts DEF Agree
<1> HIDE DEF d2
<1>5. Agree(d2, d3, {"state", "pid", "attempts", "streak", "grace"})
      BY <1>1, <1>4, WaitFacts DEF Agree
<1> HIDE DEF d3
<1> QED
    BY <1>2, <1>3, <1>4, <1>5 DEF Agree

LEMMA StampedFacts ==
  ASSUME NEW c \in Record, NEW w \in Workers
  PROVE  LET d == [c EXCEPT !.pid = w, !.grace = "on"] IN
         Agree(c, d, {"state", "attempts"}) /\ d.pid = w
<1> DEFINE d1 == [c EXCEPT !.pid = w]
           d2 == [d1 EXCEPT !.grace = "on"]
<1>1. Agree(c, d1, {"state", "attempts"}) /\ d1.pid = w
      BY PidFacts, ConstantsOK DEF Agree, Workers
<1>2. d2 = [c EXCEPT !.pid = w, !.grace = "on"]
      OBVIOUS
<1> HIDE DEF d1
<1>3. Agree(d1, d2, {"state", "pid", "attempts"})
      BY <1>1, GraceFacts DEF Agree
<1> HIDE DEF d2
<1> QED
    BY <1>1, <1>2, <1>3 DEF Agree

LEMMA LaunchedFacts ==
  ASSUME NEW c \in Record, c.attempts < MaxAttempts, NEW w \in 0..MaxLaunches
  PROVE  LET d == Launched(c, w) IN
         Agree(c, d, {"state"}) /\ d.attempts = c.attempts + 1 /\ d.pid = w
<1> DEFINE d1 == [c EXCEPT !.pid = w]
           d2 == [d1 EXCEPT !.attempts = @ + 1]
           d3 == [d2 EXCEPT !.grace = "on"]
           d4 == [d3 EXCEPT !.wait = "backoff"]
<1>1. Agree(c, d1, {"state", "attempts"}) /\ d1.pid = w
      BY PidFacts DEF Agree
<1>2. d4 = Launched(c, w)
      BY Zenon DEF Launched
<1>3. d1.attempts + 1 \in 0..MaxAttempts /\ d1.attempts = c.attempts
      BY <1>1, ConstantsOK DEF Agree, Record
<1> HIDE DEF d1
<1>4. Agree(d1, d2, {"state", "pid"}) /\ d2.attempts = d1.attempts + 1
      BY <1>1, <1>3, AttemptsFacts DEF Agree
<1> HIDE DEF d2
<1>5. Agree(d2, d3, {"state", "pid", "attempts"})
      BY <1>4, GraceFacts DEF Agree
<1> HIDE DEF d3
<1>6. Agree(d3, d4, {"state", "pid", "attempts"})
      BY <1>5, WaitFacts DEF Agree
<1> HIDE DEF d4
<1> QED
    BY <1>1, <1>2, <1>3, <1>4, <1>5, <1>6 DEF Agree

LEMMA NumberFacts ==
  ASSUME NEW c \in Record
  PROVE  c.pid \in 0..MaxLaunches /\ c.attempts \in Nat
<1> QED
    BY ConstantsOK DEF Record

LEMMA VerdictFacts ==
  ASSUME NEW c \in Record
  PROVE  Verdict(c) \in {"fail", "idle", "stat"}
         /\ (Verdict(c) = "stat" => c.attempts < MaxAttempts)
<1> QED
    BY NumberFacts, ConstantsOK DEF Verdict, Spent

-----------------------------------------------------------------------------
(* The types are kept, and so is what is known of the copies *)

LEMMA InitTyped == Init => Typed
<1>1. 1 \in Workers /\ 0 \in 0..MaxLaunches
      BY ConstantsOK DEF Workers
<1>2. Init => rec \in Record
  <2> DEFINE d1 == [Gone EXCEPT !.state = "active"]
             d2 == [d1 EXCEPT !.attempts = 1]
             d3 == [d2 EXCEPT !.grace = "on"]
  <2>1. d1 \in Record
        BY RecordFacts DEF Record
  <2>2. Init => rec = d3
        BY Zenon DEF Init
  <2> HIDE DEF d1
  <2>3. d2 \in Record
        BY <2>1, AttemptsFacts, ConstantsOK DEF Agree
  <2> HIDE DEF d2
  <2> QED
      BY <2>2, <2>3, GraceFacts DEF Agree
<1> QED
    BY <1>1, <1>2, RecordFacts DEF Init, Typed, TypeOK, PollersOK, WorkersOK,
            LiveStages, Stages, Working, Launching

\* A poller goes on with a copy that suits the stage.
LEMMA GotoTyped ==
  ASSUME PollersOK, NEW p \in Pollers, NEW from, NEW to \in Stages, NEW c \in Record,
         Goto(p, from, to, c), to \in Working => c.state = "active",
         to \in Launching => c.attempts < MaxAttempts,
         to = "record" => launches + 1 \in 0..MaxLaunches
  PROVE  PollersOK'
<1>1. 0 \in 0..MaxLaunches
      BY ConstantsOK
<1> QED
    BY <1>1, RecordFacts DEF PollersOK, Goto, Working, Launching

LEMMA DecideTyped ==
  ASSUME Typed, NEW p \in Pollers, NEW from, NEW to \in Stages \ {"record"}, NEW c \in Record,
         Decide(p, from, to, c), to \in Working => c.state = "active",
         to \in Launching => c.attempts < MaxAttempts
  PROVE  Typed'
<1>1. PollersOK'
      BY GotoTyped DEF Decide, Typed
<1> QED
    BY <1>1 DEF Typed, TypeOK, PollersOK, WorkersOK, Decide, disk, workers, history

LEMMA PollerWritesTyped ==
  ASSUME Typed, NEW p \in Pollers, NEW from, NEW to \in Stages \ {"record"}, NEW c \in Record,
         PollerWrites(p, from, to, c), to \in Working => c.state = "active",
         to \in Launching => c.attempts < MaxAttempts
  PROVE  Typed'
<1>1. PollersOK'
      BY GotoTyped DEF PollerWrites, Typed
<1> QED
    BY <1>1 DEF Typed, TypeOK, PollersOK, WorkersOK, PollerWrites, Write, SlipIf, Mishap, workers

LEMMA ReadTyped ==
  ASSUME Typed, NEW w \in Workers, NEW from, NEW to \in LiveStages \cup {"over"},
         ReadRecord(w, from, to),
         to = "stamping" => rec.state = "active",
         to \in {"reporting", "failing"} => rec.state \in {"active", "done"}
  PROVE  Typed'
<1>1. WorkersOK'
      BY RecordFacts DEF Typed, TypeOK, WorkersOK, ReadRecord, Step
<1> QED
    BY <1>1 DEF Typed, TypeOK, PollersOK, WorkersOK, ReadRecord, disk, pollers, history

LEMMA WorkerWritesTyped ==
  ASSUME Typed, NEW w \in Workers, NEW from, NEW to \in {"running", "marking", "over"},
         NEW c \in Record, WorkerWrites(w, from, to, c)
  PROVE  Typed'
<1>1. WorkersOK'
      BY RecordFacts DEF Typed, WorkersOK, WorkerWrites, Step, LiveStages
<1> QED
    BY <1>1 DEF Typed, TypeOK, PollersOK, WorkersOK, WorkerWrites, Write, SlipIf, Mishap, pollers

\* Time changes no state of a record, and keeps its type.
LEMMA PassTyped ==
  ASSUME Typed, UNCHANGED <<completion, lock, stage, silent, pollers, launches>>,
         slips' \in Nat, mishaps' \in Nat,
         rec' \in Record, own' \in [Workers -> Record],
         \A w \in Workers : own'[w].state = own[w].state
  PROVE  Typed'
<1> QED
    BY DEF Typed, TypeOK, PollersOK, WorkersOK, pollers

LEMMA NextTyped == Typed /\ [Next]_vars => Typed'
<1> SUFFICES ASSUME Typed, [Next]_vars PROVE Typed'
    OBVIOUS
<1> USE ConstantsOK, RecordFacts, NumberFacts
    DEF Typed, TypeOK, PollersOK, WorkersOK, Agree, Working, Launching, Stages, LiveStages, Workers,
        Mishap, SlipIf, disk, workers, pollers, history
<1>1. ASSUME NEW w \in Workers, StartRead(w) PROVE Typed'
  <2>1. "stamping" \in LiveStages /\ "running" \in LiveStages
        BY DEF LiveStages
  <2> QED
      BY <1>1, <2>1, ReadTyped DEF StartRead
<1>2. ASSUME NEW w \in Workers, StartWrite(w) PROVE Typed'
  <2>1. [own[w] EXCEPT !.pid = w, !.grace = "on"] \in Record
        BY StampedFacts
  <2> QED
      BY <1>2, <2>1, WorkerWritesTyped DEF StartWrite
<1>3. ASSUME NEW w \in Workers, FinishRead(w) PROVE Typed'
  <2>1. rec.state # "gone" => rec.state \in {"active", "done"}
        BY DEF Record
  <2>2. {"reporting", "failing", "marking"} \subseteq LiveStages
        BY DEF LiveStages
  <2> QED
      BY <1>3, <2>1, <2>2, ReadTyped DEF FinishRead
<1>4. ASSUME NEW w \in Workers, FinishWrite(w) PROVE Typed'
  <2>1. CASE WorkerWrites(w, "reporting", "marking", Retired)
        BY <2>1, RecordFacts, WorkerWritesTyped
  <2>2. ASSUME NEW class \in {"transient", "permanent", "unknown"},
               WorkerWrites(w, "failing", "over", Classified(own[w], class))
        PROVE  Typed'
    <3>1. Classified(own[w], class) \in Record
          BY ClassifiedFacts
    <3> QED
        BY <2>2, <3>1, WorkerWritesTyped
  <2> QED
      BY <1>4, <2>1, <2>2 DEF FinishWrite
<1>5. ASSUME NEW w \in Workers, MarkDone(w) PROVE Typed'
      BY <1>5 DEF MarkDone, Marked, Step
<1>6. ASSUME NEW w \in Workers, WorkerDies(w) PROVE Typed'
      BY <1>6 DEF WorkerDies, Live
<1>7. ASSUME NEW w \in Workers, GoesSilent(w) PROVE Typed'
      BY <1>7 DEF GoesSilent
<1>8. ASSUME NEW p \in Pollers, Scan(p) PROVE Typed'
      BY <1>8, DecideTyped DEF Scan
<1>9. ASSUME NEW p \in Pollers, Consult(p) PROVE Typed'
  <2>1. CASE PollerWrites(p, "consult", "idle", Retired)
        BY <2>1, RecordFacts, PollerWritesTyped
  <2>2. CASE Decide(p, "consult", "judge", copy[p])
    <3>1. copy[p].state = "active"
          BY <2>2 DEF Decide, Goto
    <3> QED
        BY <2>2, <3>1, DecideTyped
  <2>3. CASE Goto(p, "consult", "idle", Gone) /\ Mishap
             /\ UNCHANGED <<disk, workers, launches, slips>>
    <3>1. PollersOK'
          BY <2>3, GotoTyped
    <3> QED
        BY <2>3, <3>1
  <2> QED
      BY <1>9, <2>1, <2>2, <2>3 DEF Consult
<1>10. ASSUME NEW p \in Pollers, Judge(p) PROVE Typed'
  <2>1. pc[p] = "judge" /\ copy[p].state = "active" /\ copy[p] \in Record
        BY <1>10 DEF Judge, Decide, Goto
  <2>2. CASE Decide(p, "judge", "idle", copy[p])
        BY <2>1, <2>2, DecideTyped
  <2>3. CASE Decide(p, "judge", Verdict(copy[p]), copy[p])
    <3>1. Verdict(copy[p]) \in {"fail", "idle", "stat"}
          /\ (Verdict(copy[p]) = "stat" => copy[p].attempts < MaxAttempts)
          BY <2>1, VerdictFacts
    <3> QED
        BY <2>1, <2>3, <3>1, DecideTyped
  <2>4. CASE /\ Goto(p, "judge", "clear", copy[p])
             /\ copy[p].pid # 0
             /\ \/ /\ Live(copy[p].pid)
                   /\ stage' = [stage EXCEPT ![copy[p].pid] = "over"]
                   /\ own' = [own EXCEPT ![copy[p].pid] = Gone]
                   /\ silent' = silent \ {copy[p].pid}
                   /\ UNCHANGED slips
                \/ SlipIf(Live(copy[p].pid)) /\ UNCHANGED workers
             /\ UNCHANGED <<disk, launches, mishaps>>
    <3>1. PollersOK'
          BY <2>1, <2>4, GotoTyped
    <3>2. copy[p].pid \in Workers
          BY <2>1, <2>4
    <3>3. WorkersOK'
      <4>1. CASE /\ stage' = [stage EXCEPT ![copy[p].pid] = "over"]
                 /\ own' = [own EXCEPT ![copy[p].pid] = Gone]
            BY <3>2, <4>1
      <4>2. CASE UNCHANGED workers
            BY <4>2
      <4> QED
          BY <2>4, <4>1, <4>2
    <3>4. silent' \subseteq Workers
          BY <2>4
    <3>5. slips' \in Nat
          BY <2>4
    <3> QED
        BY <2>4, <3>1, <3>3, <3>4, <3>5
  <2> QED
      BY <1>10, <2>2, <2>3, <2>4 DEF Judge
<1>11. ASSUME NEW p \in Pollers, Clear(p) PROVE Typed'
  <2>1. pc[p] = "clear" /\ copy[p].state = "active" /\ copy[p] \in Record
        BY <1>11 DEF Clear, PollerWrites, Goto
  <2> DEFINE c == Classified(copy[p], "transient")
  <2>2. c \in Record /\ c.state = "active"
        BY <2>1, ClassifiedFacts
  <2>3. Verdict(c) \in {"fail", "idle", "stat"} /\ (Verdict(c) = "stat" => c.attempts < MaxAttempts)
        BY <2>2, VerdictFacts
  <2>4. PollerWrites(p, "clear", Verdict(c), c)
        BY <1>11 DEF Clear
  <2> HIDE DEF c
  <2> QED
      BY <2>2, <2>3, <2>4, PollerWritesTyped
<1>12. ASSUME NEW p \in Pollers, Fail(p) PROVE Typed'
  <2>1. Goto(p, "fail", "close", copy[p]) /\ pc[p] = "fail"
        BY <1>12 DEF Fail, Goto
  <2>2. copy[p] \in Record /\ copy[p].state = "active" /\ "close" \in Stages \ Launching
        BY <2>1 DEF PollersOK, Working, Stages, Launching
  <2>3. PollersOK'
        BY <2>1, <2>2, GotoTyped
  <2> QED
      BY <1>12, <2>3 DEF Fail, Marked
<1>13. ASSUME NEW p \in Pollers, Close(p) PROVE Typed'
      BY <1>13, RecordFacts, PollerWritesTyped DEF Close
<1>14. ASSUME NEW p \in Pollers, Steal(p) PROVE Typed'
  <2>1. pc[p] \in {"stat", "steal"} /\ copy[p].state = "active"
        /\ copy[p].attempts < MaxAttempts
        BY <1>14 DEF Steal, Decide, Goto
  <2>2. CASE Decide(p, "stat", "steal", copy[p])
        BY <2>1, <2>2, DecideTyped
  <2>3. CASE /\ Goto(p, "steal", "claim", copy[p]) /\ Remove("nobody")
             /\ UNCHANGED <<rec, completion, workers, launches, mishaps>>
    <3>1. PollersOK'
          BY <2>1, <2>3, GotoTyped
    <3> QED
        BY <2>3, <3>1 DEF Remove
  <2> QED
      BY <1>14, <2>2, <2>3 DEF Steal
<1>15. ASSUME NEW p \in Pollers, Claim(p) PROVE Typed'
  <2> PICK from \in {"stat", "claim"} :
         \/ /\ lock = "none" /\ Goto(p, from, "reread", copy[p])
            /\ lock' = p
            /\ UNCHANGED <<rec, completion, workers, history>>
         \/ Decide(p, from, "idle", Gone)
      BY <1>15 DEF Claim
  <2>1. CASE Goto(p, from, "reread", copy[p]) /\ lock' = p
             /\ UNCHANGED <<rec, completion, workers, history>>
    <3>1. PollersOK'
          BY <2>1, GotoTyped DEF Goto
    <3> QED
        BY <2>1, <3>1
  <2>2. CASE Decide(p, from, "idle", Gone)
        BY <2>2, RecordFacts, DecideTyped
  <2> QED
      BY <2>1, <2>2
<1>16. ASSUME NEW p \in Pollers, Reread(p) PROVE Typed'
  <2>1. CASE Untouched(p) /\ Decide(p, "reread", "spawn", rec)
    <3>1. rec.attempts < MaxAttempts /\ rec.state = "active"
          BY <2>1 DEF Untouched, Decide, Goto
    <3> QED
        BY <2>1, <3>1, DecideTyped
  <2>2. CASE Decide(p, "reread", "unlock", Gone)
        BY <2>2, RecordFacts, DecideTyped
  <2> QED
      BY <1>16, <2>1, <2>2 DEF Reread
<1>17. ASSUME NEW p \in Pollers, Spawn(p) PROVE Typed'
  <2>1. pc[p] = "spawn" /\ copy[p].state = "active" /\ copy[p].attempts < MaxAttempts
        BY <1>17 DEF Spawn, Goto
  <2>2. CASE /\ Goto(p, "spawn", "record", copy[p])
             /\ launches < MaxLaunches
             /\ launches' = launches + 1
             /\ stage' = [stage EXCEPT ![launches'] = "starting"]
             /\ UNCHANGED <<disk, own, silent, slips, mishaps>>
    <3>1. launches + 1 \in 0..MaxLaunches /\ launches' \in Workers
          BY <2>2
    <3>2. PollersOK'
          BY <2>1, <2>2, <3>1, GotoTyped
    <3>3. WorkersOK'
          BY <2>2, <3>1
    <3> QED
        BY <2>2, <3>1, <3>2, <3>3
  <2>3. CASE /\ Goto(p, "spawn", "postpone", copy[p]) /\ Mishap
             /\ UNCHANGED <<disk, workers, launches, slips>>
    <3>1. PollersOK'
          BY <2>1, <2>3, GotoTyped
    <3> QED
        BY <2>3, <3>1
  <2> QED
      BY <1>17, <2>2, <2>3 DEF Spawn
<1>18. ASSUME NEW p \in Pollers, Postpone(p) PROVE Typed'
  <2>1. [copy[p] EXCEPT !.wait = "backoff"] \in Record
        BY WaitFacts
  <2> QED
      BY <1>18, <2>1, PollerWritesTyped DEF Postpone
<1>19. ASSUME NEW p \in Pollers, RecordLaunch(p) PROVE Typed'
  <2>1. pc[p] = "record" /\ copy[p].attempts < MaxAttempts /\ child[p] \in 0..MaxLaunches
        BY <1>19 DEF RecordLaunch, Goto
  <2>2. Launched(copy[p], child[p]) \in Record
        BY <2>1, LaunchedFacts
  <2>3. PollersOK'
    <3>1. Goto(p, "record", "unlock", copy[p])
          BY <1>19 DEF RecordLaunch
    <3>2. copy[p] \in Record /\ "unlock" \in Stages \ (Working \cup Launching)
          BY DEF PollersOK, Working, Stages, Launching
    <3> QED
        BY <3>1, <3>2, GotoTyped
  <2> QED
      BY <1>19, <2>2, <2>3 DEF RecordLaunch, Write
<1>20. ASSUME NEW p \in Pollers, Unlock(p) PROVE Typed'
  <2>1. PollersOK'
        BY <1>20, GotoTyped DEF Unlock
  <2> QED
      BY <1>20, <2>1 DEF Unlock, Remove
<1>21. ASSUME NEW p \in Pollers, PollerDies(p) PROVE Typed'
  <2>1. PollersOK'
        BY <1>21, GotoTyped DEF PollerDies
  <2> QED
      BY <1>21, <2>1 DEF PollerDies
<1>22. ASSUME LaunchFails PROVE Typed'
      BY <1>22 DEF LaunchFails, Step, Marked
<1>23. ASSUME GraceOver PROVE Typed'
  <2>1. \A c \in Record : LET d == [c EXCEPT !.grace = "over"] IN
            d \in Record /\ d.state = c.state
        BY GraceFacts
  <2>2. /\ rec' \in Record /\ own' \in [Workers -> Record]
        /\ \A w \in Workers : own'[w].state = own[w].state
        BY <1>23, <2>1 DEF GraceOver, Pass
  <2>3. slips' \in Nat /\ mishaps' \in Nat
        BY <1>23 DEF GraceOver
  <2>4. UNCHANGED <<completion, lock, stage, silent, pollers, launches>>
        BY <1>23 DEF GraceOver, Pass
  <2> QED
      BY <2>2, <2>3, <2>4, PassTyped
<1>24. ASSUME BackoffOver PROVE Typed'
  <2>1. \A c \in Record : LET d == [c EXCEPT !.wait = "no"] IN
            d \in Record /\ d.state = c.state
        BY WaitFacts
  <2>2. /\ rec' \in Record /\ own' \in [Workers -> Record]
        /\ \A w \in Workers : own'[w].state = own[w].state
        BY <1>24, <2>1 DEF BackoffOver, Pass
  <2> QED
      BY <1>24, <2>2, PassTyped DEF BackoffOver, Pass
<1>25. ASSUME BudgetOver PROVE Typed'
  <2>1. \A c \in Record : LET d == [c EXCEPT !.budget = "spent"] IN
            d \in Record /\ d.state = c.state
        BY BudgetFacts
  <2>2. /\ rec' \in Record /\ own' \in [Workers -> Record]
        /\ \A w \in Workers : own'[w].state = own[w].state
        BY <1>25, <2>1 DEF BudgetOver, Pass
  <2> QED
      BY <1>25, <2>2, PassTyped DEF BudgetOver, Pass
<1>26. ASSUME LockAges PROVE Typed'
      BY <1>26 DEF LockAges
<1>27. ASSUME Prune PROVE Typed'
      BY <1>27 DEF Prune
<1>28. ASSUME Deliver PROVE Typed'
      BY <1>28 DEF Deliver
<1>29. ASSUME Purge PROVE Typed'
      BY <1>29 DEF Purge, Remove
<1>30. CASE UNCHANGED vars
      BY <1>30 DEF vars
<1> QED
    BY <1>1, <1>2, <1>3, <1>4, <1>5, <1>6, <1>7, <1>8, <1>9, <1>10, <1>11, <1>12, <1>13,
       <1>14, <1>15, <1>16, <1>17, <1>18, <1>19, <1>20, <1>21, <1>22, <1>23, <1>24,
       <1>25, <1>26, <1>27, <1>28, <1>29, <1>30
    DEF Next, Worker, Supervise
-----------------------------------------------------------------------------
(* The invariant is kept by a step that is no slip *)

\* Nothing is launched, nothing that was launched is recorded.
Calm ==
    /\ launches' = launches
    /\ Unrecorded' <=> Unrecorded
    /\ SomeLive' => SomeLive
    /\ rec'.state = "active" => rec.state = "active" /\ rec'.attempts = rec.attempts
    /\ completion' = "result" => completion = "result" \/ SomeLive

LEMMA CalmPoller ==
  ASSUME NEW p \in Pollers, PollerInv(p), Calm,
         pc'[p] = pc[p], copy'[p] = copy[p], child'[p] = child[p],
         lock = p => lock' = p
  PROVE  PollerInv(p)'
<1>1. (Counts(copy[p]))' <=> Counts(copy[p])
      BY DEF Counts, Calm
<1>2. Doomed(p)' <=> Doomed(p)
      BY DEF Doomed
<1> QED
    BY <1>1, <1>2 DEF PollerInv, Calm

\* The number of the last worker is unique, so that there is none beside it.
LEMMA LastOnly ==
  ASSUME Typed, TaskInv, NEW w \in Workers, Live(w)
  PROVE  /\ \A x \in Workers : Live(x) => x = w
         /\ w = launches /\ completion # "result"
<1> QED
    BY DEF TaskInv, SomeLive

LEMMA WorkerSlipless ==
  ASSUME Typed, Typed', Slipless, slips = 0, slips' = 0,
         NEW w \in Workers, Worker(w) \/ WorkerDies(w) \/ GoesSilent(w)
  PROVE  Slipless'
<1> USE DEF Typed
<1>1. /\ Live(w) /\ UNCHANGED <<pc, copy, child, lock, launches>>
      /\ \E to \in LiveStages \cup {"over"} : stage' = [stage EXCEPT ![w] = to]
      BY DEF Worker, WorkerDies, GoesSilent, StartRead, StartWrite, FinishRead, FinishWrite, MarkDone,
             ReadRecord, WorkerWrites, Step, Live, LiveStages, TypeOK, disk, pollers, history
<1>2. /\ \A x \in Workers : Live(x) => x = w
      /\ w = launches /\ completion # "result"
      BY <1>1, LastOnly DEF Slipless
<1>3. /\ Unrecorded' <=> Unrecorded
      /\ SomeLive' => SomeLive
      /\ \A x \in Workers : Live(x)' => x = w
      /\ SomeLive
      BY <1>1, <1>2 DEF Unrecorded, SomeLive, Live, WorkersOK
<1>4. ASSUME rec'.state = "active" => rec.state = "active" /\ rec'.attempts = rec.attempts
      PROVE  \A p \in Pollers : PollerInv(p)'
      BY <1>1, <1>3, <1>4, CalmPoller DEF Calm, Slipless
<1>5. ASSUME NEW to \in LiveStages \cup {"over"}, stage' = [stage EXCEPT ![w] = to],
             UNCHANGED <<rec, completion>>,
             rec.state = "active" =>
                \/ to \in {"over", "stamping"}
                \/ stage[w] \notin {"starting", "stamping"} /\ to # "marking"
      PROVE  Slipless'
  <2>1. TaskInv'
    <3>1. stage' = [stage EXCEPT ![w] = to] /\ (to = "over" => ~Live(w)')
          BY <1>5 DEF Live, LiveStages, WorkersOK
    <3>2. \A x \in Workers : Live(x)' =>
             /\ x = launches
             /\ rec.state = "active" /\ ~Unrecorded /\ rec.pid # x =>
                   rec.grace = "on" /\ stage'[x] \in {"starting", "stamping"}
             /\ stage'[x] = "marking" => rec.state # "active"
          BY <1>1, <1>2, <1>3, <1>5, <3>1 DEF Slipless, TaskInv, WorkersOK
    <3> QED
        BY <1>1, <1>2, <1>3, <1>5, <3>2 DEF Slipless, TaskInv, Counts
  <2> QED
      BY <1>4, <1>5, <2>1 DEF Slipless
<1>6. CASE StartRead(w)
      BY <1>5, <1>6 DEF StartRead, ReadRecord, Step, LiveStages, disk
<1>7. CASE FinishRead(w)
      BY <1>5, <1>7 DEF FinishRead, ReadRecord, Step, LiveStages, disk
<1>8. CASE WorkerDies(w)
      BY <1>5, <1>8 DEF WorkerDies, disk
<1>9. CASE GoesSilent(w)
  <2>1. TaskInv'
        BY <1>1, <1>3, <1>9 DEF GoesSilent, Slipless, TaskInv, SomeLive, Live, Counts, disk
  <2> QED
      BY <1>4, <1>9, <2>1 DEF Slipless, GoesSilent, disk
<1>10. CASE MarkDone(w)
  <2>1. TaskInv'
        BY <1>1, <1>2, <1>3, <1>10
        DEF MarkDone, Step, Slipless, TaskInv, SomeLive, Live, Counts, LiveStages, WorkersOK
  <2> QED
      BY <1>4, <1>10, <2>1 DEF Slipless, MarkDone
<1>11. CASE StartWrite(w)
  <2> DEFINE c == [own[w] EXCEPT !.pid = w, !.grace = "on"]
  <2>1. own[w].state = "active" /\ own[w] \in Record
        BY <1>11 DEF StartWrite, WorkerWrites, Step, WorkersOK
  <2>5. Agree(own[w], c, {"state", "attempts"}) /\ c.pid = w
        BY <2>1, StampedFacts
  <2>2. /\ stage' = [stage EXCEPT ![w] = "running"] /\ UNCHANGED completion
        /\ \/ rec' = c /\ ~Overtaken(own[w])
           \/ rec' = rec /\ rec.pid = w
        BY <1>11 DEF StartWrite, WorkerWrites, Step, Write, SlipIf
  <2> HIDE DEF c
  <2>3. rec' = c /\ ~Overtaken(own[w]) =>
           rec.state = "active" /\ rec'.state = "active" /\ rec'.attempts = rec.attempts /\ rec'.pid = w
        BY <2>1, <2>5 DEF Overtaken, Agree
  <2>4. TaskInv'
        BY <1>1, <1>2, <1>3, <2>2, <2>3, NumberFacts, ConstantsOK
        DEF Slipless, TaskInv, SomeLive, Live, Counts, WorkersOK, TypeOK, Workers
  <2> QED
      BY <1>4, <2>2, <2>3, <2>4 DEF Slipless
<1>12. CASE FinishWrite(w)
  <2>1. CASE WorkerWrites(w, "reporting", "marking", Retired)
    <3>1. stage' = [stage EXCEPT ![w] = "marking"] /\ rec' = Retired /\ UNCHANGED completion
          BY <2>1 DEF WorkerWrites, Step, Write, SlipIf
    <3>2. rec'.state = "done"
          BY <3>1, RecordFacts
    <3>3. TaskInv'
          BY <1>1, <1>2, <1>3, <3>1, <3>2 DEF Slipless, TaskInv, SomeLive
    <3> QED
        BY <1>4, <3>2, <3>3 DEF Slipless
  <2>2. ASSUME NEW class \in {"transient", "permanent", "unknown"},
               WorkerWrites(w, "failing", "over", Classified(own[w], class))
        PROVE  Slipless'
    <3> DEFINE c == Classified(own[w], class)
    <3>1. c.state = own[w].state /\ c.attempts = own[w].attempts /\ c.pid = 0
          BY ClassifiedFacts DEF WorkersOK, Agree
    <3>2. /\ stage' = [stage EXCEPT ![w] = "over"] /\ UNCHANGED completion
          /\ \/ rec' = c /\ ~Overtaken(own[w])
             \/ rec' = rec
          BY <2>2 DEF WorkerWrites, Step, Write, SlipIf
    <3> HIDE DEF c
    <3>3. rec' = c /\ ~Overtaken(own[w]) =>
             rec'.state = rec.state /\ rec'.attempts = rec.attempts /\ rec'.pid = 0
          BY <3>1 DEF Overtaken
    <3>4. ~SomeLive'
          BY <1>3, <3>2 DEF SomeLive, Live, LiveStages, WorkersOK
    <3>5. TaskInv'
          BY <1>1, <1>2, <1>3, <3>2, <3>3, <3>4, NumberFacts, ConstantsOK
          DEF Slipless, TaskInv, SomeLive, Counts, TypeOK, Workers
    <3> QED
        BY <1>4, <3>2, <3>3, <3>5 DEF Slipless
  <2> QED
      BY <1>12, <2>1, <2>2 DEF FinishWrite
<1> QED
    BY <1>6, <1>7, <1>8, <1>9, <1>10, <1>11, <1>12 DEF Worker

\* Neither a worker nor a poller moves, and the record is over or its counts stay.
LEMMA StillSlipless ==
  ASSUME Typed, Slipless, UNCHANGED <<stage, pollers, launches>>,
         completion' = "result" => completion = "result",
         \A p \in Pollers : lock = p => lock' = p,
         rec'.state = "active" =>
            /\ rec.state = "active" /\ rec'.pid = rec.pid /\ rec'.attempts = rec.attempts
            /\ \/ rec'.grace = rec.grace
               \/ \A w \in Workers : stage[w] \in {"starting", "stamping"} => rec.pid = w
  PROVE  Slipless'
<1>1. /\ Unrecorded' <=> Unrecorded
      /\ SomeLive' <=> SomeLive
      /\ \A w \in Workers : Live(w)' <=> Live(w)
      BY DEF Unrecorded, SomeLive, Live, pollers
<1>2. \A p \in Pollers : PollerInv(p)'
      BY <1>1, CalmPoller DEF Calm, Slipless, pollers
<1>3. TaskInv'
  <2>1. rec'.state = "active" => (Counts(rec))'
        BY DEF Slipless, TaskInv, Counts
  <2> QED
      BY <1>1, <2>1 DEF Slipless, TaskInv, pollers
<1> QED
    BY <1>2, <1>3 DEF Slipless

LEMMA RestSlipless ==
  ASSUME Typed, Slipless, slips = 0, slips' = 0,
         \/ LaunchFails \/ GraceOver \/ BackoffOver \/ BudgetOver \/ LockAges
         \/ Prune \/ Deliver \/ Purge \/ UNCHANGED vars
  PROVE  Slipless'
<1> USE DEF Typed, TypeOK
<1>1. CASE LaunchFails
  <2>1. /\ 1 \in Workers /\ Live(1) /\ stage' = [stage EXCEPT ![1] = "over"]
        /\ completion' # "result" /\ UNCHANGED <<rec, lock, pollers, launches>>
        BY <1>1, ConstantsOK DEF LaunchFails, Step, Marked, Live, LiveStages, Workers
  <2>2. ~SomeLive' /\ SomeLive
        BY <2>1, LastOnly DEF Slipless, SomeLive, Live, LiveStages, WorkersOK
  <2>3. Unrecorded' <=> Unrecorded
        BY <2>1 DEF Unrecorded, pollers
  <2>4. TaskInv'
        BY <2>1, <2>2, <2>3 DEF Slipless, TaskInv, SomeLive, Counts
  <2> QED
      BY <2>1, <2>2, <2>3, <2>4, CalmPoller DEF Calm, Slipless, pollers
<1>2. CASE GraceOver
  <2>1. rec'.state = rec.state /\ rec'.pid = rec.pid /\ rec'.attempts = rec.attempts
        BY <1>2, GraceFacts DEF GraceOver, Pass, Agree
  <2>2. /\ UNCHANGED <<stage, pollers, launches, completion, lock>>
        /\ \A w \in Workers : stage[w] \in {"starting", "stamping"} => rec.pid = w
        BY <1>2 DEF GraceOver, Pass
  <2> QED
      BY <2>1, <2>2, StillSlipless
<1>3. CASE BackoffOver
  <2>1. /\ rec'.state = rec.state /\ rec'.pid = rec.pid /\ rec'.attempts = rec.attempts
        /\ rec'.grace = rec.grace
        BY <1>3, WaitFacts DEF BackoffOver, Pass, Agree
  <2> QED
      BY <1>3, <2>1, StillSlipless DEF BackoffOver, Pass
<1>4. CASE BudgetOver
  <2>1. /\ rec'.state = rec.state /\ rec'.pid = rec.pid /\ rec'.attempts = rec.attempts
        /\ rec'.grace = rec.grace
        BY <1>4, BudgetFacts DEF BudgetOver, Pass, Agree
  <2> QED
      BY <1>4, <2>1, StillSlipless DEF BudgetOver, Pass
<1>5. CASE LockAges
      BY <1>5, StillSlipless, ConstantsOK DEF LockAges, workers, history
<1>6. CASE Prune
      BY <1>6, StillSlipless, RecordFacts DEF Prune, workers, history
<1>7. CASE Deliver
      BY <1>7, StillSlipless DEF Deliver, workers, history
<1>8. CASE Purge
  <2>1. lock \notin Pollers
        BY <1>8, ConstantsOK DEF Purge, Remove, SlipIf
  <2> QED
      BY <1>8, <2>1, StillSlipless, RecordFacts DEF Purge, workers
<1>9. CASE UNCHANGED vars
      BY <1>9, StillSlipless DEF vars, disk, workers, history
<1> QED
    BY <1>1, <1>2, <1>3, <1>4, <1>5, <1>6, <1>7, <1>8, <1>9

\* One poller goes on; the record is retired, or forgets a worker that is dead.
LEMMA MovedSlipless ==
  ASSUME Typed, Typed', Slipless, NEW p \in Pollers, PollerInv(p)',
         NEW from \in Stages \ {"record"}, NEW to \in Stages \ {"record"}, NEW c,
         Goto(p, from, to, c), launches' = launches,
         completion' = "result" => completion = "result",
         \A w \in Workers : Live(w)' => Live(w) /\ stage'[w] = stage[w],
         \A q \in Pollers \ {p} : lock = q => lock' = q,
         \/ rec' = rec
         \/ rec'.state # "active"
         \/ /\ rec'.state = rec.state /\ rec'.attempts = rec.attempts
            /\ rec'.pid \in {0, rec.pid}
            /\ rec.state = "active" /\ ~Unrecorded => ~SomeLive
         \/ /\ rec'.state = rec.state /\ rec'.attempts = rec.attempts
            /\ rec'.pid = rec.pid /\ ~SomeLive
  PROVE  Slipless'
<1>1. /\ pc' = [pc EXCEPT ![p] = to] /\ pc[p] = from
      /\ \A q \in Pollers \ {p} : pc'[q] = pc[q] /\ copy'[q] = copy[q] /\ child'[q] = child[q]
      BY DEF Goto, Typed, PollersOK
<1>2. /\ Unrecorded' <=> Unrecorded
      /\ SomeLive' => SomeLive
      BY <1>1 DEF Unrecorded, SomeLive, Typed, PollersOK
<1>3. rec'.state = "active" =>
         rec.state = "active" /\ rec'.attempts = rec.attempts /\ rec'.pid \in {0, rec.pid}
      OBVIOUS
<1>4. Calm
      BY <1>2, <1>3 DEF Calm
<1>5. \A q \in Pollers \ {p} : PollerInv(q)'
      BY <1>1, <1>4, CalmPoller DEF Slipless
<1>6. rec'.state = "active" => (Counts(rec))'
      BY <1>3, NumberFacts, ConstantsOK DEF Slipless, TaskInv, Counts, Typed, TypeOK, Workers
<1>7. \A w \in Workers : Live(w)' =>
          /\ w = launches
          /\ rec'.state = "active" /\ ~Unrecorded /\ rec'.pid # w =>
                rec'.grace = "on" /\ stage'[w] \in {"starting", "stamping"}
          /\ stage'[w] = "marking" => rec'.state # "active"
      BY <1>3 DEF Slipless, TaskInv, SomeLive
<1>8. TaskInv'
      BY <1>2, <1>3, <1>6, <1>7 DEF Slipless, TaskInv
<1> QED
    BY <1>5, <1>8 DEF Slipless

\* A pass over the record that ends.
LEMMA IdleInv ==
  ASSUME NEW p \in Pollers, pc'[p] = "idle"
  PROVE  PollerInv(p)'
<1> QED
    BY DEF PollerInv, Working, Deciding, Locked, Doomed

\* While a poller holds the lock, no launch of another is on its way.
LEMMA HeldLock ==
  ASSUME Slipless, NEW p \in Pollers, pc[p] \in Locked \ {"record"}
  PROVE  /\ lock = p /\ ~Unrecorded
         /\ \A q \in Pollers \ {p} : pc[q] \notin Locked
<1> QED
    BY DEF Slipless, PollerInv, Unrecorded, Locked

LEMMA LaunchSlipless ==
  ASSUME Typed, Typed', Slipless, NEW p \in Pollers, Goto(p, "spawn", "record", copy[p]),
         launches < MaxLaunches, launches' = launches + 1,
         stage' = [stage EXCEPT ![launches'] = "starting"],
         UNCHANGED disk
  PROVE  Slipless'
<1> USE NumberFacts, ConstantsOK DEF disk
<1>1. /\ pc[p] = "spawn" /\ pc' = [pc EXCEPT ![p] = "record"] /\ UNCHANGED copy
      /\ child'[p] = launches'
      /\ \A q \in Pollers \ {p} : pc'[q] = pc[q] /\ child'[q] = child[q]
      BY DEF Goto, Typed, PollersOK
<1>2. /\ lock = p /\ ~Unrecorded /\ ~SomeLive /\ launches < MaxAttempts /\ completion # "result"
      /\ \A q \in Pollers \ {p} : pc[q] \notin Locked
      BY <1>1, HeldLock DEF Slipless, PollerInv, Locked
<1>3. Unrecorded'
      BY <1>1 DEF Unrecorded, Typed, PollersOK
<1>4. /\ launches \in Nat /\ launches' \in Workers
      /\ \A w \in Workers : Live(w)' => w = launches' /\ stage'[w] = "starting"
      BY <1>2 DEF SomeLive, Live, Typed, TypeOK, WorkersOK, Workers
<1>5. ASSUME NEW c \in Record, Counts(c) PROVE c.pid <= launches' /\ c.pid \in {0, c.attempts, c.attempts + 1}
      BY <1>4, <1>5 DEF Counts
<1>6. TaskInv'
  <2>1. rec.state = "active" => launches = rec.attempts /\ (Counts(rec))'
        BY <1>2, <1>5 DEF Slipless, TaskInv, Counts, Typed, TypeOK
  <2> QED
      BY <1>2, <1>3, <1>4, <2>1 DEF TaskInv, Typed, TypeOK
<1>7. ASSUME NEW q \in Pollers PROVE PollerInv(q)'
  <2>1. pc'[q] \in Working => (Counts(copy[q]))'
    <3>1. pc'[q] \in Working => pc[q] \in Working /\ copy[q] \in Record
          BY <1>1 DEF Working, Stages, Typed, PollersOK
    <3> QED
        BY <1>1, <1>5, <3>1 DEF Slipless, PollerInv, Counts
  <2>2. pc'[q] \in Working /\ rec.state = "active" => copy[q].attempts <= rec.attempts
        BY <1>1 DEF Slipless, PollerInv, Working, Stages
  <2>3. CASE q = p
        BY <1>1, <1>2, <1>3, <2>1, <2>2, <2>3 DEF PollerInv, Locked, Typed, PollersOK
  <2>4. CASE q # p
        BY <1>1, <1>2, <1>3, <2>1, <2>2, <2>4 DEF PollerInv, Locked
  <2> QED
      BY <2>3, <2>4
<1> QED
    BY <1>6, <1>7 DEF Slipless

LEMMA RecordSlipless ==
  ASSUME Typed, Typed', Slipless, NEW p \in Pollers, Goto(p, "record", "unlock", copy[p]),
         rec' = Launched(copy[p], child[p]), ~Overtaken(copy[p]),
         UNCHANGED <<completion, lock, workers, launches>>
  PROVE  Slipless'
<1> USE NumberFacts, ConstantsOK DEF workers
<1>1. /\ pc[p] = "record" /\ pc' = [pc EXCEPT ![p] = "unlock"] /\ UNCHANGED copy
      /\ \A q \in Pollers \ {p} : pc'[q] = pc[q] /\ child'[q] = child[q]
      BY DEF Goto, Typed, PollersOK
<1>2. /\ lock = p /\ child[p] = launches /\ Unrecorded
      /\ \A q \in Pollers \ {p} : pc[q] \notin Locked
      BY <1>1 DEF Slipless, PollerInv, Locked, Unrecorded
<1>3. /\ copy[p] \in Record /\ copy[p].state = "active" /\ copy[p].attempts < MaxAttempts
      /\ launches \in 0..MaxLaunches /\ launches \in Nat
      BY <1>1, SMTT(30) DEF Typed, TypeOK, PollersOK, Working, Launching, Stages, Workers
<1>4. rec.state = "active" /\ rec.attempts = copy[p].attempts /\ rec.attempts \in Nat
      BY <1>3 DEF Overtaken
<1>5. rec'.state = "active" /\ rec'.attempts = rec.attempts + 1 /\ rec'.pid = launches
      BY <1>2, <1>3, <1>4, LaunchedFacts DEF Agree
<1>6. launches = rec.attempts + 1 /\ completion # "result"
      BY <1>2, <1>4 DEF Slipless, TaskInv
<1>7. ~Unrecorded'
      BY <1>1, <1>2 DEF Unrecorded, Locked, Typed, PollersOK
<1>8. TaskInv'
  <2>1. \A w \in Workers : Live(w)' => w = launches /\ stage'[w] # "marking"
        BY <1>4 DEF Slipless, TaskInv, Live
  <2>2. (Counts(rec))'
        BY <1>3, <1>5, <1>6 DEF Counts
  <2>3. launches' <= MaxAttempts
        BY DEF Slipless, TaskInv
  <2> QED
      BY <1>5, <1>6, <1>7, <2>1, <2>2, <2>3 DEF TaskInv
<1>9. ASSUME NEW q \in Pollers PROVE PollerInv(q)'
  <2>1. CASE q = p
        BY <1>1, <1>2, <2>1 DEF PollerInv, Working, Doomed, Deciding, Typed, PollersOK
  <2>2. CASE q # p
    <3>1. pc'[q] = pc[q] /\ pc[q] \notin Locked
          BY <1>1, <1>2, <2>2
    <3>2. pc[q] \in Working => (Counts(copy[q]))' /\ copy[q].attempts <= rec.attempts
          BY <1>1, <1>4 DEF Slipless, PollerInv, Counts
    <3>3. pc[q] \in Working => copy[q].attempts < rec'.attempts
          BY <1>4, <1>5, <3>2 DEF Typed, PollersOK
    <3>4. Doomed(q)' => pc[q] \in Working
          BY <3>1 DEF Doomed, Deciding, Working, Stages
    <3> QED
        BY <1>1, <1>4, <1>5, <3>1, <3>2, <3>3, <3>4 DEF PollerInv, Locked, Typed, PollersOK
  <2> QED
      BY <2>1, <2>2
<1> QED
    BY <1>8, <1>9 DEF Slipless

LEMMA PollerSlipless ==
  ASSUME Typed, Typed', Slipless, slips = 0, slips' = 0,
         NEW p \in Pollers, Scan(p) \/ Supervise(p) \/ PollerDies(p)
  PROVE  Slipless'
<1> USE ConstantsOK, NumberFacts
<1> DEFINE c == copy[p]
<1>1. /\ c \in Record /\ pc[p] \in Stages /\ PollerInv(p) /\ TaskInv
      /\ pc[p] \in Working => c.state = "active"
      /\ pc[p] \in Launching => c.attempts < MaxAttempts
      BY DEF Slipless, Typed, PollersOK
<1>2. ASSUME NEW from, NEW to, NEW d, Goto(p, from, to, d)
      PROVE  /\ pc[p] = from /\ pc'[p] = to
             /\ to # "idle" => copy'[p] = d
      BY <1>2 DEF Goto, Typed, PollersOK
<1> DEFINE Same == UNCHANGED <<rec, completion, lock, stage, launches>>
           Moves(from, to, d) == Goto(p, from, to, d) /\ from # "record" /\ to \in Stages \ {"record"}
\* The pass ends, and the record may be retired.
<1>3. ASSUME NEW from, NEW d, Moves(from, "idle", d), UNCHANGED <<stage, completion, launches>>,
             rec' = rec \/ rec'.state # "active",
             \A q \in Pollers \ {p} : lock = q => lock' = q
      PROVE  Slipless'
  <2>1. PollerInv(p)'
        BY <1>2, <1>3, IdleInv
  <2> QED
      BY <1>1, <1>2, <1>3, <2>1, MovedSlipless DEF Live
<1>4. ASSUME NEW from, NEW to, NEW d, Moves(from, to, d)
      PROVE  Unrecorded' <=> Unrecorded
      BY <1>2, <1>4 DEF Goto, Unrecorded, Typed, PollersOK
\* The poller goes on, and nothing else happens.
<1>5. ASSUME NEW from, NEW to \in Stages \ {"idle"}, NEW d, Moves(from, to, d), Same, PollerInv(p)'
      PROVE  Slipless'
      BY <1>1, <1>2, <1>5, MovedSlipless DEF Live
<1>7. CASE Scan(p)
  <2>1. Moves("idle", "consult", rec) /\ Same /\ rec.state = "active"
        BY <1>7 DEF Scan, Decide, Stages, disk, workers, history
  <2>2. pc'[p] = "consult" /\ copy'[p] = rec
        BY <1>2, <2>1
  <2>3. rec.pid = 0 /\ rec.grace = "over" /\ ~Unrecorded => ~SomeLive
        BY <1>1, <2>1 DEF TaskInv, SomeLive, Workers
  <2>4. Unrecorded' <=> Unrecorded
        BY <1>4, <2>1
  <2>5. PollerInv(p)'
        BY <1>1, <2>1, <2>2, <2>3, <2>4
        DEF PollerInv, Doomed, Deciding, Locked, TaskInv, Counts, SomeLive, Live, Typed, TypeOK
  <2> QED
      BY <1>5, <2>1, <2>5 DEF Stages
<1>8. CASE Consult(p)
  <2>1. CASE PollerWrites(p, "consult", "idle", Retired)
    <3>1. /\ Moves("consult", "idle", Retired) /\ rec' \in {rec, Retired}
          /\ UNCHANGED <<stage, completion, launches, lock>>
          BY <2>1 DEF PollerWrites, Write, Stages, workers
    <3> QED
        BY <1>3, <3>1, RecordFacts
  <2>2. CASE Decide(p, "consult", "judge", c)
    <3>1. Moves("consult", "judge", c) /\ Same
          BY <2>2 DEF Decide, Stages, disk, workers, history
    <3>2. pc[p] = "consult" /\ pc'[p] = "judge" /\ copy'[p] = c /\ (Unrecorded' <=> Unrecorded)
          BY <1>2, <1>4, <3>1
    <3>3. PollerInv(p)'
          BY <1>1, <3>1, <3>2
          DEF PollerInv, Doomed, Deciding, Locked, Working, Counts, SomeLive, Live, Stages
    <3> QED
        BY <1>5, <3>1, <3>3 DEF Stages
  <2>3. CASE Goto(p, "consult", "idle", Gone) /\ UNCHANGED <<disk, workers, launches, slips>>
        BY <1>3, <2>3 DEF Stages, disk, workers
  <2> QED
      BY <1>8, <2>1, <2>2, <2>3 DEF Consult
<1>9. CASE Judge(p)
  <2>1. CASE Decide(p, "judge", "idle", c)
        BY <1>3, <2>1 DEF Decide, Stages, disk, workers, history
  <2>2. CASE ~Healthy(c) /\ c.pid = 0 /\ Decide(p, "judge", Verdict(c), c)
    <3>1. Moves("judge", Verdict(c), c) /\ Same /\ Verdict(c) \in {"fail", "idle", "stat"}
          BY <1>1, <2>2, VerdictFacts DEF Decide, Stages, disk, workers, history
    <3>2. pc[p] = "judge" /\ pc'[p] = Verdict(c) /\ (Verdict(c) # "idle" => copy'[p] = c)
          /\ (Unrecorded' <=> Unrecorded)
          BY <1>2, <1>4, <3>1
    <3>3. c.grace = "over"
          BY <1>1, <2>2 DEF Healthy, Record
    <3>4. Verdict(c) # "idle" => PollerInv(p)'
          BY <1>1, <2>2, <3>1, <3>2, <3>3
          DEF PollerInv, Doomed, Deciding, Locked, Working, Counts, SomeLive, Live, Stages
    <3> QED
        BY <1>3, <1>5, <3>1, <3>4 DEF Stages
  <2>3. CASE /\ ~Healthy(c) /\ c.pid # 0 /\ Goto(p, "judge", "clear", c)
             /\ \/ /\ Live(c.pid)
                   /\ stage' = [stage EXCEPT ![c.pid] = "over"]
                \/ SlipIf(Live(c.pid)) /\ UNCHANGED workers
             /\ UNCHANGED <<disk, launches, mishaps>>
    <3>1. /\ pc[p] = "judge" /\ pc'[p] = "clear" /\ copy'[p] = c
          /\ (Unrecorded' <=> Unrecorded)
          BY <1>2, <1>4, <2>3 DEF Stages
    <3>2. /\ c.pid \in Workers /\ stage'[c.pid] \notin LiveStages
          /\ \A w \in Workers : Live(w)' => Live(w) /\ stage'[w] = stage[w]
      <4>1. c.pid \in Workers
            BY <1>1, <2>3 DEF Workers
      <4>2. CASE stage' = [stage EXCEPT ![c.pid] = "over"]
            BY <4>1, <4>2 DEF Live, LiveStages, Typed, WorkersOK
      <4>3. CASE SlipIf(Live(c.pid)) /\ UNCHANGED workers
            BY <4>1, <4>3 DEF SlipIf, Live, workers
      <4> QED
          BY <2>3, <4>1, <4>2, <4>3
    <3>3. rec.state = "active" /\ rec.attempts = c.attempts /\ ~Unrecorded => ~SomeLive'
      <4>1. SUFFICES ASSUME rec.state = "active", rec.attempts = c.attempts, ~Unrecorded,
                            NEW w \in Workers, Live(w)'
                     PROVE  FALSE
            BY DEF SomeLive
      <4>2. w = launches /\ launches = c.attempts
            BY <1>1, <3>2, <4>1 DEF TaskInv
      <4>3. c.pid <= launches /\ c.pid \in {0, c.attempts, c.attempts + 1}
            BY <1>1, <3>1 DEF PollerInv, Counts, Working, Stages
      <4> QED
          BY <1>1, <2>3, <3>2, <4>1, <4>2, <4>3 DEF Live, Workers
    <3>4. PollerInv(p)'
          BY <1>1, <2>3, <3>1, <3>3
          DEF PollerInv, Deciding, Locked, Working, Counts, Stages, disk
    <3> QED
        BY <1>1, <2>3, <3>2, <3>4, MovedSlipless DEF Stages, disk
  <2> QED
      BY <1>9, <2>1, <2>2, <2>3 DEF Judge
<1>10. CASE Clear(p)
  <2> DEFINE d == Classified(c, "transient")
  <2>1. /\ d \in Record /\ d.state = c.state /\ d.attempts = c.attempts /\ d.pid = 0
        /\ Verdict(d) \in {"fail", "idle", "stat"}
        BY <1>1, ClassifiedFacts, VerdictFacts DEF Agree
  <2>2. PollerWrites(p, "clear", Verdict(d), d)
        BY <1>10 DEF Clear
  <2> HIDE DEF d
  <2>3. /\ Moves("clear", Verdict(d), d) /\ UNCHANGED <<completion, lock, stage, launches>>
        /\ rec' = rec \/ (rec' = d /\ ~Overtaken(c))
        BY <2>1, <2>2 DEF PollerWrites, Write, SlipIf, Stages, workers
  <2>4. pc[p] = "clear" /\ pc'[p] = Verdict(d) /\ (Verdict(d) # "idle" => copy'[p] = d)
        /\ (Unrecorded' <=> Unrecorded)
        BY <1>2, <1>4, <2>3
  <2>5. ~Overtaken(c) => rec.state = c.state /\ rec.attempts = c.attempts
        BY DEF Overtaken
  <2>6. rec.state = "active" /\ rec.attempts = c.attempts /\ ~Unrecorded => ~SomeLive
        BY <1>1, <2>4 DEF PollerInv, Doomed, Deciding
  <2>7. rec.state = "active" => c.attempts <= rec.attempts
        BY <1>1, <2>4 DEF PollerInv, Working, Stages
  <2>8. c.state = "active" /\ (SomeLive' <=> SomeLive)
        BY <1>1, <2>3, <2>4 DEF SomeLive, Live, Working, Stages
  <2>9. rec'.state = rec.state /\ rec'.attempts = rec.attempts /\ rec'.pid \in {0, rec.pid}
        BY <2>1, <2>3, <2>5
  <2>10. PollerInv(p)'
    <3>1. CASE Verdict(d) = "idle"
          BY <2>4, <3>1, IdleInv
    <3>2. CASE Verdict(d) # "idle"
      <4>1. (Counts(copy[p]))' /\ (rec'.state = "active" => copy'[p].attempts <= rec'.attempts)
            BY <2>1, <2>3, <2>4, <2>7, <2>9, <3>2 DEF Counts, Typed, TypeOK, Workers
      <4> QED
          BY <2>1, <2>4, <2>6, <2>8, <2>9, <3>2, <4>1 DEF PollerInv, Locked
    <3> QED
        BY <3>1, <3>2
  <2> QED
      BY <2>1, <2>3, <2>5, <2>6, <2>8, <2>9, <2>10, MovedSlipless DEF Stages, Live
<1>11. CASE Fail(p)
  <2>1. /\ Moves("fail", "close", c) /\ UNCHANGED <<rec, lock, stage, launches>>
        /\ completion' = "result" => completion = "result"
        BY <1>11 DEF Fail, Marked, Stages, workers, history
  <2>2. pc[p] = "fail" /\ pc'[p] = "close" /\ copy'[p] = c
        BY <1>2, <2>1
  <2>3. PollerInv(p)'
        BY <1>1, <2>1, <2>2 DEF PollerInv, Doomed, Deciding, Locked, Working, Counts, Stages
  <2> QED
      BY <2>1, <2>3, MovedSlipless DEF Stages, Live
<1>12. CASE Close(p)
  <2>1. /\ Moves("close", "idle", Retired) /\ rec' \in {rec, Retired}
        /\ UNCHANGED <<stage, completion, launches, lock>>
        BY <1>12 DEF Close, PollerWrites, Write, Stages, workers
  <2> QED
      BY <1>3, <2>1, RecordFacts
<1>13. CASE Steal(p)
  <2>1. /\ \/ Moves("stat", "steal", c) /\ UNCHANGED lock
           \/ Moves("steal", "claim", c) /\ lock \notin Pollers
        /\ UNCHANGED <<rec, completion, stage, launches>>
        BY <1>13 DEF Steal, Decide, Remove, SlipIf, Stages, disk, workers, history
  <2>2. /\ pc[p] \in {"stat", "steal"} /\ pc'[p] \in {"steal", "claim"} /\ copy'[p] = c
        /\ (Unrecorded' <=> Unrecorded) /\ (SomeLive' <=> SomeLive)
        BY <1>2, <1>4, <2>1 DEF SomeLive, Live
  <2>3. PollerInv(p)'
        BY <1>1, <2>1, <2>2 DEF PollerInv, Doomed, Deciding, Locked, Working, Counts, Stages
  <2> QED
      BY <2>1, <2>3, MovedSlipless DEF Stages, Live
<1>14. CASE Claim(p)
  <2> PICK from \in {"stat", "claim"} :
         \/ /\ lock = "none" /\ Goto(p, from, "reread", c)
            /\ lock' = p
            /\ UNCHANGED <<rec, completion, workers, history>>
         \/ Decide(p, from, "idle", Gone)
      BY <1>14 DEF Claim
  <2>1. CASE lock = "none" /\ Goto(p, from, "reread", c) /\ lock' = p
             /\ UNCHANGED <<rec, completion, workers, history>>
    <3>1. /\ pc[p] = from /\ pc'[p] = "reread" /\ copy'[p] = c
          /\ (Unrecorded' <=> Unrecorded) /\ (SomeLive' <=> SomeLive)
          BY <1>2, <1>4, <2>1 DEF SomeLive, Live, Stages, workers
    <3>2. PollerInv(p)'
          BY <1>1, <2>1, <3>1
          DEF PollerInv, Doomed, Deciding, Locked, Working, Counts, Stages, history
    <3> QED
        BY <2>1, <3>2, MovedSlipless DEF Stages, Live, workers, history
  <2>2. CASE Decide(p, from, "idle", Gone)
        BY <1>3, <2>2 DEF Decide, Stages, disk, workers, history
  <2> QED
      BY <2>1, <2>2
<1>15. CASE Reread(p)
  <2>1. CASE Untouched(p) /\ Decide(p, "reread", "spawn", rec)
    <3>1. Moves("reread", "spawn", rec) /\ Same /\ rec.state = "active" /\ rec.attempts = c.attempts
          BY <2>1 DEF Decide, Untouched, Stages, disk, workers, history
    <3>2. pc[p] = "reread" /\ pc'[p] = "spawn" /\ copy'[p] = rec /\ (SomeLive' <=> SomeLive)
          BY <1>2, <3>1 DEF SomeLive, Live
    <3>3. lock = p /\ ~Unrecorded
          BY <3>2, HeldLock DEF Locked
    <3>4. ~SomeLive
          BY <1>1, <3>1, <3>2, <3>3 DEF PollerInv, Doomed, Deciding
    <3>5. launches < MaxAttempts /\ completion # "result" /\ Counts(rec)
          BY <1>1, <3>1, <3>2, <3>3 DEF TaskInv, Launching
    <3>6. PollerInv(p)'
          BY <3>1, <3>2, <3>3, <3>4, <3>5 DEF PollerInv, Counts, Typed, TypeOK
    <3> QED
        BY <1>5, <3>1, <3>6 DEF Stages
  <2>2. CASE Decide(p, "reread", "unlock", Gone)
    <3>1. Moves("reread", "unlock", Gone) /\ Same
          BY <2>2 DEF Decide, Stages, disk, workers, history
    <3>2. pc[p] = "reread" /\ pc'[p] = "unlock"
          BY <1>2, <3>1
    <3>3. PollerInv(p)'
          BY <1>1, <3>1, <3>2 DEF PollerInv, Doomed, Deciding, Locked, Working
    <3> QED
        BY <1>5, <3>1, <3>3 DEF Stages
  <2> QED
      BY <1>15, <2>1, <2>2 DEF Reread
<1>16. CASE Spawn(p)
  <2>1. CASE /\ Goto(p, "spawn", "record", c)
             /\ launches < MaxLaunches
             /\ launches' = launches + 1
             /\ stage' = [stage EXCEPT ![launches'] = "starting"]
             /\ UNCHANGED disk
        BY <2>1, LaunchSlipless
  <2>2. CASE Goto(p, "spawn", "postpone", c) /\ UNCHANGED <<disk, workers, launches, slips>>
    <3>1. Moves("spawn", "postpone", c) /\ Same
          BY <2>2 DEF Stages, disk, workers
    <3>2. pc[p] = "spawn" /\ pc'[p] = "postpone" /\ copy'[p] = c /\ (SomeLive' <=> SomeLive)
          BY <1>2, <3>1 DEF SomeLive, Live
    <3>3. PollerInv(p)'
          BY <1>1, <3>1, <3>2 DEF PollerInv, Locked, Working, Counts, Stages
    <3> QED
        BY <1>5, <3>1, <3>3 DEF Stages
  <2> QED
      BY <1>16, <2>1, <2>2 DEF Spawn
<1>17. CASE Postpone(p)
  <2> DEFINE d == [c EXCEPT !.wait = "backoff"]
  <2>1. Agree(c, d, {"state", "pid", "attempts", "grace"})
        BY <1>1, WaitFacts DEF Agree
  <2>2. PollerWrites(p, "postpone", "unlock", d)
        BY <1>17 DEF Postpone
  <2> HIDE DEF d
  <2>3. /\ Moves("postpone", "unlock", d) /\ UNCHANGED <<completion, lock, stage, launches>>
        /\ rec' = rec \/ (rec' = d /\ ~Overtaken(c))
        BY <2>2 DEF PollerWrites, Write, SlipIf, Stages, workers
  <2>4. pc[p] = "postpone" /\ pc'[p] = "unlock"
        BY <1>2, <2>3
  <2>5. ~SomeLive
        BY <1>1, <2>4 DEF PollerInv
  <2>6. rec'.state = rec.state /\ rec'.attempts = rec.attempts /\ rec'.pid = rec.pid
        BY <2>1, <2>3 DEF Overtaken, Agree
  <2>7. PollerInv(p)'
        BY <1>1, <2>3, <2>4 DEF PollerInv, Doomed, Deciding, Locked, Working
  <2> QED
      BY <2>3, <2>5, <2>6, <2>7, MovedSlipless DEF Stages, Live
<1>18. CASE RecordLaunch(p)
      BY <1>18, RecordSlipless DEF RecordLaunch, Write, SlipIf
<1>19. CASE Unlock(p)
  <2>1. Moves("unlock", "idle", Gone) /\ UNCHANGED <<rec, completion, stage, launches>>
        BY <1>19 DEF Unlock, Stages, workers
  <2>2. lock = p
        BY <1>1, <1>2, <2>1 DEF PollerInv, Locked
  <2> QED
      BY <1>3, <2>1, <2>2
<1>20. CASE PollerDies(p)
  <2>1. Moves(pc[p], "idle", Gone) /\ UNCHANGED <<rec, completion, stage, launches>>
        BY <1>20 DEF PollerDies, SlipIf, Stages, workers
  <2>2. \A q \in Pollers \ {p} : lock = q => lock' = q
        BY <1>20 DEF PollerDies
  <2> QED
      BY <1>3, <2>1, <2>2
<1> QED
    BY <1>7, <1>8, <1>9, <1>10, <1>11, <1>12, <1>13, <1>14, <1>15, <1>16, <1>17, <1>18,
       <1>19, <1>20
    DEF Supervise

-----------------------------------------------------------------------------
(* The theorems *)

LEMMA InitSlipless == Init => Slipless
<1> SUFFICES ASSUME Init PROVE Slipless
    OBVIOUS
<1>1. rec.state = "active" /\ rec.pid = 0 /\ rec.attempts = 1 /\ rec.grace = "on"
  <2>1. rec = [state |-> "active", pid |-> 0, attempts |-> 1, streak |-> 0,
               grace |-> "on", wait |-> "no", budget |-> "left"]
        BY DEF Init, Gone
  <2> QED
      BY <2>1
<1>2. \A w \in Workers : Live(w) => w = 1 /\ stage[w] = "starting"
      BY DEF Init, Live, LiveStages
<1> QED
    BY <1>1, <1>2, ConstantsOK
    DEF Init, Slipless, TaskInv, PollerInv, Unrecorded, Counts, Doomed, Deciding, Locked, Working

\* What has slipped has slipped.
LEMMA SlipsStay == Typed /\ [Next]_vars /\ slips' = 0 => slips = 0
<1> SUFFICES ASSUME Typed, [Next]_vars, slips' = 0 PROVE slips = 0
    OBVIOUS
<1> USE DEF Typed, TypeOK, SlipIf, history, pollers
<1>1. ASSUME NEW w \in Workers, Worker(w) \/ WorkerDies(w) \/ GoesSilent(w) PROVE slips = 0
      BY <1>1 DEF Worker, WorkerDies, GoesSilent, StartRead, StartWrite, FinishRead, FinishWrite,
                  MarkDone, ReadRecord, WorkerWrites, Write
<1>2. ASSUME NEW p \in Pollers, Scan(p) \/ Supervise(p) \/ PollerDies(p) PROVE slips = 0
  <2>1. CASE Scan(p) \/ Consult(p) \/ Judge(p) \/ Clear(p) \/ Fail(p) \/ Close(p) \/ Claim(p)
        BY <2>1 DEF Scan, Consult, Judge, Clear, Fail, Close, Claim, Decide, PollerWrites, Write
  <2>2. CASE \/ Steal(p) \/ Reread(p) \/ Spawn(p) \/ Postpone(p) \/ RecordLaunch(p)
             \/ Unlock(p) \/ PollerDies(p)
        BY <2>2 DEF Steal, Reread, Spawn, Postpone, RecordLaunch, Unlock, PollerDies, Decide,
                    PollerWrites, Write, Remove
  <2> QED
      BY <1>2, <2>1, <2>2 DEF Supervise
<1>3. CASE \/ LaunchFails \/ GraceOver \/ BackoffOver \/ BudgetOver \/ LockAges
           \/ Prune \/ Deliver \/ Purge \/ UNCHANGED vars
      BY <1>3 DEF LaunchFails, GraceOver, BackoffOver, BudgetOver, LockAges, Prune, Deliver, Purge,
                  Remove, vars
<1> QED
    BY <1>1, <1>2, <1>3 DEF Next

LEMMA Invariance == Spec => []IInv
<1>1. Init => IInv
      BY InitTyped, InitSlipless DEF IInv
<1>2. IInv /\ [Next]_vars => IInv'
  <2> SUFFICES ASSUME IInv, [Next]_vars PROVE IInv'
      OBVIOUS
  <2>1. Typed /\ Typed'
        BY NextTyped DEF IInv
  <2>2. ASSUME slips' = 0 PROVE Slipless'
    <3>1. slips = 0 /\ Slipless
          BY <2>1, <2>2, SlipsStay DEF IInv
    <3>2. ASSUME NEW w \in Workers, Worker(w) \/ WorkerDies(w) \/ GoesSilent(w) PROVE Slipless'
          BY <2>1, <2>2, <3>1, <3>2, WorkerSlipless
    <3>3. ASSUME NEW p \in Pollers, Scan(p) \/ Supervise(p) \/ PollerDies(p) PROVE Slipless'
          BY <2>1, <2>2, <3>1, <3>3, PollerSlipless
    <3>4. CASE \/ LaunchFails \/ GraceOver \/ BackoffOver \/ BudgetOver \/ LockAges
               \/ Prune \/ Deliver \/ Purge \/ UNCHANGED vars
          BY <2>1, <2>2, <3>1, <3>4, RestSlipless
    <3> QED
        BY <3>2, <3>3, <3>4 DEF Next
  <2> QED
      BY <2>1, <2>2 DEF IInv
<1> QED
    BY <1>1, <1>2, PTL DEF Spec

\* The variables keep their types, whatever slips.
THEOREM TypeCorrect == Spec => []TypeOK
<1>1. IInv => TypeOK
      BY DEF IInv, Typed
<1> QED
    BY <1>1, Invariance, PTL

\* No two workers live at once before a slip: supervise launches only beside dead
\* workers, for any number of pollers that read the record at any time.
THEOREM OneWorkerTheorem == Spec => []OneWorker
<1>1. IInv => OneWorker
  <2> SUFFICES ASSUME IInv, slips = 0 PROVE Cardinality({w \in Workers : Live(w)}) <= 1
      BY DEF OneWorker
  <2> DEFINE S == {w \in Workers : Live(w)}
  <2>1. S = {} \/ S = {launches}
        BY DEF IInv, Slipless, TaskInv
  <2> HIDE DEF S
  <2>2. CASE S = {}
    <3>1. Cardinality(S) = 0
          BY <2>2, FS_EmptySet
    <3> QED
        BY <3>1 DEF S
  <2>3. CASE S = {launches}
    <3>1. Cardinality(S) = 1
          BY <2>3, FS_Singleton
    <3> QED
        BY <3>1 DEF S
  <2> QED
      BY <2>1, <2>2, <2>3
<1> QED
    BY <1>1, Invariance, PTL

\* A waiting result is replaced by a failure, before a slip, only on a copy of the
\* record that has been overtaken.
THEOREM ResultIsKept == Spec => ResultKept
<1> DEFINE Kept == (completion = "result" /\ completion' = "failure")
                   => slips > 0 \/ \E p \in Pollers : pc[p] = "fail" /\ Overtaken(copy[p])
<1>1. IInv /\ [Next]_vars => [Kept]_vars
  <2> SUFFICES ASSUME IInv, [Next]_vars, completion = "result", completion' = "failure", slips = 0
               PROVE  \E p \in Pollers : pc[p] = "fail" /\ Overtaken(copy[p])
      BY DEF IInv, Typed, TypeOK
  <2>1. rec.state # "active" /\ ~SomeLive
        BY DEF IInv, Slipless, TaskInv
  <2> USE DEF disk, workers, pollers, history
  <2>2. ASSUME NEW w \in Workers, Worker(w) \/ WorkerDies(w) \/ GoesSilent(w) PROVE FALSE
        BY <2>2 DEF Worker, WorkerDies, GoesSilent, StartRead, StartWrite, FinishRead,
                    FinishWrite, MarkDone, Marked, ReadRecord, WorkerWrites
  <2>3. ASSUME NEW p \in Pollers, Scan(p) \/ Supervise(p) \/ PollerDies(p)
        PROVE  pc[p] = "fail" /\ Overtaken(copy[p])
    <3>1. Fail(p)
          BY <2>3 DEF Supervise, Scan, Consult, Judge, Clear, Close, Steal, Claim, Reread,
                      Spawn, Postpone, RecordLaunch, Unlock, PollerDies, Decide, PollerWrites
    <3>2. pc[p] = "fail" /\ copy[p].state = "active"
          BY <3>1 DEF Fail, Goto, IInv, Typed, PollersOK, Working, Stages
    <3> QED
        BY <2>1, <3>2 DEF Overtaken
  <2>4. ~LaunchFails
    <3>1. LaunchFails => 1 \in Workers /\ Live(1)
          BY ConstantsOK DEF LaunchFails, Step, Live, LiveStages, Workers
    <3> QED
        BY <2>1, <3>1 DEF SomeLive
  <2>5. CASE \/ GraceOver \/ BackoffOver \/ BudgetOver \/ LockAges
             \/ Prune \/ Deliver \/ Purge \/ UNCHANGED vars
        BY <2>5 DEF GraceOver, BackoffOver, BudgetOver, Pass, LockAges, Prune, Deliver, Purge, vars
  <2> QED
      BY <2>2, <2>3, <2>4, <2>5 DEF Next
<1> QED
    BY <1>1, Invariance, PTL DEF Spec, ResultKept
-----------------------------------------------------------------------------
(* The refinement *)

Outdated == \E p \in Pollers : pc[p] = "fail" /\ Overtaken(copy[p])

\* Only one worker lives, so that when it ends none does.
LEMMA EndOfWork ==
  ASSUME Typed, Slipless, NEW w \in Workers, Live(w), stage' = [stage EXCEPT ![w] = "over"]
  PROVE  SomeLive /\ ~SomeLive'
<1>1. \A v \in Workers : Live(v) => v = w
      BY DEF Slipless, TaskInv
<1>2. \A v \in Workers : ~Live(v)'
      BY <1>1 DEF Typed, TypeOK, Live, LiveStages
<1> QED
    BY <1>2 DEF SomeLive

\* The task does not see the step, unless by a worker that ends or by a slip.
Quiet == UNCHANGED <<launches, completion>> /\ (SomeLive' => SomeLive)

\* What a step does to the launches, to what is queued and to the workers.
LEMMA StepEffect ==
  ASSUME Typed, [Next]_vars
  PROVE  \/ Quiet \/ LaunchFails \/ Deliver
         \/ \E w \in Workers : MarkDone(w)
         \/ \E p \in Pollers : Fail(p) \/ Spawn(p)
<1> USE DEF disk, workers, pollers, history, Quiet
<1>1. ASSUME NEW w \in Workers, Worker(w) \/ WorkerDies(w) \/ GoesSilent(w)
      PROVE  Quiet \/ MarkDone(w)
  <2>1. Live(w) => SomeLive
        BY DEF SomeLive
  <2>2. Live(w)
        BY <1>1 DEF Worker, WorkerDies, GoesSilent, StartRead, StartWrite, FinishRead, FinishWrite,
                    MarkDone, ReadRecord, WorkerWrites, Step, Live, LiveStages
  <2> QED
      BY <1>1, <2>1, <2>2 DEF Worker, WorkerDies, GoesSilent, StartRead, StartWrite, FinishRead,
                              FinishWrite, ReadRecord, WorkerWrites
<1>2. ASSUME NEW p \in Pollers, Scan(p) \/ Supervise(p) \/ PollerDies(p)
      PROVE  Quiet \/ Fail(p) \/ Spawn(p)
  <2>1. CASE Judge(p)
    <3>1. /\ UNCHANGED <<launches, completion>>
          /\ UNCHANGED stage \/ \E w \in 0..MaxLaunches :
                Live(w) /\ stage' = [stage EXCEPT ![w] = "over"]
          BY <2>1 DEF Judge, Decide, Typed, TypeOK, Record
    <3>2. SomeLive' => SomeLive
          BY <3>1 DEF SomeLive, Live, LiveStages, Typed, TypeOK
    <3> QED
        BY <3>1, <3>2
  <2>2. CASE \/ Scan(p) \/ Consult(p) \/ Clear(p) \/ Close(p) \/ Steal(p) \/ Claim(p)
             \/ Reread(p) \/ Postpone(p) \/ RecordLaunch(p) \/ Unlock(p) \/ PollerDies(p)
    <3>1. UNCHANGED <<launches, completion, stage>>
          BY <2>2 DEF Scan, Consult, Clear, Close, Steal, Claim, Reread, Postpone, RecordLaunch,
                      Unlock, PollerDies, Decide, PollerWrites
    <3> QED
        BY <3>1 DEF SomeLive, Live
  <2> QED
      BY <1>2, <2>1, <2>2 DEF Supervise
<1>3. CASE \/ GraceOver \/ BackoffOver \/ BudgetOver \/ LockAges
           \/ Prune \/ Purge \/ UNCHANGED vars
  <2>1. UNCHANGED <<launches, completion, stage>>
        BY <1>3 DEF GraceOver, BackoffOver, BudgetOver, Pass, LockAges, Prune, Purge, vars
  <2> QED
      BY <2>1 DEF SomeLive, Live
<1> QED
    BY <1>1, <1>2, <1>3 DEF Next

LEMMA InitTask == Init => Task!Init
<1> SUFFICES ASSUME Init PROVE Task!Init
    OBVIOUS
<1>1. 1 \in Workers /\ Live(1)
      BY ConstantsOK DEF Init, Live, LiveStages, Workers
<1>2. \A p \in Pollers : pc[p] # "fail"
      BY DEF Init
<1>3. launches = 1 /\ completion = "pending" /\ ~(slips > 0)
      BY DEF Init
<1> QED
    BY <1>1, <1>2, <1>3 DEF Task!Init
\* The mapped variables, by their names here.
LEMMA Mapped ==
  /\ Task!Launch <=> /\ ~SomeLive /\ completion # "result" /\ launches < MaxAttempts
                     /\ launches' = launches + 1 /\ SomeLive' = TRUE
                     /\ UNCHANGED <<completion, slips > 0>>
  /\ Task!End <=> /\ SomeLive /\ SomeLive' = FALSE
                  /\ UNCHANGED <<launches, completion, slips > 0>>
  /\ Task!Finish <=> /\ SomeLive /\ SomeLive' = FALSE
                     /\ completion' = Task!Queued("result")
                     /\ UNCHANGED <<launches, slips > 0>>
  /\ Task!Fail <=> /\ completion = "result" => Outdated
                   /\ completion' = Task!Queued("failure") /\ SomeLive' \in {SomeLive, FALSE}
                   /\ UNCHANGED <<launches, slips > 0>>
  /\ Task!Deliver <=> completion' = "closed" /\ UNCHANGED <<launches, SomeLive, slips > 0>>
  /\ Task!Ponder <=> UNCHANGED <<launches, SomeLive, completion, slips > 0>>
  /\ Task!Slip <=> /\ (slips > 0)' = TRUE /\ SomeLive' \in {SomeLive, FALSE}
                   /\ UNCHANGED <<launches, completion>>
  /\ Task!AfterSlip <=> /\ slips > 0 /\ (slips > 0)' = TRUE
                        /\ launches' \in {launches, launches + 1} /\ SomeLive' \in BOOLEAN
                        /\ completion' \in Task!Answers
                        /\ (completion = "closed" => completion' = completion)
<1> QED
    BY DEF Task!Launch, Task!End, Task!Finish, Task!Fail, Task!Deliver, Task!Ponder, Task!Slip,
           Task!AfterSlip, SomeLive, Outdated

\* After a slip next to nothing is promised.
LEMMA AfterSlipStep ==
  ASSUME Typed, Typed', slips > 0, slips' > 0, [Next]_vars
  PROVE  Task!AfterSlip
<1>1. launches' \in {launches, launches + 1} /\ (completion = "closed" => completion' = completion)
      BY StepEffect DEF Quiet, LaunchFails, Deliver, MarkDone, Fail, Spawn, Marked, disk, workers, history
<1>2. completion' \in Task!Answers
      BY DEF Typed, TypeOK, Task!Answers
<1>3. SomeLive' \in BOOLEAN
      BY DEF SomeLive
<1> QED
    BY <1>1, <1>2, <1>3, Mapped

\* Before a slip every step is one of the task, or slips.
LEMMA BeforeSlipStep ==
  ASSUME Typed, Typed', Slipless, slips = 0, [Next]_vars
  PROVE  \/ Task!Launch \/ Task!End \/ Task!Finish \/ Task!Fail \/ Task!Deliver
         \/ Task!Ponder \/ Task!Slip
<1>0. SomeLive \in BOOLEAN /\ SomeLive' \in BOOLEAN /\ slips' \in Nat
      BY DEF SomeLive, Typed, TypeOK
<1>1. CASE Quiet
  <2>1. UNCHANGED <<launches, completion>> /\ SomeLive' \in {SomeLive, FALSE}
        BY <1>0, <1>1 DEF Quiet
  <2>2. CASE slips' > 0
        BY <2>1, <2>2, Mapped
  <2>3. CASE ~(slips' > 0)
    <3>1. UNCHANGED (slips > 0)
          BY <2>3
    <3>2. CASE SomeLive' = SomeLive
          BY <2>1, <3>1, <3>2, Mapped
    <3>3. CASE SomeLive' # SomeLive
      <4>1. SomeLive /\ SomeLive' = FALSE
            BY <1>0, <2>1, <3>3
      <4> QED
          BY <2>1, <3>1, <4>1, Mapped
    <3> QED
        BY <3>2, <3>3
  <2> QED
      BY <2>2, <2>3
<1>2. ASSUME NEW w \in Workers, MarkDone(w) PROVE Task!Finish
  <2>1. /\ Live(w) /\ stage' = [stage EXCEPT ![w] = "over"]
        /\ UNCHANGED <<launches, slips>> /\ completion' = Marked("result")
        BY <1>2 DEF MarkDone, Step, Live, LiveStages, history
  <2>2. SomeLive /\ ~SomeLive'
        BY <2>1, EndOfWork
  <2> QED
      BY <1>0, <2>1, <2>2, Mapped DEF Marked, Task!Queued
<1>3. ASSUME NEW p \in Pollers, Fail(p) PROVE Task!Fail
  <2>1. /\ pc[p] = "fail" /\ completion' = Marked("failure")
        /\ UNCHANGED <<stage, launches, slips>>
        BY <1>3 DEF Fail, Goto, workers, history
  <2>2. completion = "result" => Outdated
    <3>1. copy[p].state = "active"
          BY <2>1 DEF Typed, PollersOK, Working, Stages
    <3>2. completion = "result" => rec.state # "active"
          BY DEF Slipless, TaskInv
    <3> QED
        BY <2>1, <3>1, <3>2 DEF Outdated, Overtaken
  <2>3. SomeLive' = SomeLive
        BY <2>1 DEF SomeLive, Live
  <2> QED
      BY <2>1, <2>2, <2>3, Mapped DEF Marked, Task!Queued
<1>4. ASSUME NEW p \in Pollers, Spawn(p) PROVE Task!Launch \/ Task!Ponder
  <2>1. pc[p] = "spawn"
        BY <1>4 DEF Spawn, Goto
  <2>2. ~SomeLive /\ completion # "result" /\ launches < MaxAttempts
        BY <2>1 DEF Slipless, PollerInv
  <2>3. CASE launches' = launches + 1 /\ launches < MaxLaunches
             /\ stage' = [stage EXCEPT ![launches'] = "starting"] /\ UNCHANGED <<disk, slips>>
    <3>1. launches' \in Workers
          BY <2>3, ConstantsOK DEF Typed, TypeOK, Workers
    <3>2. SomeLive'
          BY <2>3, <3>1 DEF SomeLive, Live, LiveStages, Typed, TypeOK
    <3> QED
        BY <1>0, <2>2, <2>3, <3>2, Mapped DEF disk
  <2>4. CASE UNCHANGED <<disk, workers, launches, slips>>
    <3>1. SomeLive' = SomeLive
          BY <2>4 DEF SomeLive, Live, workers
    <3> QED
        BY <2>4, <3>1, Mapped DEF disk
  <2> QED
      BY <1>4, <2>3, <2>4 DEF Spawn
<1>5. CASE LaunchFails
  <2>1. /\ 1 \in Workers /\ Live(1) /\ completion' = Marked("failure")
        /\ UNCHANGED <<launches, slips>>
        BY <1>5, ConstantsOK DEF LaunchFails, Step, Live, LiveStages, Workers
  <2>2. SomeLive /\ completion # "result"
        BY <2>1 DEF SomeLive, Slipless, TaskInv
  <2> QED
      BY <1>0, <2>1, <2>2, Mapped DEF Marked, Task!Queued
<1>6. CASE Deliver
  <2>1. completion' = "closed" /\ UNCHANGED <<launches, slips, stage>>
        BY <1>6 DEF Deliver, workers, history
  <2>2. SomeLive' = SomeLive
        BY <2>1 DEF SomeLive, Live
  <2> QED
      BY <2>1, <2>2, Mapped
<1> QED
    BY <1>1, <1>2, <1>3, <1>4, <1>5, <1>6, StepEffect

\* The supervisor, its pollers and its workers implement the task: they launch one
\* worker after the other, within the attempts and never beside a queued result, for
\* any number of pollers that act on old copies of the record, until a slip.
THEOREM SupervisorImplementsTask == Spec => ImplementsSupervisedTask
<1>1. IInv /\ IInv' /\ [Next]_vars => [Task!Next]_Task!vars
  <2> SUFFICES ASSUME IInv, IInv', [Next]_vars PROVE Task!Next
      OBVIOUS
  <2>1. Typed /\ Typed' /\ slips \in Nat /\ slips' \in Nat
        BY DEF IInv, Typed, TypeOK
  <2>2. CASE slips = 0
        BY <2>1, <2>2, BeforeSlipStep DEF IInv, Task!Next
  <2>3. CASE slips # 0
    <3>1. slips > 0 /\ slips' > 0
          BY <2>1, <2>3, SlipsStay
    <3> QED
        BY <2>1, <3>1, AfterSlipStep DEF Task!Next
  <2> QED
      BY <2>2, <2>3
<1> QED
    BY Invariance, InitTask, <1>1, PTL DEF Spec, ImplementsSupervisedTask, Task!Spec
=============================================================================
