---------------------- MODULE CompletionNotify_proofs -----------------------
(***************************************************************************)
(* Proofs about CompletionNotify for every set of records and of pollers   *)
(* and any number of mishaps: every envelope after the first is paid for   *)
(* by an event that lets a record be delivered once more.                  *)
(***************************************************************************)
EXTENDS CompletionNotify, FiniteSetTheorems, TLAPS

-----------------------------------------------------------------------------
(* The inductive invariant *)

\* A poller that works has a record to work on.
AtInv == \A p \in Pollers : pc[p] # "idle" => at[p] \in Records

\* What is ready has a text, and so has what is about to be sent.
TextInv ==
    /\ \A r \in Records : state[r] \in {"ready", "delivered"} \/ copy[r] = "ready" => text[r] \in Texts
    /\ \A r \in Records : copy[r] # "none" => producer[r] = "voicing"
    /\ \A p \in Pollers : pc[p] \in {"emit", "check", "mark"} => found[p] \in Texts

\* The stages from which a poller may still send the envelope, or open the record.
Risky == {"reread", "emit", "reapread", "reapwrite"}

\* The pollers that may do so although the lock is not theirs any more.
Lost(r) == {p \in Pollers : at[p] = r /\ pc[p] \in Risky /\ lock[r] # p}

Holds(p, r, stages) == lock[r] = p /\ at[p] = r /\ pc[p] \in stages

\* The record can be sent by its rightful holder: one is on the point of it; or the
\* record is open, nobody has sent it under the lock that lies there, and that lock
\* was not left by a dead poller.
Sendable(r) ==
    \/ \E p \in Pollers : Holds(p, r, {"emit", "reapwrite"})
    \/ /\ state[r] \notin {"delivered", "gone"} /\ lock[r] \notin {"left", "stale"}
       /\ \A p \in Pollers : ~Holds(p, r, {"check", "mark"})

Chance(r) == IF Sendable(r) THEN 1 ELSE 0

\* What has been sent and what can be sent is covered by what has happened.
Covered(r) ==
    /\ IsFiniteSet(Lost(r))
    /\ sent[r] + Cardinality(Lost(r)) + Chance(r) <= 1 + again[r]

IInv == TypeOK /\ AtInv /\ TextInv /\ \A r \in Records : Covered(r)

-----------------------------------------------------------------------------
(* What a step can do to the account of a record *)

\* Nothing can be sent that could not be sent before.
Calm(r) ==
    /\ Lost(r)' \subseteq Lost(r) /\ (Sendable(r)' => Sendable(r))
    /\ sent'[r] = sent[r] /\ again'[r] >= again[r]

\* Something can be sent that could not, and is paid for: a poller has lost its lock,
\* or the record is open again.
Paid(r) ==
    /\ sent'[r] = sent[r] /\ again'[r] = again[r] + 1
    /\ \/ Lost(r)' \subseteq Lost(r)
       \/ (\E x \in Pollers : Lost(r)' \subseteq Lost(r) \cup {x}) /\ (Sendable(r)' => Sendable(r))

\* A poller without the lock sends, or opens the record.
Spent(r) ==
    /\ \E x \in Lost(r) : Lost(r)' \subseteq Lost(r) \ {x}
    /\ again'[r] = again[r]
    /\ \/ sent'[r] = sent[r]
       \/ sent'[r] = sent[r] + 1 /\ (Sendable(r)' => Sendable(r))

\* The holder of the lock sends.
Sends(r) ==
    /\ Lost(r)' \subseteq Lost(r) /\ Sendable(r) /\ ~Sendable(r)'
    /\ sent'[r] = sent[r] + 1 /\ again'[r] = again[r]

Accounted(r) == Calm(r) \/ Paid(r) \/ Spent(r) \/ Sends(r)

\* Sets that lose or gain an element.
LEMMA Sizes ==
  ASSUME NEW S, IsFiniteSet(S), NEW T
  PROVE  /\ T \subseteq S => IsFiniteSet(T) /\ Cardinality(T) <= Cardinality(S)
         /\ \A x : T \subseteq S \cup {x} =>
                      IsFiniteSet(T) /\ Cardinality(T) <= Cardinality(S) + 1
         /\ \A x \in S : T \subseteq S \ {x} =>
                      IsFiniteSet(T) /\ Cardinality(T) <= Cardinality(S) - 1
         /\ Cardinality(S) \in Nat
         /\ IsFiniteSet(T) => Cardinality(T) \in Nat
<1>1. Cardinality(S) \in Nat /\ (IsFiniteSet(T) => Cardinality(T) \in Nat)
      BY FS_CardinalityType
<1>2. T \subseteq S => IsFiniteSet(T) /\ Cardinality(T) <= Cardinality(S)
      BY FS_Subset
<1>3. ASSUME NEW x, T \subseteq S \cup {x}
      PROVE  IsFiniteSet(T) /\ Cardinality(T) <= Cardinality(S) + 1
      <2>1. /\ IsFiniteSet(S \cup {x})
            /\ Cardinality(S \cup {x}) = Cardinality(S) \/ Cardinality(S \cup {x}) = Cardinality(S) + 1
            BY FS_AddElement
      <2>2. IsFiniteSet(T) /\ Cardinality(T) <= Cardinality(S \cup {x})
            BY <1>3, <2>1, FS_Subset
      <2>3. Cardinality(T) \in Nat
            BY <2>2, FS_CardinalityType
      <2> QED
          BY <1>1, <2>1, <2>2, <2>3
<1>4. ASSUME NEW x \in S, T \subseteq S \ {x}
      PROVE  IsFiniteSet(T) /\ Cardinality(T) <= Cardinality(S) - 1
      <2>1. IsFiniteSet(S \ {x}) /\ Cardinality(S \ {x}) = Cardinality(S) - 1
            BY FS_RemoveElement
      <2>2. IsFiniteSet(T) /\ Cardinality(T) <= Cardinality(S \ {x})
            BY <1>4, <2>1, FS_Subset
      <2> QED
          BY <2>1, <2>2
<1> QED
    BY <1>1, <1>2, <1>3, <1>4

\* An account that is kept is covered.
LEMMA AccountedIsCovered ==
  ASSUME TypeOK, TypeOK', NEW r \in Records, Covered(r), Accounted(r)
  PROVE  Covered(r)'
<1> DEFINE S == Lost(r)
           T == Lost(r)'
           a == Chance(r)
           b == Chance(r)'
<1>1. /\ sent[r] \in Nat /\ sent'[r] \in Nat /\ again[r] \in Nat /\ again'[r] \in Nat
      BY DEF TypeOK
<1>2. /\ a \in {0, 1} /\ b \in {0, 1}
      /\ (Sendable(r)' => Sendable(r)) => b <= a
      /\ Sendable(r) /\ ~Sendable(r)' => a = 1 /\ b = 0
      BY DEF Chance
<1>3. IsFiniteSet(S) /\ sent[r] + Cardinality(S) + a <= 1 + again[r]
      BY DEF Covered
<1>4. /\ T \subseteq S => IsFiniteSet(T) /\ Cardinality(T) <= Cardinality(S)
      /\ \A x : T \subseteq S \cup {x} =>
                   IsFiniteSet(T) /\ Cardinality(T) <= Cardinality(S) + 1
      /\ \A x \in S : T \subseteq S \ {x} =>
                   IsFiniteSet(T) /\ Cardinality(T) <= Cardinality(S) - 1
      /\ Cardinality(S) \in Nat
      /\ IsFiniteSet(T) => Cardinality(T) \in Nat
      <2> HIDE DEF S, T
      <2> QED
          BY <1>3, Sizes
<1>5. IsFiniteSet(T) /\ sent'[r] + Cardinality(T) + b <= 1 + again'[r]
      <2>1. CASE Calm(r)
            <3>1. /\ T \subseteq S /\ b <= a /\ sent'[r] = sent[r] /\ again'[r] >= again[r]
                  BY <1>2, <2>1 DEF Calm
            <3> HIDE DEF S, T, a, b
            <3> QED
                BY <1>1, <1>2, <1>3, <1>4, <3>1
      <2>2. CASE Paid(r)
            <3>1. /\ sent'[r] = sent[r] /\ again'[r] = again[r] + 1
                  /\ T \subseteq S \/ ((\E x : T \subseteq S \cup {x}) /\ b <= a)
                  BY <1>2, <2>2 DEF Paid
            <3> HIDE DEF S, T, a, b
            <3> QED
                BY <1>1, <1>2, <1>3, <1>4, <3>1
      <2>3. CASE Spent(r)
            <3>1. /\ \E x \in S : T \subseteq S \ {x}
                  /\ again'[r] = again[r]
                  /\ sent'[r] = sent[r] \/ (sent'[r] = sent[r] + 1 /\ b <= a)
                  BY <1>2, <2>3 DEF Spent
            <3> HIDE DEF S, T, a, b
            <3> QED
                BY <1>1, <1>2, <1>3, <1>4, <3>1
      <2>4. CASE Sends(r)
            <3>1. /\ T \subseteq S /\ a = 1 /\ b = 0
                  /\ sent'[r] = sent[r] + 1 /\ again'[r] = again[r]
                  BY <1>2, <2>4 DEF Sends
            <3> HIDE DEF S, T, a, b
            <3> QED
                BY <1>1, <1>2, <1>3, <1>4, <3>1
      <2> QED
          BY <2>1, <2>2, <2>3, <2>4 DEF Accounted
<1> QED
    BY <1>5 DEF Covered

-----------------------------------------------------------------------------
(* It holds at first *)

LEMMA InitIInv == Init => IInv
<1> SUFFICES ASSUME Init PROVE IInv
    OBVIOUS
<1>1. TypeOK
      BY ConstantsOK DEF Init, TypeOK, States, Texts, Alive, Stages, InLock
<1>2. AtInv /\ TextInv
      BY DEF Init, AtInv, TextInv
<1>3. ASSUME NEW r \in Records PROVE Covered(r)
      <2>1. Lost(r) = {}
            BY DEF Init, Lost, Risky
      <2>2. IsFiniteSet(Lost(r)) /\ Cardinality(Lost(r)) = 0
            BY <2>1, FS_EmptySet
      <2>3. sent[r] = 0 /\ again[r] = 0 /\ Chance(r) \in {0, 1}
            BY DEF Init, Chance
      <2> QED
          BY <2>2, <2>3 DEF Covered
<1> QED
    BY <1>1, <1>2, <1>3 DEF IInv
-----------------------------------------------------------------------------
(* It is kept *)

Typed == TypeOK /\ AtInv /\ TextInv

\* No step leaves the types, and a poller that works keeps its record.
LEMMA NextTyped == Typed /\ [Next]_vars => Typed'
<1> SUFFICES ASSUME Typed, [Next]_vars PROVE Typed'
    OBVIOUS
<1> USE ConstantsOK
    DEF Typed, TypeOK, AtInv, TextInv, States, Texts, Alive, Stages, InLock,
        Work, WriteBack, Open, Goto, GotoWith, Remove, Mishap, Stale, Free, Reapable, Present,
        onDisk, producing, polling, results
<1>1. ASSUME NEW r \in Records, Register(r) PROVE Typed'
      BY <1>1 DEF Register
<1>2. ASSUME NEW r \in Records, ClaimRead(r) PROVE Typed'
      BY <1>2 DEF ClaimRead
<1>3. ASSUME NEW r \in Records, ClaimWrite(r) PROVE Typed'
      BY <1>3 DEF ClaimWrite
<1>4. ASSUME NEW r \in Records, StartUnclaimed(r) PROVE Typed'
      BY <1>4 DEF StartUnclaimed
<1>5. ASSUME NEW r \in Records, FinishAttempt(r) PROVE Typed'
      BY <1>5 DEF FinishAttempt
<1>6. ASSUME NEW r \in Records, VoiceRead(r) PROVE Typed'
      BY <1>6 DEF VoiceRead
<1>7. ASSUME NEW r \in Records, VoiceWrite(r) PROVE Typed'
      BY <1>7 DEF VoiceWrite
<1>8. ASSUME NEW r \in Records, MarkRead(r) PROVE Typed'
      BY <1>8 DEF MarkRead
<1>9. ASSUME NEW r \in Records, MarkWrite(r) PROVE Typed'
      BY <1>9 DEF MarkWrite
<1>10. ASSUME NEW r \in Records, ProducerDies(r) PROVE Typed'
      BY <1>10 DEF ProducerDies
<1>11. ASSUME NEW r \in Records, Resume(r) PROVE Typed'
      BY <1>11 DEF Resume
<1>12. ASSUME NEW r \in Records, GiveUp(r) PROVE Typed'
      BY <1>12 DEF GiveUp
<1>13. ASSUME NEW r \in Records, FailWrite(r) PROVE Typed'
      BY <1>13 DEF FailWrite
<1>14. ASSUME NEW r \in Records, Prune(r) PROVE Typed'
      BY <1>14 DEF Prune
<1>15. ASSUME NEW r \in Records, LockAges(r) PROVE Typed'
      BY <1>15 DEF LockAges
<1>16. ASSUME NEW r \in Records, Purge(r) PROVE Typed'
      BY <1>16 DEF Purge
<1>17. ASSUME NEW p \in Pollers, NEW r \in Records, Notice(p, r) PROVE Typed'
      BY <1>17 DEF Notice
<1>18. ASSUME NEW p \in Pollers, at[p] # NoRecord, Stat(p) PROVE Typed'
      BY <1>18 DEF Stat
<1>19. ASSUME NEW p \in Pollers, at[p] # NoRecord, Steal(p) PROVE Typed'
      BY <1>19 DEF Steal
<1>20. ASSUME NEW p \in Pollers, at[p] # NoRecord, Claim(p) PROVE Typed'
      BY <1>20 DEF Claim
<1>21. ASSUME NEW p \in Pollers, at[p] # NoRecord, Reread(p) PROVE Typed'
      BY <1>21 DEF Reread
<1>22. ASSUME NEW p \in Pollers, at[p] # NoRecord, Emit(p) PROVE Typed'
      <2>4. at[p] \in Records /\ found[p] \in Texts
            BY <1>22 DEF Emit
      <2>1. /\ outbox' \in [Records -> SUBSET Texts] /\ sent' \in [Records -> Nat]
            /\ dropped' \subseteq Records /\ mishaps' \in Nat
            BY <1>22, <2>4 DEF Emit
      <2>2. /\ pc' \in [Pollers -> Stages] /\ at' \in [Pollers -> Records \cup {NoRecord}]
            /\ found' \in [Pollers -> Texts \cup {"none"}] /\ AtInv' /\ TextInv'
            BY <1>22 DEF Emit
      <2>3. UNCHANGED <<onDisk, producing, again, orphaned>>
            BY <1>22 DEF Emit
      <2> QED
          BY <2>1, <2>2, <2>3
<1>23. ASSUME NEW p \in Pollers, at[p] # NoRecord, Check(p) PROVE Typed'
      BY <1>23 DEF Check
<1>24. ASSUME NEW p \in Pollers, at[p] # NoRecord, MarkDelivered(p) PROVE Typed'
      BY <1>24 DEF MarkDelivered
<1>25. ASSUME NEW p \in Pollers, at[p] # NoRecord, ReapWrite(p) PROVE Typed'
      BY <1>25 DEF ReapWrite
<1>26. ASSUME NEW p \in Pollers, at[p] # NoRecord, Unlock(p) PROVE Typed'
      BY <1>26 DEF Unlock
<1>27. ASSUME NEW p \in Pollers, PollerDies(p) PROVE Typed'
      BY <1>27 DEF PollerDies
<1>28. CASE UNCHANGED vars
      BY <1>28 DEF vars
<1> QED
    BY <1>1, <1>2, <1>3, <1>4, <1>5, <1>6, <1>7, <1>8, <1>9, <1>10, <1>11, <1>12,
       <1>13, <1>14, <1>15, <1>16, <1>17, <1>18, <1>19, <1>20, <1>21, <1>22, <1>23, <1>24,
       <1>25, <1>26, <1>27, <1>28
    DEF Next, Worker, Supervisor, Deliver

\* The producers and the supervisor touch neither locks nor pollers: they change an
\* account only by opening a record that was delivered or unlinked, which is paid for.
LEMMA RecordStep ==
  ASSUME TypeOK, TypeOK', NEW r \in Records, UNCHANGED <<pc, at, lock, sent>>,
         \/ again'[r] = again[r] + 1
         \/ again'[r] = again[r] /\ (state'[r] \in {"delivered", "gone"}
                                      \/ state[r] \notin {"delivered", "gone"})
  PROVE  Accounted(r)
<1>1. Lost(r)' = Lost(r)
      BY DEF Lost
<1>2. again'[r] = again[r] => (Sendable(r)' => Sendable(r))
      BY DEF Sendable, Holds, TypeOK
<1> QED
    BY <1>1, <1>2 DEF Accounted, Calm, Paid, TypeOK

\* What a poller does to one record leaves the other accounts alone.
LEMMA OtherRecord ==
  ASSUME TypeOK, TypeOK', NEW p \in Pollers, NEW r \in Records, at[p] # r, at'[p] # r,
         \A q \in Pollers \ {p} : pc'[q] = pc[q] /\ at'[q] = at[q],
         state'[r] = state[r], lock'[r] = lock[r], sent'[r] = sent[r], again'[r] = again[r]
  PROVE  Accounted(r)
<1>1. Lost(r)' \subseteq Lost(r)
      BY DEF Lost
<1>2. Sendable(r)' => Sendable(r)
      BY DEF Sendable, Holds
<1> QED
    BY <1>1, <1>2 DEF Accounted, Calm, TypeOK

\* A lock that is removed, whoever it belonged to.
LEMMA RemovedLock ==
  ASSUME TypeOK, TypeOK', NEW r \in Records, lock[r] # "none", lock'[r] = "none",
         sent'[r] = sent[r], again'[r] = again[r] + 1, state'[r] \in {state[r], "gone"},
         \A q \in Pollers : (pc'[q] = pc[q] /\ at'[q] = at[q]) \/ pc'[q] \notin Risky
  PROVE  Accounted(r)
<1> USE ConstantsOK DEF TypeOK
<1>1. CASE lock[r] \in Pollers /\ at[lock[r]] = r /\ pc[lock[r]] \in Risky
      <2>1. Lost(r)' \subseteq Lost(r) \cup {lock[r]}
            BY <1>1 DEF Lost
      <2>2. Sendable(r)' => Sendable(r)
            BY <1>1 DEF Sendable, Holds, Risky
      <2> QED
          BY <1>1, <2>1, <2>2 DEF Accounted, Paid
<1>2. CASE ~(lock[r] \in Pollers /\ at[lock[r]] = r /\ pc[lock[r]] \in Risky)
      <2>1. Lost(r)' \subseteq Lost(r)
            BY <1>2 DEF Lost
      <2> QED
          BY <2>1 DEF Accounted, Paid
<1> QED
    BY <1>1, <1>2

\* Every step keeps the account of every record.
LEMMA NextAccounted ==
  ASSUME TypeOK, AtInv, TypeOK', [Next]_vars, NEW r \in Records
  PROVE  Accounted(r)
<1> USE DEF onDisk, producing, polling, results
<1>1. ASSUME NEW s \in Records, Register(s) PROVE Accounted(r)
      BY <1>1, RecordStep DEF Register, Work, WriteBack, TypeOK
<1>2. ASSUME NEW s \in Records, ClaimRead(s) PROVE Accounted(r)
      BY <1>2, RecordStep DEF ClaimRead, Work, WriteBack, TypeOK
<1>3. ASSUME NEW s \in Records, ClaimWrite(s) PROVE Accounted(r)
      BY <1>3, RecordStep DEF ClaimWrite, Work, WriteBack, TypeOK
<1>4. ASSUME NEW s \in Records, StartUnclaimed(s) PROVE Accounted(r)
      BY <1>4, RecordStep DEF StartUnclaimed, Work, WriteBack, TypeOK
<1>5. ASSUME NEW s \in Records, FinishAttempt(s) PROVE Accounted(r)
      BY <1>5, RecordStep DEF FinishAttempt, Work, WriteBack, TypeOK
<1>6. ASSUME NEW s \in Records, VoiceRead(s) PROVE Accounted(r)
      BY <1>6, RecordStep DEF VoiceRead, Work, WriteBack, TypeOK
<1>7. ASSUME NEW s \in Records, VoiceWrite(s) PROVE Accounted(r)
      BY <1>7, RecordStep DEF VoiceWrite, Work, WriteBack, TypeOK
<1>8. ASSUME NEW s \in Records, MarkRead(s) PROVE Accounted(r)
      BY <1>8, RecordStep DEF MarkRead, Work, WriteBack, TypeOK
<1>9. ASSUME NEW s \in Records, MarkWrite(s) PROVE Accounted(r)
      BY <1>9, RecordStep DEF MarkWrite, Work, WriteBack, TypeOK
<1>10. ASSUME NEW s \in Records, ProducerDies(s) PROVE Accounted(r)
      BY <1>10, RecordStep DEF ProducerDies, Work, WriteBack, TypeOK
<1>11. ASSUME NEW s \in Records, Resume(s) PROVE Accounted(r)
      BY <1>11, RecordStep DEF Resume, Work, WriteBack, TypeOK
<1>12. ASSUME NEW s \in Records, GiveUp(s) PROVE Accounted(r)
      BY <1>12, RecordStep DEF GiveUp, Work, WriteBack, TypeOK
<1>13. ASSUME NEW s \in Records, FailWrite(s) PROVE Accounted(r)
      BY <1>13, RecordStep DEF FailWrite, Work, WriteBack, TypeOK
<1>14. ASSUME NEW s \in Records, Purge(s) PROVE Accounted(r)
      BY <1>14, RecordStep DEF Purge, Work, WriteBack, TypeOK
<1>15. ASSUME NEW s \in Records, Prune(s) PROVE Accounted(r)
      <2>1. CASE r # s \/ state[s] # "ready"
            BY <1>15, <2>1, ConstantsOK
            DEF Prune, Remove, Accounted, Calm, Lost, Sendable, Holds,
               TypeOK
      <2>2. CASE r = s /\ state[s] = "ready" /\ lock[s] # "none"
            BY <1>15, <2>2, RemovedLock DEF Prune, Remove, TypeOK
      <2>3. CASE r = s /\ state[s] = "ready" /\ lock[s] = "none"
            <3>1. UNCHANGED <<pc, at, lock, sent>> /\ again'[r] = again[r] /\ state'[r] = "gone"
                  BY <1>15, <2>3 DEF Prune, Remove, TypeOK
            <3> QED
                BY <3>1, RecordStep
      <2> QED
          BY <2>1, <2>2, <2>3
<1>16. ASSUME NEW s \in Records, LockAges(s) PROVE Accounted(r)
      BY <1>16, ConstantsOK DEF LockAges, Accounted, Calm, Lost, Sendable, Holds, TypeOK
<1>17. ASSUME NEW p \in Pollers, NEW s \in Records, Notice(p, s) PROVE Accounted(r)
      BY <1>17 DEF Notice, Accounted, Calm, Lost, Risky, Sendable, Holds, TypeOK
<1>18. ASSUME NEW p \in Pollers, at[p] # NoRecord, Stat(p) PROVE Accounted(r)
      <2> USE DEF Stat, Goto, GotoWith
      <2>1. CASE r # at[p]
            BY <1>18, <2>1, OtherRecord, ConstantsOK DEF TypeOK
      <2>2. CASE r = at[p]
            BY <1>18, <2>2, ConstantsOK
            DEF Accounted, Calm, Lost, Risky, Sendable, Holds, TypeOK, AtInv
      <2> QED
          BY <2>1, <2>2
<1>19. ASSUME NEW p \in Pollers, at[p] # NoRecord, Steal(p) PROVE Accounted(r)
      <2> USE DEF Steal, Remove, Goto, GotoWith
      <2>1. CASE r # at[p]
            BY <1>19, <2>1, OtherRecord, ConstantsOK DEF TypeOK
      <2>2. CASE r = at[p]
            BY <1>19, <2>2, ConstantsOK, RemovedLock
            DEF Accounted, Calm, Lost, Risky, Sendable, Holds, TypeOK, AtInv
      <2> QED
          BY <2>1, <2>2
<1>20. ASSUME NEW p \in Pollers, at[p] # NoRecord, Claim(p) PROVE Accounted(r)
      <2> USE DEF Claim, Free, Goto, GotoWith
      <2>1. CASE r # at[p]
            BY <1>20, <2>1, OtherRecord, ConstantsOK DEF TypeOK
      <2>2. CASE r = at[p]
            BY <1>20, <2>2, ConstantsOK
            DEF Accounted, Calm, Lost, Risky, Sendable, Holds, TypeOK, AtInv
      <2> QED
          BY <2>1, <2>2
<1>21. ASSUME NEW p \in Pollers, at[p] # NoRecord, Reread(p) PROVE Accounted(r)
      <2> USE DEF Reread, Goto, GotoWith
      <2>1. CASE r # at[p]
            BY <1>21, <2>1, OtherRecord, ConstantsOK DEF TypeOK
      <2>2. CASE r = at[p]
            BY <1>21, <2>2, ConstantsOK
            DEF Accounted, Calm, Lost, Risky, Sendable, Holds, TypeOK, AtInv
      <2> QED
          BY <2>1, <2>2
<1>22. ASSUME NEW p \in Pollers, at[p] # NoRecord, Emit(p) PROVE Accounted(r)
      <2> USE DEF Emit, Mishap, Goto, GotoWith
      <2>1. CASE r # at[p]
            BY <1>22, <2>1, OtherRecord, ConstantsOK DEF TypeOK
      <2>2. CASE r = at[p]
            BY <1>22, <2>2, ConstantsOK
            DEF Accounted, Calm, Spent, Sends, Lost, Risky, Sendable, Holds, TypeOK, AtInv
      <2> QED
          BY <2>1, <2>2
<1>23. ASSUME NEW p \in Pollers, at[p] # NoRecord, Check(p) PROVE Accounted(r)
      <2> USE DEF Check, Goto, GotoWith
      <2>1. CASE r # at[p]
            BY <1>23, <2>1, OtherRecord, ConstantsOK DEF TypeOK
      <2>2. CASE r = at[p]
            BY <1>23, <2>2, ConstantsOK
            DEF Accounted, Calm, Lost, Risky, Sendable, Holds, TypeOK, AtInv
      <2> QED
          BY <2>1, <2>2
<1>24. ASSUME NEW p \in Pollers, at[p] # NoRecord, MarkDelivered(p) PROVE Accounted(r)
      <2> USE DEF MarkDelivered, Goto, GotoWith
      <2>1. CASE r # at[p]
            BY <1>24, <2>1, OtherRecord, ConstantsOK DEF TypeOK
      <2>2. CASE r = at[p]
            BY <1>24, <2>2, ConstantsOK
            DEF Accounted, Calm, Paid, Lost, Risky, Sendable, Holds, TypeOK, AtInv
      <2> QED
          BY <2>1, <2>2
<1>25. ASSUME NEW p \in Pollers, at[p] # NoRecord, ReapWrite(p) PROVE Accounted(r)
      <2> USE DEF ReapWrite, Goto, GotoWith
      <2>1. CASE r # at[p]
            BY <1>25, <2>1, OtherRecord, ConstantsOK DEF TypeOK
      <2>2. CASE r = at[p]
            BY <1>25, <2>2, ConstantsOK
            DEF Accounted, Calm, Spent, Lost, Risky, Sendable, Holds, TypeOK, AtInv
      <2> QED
          BY <2>1, <2>2
<1>26. ASSUME NEW p \in Pollers, at[p] # NoRecord, Unlock(p) PROVE Accounted(r)
      <2> USE DEF Unlock, Remove, Goto, GotoWith
      <2>1. CASE r # at[p]
            BY <1>26, <2>1, OtherRecord, ConstantsOK DEF TypeOK
      <2>2. CASE r = at[p]
            BY <1>26, <2>2, ConstantsOK, RemovedLock
            DEF Accounted, Calm, Lost, Risky, Sendable, Holds, TypeOK, AtInv
      <2> QED
          BY <2>1, <2>2
<1>27. ASSUME NEW p \in Pollers, PollerDies(p) PROVE Accounted(r)
      <2> USE DEF PollerDies, Mishap, Goto, GotoWith
      <2>1. CASE r # at[p]
            BY <1>27, <2>1, OtherRecord, ConstantsOK DEF TypeOK
      <2>2. CASE r = at[p]
            BY <1>27, <2>2, ConstantsOK
            DEF Accounted, Calm, Lost, Risky, Sendable, Holds, TypeOK, AtInv
      <2> QED
          BY <2>1, <2>2
<1>28. CASE UNCHANGED vars
      BY <1>28, RecordStep DEF vars, TypeOK
<1> QED
    BY <1>1, <1>2, <1>3, <1>4, <1>5, <1>6, <1>7, <1>8, <1>9, <1>10, <1>11, <1>12,
       <1>13, <1>14, <1>15, <1>16, <1>17, <1>18, <1>19, <1>20, <1>21, <1>22, <1>23, <1>24,
       <1>25, <1>26, <1>27, <1>28
    DEF Next, Worker, Supervisor, Deliver

LEMMA Invariance == Spec => []IInv
<1>1. IInv /\ [Next]_vars => IInv'
      BY NextTyped, NextAccounted, AccountedIsCovered DEF IInv, Typed
<1> QED
    BY InitIInv, <1>1, PTL DEF Spec

-----------------------------------------------------------------------------
(* What follows from it *)

\* Records, locks and what each process is about to do keep to their types.
THEOREM TypeCorrect == Spec => []TypeOK
<1>1. IInv => TypeOK
      BY DEF IInv
<1> QED
    BY <1>1, Invariance, PTL

\* A completion is sent once, and once more only for each removal of another's lock,
\* each delivered mark that was not written, and each late write of a producer;
\* however many pollers there are, and wherever they and the workers die.
THEOREM SentOnceTheorem == Spec => []SentOnce
<1>1. IInv => SentOnce
      <2> SUFFICES ASSUME IInv, NEW r \in Records PROVE sent[r] <= 1 + again[r]
          BY DEF SentOnce
      <2>1. Cardinality(Lost(r)) \in Nat /\ Chance(r) \in {0, 1}
            BY FS_CardinalityType DEF IInv, Covered, Chance
      <2> QED
          BY <2>1 DEF IInv, Covered, TypeOK
<1> QED
    BY <1>1, Invariance, PTL

-----------------------------------------------------------------------------
(* Where a text comes from *)

\* Nobody works on the task any more, and nobody will.
Finished(r) == producer[r] = "over" /\ run[r] \in {"none", "done"}

\* A worker that has finished its attempt is not given up, and one that was told that
\* its result is queued was the last; the record has been its own since.
WorkerInv(r) ==
    /\ producer[r] \in {"finishing", "voicing", "voiced", "marking"} => run[r] \in {"none", "done"}
    /\ run[r] = "failing" => producer[r] = "over"
    /\ r \in acked => /\ Finished(r) /\ text[r] = "result"
                      /\ state[r] \in {"ready", "delivered", "gone"}

\* A failure is written, read and sent only for a task that is finished and has not
\* been acknowledged; so is a failure about to be written by the reaper.
FailureInv(r) ==
    /\ text[r] = "failure" => Finished(r) /\ r \notin acked
    /\ \A p \in Pollers : at[p] = r =>
          /\ pc[p] \in {"emit", "check", "mark"} /\ found[p] = "failure" =>
                Finished(r) /\ r \notin acked
          /\ pc[p] \in {"reapclaim", "reapread", "reapwrite"} => Finished(r)
          /\ pc[p] = "reapwrite" => r \notin acked

\* What a record was delivered with has been sent, or could not be written.
EnvelopeInv ==
    /\ \A r \in Records : state[r] = "delivered" => text[r] \in outbox[r] \/ r \in dropped
    /\ \A p \in Pollers : pc[p] \in {"check", "mark"} =>
                             found[p] \in outbox[at[p]] \/ at[p] \in dropped

OriginInv ==
    /\ EnvelopeInv
    /\ \A r \in Records : run[r] = "failing" => r \in givenUp
    /\ \A r \in Records \ Contested : WorkerInv(r) /\ FailureInv(r)

LEMMA InitOrigin == Init => OriginInv
<1> QED
    BY DEF Init, OriginInv, EnvelopeInv, WorkerInv, FailureInv, Finished, Contested

\* No step leaves it, unless the orphan reaper is on: that one cannot tell whether the
\* producer of a record that was never claimed lives.
LEMMA NextOrigin ==
  ASSUME ~OrphanReaper, TypeOK, AtInv, TextInv, OriginInv, [Next]_vars
  PROVE  OriginInv'
<1> USE ConstantsOK
    DEF TypeOK, AtInv, TextInv, OriginInv, EnvelopeInv, WorkerInv, FailureInv,
        Finished, Contested, Work, WriteBack, Goto, GotoWith, onDisk, producing, polling, results
<1>1. ASSUME NEW s \in Records, Register(s) PROVE OriginInv'
      BY <1>1 DEF Register
<1>2. ASSUME NEW s \in Records, ClaimRead(s) PROVE OriginInv'
      BY <1>2 DEF ClaimRead
<1>3. ASSUME NEW s \in Records, ClaimWrite(s) PROVE OriginInv'
      BY <1>3 DEF ClaimWrite
<1>4. ASSUME NEW s \in Records, StartUnclaimed(s) PROVE OriginInv'
      BY <1>4 DEF StartUnclaimed
<1>5. ASSUME NEW s \in Records, FinishAttempt(s) PROVE OriginInv'
      BY <1>5 DEF FinishAttempt
<1>6. ASSUME NEW s \in Records, VoiceRead(s) PROVE OriginInv'
      BY <1>6 DEF VoiceRead, Open
<1>7. ASSUME NEW s \in Records, VoiceWrite(s) PROVE OriginInv'
      BY <1>7 DEF VoiceWrite
<1>8. ASSUME NEW s \in Records, MarkRead(s) PROVE OriginInv'
      BY <1>8 DEF MarkRead, Open
<1>9. ASSUME NEW s \in Records, MarkWrite(s) PROVE OriginInv'
      BY <1>9 DEF MarkWrite
<1>10. ASSUME NEW s \in Records, ProducerDies(s) PROVE OriginInv'
      BY <1>10 DEF ProducerDies, Alive
<1>11. ASSUME NEW s \in Records, Resume(s) PROVE OriginInv'
      BY <1>11 DEF Resume
<1>12. ASSUME NEW s \in Records, GiveUp(s) PROVE OriginInv'
      BY <1>12 DEF GiveUp
<1>13. ASSUME NEW s \in Records, FailWrite(s) PROVE OriginInv'
      BY <1>13 DEF FailWrite
<1>14. ASSUME NEW s \in Records, Prune(s) PROVE OriginInv'
      BY <1>14 DEF Prune, Remove, Present
<1>15. ASSUME NEW s \in Records, LockAges(s) PROVE OriginInv'
      BY <1>15 DEF LockAges
<1>16. ASSUME NEW s \in Records, Purge(s) PROVE OriginInv'
      BY <1>16 DEF Purge, Present
<1>17. ASSUME NEW p \in Pollers, NEW s \in Records, Notice(p, s) PROVE OriginInv'
  <2>1. /\ pc[p] = "idle" /\ at' = [at EXCEPT ![p] = s]
        /\ UNCHANGED <<found, onDisk, producing, results>>
        BY <1>17 DEF Notice
  <2>2. \/ pc' = [pc EXCEPT ![p] = "stat"]
        \/ pc' = [pc EXCEPT ![p] = "reapclaim"] /\ Reapable(s)
        BY <1>17 DEF Notice
  <2>3. Reapable(s) => producer[s] = "over" /\ run[s] \in {"none", "done"}
        BY DEF Reapable
  <2>4. Reapable(s) => Finished(s)
        BY <2>3
  <2>6. EnvelopeInv'
        BY <2>1, <2>2
  <2>7. ASSUME NEW r \in Records \ Contested PROVE (WorkerInv(r) /\ FailureInv(r))'
        BY <2>1, <2>2, <2>4
  <2> QED
      BY <2>1, <2>6, <2>7
<1>18. ASSUME NEW p \in Pollers, at[p] # NoRecord, Stat(p) PROVE OriginInv'
      BY <1>18 DEF Stat
<1>19. ASSUME NEW p \in Pollers, at[p] # NoRecord, Steal(p) PROVE OriginInv'
      BY <1>19 DEF Steal, Remove
<1>20. ASSUME NEW p \in Pollers, at[p] # NoRecord, Claim(p) PROVE OriginInv'
      BY <1>20 DEF Claim, Free
<1>21. ASSUME NEW p \in Pollers, at[p] # NoRecord, Reread(p) PROVE OriginInv'
      BY <1>21 DEF Reread, Texts
<1>22. ASSUME NEW p \in Pollers, at[p] # NoRecord, Emit(p) PROVE OriginInv'
      BY <1>22 DEF Emit
<1>23. ASSUME NEW p \in Pollers, at[p] # NoRecord, Check(p) PROVE OriginInv'
      BY <1>23 DEF Check
<1>24. ASSUME NEW p \in Pollers, at[p] # NoRecord, MarkDelivered(p) PROVE OriginInv'
  <2>1. /\ pc[p] = "mark" /\ pc' = [pc EXCEPT ![p] = "unlock"] /\ UNCHANGED at
        /\ found' = [found EXCEPT ![p] = "none"]
        /\ UNCHANGED <<claimed, lock, producing, results>>
        BY <1>24 DEF MarkDelivered
  <2>2. \/ /\ state' = [state EXCEPT ![at[p]] = "delivered"]
           /\ text' = [text EXCEPT ![at[p]] = found[p]]
        \/ UNCHANGED <<state, text>>
        BY <1>24 DEF MarkDelivered
  <2>3. at[p] \in Records /\ (found[p] \in outbox[at[p]] \/ at[p] \in dropped)
        BY <2>1
  <2>4. found[p] \in Texts
        BY <2>1 DEF Texts
  <2>5. EnvelopeInv'
        BY <2>1, <2>2, <2>3
  <2>6. ASSUME NEW r \in Records \ Contested PROVE WorkerInv(r)'
        BY <2>1, <2>2, <2>3, <2>4 DEF Texts
  <2>7. ASSUME NEW r \in Records \ Contested PROVE FailureInv(r)'
        BY <2>1, <2>2, <2>3, <2>4 DEF Texts
  <2> QED
      BY <2>1, <2>5, <2>6, <2>7
<1>25. ASSUME NEW p \in Pollers, at[p] # NoRecord, ReapWrite(p) PROVE OriginInv'
      BY <1>25 DEF ReapWrite
<1>26. ASSUME NEW p \in Pollers, at[p] # NoRecord, Unlock(p) PROVE OriginInv'
      BY <1>26 DEF Unlock, Remove
<1>27. ASSUME NEW p \in Pollers, PollerDies(p) PROVE OriginInv'
      BY <1>27 DEF PollerDies
<1>28. CASE UNCHANGED vars
      BY <1>28 DEF vars
<1> QED
    BY <1>1, <1>2, <1>3, <1>4, <1>5, <1>6, <1>7, <1>8, <1>9, <1>10, <1>11, <1>12,
       <1>13, <1>14, <1>15, <1>16, <1>17, <1>18, <1>19, <1>20, <1>21, <1>22, <1>23, <1>24,
       <1>25, <1>26, <1>27, <1>28
    DEF Next, Worker, Supervisor, Deliver

\* The result of a worker that was told it is queued is what the user gets, for every
\* order in which workers, the supervisor and the pollers read and write the record.
THEOREM ResultReachesUserTheorem == ~OrphanReaper => (Spec => []ResultReachesUser)
<1> SUFFICES ASSUME ~OrphanReaper PROVE Spec => []ResultReachesUser
    OBVIOUS
<1>1. TypeOK /\ OriginInv => ResultReachesUser
  <2> SUFFICES ASSUME TypeOK, OriginInv, NEW r \in acked \ Contested, state[r] = "delivered"
               PROVE  "result" \in outbox[r] \/ r \in dropped
      BY DEF ResultReachesUser
  <2>1. r \in Records
        BY DEF TypeOK
  <2>2. text[r] = "result"
        BY <2>1 DEF OriginInv, WorkerInv
  <2> QED
      BY <2>1, <2>2 DEF OriginInv, EnvelopeInv
<1>2. IInv /\ OriginInv /\ [Next]_vars => OriginInv'
      BY NextOrigin DEF IInv
<1> QED
    BY <1>1, <1>2, InitOrigin, Invariance, PTL DEF Spec, IInv
=============================================================================
