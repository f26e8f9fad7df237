----------------------- MODULE BridgeDispatch_proofs ------------------------
(***************************************************************************)
(* Proofs about BridgeDispatch for every set of messages, every pool size  *)
(* and every bound: the inductive invariant IInv, the safety properties it *)
(* implies, and that the dispatcher implements ChatInbox as long as no     *)
(* wait outlasts the lock it waits for.                                    *)
(***************************************************************************)
EXTENDS BridgeDispatch, SequenceTheorems, TLAPS

-----------------------------------------------------------------------------
(* The queues of the pools *)

\* The queues of the next state hold a message once.
Distinct ==
  \A q \in Pools : \A i, j \in DOMAIN queue'[q] :
      queue'[q][i] = queue'[q][j] => i = j

\* They hold nothing of m and nothing new.
LeftWithout(m) ==
  \A q \in Pools : \A i \in DOMAIN queue'[q] :
      /\ queue'[q][i] # m
      /\ \E j \in DOMAIN queue[q] : queue'[q][i] = queue[q][j]

\* They hold m in pool p and nothing else that is new.
ExtendedBy(m, p) ==
  \A q \in Pools : \A i \in DOMAIN queue'[q] :
      \/ q = p /\ queue'[q][i] = m
      \/ i \in DOMAIN queue[q] /\ queue'[q][i] = queue[q][i]

\* Taking the first future leaves the others in place, and none of them is of
\* the same message.
LEMMA TakeEffect ==
  ASSUME TypeOK, QueueInv, NEW p \in Pools, NEW m \in Msgs, Take(p, m)
  PROVE  /\ runner[m] = "queued" /\ PoolOf(key[m]) = p
         /\ queue' \in [Pools -> Seq(Msgs)]
         /\ LeftWithout(m) /\ Distinct
<1> USE DEF TypeOK, QueueInv, Take
<1>1. /\ queue[p] \in Seq(Msgs) /\ queue[p] # <<>> /\ m = queue[p][1]
      /\ queue'[p] = Tail(queue[p])
      OBVIOUS
<1>2. /\ Tail(queue[p]) \in Seq(Msgs)
      /\ Len(Tail(queue[p])) = Len(queue[p]) - 1
      /\ \A i \in 1 .. Len(Tail(queue[p])) : Tail(queue[p])[i] = queue[p][i + 1]
      BY <1>1, HeadTailProperties
<1>3. /\ 1 \in DOMAIN queue[p]
      /\ \A i \in DOMAIN queue'[p] : /\ i + 1 \in DOMAIN queue[p] /\ i + 1 # 1
                                     /\ queue'[p][i] = queue[p][i + 1]
      BY <1>1, <1>2
<1>4. runner[m] = "queued" /\ PoolOf(key[m]) = p
      BY <1>1, <1>3
<1>5. queue' \in [Pools -> Seq(Msgs)]
      BY <1>2
<1>6. \A i \in DOMAIN queue'[p] :
         /\ queue'[p][i] # m
         /\ \E j \in DOMAIN queue[p] : queue'[p][i] = queue[p][j]
      BY <1>1, <1>3
<1>7. \A i, j \in DOMAIN queue'[p] : queue'[p][i] = queue'[p][j] => i = j
      <2> SUFFICES ASSUME NEW i \in DOMAIN queue'[p], NEW j \in DOMAIN queue'[p],
                          queue'[p][i] = queue'[p][j]
                   PROVE  i = j
          OBVIOUS
      <2>1. i + 1 = j + 1
            BY <1>3
      <2>2. DOMAIN Tail(queue[p]) = 1 .. Len(Tail(queue[p]))
            BY <1>2, LenProperties
      <2>3. i \in 1 .. Len(Tail(queue[p])) /\ j \in 1 .. Len(Tail(queue[p]))
            BY <2>2, <1>1
      <2> QED
          BY <2>1, <2>3
<1>8. \A q \in Pools : q # p => queue'[q] = queue[q]
      OBVIOUS
<1>9. \A q \in Pools : q # p => \A i \in DOMAIN queue[q] : queue[q][i] # m
      BY <1>4
<1> QED
    <2>1. LeftWithout(m)
          <3> SUFFICES ASSUME NEW q \in Pools, NEW i \in DOMAIN queue'[q]
                       PROVE  /\ queue'[q][i] # m
                              /\ \E j \in DOMAIN queue[q] : queue'[q][i] = queue[q][j]
              BY DEF LeftWithout
          <3>1. CASE q = p
                BY <3>1, <1>6
          <3>2. CASE q # p
                BY <3>2, <1>8, <1>9
          <3> QED
              BY <3>1, <3>2
    <2>2. Distinct
          <3> SUFFICES ASSUME NEW q \in Pools,
                              NEW i \in DOMAIN queue'[q], NEW j \in DOMAIN queue'[q],
                              queue'[q][i] = queue'[q][j]
                       PROVE  i = j
              BY DEF Distinct
          <3>1. CASE q = p
                BY <3>1, <1>7
          <3>2. CASE q # p
                BY <3>2, <1>8
          <3> QED
              BY <3>1, <3>2
    <2> QED
        BY <2>1, <2>2, <1>4, <1>5

\* Appending a message that has no runner keeps the queues' invariant.
LEMMA AppendEffect ==
  ASSUME TypeOK, QueueInv, NEW p \in Pools, NEW m \in Msgs, runner[m] = "none",
         queue' = [queue EXCEPT ![p] = Append(@, m)]
  PROVE  queue' \in [Pools -> Seq(Msgs)] /\ ExtendedBy(m, p) /\ Distinct
<1> USE DEF TypeOK, QueueInv
<1>1. queue[p] \in Seq(Msgs) /\ queue'[p] = Append(queue[p], m)
      OBVIOUS
<1>2. /\ queue'[p] \in Seq(Msgs) /\ Len(queue'[p]) = Len(queue[p]) + 1
      /\ \A i \in 1 .. Len(queue[p]) : queue'[p][i] = queue[p][i]
      /\ queue'[p][Len(queue[p]) + 1] = m
      BY <1>1, AppendProperties
<1>3. /\ DOMAIN queue[p] = 1 .. Len(queue[p])
      /\ DOMAIN queue'[p] = 1 .. Len(queue[p]) + 1
      /\ Len(queue[p]) \in Nat
      BY <1>1, <1>2
<1>4. \A i \in DOMAIN queue'[p] :
         \/ i = Len(queue[p]) + 1 /\ queue'[p][i] = m
         \/ i \in DOMAIN queue[p] /\ queue'[p][i] = queue[p][i]
      BY <1>2, <1>3
<1>5. \A i \in DOMAIN queue[p] : queue[p][i] # m
      OBVIOUS
<1>6. \A i, j \in DOMAIN queue'[p] : queue'[p][i] = queue'[p][j] => i = j
      BY <1>4, <1>5
<1>7. \A q \in Pools : q # p => queue'[q] = queue[q]
      OBVIOUS
<1>8. queue' \in [Pools -> Seq(Msgs)]
      BY <1>2
<1> QED
    BY <1>4, <1>6, <1>7, <1>8 DEF ExtendedBy, Distinct

-----------------------------------------------------------------------------
(* The inductive invariant *)

\* The process starts in the invariant.
LEMMA InitIInv == Init => IInv
<1> SUFFICES ASSUME Init PROVE IInv
    OBVIOUS
<1> USE DEF Init
<1>1. TypeOK
      BY DEF TypeOK, Places, Stages, Keys, Pools
<1>2. QueueInv /\ EntryInv /\ RunnersRegistered
      BY DEF QueueInv, EntryInv, RunnersRegistered
<1>3. KeyInv /\ LockInv /\ BegunInv
      BY DEF KeyInv, LockInv, BegunInv
<1>4. ChatSequential
      BY DEF ChatSequential
<1> QED
    BY <1>1, <1>2, <1>3, <1>4 DEF IInv

\* No step of the dispatcher leaves the invariant.
LEMMA NextIInv == IInv /\ [Next]_vars => IInv'
<1> SUFFICES ASSUME IInv, [Next]_vars PROVE IInv'
    OBVIOUS
<1> USE ConstantsOK DEF IInv, mainVars, lockVars, runnerVars, bounds
<1>1. ASSUME NEW m \in Msgs, Arrive(m) PROVE IInv'
      <2> USE <1>1 DEF Arrive
      <2>1. TypeOK'
            BY DEF TypeOK, Places, Stages, Keys, Pools
      <2>2. QueueInv'
            BY DEF TypeOK, QueueInv, RunnersRegistered, Pools
      <2>3. EntryInv'
            BY DEF TypeOK, EntryInv, IsNext
      <2>4. KeyInv'
            BY DEF TypeOK, KeyInv, RunnersRegistered
      <2>5. LockInv'
            BY DEF TypeOK, LockInv
      <2>6. BegunInv'
            BY DEF TypeOK, KeyInv, BegunInv
      <2>7. RunnersRegistered'
            BY DEF TypeOK, EntryInv, RunnersRegistered
      <2>8. (~LongWaits => ChatSequential)'
            BY DEF TypeOK, LockInv, ChatSequential
      <2> QED
          BY <2>1, <2>2, <2>3, <2>4, <2>5, <2>6, <2>7, <2>8
<1>2. CASE List
      BY <1>2 DEF List, TypeOK, QueueInv, EntryInv, IsNext, KeyInv, LockInv,
                 BegunInv, RunnersRegistered, ChatSequential
<1>3. ASSUME NEW m \in Msgs, Submit(m) PROVE IInv'
      <2> USE <1>3 DEF IsNext, Submittable
      <2>0. runner[m] = "none" /\ phase = "up" /\ main = "next"
            BY DEF RunnersRegistered, Submit
      <2>1. RouteKey(m) \in Keys /\ PoolOf(RouteKey(m)) \in Pools
            BY DEF RouteKey, PoolOf, Keys, Chats, Pools
      <2>2. CASE /\ key' = [key EXCEPT ![m] = RouteKey(m)]
                 /\ queue' = [queue EXCEPT ![PoolOf(RouteKey(m))] = Append(@, m)]
                 /\ runner' = [runner EXCEPT ![m] = "queued"]
                 /\ main' = "attach"
                 /\ UNCHANGED <<listing, faults>>
            <3> USE <2>2, <2>0, <2>1 DEF Submit
            <3>0. /\ queue' \in [Pools -> Seq(Msgs)] /\ Distinct
                  /\ ExtendedBy(m, PoolOf(RouteKey(m)))
                  BY AppendEffect
            <3>1. TypeOK'
                  BY <3>0 DEF TypeOK, Places, Stages
            <3>2. QueueInv'
                  BY <3>0 DEF TypeOK, QueueInv, ExtendedBy, Distinct
            <3>3. EntryInv'
                  BY DEF TypeOK, EntryInv
            <3>4. KeyInv'
                  <4>1. "side" \notin Chats /\ "own" \notin Chats
                        BY DEF Chats
                  <4> QED
                      BY <4>1 DEF TypeOK, KeyInv, RouteKey
            <3>5. LockInv'
                  BY DEF TypeOK, LockInv
            <3>6. BegunInv'
                  BY DEF TypeOK, KeyInv, BegunInv
            <3>7. RunnersRegistered'
                  BY DEF TypeOK, RunnersRegistered
            <3>8. (~LongWaits => ChatSequential)'
                  BY DEF TypeOK, ChatSequential
            <3> QED
                BY <3>1, <3>2, <3>3, <3>4, <3>5, <3>6, <3>7, <3>8
      <2>3. CASE /\ Attempt(FALSE)
                 /\ listing' = {}
                 /\ UNCHANGED <<key, queue, runner, main>>
            <3> USE <2>3, <2>0 DEF Submit, Attempt, MishapLeft
            <3>1. TypeOK'
                  BY DEF TypeOK
            <3>2. QueueInv' /\ EntryInv'
                  BY DEF TypeOK, QueueInv, EntryInv
            <3>3. KeyInv' /\ LockInv'
                  BY DEF TypeOK, KeyInv, LockInv
            <3>4. BegunInv'
                  BY DEF TypeOK, BegunInv
            <3>5. RunnersRegistered' /\ (~LongWaits => ChatSequential)'
                  BY DEF TypeOK, RunnersRegistered, ChatSequential
            <3> QED
                BY <3>1, <3>2, <3>3, <3>4, <3>5
      <2> QED
          BY <2>2, <2>3 DEF Submit, Goto
<1>4. ASSUME NEW m \in Msgs, Skip(m) PROVE IInv'
      <2> USE <1>4 DEF Skip, IsNext, Submittable
      <2>1. TypeOK'
            BY DEF TypeOK
      <2>2. QueueInv' /\ EntryInv'
            BY DEF TypeOK, QueueInv, EntryInv
      <2>3. KeyInv' /\ LockInv'
            BY DEF TypeOK, KeyInv, LockInv
      <2>4. BegunInv'
            BY DEF TypeOK, BegunInv
      <2>5. RunnersRegistered' /\ (~LongWaits => ChatSequential)'
            BY DEF TypeOK, RunnersRegistered, ChatSequential
      <2> QED
          BY <2>1, <2>2, <2>3, <2>4, <2>5
<1>5. ASSUME NEW m \in Msgs, Attach(m) PROVE IInv'
      <2> USE <1>5 DEF Attach, IsNext
      <2>1. TypeOK'
            BY DEF TypeOK, Places, Stages, Keys, Pools
      <2>2. QueueInv'
            BY DEF TypeOK, QueueInv, RunnersRegistered, Pools
      <2>3. EntryInv'
            BY DEF TypeOK, EntryInv
      <2>4. KeyInv'
            BY DEF TypeOK, KeyInv, RunnersRegistered
      <2>5. LockInv'
            BY DEF TypeOK, LockInv
      <2>6. BegunInv'
            BY DEF TypeOK, KeyInv, BegunInv
      <2>7. RunnersRegistered'
            BY DEF TypeOK, EntryInv, RunnersRegistered
      <2>8. (~LongWaits => ChatSequential)'
            BY DEF TypeOK, LockInv, ChatSequential
      <2> QED
          BY <2>1, <2>2, <2>3, <2>4, <2>5, <2>6, <2>7, <2>8
<1>6. ASSUME NEW m \in Msgs, CleanupInFlight(m) PROVE IInv'
      <2> USE <1>6 DEF CleanupInFlight, Reapable
      <2>1. TypeOK'
            BY DEF TypeOK, Places, Stages, Keys, Pools
      <2>2. QueueInv'
            BY DEF TypeOK, QueueInv, RunnersRegistered, Pools
      <2>3. EntryInv'
            BY DEF TypeOK, EntryInv, IsNext
      <2>4. KeyInv'
            BY DEF TypeOK, KeyInv, RunnersRegistered
      <2>5. LockInv'
            BY DEF TypeOK, LockInv
      <2>6. BegunInv'
            BY DEF TypeOK, KeyInv, BegunInv
      <2>7. RunnersRegistered'
            BY DEF TypeOK, EntryInv, RunnersRegistered
      <2>8. (~LongWaits => ChatSequential)'
            BY DEF TypeOK, LockInv, ChatSequential
      <2> QED
          BY <2>1, <2>2, <2>3, <2>4, <2>5, <2>6, <2>7, <2>8
<1>7. ASSUME NEW c \in Chats, CleanupChatLocks(c) PROVE IInv'
      BY <1>7 DEF CleanupChatLocks, MishapLeft, Droppable, Holders, Waiters,
                 TypeOK, QueueInv, EntryInv, IsNext, KeyInv, LockInv, BegunInv,
                 RunnersRegistered, ChatSequential
<1>8. ASSUME NEW m \in Msgs, BeginTurn(m) PROVE IInv'
      <2> USE <1>8 DEF BeginTurn, Goto, Take, Alive
      <2>0. /\ runner[m] = "queued" /\ queue' \in [Pools -> Seq(Msgs)]
            /\ LeftWithout(m) /\ Distinct
            BY TakeEffect DEF Pools
      <2>1. TypeOK'
            <3>1. lockTable[key[m]] \in Nat /\ lockCount[key[m]] \in Nat
                  BY DEF TypeOK
            <3> DEFINE lock == IF lockTable[key[m]] = 0
                               THEN lockCount[key[m]] + 1 ELSE lockTable[key[m]]
            <3>2. lock \in Nat
                  BY <3>1
            <3>3. /\ ref' = [ref EXCEPT ![m] = lock]
                  /\ lockTable' = [lockTable EXCEPT ![key[m]] = lock]
                  /\ lockCount' = [lockCount EXCEPT ![key[m]] =
                                      IF lock > @ THEN lock ELSE @]
                  OBVIOUS
            <3> HIDE DEF lock
            <3>4. /\ ref' \in [Msgs -> Nat]
                  /\ lockTable' \in [Chats -> Nat] /\ lockCount' \in [Chats -> Nat]
                  <4>1. ref' \in [Msgs -> Nat]
                        BY <3>2, <3>3 DEF TypeOK
                  <4>2. lockTable' \in [Chats -> Nat]
                        BY <3>2, <3>3 DEF TypeOK
                  <4>3. lockCount' \in [Chats -> Nat]
                        BY <3>1, <3>2, <3>3 DEF TypeOK
                  <4> QED
                      BY <4>1, <4>2, <4>3
            <3> QED
                BY <2>0, <3>4 DEF TypeOK, Stages
      <2>2. QueueInv'
            <3>1. \A n \in Msgs : n # m => runner'[n] = runner[n]
                  BY DEF TypeOK
            <3>2. key' = key
                  OBVIOUS
            <3> QED
                BY <2>0, <3>1, <3>2 DEF TypeOK, QueueInv, LeftWithout, Distinct
      <2>3. EntryInv'
            BY <2>0 DEF TypeOK, EntryInv, IsNext
      <2>4. KeyInv'
            BY <2>0 DEF TypeOK, KeyInv, RunnersRegistered
      <2>5. LockInv'
            BY <2>0 DEF TypeOK, LockInv
      <2>6. BegunInv'
            BY <2>0 DEF TypeOK, KeyInv, BegunInv
      <2>7. RunnersRegistered'
            BY <2>0 DEF TypeOK, EntryInv, RunnersRegistered
      <2>8. (~LongWaits => ChatSequential)'
            BY <2>0 DEF TypeOK, LockInv, ChatSequential
      <2> QED
          BY <2>1, <2>2, <2>3, <2>4, <2>5, <2>6, <2>7, <2>8
<1>9. ASSUME NEW m \in Msgs, BeginUnlocked(m) PROVE IInv'
      <2> USE <1>9 DEF BeginUnlocked, Goto, BegunBy, Take, Alive
      <2>0. /\ runner[m] = "queued" /\ queue' \in [Pools -> Seq(Msgs)]
            /\ LeftWithout(m) /\ Distinct
            BY TakeEffect DEF Pools
      <2>1. TypeOK'
            <3>1. runner' \in [Msgs -> Stages] /\ begun' \in [Msgs -> Nat]
                  BY DEF TypeOK, Stages
            <3> QED
                BY <2>0, <3>1 DEF TypeOK
      <2>2. QueueInv'
            <3>1. \A n \in Msgs : n # m => runner'[n] = runner[n]
                  BY DEF TypeOK
            <3>2. key' = key
                  OBVIOUS
            <3> QED
                BY <2>0, <3>1, <3>2 DEF TypeOK, QueueInv, LeftWithout, Distinct
      <2>3. EntryInv'
            BY <2>0 DEF TypeOK, EntryInv, IsNext
      <2>4. KeyInv'
            BY <2>0 DEF TypeOK, KeyInv, RunnersRegistered
      <2>5. LockInv'
            BY <2>0 DEF TypeOK, LockInv
      <2>6. BegunInv'
            BY <2>0 DEF TypeOK, KeyInv, BegunInv
      <2>7. RunnersRegistered'
            BY <2>0 DEF TypeOK, EntryInv, RunnersRegistered
      <2>8. (~LongWaits => ChatSequential)'
            BY <2>0 DEF TypeOK, LockInv, ChatSequential
      <2> QED
          BY <2>1, <2>2, <2>3, <2>4, <2>5, <2>6, <2>7, <2>8
<1>10. ASSUME NEW m \in Msgs, AcquireLock(m) PROVE IInv'
      <2> USE <1>10 DEF AcquireLock, LockFree, Goto, BegunBy, Holders
      <2>1. TypeOK'
            <3>1. runner' \in [Msgs -> Stages] /\ begun' \in [Msgs -> Nat]
                  BY DEF TypeOK, Stages
            <3> QED
                BY <3>1 DEF TypeOK
      <2>2. QueueInv'
            BY DEF TypeOK, QueueInv, RunnersRegistered, Pools
      <2>3. EntryInv'
            BY DEF TypeOK, EntryInv, IsNext
      <2>4. KeyInv'
            BY DEF TypeOK, KeyInv, RunnersRegistered
      <2>5. LockInv'
            BY DEF TypeOK, LockInv
      <2>6. BegunInv'
            BY DEF TypeOK, KeyInv, BegunInv
      <2>7. RunnersRegistered'
            BY DEF TypeOK, EntryInv, RunnersRegistered
      <2>8. (~LongWaits => ChatSequential)'
            BY DEF TypeOK, LockInv, ChatSequential
      <2> QED
          BY <2>1, <2>2, <2>3, <2>4, <2>5, <2>6, <2>7, <2>8
<1>11. ASSUME NEW m \in Msgs, ProcessOne(m) PROVE IInv'
      <2> USE <1>11 DEF ProcessOne, Attempt, Goto, MishapLeft
      <2>1. TypeOK'
            <3>1. where' \in [Msgs -> Places]
                  BY DEF TypeOK, Places
            <3>2. runner' \in [Msgs -> Stages] /\ faults' \in Nat
                  BY DEF TypeOK, Stages
            <3> QED
                BY <3>1, <3>2 DEF TypeOK
      <2>2. QueueInv'
            BY DEF TypeOK, QueueInv, RunnersRegistered, Pools
      <2>3. EntryInv'
            BY DEF TypeOK, EntryInv, IsNext
      <2>4. KeyInv'
            BY DEF TypeOK, KeyInv, RunnersRegistered
      <2>5. LockInv'
            BY DEF TypeOK, LockInv
      <2>6. BegunInv'
            BY DEF TypeOK, KeyInv, BegunInv
      <2>7. RunnersRegistered'
            BY DEF TypeOK, EntryInv, RunnersRegistered
      <2>8. (~LongWaits => ChatSequential)'
            BY DEF TypeOK, LockInv, ChatSequential
      <2> QED
          BY <2>1, <2>2, <2>3, <2>4, <2>5, <2>6, <2>7, <2>8
<1>12. ASSUME NEW m \in Msgs, ProcessOneRaises(m) PROVE IInv'
      <2> USE <1>12 DEF ProcessOneRaises, Goto
      <2>1. TypeOK'
            BY DEF TypeOK, Places, Stages, Keys, Pools
      <2>2. QueueInv'
            BY DEF TypeOK, QueueInv, RunnersRegistered, Pools
      <2>3. EntryInv'
            BY DEF TypeOK, EntryInv, IsNext
      <2>4. KeyInv'
            BY DEF TypeOK, KeyInv, RunnersRegistered
      <2>5. LockInv'
            BY DEF TypeOK, LockInv
      <2>6. BegunInv'
            BY DEF TypeOK, KeyInv, BegunInv
      <2>7. RunnersRegistered'
            BY DEF TypeOK, EntryInv, RunnersRegistered
      <2>8. (~LongWaits => ChatSequential)'
            BY DEF TypeOK, LockInv, ChatSequential
      <2> QED
          BY <2>1, <2>2, <2>3, <2>4, <2>5, <2>6, <2>7, <2>8
<1>13. ASSUME NEW m \in Msgs, QuarantinePoison(m) PROVE IInv'
      <2> USE <1>13 DEF QuarantinePoison, Attempt, Goto, MishapLeft
      <2>1. TypeOK'
            BY SMTT(30) DEF TypeOK, Places, Stages, Keys, Pools
      <2>2. QueueInv'
            BY DEF TypeOK, QueueInv, RunnersRegistered, Pools
      <2>3. EntryInv'
            BY DEF TypeOK, EntryInv, IsNext
      <2>4. KeyInv'
            BY DEF TypeOK, KeyInv, RunnersRegistered
      <2>5. LockInv'
            BY DEF TypeOK, LockInv
      <2>6. BegunInv'
            BY DEF TypeOK, KeyInv, BegunInv
      <2>7. RunnersRegistered'
            BY DEF TypeOK, EntryInv, RunnersRegistered
      <2>8. (~LongWaits => ChatSequential)'
            BY DEF TypeOK, LockInv, ChatSequential
      <2> QED
          BY <2>1, <2>2, <2>3, <2>4, <2>5, <2>6, <2>7, <2>8
<1>14. ASSUME NEW m \in Msgs, Quarantine(m) PROVE IInv'
      <2> USE <1>14 DEF Quarantine, Attempt, Goto, MishapLeft
      <2>1. TypeOK'
            BY DEF TypeOK, Places, Stages, Keys, Pools
      <2>2. QueueInv'
            BY DEF TypeOK, QueueInv, RunnersRegistered, Pools
      <2>3. EntryInv'
            BY DEF TypeOK, EntryInv, IsNext
      <2>4. KeyInv'
            BY DEF TypeOK, KeyInv, RunnersRegistered
      <2>5. LockInv'
            BY DEF TypeOK, LockInv
      <2>6. BegunInv'
            BY DEF TypeOK, KeyInv, BegunInv
      <2>7. RunnersRegistered'
            BY DEF TypeOK, EntryInv, RunnersRegistered
      <2>8. (~LongWaits => ChatSequential)'
            BY DEF TypeOK, LockInv, ChatSequential
      <2> QED
          BY <2>1, <2>2, <2>3, <2>4, <2>5, <2>6, <2>7, <2>8
<1>15. ASSUME NEW m \in Msgs, Leave(m) PROVE IInv'
      <2> USE <1>15 DEF Leave, Goto
      <2>1. TypeOK'
            BY DEF TypeOK, Places, Stages, Keys, Pools
      <2>2. QueueInv'
            BY DEF TypeOK, QueueInv, RunnersRegistered, Pools
      <2>3. EntryInv'
            BY DEF TypeOK, EntryInv, IsNext
      <2>4. KeyInv'
            BY DEF TypeOK, KeyInv, RunnersRegistered
      <2>5. LockInv'
            BY DEF TypeOK, LockInv
      <2>6. BegunInv'
            BY DEF TypeOK, KeyInv, BegunInv
      <2>7. RunnersRegistered'
            BY DEF TypeOK, EntryInv, RunnersRegistered
      <2>8. (~LongWaits => ChatSequential)'
            BY DEF TypeOK, LockInv, ChatSequential
      <2> QED
          BY <2>1, <2>2, <2>3, <2>4, <2>5, <2>6, <2>7, <2>8
<1>16. CASE Terminate
      BY <1>16 DEF Terminate, MishapLeft, TypeOK, QueueInv, EntryInv, IsNext,
                 KeyInv, LockInv, BegunInv, RunnersRegistered, ChatSequential
<1>17. CASE DrainComplete
      <2> USE <1>17 DEF DrainComplete, Die, Drained
      <2>1. TypeOK'
            BY DEF TypeOK, Places, Stages, Keys, Pools
      <2>2. QueueInv'
            BY DEF TypeOK, QueueInv, RunnersRegistered, Pools
      <2>3. EntryInv'
            BY DEF TypeOK, EntryInv, IsNext
      <2>4. KeyInv'
            BY DEF TypeOK, KeyInv, RunnersRegistered
      <2>5. LockInv'
            BY DEF TypeOK, LockInv
      <2>6. BegunInv'
            BY DEF TypeOK, KeyInv, BegunInv, RunnersRegistered
      <2>7. RunnersRegistered'
            BY DEF TypeOK, EntryInv, RunnersRegistered
      <2>8. (~LongWaits => ChatSequential)'
            BY DEF TypeOK, LockInv, ChatSequential
      <2> QED
          BY <2>1, <2>2, <2>3, <2>4, <2>5, <2>6, <2>7, <2>8
<1>18. CASE DrainTimeout
      <2> USE <1>18 DEF DrainTimeout, Die, Drained
      <2>1. TypeOK'
            BY DEF TypeOK, Places, Stages, Keys, Pools
      <2>2. QueueInv'
            BY DEF TypeOK, QueueInv, RunnersRegistered, Pools
      <2>3. EntryInv'
            BY DEF TypeOK, EntryInv, IsNext
      <2>4. KeyInv'
            BY DEF TypeOK, KeyInv, RunnersRegistered
      <2>5. LockInv'
            BY DEF TypeOK, LockInv
      <2>6. BegunInv'
            BY DEF TypeOK, KeyInv, BegunInv
      <2>7. RunnersRegistered'
            BY DEF TypeOK, EntryInv, RunnersRegistered
      <2>8. (~LongWaits => ChatSequential)'
            BY DEF TypeOK, LockInv, ChatSequential
      <2> QED
          BY <2>1, <2>2, <2>3, <2>4, <2>5, <2>6, <2>7, <2>8
<1>19. CASE Interrupt
      <2> USE <1>19 DEF Interrupt, MishapLeft
      <2>1. TypeOK'
            BY DEF TypeOK, Places, Stages, Keys, Pools
      <2>2. QueueInv'
            BY DEF TypeOK, QueueInv, RunnersRegistered, Pools
      <2>3. EntryInv'
            BY DEF TypeOK, EntryInv, IsNext
      <2>4. KeyInv'
            BY DEF TypeOK, KeyInv, RunnersRegistered
      <2>5. LockInv'
            BY DEF TypeOK, LockInv
      <2>6. BegunInv'
            BY DEF TypeOK, KeyInv, BegunInv
      <2>7. RunnersRegistered'
            BY DEF TypeOK, EntryInv, RunnersRegistered
      <2>8. (~LongWaits => ChatSequential)'
            BY DEF TypeOK, LockInv, ChatSequential
      <2> QED
          BY <2>1, <2>2, <2>3, <2>4, <2>5, <2>6, <2>7, <2>8
<1>20. CASE Joined
      <2> USE <1>20 DEF Joined, Die
      <2>1. TypeOK'
            BY DEF TypeOK, Places, Stages, Keys, Pools
      <2>2. QueueInv'
            BY DEF TypeOK, QueueInv, RunnersRegistered, Pools
      <2>3. EntryInv'
            BY DEF TypeOK, EntryInv, IsNext
      <2>4. KeyInv'
            BY DEF TypeOK, KeyInv, RunnersRegistered
      <2>5. LockInv'
            BY DEF TypeOK, LockInv
      <2>6. BegunInv'
            BY DEF TypeOK, KeyInv, BegunInv
      <2>7. RunnersRegistered'
            BY DEF TypeOK, EntryInv, RunnersRegistered
      <2>8. (~LongWaits => ChatSequential)'
            BY DEF TypeOK, LockInv, ChatSequential
      <2> QED
          BY <2>1, <2>2, <2>3, <2>4, <2>5, <2>6, <2>7, <2>8
<1>21. CASE Kill
      <2> USE <1>21 DEF Kill, MishapLeft, Die, Alive
      <2>1. TypeOK'
            BY DEF TypeOK, Places, Stages, Keys, Pools
      <2>2. QueueInv'
            BY DEF TypeOK, QueueInv, RunnersRegistered, Pools
      <2>3. EntryInv'
            BY DEF TypeOK, EntryInv, IsNext
      <2>4. KeyInv'
            BY DEF TypeOK, KeyInv, RunnersRegistered
      <2>5. LockInv'
            BY DEF TypeOK, LockInv
      <2>6. BegunInv'
            BY DEF TypeOK, KeyInv, BegunInv
      <2>7. RunnersRegistered'
            BY DEF TypeOK, EntryInv, RunnersRegistered
      <2>8. (~LongWaits => ChatSequential)'
            BY DEF TypeOK, LockInv, ChatSequential
      <2> QED
          BY <2>1, <2>2, <2>3, <2>4, <2>5, <2>6, <2>7, <2>8
<1>22. CASE Boot
      <2> USE <1>22 DEF Boot
      <2>1. TypeOK'
            BY DEF TypeOK, Places, Stages, Keys, Pools
      <2>2. QueueInv'
            BY DEF TypeOK, QueueInv, RunnersRegistered, Pools
      <2>3. EntryInv'
            BY DEF TypeOK, EntryInv, IsNext
      <2>4. KeyInv'
            BY DEF TypeOK, KeyInv, RunnersRegistered
      <2>5. LockInv'
            BY DEF TypeOK, LockInv
      <2>6. BegunInv'
            BY DEF TypeOK, KeyInv, BegunInv
      <2>7. RunnersRegistered'
            BY DEF TypeOK, EntryInv, RunnersRegistered
      <2>8. (~LongWaits => ChatSequential)'
            BY DEF TypeOK, LockInv, ChatSequential
      <2> QED
          BY <2>1, <2>2, <2>3, <2>4, <2>5, <2>6, <2>7, <2>8
<1>23. CASE UNCHANGED vars
      BY <1>23 DEF vars, TypeOK, QueueInv, EntryInv, IsNext, KeyInv, LockInv,
                 BegunInv, RunnersRegistered, ChatSequential
<1> QED
    BY <1>1, <1>2, <1>3, <1>4, <1>5, <1>6, <1>7, <1>8, <1>9, <1>10, <1>11,
       <1>12, <1>13, <1>14, <1>15, <1>16, <1>17, <1>18, <1>19, <1>20, <1>21,
       <1>22, <1>23
    DEF Next, MainLoop, Begin, Handle, Finish

\* IInv holds in every reachable state.
THEOREM Invariance == Spec => []IInv
<1>1. IInv /\ [Next]_vars => IInv'
      BY NextIInv
<1> QED
    BY InitIInv, <1>1, PTL DEF Spec

-----------------------------------------------------------------------------
(* The safety properties *)

\* The variables keep their types.
THEOREM TypeCorrect == Spec => []TypeOK
<1>1. IInv => TypeOK
      BY DEF IInv
<1> QED
    BY Invariance, <1>1, PTL

\* The poll loop never submits a message that has a live runner.
THEOREM LiveRunnersAreRegistered == Spec => []RunnersRegistered
<1>1. IInv => RunnersRegistered
      BY DEF IInv
<1> QED
    BY Invariance, <1>1, PTL

\* A message is taken up at most once more than the process died or a file
\* operation failed.
THEOREM MessagesAreTakenUpOnce == Spec => []TakenUpOnce
<1>1. IInv => TakenUpOnce
      BY DEF IInv, BegunInv, TakenUpOnce
<1> QED
    BY Invariance, <1>1, PTL

\* The turns of a chat are sequential if no wait outlasts the idle time after
\* which a lock is dropped.
THEOREM TurnsAreSequential == ~LongWaits => (Spec => []ChatSequential)
<1> SUFFICES ASSUME ~LongWaits PROVE Spec => []ChatSequential
    OBVIOUS
<1>1. IInv => ChatSequential
      BY DEF IInv
<1> QED
    BY Invariance, <1>1, PTL

-----------------------------------------------------------------------------
(* The dispatcher implements the inbox *)

\* The dispatcher starts with an empty inbox that handles nothing.
LEMMA InitInbox == Init => Inbox!Init
  BY DEF Init, Handled, Inbox!Init

\* While no wait is long, a step of the dispatcher is a step of the inbox or
\* leaves it alone.
LEMMA StepInbox ==
  ASSUME ~LongWaits, IInv, [Next]_vars
  PROVE  Inbox!Next \/ UNCHANGED <<where, Handled>>
<1> USE ConstantsOK DEF IInv, TypeOK, mainVars, lockVars, runnerVars, bounds, Handled
<1>0. "side" \notin Chats /\ "own" \notin Chats
      BY DEF Chats
<1>1. ASSUME NEW m \in Msgs, Arrive(m) PROVE Inbox!Arrive(m)
      BY <1>1 DEF Arrive, Inbox!Arrive
<1>2. ASSUME NEW m \in Msgs, Submit(m) PROVE UNCHANGED <<where, Handled>>
      <2>1. runner[m] = "none"
            BY <1>2 DEF Submit, Submittable, RunnersRegistered
      <2>2. UNCHANGED where
            BY <1>2 DEF Submit
      <2>3. /\ \A n \in Msgs : n # m => runner'[n] = runner[n] /\ key'[n] = key[n]
            /\ runner'[m] \in {"none", "queued"}
            BY <1>2, <2>1 DEF Submit, Goto
      <2> QED
          BY <2>1, <2>2, <2>3
<1>3. ASSUME NEW m \in Msgs, BeginTurn(m) PROVE UNCHANGED <<where, Handled>>
      <2>1. runner[m] = "queued"
            BY <1>3, TakeEffect DEF BeginTurn, Pools
      <2> QED
          BY <1>3, <2>1 DEF BeginTurn, Goto
<1>4. ASSUME NEW m \in Msgs, BeginUnlocked(m)
      PROVE  Inbox!Begin(m) \/ UNCHANGED <<where, Handled>>
      <2>1. runner[m] = "queued" /\ UNCHANGED <<where, key>>
            BY <1>4, TakeEffect DEF BeginUnlocked
      <2>2. CASE key[m] = "own"
            BY <1>4, <2>1, <2>2 DEF BeginUnlocked, Goto
      <2>3. CASE key[m] = "side"
            <3>1. m \in SideMsgs /\ where[m] = "inbox"
                  BY <2>1, <2>3 DEF KeyInv
            <3>2. m \notin Handled /\ Handled' = Handled \cup {m}
                  BY <1>4, <2>1, <2>3 DEF BeginUnlocked, Goto
            <3> QED
                BY <2>1, <3>1, <3>2 DEF Inbox!Begin
      <2> QED
          BY <1>4, <2>2, <2>3 DEF BeginUnlocked, Keys
<1>5. ASSUME NEW m \in Msgs, AcquireLock(m) PROVE Inbox!Begin(m)
      <2>1. /\ key[m] \in Chats /\ key[m] = ChatOf[m] /\ where[m] = "inbox"
            /\ ref[m] = lockTable[key[m]]
            BY <1>0, <1>5 DEF AcquireLock, KeyInv, LockInv
      <2>2. m \notin Handled /\ Handled' = Handled \cup {m} /\ UNCHANGED where
            BY <1>0, <1>5, <2>1 DEF AcquireLock, Goto
      <2>3. ASSUME NEW n \in Handled \ SideMsgs PROVE ChatOf[n] # ChatOf[m]
            <3>1. key[n] \in Chats /\ key[n] = ChatOf[n] /\ ref[n] = lockTable[key[n]]
                  BY <2>3 DEF KeyInv, LockInv, Keys
            <3> QED
                BY <1>5, <2>1, <3>1 DEF AcquireLock, LockFree, Holders
      <2> QED
          BY <2>1, <2>2, <2>3 DEF Inbox!Begin
<1>6. ASSUME NEW m \in Msgs, ProcessOne(m) PROVE Inbox!End(m)
      <2>1. key[m] # "own"
            BY <1>6 DEF ProcessOne, KeyInv
      <2>2. m \in Handled /\ Handled' = Handled \ {m}
            BY <1>6, <2>1 DEF ProcessOne, Goto
      <2>3. UNCHANGED where \/ \E to \in Inbox!Left : where' = [where EXCEPT ![m] = to]
            BY <1>6 DEF ProcessOne, Inbox!Left
      <2> QED
          BY <2>2, <2>3 DEF Inbox!End
<1>7. ASSUME NEW m \in Msgs, ProcessOneRaises(m)
      PROVE  Inbox!End(m) \/ UNCHANGED <<where, Handled>>
      <2>1. UNCHANGED where /\ Handled' = Handled \ {m}
            BY <1>7 DEF ProcessOneRaises, Goto
      <2> QED
          BY <2>1 DEF Inbox!End
<1>8. ASSUME NEW m \in Msgs, QuarantinePoison(m)
      PROVE  Inbox!SetAside(m) \/ UNCHANGED <<where, Handled>>
      <2>1. m \notin Handled /\ UNCHANGED Handled
            BY <1>8 DEF QuarantinePoison, Goto, KeyInv
      <2> QED
          BY <1>8, <2>1 DEF QuarantinePoison, Inbox!SetAside
<1>9. ASSUME NEW m \in Msgs, Quarantine(m)
      PROVE  Inbox!SetAside(m) \/ UNCHANGED <<where, Handled>>
      <2>1. m \notin Handled /\ UNCHANGED Handled
            BY <1>9 DEF Quarantine, Goto
      <2> QED
          BY <1>9, <2>1 DEF Quarantine, Inbox!SetAside
<1>10. ASSUME NEW m \in Msgs, Leave(m) PROVE UNCHANGED <<where, Handled>>
      BY <1>10 DEF Leave, Goto
<1>11. ASSUME NEW m \in Msgs, Skip(m) \/ Attach(m) \/ CleanupInFlight(m)
       PROVE  UNCHANGED <<where, Handled>>
      BY <1>11 DEF Skip, Attach, CleanupInFlight
<1>12. ASSUME NEW c \in Chats, CleanupChatLocks(c) PROVE UNCHANGED <<where, Handled>>
      BY <1>12 DEF CleanupChatLocks
<1>13. CASE List \/ Terminate \/ Boot
      BY <1>13 DEF List, Terminate, Boot
<1>14. CASE DrainComplete \/ DrainTimeout \/ Joined \/ Kill
      <2>1. Die
            BY <1>14 DEF DrainComplete, DrainTimeout, Joined, Kill
      <2> QED
          BY <2>1 DEF Die, Inbox!Die, Inbox!Next
<1>15. CASE Interrupt
      BY <1>15 DEF Interrupt
<1>16. CASE UNCHANGED vars
      BY <1>16 DEF vars
<1> QED
    BY <1>1, <1>2, <1>3, <1>4, <1>5, <1>6, <1>7, <1>8, <1>9, <1>10, <1>11, <1>12,
       <1>13, <1>14, <1>15, <1>16
    DEF Next, MainLoop, Begin, Handle, Finish, Inbox!Next

\* As long as no wait outlasts its lock, the dispatcher implements the inbox:
\* a message is handled while its envelope lies there, one per chat at a time,
\* and never again once the envelope has left.
THEOREM DispatchImplementsInbox == ~LongWaits => (Spec => ImplementsChatInbox)
<1> SUFFICES ASSUME ~LongWaits PROVE Spec => ImplementsChatInbox
    OBVIOUS
<1>1. IInv /\ [Next]_vars => [Inbox!Next]_<<where, Handled>>
      BY StepInbox
<1> QED
    BY Invariance, InitInbox, <1>1, PTL DEF Spec, ImplementsChatInbox, Inbox!Spec
=============================================================================
