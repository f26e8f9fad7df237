------------------------- MODULE GatewayRuns_proofs -------------------------
(***************************************************************************)
(* Proofs about GatewayRuns for every set of runs and every bound: the     *)
(* inductive invariant IInv, the safety properties it implies, and that    *)
(* the dispatcher implements RunLifecycle.                                 *)
(***************************************************************************)
EXTENDS GatewayRuns, TLAPS

\* The process starts in the invariant.
LEMMA InitIInv == Init => IInv
<1> SUFFICES ASSUME Init PROVE IInv
    OBVIOUS
<1> USE DEF Init, Terminal, Active
<1>1. TypeOK
      BY DEF TypeOK, Statuses, Stages, Phases
<1>2. LoopInv
      BY ConstantsOK DEF LoopInv, InSlice
<1>3. StageInv
      BY DEF StageInv, Driving
<1>4. HookInv
      BY ConstantsOK DEF HookInv
<1>5. EngineAtMostOnce /\ RunningHasDriver /\ ActiveRunsQueued
      BY DEF EngineAtMostOnce, RunningHasDriver, ActiveRunsQueued
<1> QED
    BY <1>1, <1>2, <1>3, <1>4, <1>5 DEF IInv

\* No step of the dispatcher leaves the invariant.
LEMMA NextIInv == IInv /\ [Next]_vars => IInv'
<1> SUFFICES ASSUME IInv, [Next]_vars PROVE IInv'
    OBVIOUS
<1> USE ConstantsOK DEF IInv, TypeOK, LoopInv, StageInv, HookInv, EngineAtMostOnce,
         RunningHasDriver, ActiveRunsQueued, Statuses, Stages, Phases, Terminal,
         Active, InSlice, Driving, Await, Settle, QueueCall, Resumed, Alive,
         disk, process, history, bounds
<1>1. ASSUME NEW r \in Runs, Create(r) PROVE IInv'
      BY <1>1 DEF Create
<1>2. ASSUME NEW r \in Runs, Submit(r) PROVE IInv'
      BY <1>2 DEF Submit
<1>3. ASSUME NEW r \in Runs, StartRun(r) PROVE IInv'
      BY <1>3 DEF StartRun, Startable
<1>4. ASSUME NEW r \in Runs, GateReturns(r) PROVE IInv'
      BY <1>4 DEF GateReturns
<1>5. ASSUME NEW r \in Runs, MeterReturns(r) PROVE IInv'
      BY <1>5 DEF MeterReturns
<1>6. ASSUME NEW r \in Runs, EngineReturns(r) PROVE IInv'
      BY <1>6 DEF EngineReturns
<1>7. ASSUME NEW r \in Runs, CancelEarly(r) PROVE IInv'
      BY <1>7 DEF CancelEarly
<1>8. ASSUME NEW r \in Runs, CancelEngine(r) PROVE IInv'
      BY <1>8 DEF CancelEngine
<1>9. ASSUME NEW r \in Runs, WriteTerminal(r) PROVE IInv'
      BY <1>9, SMTT(30) DEF WriteTerminal, Settable
<1>10. ASSUME NEW r \in Runs, Dequeue(r) PROVE IInv'
      BY <1>10 DEF Dequeue, RowsWithout
<1>11. ASSUME NEW r \in Runs, Notify(r) PROVE IInv'
      BY <1>11 DEF Notify, Notifiable
<1>12. ASSUME NEW r \in Runs, HookBlocked(r) PROVE IInv'
      BY <1>12 DEF HookBlocked
<1>13. ASSUME NEW r \in Runs, HookPost(r) PROVE IInv'
      BY <1>13 DEF HookPost, AttemptLeft
<1>14. ASSUME NEW r \in Runs, LoseRecord(r) PROVE IInv'
      BY <1>14 DEF LoseRecord
<1>15. CASE Shutdown
      BY <1>15 DEF Shutdown
<1>16. CASE DrainRuns
      BY <1>16 DEF DrainRuns, InFlight, Posting
<1>17. CASE DrainHooks
      BY <1>17 DEF DrainHooks, InFlight
<1>18. CASE Exit
      BY <1>18 DEF Exit, InFlight
<1>19. CASE Crash
      BY <1>19 DEF Crash, InFlight
<1>20. CASE Boot
      BY <1>20 DEF Boot, Swept
<1>21. CASE UNCHANGED vars
      BY <1>21 DEF vars
<1> QED
    BY <1>1, <1>2, <1>3, <1>4, <1>5, <1>6, <1>7, <1>8, <1>9, <1>10, <1>11, <1>12,
       <1>13, <1>14, <1>15, <1>16, <1>17, <1>18, <1>19, <1>20, <1>21
    DEF Next, RunOne

\* IInv holds in every reachable state.
THEOREM Invariance == Spec => []IInv
<1>1. IInv /\ [Next]_vars => IInv'
      BY NextIInv
<1> QED
    BY InitIInv, <1>1, PTL DEF Spec

\* The variables keep their types.
THEOREM TypeCorrect == Spec => []TypeOK
<1>1. IInv => TypeOK
      BY DEF IInv
<1> QED
    BY Invariance, <1>1, PTL

\* The engine of a run is spawned, and its unit charged, at most once over any
\* number of crashes and restarts.
THEOREM EngineSpawnedAtMostOnce == Spec => []EngineAtMostOnce
<1>1. IInv => EngineAtMostOnce
      BY DEF IInv
<1> QED
    BY Invariance, <1>1, PTL

\* A run's webhook makes at most 1 + MaxRetries POSTs, after the run's end.
THEOREM WebhookIsBounded == Spec => []WebhookBounded
<1>1. IInv => WebhookBounded
      BY ConstantsOK DEF IInv, TypeOK, HookInv, WebhookBounded
<1> QED
    BY Invariance, <1>1, PTL

\* A run that has not ended keeps its row, if it ever got one.
THEOREM RecoveryFindsActiveRuns == Spec => []ActiveRunsQueued
<1>1. IInv => ActiveRunsQueued
      BY DEF IInv
<1> QED
    BY Invariance, <1>1, PTL

\* A running run has a task that ends it, unless that task was killed.
THEOREM RunningRunsAreDriven == Spec => []RunningHasDriver
<1>1. IInv => RunningHasDriver
      BY DEF IInv
<1> QED
    BY Invariance, <1>1, PTL

-----------------------------------------------------------------------------
(* GatewayRuns implements RunLifecycle: the mapping is the identity on the  *)
(* variables the two share.                                                *)

\* An initial state of the dispatcher is one of the life cycle.
LEMMA InitLifecycle == Init => Lifecycle!Init
  BY DEF Init, Lifecycle!Init

\* A step of the dispatcher is a step of the life cycle or leaves it alone.
LEMMA StepLifecycle == IInv /\ [Next]_vars => [Lifecycle!Next]_(Lifecycle!vars)
<1> SUFFICES ASSUME IInv, [Next]_vars
             PROVE  Lifecycle!Next \/ UNCHANGED Lifecycle!vars
    OBVIOUS
<1> USE DEF IInv, TypeOK, disk, process, history, bounds, Terminal, Active,
        Statuses, Lifecycle!vars, Lifecycle!Move, Lifecycle!Terminal, Lifecycle!Active
<1>1. ASSUME NEW r \in Runs, Create(r) PROVE Lifecycle!Accept(r)
      BY <1>1 DEF Create, Lifecycle!Accept
<1>2. ASSUME NEW r \in Runs, StartRun(r)
      PROVE  Lifecycle!Start(r) \/ UNCHANGED Lifecycle!vars
      BY <1>2 DEF StartRun, Startable, Lifecycle!Start
<1>3. ASSUME NEW r \in Runs, MeterReturns(r)
      PROVE  Lifecycle!Spawn(r) \/ UNCHANGED Lifecycle!vars
      BY <1>3 DEF MeterReturns, Resumed, StageInv, Lifecycle!Spawn
<1>4. ASSUME NEW r \in Runs, WriteTerminal(r)
      PROVE  Lifecycle!Finish(r) \/ UNCHANGED Lifecycle!vars
      BY <1>4 DEF WriteTerminal, Settable, StageInv, Lifecycle!Finish
<1>5. ASSUME NEW r \in Runs, Notify(r)
      PROVE  Lifecycle!Fire(r) \/ UNCHANGED Lifecycle!vars
      BY <1>5 DEF Notify, Notifiable, StageInv, Driving, Lifecycle!Fire
<1>6. ASSUME NEW r \in Runs, LoseRecord(r) PROVE Lifecycle!Vanish(r)
      BY <1>6 DEF LoseRecord, Lifecycle!Vanish
<1>7. ASSUME NEW r \in Runs,
             \/ Submit(r) \/ GateReturns(r) \/ EngineReturns(r) \/ CancelEarly(r)
             \/ CancelEngine(r) \/ Dequeue(r) \/ HookBlocked(r) \/ HookPost(r)
      PROVE  UNCHANGED Lifecycle!vars
      BY <1>7 DEF Submit, GateReturns, EngineReturns, CancelEarly, CancelEngine,
                  Dequeue, HookBlocked, HookPost
<1>8. CASE Shutdown \/ DrainRuns \/ DrainHooks \/ Exit \/ Crash \/ Boot
      BY <1>8 DEF Shutdown, DrainRuns, DrainHooks, Exit, Crash, Boot
<1>9. CASE UNCHANGED vars
      BY <1>9 DEF vars
<1> QED
    BY <1>1, <1>2, <1>3, <1>4, <1>5, <1>6, <1>7, <1>8, <1>9
    DEF Next, RunOne, Lifecycle!Next

\* The dispatcher implements the abstract life cycle of a run.
THEOREM GatewayImplementsLifecycle == Spec => ImplementsRunLifecycle
<1>1. IInv /\ [Next]_vars => [Lifecycle!Next]_(Lifecycle!vars)
      BY StepLifecycle
<1> QED
    BY Invariance, InitLifecycle, <1>1, PTL DEF Spec, ImplementsRunLifecycle, Lifecycle!Spec
=============================================================================
