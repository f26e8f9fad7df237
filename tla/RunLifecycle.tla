---------------------------- MODULE RunLifecycle ----------------------------
(***************************************************************************)
(* What the gateway promises about a run, without its processes, its queue *)
(* or its crashes: the status of a run follows the state machine drawn at  *)
(* the head of runs.py, its engine is spawned at most once, and its        *)
(* webhook is started at most once, after the run has ended.               *)
(*                                                                         *)
(* GatewayRuns implements this specification (GatewayRuns!Lifecycle).      *)
(***************************************************************************)
EXTENDS Naturals

CONSTANT Runs            \* the run ids

VARIABLES status,        \* the status of each run's record
          spawns,        \* how often each run's engine was spawned
          fired          \* how often each run's webhook was started

vars == <<status, spawns, fired>>

Terminal == {"completed", "failed", "budget_exceeded"}
Active   == {"accepted", "running"}

Init ==
    /\ status = [r \in Runs |-> "none"]
    /\ spawns = [r \in Runs |-> 0]
    /\ fired  = [r \in Runs |-> 0]

\* The record moves from one of the statuses `from` to `to`.
Move(r, from, to) ==
    /\ status[r] \in from
    /\ status' = [status EXCEPT ![r] = to]
    /\ UNCHANGED <<spawns, fired>>

Accept(r) == Move(r, {"none"}, "accepted")
Start(r)  == Move(r, {"accepted"}, "running")
Finish(r) == \E v \in Terminal : Move(r, {"running"}, v)

\* The record is removed or damaged from outside.
Vanish(r) == Move(r, Active \cup Terminal, "gone")

Spawn(r) ==
    /\ status[r] \in {"running", "gone"}
    /\ spawns[r] = 0
    /\ spawns' = [spawns EXCEPT ![r] = 1]
    /\ UNCHANGED <<status, fired>>

Fire(r) ==
    /\ status[r] \in Terminal
    /\ fired[r] = 0
    /\ fired' = [fired EXCEPT ![r] = 1]
    /\ UNCHANGED <<status, spawns>>

Next == \E r \in Runs :
            Accept(r) \/ Start(r) \/ Finish(r) \/ Vanish(r) \/ Spawn(r) \/ Fire(r)

Spec == Init /\ [][Next]_vars
=============================================================================
