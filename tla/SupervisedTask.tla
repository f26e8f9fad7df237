--------------------------- MODULE SupervisedTask ---------------------------
(***************************************************************************)
(* What the supervisor promises of a background task: a worker is launched *)
(* only when none lives, within the budget of attempts, and not for a task *)
(* whose result is queued; a result is queued by a worker that is done     *)
(* with it, and a report of failure takes its place only if the decision   *)
(* to give up was already out of date.  A slip voids the promise, but for  *)
(* what has been delivered: nothing is added to that.                      *)
(***************************************************************************)
EXTENDS Naturals

CONSTANT MaxAttempts   \* workers that may be launched for the task

VARIABLES launches,    \* workers launched
          live,        \* one of them lives
          answer,      \* what is queued for the user
          outdated,    \* somebody who gives up has decided on an old record
          slipped

Answers == {"pending", "result", "failure", "closed"}

Init ==
    /\ launches = 1 /\ live = TRUE
    /\ answer = "pending"
    /\ outdated = FALSE /\ slipped = FALSE

\* What is queued, when something new comes.
Queued(text) == IF answer = "closed" THEN answer ELSE text

Launch ==
    /\ ~live /\ answer # "result" /\ launches < MaxAttempts
    /\ launches' = launches + 1 /\ live' = TRUE
    /\ UNCHANGED <<answer, slipped>>

\* The worker dies, is terminated, or ends with a failed attempt.
End ==
    /\ live /\ live' = FALSE
    /\ UNCHANGED <<launches, answer, slipped>>

\* The worker queues the result and ends.
Finish ==
    /\ live /\ live' = FALSE
    /\ answer' = Queued("result")
    /\ UNCHANGED <<launches, slipped>>

\* A failure is reported: the supervisor gives up, or nothing could be launched.
Fail ==
    /\ answer = "result" => outdated
    /\ answer' = Queued("failure") /\ live' \in {live, FALSE}
    /\ UNCHANGED <<launches, slipped>>

\* What is queued is delivered, or dropped for its age.
Deliver ==
    /\ answer' = "closed"
    /\ UNCHANGED <<launches, live, slipped>>

\* A record is read, decided upon, or written.
Ponder == UNCHANGED <<launches, live, answer, slipped>>

Slip ==
    /\ slipped' = TRUE /\ live' \in {live, FALSE}
    /\ UNCHANGED <<launches, answer>>

AfterSlip ==
    /\ slipped /\ slipped' = TRUE
    /\ launches' \in {launches, launches + 1} /\ live' \in BOOLEAN
    /\ answer' \in Answers /\ (answer = "closed" => answer' = answer)

Next ==
    /\ Launch \/ End \/ Finish \/ Fail \/ Deliver \/ Ponder \/ Slip \/ AfterSlip
    /\ outdated' \in BOOLEAN

vars == <<launches, live, answer, outdated, slipped>>

Spec == Init /\ [][Next]_vars
=============================================================================
