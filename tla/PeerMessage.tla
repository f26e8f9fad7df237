---------------------------- MODULE PeerMessage -----------------------------
(***************************************************************************)
(* What the exchange promises of a message to a peer, however often it is  *)
(* posted: the peer works on it once, and what the sender is told of it is *)
(* true of the peer and stays true.  A verdict is final until the message  *)
(* is erased.  A slip, once it has happened, voids a part of the promise:  *)
(* when a record has been lost ("lost"), the message may run again and the *)
(* sender may go back on a verdict; when an envelope has been doubled      *)
(* ("doubled"), a message that runs may be reported as failed.             *)
(***************************************************************************)
VARIABLES verdict,   \* what the sender knows of the message
          reached,   \* the peer has let it in
          running,   \* the peer works on it
          started,   \* the peer has begun to work on it
          done,      \* the peer has completed it
          excuses    \* the slips that have happened

Final == {"sent", "delivered", "expired", "cancelled", "unconfirmed", "failed"}

Kinds == {"lost", "doubled"}

Init ==
    /\ verdict = "none" /\ excuses = {}
    /\ reached = FALSE /\ running = FALSE /\ started = FALSE /\ done = FALSE

\* The message is kept, to be sent again.
Keep ==
    /\ verdict = "none" /\ verdict' = "waiting"
    /\ UNCHANGED <<reached, running, started, done, excuses>>

\* What a verdict may be given for: "sent" says that the peer has done the work,
\* "delivered" that it has the message, "failed" that it does not work on it (it has
\* refused it, or has come to an end of which the sender has no result to show).
Founded(v) ==
    /\ v = "sent" => done
    /\ v = "delivered" => reached
    /\ v = "failed" => ~running \/ excuses # {}

Close(v) ==
    /\ verdict = "waiting" /\ Founded(v) /\ verdict' = v
    /\ UNCHANGED <<reached, running, started, done, excuses>>

Erase ==
    /\ verdict # "none" /\ verdict' = "erased"
    /\ UNCHANGED <<reached, running, started, done, excuses>>

Reach ==
    /\ reached' = TRUE
    /\ UNCHANGED <<verdict, running, started, done, excuses>>

\* A message that has been started is not started again, and one that has been
\* reported as failed not at all.
Start ==
    /\ reached
    /\ ~started \/ "lost" \in excuses
    /\ verdict # "failed" \/ excuses # {}
    /\ running' = TRUE /\ started' = TRUE
    /\ UNCHANGED <<verdict, reached, done, excuses>>

\* The work ends, completed or not; another run goes on only if a record was lost.
End ==
    /\ running /\ running' \in BOOLEAN /\ done' \in {done, TRUE}
    /\ running' => "lost" \in excuses
    /\ UNCHANGED <<verdict, reached, started, excuses>>

\* Something happens that excuses what follows; if the peer died of it, its work ends.
Slip ==
    /\ excuses' \in SUBSET Kinds /\ excuses \subseteq excuses'
    /\ running' \in {running, FALSE}
    /\ UNCHANGED <<verdict, reached, started, done>>

\* With a lost record the sender goes back to what it knew earlier.
Rollback(v) ==
    /\ excuses' = excuses \cup {"lost"}
    /\ v = "sent" => done
    /\ v = "delivered" => reached
    /\ verdict' = v
    /\ UNCHANGED <<reached, running, started, done>>

Next ==
    \/ Keep \/ Erase \/ Reach \/ Start \/ End \/ Slip
    \/ \E v \in Final : Close(v)
    \/ \E v \in Final \cup {"none", "waiting", "erased"} : Rollback(v)

vars == <<verdict, reached, running, started, done, excuses>>

Spec == Init /\ [][Next]_vars
=============================================================================
