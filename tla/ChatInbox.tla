----------------------------- MODULE ChatInbox ------------------------------
(***************************************************************************)
(* What the bridge promises of its inbox, whatever its threads do: a       *)
(* message is handled while its envelope lies in the inbox, at most one    *)
(* message of a chat is handled at a time, and a message whose envelope    *)
(* has left the inbox never comes back.                                    *)
(***************************************************************************)
EXTENDS Naturals

CONSTANTS Msgs,    \* the messages
          SideMsgs,    \* the ones that bypass the lock of their chat
          ChatOf   \* the chat of each message

VARIABLES where,   \* where the envelope of each message lies
          busy     \* the messages being handled

Left == {"processed", "poison", "removed"}

Init ==
    /\ where = [m \in Msgs |-> "absent"]
    /\ busy = {}

\* A daemon writes the envelope.
Arrive(m) ==
    /\ where[m] = "absent"
    /\ where' = [where EXCEPT ![m] = "inbox"]
    /\ UNCHANGED busy

\* Side-channel messages do not wait for the turn of their chat.
Begin(m) ==
    /\ where[m] = "inbox" /\ m \notin busy
    /\ m \in SideMsgs \/ \A n \in busy \ SideMsgs : ChatOf[n] # ChatOf[m]
    /\ busy' = busy \cup {m}
    /\ UNCHANGED where

\* Handling ends; the envelope leaves, or stays for another try.
End(m) ==
    /\ m \in busy
    /\ busy' = busy \ {m}
    /\ UNCHANGED where \/ \E to \in Left : where' = [where EXCEPT ![m] = to]

\* An envelope nobody is handling is set aside.
SetAside(m) ==
    /\ where[m] = "inbox" /\ m \notin busy
    /\ where' = [where EXCEPT ![m] = "poison"]
    /\ UNCHANGED busy

\* The process dies.
Die == busy' = {} /\ UNCHANGED where

Next == \/ \E m \in Msgs : Arrive(m) \/ Begin(m) \/ End(m) \/ SetAside(m)
        \/ Die

Spec == Init /\ [][Next]_<<where, busy>>
=============================================================================
