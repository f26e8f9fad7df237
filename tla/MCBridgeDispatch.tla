-------------------------- MODULE MCBridgeDispatch --------------------------
(***************************************************************************)
(* Instances of BridgeDispatch for TLC.                                    *)
(***************************************************************************)
EXTENDS BridgeDispatch

\* Every message is sent in the same chat.
OneChat == [m \in Msgs |-> "chat"]
=============================================================================
