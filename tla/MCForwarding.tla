----------------------------- MODULE MCForwarding -----------------------------
(* A small instance of Forwarding: two callers that ask for the same id.     *)
EXTENDS Forwarding

AllOne == <<CHOOSE t \in Terminal : TRUE, CHOOSE t \in Terminal : TRUE>>
=============================================================================
