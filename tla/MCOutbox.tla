------------------------------ MODULE MCOutbox ------------------------------
(* Two help requests filed offline, one after the other.                   *)
EXTENDS Outbox

TwoHelpRequests == [e \in Entries |-> "POST /help-requests"]
============================================================================
