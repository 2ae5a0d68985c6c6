----------------------------- MODULE Lifecycle -----------------------------
(* What a moderated record promises to those who read it: its status moves *)
(* one legal step at a time, each step starting from the status that was   *)
(* current, and it may be withdrawn once, for good.  Incidents (reports of *)
(* a flood, a fire ...) implement it under any interleaving of requests;   *)
(* of a help request every step is one of these or was decided on a status *)
(* that has changed since (StatusObeysLifecycle in HelpOverlap).           *)
EXTENDS Naturals

CONSTANTS
    Initial,    \* status of a freshly created record
    Table       \* Table[s]: the statuses one step may lead to from s

VARIABLES
    status,
    deleted

vars == <<status, deleted>>

Init ==
    /\ status = Initial
    /\ deleted = FALSE

Advance ==
    /\ status' \in Table[status]
    /\ UNCHANGED deleted

Withdraw ==
    /\ ~deleted
    /\ deleted' = TRUE
    /\ UNCHANGED status

Next == Advance \/ Withdraw

Spec == Init /\ [][Next]_vars
============================================================================
