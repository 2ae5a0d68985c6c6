----------------------------- MODULE MCSosIntake -----------------------------
(* One person with two requests in flight and two rows.                     *)
EXTENDS SosIntake, TLC
CONSTANTS guest, line1
OwnLines == (guest :> line1)
RowNames == (guest :> {1, 2})
==============================================================================
