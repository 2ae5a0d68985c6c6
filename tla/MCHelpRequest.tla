--------------------------- MODULE MCHelpRequest ---------------------------
(* Instances of HelpRequest: an author, helpers, a coordinator.            *)
EXTENDS HelpOverlap, TLC

CONSTANTS author, helper1, helper2, helper3, coordinator

Helpers == {helper1, helper2}
Everybody == {author, helper1, helper2}
Crowd == {author, helper1, helper2, helper3}
WithStaff == {helper1, coordinator}
JustStaff == {coordinator}
NoStaff == {}

\* the histories the properties of an instance do not speak of tell no states
\* apart: they influence neither the steps nor the other histories
StatusView == <<vars, overtaken, askew, late>>
CapView == <<vars, firsts, contested>>
RoomView == <<vars, strays>>

Symmetry == Permutations(Slots)
CrowdSymmetry == Permutations(Slots) \union Permutations({helper1, helper2, helper3})
HelperSymmetry == Permutations(Slots) \union Permutations(Helpers)
============================================================================
