---------------------------- MODULE SavedReports ----------------------------
(* What a client promises the user whose report it could not deliver: a    *)
(* saved report is kept until there is an excuse to let go of it - the     *)
(* server answered, it was tried the full number of times, or whatever     *)
(* else the client counts as one.  The PWA outbox and the retry queue of   *)
(* the Telegram bot and the VK app are held against it.                    *)

CONSTANT Reports

VARIABLES
    saved,      \* reports the user has been told are saved
    kept,       \* reports the client still holds
    excused     \* reports the client may let go of

vars == <<saved, kept, excused>>

TypeOK ==
    /\ saved \subseteq Reports
    /\ kept \subseteq saved
    /\ excused \subseteq saved

Init == saved = {} /\ kept = {} /\ excused = {}

\* a newer report may be the excuse for older ones
Save(r) ==
    /\ r \in Reports \ saved
    /\ saved' = saved \union {r}
    /\ kept' = kept \union {r}
    /\ excused \subseteq excused' /\ excused' \subseteq saved'

Excuse ==
    /\ excused \subseteq excused' /\ excused' \subseteq saved
    /\ UNCHANGED <<saved, kept>>

\* only excused reports go; overlapping passes may bring some back
Sweep ==
    /\ kept \ kept' \subseteq excused
    /\ kept' \subseteq saved
    /\ UNCHANGED <<saved, excused>>

Next == (\E r \in Reports : Save(r)) \/ Excuse \/ Sweep

Spec == Init /\ [][Next]_vars
============================================================================
