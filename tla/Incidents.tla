----------------------------- MODULE Incidents -----------------------------
(* One row of the incidents table and the HTTP handlers that write it      *)
(* (apps/api/src/routes/incidents.ts).  A handler runs between its awaits, *)
(* so its database read and its database write are separate steps and      *)
(* those of several requests interleave; PATCH guards its write with the   *)
(* version it read, DELETE does not.                                       *)
EXTENDS Naturals

CONSTANTS
    Editors,     \* users PATCH accepts: the author, coordinators, admins
    NoUser,      \* null in the verified_by column
    NoChange,    \* a PATCH body without a status
    Slots,       \* requests the server can have in flight
    MaxVersion   \* bound on the number of committed edits

ASSUME ConstantsAssumption ==
    /\ NoUser \notin Editors
    /\ MaxVersion \in Nat

Status == {"unverified", "verified", "resolved", "false_report"}

ASSUME NoChangeAssumption == NoChange \notin Status

\* INCIDENT_TRANSITIONS
Transitions ==
    [unverified   |-> {"verified", "false_report"},
     verified     |-> {"resolved", "false_report"},
     resolved     |-> {"verified"},
     false_report |-> {"unverified"}]

\* isValidIncidentTransition: staying put is always valid
ValidTransition(from, to) == from = to \/ to \in Transitions[from]

VARIABLES
    status,      \* columns of the row
    verifier,
    version,
    deleted,
    op           \* op[s]: what the request in slot s is about to do

vars == <<status, verifier, version, deleted, op>>

\* by: the caller, want: the requested status, seen and ver: what it read
Idle == [pc |-> "idle", by |-> NoUser, want |-> NoChange,
         seen |-> "unverified", ver |-> 0]

TypeOK ==
    /\ status \in Status
    /\ verifier \in Editors \union {NoUser}
    /\ version \in Nat
    /\ deleted \in BOOLEAN
    /\ op \in [Slots -> [pc   : {"idle", "commit", "delete"},
                         by   : Editors \union {NoUser},
                         want : Status \union {NoChange},
                         seen : Status,
                         ver  : Nat]]

\* POST /incidents has created the row
Init ==
    /\ status = "unverified"
    /\ verifier = NoUser
    /\ version = 0
    /\ deleted = FALSE
    /\ op = [s \in Slots |-> Idle]

Finish(s) == op' = [op EXCEPT ![s] = Idle]

\* PATCH /:id up to its write: read the row, check the transition against it
PatchRead(s, u, new) ==
    /\ op[s] = Idle
    /\ ~deleted
    /\ version < MaxVersion
    /\ new = NoChange \/ ValidTransition(status, new)
    /\ op' = [op EXCEPT ![s] = [pc |-> "commit", by |-> u, want |-> new,
                                seen |-> status, ver |-> version]]
    /\ UNCHANGED <<status, verifier, version, deleted>>

\* mutants: the version guard is missing, the version is not bumped
CommitAs(s, guarded, bump) ==
    /\ op[s].pc = "commit"
    /\ guarded => op[s].ver = version
    /\ status' = IF op[s].want = NoChange THEN status ELSE op[s].want
    /\ verifier' = IF op[s].want \in {"verified", "false_report"}
                   THEN op[s].by ELSE verifier
    /\ version' = version + bump
    /\ Finish(s)
    /\ UNCHANGED deleted
CommitUnguarded(s) == CommitAs(s, FALSE, 1)
CommitUnbumped(s) == CommitAs(s, TRUE, 0)

\* update({where: {id, version: existing.version}}): the row still has the
\* version that was read
PatchCommit(s) ==
    /\ op[s].pc = "commit"
    /\ op[s].ver = version
    /\ status' = IF op[s].want = NoChange THEN status ELSE op[s].want
    /\ verifier' = IF op[s].want \in {"verified", "false_report"}
                   THEN op[s].by ELSE verifier
    /\ version' = version + 1
    /\ Finish(s)
    /\ UNCHANGED deleted

\* P2025, answered 409: somebody else committed since the read
PatchConflict(s) ==
    /\ op[s].pc = "commit"
    /\ op[s].ver # version
    /\ Finish(s)
    /\ UNCHANGED <<status, verifier, version, deleted>>

DeleteRead(s) ==
    /\ op[s] = Idle
    /\ ~deleted
    /\ op' = [op EXCEPT ![s].pc = "delete"]
    /\ UNCHANGED <<status, verifier, version, deleted>>

\* the soft delete is not guarded by the version and does not bump it
DeleteWrite(s) ==
    /\ op[s].pc = "delete"
    /\ deleted' = TRUE
    /\ Finish(s)
    /\ UNCHANGED <<status, verifier, version>>

\* a query throws, or the process dies, before the write
Abort(s) ==
    /\ op[s] # Idle
    /\ Finish(s)
    /\ UNCHANGED <<status, verifier, version, deleted>>

Patch(s) ==
    \/ \E u \in Editors, new \in Status \union {NoChange} : PatchRead(s, u, new)
    \/ PatchCommit(s)
    \/ PatchConflict(s)

Delete(s) == DeleteRead(s) \/ DeleteWrite(s)

Next == \E s \in Slots : Patch(s) \/ Delete(s) \/ Abort(s)

Spec == Init /\ [][Next]_vars

----------------------------------------------------------------------------
(* What a request in flight knows: as long as the version it read is still *)
(* current, the status it validated its transition against is current too. *)
(* Nothing but the version guard of PatchCommit keeps this true, and it is *)
(* what makes validating before an await sound.                            *)
SnapshotHolds ==
    \A s \in Slots :
        op[s].pc = "commit" =>
            /\ op[s].ver <= version
            /\ op[s].ver = version => op[s].seen = status
            /\ op[s].want = NoChange \/ ValidTransition(op[s].seen, op[s].want)
            /\ op[s].by # NoUser

(* An incident that has left "unverified" through moderation names the     *)
(* user who judged it, whatever requests overlapped on the way             *)
(* (verified_by is what the incident card shows beside the status).        *)
JudgedByKnownUser == status # "unverified" => verifier # NoUser

(* The row implements the one-step-at-a-time lifecycle: overlapping PATCH  *)
(* requests, conflicts, deletions and aborted handlers never move the      *)
(* status along an edge INCIDENT_TRANSITIONS does not have.                *)
Life == INSTANCE Lifecycle WITH Initial <- "unverified", Table <- Transitions
LifecycleSpec == Life!Spec
============================================================================
