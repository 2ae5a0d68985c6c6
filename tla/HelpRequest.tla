---------------------------- MODULE HelpRequest ----------------------------
(* One help request: its row, the responses of the users who offered help, *)
(* the Socket.IO room of its chat, and every handler that writes them      *)
(* (apps/api/src/routes/helpRequests.ts, socket.ts, the mesh webhook).     *)
(*                                                                         *)
(* A handler is a chain of awaited queries; the requests in flight         *)
(* interleave at the awaits.  Each await is a step here, and op[s] holds   *)
(* what the request in slot s carries from one step to the next.  A query  *)
(* is one atomic step, as is an UPDATE with its WHERE clause.              *)
EXTENDS Naturals, Sequences, FiniteSets

CONSTANTS
    Users,       \* accounts that may act on the request
    NoUser,      \* null in a user column
    Author,      \* who asked for help; NoUser for an anonymous SOS
    Staff,       \* coordinators and admins
    IsSOS,       \* the isSOS column: the SOS follow-up endpoint applies
    Cap,         \* participant cap (10 in the code)
    Slots,       \* requests the server can have in flight
    MaxVersion,  \* bound on the number of versioned edits
    Endpoints    \* the endpoints clients call in this instance

AllEndpoints ==
    {"respond", "my-response", "participants", "handshake", "patch",
     "follow-up", "delete", "chat", "mesh", "failure"}

ASSUME UsersAssumption ==
    /\ IsFiniteSet(Users)
    /\ NoUser \notin Users
    /\ Author \in Users \union {NoUser}
    /\ Staff \subseteq Users

ASSUME BoundsAssumption ==
    /\ IsSOS \in BOOLEAN
    /\ Cap \in Nat
    /\ MaxVersion \in Nat
    /\ Endpoints \subseteq AllEndpoints

Status == {"open", "claimed", "in_progress", "completed", "cancelled"}
Closed == {"completed", "cancelled"}
NoChange == "unchanged"     \* an edit whose body has no status

ResponseStatus == {"responded", "on_way", "arrived", "helped", "cancelled"}
NoRow == "none"           \* the user never responded
Verdicts == {"confirm", "reject", "undo"}

\* HELP_REQUEST_TRANSITIONS
Transitions ==
    [open        |-> {"claimed", "cancelled"},
     claimed     |-> {"in_progress", "open", "cancelled"},
     in_progress |-> {"completed", "cancelled"},
     completed   |-> {},
     cancelled   |-> {"open"}]

\* isValidHelpRequestTransition
ValidTransition(from, to) == from = to \/ to \in Transitions[from]

VARIABLES
    status, version, deleted, claimedBy,    \* the help_requests row
    resp,          \* resp[u]: status of u's help_responses row
    order,         \* responders in the order their rows were created
    confirmed,     \* users whose response has confirmedAt set
    rejected,      \* users whose response has rejectedAt set
    room,          \* users with a socket in the room help:<id>
    op             \* op[s]: the request in flight in slot s

row == <<status, version, deleted, claimedBy>>
responses == <<resp, order, confirmed, rejected>>
vars == <<row, responses, room, op>>

\* A request in flight: the step it awaits, whose response or socket it is
\* about, the status it wants to write, and what it read of the row
\* (seen, held, ver); claim is the claimer to store, kick whom to evict.
Idle ==
    [pc |-> "idle", on |-> NoUser, want |-> NoChange, seen |-> NoChange,
     held |-> NoUser, claim |-> NoUser, ver |-> 0, kick |-> {}]

UserSteps == {"lookup", "count", "upsert", "find", "update", "evict",
              "load", "mark", "check", "join"}
EditSteps == {"capture", "cascade", "commit"}
Steps == UserSteps \union EditSteps \union
         {"idle", "recompute", "publish", "evict_all", "soft_delete", "clear",
          "complete"}

Requests ==
    [pc    : Steps,
     on    : Users \union {NoUser},
     want  : Status \union ResponseStatus \union Verdicts \union {NoChange},
     seen  : Status \union {NoChange},
     held  : Users \union {NoUser},
     claim : Users \union {NoUser},
     ver   : Nat,
     kick  : SUBSET Users]

\* the fields a step uses are set when the request gets there
RequestOK(r) ==
    /\ r.pc \in UserSteps => r.on \in Users
    /\ r.pc \in {"find", "update"} => r.want \in ResponseStatus
    /\ r.pc \in EditSteps => r.want \in Status \union {NoChange}
    /\ r.pc \in {"publish", "complete"} => r.want \in Status
    /\ r.pc \in EditSteps \union {"publish", "complete"} => r.seen \in Status

\* the columns of the two tables and the room
ColumnsOK ==
    /\ status \in Status
    /\ version \in Nat
    /\ deleted \in BOOLEAN
    /\ claimedBy \in Users \union {NoUser}
    /\ resp \in [Users -> ResponseStatus \union {NoRow}]
    /\ order \in Seq(Users)
    /\ confirmed \subseteq Users
    /\ rejected \subseteq Users
    /\ room \subseteq Users

InFlightOK ==
    /\ op \in [Slots -> Requests]
    /\ \A s \in Slots : RequestOK(op[s])

\* order lists every response row; a row about to be updated exists
RowsOK ==
    /\ \A u \in Users : resp[u] # NoRow => \E i \in 1 .. Len(order) : order[i] = u
    /\ \A s \in Slots : op[s].pc = "update" => resp[op[s].on] # NoRow

TypeOK == ColumnsOK /\ InFlightOK /\ RowsOK

\* the row as POST / and POST /sos create it
Init ==
    /\ status = "open"
    /\ version = 0
    /\ deleted = FALSE
    /\ claimedBy = NoUser
    /\ resp = [u \in Users |-> NoRow]
    /\ order = <<>>
    /\ confirmed = {}
    /\ rejected = {}
    /\ room = {}
    /\ op = [s \in Slots |-> Idle]

Begin(s, request) ==
    /\ op[s] = Idle
    /\ op' = [op EXCEPT ![s] = request]

Goto(s, step) == op' = [op EXCEPT ![s].pc = step]

Finish(s) == op' = [op EXCEPT ![s] = Idle]

\* responses with status not "cancelled"
Active == {u \in Users : resp[u] \notin {NoRow, "cancelled"}}

\* mutants: a completed, or a cancelled, request is derived afresh
DerivedWhenCompleted ==
    IF status = "cancelled" THEN status
    ELSE IF Active = {} THEN "open" ELSE "claimed"
DerivedWhenCancelled ==
    IF status = "completed" THEN status
    ELSE IF Active = {} THEN "open" ELSE "claimed"

\* deriveRequestStatus over the active responses
DerivedStatus ==
    IF status \in Closed THEN status
    ELSE IF Active = {} THEN "open"
    ELSE IF \E u \in Active : resp[u] = "helped" THEN "completed"
    ELSE IF \E u \in Active : resp[u] \in {"on_way", "arrived"} THEN "in_progress"
    ELSE "claimed"

\* the active responder whose row is the oldest, or null
First(i) == order[i] \in Active /\ \A j \in 1 .. i - 1 : order[j] \notin Active
Primary ==
    IF Active = {} THEN NoUser ELSE order[CHOOSE i \in 1 .. Len(order) : First(i)]

----------------------------------------------------------------------------
\* recomputeRequestStatus, which ends every handler that changes a response.
\* It reads even a deleted row, and its write is guarded by nothing but the id.
RecomputeRead(s) ==
    /\ op[s].pc = "recompute"
    /\ IF DerivedStatus = status /\ Primary = claimedBy
       THEN Finish(s)
       ELSE op' = [op EXCEPT ![s] =
                     [Idle EXCEPT !.pc = "publish",
                                  !.seen = status, !.want = DerivedStatus,
                                  !.held = claimedBy, !.claim = Primary]]
    /\ UNCHANGED <<row, responses, room>>

\* mutant: the claimer is stored when there is one, never cleared
RecomputeKeepsClaimer(s) ==
    /\ op[s].pc = "publish"
    /\ status' = IF op[s].want = op[s].seen THEN status ELSE op[s].want
    /\ claimedBy' = IF op[s].claim = NoUser THEN claimedBy ELSE op[s].claim
    /\ Finish(s)
    /\ UNCHANGED <<version, deleted, responses, room>>

\* only the fields that differed from the row as read are written
RecomputeWrite(s) ==
    /\ op[s].pc = "publish"
    /\ status' = IF op[s].want = op[s].seen THEN status ELSE op[s].want
    /\ claimedBy' = IF op[s].claim = op[s].held THEN claimedBy ELSE op[s].claim
    /\ Finish(s)
    /\ UNCHANGED <<version, deleted, responses, room>>

----------------------------------------------------------------------------
\* mutant: the author may respond to the own request
RespondToOneself(s, u) ==
    /\ "respond" \in Endpoints
    /\ ~deleted
    /\ status \notin Closed
    /\ Begin(s, [Idle EXCEPT !.pc = IF u \in Staff THEN "upsert" ELSE "lookup",
                             !.on = u])
    /\ UNCHANGED <<row, responses, room>>

\* POST /:id/respond.  Staff skip the participant cap.
Respond(s, u) ==
    /\ "respond" \in Endpoints
    /\ ~deleted
    /\ u # Author
    /\ status \notin Closed
    /\ Begin(s, [Idle EXCEPT !.pc = IF u \in Staff THEN "upsert" ELSE "lookup",
                             !.on = u])
    /\ UNCHANGED <<row, responses, room>>

\* a cancelled response is reactivated without counting
RespondLookup(s) ==
    /\ op[s].pc = "lookup"
    /\ Goto(s, IF resp[op[s].on] = "cancelled" THEN "upsert" ELSE "count")
    /\ UNCHANGED <<row, responses, room>>

\* mutant: off by one
RespondCountOver(s) ==
    /\ op[s].pc = "count"
    /\ IF Cardinality(Active) > Cap THEN Finish(s) ELSE Goto(s, "upsert")
    /\ UNCHANGED <<row, responses, room>>

\* RESPONDER_CAP_REACHED, answered 409, or on to the upsert
RespondCount(s) ==
    /\ op[s].pc = "count"
    /\ IF Cardinality(Active) >= Cap THEN Finish(s) ELSE Goto(s, "upsert")
    /\ UNCHANGED <<row, responses, room>>

RespondUpsert(s) ==
    LET u == op[s].on IN
    /\ op[s].pc = "upsert"
    /\ resp' = [resp EXCEPT ![u] = "responded"]
    /\ order' = IF resp[u] = NoRow THEN Append(order, u) ELSE order
    /\ Goto(s, "recompute")
    /\ UNCHANGED <<row, confirmed, rejected, room>>

----------------------------------------------------------------------------
\* PATCH /:id/my-response with any response status; the request's own status
\* and deletion are not looked at
MyResponse(s, u, new) ==
    /\ "my-response" \in Endpoints
    /\ resp[u] # NoRow
    /\ Begin(s, [Idle EXCEPT !.pc = "update", !.on = u, !.want = new])
    /\ UNCHANGED <<row, responses, room>>

\* DELETE /:id/my-response
Withdraw(s, u) == MyResponse(s, u, "cancelled")

\* DELETE /:id/participants/:userId, called by the author or by staff
RemoveParticipant(s, u) ==
    /\ "participants" \in Endpoints
    /\ {Author} \union Staff # {NoUser}
    /\ ~deleted
    /\ u # Author
    /\ Begin(s, [Idle EXCEPT !.pc = "find", !.on = u, !.want = "cancelled"])
    /\ UNCHANGED <<row, responses, room>>

\* findFirst active response of the target; 404 when there is none
RemoveFind(s) ==
    /\ op[s].pc = "find"
    /\ IF op[s].on \in Active THEN Goto(s, "update") ELSE Finish(s)
    /\ UNCHANGED <<row, responses, room>>

\* mutant: a helper who leaves is not taken out of the room
ResponseUpdateStays(s) ==
    /\ op[s].pc = "update"
    /\ resp' = [resp EXCEPT ![op[s].on] = op[s].want]
    /\ Goto(s, "recompute")
    /\ UNCHANGED <<row, order, confirmed, rejected, room>>

\* the write the three endpoints share: update the response row by its id
ResponseUpdate(s) ==
    /\ op[s].pc = "update"
    /\ resp' = [resp EXCEPT ![op[s].on] = op[s].want]
    /\ Goto(s, IF op[s].want = "cancelled" THEN "evict" ELSE "recompute")
    /\ UNCHANGED <<row, order, confirmed, rejected, room>>

\* evictUserFromHelpRoom
Evict(s) ==
    /\ op[s].pc = "evict"
    /\ room' = room \ {op[s].on}
    /\ Goto(s, "recompute")
    /\ UNCHANGED <<row, responses>>

----------------------------------------------------------------------------
\* the mutual handshake: the author confirms or rejects a response marked
\* "helped", or undoes a rejection (within 24 hours)
Judge(s, u, verdict) ==
    /\ "handshake" \in Endpoints
    /\ Author # NoUser
    /\ ~deleted
    /\ Begin(s, [Idle EXCEPT !.pc = "load", !.on = u, !.want = verdict])
    /\ UNCHANGED <<row, responses, room>>

\* mutant: an earlier verdict is not looked at
JudgeLoadAgain(s) ==
    /\ op[s].pc = "load"
    /\ IF resp[op[s].on] = "helped" THEN Goto(s, "mark") ELSE Finish(s)
    /\ UNCHANGED <<row, responses, room>>

\* loadHelpedResponse and the handler's own checks on what it returned
JudgeLoad(s) ==
    LET u == op[s].on
        allowed == /\ resp[u] = "helped"
                   /\ IF op[s].want = "undo" THEN u \in rejected
                      ELSE u \notin confirmed \union rejected
    IN
    /\ op[s].pc = "load"
    /\ IF allowed THEN Goto(s, "mark") ELSE Finish(s)
    /\ UNCHANGED <<row, responses, room>>

\* the update is by response id alone
JudgeMark(s) ==
    LET u == op[s].on IN
    /\ op[s].pc = "mark"
    /\ confirmed' = IF op[s].want = "confirm" THEN confirmed \union {u} ELSE confirmed
    /\ rejected' = CASE op[s].want = "reject" -> rejected \union {u}
                     [] op[s].want = "undo" -> rejected \ {u}
                     [] OTHER -> rejected
    /\ Goto(s, "recompute")
    /\ UNCHANGED <<row, resp, order, room>>

----------------------------------------------------------------------------
\* PATCH /:id by the author or staff.  Closing the request first captures
\* (when cancelling) and rewrites the active responses, then commits the row.
Patch(s, new) ==
    /\ "patch" \in Endpoints
    /\ {Author} \union Staff # {NoUser}
    /\ ~deleted
    /\ version < MaxVersion
    /\ new # NoChange => ValidTransition(status, new)
    /\ Begin(s, [Idle EXCEPT
                   !.pc = CASE new = "cancelled" -> "capture"
                            [] new = "completed" -> "cascade"
                            [] OTHER -> "commit",
                   !.want = new, !.seen = status, !.ver = version])
    /\ UNCHANGED <<row, responses, room>>

PatchCapture(s) ==
    /\ op[s].pc = "capture"
    /\ op' = [op EXCEPT ![s].pc = "cascade", ![s].kick = Active]
    /\ UNCHANGED <<row, responses, room>>

\* mutant: the responses are forgotten
FollowUpAlone(s, new) ==
    /\ "follow-up" \in Endpoints
    /\ IsSOS
    /\ ~deleted
    /\ version < MaxVersion
    /\ new = "cancelled" => status \notin Closed
    /\ Begin(s, [Idle EXCEPT !.pc = "commit",
                             !.want = new, !.seen = status, !.ver = version])
    /\ UNCHANGED <<row, responses, room>>

\* PATCH /sos/:id/follow-up: a cancellation of a request that is not closed,
\* or an edit of its contact data; a cancellation does not evict anybody
FollowUp(s, new) ==
    /\ "follow-up" \in Endpoints
    /\ IsSOS
    /\ ~deleted
    /\ version < MaxVersion
    /\ new = "cancelled" => status \notin Closed
    /\ Begin(s, [Idle EXCEPT !.pc = IF new = "cancelled" THEN "cascade" ELSE "commit",
                             !.want = new, !.seen = status, !.ver = version])
    /\ UNCHANGED <<row, responses, room>>

\* mutant: responses that have not set out are forgotten
CascadeUnderWay(s) ==
    /\ op[s].pc = "cascade"
    /\ resp' = [u \in Users |->
                  IF u \notin Active \/ resp[u] = "responded" THEN resp[u]
                  ELSE IF op[s].want = "completed" THEN "helped" ELSE "cancelled"]
    /\ Goto(s, "commit")
    /\ UNCHANGED <<row, order, confirmed, rejected, room>>

\* helpResponse.updateMany, outside any transaction with the commit
Cascade(s) ==
    /\ op[s].pc = "cascade"
    /\ resp' = [u \in Users |->
                  IF u \notin Active THEN resp[u]
                  ELSE IF op[s].want = "completed" THEN "helped" ELSE "cancelled"]
    /\ Goto(s, "commit")
    /\ UNCHANGED <<row, order, confirmed, rejected, room>>

\* mutant: the status is written even when the body has none
CommitRaw(s) ==
    /\ op[s].pc = "commit"
    /\ op[s].ver = version
    /\ status' = op[s].want
    /\ version' = version + 1
    /\ IF op[s].kick = {} THEN Finish(s) ELSE Goto(s, "evict_all")
    /\ UNCHANGED <<deleted, claimedBy, responses, room>>

\* mutant: the edit leaves the version as it is
CommitUnbumped(s) ==
    /\ op[s].pc = "commit"
    /\ op[s].ver = version
    /\ status' = IF op[s].want = NoChange THEN status ELSE op[s].want
    /\ IF op[s].kick = {} THEN Finish(s) ELSE Goto(s, "evict_all")
    /\ UNCHANGED <<version, deleted, claimedBy, responses, room>>

\* update({where: {id, version: existing.version}})
Commit(s) ==
    /\ op[s].pc = "commit"
    /\ op[s].ver = version
    /\ status' = IF op[s].want = NoChange THEN status ELSE op[s].want
    /\ version' = version + 1
    /\ IF op[s].kick = {} THEN Finish(s) ELSE Goto(s, "evict_all")
    /\ UNCHANGED <<deleted, claimedBy, responses, room>>

\* P2025: the row was edited since the read; the cascade is not undone
CommitConflict(s) ==
    /\ op[s].pc = "commit"
    /\ op[s].ver # version
    /\ Finish(s)
    /\ UNCHANGED <<row, responses, room>>

EvictAll(s) ==
    /\ op[s].pc = "evict_all"
    /\ room' = room \ op[s].kick
    /\ Finish(s)
    /\ UNCHANGED <<row, responses>>

----------------------------------------------------------------------------
\* DELETE /:id by staff
Delete(s) ==
    /\ "delete" \in Endpoints
    /\ Staff # {}
    /\ ~deleted
    /\ Begin(s, [Idle EXCEPT !.pc = "soft_delete"])
    /\ UNCHANGED <<row, responses, room>>

DeleteWrite(s) ==
    /\ op[s].pc = "soft_delete"
    /\ deleted' = TRUE
    /\ Goto(s, "clear")
    /\ UNCHANGED <<status, version, claimedBy, responses, room>>

\* clearHelpRoom
DeleteClear(s) ==
    /\ op[s].pc = "clear"
    /\ room' = {}
    /\ Finish(s)
    /\ UNCHANGED <<row, responses>>

----------------------------------------------------------------------------
\* "OK <id prefix>" from the mesh network: complete the request by its id
MeshOk(s) ==
    /\ "mesh" \in Endpoints
    /\ ~deleted
    /\ status \notin Closed
    /\ Begin(s, [Idle EXCEPT !.pc = "complete", !.want = "completed",
                             !.seen = status])
    /\ UNCHANGED <<row, responses, room>>

MeshComplete(s) ==
    /\ op[s].pc = "complete"
    /\ status' = "completed"
    /\ Finish(s)
    /\ UNCHANGED <<version, deleted, claimedBy, responses, room>>

----------------------------------------------------------------------------
\* assertHelpChatAccess, the rule of the chat's HTTP endpoints
MayChat(u) ==
    \/ u \in Staff
    \/ ~deleted /\ (u = Author \/ u \in Active)

\* mutant: a deleted request is not told from a live one
SubscribeDeleted(s, u) ==
    /\ "chat" \in Endpoints
    /\ Begin(s, [Idle EXCEPT
                   !.pc = IF u \in Staff \union {Author} THEN "join" ELSE "check",
                   !.on = u])
    /\ UNCHANGED <<row, responses, room>>

\* help:subscribe awaits isHelpChatParticipant, which looks at the role, then
\* at the request, then at the caller's response, and joins afterwards
Subscribe(s, u) ==
    /\ "chat" \in Endpoints
    /\ u \in Staff \/ ~deleted
    /\ Begin(s, [Idle EXCEPT
                   !.pc = IF u \in Staff \union {Author} THEN "join" ELSE "check",
                   !.on = u])
    /\ UNCHANGED <<row, responses, room>>

SubscribeCheck(s) ==
    /\ op[s].pc = "check"
    /\ IF op[s].on \in Active THEN Goto(s, "join") ELSE Finish(s)
    /\ UNCHANGED <<row, responses, room>>

Join(s) ==
    /\ op[s].pc = "join"
    /\ room' = room \union {op[s].on}
    /\ Finish(s)
    /\ UNCHANGED <<row, responses>>

\* help:unsubscribe, or the socket disconnects
Leave(u) ==
    /\ u \in room
    /\ room' = room \ {u}
    /\ UNCHANGED <<row, responses, op>>

----------------------------------------------------------------------------
\* a query throws: the handler answers 500 and what it wrote stays written
Abort(s) ==
    /\ "failure" \in Endpoints
    /\ op[s] # Idle
    /\ Finish(s)
    /\ UNCHANGED <<row, responses, room>>

\* the process restarts: requests in flight and rooms live in its memory
Restart ==
    /\ "failure" \in Endpoints
    /\ op' = [s \in Slots |-> Idle]
    /\ room' = {}
    /\ UNCHANGED <<row, responses>>

Recompute(s) == RecomputeRead(s) \/ RecomputeWrite(s)

Responding(s) ==
    \/ \E u \in Users : Respond(s, u)
    \/ RespondLookup(s) \/ RespondCount(s) \/ RespondUpsert(s)

Updating(s) ==
    \/ \E u \in Users, new \in ResponseStatus : MyResponse(s, u, new)
    \/ \E u \in Users : Withdraw(s, u) \/ RemoveParticipant(s, u)
    \/ RemoveFind(s) \/ ResponseUpdate(s) \/ Evict(s)

Judging(s) ==
    \/ \E u \in Users, verdict \in Verdicts : Judge(s, u, verdict)
    \/ JudgeLoad(s) \/ JudgeMark(s)

Editing(s) ==
    \/ \E new \in Status \union {NoChange} : Patch(s, new)
    \/ \E new \in {"cancelled", NoChange} : FollowUp(s, new)
    \/ PatchCapture(s) \/ Cascade(s)
    \/ Commit(s) \/ CommitConflict(s) \/ EvictAll(s)

Deleting(s) == Delete(s) \/ DeleteWrite(s) \/ DeleteClear(s)

Meshing(s) == MeshOk(s) \/ MeshComplete(s)

Chatting(s) ==
    \/ \E u \in Users : Subscribe(s, u)
    \/ SubscribeCheck(s) \/ Join(s)

Next ==
    \/ \E s \in Slots :
          \/ Recompute(s) \/ Responding(s) \/ Updating(s) \/ Judging(s)
          \/ Editing(s) \/ Deleting(s) \/ Meshing(s) \/ Chatting(s)
          \/ Abort(s)
    \/ \E u \in Users : Leave(u)
    \/ Restart

Spec == Init /\ [][Next]_vars

----------------------------------------------------------------------------
(* Properties that hold however the requests interleave.                   *)

\* steps at which a handler holds a status it read and is about to write one
StatusWriters == EditSteps \union {"publish", "complete"}

WritersSaw(st) ==
    \A s \in Slots : op[s].pc \in StatusWriters => op[s].seen = st

(* claimed_by, which list filters and "my claims" rely on, names somebody  *)
(* who did respond and never the author, although it is written from a     *)
(* snapshot that other handlers may have outdated by then.                 *)
Responder(u) == u # Author /\ resp[u] # NoRow
ClaimerResponded == claimedBy # NoUser => Responder(claimedBy)

(* Why that is so: the author never gets a response row, and a claimer     *)
(* read from the responses is still a responder when it is stored, because *)
(* cancelling a response keeps its row.                                    *)
ClaimsLawful ==
    /\ Author \in Users => resp[Author] = NoRow
    /\ \A s \in Slots :
          /\ op[s].pc \in {"lookup", "count", "upsert"} => op[s].on # Author
          /\ op[s].pc = "publish" /\ op[s].claim # NoUser => Responder(op[s].claim)

(* A completed request whose older handlers have drained is completed for  *)
(* good: no sequence of responses, edits, retractions, mesh messages,      *)
(* failures and restarts reopens it.                                       *)
CompletedSettled == status = "completed" /\ WritersSaw("completed")
CompletionIsFinal == [][CompletedSettled => CompletedSettled']_vars

(* A cancelled request whose older handlers have drained leaves that       *)
(* status only through an explicit reopening by PATCH; nothing a helper    *)
(* does to a response revives it.                                          *)
CancelledSettled == status = "cancelled" /\ WritersSaw("cancelled")
CancellationIsTheAuthors ==
    [][CancelledSettled /\ status' # status =>
         \E s \in Slots : Commit(s) /\ op[s].want = "open" /\ status' = "open"]_vars

(* Once the room of a deleted request has been cleared, and no subscribe   *)
(* admitted before the deletion is still pending, nobody but staff is      *)
(* ever in it again.                                                       *)
RoomClosed ==
    /\ deleted
    /\ room \subseteq Staff
    /\ \A s \in Slots : op[s].pc \in {"check", "join"} => op[s].on \in Staff
DeletedRoomStaysClosed == [][RoomClosed => RoomClosed']_vars

----------------------------------------------------------------------------
(* Used by the properties of overlapping requests (HelpOverlap).           *)

Quiet == \A s \in Slots : op[s] = Idle

Coherent == status = DerivedStatus /\ claimedBy = Primary

(* Reader's view of the status: live statuses are derived from responses   *)
(* and may move freely, "completed" is terminal, "cancelled" can only be   *)
(* reopened.                                                               *)
Life == INSTANCE Lifecycle WITH
    Initial <- "open",
    Table <- [open        |-> Status, claimed   |-> Status,
              in_progress |-> Status, completed |-> {},
              cancelled   |-> {"open"}]

----------------------------------------------------------------------------
(* What comments in the source say and overlapping requests refute; each   *)
(* has a configuration of its own that shows its violation.                *)

(* "Requester then either says спасибо or marks it as didn't happen"       *)
(* (the handshake endpoints): no response carries both verdicts.           *)
OneVerdict == confirmed \intersect rejected = {}

(* "completed: [], // terminal" (lib/statusTransitions.ts): no handler     *)
(* ever moves a completed request to another status.                       *)
CompletedIsTerminal == [][status = "completed" => status' = "completed"]_vars

(* "hard-limit 10 active responders per help request" (POST respond): a    *)
(* first response by somebody who is not staff never exceeds the cap.      *)
CapOnCreate ==
    [][\A s \in Slots :
         RespondUpsert(s) /\ op[s].on \notin Staff /\ resp[op[s].on] = NoRow
         => Cardinality(Active') <= Cap]_vars

(* "verify caller is a participant" (help:subscribe): when no handler runs *)
(* the room holds only users the HTTP endpoints of the chat would let in.  *)
RoomIsPrivate == Quiet => \A u \in room : MayChat(u)
============================================================================
