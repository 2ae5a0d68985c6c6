------------------------- MODULE HelpRequestProofs -------------------------
(* What holds of a help request for any number of users, requests in       *)
(* flight and edits, whatever their interleaving, failures and restarts.   *)
(* The inductive invariants are TypeOK /\ DecisionsLawful for the status   *)
(* once older writers have drained, TypeOK /\ ClaimsLawful for claimed_by, *)
(* and one per property of overlapping requests: EditsTimed, Reconciled,   *)
(* Closings, PlacesCounted, VerdictsWatched and EvictionsPending.          *)
EXTENDS HelpOverlap, FiniteSetTheorems, WellFoundedInduction, TLAPS

----------------------------------------------------------------------------
(* Operators.                                                              *)

\* The derived status is a status.
LEMMA DerivedStatusType == status \in Status => DerivedStatus \in Status
BY DEF DerivedStatus, Status

\* recomputeRequestStatus stores as claimer a user with an active response,
\* or null when there is none: the oldest active row exists.
LEMMA PrimaryIsActive ==
    ASSUME ColumnsOK, RowsOK
    PROVE  Primary \in Active \union {NoUser}
<1>1. CASE Active = {}
  BY <1>1 DEF Primary
<1>2. CASE Active # {}
  <2> DEFINE rows == {i \in 1 .. Len(order) : order[i] \in Active}
  <2>1. rows # {} /\ rows \subseteq Nat
    <3>1. PICK u \in Users : u \in Active /\ resp[u] # NoRow
      BY <1>2 DEF Active
    <3>2. PICK i \in 1 .. Len(order) : order[i] = u
      BY <3>1 DEF RowsOK
    <3>3. Len(order) \in Nat
      BY DEF ColumnsOK
    <3> QED
      BY <3>1, <3>2, <3>3
  <2>2. PICK i \in rows : \A j \in rows : ~ (<<j, i>> \in OpToRel(<, Nat))
    BY <2>1, NatLessThanWellFounded, WFMin
  <2>3. \A j \in rows : ~ (j < i)
    BY <2>1, <2>2 DEF OpToRel
  <2>4. i \in 1 .. Len(order) /\ First(i)
    <3>1. Len(order) \in Nat
      BY DEF ColumnsOK
    <3>2. \A j \in 1 .. i - 1 : j \in 1 .. Len(order) /\ j < i
      BY <2>1, <3>1
    <3> QED
      BY <2>3, <3>2 DEF First
  <2> HIDE DEF rows
  <2>5. order[CHOOSE k \in 1 .. Len(order) : First(k)] \in Active
    BY <2>4 DEF First
  <2> QED
    BY <1>2, <2>5 DEF Primary
<1> QED
  BY <1>1, <1>2

----------------------------------------------------------------------------
(* Requests in flight.                                                     *)

\* The empty slot is a well-formed request, so finishing keeps the types.
LEMMA IdleIsRequest == Idle \in Requests /\ RequestOK(Idle)
BY DEF Idle, Requests, RequestOK, Steps, UserSteps, EditSteps

\* Storing a well-formed request in a slot.
LEMMA StoreRequest ==
    ASSUME InFlightOK, NEW s \in Slots, NEW r \in Requests, RequestOK(r),
           op' = [op EXCEPT ![s] = r]
    PROVE  InFlightOK'
BY DEF InFlightOK

\* Answering a request.
LEMMA FinishRequest ==
    ASSUME InFlightOK, NEW s \in Slots, Finish(s)
    PROVE  InFlightOK'
BY StoreRequest, IdleIsRequest DEF Finish

\* Moving a request on to a step for which its fields are set.
LEMMA GotoStep ==
    ASSUME InFlightOK, NEW s \in Slots, NEW step \in Steps,
           RequestOK([op[s] EXCEPT !.pc = step]), Goto(s, step)
    PROVE  InFlightOK'
<1>1. [op[s] EXCEPT !.pc = step] \in Requests
  BY DEF InFlightOK, Requests
<1>2. op' = [op EXCEPT ![s] = [op[s] EXCEPT !.pc = step]]
  BY DEF Goto, InFlightOK, Requests
<1> QED
  BY <1>1, <1>2, StoreRequest

\* A request that arrives in a free slot.
LEMMA BeginRequest ==
    ASSUME InFlightOK, NEW s \in Slots, NEW r \in Requests, RequestOK(r), Begin(s, r)
    PROVE  InFlightOK'
BY StoreRequest DEF Begin

\* What the three ways of moving a request on leave in its slot.
LEMMA SlotAfter ==
    ASSUME InFlightOK, NEW s \in Slots
    PROVE  /\ \A r : Begin(s, r) => op'[s] = r
           /\ \A step : Goto(s, step) => /\ op'[s].pc = step
                                         /\ op'[s].on = op[s].on
                                         /\ op'[s].want = op[s].want
                                         /\ op'[s].seen = op[s].seen
                                         /\ op'[s].claim = op[s].claim
           /\ Finish(s) => op'[s] = Idle /\ op'[s].pc = "idle"
<1>1. \A r : Begin(s, r) => op'[s] = r
  BY DEF InFlightOK, Begin
<1>2. ASSUME NEW step, Goto(s, step)
      PROVE  /\ op'[s].pc = step
             /\ op'[s].on = op[s].on
             /\ op'[s].want = op[s].want
             /\ op'[s].seen = op[s].seen
             /\ op'[s].claim = op[s].claim
  BY <1>2 DEF InFlightOK, Requests, Goto
<1>3. Finish(s) => op'[s] = Idle
  BY DEF InFlightOK, Finish
<1>4. Idle.pc = "idle"
  BY DEF Idle
<1> QED
  BY <1>1, <1>2, <1>3, <1>4

----------------------------------------------------------------------------
(* Type correctness.                                                       *)

\* The steps that write a column or the room, as opposed to reading.
WritingStep ==
    \/ \E s \in Slots :
          \/ RecomputeWrite(s) \/ RespondUpsert(s) \/ ResponseUpdate(s)
          \/ Evict(s) \/ JudgeMark(s) \/ Cascade(s) \/ Commit(s) \/ EvictAll(s)
          \/ DeleteWrite(s) \/ DeleteClear(s) \/ MeshComplete(s) \/ Join(s)
    \/ \E u \in Users : Leave(u)
    \/ Restart

\* Every other step only moves its own request on.
LEMMA OthersOnlyRead ==
    ASSUME [Next]_vars, ~WritingStep
    PROVE  UNCHANGED <<row, responses, room>>
<1>1. CASE UNCHANGED vars
  BY <1>1 DEF vars
<1>2. ASSUME NEW s \in Slots,
             Recompute(s) \/ Responding(s) \/ Judging(s) \/ Abort(s)
      PROVE  UNCHANGED <<row, responses, room>>
  BY <1>2 DEF WritingStep, Recompute, Responding, Judging, RecomputeRead, Respond,
              RespondLookup, RespondCount, Judge, JudgeLoad, Abort
<1>3. ASSUME NEW s \in Slots,
             Updating(s) \/ Editing(s) \/ Deleting(s) \/ Meshing(s) \/ Chatting(s)
      PROVE  UNCHANGED <<row, responses, room>>
  BY <1>3 DEF WritingStep, Updating, Editing, Deleting, Meshing, Chatting,
              MyResponse, Withdraw, RemoveParticipant, RemoveFind, Patch, FollowUp,
              PatchCapture, CommitConflict, Delete, MeshOk, Subscribe, SubscribeCheck
<1> QED
  BY <1>1, <1>2, <1>3 DEF Next, WritingStep

\* The columns keep their types: a write stores what its request carries.
LEMMA ColumnsTyped == TypeOK /\ [Next]_vars => ColumnsOK'
<1> SUFFICES ASSUME TypeOK, [Next]_vars PROVE ColumnsOK'
  OBVIOUS
<1> USE DEF TypeOK, ColumnsOK, row, responses
<1>1. ASSUME NEW s \in Slots, RecomputeWrite(s) PROVE ColumnsOK'
  <2>1. op[s] \in Requests /\ op[s].want \in Status
    BY <1>1 DEF InFlightOK, RequestOK, RecomputeWrite
  <2>2. op[s].claim \in Users \union {NoUser}
    BY <2>1 DEF Requests
  <2> QED
    BY <1>1, <2>1, <2>2 DEF RecomputeWrite
<1>2. ASSUME NEW s \in Slots, RespondUpsert(s) PROVE ColumnsOK'
  <2>1. op[s].on \in Users
    BY <1>2 DEF InFlightOK, RequestOK, UserSteps, RespondUpsert
  <2>2. resp' \in [Users -> ResponseStatus \union {NoRow}] /\ order' \in Seq(Users)
    BY <1>2, <2>1 DEF RespondUpsert, ResponseStatus
  <2> QED
    BY <1>2, <2>2 DEF RespondUpsert
<1>3. ASSUME NEW s \in Slots, ResponseUpdate(s) \/ Cascade(s) PROVE ColumnsOK'
  <2>1. resp' \in [Users -> ResponseStatus \union {NoRow}]
    BY <1>3 DEF ResponseUpdate, Cascade, InFlightOK, RequestOK, ResponseStatus
  <2> QED
    BY <1>3, <2>1 DEF ResponseUpdate, Cascade
<1>4. ASSUME NEW s \in Slots, JudgeMark(s) \/ Join(s) PROVE ColumnsOK'
  BY <1>4 DEF JudgeMark, Join, InFlightOK, RequestOK, UserSteps
<1>5. ASSUME NEW s \in Slots, Commit(s) \/ DeleteWrite(s) \/ MeshComplete(s)
      PROVE  ColumnsOK'
  <2>1. CASE Commit(s)
    <3>1. op[s].want \in Status \union {NoChange}
      BY <2>1 DEF Commit, InFlightOK, RequestOK, EditSteps
    <3> QED
      BY <2>1, <3>1 DEF Commit
  <2>2. CASE DeleteWrite(s) \/ MeshComplete(s)
    BY <2>2 DEF DeleteWrite, MeshComplete, Status
  <2> QED
    BY <1>5, <2>1, <2>2
<1>6. ASSUME NEW s \in Slots, Evict(s) \/ EvictAll(s) \/ DeleteClear(s)
      PROVE  ColumnsOK'
  BY <1>6 DEF Evict, EvictAll, DeleteClear
<1>7. ASSUME NEW u \in Users, Leave(u) PROVE ColumnsOK'
  BY <1>7 DEF Leave
<1>8. CASE Restart
  BY <1>8 DEF Restart
<1>9. CASE ~WritingStep
  BY <1>9, OthersOnlyRead
<1> QED
  BY <1>1, <1>2, <1>3, <1>4, <1>5, <1>6, <1>7, <1>8, <1>9 DEF WritingStep

\* A response row, once created, is never removed.
LEMMA RowsStay ==
    ASSUME TypeOK, [Next]_vars, NEW u \in Users, resp[u] # NoRow
    PROVE  resp'[u] # NoRow
<1> USE DEF TypeOK, ColumnsOK, row, responses
<1>1. ASSUME NEW s \in Slots, RespondUpsert(s) PROVE resp'[u] # NoRow
  BY <1>1 DEF RespondUpsert, NoRow
<1>2. ASSUME NEW s \in Slots, ResponseUpdate(s) PROVE resp'[u] # NoRow
  BY <1>2 DEF ResponseUpdate, InFlightOK, RequestOK, ResponseStatus, NoRow
<1>3. ASSUME NEW s \in Slots, Cascade(s) PROVE resp'[u] # NoRow
  BY <1>3 DEF Cascade, NoRow
<1>4. CASE ~\E s \in Slots : RespondUpsert(s) \/ ResponseUpdate(s) \/ Cascade(s)
  <2>1. CASE WritingStep
    BY <1>4, <2>1 DEF WritingStep, RecomputeWrite, Evict, JudgeMark, Commit,
                      EvictAll, DeleteWrite, DeleteClear, MeshComplete, Join,
                      Leave, Restart
  <2>2. CASE ~WritingStep
    BY <2>2, OthersOnlyRead
  <2> QED
    BY <2>1, <2>2
<1> QED
  BY <1>1, <1>2, <1>3, <1>4

\* What the requests in flight carry keeps its type, step by step.
LEMMA InFlightTyped == TypeOK /\ [Next]_vars => InFlightOK'
<1> SUFFICES ASSUME TypeOK, [Next]_vars PROVE InFlightOK'
  OBVIOUS
<1> USE DEF TypeOK
<1>1. ASSUME NEW s \in Slots, Recompute(s) PROVE InFlightOK'
  <2>1. CASE Finish(s)
    BY <2>1, FinishRequest
  <2>2. CASE ~Finish(s)
    <3> DEFINE r == [Idle EXCEPT !.pc = "publish",
                                 !.seen = status, !.want = DerivedStatus,
                                 !.held = claimedBy, !.claim = Primary]
    <3>1. DerivedStatus \in Status
      BY DerivedStatusType DEF ColumnsOK
    <3>2. Primary \in Users \union {NoUser}
      BY PrimaryIsActive DEF Active
    <3>3. r \in Requests /\ RequestOK(r)
      BY <3>1, <3>2 DEF ColumnsOK, Idle, Requests, RequestOK, Steps, UserSteps, EditSteps
    <3>4. op' = [op EXCEPT ![s] = r]
      BY <1>1, <2>2 DEF Recompute, RecomputeRead, RecomputeWrite
    <3> QED
      BY <3>3, <3>4, StoreRequest
  <2> QED
    BY <2>1, <2>2
<1>2. ASSUME NEW s \in Slots, Responding(s) PROVE InFlightOK'
  <2>1. ASSUME NEW u \in Users, Respond(s, u) PROVE InFlightOK'
    <3> DEFINE r == [Idle EXCEPT !.pc = IF u \in Staff THEN "upsert" ELSE "lookup",
                             !.on = u]
    <3>1. r \in Requests /\ RequestOK(r)
      BY DEF Idle, Requests, RequestOK, Steps, UserSteps, EditSteps
    <3>2. Begin(s, r)
      BY <2>1 DEF Respond
    <3> QED
      BY <3>1, <3>2, BeginRequest
  <2>2. CASE RespondLookup(s) \/ RespondCount(s) \/ RespondUpsert(s)
    <3>1. op[s].on \in Users
      BY <2>2 DEF RespondLookup, RespondCount, RespondUpsert, InFlightOK, RequestOK,
                  UserSteps
    <3>2. ASSUME NEW step \in {"count", "upsert", "recompute"}, Goto(s, step)
          PROVE  InFlightOK'
      BY <3>1, <3>2, GotoStep
      DEF InFlightOK, RequestOK, Requests, Steps, UserSteps, EditSteps
    <3> QED
      BY <2>2, <3>2, FinishRequest DEF RespondLookup, RespondCount, RespondUpsert
  <2> QED
    BY <1>2, <2>1, <2>2 DEF Responding
<1>3. ASSUME NEW s \in Slots, Updating(s) PROVE InFlightOK'
  <2>1. ASSUME NEW u \in Users, NEW new \in ResponseStatus, MyResponse(s, u, new)
        PROVE  InFlightOK'
    <3> DEFINE r == [Idle EXCEPT !.pc = "update", !.on = u, !.want = new]
    <3>1. r \in Requests /\ RequestOK(r)
      BY DEF Idle, Requests, RequestOK, Steps, UserSteps, EditSteps
    <3>2. Begin(s, r)
      BY <2>1 DEF MyResponse
    <3> QED
      BY <3>1, <3>2, BeginRequest
  <2>2. ASSUME NEW u \in Users, RemoveParticipant(s, u) PROVE InFlightOK'
    <3> DEFINE r == [Idle EXCEPT !.pc = "find", !.on = u, !.want = "cancelled"]
    <3>1. r \in Requests /\ RequestOK(r)
      BY DEF Idle, Requests, RequestOK, Steps, UserSteps, EditSteps, ResponseStatus
    <3>2. Begin(s, r)
      BY <2>2 DEF RemoveParticipant
    <3> QED
      BY <3>1, <3>2, BeginRequest
  <2>3. CASE RemoveFind(s) \/ ResponseUpdate(s) \/ Evict(s)
    <3>1. op[s].on \in Users
      BY <2>3 DEF RemoveFind, ResponseUpdate, Evict, InFlightOK, RequestOK, UserSteps
    <3>2. ASSUME NEW step \in {"evict", "recompute"}, Goto(s, step)
          PROVE  InFlightOK'
      BY <3>1, <3>2, GotoStep
      DEF InFlightOK, RequestOK, Requests, Steps, UserSteps, EditSteps
    <3>3. ASSUME op[s].pc = "find", Goto(s, "update") PROVE InFlightOK'
      BY <3>1, <3>3, GotoStep
      DEF InFlightOK, RequestOK, Requests, Steps, UserSteps, EditSteps
    <3> QED
      BY <2>3, <3>2, <3>3, FinishRequest DEF RemoveFind, ResponseUpdate, Evict
  <2> QED
    BY <1>3, <2>1, <2>2, <2>3 DEF Updating, Withdraw, ResponseStatus
<1>4. ASSUME NEW s \in Slots, Judging(s) PROVE InFlightOK'
  <2>1. ASSUME NEW u \in Users, NEW v \in Verdicts, Judge(s, u, v) PROVE InFlightOK'
    <3> DEFINE r == [Idle EXCEPT !.pc = "load", !.on = u, !.want = v]
    <3>1. r \in Requests /\ RequestOK(r)
      BY DEF Idle, Requests, RequestOK, Steps, UserSteps, EditSteps
    <3>2. Begin(s, r)
      BY <2>1 DEF Judge
    <3> QED
      BY <3>1, <3>2, BeginRequest
  <2>2. CASE JudgeLoad(s) \/ JudgeMark(s)
    <3>1. op[s].on \in Users
      BY <2>2 DEF JudgeLoad, JudgeMark, InFlightOK, RequestOK, UserSteps
    <3>2. ASSUME NEW step \in {"mark", "recompute"}, Goto(s, step)
          PROVE  InFlightOK'
      BY <3>1, <3>2, GotoStep
      DEF InFlightOK, RequestOK, Requests, Steps, UserSteps, EditSteps
    <3> QED
      BY <2>2, <3>2, FinishRequest DEF JudgeLoad, JudgeMark
  <2> QED
    BY <1>4, <2>1, <2>2 DEF Judging
<1>5. ASSUME NEW s \in Slots, Editing(s) PROVE InFlightOK'
  <2>1. ASSUME NEW new \in Status \union {NoChange}, Patch(s, new) PROVE InFlightOK'
    <3> DEFINE r == [Idle EXCEPT
                     !.pc = CASE new = "cancelled" -> "capture"
                              [] new = "completed" -> "cascade"
                              [] OTHER -> "commit",
                     !.want = new, !.seen = status, !.ver = version]
    <3>1. r \in Requests /\ RequestOK(r)
      BY DEF Idle, Requests, RequestOK, Steps, UserSteps, EditSteps, ColumnsOK
    <3>2. Begin(s, r)
      BY <2>1 DEF Patch
    <3> QED
      BY <3>1, <3>2, BeginRequest
  <2>2. ASSUME NEW new \in {"cancelled", NoChange}, FollowUp(s, new) PROVE InFlightOK'
    <3> DEFINE r == [Idle EXCEPT !.pc = IF new = "cancelled" THEN "cascade" ELSE "commit",
                             !.want = new, !.seen = status, !.ver = version]
    <3>1. r \in Requests /\ RequestOK(r)
      BY DEF Idle, Requests, RequestOK, Steps, UserSteps, EditSteps, ColumnsOK, Status
    <3>2. Begin(s, r)
      BY <2>2 DEF FollowUp
    <3> QED
      BY <3>1, <3>2, BeginRequest
  <2>3. CASE PatchCapture(s)
    <3> DEFINE r == [op[s] EXCEPT !.pc = "cascade", !.kick = Active]
    <3>1. r \in Requests /\ RequestOK(r)
      BY <2>3 DEF PatchCapture, InFlightOK, Requests, RequestOK, Steps, UserSteps,
                  EditSteps, Active
    <3>2. op' = [op EXCEPT ![s] = r]
      BY <2>3 DEF PatchCapture, InFlightOK, Requests
    <3> QED
      BY <3>1, <3>2, StoreRequest
  <2>4. CASE Cascade(s)
    BY <2>4, GotoStep DEF Cascade, InFlightOK, RequestOK, Requests, Steps, UserSteps,
                          EditSteps
  <2>5. CASE Commit(s) \/ CommitConflict(s) \/ EvictAll(s)
    <3>1. ASSUME Goto(s, "evict_all") PROVE InFlightOK'
      BY <3>1, GotoStep DEF InFlightOK, RequestOK, Requests, Steps, UserSteps, EditSteps
    <3> QED
      BY <2>5, <3>1, FinishRequest DEF Commit, CommitConflict, EvictAll
  <2> QED
    BY <1>5, <2>1, <2>2, <2>3, <2>4, <2>5 DEF Editing
<1>6. ASSUME NEW s \in Slots, Deleting(s) \/ Meshing(s) \/ Chatting(s) \/ Abort(s)
      PROVE  InFlightOK'
  <2>1. CASE Delete(s)
    <3> DEFINE r == [Idle EXCEPT !.pc = "soft_delete"]
    <3>1. r \in Requests /\ RequestOK(r)
      BY DEF Idle, Requests, RequestOK, Steps, UserSteps, EditSteps
    <3>2. Begin(s, r)
      BY <2>1 DEF Delete
    <3> QED
      BY <3>1, <3>2, BeginRequest
  <2>2. CASE DeleteWrite(s)
    <3>1. Goto(s, "clear")
      BY <2>2 DEF DeleteWrite
    <3> QED
      BY <3>1, GotoStep DEF InFlightOK, RequestOK, Requests, Steps, UserSteps, EditSteps
  <2>3. CASE MeshOk(s)
    <3> DEFINE r == [Idle EXCEPT !.pc = "complete", !.want = "completed",
                             !.seen = status]
    <3>1. r \in Requests /\ RequestOK(r)
      BY DEF Idle, Requests, RequestOK, Steps, UserSteps, EditSteps, ColumnsOK, Status
    <3>2. Begin(s, r)
      BY <2>3 DEF MeshOk
    <3> QED
      BY <3>1, <3>2, BeginRequest
  <2>4. ASSUME NEW u \in Users, Subscribe(s, u) PROVE InFlightOK'
    <3> DEFINE r == [Idle EXCEPT
                       !.pc = IF u \in Staff \union {Author} THEN "join" ELSE "check",
                       !.on = u]
    <3>1. r \in Requests /\ RequestOK(r)
      BY DEF Idle, Requests, RequestOK, Steps, UserSteps, EditSteps
    <3>2. Begin(s, r)
      BY <2>4 DEF Subscribe
    <3> QED
      BY <3>1, <3>2, BeginRequest
  <2>5. CASE DeleteClear(s) \/ MeshComplete(s) \/ Join(s) \/ Abort(s)
    BY <2>5, FinishRequest DEF DeleteClear, MeshComplete, Join, Abort
  <2>6. CASE SubscribeCheck(s)
    <3>1. op[s].on \in Users
      BY <2>6 DEF SubscribeCheck, InFlightOK, RequestOK, UserSteps
    <3> QED
      BY <2>6, <3>1, FinishRequest, GotoStep
      DEF SubscribeCheck, RequestOK, Steps, UserSteps, EditSteps
  <2> QED
    BY <1>6, <2>1, <2>2, <2>3, <2>4, <2>5, <2>6 DEF Deleting, Meshing, Chatting
<1>7. ASSUME NEW u \in Users, Leave(u) PROVE InFlightOK'
  BY <1>7 DEF Leave, InFlightOK
<1>8. CASE Restart
  BY <1>8, IdleIsRequest DEF Restart, InFlightOK
<1>9. CASE UNCHANGED vars
  BY <1>9 DEF vars, InFlightOK
<1> QED
  BY <1>1, <1>2, <1>3, <1>4, <1>5, <1>6, <1>7, <1>8, <1>9 DEF Next

\* What a handler that has just read the database carries on.
LEMMA AfterReading ==
    ASSUME InFlightOK, NEW s \in Slots
    PROVE  /\ \A u : Respond(s, u) =>
                  op'[s].pc \in {"lookup", "upsert"} /\ op'[s].on = u
           /\ \A u, new : MyResponse(s, u, new) =>
                  op'[s].pc = "update" /\ op'[s].on = u /\ op'[s].want = new
           /\ \A new : Patch(s, new) \/ FollowUp(s, new) =>
                  op'[s].pc \in EditSteps /\ op'[s].want = new /\ op'[s].seen = status
           /\ MeshOk(s) => op'[s].pc = "complete" /\ op'[s].seen = status
           /\ \A u : Subscribe(s, u) =>
                  op'[s].pc \in {"check", "join"} /\ op'[s].on = u
           /\ RecomputeRead(s) =>
                \/ op'[s].pc = "idle"
                \/ /\ op'[s].pc = "publish" /\ op'[s].seen = status
                   /\ op'[s].want = DerivedStatus /\ op'[s].claim = Primary
<1>1. ASSUME NEW u, Respond(s, u)
      PROVE  op'[s].pc \in {"lookup", "upsert"} /\ op'[s].on = u
  <2> DEFINE step == IF u \in Staff THEN "upsert" ELSE "lookup"
  <2>1. op'[s] = [Idle EXCEPT !.pc = step, !.on = u]
    BY <1>1, SlotAfter DEF Respond
  <2>2. step \in {"lookup", "upsert"}
    OBVIOUS
  <2> HIDE DEF step
  <2> QED
    BY <2>1, <2>2 DEF Idle
<1>2. ASSUME NEW u, NEW new, MyResponse(s, u, new)
      PROVE  op'[s].pc = "update" /\ op'[s].on = u /\ op'[s].want = new
  <2>1. op'[s] = [Idle EXCEPT !.pc = "update", !.on = u, !.want = new]
    BY <1>2, SlotAfter DEF MyResponse
  <2> QED
    BY <2>1 DEF Idle
<1>3. ASSUME NEW new, Patch(s, new)
      PROVE  op'[s].pc \in EditSteps /\ op'[s].want = new /\ op'[s].seen = status
  <2> DEFINE step == CASE new = "cancelled" -> "capture"
                       [] new = "completed" -> "cascade"
                       [] OTHER -> "commit"
  <2>1. op'[s] = [Idle EXCEPT !.pc = step, !.want = new, !.seen = status, !.ver = version]
    BY <1>3, SlotAfter DEF Patch
  <2>2. step \in EditSteps
    BY DEF EditSteps
  <2> HIDE DEF step
  <2> QED
    BY <2>1, <2>2 DEF Idle
<1>4. ASSUME NEW new, FollowUp(s, new)
      PROVE  op'[s].pc \in EditSteps /\ op'[s].want = new /\ op'[s].seen = status
  <2> DEFINE step == IF new = "cancelled" THEN "cascade" ELSE "commit"
  <2>1. op'[s] = [Idle EXCEPT !.pc = step, !.want = new, !.seen = status, !.ver = version]
    BY <1>4, SlotAfter DEF FollowUp
  <2>2. step \in EditSteps
    BY DEF EditSteps
  <2> HIDE DEF step
  <2> QED
    BY <2>1, <2>2 DEF Idle
<1>5. ASSUME MeshOk(s) PROVE op'[s].pc = "complete" /\ op'[s].seen = status
  <2>1. op'[s] = [Idle EXCEPT !.pc = "complete", !.want = "completed",
                              !.seen = status]
    BY <1>5, SlotAfter DEF MeshOk
  <2> QED
    BY <2>1 DEF Idle
<1>6. ASSUME NEW u, Subscribe(s, u)
      PROVE  op'[s].pc \in {"check", "join"} /\ op'[s].on = u
  <2>1. op'[s] = [Idle EXCEPT
                    !.pc = IF u \in Staff \union {Author} THEN "join" ELSE "check",
                    !.on = u]
    BY <1>6, SlotAfter DEF Subscribe
  <2> QED
    BY <2>1 DEF Idle
<1>7. ASSUME RecomputeRead(s), ~Finish(s)
      PROVE  /\ op'[s].pc = "publish" /\ op'[s].seen = status
             /\ op'[s].want = DerivedStatus /\ op'[s].claim = Primary
  <2>1. op'[s] = [Idle EXCEPT !.pc = "publish",
                              !.seen = status, !.want = DerivedStatus,
                              !.held = claimedBy, !.claim = Primary]
    BY <1>7 DEF RecomputeRead, InFlightOK
  <2> QED
    BY <2>1 DEF Idle
<1> QED
  BY <1>1, <1>2, <1>3, <1>4, <1>5, <1>6, <1>7, SlotAfter

\* A slot changes by a step of its own request, or by a restart.
OwnStep(t) ==
    \/ Recompute(t) \/ Responding(t) \/ Updating(t) \/ Judging(t)
    \/ Editing(t) \/ Deleting(t) \/ Meshing(t) \/ Chatting(t)
    \/ Abort(t)

LEMMA SlotMoves ==
    ASSUME [Next]_vars, NEW t \in Slots, InFlightOK, op'[t] # op[t]
    PROVE  OwnStep(t) \/ Restart
<1> USE DEF InFlightOK
<1>1. CASE Restart
  BY <1>1
<1>2. ASSUME NEW s \in Slots, OwnStep(s)
      PROVE  OwnStep(t)
  <2>1. ASSUME NEW r, Begin(s, r) PROVE s = t
    BY <2>1 DEF Begin
  <2>2. ASSUME NEW step, Goto(s, step) PROVE s = t
    BY <2>2 DEF Goto
  <2>3. ASSUME Finish(s) PROVE s = t
    BY <2>3 DEF Finish
  <2>4. CASE Recompute(s) \/ Responding(s)
    BY <1>2, <2>1, <2>2, <2>3, <2>4
    DEF Recompute, Responding, RecomputeRead, RecomputeWrite, Respond, RespondLookup,
        RespondCount, RespondUpsert
  <2>5. CASE Updating(s) \/ Judging(s)
    BY <1>2, <2>1, <2>2, <2>3, <2>5
    DEF Updating, Judging, MyResponse, Withdraw, RemoveParticipant, RemoveFind,
        ResponseUpdate, Evict, Judge, JudgeLoad, JudgeMark
  <2>6. CASE Editing(s)
    BY <1>2, <2>1, <2>2, <2>3, <2>6
    DEF Editing, Patch, FollowUp, PatchCapture, Cascade, Commit, CommitConflict, EvictAll
  <2>7. CASE Deleting(s) \/ Meshing(s) \/ Chatting(s) \/ Abort(s)
    BY <1>2, <2>1, <2>2, <2>3, <2>7
    DEF Deleting, Meshing, Chatting, Abort, Delete, DeleteWrite, DeleteClear, MeshOk,
        MeshComplete, Subscribe, SubscribeCheck, Join
  <2> QED
    BY <1>2, <2>4, <2>5, <2>6, <2>7 DEF OwnStep
<1>3. CASE \E u \in Users : Leave(u)
  BY <1>3 DEF Leave
<1> QED
  BY <1>1, <1>2, <1>3 DEF Next, OwnStep, vars

\* How a request in flight comes to hold something later steps rely on: the
\* other steps leave its slot alone or only take it to one of PlainSteps.
PlainSteps == {"idle", "recompute", "evict", "find", "load", "mark", "evict_all",
               "soft_delete", "clear"}

\* The steps by which a request gets anywhere but to one of PlainSteps.
LEMMA Arrivals ==
    ASSUME TypeOK, [Next]_vars, NEW t \in Slots, op'[t] # op[t],
           op'[t].pc \notin PlainSteps
    PROVE  \/ RecomputeRead(t)
           \/ \E u \in Users : Respond(t, u)
           \/ RespondLookup(t) \/ RespondCount(t)
           \/ \E u \in Users, new \in ResponseStatus : MyResponse(t, u, new)
           \/ RemoveFind(t)
           \/ \E new \in Status \union {NoChange} : Patch(t, new)
           \/ \E new \in {"cancelled", NoChange} : FollowUp(t, new)
           \/ PatchCapture(t) \/ Cascade(t)
           \/ MeshOk(t)
           \/ \E u \in Users : Subscribe(t, u)
           \/ SubscribeCheck(t)
<1> USE DEF TypeOK, InFlightOK, Requests
<1>1. Idle.pc = "idle"
  BY DEF Idle
<1>2. ASSUME Finish(t) PROVE FALSE
  BY <1>1, <1>2 DEF Finish, PlainSteps
<1>3. ASSUME NEW step \in PlainSteps, Goto(t, step) PROVE FALSE
  BY <1>3 DEF Goto
<1>4. ASSUME NEW step \in PlainSteps, NEW u, NEW w,
             Begin(t, [Idle EXCEPT !.pc = step, !.on = u, !.want = w])
      PROVE  FALSE
  BY <1>4 DEF Begin, Idle
<1>5. OwnStep(t)
  <2>1. ASSUME Restart PROVE FALSE
    BY <1>1, <2>1 DEF Restart, PlainSteps
  <2> QED
    BY <2>1, SlotMoves
<1>7. ~RecomputeWrite(t) /\ ~RespondUpsert(t)
  BY <1>2, <1>3 DEF RecomputeWrite, RespondUpsert, PlainSteps
<1>8. ~ResponseUpdate(t) /\ ~Evict(t) /\ ~JudgeMark(t)
  BY <1>2, <1>3 DEF ResponseUpdate, Evict, JudgeMark, PlainSteps
<1>9. \A u \in Users : ~RemoveParticipant(t, u)
  BY DEF RemoveParticipant, Begin, Idle, PlainSteps
<1>10. \A u \in Users, v \in Verdicts : ~Judge(t, u, v)
  BY DEF Judge, Begin, Idle, PlainSteps
<1>11. ~Commit(t) /\ ~CommitConflict(t) /\ ~EvictAll(t)
  BY <1>2, <1>3 DEF Commit, CommitConflict, EvictAll, PlainSteps
<1>12. ~Delete(t)
  BY DEF Delete, Begin, Idle, PlainSteps
<1>13. ~DeleteWrite(t) /\ ~DeleteClear(t) /\ ~MeshComplete(t) /\ ~Join(t) /\ ~Abort(t)
  BY <1>2, <1>3 DEF DeleteWrite, DeleteClear, MeshComplete, Join, Abort, PlainSteps
<1>14. ASSUME JudgeLoad(t) PROVE FALSE
  BY <1>14, <1>2, <1>3 DEF JudgeLoad, PlainSteps
<1> QED
  BY <1>5, <1>7, <1>8, <1>9, <1>10, <1>11, <1>12, <1>13, <1>14
  DEF OwnStep, Recompute, Responding, Updating, Withdraw, Judging, Editing, Deleting, Meshing,
      Chatting, ResponseStatus

\* Rows are listed once created, and an update is about a row that exists.
LEMMA RowsTyped == TypeOK /\ [Next]_vars => RowsOK'
<1> SUFFICES ASSUME TypeOK, [Next]_vars PROVE RowsOK'
  OBVIOUS
<1> USE DEF TypeOK, ColumnsOK, RowsOK
<1>1. ASSUME NEW u \in Users, resp'[u] # NoRow
      PROVE  \E i \in 1 .. Len(order') : order'[i] = u
  <2>1. ASSUME NEW s \in Slots, RespondUpsert(s)
        PROVE  \E i \in 1 .. Len(order') : order'[i] = u
    <3>1. CASE resp[u] # NoRow
      BY <2>1, <3>1 DEF RespondUpsert, InFlightOK, RequestOK, UserSteps
    <3>2. CASE resp[u] = NoRow
      <4>1. u = op[s].on /\ order' = Append(order, u)
        BY <2>1, <1>1, <3>2 DEF RespondUpsert
      <4> QED
        BY <4>1
    <3> QED
      BY <3>1, <3>2
  <2>2. CASE UNCHANGED order
    <3>1. resp[u] # NoRow
      <4>1. ASSUME NEW s \in Slots, ResponseUpdate(s) PROVE resp[u] # NoRow
        BY <4>1, <1>1 DEF ResponseUpdate
      <4>2. ASSUME NEW s \in Slots, Cascade(s) PROVE resp[u] # NoRow
        BY <4>2, <1>1 DEF Cascade, Active
      <4>3. ASSUME NEW s \in Slots, RespondUpsert(s) PROVE resp[u] # NoRow
        <5>1. op[s].on \in Users /\ order' = order
          BY <2>2, <4>3 DEF RespondUpsert, InFlightOK, RequestOK, UserSteps
        <5>2. Append(order, op[s].on) # order
          BY <5>1
        <5> QED
          BY <1>1, <4>3, <5>1, <5>2 DEF RespondUpsert
      <4>4. CASE UNCHANGED resp
        BY <4>4, <1>1
      <4> QED
        BY <4>1, <4>2, <4>3, <4>4, OthersOnlyRead
        DEF WritingStep, responses, RecomputeWrite, Evict, JudgeMark, Commit, EvictAll,
            DeleteWrite, DeleteClear, MeshComplete, Join, Leave, Restart
    <3> QED
      BY <2>2, <3>1
  <2> QED
    BY <2>1, <2>2, OthersOnlyRead
    DEF WritingStep, responses, RecomputeWrite, ResponseUpdate, Cascade, Evict,
        JudgeMark, Commit, EvictAll, DeleteWrite, DeleteClear, MeshComplete, Join,
        Leave, Restart
<1>2. ASSUME NEW t \in Slots, op'[t].pc = "update" PROVE resp'[op'[t].on] # NoRow
  <2>1. op'[t].on \in Users /\ resp[op'[t].on] # NoRow
    <3>1. CASE op'[t] = op[t]
      BY <1>2, <3>1 DEF InFlightOK, RequestOK, UserSteps
    <3>2. CASE op'[t] # op[t]
      <4>1. \/ RemoveFind(t)
            \/ \E u \in Users, new \in ResponseStatus : MyResponse(t, u, new)
        <5>1. op'[t].pc \notin PlainSteps
          BY <1>2 DEF PlainSteps
        <5> QED
          <6>1. ~RecomputeRead(t) /\ ~MeshOk(t)
            BY <1>2, AfterReading
          <6>2. ~RespondLookup(t) /\ ~RespondCount(t) /\ ~SubscribeCheck(t)
            BY <1>2, SlotAfter DEF RespondLookup, RespondCount, SubscribeCheck
          <6>3. ~PatchCapture(t) /\ ~Cascade(t)
            BY <1>2, SlotAfter DEF PatchCapture, Cascade, InFlightOK, Requests
          <6>4. \A u : ~Respond(t, u) /\ ~Subscribe(t, u)
            BY <1>2, AfterReading
          <6>5. \A new : ~Patch(t, new) /\ ~FollowUp(t, new)
            BY <1>2, AfterReading DEF EditSteps
          <6> QED
            BY <3>2, <5>1, <6>1, <6>2, <6>3, <6>4, <6>5, Arrivals
      <4>2. ASSUME RemoveFind(t) PROVE op'[t].on \in Active
        BY <1>2, <4>2, SlotAfter DEF RemoveFind
      <4>3. ASSUME NEW u \in Users, NEW new \in ResponseStatus, MyResponse(t, u, new)
            PROVE  op'[t].on = u /\ resp[u] # NoRow
        BY <4>3 DEF MyResponse, Begin, Idle, InFlightOK
      <4> QED
        BY <4>1, <4>2, <4>3 DEF Active
    <3> QED
      BY <3>1, <3>2
  <2> QED
    BY <2>1, RowsStay
<1> QED
  BY <1>1, <1>2 DEF RowsOK

(* Every handler stores values of the right type at every step, each step  *)
(* finds the fields it uses set, and a response row, once created, stays   *)
(* and is listed in creation order.                                        *)
THEOREM TypeCorrect == Spec => []TypeOK
<1>1. Init => TypeOK
  <2> SUFFICES ASSUME Init PROVE TypeOK
    OBVIOUS
  <2>1. status \in Status /\ resp \in [Users -> ResponseStatus \union {NoRow}]
    BY DEF Init, Status
  <2>1a. order \in Seq(Users)
    BY DEF Init
  <2>1b. ColumnsOK
    BY <2>1, <2>1a DEF Init, ColumnsOK
  <2>2. InFlightOK
    BY IdleIsRequest DEF Init, InFlightOK
  <2>3. RowsOK
    BY DEF Init, RowsOK, Idle
  <2> QED
    BY <2>1b, <2>2, <2>3 DEF TypeOK
<1>2. TypeOK /\ [Next]_vars => TypeOK'
  BY ColumnsTyped, InFlightTyped, RowsTyped DEF TypeOK
<1> QED
  BY <1>1, <1>2, PTL DEF Spec

----------------------------------------------------------------------------
(* The lifecycle of the status.                                            *)

\* What a handler is about to write was lawful for the status it read: an
\* edit goes along a legal transition, a recomputation does not touch a closed
\* request, a mesh message is for a live one.
DecisionsLawful ==
    \A s \in Slots :
        LET r == op[s] IN
        /\ r.pc \in EditSteps => r.want = NoChange \/ ValidTransition(r.seen, r.want)
        /\ r.pc = "publish" => (r.seen \in Closed => r.want = r.seen)
        /\ r.pc = "complete" => r.seen \notin Closed

\* No step makes an unlawful decision or spoils a lawful one.
LEMMA DecisionsStayLawful ==
    TypeOK /\ DecisionsLawful /\ [Next]_vars => DecisionsLawful'
<1> SUFFICES ASSUME TypeOK, DecisionsLawful, [Next]_vars, NEW t \in Slots
             PROVE  LET r == op'[t] IN
                    /\ r.pc \in EditSteps =>
                          r.want = NoChange \/ ValidTransition(r.seen, r.want)
                    /\ r.pc = "publish" => (r.seen \in Closed => r.want = r.seen)
                    /\ r.pc = "complete" => r.seen \notin Closed
  BY DEF DecisionsLawful
<1>1. InFlightOK /\ status \in Status
  BY DEF TypeOK, ColumnsOK
<1>2. CASE op'[t] = op[t]
  BY <1>2 DEF DecisionsLawful
<1>3. CASE op'[t].pc \in PlainSteps
  BY <1>3 DEF PlainSteps, EditSteps
<1>4. CASE RecomputeRead(t)
  BY <1>1, <1>4, AfterReading DEF DerivedStatus, EditSteps
<1>5. ASSUME NEW new \in Status \union {NoChange}, Patch(t, new)
      PROVE  /\ op'[t].pc \in EditSteps
             /\ op'[t].want = NoChange \/ ValidTransition(op'[t].seen, op'[t].want)
  BY <1>1, <1>5, AfterReading DEF Patch
<1>6. ASSUME NEW new \in {"cancelled", NoChange}, FollowUp(t, new)
      PROVE  /\ op'[t].pc \in EditSteps
             /\ op'[t].want = NoChange \/ ValidTransition(op'[t].seen, op'[t].want)
  <2>1. op'[t].pc \in EditSteps /\ op'[t].want = new /\ op'[t].seen = status
    BY <1>1, <1>6, AfterReading
  <2>2. new = "cancelled" => ValidTransition(status, new)
    BY <1>1, <1>6 DEF FollowUp, ValidTransition, Transitions, Status, Closed
  <2> QED
    BY <2>1, <2>2
<1>7. CASE PatchCapture(t) \/ Cascade(t)
  <2>1. /\ op[t].pc \in EditSteps /\ op'[t].pc \in EditSteps
        /\ op'[t].want = op[t].want /\ op'[t].seen = op[t].seen
    BY <1>1, <1>7, SlotAfter
    DEF PatchCapture, Cascade, EditSteps, InFlightOK, Requests
  <2> QED
    BY <2>1 DEF DecisionsLawful, EditSteps
<1>8. CASE MeshOk(t)
  BY <1>1, <1>8, AfterReading DEF MeshOk, EditSteps
<1>9. ASSUME \/ RespondLookup(t) \/ RespondCount(t) \/ RemoveFind(t) \/ SubscribeCheck(t)
             \/ \E u \in Users : Respond(t, u) \/ Subscribe(t, u)
             \/ \E u \in Users, new \in ResponseStatus : MyResponse(t, u, new)
      PROVE  op'[t].pc \notin EditSteps \union {"publish", "complete"}
  <2>1. CASE RespondLookup(t) \/ RespondCount(t) \/ RemoveFind(t) \/ SubscribeCheck(t)
    BY <1>1, <2>1, SlotAfter
    DEF RespondLookup, RespondCount, RemoveFind, SubscribeCheck, EditSteps
  <2> QED
    BY <1>1, <1>9, <2>1, AfterReading DEF EditSteps
<1>10. (op'[t].pc \in EditSteps) => op'[t].pc \notin {"publish", "complete"}
  BY DEF EditSteps
<1> QED
  BY <1>2, <1>3, <1>4, <1>5, <1>6, <1>7, <1>8, <1>9, <1>10, Arrivals

\* A handler in flight writes only what was lawful for the status it read.
LEMMA DecisionsHold == Spec => []DecisionsLawful
<1>1. Init => DecisionsLawful
  BY DEF Init, DecisionsLawful, Idle, EditSteps
<1> QED
  BY <1>1, DecisionsStayLawful, TypeCorrect, PTL DEF Spec

\* Status writers that arrive while the status stands still read it.
LEMMA ArrivingWritersSawStatus ==
    ASSUME TypeOK, [Next]_vars, WritersSaw(status), NEW t \in Slots,
           op'[t].pc \in StatusWriters
    PROVE  op'[t].seen = status
<1>1. InFlightOK
  BY DEF TypeOK
<1>2. CASE op'[t] = op[t]
  BY <1>2 DEF WritersSaw
<1>3. CASE op'[t] # op[t]
  <2>1. op'[t].pc \notin PlainSteps
    BY DEF StatusWriters, EditSteps, PlainSteps
  <2>2. CASE PatchCapture(t) \/ Cascade(t)
    <3>1. op[t].pc \in StatusWriters /\ op'[t].seen = op[t].seen
      BY <1>1, <2>2, SlotAfter
      DEF PatchCapture, Cascade, StatusWriters, EditSteps, InFlightOK, Requests
    <3> QED
      BY <3>1 DEF WritersSaw
  <2>3. CASE RespondLookup(t) \/ RespondCount(t) \/ RemoveFind(t) \/ SubscribeCheck(t)
    BY <1>1, <2>3, SlotAfter
    DEF RespondLookup, RespondCount, RemoveFind, SubscribeCheck, StatusWriters, EditSteps
  <2>4. \A u, new : ~Respond(t, u) /\ ~Subscribe(t, u) /\ ~MyResponse(t, u, new)
    BY <1>1, AfterReading DEF StatusWriters, EditSteps
  <2>5. CASE RecomputeRead(t) \/ MeshOk(t) \/ \E new : Patch(t, new) \/ FollowUp(t, new)
    BY <1>1, <2>5, AfterReading DEF StatusWriters, EditSteps
  <2> QED
    BY <1>3, <2>1, <2>2, <2>3, <2>4, <2>5, Arrivals
<1> QED
  BY <1>2, <1>3

\* The three ways of writing the status.
LEMMA StatusChange ==
    ASSUME [Next]_vars, status' # status
    PROVE  \E s \in Slots : RecomputeWrite(s) \/ Commit(s) \/ MeshComplete(s)
BY OthersOnlyRead
DEF WritingStep, row, RespondUpsert, ResponseUpdate, Evict, JudgeMark, Cascade,
    EvictAll, DeleteWrite, DeleteClear, Join, Leave, Restart

(* A completed request whose older handlers have drained stays completed,  *)
(* with its older handlers drained, for ever.                              *)
THEOREM CompletionFinal == Spec => CompletionIsFinal
<1>1. TypeOK /\ DecisionsLawful /\ [Next]_vars
      => (CompletedSettled => CompletedSettled')
  <2> SUFFICES ASSUME TypeOK, DecisionsLawful, [Next]_vars, CompletedSettled
               PROVE  CompletedSettled'
    OBVIOUS
  <2>1. status' = "completed"
    <3>1. ASSUME NEW s \in Slots, RecomputeWrite(s) PROVE status' = "completed"
      BY <3>1 DEF RecomputeWrite, CompletedSettled, WritersSaw, StatusWriters,
                  DecisionsLawful, Closed
    <3>2. ASSUME NEW s \in Slots, Commit(s) PROVE status' = "completed"
      <4>1. op[s].seen = "completed" /\ op[s].pc \in EditSteps
        BY <3>2 DEF Commit, CompletedSettled, WritersSaw, StatusWriters, EditSteps
      <4>2. op[s].want \in {NoChange, "completed"}
        BY <4>1 DEF DecisionsLawful, ValidTransition, Transitions
      <4> QED
        BY <3>2, <4>2 DEF Commit, CompletedSettled
    <3>3. ASSUME NEW s \in Slots, MeshComplete(s) PROVE status' = "completed"
      BY <3>3 DEF MeshComplete
    <3> QED
      BY <3>1, <3>2, <3>3, StatusChange DEF CompletedSettled
  <2>2. WritersSaw("completed")'
    BY ArrivingWritersSawStatus DEF CompletedSettled, WritersSaw
  <2> QED
    BY <2>1, <2>2 DEF CompletedSettled
<1> QED
  BY <1>1, TypeCorrect, DecisionsHold, PTL DEF Spec, CompletionIsFinal

(* A cancelled request whose older handlers have drained is only revived   *)
(* by an edit that asks for "open".                                        *)
THEOREM CancellationFinal == Spec => CancellationIsTheAuthors
<1> DEFINE Reopened == \E s \in Slots : Commit(s) /\ op[s].want = "open" /\ status' = "open"
<1>1. TypeOK /\ DecisionsLawful /\ [Next]_vars
      => (CancelledSettled /\ status' # status => Reopened)
  <2> SUFFICES ASSUME TypeOK, DecisionsLawful, [Next]_vars, CancelledSettled,
                      status' # status
               PROVE  Reopened
    OBVIOUS
  <2>1. ASSUME NEW s \in Slots, RecomputeWrite(s) PROVE FALSE
    BY <2>1 DEF RecomputeWrite, CancelledSettled, WritersSaw, StatusWriters,
                DecisionsLawful, Closed
  <2>2. ASSUME NEW s \in Slots, MeshComplete(s) PROVE FALSE
    BY <2>2 DEF MeshComplete, CancelledSettled, WritersSaw, StatusWriters,
                DecisionsLawful, Closed
  <2>3. ASSUME NEW s \in Slots, Commit(s) PROVE op[s].want = "open" /\ status' = "open"
    <3>1. op[s].seen = "cancelled" /\ op[s].pc \in EditSteps
      BY <2>3 DEF Commit, CancelledSettled, WritersSaw, StatusWriters, EditSteps
    <3>2. op[s].want \in {NoChange, "cancelled", "open"}
      BY <3>1 DEF DecisionsLawful, ValidTransition, Transitions
    <3> QED
      BY <2>3, <3>2 DEF Commit, CancelledSettled, NoChange
  <2> QED
    BY <2>1, <2>2, <2>3, StatusChange
<1> QED
  BY <1>1, TypeCorrect, DecisionsHold, PTL DEF Spec, CancellationIsTheAuthors

----------------------------------------------------------------------------
(* The denormalised claimer.                                               *)

\* The claimer recomputeRequestStatus derives is a responder.
LEMMA PrimaryIsResponder ==
    ASSUME TypeOK, ClaimsLawful, Primary # NoUser
    PROVE  Primary \in Users /\ Responder(Primary)
<1>1. Primary \in Active
  BY PrimaryIsActive DEF TypeOK
<1> QED
  BY <1>1 DEF Active, Responder, ClaimsLawful

\* No step gives the author a response or outdates a claimer about to be stored.
LEMMA ClaimsStayLawful == TypeOK /\ ClaimsLawful /\ [Next]_vars => ClaimsLawful'
<1> SUFFICES ASSUME TypeOK, ClaimsLawful, [Next]_vars PROVE ClaimsLawful'
  OBVIOUS
<1>1. InFlightOK
  BY DEF TypeOK
<1>2. ASSUME Author \in Users PROVE resp'[Author] = NoRow
  <2>1. resp[Author] = NoRow /\ resp \in [Users -> ResponseStatus \union {NoRow}]
    BY <1>2 DEF ClaimsLawful, TypeOK, ColumnsOK
  <2>2. ASSUME NEW s \in Slots, RespondUpsert(s) PROVE resp'[Author] = NoRow
    BY <2>1, <2>2 DEF RespondUpsert, ClaimsLawful
  <2>3. ASSUME NEW s \in Slots, ResponseUpdate(s) PROVE resp'[Author] = NoRow
    BY <2>1, <2>3 DEF ResponseUpdate, TypeOK, RowsOK
  <2>4. ASSUME NEW s \in Slots, Cascade(s) PROVE resp'[Author] = NoRow
    BY <1>2, <2>1, <2>4 DEF Cascade, Active
  <2>5. CASE UNCHANGED resp
    BY <2>1, <2>5
  <2> QED
    BY <2>2, <2>3, <2>4, <2>5, OthersOnlyRead
    DEF WritingStep, responses, RecomputeWrite, Evict, JudgeMark, Commit, EvictAll,
        DeleteWrite, DeleteClear, MeshComplete, Join, Leave, Restart
<1>3. ASSUME NEW t \in Slots, op'[t].pc \in {"lookup", "count", "upsert"}
      PROVE  op'[t].on # Author
  <2>1. CASE op'[t] = op[t]
    BY <1>3, <2>1 DEF ClaimsLawful
  <2>2. ASSUME NEW u \in Users, Respond(t, u) PROVE op'[t].on # Author
    BY <1>1, <2>2, AfterReading DEF Respond
  <2>3. CASE RespondLookup(t) \/ RespondCount(t)
    BY <1>1, <1>3, <2>3, SlotAfter DEF RespondLookup, RespondCount, ClaimsLawful
  <2>4. ~PatchCapture(t) /\ ~Cascade(t)
    BY <1>1, <1>3, SlotAfter DEF PatchCapture, Cascade, InFlightOK, Requests
  <2>5. ~RemoveFind(t) /\ ~SubscribeCheck(t)
    BY <1>1, <1>3, SlotAfter DEF RemoveFind, SubscribeCheck
  <2>6. ~RecomputeRead(t) /\ ~MeshOk(t)
    BY <1>1, <1>3, AfterReading
  <2>7. \A u, new : ~Subscribe(t, u) /\ ~MyResponse(t, u, new)
    BY <1>1, <1>3, AfterReading
  <2>8. \A new : ~Patch(t, new) /\ ~FollowUp(t, new)
    BY <1>1, <1>3, AfterReading DEF EditSteps
  <2>9. op'[t].pc \notin PlainSteps
    BY <1>3 DEF PlainSteps
  <2> QED
    BY <2>1, <2>2, <2>3, <2>4, <2>5, <2>6, <2>7, <2>8, <2>9, Arrivals
<1>4. ASSUME NEW t \in Slots, op'[t].pc = "publish", op'[t].claim # NoUser
      PROVE  op'[t].claim # Author /\ resp'[op'[t].claim] # NoRow
  <2>1. CASE op'[t] = op[t]
    <3>1. op[t].claim \in Users /\ Responder(op[t].claim)
      BY <1>1, <1>4, <2>1 DEF ClaimsLawful, InFlightOK, Requests
    <3> QED
      BY <2>1, <3>1, RowsStay DEF Responder
  <2>2. CASE RecomputeRead(t)
    <3>1. op'[t].claim = Primary
      BY <1>1, <1>4, <2>2, AfterReading
    <3>2. Primary \in Users /\ Responder(Primary)
      BY <1>4, <3>1, PrimaryIsResponder
    <3> QED
      BY <3>1, <3>2, RowsStay DEF Responder
  <2>3. ~PatchCapture(t) /\ ~Cascade(t)
    BY <1>1, <1>4, SlotAfter DEF PatchCapture, Cascade, InFlightOK, Requests
  <2>4. /\ ~RespondLookup(t) /\ ~RespondCount(t) /\ ~RemoveFind(t)
        /\ ~SubscribeCheck(t)
    BY <1>1, <1>4, SlotAfter DEF RespondLookup, RespondCount, RemoveFind, SubscribeCheck
  <2>5. ~MeshOk(t) /\ \A u, new : ~Respond(t, u) /\ ~Subscribe(t, u) /\ ~MyResponse(t, u, new)
    BY <1>1, <1>4, AfterReading
  <2>6. \A new : ~Patch(t, new) /\ ~FollowUp(t, new)
    BY <1>1, <1>4, AfterReading DEF EditSteps
  <2>7. op'[t].pc \notin PlainSteps
    BY <1>4 DEF PlainSteps
  <2> QED
    BY <2>1, <2>2, <2>3, <2>4, <2>5, <2>6, <2>7, Arrivals
<1> QED
  BY <1>2, <1>3, <1>4 DEF ClaimsLawful, Responder

(* The author never has a response row, and a claimer about to be stored   *)
(* is a responder, although both were checked before an await.             *)
THEOREM LawfulClaims == Spec => []ClaimsLawful
<1>1. Init => ClaimsLawful
  BY DEF Init, ClaimsLawful, Idle
<1> QED
  BY <1>1, ClaimsStayLawful, TypeCorrect, PTL DEF Spec

(* claimed_by is null or names a user who responded and is not the author, *)
(* although recomputeRequestStatus writes it from a snapshot and without   *)
(* a version check.                                                        *)
THEOREM ClaimerIsResponder == Spec => []ClaimerResponded
<1>1. Init => ClaimerResponded
  BY DEF Init, ClaimerResponded
<1>2. TypeOK /\ ClaimsLawful /\ ClaimerResponded /\ [Next]_vars => ClaimerResponded'
  <2> SUFFICES ASSUME TypeOK, ClaimsLawful, ClaimerResponded, [Next]_vars,
                      claimedBy' # NoUser
               PROVE  claimedBy' # Author /\ resp'[claimedBy'] # NoRow
    BY DEF ClaimerResponded, Responder
  <2>1. claimedBy \in Users \union {NoUser}
    BY DEF TypeOK, ColumnsOK
  <2>2. CASE UNCHANGED claimedBy
    BY <2>1, <2>2, RowsStay DEF ClaimerResponded, Responder
  <2>3. ASSUME NEW s \in Slots, RecomputeWrite(s), claimedBy' # claimedBy
        PROVE  claimedBy' # Author /\ resp'[claimedBy'] # NoRow
    <3>1. claimedBy' = op[s].claim /\ op[s].pc = "publish"
      BY <2>3 DEF RecomputeWrite
    <3>2. op[s].claim \in Users /\ Responder(op[s].claim)
      BY <3>1 DEF ClaimsLawful, TypeOK, InFlightOK, Requests
    <3> QED
      BY <3>1, <3>2, RowsStay DEF Responder
  <2>4. UNCHANGED claimedBy \/ \E s \in Slots : RecomputeWrite(s)
    BY OthersOnlyRead
    DEF WritingStep, row, RespondUpsert, ResponseUpdate, Evict, JudgeMark, Cascade,
        Commit, MeshComplete, EvictAll, DeleteWrite, DeleteClear, Join, Leave, Restart
  <2> QED
    BY <2>2, <2>3, <2>4
<1> QED
  BY <1>1, <1>2, TypeCorrect, LawfulClaims, PTL DEF Spec

----------------------------------------------------------------------------
(* The room of a deleted request.                                          *)

(* Once the room of a deleted request is empty of non-staff and no         *)
(* subscribe admitted before the deletion is pending, only staff ever      *)
(* enter it: clearHelpRoom needs to run once.                              *)
THEOREM DeletedRoom == Spec => DeletedRoomStaysClosed
<1>1. TypeOK /\ [Next]_vars => (RoomClosed => RoomClosed')
  <2> SUFFICES ASSUME TypeOK, [Next]_vars, RoomClosed PROVE RoomClosed'
    OBVIOUS
  <2>1. deleted'
    BY OthersOnlyRead
    DEF RoomClosed, WritingStep, row, RecomputeWrite, RespondUpsert, ResponseUpdate,
        Evict, JudgeMark, Cascade, Commit, MeshComplete, EvictAll, DeleteWrite,
        DeleteClear, Join, Leave, Restart
  <2>2. room' \subseteq Staff
    <3>1. ASSUME NEW s \in Slots, Join(s) PROVE room' \subseteq Staff
      BY <3>1 DEF Join, RoomClosed
    <3>2. room' \subseteq room \/ \E s \in Slots : Join(s)
      BY OthersOnlyRead
      DEF WritingStep, RecomputeWrite, RespondUpsert, ResponseUpdate, Evict,
          JudgeMark, Cascade, Commit, MeshComplete, EvictAll, DeleteWrite,
          DeleteClear, Leave, Restart
    <3> QED
      BY <3>1, <3>2 DEF RoomClosed
  <2>3. ASSUME NEW t \in Slots, op'[t].pc \in {"check", "join"}
        PROVE  op'[t].on \in Staff
    <3>1. InFlightOK
      BY DEF TypeOK
    <3>2. CASE op'[t] = op[t]
      BY <2>3, <3>2 DEF RoomClosed
    <3>3. ASSUME NEW u \in Users, Subscribe(t, u) PROVE op'[t].on \in Staff
      BY <3>1, <3>3, AfterReading DEF Subscribe, RoomClosed
    <3>4. ~PatchCapture(t) /\ ~Cascade(t)
      BY <2>3, <3>1, SlotAfter DEF PatchCapture, Cascade, InFlightOK, Requests
    <3>5. ~RespondLookup(t) /\ ~RespondCount(t) /\ ~RemoveFind(t)
      BY <2>3, <3>1, SlotAfter DEF RespondLookup, RespondCount, RemoveFind
    <3>6. /\ ~MeshOk(t) /\ ~RecomputeRead(t)
          /\ \A u, new : ~Respond(t, u) /\ ~MyResponse(t, u, new)
      BY <2>3, <3>1, AfterReading
    <3>7. \A new : ~Patch(t, new) /\ ~FollowUp(t, new)
      BY <2>3, <3>1, AfterReading DEF EditSteps
    <3>8. op'[t].pc \notin PlainSteps
      BY <2>3 DEF PlainSteps
    <3>9. ASSUME SubscribeCheck(t), op'[t] # op[t] PROVE op'[t].on \in Staff
      BY <2>3, <3>1, <3>9, SlotAfter DEF SubscribeCheck, RoomClosed, Idle
    <3> QED
      BY <3>2, <3>3, <3>4, <3>5, <3>6, <3>7, <3>8, <3>9, Arrivals
  <2> QED
    BY <2>1, <2>2, <2>3 DEF RoomClosed
<1> QED
  BY <1>1, TypeCorrect, PTL DEF Spec, DeletedRoomStaysClosed

----------------------------------------------------------------------------
(* Overlapping requests: the histories only watch.                         *)

\* A step of OverlapSpec is a step of Spec that is remembered.
LEMMA OverlapIsHelp == OverlapSpec => Spec
<1>1. OverlapInit => Init
  BY DEF OverlapInit
<1>2. [OverlapNext]_overlapVars => [Next]_vars
  BY DEF OverlapNext, overlapVars
<1> QED
  BY <1>1, <1>2, PTL DEF OverlapSpec, Spec

LEMMA OverlapTypes == OverlapSpec => []TypeOK
BY OverlapIsHelp, TypeCorrect, PTL

\* The operators over the row and the responses, when neither is written.
LEMMA SameReading ==
    ASSUME UNCHANGED <<row, responses>>
    PROVE  /\ DerivedStatus' = DerivedStatus /\ Primary' = Primary /\ Active' = Active
           /\ \A u : MayChat(u)' <=> MayChat(u)
<1> USE DEF row, responses
<1>1. Active' = Active
  BY DEF Active
<1>2. DerivedStatus' = DerivedStatus /\ Primary' = Primary
  BY <1>1 DEF DerivedStatus, Primary, First
<1>3. \A u : MayChat(u)' <=> MayChat(u)
  BY <1>1 DEF MayChat
<1> QED
  BY <1>1, <1>2, <1>3

LEMMA GotoKeeps ==
    ASSUME InFlightOK, NEW s \in Slots, NEW step, Goto(s, step)
    PROVE  op'[s].ver = op[s].ver /\ op'[s].kick = op[s].kick
BY DEF InFlightOK, Requests, Goto

\* What an edit carries from its first step.
LEMMA AfterEdit ==
    ASSUME InFlightOK, NEW s \in Slots, NEW new,
           Patch(s, new) \/ (FollowUp(s, new) /\ new \in {"cancelled", NoChange})
    PROVE  /\ op'[s].pc \in EditSteps /\ op'[s].want = new /\ op'[s].seen = status
           /\ op'[s].ver = version /\ op'[s].kick = {}
           /\ op'[s].pc = "commit" => new \notin Closed
           /\ Patch(s, new) /\ op'[s].pc = "cascade" => new = "completed"
           /\ UNCHANGED <<row, responses, room>>
<1>1. CASE Patch(s, new)
  <2> DEFINE step == CASE new = "cancelled" -> "capture"
                       [] new = "completed" -> "cascade"
                       [] OTHER -> "commit"
  <2>1. op'[s] = [Idle EXCEPT !.pc = step, !.want = new, !.seen = status, !.ver = version]
    BY <1>1, SlotAfter DEF Patch
  <2>2. /\ step \in EditSteps
        /\ step = "commit" => new \notin Closed
        /\ step = "cascade" => new = "completed"
    BY DEF EditSteps, Closed
  <2> HIDE DEF step
  <2>3. /\ op'[s].pc = step /\ op'[s].want = new /\ op'[s].seen = status
        /\ op'[s].ver = version /\ op'[s].kick = {}
    BY <2>1 DEF Idle
  <2> QED
    BY <1>1, <2>2, <2>3 DEF Patch
<1>2. CASE FollowUp(s, new) /\ new \in {"cancelled", NoChange} /\ ~Patch(s, new)
  <2> DEFINE step == IF new = "cancelled" THEN "cascade" ELSE "commit"
  <2>1. op'[s] = [Idle EXCEPT !.pc = step, !.want = new, !.seen = status, !.ver = version]
    BY <1>2, SlotAfter DEF FollowUp
  <2>2. step \in EditSteps /\ (step = "commit" => new \notin Closed)
    BY <1>2 DEF EditSteps, Closed, NoChange
  <2> HIDE DEF step
  <2>3. /\ op'[s].pc = step /\ op'[s].want = new /\ op'[s].seen = status
        /\ op'[s].ver = version /\ op'[s].kick = {}
    BY <2>1 DEF Idle
  <2> QED
    BY <1>2, <2>2, <2>3 DEF FollowUp
<1> QED
  BY <1>1, <1>2

\* The steps that write the responses.
LEMMA ResponsesChange ==
    ASSUME [Next]_vars
    PROVE  \/ UNCHANGED <<resp, order>>
           \/ \E s \in Slots : RespondUpsert(s) \/ ResponseUpdate(s) \/ Cascade(s)
BY OthersOnlyRead
DEF WritingStep, responses, RecomputeWrite, Evict, JudgeMark, Commit, EvictAll,
    DeleteWrite, DeleteClear, MeshComplete, Join, Leave, Restart

\* Editing handlers: where they come from, and what they keep.
LEMMA EditsKeep ==
    ASSUME TypeOK, [Next]_vars, NEW t \in Slots, op'[t].pc \in EditSteps
    PROVE  \/ /\ op[t].pc \in EditSteps
              /\ op'[t].ver = op[t].ver /\ op'[t].want = op[t].want
              /\ op'[t].seen = op[t].seen
              /\ op'[t] = op[t] \/ PatchCapture(t) \/ Cascade(t)
           \/ /\ op[t].pc \notin EditSteps
              /\ op'[t].ver = version /\ version' = version
              /\ op'[t].pc = "commit" => op'[t].want \notin Closed
<1>1. InFlightOK
  BY DEF TypeOK
<1>2. CASE op'[t] = op[t]
  BY <1>2
<1>3. CASE op'[t] # op[t]
  <2>1. op'[t].pc \notin PlainSteps
    BY DEF EditSteps, PlainSteps
  <2>2. CASE PatchCapture(t)
    BY <1>1, <2>2 DEF PatchCapture, EditSteps, InFlightOK, Requests
  <2>3. CASE Cascade(t)
    BY <1>1, <2>3, SlotAfter, GotoKeeps DEF Cascade, EditSteps
  <2>4. CASE \E new \in Status \union {NoChange} : Patch(t, new)
    <3>1. PICK new : Patch(t, new)
      BY <2>4
    <3>2. op[t].pc \notin EditSteps
      BY <3>1 DEF Patch, Begin, Idle, EditSteps
    <3> QED
      BY <1>1, <3>1, <3>2, AfterEdit DEF row
  <2>5. CASE \E new \in {"cancelled", NoChange} : FollowUp(t, new)
    <3>1. PICK new \in {"cancelled", NoChange} : FollowUp(t, new)
      BY <2>5
    <3>2. op[t].pc \notin EditSteps
      BY <3>1 DEF FollowUp, Begin, Idle, EditSteps
    <3> QED
      BY <1>1, <3>1, <3>2, AfterEdit DEF row
  <2>6. ~RespondLookup(t) /\ ~RespondCount(t) /\ ~RemoveFind(t) /\ ~SubscribeCheck(t)
    BY <1>1, SlotAfter DEF RespondLookup, RespondCount, RemoveFind, SubscribeCheck, EditSteps
  <2>7. /\ ~RecomputeRead(t) /\ ~MeshOk(t)
        /\ \A u, new : ~Respond(t, u) /\ ~Subscribe(t, u) /\ ~MyResponse(t, u, new)
    BY <1>1, AfterReading DEF EditSteps
  <2> QED
    BY <1>3, <2>1, <2>2, <2>3, <2>4, <2>5, <2>6, <2>7, Arrivals
<1> QED
  BY <1>2, <1>3

----------------------------------------------------------------------------
(* The status and the versioned edits.                                     *)

\* An edit has read a version the row had, and an older one than the row has
\* once it is overtaken.
EditsTimed ==
    \A s \in Slots :
        /\ op[s].pc \in EditSteps => op[s].ver <= version
        /\ s \in overtaken => op[s].pc \in EditSteps /\ op[s].ver < version

LEMMA VersionMoves ==
    ASSUME TypeOK, [Next]_vars
    PROVE  /\ version \in Nat /\ version <= version'
           /\ \A t \in Slots : Commit(t) => version' = version + 1
<1>1. version \in Nat
  BY DEF TypeOK, ColumnsOK
<1>2. version' = version \/ \E t \in Slots : Commit(t)
  BY OthersOnlyRead
  DEF WritingStep, row, RecomputeWrite, RespondUpsert, ResponseUpdate, Evict, JudgeMark,
      Cascade, EvictAll, DeleteWrite, DeleteClear, MeshComplete, Join, Leave, Restart
<1>3. \A t \in Slots : Commit(t) => version' = version + 1
  BY DEF Commit
<1> QED
  BY <1>1, <1>2, <1>3

LEMMA EditsStayTimed ==
    ASSUME TypeOK, EditsTimed, [OverlapNext]_overlapVars
    PROVE  EditsTimed'
<1>1. [Next]_vars
  BY DEF OverlapNext, overlapVars
<1>2. /\ version \in Nat /\ version' \in Nat /\ version <= version'
      /\ \A t \in Slots : Commit(t) => version' = version + 1
  BY <1>1, VersionMoves, ColumnsTyped DEF ColumnsOK
<1>3. \A s \in Slots : op[s].ver \in Nat
  BY DEF TypeOK, InFlightOK, Requests
<1>4. ASSUME NEW s \in Slots, op'[s].pc \in EditSteps
      PROVE  op'[s].ver <= version'
  BY <1>1, <1>2, <1>3, <1>4, EditsKeep DEF EditsTimed
<1>5. ASSUME NEW s \in Slots, s \in overtaken'
      PROVE  op'[s].pc \in EditSteps /\ op'[s].ver < version'
  <2>1. CASE UNCHANGED overlapVars
    BY <1>5, <2>1 DEF overlapVars, histories, vars, row, EditsTimed
  <2>2. CASE Remember
    <3>1. /\ op'[s].pc \in EditSteps
          /\ \/ s \in overtaken
             \/ op[s].pc \in EditSteps /\ \E t \in Slots : Commit(t)
      BY <1>5, <2>2 DEF Remember, Overtaken
    <3>2. op[s].pc \in EditSteps
      BY <3>1 DEF EditsTimed
    <3>3. op'[s].ver = op[s].ver
      BY <1>1, <3>1, <3>2, EditsKeep
    <3>4. CASE s \in overtaken
      BY <1>2, <1>3, <3>1, <3>3, <3>4 DEF EditsTimed
    <3>5. CASE \E t \in Slots : Commit(t)
      BY <1>2, <1>3, <3>1, <3>2, <3>3, <3>5 DEF EditsTimed
    <3> QED
      BY <3>1, <3>4, <3>5
  <2> QED
    BY <2>1, <2>2 DEF OverlapNext
<1> QED
  BY <1>4, <1>5 DEF EditsTimed

\* A writer that decided on the status as it is takes a legal step.
LEMMA WritesFromCurrentStatus ==
    ASSUME TypeOK, DecisionsLawful, [Next]_vars,
           \A s \in Slots :
              RecomputeWrite(s) \/ MeshComplete(s) \/ Commit(s) => op[s].seen = status
    PROVE  [Life!Next]_(Life!vars)
<1> DEFINE table == [open        |-> Status, claimed   |-> Status,
                     in_progress |-> Status, completed |-> {},
                     cancelled   |-> {"open"}]
<1>1. status \in Status /\ deleted \in BOOLEAN
  BY DEF TypeOK, ColumnsOK
<1>2. ASSUME status' \in table[status], deleted' = deleted
      PROVE  [Life!Next]_(Life!vars)
  BY <1>2 DEF Life!Next, Life!Advance
<1>3. ASSUME NEW s \in Slots, RecomputeWrite(s), status' # status
      PROVE  [Life!Next]_(Life!vars)
  <2>1. op[s].seen = status /\ op[s].pc = "publish"
    BY <1>3 DEF RecomputeWrite
  <2>2. op[s].want \in Status /\ status \notin Closed /\ status' = op[s].want
    BY <1>3, <2>1 DEF RecomputeWrite, DecisionsLawful, TypeOK, InFlightOK, RequestOK
  <2>3. deleted' = deleted
    BY <1>3 DEF RecomputeWrite
  <2>4. table[status] = Status
    BY <1>1, <2>2 DEF Status, Closed
  <2> QED
    BY <1>2, <2>2, <2>3, <2>4
<1>4. ASSUME NEW s \in Slots, Commit(s), status' # status
      PROVE  [Life!Next]_(Life!vars)
  <2>1. op[s].seen = status /\ op[s].pc \in EditSteps
    BY <1>4 DEF Commit, EditSteps
  <2>2. status' = op[s].want /\ op[s].want # NoChange
    BY <1>4 DEF Commit
  <2>3. op[s].want \in Transitions[status]
    BY <1>4, <2>1, <2>2 DEF DecisionsLawful, ValidTransition
  <2>4. Transitions[status] \subseteq table[status]
    BY <1>1 DEF Transitions, Status
  <2>5. deleted' = deleted
    BY <1>4 DEF Commit
  <2> QED
    BY <1>2, <2>2, <2>3, <2>4, <2>5
<1>5. ASSUME NEW s \in Slots, MeshComplete(s), status' # status
      PROVE  [Life!Next]_(Life!vars)
  <2>1. status \notin Closed
    BY <1>5 DEF MeshComplete, DecisionsLawful
  <2>2. table[status] = Status
    BY <1>1, <2>1 DEF Status, Closed
  <2>3. status' \in Status /\ deleted' = deleted
    BY <1>5 DEF MeshComplete, Status
  <2> QED
    BY <1>2, <2>2, <2>3
<1>6. CASE status' = status
  <2>1. deleted' = deleted \/ deleted'
    BY OthersOnlyRead
    DEF WritingStep, row, RecomputeWrite, RespondUpsert, ResponseUpdate, Evict,
        JudgeMark, Cascade, Commit, EvictAll, DeleteWrite, DeleteClear, MeshComplete,
        Join, Leave, Restart
  <2> QED
    BY <1>1, <1>6, <2>1 DEF Life!Next, Life!Withdraw, Life!vars
<1> QED
  BY <1>3, <1>4, <1>5, <1>6, StatusChange

(* However handlers overlap, a write of the status is a legal step from    *)
(* the status it meets unless its handler decided on a status that has     *)
(* changed, and an edit that another edit has overtaken never lands.       *)
THEOREM StatusHasALifecycle == OverlapSpec => StatusObeysLifecycle
<1> DEFINE Landed == \A s \in Slots : Commit(s) => s \notin overtaken
<1> DEFINE Stale == \E s \in Slots : /\ RecomputeWrite(s) \/ MeshComplete(s) \/ Commit(s)
                                     /\ op[s].seen # status
<1> DEFINE Legal == [Life!Next]_(Life!vars)
<1>1. OverlapInit => EditsTimed
  BY DEF OverlapInit, Init, EditsTimed, Idle, EditSteps
<1>2. TypeOK /\ EditsTimed /\ [OverlapNext]_overlapVars => EditsTimed'
  BY EditsStayTimed
<1>3. TypeOK /\ DecisionsLawful /\ EditsTimed /\ [OverlapNext]_overlapVars
      => Landed /\ (Legal \/ Stale)
  <2> SUFFICES ASSUME TypeOK, DecisionsLawful, EditsTimed, [OverlapNext]_overlapVars
               PROVE  Landed /\ (Legal \/ Stale)
    OBVIOUS
  <2>1. [Next]_vars
    BY DEF OverlapNext, overlapVars
  <2>2. Landed
    BY DEF Commit, EditsTimed, TypeOK, ColumnsOK
  <2>3. Legal \/ Stale
    BY <2>1, WritesFromCurrentStatus
  <2> QED
    BY <2>2, <2>3
<1> QED
  BY <1>1, <1>2, <1>3, OverlapIsHelp, TypeCorrect, DecisionsHold, PTL
  DEF OverlapSpec, StatusObeysLifecycle

----------------------------------------------------------------------------
(* The status and the responses.                                           *)

\* Deriving the status once more, from the same responses, changes nothing.
LEMMA DerivedIsStable ==
    ASSUME UNCHANGED responses, status' = DerivedStatus
    PROVE  DerivedStatus' = DerivedStatus
<1>1. Active' = Active /\ resp' = resp
  BY DEF Active, responses
<1>2. CASE status \in Closed
  BY <1>1, <1>2 DEF DerivedStatus
<1>3. CASE status \notin Closed /\ status' \notin Closed
  BY <1>1, <1>3 DEF DerivedStatus
<1>4. CASE status \notin Closed /\ status' \in Closed
  BY <1>1, <1>4 DEF DerivedStatus
<1> QED
  BY <1>2, <1>3, <1>4

\* Unless the row is askew, at most one recomputation is about to write, and
\* it writes what the responses ask for or another one is still to follow.
Reconciled ==
    ~askew =>
      /\ \A s, t \in At("publish") : s = t
      /\ \A s \in At("publish") :
            /\ op[s].seen = status /\ op[s].held = claimedBy
            /\ Settling = {} => op[s].want = DerivedStatus /\ op[s].claim = Primary
      /\ Coherent \/ Settling # {} \/ At("publish") # {}

\* A handler is taken away from a recomputation by three steps only, and comes
\* to one by changing a response.
LEMMA SettlingMoves ==
    ASSUME TypeOK, [Next]_vars, NEW t \in Slots, op'[t] # op[t],
           ~RecomputeRead(t), ~RecomputeWrite(t), ~Abort(t), ~Restart
    PROVE  /\ op[t].pc # "publish" /\ op'[t].pc # "publish"
           /\ op[t].pc \in {"evict", "recompute"} => op'[t].pc = "recompute"
<1>1. InFlightOK
  BY DEF TypeOK
<1>2. OwnStep(t)
  BY <1>1, SlotMoves
<1>3. op'[t].pc # "publish"
  <2>1. ASSUME op'[t].pc = "publish" PROVE FALSE
    <3>1. op'[t].pc \notin PlainSteps
      BY <2>1 DEF PlainSteps
    <3>2. ~RespondLookup(t) /\ ~RespondCount(t) /\ ~RemoveFind(t) /\ ~SubscribeCheck(t)
      BY <1>1, <2>1, SlotAfter
      DEF RespondLookup, RespondCount, RemoveFind, SubscribeCheck, Idle
    <3>3. ~PatchCapture(t) /\ ~Cascade(t)
      BY <1>1, <2>1, SlotAfter DEF PatchCapture, Cascade, InFlightOK, Requests
    <3>4. /\ ~MeshOk(t) /\ \A new : ~Patch(t, new) /\ ~FollowUp(t, new)
          /\ \A u, new : ~Respond(t, u) /\ ~Subscribe(t, u) /\ ~MyResponse(t, u, new)
      BY <1>1, <2>1, AfterReading DEF EditSteps
    <3> QED
      BY <3>1, <3>2, <3>3, <3>4, Arrivals
  <2> QED
    BY <2>1
<1>4. ASSUME op[t].pc \in {"evict", "recompute", "publish"}
      PROVE  Evict(t)
  <2>1. \A r : ~Begin(t, r)
    BY <1>4 DEF Begin, Idle
  <2>2. ~Recompute(t) /\ ~Responding(t) /\ ~Judging(t)
    BY <1>4, <2>1 DEF Recompute, Responding, Judging, Respond, RespondLookup,
                      RespondCount, RespondUpsert, Judge, JudgeLoad, JudgeMark
  <2>3. ~Editing(t)
    BY <1>4, <2>1 DEF Editing, Patch, FollowUp, PatchCapture, Cascade, Commit,
                      CommitConflict, EvictAll
  <2>4. ~Deleting(t) /\ ~Meshing(t) /\ ~Chatting(t)
    BY <1>4, <2>1 DEF Deleting, Meshing, Chatting, Delete, DeleteWrite, DeleteClear,
                      MeshOk, MeshComplete, Subscribe, SubscribeCheck, Join
  <2>5. Updating(t)
    BY <1>2, <2>2, <2>3, <2>4 DEF OwnStep
  <2> QED
    BY <1>4, <2>1, <2>5 DEF Updating, MyResponse, Withdraw, RemoveParticipant,
                            RemoveFind, ResponseUpdate
<1>5. Evict(t) => op[t].pc = "evict" /\ op'[t].pc = "recompute"
  BY <1>1, SlotAfter DEF Evict
<1> QED
  BY <1>3, <1>4, <1>5

LEMMA StaysReconciled ==
    ASSUME TypeOK, Reconciled, [OverlapNext]_overlapVars
    PROVE  Reconciled'
<1> SUFFICES ASSUME ~askew'
             PROVE  /\ \A s, t \in At("publish")' : s = t
                    /\ \A s \in At("publish")' :
                          /\ op'[s].seen = status' /\ op'[s].held = claimedBy'
                          /\ Settling' = {} => /\ op'[s].want = DerivedStatus'
                                               /\ op'[s].claim = Primary'
                    /\ Coherent' \/ Settling' # {} \/ At("publish")' # {}
  BY DEF Reconciled
<1>1. InFlightOK /\ [Next]_vars
  BY DEF TypeOK, OverlapNext, overlapVars
<1>2. CASE UNCHANGED overlapVars
  <2>1. /\ UNCHANGED <<row, responses>> /\ op' = op /\ askew' = askew
        /\ status' = status /\ claimedBy' = claimedBy
    BY <1>2 DEF overlapVars, vars, histories, row
  <2>2. At("publish")' = At("publish") /\ Settling' = Settling
    BY <2>1 DEF At, Settling
  <2>3. DerivedStatus' = DerivedStatus /\ Primary' = Primary /\ Coherent' = Coherent
    BY <2>1, SameReading DEF Coherent
  <2> QED
    BY <2>1, <2>2, <2>3 DEF Reconciled
<1>3. CASE Remember
  <2>1. ~Skewing /\ (~askew \/ \E s \in Slots : RecomputeRead(s))
    BY <1>3 DEF Remember, Skewed
  <2>2. ASSUME NEW s \in Slots, RecomputeRead(s)
        PROVE  /\ \A v, t \in At("publish")' : v = t
               /\ \A v \in At("publish")' :
                     /\ op'[v].seen = status' /\ op'[v].held = claimedBy'
                     /\ Settling' = {} => /\ op'[v].want = DerivedStatus'
                                          /\ op'[v].claim = Primary'
               /\ Coherent' \/ Settling' # {} \/ At("publish")' # {}
    <3>1. At("publish") = {}
      BY <2>1, <2>2 DEF Skewing
    <3>2. UNCHANGED <<row, responses>> /\ status' = status /\ claimedBy' = claimedBy
      BY <2>2 DEF RecomputeRead, row
    <3>3. DerivedStatus' = DerivedStatus /\ Primary' = Primary
      BY <3>2, SameReading
    <3>4. ASSUME NEW t \in Slots, t # s PROVE op'[t] = op[t]
      BY <1>1, <2>2, <3>4 DEF RecomputeRead, Finish, InFlightOK
    <3>5. At("publish")' \subseteq {s}
      BY <3>1, <3>4 DEF At
    <3>6. CASE DerivedStatus = status /\ Primary = claimedBy
      <4>1. op'[s].pc = "idle"
        BY <1>1, <2>2, <3>6, SlotAfter DEF RecomputeRead
      <4>2. At("publish")' = {}
        BY <3>5, <4>1 DEF At
      <4> QED
        BY <3>2, <3>3, <3>6, <4>2 DEF Coherent
    <3>7. CASE ~(DerivedStatus = status /\ Primary = claimedBy)
      <4>1. op'[s] = [Idle EXCEPT !.pc = "publish",
                                  !.seen = status, !.want = DerivedStatus,
                                  !.held = claimedBy, !.claim = Primary]
        BY <1>1, <2>2, <3>7 DEF RecomputeRead, InFlightOK
      <4>2. /\ op'[s].pc = "publish" /\ op'[s].seen = status
            /\ op'[s].want = DerivedStatus /\ op'[s].held = claimedBy
            /\ op'[s].claim = Primary
        BY <4>1 DEF Idle
      <4>3. s \in At("publish")'
        BY <4>2 DEF At
      <4> QED
        BY <3>2, <3>3, <3>5, <4>2, <4>3
    <3> QED
      BY <3>6, <3>7
  <2>3. CASE ~\E s \in Slots : RecomputeRead(s)
    <3>1. /\ \A s, t \in At("publish") : s = t
          /\ \A s \in At("publish") :
                /\ op[s].seen = status /\ op[s].held = claimedBy
                /\ Settling = {} => op[s].want = DerivedStatus /\ op[s].claim = Primary
          /\ Coherent \/ Settling # {} \/ At("publish") # {}
      BY <2>1, <2>3 DEF Reconciled
    <3>2. ASSUME NEW s \in Slots, Abort(s)
          PROVE  op[s].pc \notin {"evict", "recompute", "publish"}
      BY <2>1, <3>2 DEF Skewing, Settling, At
    <3>3. ASSUME Restart, NEW s \in Slots
          PROVE  op[s].pc \notin {"evict", "recompute", "publish"}
      BY <2>1, <3>3 DEF Skewing, Settling, At
    <3>4. ASSUME NEW t \in Slots, ~RecomputeWrite(t)
          PROVE  /\ op'[t].pc = "publish" <=> op[t].pc = "publish"
                 /\ op[t].pc = "publish" => op'[t] = op[t]
                 /\ op[t].pc \in {"evict", "recompute"} =>
                       op'[t].pc \in {"evict", "recompute"}
      <4>1. CASE op'[t] = op[t]
        BY <4>1
      <4>2. CASE op'[t] # op[t] /\ (Abort(t) \/ Restart)
        <5>1. op'[t] = Idle /\ Idle.pc = "idle"
          BY <1>1, <4>2, SlotAfter DEF Abort, Restart, Idle
        <5> QED
          BY <3>2, <3>3, <4>2, <5>1
      <4>3. CASE op'[t] # op[t] /\ ~Abort(t) /\ ~Restart
        BY <1>1, <2>3, <3>4, <4>3, SettlingMoves
      <4> QED
        BY <4>1, <4>2, <4>3
    <3>5. CASE \E s \in Slots : RecomputeWrite(s)
      <4>1. PICK s \in Slots : RecomputeWrite(s)
        BY <3>5
      <4>2. s \in At("publish") /\ UNCHANGED responses
        BY <4>1 DEF RecomputeWrite, At
      <4>3. \A t \in Slots : t # s => op'[t] = op[t]
        BY <1>1, <4>1 DEF RecomputeWrite, Finish, InFlightOK
      <4>4. op'[s].pc = "idle" /\ op[s].pc = "publish"
        BY <1>1, <4>1, SlotAfter DEF RecomputeWrite
      <4>5. At("publish")' = {}
        BY <3>1, <4>2, <4>3, <4>4 DEF At
      <4>6. Settling' = Settling
        BY <4>3, <4>4 DEF Settling, At
      <4>7. CASE Settling = {}
        <5>1. status' = DerivedStatus /\ claimedBy' = Primary
          BY <3>1, <4>1, <4>2, <4>7 DEF RecomputeWrite
        <5>2. Primary' = Primary
          BY <4>2 DEF responses, Primary, First, Active
        <5> QED
          BY <4>2, <4>5, <5>1, <5>2, DerivedIsStable DEF Coherent
      <4> QED
        BY <4>5, <4>6, <4>7
    <3>6. CASE ~\E s \in Slots : RecomputeWrite(s)
      <4>1. At("publish")' = At("publish") /\ \A s \in At("publish") : op'[s] = op[s]
        BY <3>4, <3>6 DEF At
      <4>2. Settling \subseteq Settling'
        BY <3>4, <3>6 DEF Settling, At
      <4>3. CASE UNCHANGED <<status, claimedBy, responses>>
        <5>1. DerivedStatus' = DerivedStatus /\ Primary' = Primary
          BY <4>3 DEF responses, DerivedStatus, Primary, First, Active
        <5> QED
          BY <3>1, <4>1, <4>2, <4>3, <5>1 DEF Coherent
      <4>4. ASSUME NEW s \in Slots,
                   \/ RespondUpsert(s) \/ ResponseUpdate(s) \/ JudgeMark(s)
            PROVE  s \in Settling' /\ UNCHANGED row
        BY <1>1, <4>4, SlotAfter
        DEF RespondUpsert, ResponseUpdate, JudgeMark, Settling, At
      <4>5. CASE \E s \in Slots : RespondUpsert(s) \/ ResponseUpdate(s) \/ JudgeMark(s)
        <5>1. Settling' # {} /\ status' = status /\ claimedBy' = claimedBy
          BY <4>4, <4>5 DEF row
        <5> QED
          BY <3>1, <4>1, <5>1
      <4>6. ASSUME NEW s \in Slots, Cascade(s)
            PROVE  UNCHANGED <<status, claimedBy, responses>>
        BY <2>1, <4>6 DEF Skewing, Cascade, row, responses
      <4>7. ASSUME NEW s \in Slots, Commit(s)
            PROVE  UNCHANGED <<status, claimedBy, responses>>
        BY <2>1, <4>7 DEF Skewing, Commit
      <4>8. CASE \E s \in Slots : MeshComplete(s)
        <5>1. At("publish") = {}
          BY <2>1, <4>8 DEF Skewing
        <5>2. status' = "completed" /\ claimedBy' = claimedBy /\ UNCHANGED responses
          BY <4>8 DEF MeshComplete
        <5>3. Primary' = Primary /\ DerivedStatus' = status'
          BY <5>2 DEF responses, Primary, First, Active, DerivedStatus, Closed
        <5> QED
          BY <3>1, <4>1, <4>2, <5>1, <5>2, <5>3 DEF Coherent
      <4>9. CASE ~WritingStep
        BY <1>1, <4>3, <4>9, OthersOnlyRead DEF row
      <4>10. CASE \E s \in Slots : \/ Evict(s) \/ EvictAll(s) \/ DeleteWrite(s)
                                   \/ DeleteClear(s) \/ Join(s)
        BY <4>3, <4>10 DEF Evict, EvictAll, DeleteWrite, DeleteClear, Join, row
      <4>11. CASE Restart \/ \E u \in Users : Leave(u)
        BY <4>3, <4>11 DEF Restart, Leave, row
      <4> QED
        BY <3>6, <4>3, <4>5, <4>6, <4>7, <4>8, <4>9, <4>10, <4>11 DEF WritingStep
    <3> QED
      BY <3>5, <3>6
  <2> QED
    BY <2>2, <2>3
<1> QED
  BY <1>2, <1>3 DEF OverlapNext

(* Once nothing is in flight the status and claimed_by are what the        *)
(* responses ask for, but for the crossings `askew` remembers.             *)
THEOREM StatusFollowsResponses == OverlapSpec => []StatusTellsResponses
<1>1. OverlapInit => Reconciled
  <2> SUFFICES ASSUME OverlapInit PROVE Reconciled
    OBVIOUS
  <2>1. At("publish") = {}
    BY DEF OverlapInit, Init, At, Idle
  <2>2. Active = {}
    BY DEF OverlapInit, Init, Active
  <2>3. Coherent
    BY <2>2 DEF OverlapInit, Init, Coherent, DerivedStatus, Primary, Closed
  <2> QED
    BY <2>1, <2>3 DEF Reconciled
<1>2. TypeOK /\ Reconciled /\ [OverlapNext]_overlapVars => Reconciled'
  BY StaysReconciled
<1>3. Reconciled => StatusTellsResponses
  BY DEF Reconciled, StatusTellsResponses, Quiet, Settling, At, Idle
<1> QED
  BY <1>1, <1>2, <1>3, OverlapTypes, PTL DEF OverlapSpec

----------------------------------------------------------------------------
(* Closing a request.                                                      *)

\* What a cascade has closed stays closed or is remembered as late, up to the
\* commit and, for a cancellation, beyond it.
Closings ==
    /\ status = "cancelled" => Active \subseteq late
    /\ \A s \in Slots :
          /\ op[s].pc = "publish" /\ op[s].want = "cancelled" => op[s].seen = "cancelled"
          /\ op[s].pc = "commit" /\ op[s].want = "cancelled" => Active \subseteq late
          /\ op[s].pc = "commit" /\ op[s].want = "completed" =>
                \A u \in Active : resp[u] = "helped" \/ u \in late

\* A recomputation does not cancel a request.
LEMMA PublishedCancellation ==
    ASSUME TypeOK, Closings, [Next]_vars, NEW t \in Slots,
           op'[t].pc = "publish", op'[t].want = "cancelled"
    PROVE  op'[t].seen = "cancelled"
<1>1. InFlightOK
  BY DEF TypeOK
<1>2. CASE op'[t] = op[t]
  BY <1>2 DEF Closings
<1>3. CASE RecomputeRead(t)
  <2>1. op'[t].seen = status /\ op'[t].want = DerivedStatus
    BY <1>1, <1>3, AfterReading
  <2> QED
    BY <2>1 DEF DerivedStatus
<1>4. CASE op'[t] # op[t] /\ ~RecomputeRead(t)
  <2>1. ~RecomputeWrite(t) /\ ~Abort(t) /\ ~Restart
    BY <1>1, SlotAfter DEF RecomputeWrite, Abort, Restart, Idle
  <2> QED
    BY <1>4, <2>1, SettlingMoves
<1> QED
  BY <1>2, <1>3, <1>4

LEMMA ClosingsStand ==
    ASSUME TypeOK, Closings, [OverlapNext]_overlapVars
    PROVE  Closings'
<1>1. InFlightOK /\ [Next]_vars /\ resp \in [Users -> ResponseStatus \union {NoRow}]
  BY DEF TypeOK, ColumnsOK, OverlapNext, overlapVars
<1>2. CASE UNCHANGED overlapVars
  BY <1>2 DEF overlapVars, vars, histories, row, responses, Closings, Active
<1>3. CASE Remember
  <2>1. \A u \in Active' : u \in late \/ (resp'[u] # resp[u] /\ Closing) => u \in late'
    BY <1>3 DEF Remember, Late
  <2>2. \A u \in Active' : resp'[u] = resp[u] => u \in Active
    BY DEF Active
  <2>3. ASSUME Active \subseteq late, Closing
        PROVE  Active' \subseteq late'
    BY <2>1, <2>2, <2>3
  <2>4. ASSUME NEW s \in Slots, Cascade(s)
        PROVE  /\ op[s].want = "cancelled" => Active' = {}
               /\ op[s].want = "completed" => \A u \in Active' : resp'[u] = "helped"
    BY <2>4 DEF Cascade, Active
  <2>5. ASSUME status' = "cancelled"
        PROVE  Active' \subseteq late'
    <3>1. CASE status = "cancelled"
      BY <2>3, <3>1 DEF Closings, Closing
    <3>2. CASE status # "cancelled"
      <4>1. ASSUME NEW s \in Slots, RecomputeWrite(s) PROVE FALSE
        BY <2>5, <3>2, <4>1 DEF RecomputeWrite, Closings
      <4>2. ASSUME NEW s \in Slots, Commit(s) PROVE Active' \subseteq late'
        <5>1. op[s].pc = "commit" /\ op[s].want = "cancelled"
          BY <2>5, <3>2, <4>2 DEF Commit
        <5>2. Active \subseteq late /\ Closing
          BY <5>1 DEF Closings, Closing, At, Closed
        <5> QED
          BY <2>3, <5>2
      <4>3. ASSUME NEW s \in Slots, MeshComplete(s) PROVE FALSE
        BY <2>5, <4>3 DEF MeshComplete
      <4> QED
        BY <1>1, <2>5, <3>2, <4>1, <4>2, <4>3, StatusChange
    <3> QED
      BY <3>1, <3>2
  <2>6. ASSUME NEW s \in Slots, op'[s].pc = "commit", op'[s].want \in Closed
        PROVE  \/ op[s].pc = "commit" /\ op[s].want = op'[s].want /\ Closing
               \/ Cascade(s) /\ op[s].want = op'[s].want
    <3>1. op'[s].pc \in EditSteps
      BY <2>6 DEF EditSteps
    <3>2. ~PatchCapture(s)
      BY <1>1, <2>6 DEF PatchCapture, InFlightOK, Requests
    <3>3. op'[s].want = op[s].want /\ (op'[s] = op[s] \/ Cascade(s))
      BY <1>1, <2>6, <3>1, <3>2, EditsKeep
    <3> QED
      BY <2>6, <3>3 DEF Closing, At
  <2>7. ASSUME NEW s \in Slots, op'[s].pc = "commit", op'[s].want = "cancelled"
        PROVE  Active' \subseteq late'
    BY <2>3, <2>4, <2>6, <2>7 DEF Closings, Closed
  <2>8. ASSUME NEW s \in Slots, op'[s].pc = "commit", op'[s].want = "completed",
               NEW u \in Active'
        PROVE  resp'[u] = "helped" \/ u \in late'
    <3>1. CASE Cascade(s) /\ op[s].want = "completed"
      BY <2>4, <3>1
    <3>2. CASE op[s].pc = "commit" /\ op[s].want = "completed" /\ Closing
      BY <2>1, <2>2, <3>2 DEF Closings
    <3> QED
      BY <2>6, <2>8, <3>1, <3>2 DEF Closed
  <2> QED
    BY <1>1, <2>5, <2>7, <2>8, PublishedCancellation DEF Closings
<1> QED
  BY <1>2, <1>3 DEF OverlapNext

LEMMA ClosingsHold == OverlapSpec => []Closings
<1>1. OverlapInit => Closings
  BY DEF OverlapInit, Init, Closings, Idle
<1> QED
  BY <1>1, ClosingsStand, OverlapTypes, PTL DEF OverlapSpec

(* Whoever still helps with a cancelled request changed the response after *)
(* the cancellation had closed it: no order of responses, edits, failures  *)
(* and restarts leaves an older one active.                                *)
THEOREM CancellationReachesAll == OverlapSpec => []CancelledForAll
<1>1. Closings => CancelledForAll
  BY DEF Closings, CancelledForAll
<1> QED
  BY <1>1, ClosingsHold, PTL

(* The commit that closes a request finds its responses closed, except for *)
(* those written between the updateMany and the versioned update.          *)
THEOREM ClosingIsComplete == OverlapSpec => ClosingReachesResponses
<1> DEFINE Reached == \A s \in Slots : Commit(s) =>
                         /\ op[s].want = "cancelled" => Active' \subseteq late'
                         /\ op[s].want = "completed" =>
                              \A u \in Active' : resp'[u] = "helped" \/ u \in late'
<1>1. Closings /\ OverlapNext => Reached
  <2> SUFFICES ASSUME Closings, Remember, NEW s \in Slots, Commit(s)
               PROVE  /\ op[s].want = "cancelled" => Active' \subseteq late'
                      /\ op[s].want = "completed" =>
                            \A u \in Active' : resp'[u] = "helped" \/ u \in late'
    BY DEF OverlapNext
  <2>1. resp' = resp /\ Active' = Active /\ op[s].pc = "commit"
    BY DEF Commit, responses, Active
  <2>2. \A u \in Active' : u \in late => u \in late'
    BY DEF Remember, Late
  <2> QED
    BY <2>1, <2>2 DEF Closings
<1>2. Closings /\ [OverlapNext]_overlapVars => [Reached]_overlapVars
  BY <1>1
<1> QED
  BY <1>2, ClosingsHold, PTL DEF OverlapSpec, ClosingReachesResponses

----------------------------------------------------------------------------
(* The participant cap.                                                    *)

\* Requests that have passed the count and are about to create a response.
Places ==
    {s \in Slots : /\ op[s].pc = "upsert" /\ op[s].on \notin Staff
                   /\ resp[op[s].on] = NoRow}

\* First responses and those about to become one, together.
PlacesCounted ==
    /\ firsts \subseteq Active
    /\ firsts # {} \/ Places # {} =>
          Cardinality(firsts) + Cardinality(Places) < Cap + Cardinality(Slots)

\* A request gets to create a response of somebody who is not staff by
\* counting, and below the cap only.
LEMMA PlaceTaken ==
    ASSUME TypeOK, [Next]_vars, NEW t \in Slots, t \in Places', t \notin Places
    PROVE  UNCHANGED <<row, responses>> /\ Cardinality(Active) < Cap
<1>1. InFlightOK
  BY DEF TypeOK
<1>2. /\ op'[t].pc = "upsert" /\ op'[t].on \notin Staff
      /\ resp'[op'[t].on] = NoRow
  BY DEF Places
<1>3. op'[t] # op[t]
  <2>1. ASSUME op'[t] = op[t] PROVE FALSE
    <3>1. op[t].on \in Users
      BY <1>1, <1>2, <2>1 DEF InFlightOK, RequestOK, UserSteps
    <3>2. resp[op[t].on] = NoRow
      BY <1>2, <2>1, <3>1, RowsStay
    <3> QED
      BY <1>2, <2>1, <3>2 DEF Places
  <2> QED
    BY <2>1
<1>4. op'[t].pc \notin PlainSteps
  BY <1>2 DEF PlainSteps
<1>5. \A u \in Users : ~Respond(t, u)
  <2> SUFFICES ASSUME NEW u \in Users, Respond(t, u) PROVE FALSE
    OBVIOUS
  <2> DEFINE step == IF u \in Staff THEN "upsert" ELSE "lookup"
  <2>1. op'[t] = [Idle EXCEPT !.pc = step, !.on = u]
    BY <1>1, SlotAfter DEF Respond
  <2>2. step = "upsert" => u \in Staff
    OBVIOUS
  <2> HIDE DEF step
  <2> QED
    BY <1>2, <2>1, <2>2 DEF Idle
<1>6. ~RespondLookup(t)
  <2>1. ASSUME RespondLookup(t) PROVE FALSE
    <3>1. resp[op[t].on] = "cancelled" /\ resp' = resp /\ op'[t].on = op[t].on
      BY <1>1, <1>2, <2>1, SlotAfter DEF RespondLookup, responses
    <3> QED
      BY <1>2, <3>1 DEF NoRow
  <2> QED
    BY <2>1
<1>7. CASE RespondCount(t)
  <2>1. ~(Cardinality(Active) >= Cap) /\ UNCHANGED <<row, responses>>
    BY <1>1, <1>2, <1>7, SlotAfter DEF RespondCount, Idle
  <2>2. Cardinality(Active) \in Nat
    BY UsersAssumption, FS_Subset, FS_CardinalityType DEF Active
  <2> QED
    BY <2>1, <2>2, BoundsAssumption
<1>8. ~PatchCapture(t) /\ ~Cascade(t)
  BY <1>1, <1>2, SlotAfter DEF PatchCapture, Cascade, InFlightOK, Requests
<1>9. ~RemoveFind(t) /\ ~SubscribeCheck(t)
  BY <1>1, <1>2, SlotAfter DEF RemoveFind, SubscribeCheck
<1>10. /\ ~RecomputeRead(t) /\ ~MeshOk(t)
       /\ \A u, new : ~Subscribe(t, u) /\ ~MyResponse(t, u, new)
  BY <1>1, <1>2, AfterReading
<1>11. \A new : ~Patch(t, new) /\ ~FollowUp(t, new)
  BY <1>1, <1>2, AfterReading DEF EditSteps
<1> QED
  BY <1>3, <1>4, <1>5, <1>6, <1>7, <1>8, <1>9, <1>10, <1>11, Arrivals

\* A first response is created from one of the places.
LEMMA FirstFromPlace ==
    ASSUME TypeOK, [Next]_vars, NEW u \in Active', u \notin Staff, resp[u] = NoRow
    PROVE  \E s \in Places : /\ op[s].on = u /\ s \notin Places'
                             /\ \A v \in Users : v # u => resp'[v] = resp[v]
<1>1. InFlightOK /\ resp \in [Users -> ResponseStatus \union {NoRow}]
  BY DEF TypeOK, ColumnsOK
<1>2. u \in Users /\ resp'[u] # NoRow
  BY DEF Active
<1>3. ASSUME NEW s \in Slots, ResponseUpdate(s) PROVE FALSE
  BY <1>1, <1>2, <1>3 DEF ResponseUpdate, TypeOK, RowsOK
<1>4. ASSUME NEW s \in Slots, Cascade(s) PROVE FALSE
  BY <1>1, <1>2, <1>4 DEF Cascade, Active
<1>5. ASSUME NEW s \in Slots, RespondUpsert(s)
      PROVE  /\ s \in Places /\ op[s].on = u /\ s \notin Places'
             /\ \A v \in Users : v # u => resp'[v] = resp[v]
  <2>1. op[s].on = u
    BY <1>1, <1>2, <1>5 DEF RespondUpsert
  <2>2. op'[s].pc = "recompute"
    BY <1>1, <1>5, SlotAfter DEF RespondUpsert
  <2> QED
    BY <1>1, <1>5, <2>1, <2>2 DEF RespondUpsert, Places
<1>6. resp' # resp
  BY <1>2
<1> QED
  BY <1>3, <1>4, <1>5, <1>6, ResponsesChange

LEMMA PlacesFinite ==
    /\ IsFiniteSet(Active) /\ Cardinality(Active) \in Nat
    /\ \A S \in SUBSET Slots : /\ IsFiniteSet(S) /\ Cardinality(S) \in Nat
                               /\ Cardinality(S) <= Cardinality(Slots)
<1>1. Active \subseteq Users
  BY DEF Active
<1> QED
  BY <1>1, UsersAssumption, SlotsAssumption, FS_Subset, FS_CardinalityType

LEMMA PlacesStayCounted ==
    ASSUME TypeOK, TypeOK', PlacesCounted, [OverlapNext]_overlapVars
    PROVE  PlacesCounted'
<1>1. [Next]_vars /\ Cap \in Nat
  BY BoundsAssumption DEF OverlapNext, overlapVars
<1>2. CASE UNCHANGED overlapVars
  <2>1. firsts' = firsts /\ op' = op /\ resp' = resp
    BY <1>2 DEF overlapVars, vars, histories, responses
  <2>2. Places' = Places /\ Active' = Active
    BY <2>1 DEF Places, Active
  <2> QED
    BY <2>1, <2>2 DEF PlacesCounted
<1>3. CASE Remember
  <2>1. firsts' = {u \in Active' : u \in firsts \/ (u \notin Staff /\ resp[u] = NoRow)}
    BY <1>3 DEF Remember, Firsts
  <2>2. firsts' \subseteq Active'
    BY <2>1
  <2>3. /\ IsFiniteSet(firsts) /\ Cardinality(firsts) \in Nat
        /\ Cardinality(firsts) <= Cardinality(Active)
        /\ Cardinality(Active) \in Nat
    BY PlacesFinite, FS_Subset, FS_CardinalityType DEF PlacesCounted
  <2>4. /\ Cardinality(Places) \in Nat /\ Cardinality(Places') \in Nat
        /\ Cardinality(Places') <= Cardinality(Slots)
        /\ Cardinality(Slots) \in Nat
        /\ IsFiniteSet(Places) /\ IsFiniteSet(Places')
    <3>1. Places \in SUBSET Slots /\ Places' \in SUBSET Slots /\ Slots \in SUBSET Slots
      BY DEF Places
    <3> QED
      BY <3>1, PlacesFinite
  <2>5. CASE \E u \in Active' : u \notin Staff /\ resp[u] = NoRow
    <3>1. PICK u \in Active' : u \notin Staff /\ resp[u] = NoRow
      BY <2>5
    <3>2. PICK s \in Places : /\ op[s].on = u /\ s \notin Places'
                              /\ \A v \in Users : v # u => resp'[v] = resp[v]
      BY <1>1, <3>1, FirstFromPlace
    <3>3. firsts' \subseteq firsts \union {u}
      <4> SUFFICES ASSUME NEW v \in firsts', v \notin firsts, v # u PROVE FALSE
        OBVIOUS
      <4>1. v \in Active' /\ resp[v] = NoRow
        BY <2>1
      <4>2. v \in Users /\ resp'[v] # NoRow
        BY <4>1 DEF Active
      <4> QED
        BY <3>2, <4>1, <4>2
    <3>4. Places' \subseteq Places
      <4>1. resp'[u] # resp[u]
        BY <3>1 DEF Active
      <4> QED
        BY <1>1, <4>1, PlaceTaken DEF Places, responses
    <3>5. /\ Cardinality(firsts') \in Nat
          /\ Cardinality(firsts') <= Cardinality(firsts) + 1
      <4>1. /\ IsFiniteSet(firsts \union {u})
            /\ \/ Cardinality(firsts \union {u}) = Cardinality(firsts)
               \/ Cardinality(firsts \union {u}) = Cardinality(firsts) + 1
        BY <2>3, FS_AddElement, Zenon
      <4>2. /\ IsFiniteSet(firsts') /\ Cardinality(firsts') \in Nat
            /\ Cardinality(firsts') <= Cardinality(firsts \union {u})
        BY <3>3, <4>1, FS_Subset, FS_CardinalityType
      <4> QED
        BY <2>3, <4>1, <4>2
    <3>6. Cardinality(Places') + 1 <= Cardinality(Places)
      <4>1. Places' \subseteq Places \ {s}
        BY <3>2, <3>4
      <4>2. /\ IsFiniteSet(Places \ {s})
            /\ Cardinality(Places \ {s}) = Cardinality(Places) - 1
        BY <2>4, <3>2, FS_RemoveElement
      <4>3. Cardinality(Places') <= Cardinality(Places \ {s})
        BY <4>1, <4>2, FS_Subset
      <4> QED
        BY <2>4, <4>2, <4>3
    <3>7. Cardinality(firsts) + Cardinality(Places) < Cap + Cardinality(Slots)
      BY <3>2 DEF PlacesCounted
    <3> QED
      BY <1>1, <2>2, <2>3, <2>4, <3>5, <3>6, <3>7 DEF PlacesCounted
  <2>6. CASE ~\E u \in Active' : u \notin Staff /\ resp[u] = NoRow
    <3>1. firsts' \subseteq firsts
      BY <2>1, <2>6
    <3>2. Cardinality(firsts') \in Nat /\ Cardinality(firsts') <= Cardinality(firsts)
      BY <2>3, <3>1, FS_Subset, FS_CardinalityType
    <3>3. CASE Places' \subseteq Places
      <4>1. Cardinality(Places') <= Cardinality(Places)
        BY <2>4, <3>3, FS_Subset
      <4>2. CASE firsts' = {} /\ Places' = {}
        BY <2>2, <4>2 DEF PlacesCounted
      <4>3. CASE firsts' # {} \/ Places' # {}
        <5>1. Cardinality(firsts) + Cardinality(Places) < Cap + Cardinality(Slots)
          BY <3>1, <3>3, <4>3 DEF PlacesCounted
        <5> QED
          BY <1>1, <2>2, <2>3, <2>4, <3>2, <4>1, <5>1 DEF PlacesCounted
      <4> QED
        BY <4>2, <4>3
    <3>4. CASE ~(Places' \subseteq Places)
      <4>1. Cardinality(Active) < Cap
        <5>1. PICK t \in Places' : t \notin Places
          BY <3>4
        <5>2. t \in Slots
          BY <5>1 DEF Places
        <5> QED
          BY <1>1, <5>1, <5>2, PlaceTaken
      <4> QED
        BY <1>1, <2>2, <2>3, <2>4, <3>2, <4>1 DEF PlacesCounted
    <3> QED
      BY <3>3, <3>4
  <2> QED
    BY <2>5, <2>6
<1> QED
  BY <1>2, <1>3 DEF OverlapNext

(* The count and the insert of a first response are two queries, and the   *)
(* cap is overrun by less than the number of requests in flight.           *)
THEOREM CapOverrun == OverlapSpec => []OverrunIsBounded
<1>1. OverlapInit => PlacesCounted
  BY DEF OverlapInit, Init, PlacesCounted, Places, Idle
<1>2. TypeOK /\ TypeOK' /\ PlacesCounted /\ [OverlapNext]_overlapVars => PlacesCounted'
  BY PlacesStayCounted
<1>3. TypeOK /\ PlacesCounted => OverrunIsBounded
  <2> SUFFICES ASSUME PlacesCounted, firsts # {}
               PROVE  Cardinality(firsts) < Cap + Cardinality(Slots)
    BY DEF OverrunIsBounded
  <2>1. Places \in SUBSET Slots /\ Slots \in SUBSET Slots
    BY DEF Places
  <2>2. /\ Cardinality(firsts) \in Nat /\ Cardinality(Places) \in Nat
        /\ Cardinality(Slots) \in Nat /\ Cap \in Nat
    BY <2>1, PlacesFinite, FS_Subset, FS_CardinalityType, BoundsAssumption
    DEF PlacesCounted
  <2> QED
    BY <2>2 DEF PlacesCounted
<1> QED
  BY <1>1, <1>2, <1>3, OverlapTypes, PTL DEF OverlapSpec

----------------------------------------------------------------------------
(* The handshake.                                                          *)

\* A verdict about to be stored meets the other one on a contested response
\* only.
VerdictsWatched ==
    /\ confirmed \intersect rejected \subseteq contested
    /\ Contested \subseteq contested
    /\ \A s \in At("mark") :
          /\ op[s].want = "confirm" => op[s].on \notin rejected \/ op[s].on \in contested
          /\ op[s].want = "reject" => op[s].on \notin confirmed \/ op[s].on \in contested

\* A request comes to store a verdict from the check that allows it.
LEMMA MarkFromLoad ==
    ASSUME TypeOK, [Next]_vars, NEW t \in Slots, op'[t] # op[t], op'[t].pc = "mark"
    PROVE  /\ UNCHANGED responses
           /\ op[t].want = "undo" \/ op[t].on \notin confirmed \union rejected
           /\ op'[t].on = op[t].on /\ op'[t].want = op[t].want
<1>1. InFlightOK /\ Idle.pc = "idle"
  BY DEF TypeOK, Idle
<1>2. ~Finish(t) /\ \A step : step # "mark" => ~Goto(t, step)
  BY <1>1, SlotAfter
<1>3. ASSUME NEW step, step # "mark", NEW u, NEW w,
             Begin(t, [Idle EXCEPT !.pc = step, !.on = u, !.want = w])
      PROVE  FALSE
  BY <1>1, <1>3, SlotAfter DEF Idle
<1>4. JudgeLoad(t)
  <2>1. ~Recompute(t) /\ ~Responding(t)
    BY <1>1, <1>2, AfterReading
    DEF Recompute, Responding, RecomputeWrite, RespondLookup, RespondCount, RespondUpsert
  <2>2. ~Updating(t)
    <3>1. \A u \in Users : ~RemoveParticipant(t, u)
      BY <1>3 DEF RemoveParticipant
    <3> QED
      BY <1>1, <1>2, <3>1, AfterReading
      DEF Updating, Withdraw, RemoveFind, ResponseUpdate, Evict
  <2>3. ~Editing(t)
    <3>1. ~PatchCapture(t)
      BY <1>1 DEF PatchCapture, InFlightOK, Requests
    <3> QED
      BY <1>1, <1>2, <3>1, AfterReading
      DEF Editing, Cascade, Commit, CommitConflict, EvictAll, EditSteps
  <2>4. ~Deleting(t) /\ ~Meshing(t) /\ ~Chatting(t) /\ ~Abort(t)
    <3>1. ~Delete(t)
      BY <1>1, SlotAfter DEF Delete, Idle
    <3> QED
      BY <1>1, <1>2, <3>1, AfterReading
      DEF Deleting, Meshing, Chatting, Abort, DeleteWrite, DeleteClear, MeshComplete,
          SubscribeCheck, Join
  <2>5. ~JudgeMark(t) /\ \A u \in Users, v \in Verdicts : ~Judge(t, u, v)
    BY <1>2, <1>3 DEF JudgeMark, Judge
  <2>6. ~Restart
    BY <1>1 DEF Restart
  <2> QED
    BY <1>1, <2>1, <2>2, <2>3, <2>4, <2>5, <2>6, SlotMoves DEF OwnStep, Judging
<1>5. /\ Goto(t, "mark") /\ UNCHANGED responses
      /\ op[t].want = "undo" \/ op[t].on \notin confirmed \union rejected
  BY <1>2, <1>4 DEF JudgeLoad
<1> QED
  BY <1>1, <1>5, SlotAfter

LEMMA VerdictsStayWatched ==
    ASSUME TypeOK, VerdictsWatched, [OverlapNext]_overlapVars
    PROVE  VerdictsWatched'
<1>1. InFlightOK /\ [Next]_vars
  BY DEF TypeOK, OverlapNext, overlapVars
<1>2. contested \subseteq contested' /\ Contested' \subseteq contested'
  <2>1. CASE UNCHANGED overlapVars
    <3>1. contested' = contested /\ Contested' = Contested
      BY <2>1 DEF overlapVars, vars, histories, Contested, At
    <3> QED
      BY <3>1 DEF VerdictsWatched
  <2>2. CASE Remember
    BY <2>2 DEF Remember
  <2> QED
    BY <2>1, <2>2 DEF OverlapNext
<1>3. CASE \E s \in Slots : JudgeMark(s)
  <2>1. PICK s \in Slots : JudgeMark(s)
    BY <1>3
  <2>2. \A t \in Slots : t # s => op'[t] = op[t]
    BY <1>1, <2>1 DEF JudgeMark, Goto, InFlightOK
  <2>3. op'[s].pc = "recompute" /\ s \in At("mark")
    BY <1>1, <2>1, SlotAfter DEF JudgeMark, At
  <2>4. \A t \in At("mark")' : t \in At("mark") /\ t # s /\ op'[t] = op[t]
    BY <2>2, <2>3 DEF At
  <2>5. /\ confirmed' \subseteq confirmed \union {op[s].on}
        /\ rejected' \subseteq rejected \union {op[s].on}
        /\ op[s].want # "confirm" => confirmed' = confirmed
        /\ op[s].want # "reject" => rejected' \subseteq rejected
    BY <2>1 DEF JudgeMark
  <2>6. confirmed' \intersect rejected' \subseteq contested'
    <3>1. CASE op[s].want = "confirm"
      BY <1>2, <2>3, <2>5, <3>1 DEF VerdictsWatched
    <3>2. CASE op[s].want = "reject"
      BY <1>2, <2>3, <2>5, <3>2 DEF VerdictsWatched
    <3>3. CASE op[s].want \notin {"confirm", "reject"}
      BY <1>2, <2>5, <3>3 DEF VerdictsWatched
    <3> QED
      BY <3>1, <3>2, <3>3
  <2>7. ASSUME NEW t \in At("mark")', op'[t].want = "confirm"
        PROVE  op'[t].on \notin rejected' \/ op'[t].on \in contested'
    <3>1. t \in At("mark") /\ op'[t] = op[t]
      BY <2>4
    <3>2. ASSUME op[s].want = "reject", op[s].on = op[t].on
          PROVE  op[t].on \in contested
      <4>1. op[t].on \in Users
        BY <1>1, <3>1 DEF At, InFlightOK, RequestOK, UserSteps
      <4> QED
        BY <2>3, <2>7, <3>1, <3>2, <4>1 DEF Contested, VerdictsWatched
    <3> QED
      BY <1>2, <2>5, <2>7, <3>1, <3>2 DEF VerdictsWatched
  <2>8. ASSUME NEW t \in At("mark")', op'[t].want = "reject"
        PROVE  op'[t].on \notin confirmed' \/ op'[t].on \in contested'
    <3>1. t \in At("mark") /\ op'[t] = op[t]
      BY <2>4
    <3>2. ASSUME op[s].want = "confirm", op[s].on = op[t].on
          PROVE  op[t].on \in contested
      <4>1. op[t].on \in Users
        BY <1>1, <3>1 DEF At, InFlightOK, RequestOK, UserSteps
      <4> QED
        BY <2>3, <2>8, <3>1, <3>2, <4>1 DEF Contested, VerdictsWatched
    <3> QED
      BY <1>2, <2>5, <2>8, <3>1, <3>2 DEF VerdictsWatched
  <2> QED
    BY <1>2, <2>6, <2>7, <2>8 DEF VerdictsWatched
<1>4. CASE ~\E s \in Slots : JudgeMark(s)
  <2>1. confirmed' = confirmed /\ rejected' = rejected
    BY <1>1, <1>4, OthersOnlyRead
    DEF WritingStep, responses, RecomputeWrite, RespondUpsert, ResponseUpdate, Evict,
        Cascade, Commit, EvictAll, DeleteWrite, DeleteClear, MeshComplete, Join, Leave,
        Restart
  <2>2. ASSUME NEW t \in At("mark")'
        PROVE  /\ op'[t].want = "confirm" =>
                     op'[t].on \notin rejected' \/ op'[t].on \in contested'
               /\ op'[t].want = "reject" =>
                     op'[t].on \notin confirmed' \/ op'[t].on \in contested'
    <3>1. t \in Slots /\ op'[t].pc = "mark"
      BY DEF At
    <3>2. CASE op'[t] = op[t]
      <4>1. t \in At("mark")
        BY <3>1, <3>2 DEF At
      <4> QED
        BY <1>2, <2>1, <3>2, <4>1 DEF VerdictsWatched
    <3>3. CASE op'[t] # op[t]
      BY <1>1, <2>1, <3>1, <3>3, MarkFromLoad
    <3> QED
      BY <3>2, <3>3
  <2> QED
    BY <1>2, <2>1, <2>2 DEF VerdictsWatched
<1> QED
  BY <1>3, <1>4

(* Both verdicts get on one response only if confirm and reject were past  *)
(* the check of each other at the same time.                               *)
THEOREM VerdictsExclude == OverlapSpec => []VerdictsAgree
<1>1. OverlapInit => VerdictsWatched
  BY DEF OverlapInit, Init, VerdictsWatched, Contested, At, Idle
<1>2. TypeOK /\ VerdictsWatched /\ [OverlapNext]_overlapVars => VerdictsWatched'
  BY VerdictsStayWatched
<1>3. VerdictsWatched => VerdictsAgree
  BY DEF VerdictsWatched, VerdictsAgree
<1> QED
  BY <1>1, <1>2, <1>3, OverlapTypes, PTL DEF OverlapSpec

----------------------------------------------------------------------------
(* The chat room.                                                          *)

\* Whoever is in the room without access is about to be evicted, or a stray.
EvictionsPending ==
    \A u \in room : MayChat(u) \/ u \in strays \/ \E s \in Slots : Evicting(op[s], u)

\* A request about to evict somebody does so, hands the duty on, or gives up.
LEMMA EvictionMoves ==
    ASSUME TypeOK, [Next]_vars, NEW t \in Slots, NEW u, Evicting(op[t], u)
    PROVE  \/ Evicting(op'[t], u)
           \/ u \notin room'
           \/ CommitConflict(t) \/ Abort(t)
<1>1. InFlightOK
  BY DEF TypeOK
<1>2. CASE op'[t] = op[t]
  BY <1>2
<1>3. CASE Restart
  BY <1>3 DEF Restart
<1>4. CASE op'[t] # op[t] /\ ~Restart
  <2>1. OwnStep(t) /\ op[t].pc \in {"evict", "commit", "evict_all", "clear"}
    BY <1>1, <1>4, SlotMoves DEF Evicting
  <2>2. \A r : ~Begin(t, r)
    BY <2>1 DEF Begin, Idle
  <2>3. ~Recompute(t) /\ ~Responding(t) /\ ~Judging(t)
    BY <2>1, <2>2 DEF Recompute, RecomputeRead, RecomputeWrite, Responding, Judging,
                      Respond, RespondLookup, RespondCount, RespondUpsert, Judge,
                      JudgeLoad, JudgeMark
  <2>4. ~Meshing(t) /\ ~Chatting(t)
    BY <2>1, <2>2 DEF Meshing, Chatting, MeshOk, MeshComplete, Subscribe,
                      SubscribeCheck, Join
  <2>5. Updating(t) => Evict(t)
    BY <2>1, <2>2 DEF Updating, MyResponse, Withdraw, RemoveParticipant, RemoveFind,
                      ResponseUpdate
  <2>6. Deleting(t) => DeleteClear(t)
    BY <2>1, <2>2 DEF Deleting, Delete, DeleteWrite
  <2>7. Editing(t) => Commit(t) \/ CommitConflict(t) \/ EvictAll(t)
    BY <2>1, <2>2 DEF Editing, Patch, FollowUp, PatchCapture, Cascade
  <2>8. CASE Evict(t) \/ DeleteClear(t) \/ EvictAll(t)
    BY <2>8 DEF Evict, DeleteClear, EvictAll, Evicting
  <2>9. CASE Commit(t)
    <3>1. u \in op[t].kick
      BY <2>9 DEF Commit, Evicting
    <3>2. Goto(t, "evict_all")
      BY <2>9, <3>1 DEF Commit
    <3>3. op'[t].pc = "evict_all" /\ op'[t].kick = op[t].kick
      BY <1>1, <3>2, SlotAfter, GotoKeeps
    <3> QED
      BY <3>1, <3>3 DEF Evicting
  <2> QED
    BY <2>1, <2>3, <2>4, <2>5, <2>6, <2>7, <2>8, <2>9 DEF OwnStep
<1> QED
  BY <1>2, <1>3, <1>4

\* Access is taken away by a step that goes on to an eviction, or by a
\* cancellation that has not captured the helper.
LEMMA AccessMoves ==
    ASSUME TypeOK, [Next]_vars, NEW u \in Users, MayChat(u), ~MayChat(u)'
    PROVE  \/ \E t \in Slots : Evicting(op'[t], u)
           \/ u \in Active /\ \E t \in Slots : Cascade(t) /\ u \notin op[t].kick
<1>1. InFlightOK /\ resp \in [Users -> ResponseStatus \union {NoRow}]
  BY DEF TypeOK, ColumnsOK
<1>2. ASSUME NEW t \in Slots, DeleteWrite(t) PROVE Evicting(op'[t], u)
  BY <1>1, <1>2, SlotAfter DEF DeleteWrite, Evicting
<1>3. CASE deleted' # deleted
  <2>1. \E t \in Slots : DeleteWrite(t)
    BY <1>3, OthersOnlyRead
    DEF WritingStep, row, RecomputeWrite, RespondUpsert, ResponseUpdate, Evict,
        JudgeMark, Cascade, Commit, EvictAll, DeleteClear, MeshComplete, Join, Leave,
        Restart
  <2> QED
    BY <1>2, <2>1
<1>4. CASE deleted' = deleted
  <2>1. u \in Active /\ u \notin Active'
    BY <1>4 DEF MayChat
  <2>2. ASSUME NEW t \in Slots, RespondUpsert(t) PROVE FALSE
    BY <1>1, <2>1, <2>2 DEF RespondUpsert, Active, NoRow
  <2>3. ASSUME NEW t \in Slots, ResponseUpdate(t) PROVE Evicting(op'[t], u)
    <3>1. op[t].want \in ResponseStatus /\ resp' = [resp EXCEPT ![op[t].on] = op[t].want]
      BY <1>1, <2>3 DEF ResponseUpdate, InFlightOK, RequestOK
    <3>2. u = op[t].on /\ op[t].want = "cancelled"
      BY <1>1, <2>1, <3>1 DEF Active, ResponseStatus, NoRow
    <3>3. op'[t].pc = "evict" /\ op'[t].on = u
      BY <1>1, <2>3, <3>2, SlotAfter DEF ResponseUpdate
    <3> QED
      BY <3>3 DEF Evicting
  <2>4. ASSUME NEW t \in Slots, Cascade(t), u \in op[t].kick PROVE Evicting(op'[t], u)
    <3>1. op'[t].pc = "commit" /\ op'[t].kick = op[t].kick
      BY <1>1, <2>4, SlotAfter, GotoKeeps DEF Cascade
    <3> QED
      BY <2>4, <3>1 DEF Evicting
  <2>5. resp' # resp
    BY <2>1 DEF Active
  <2> QED
    BY <2>1, <2>2, <2>3, <2>4, <2>5, ResponsesChange
<1> QED
  BY <1>3, <1>4

LEMMA EvictionsStayPending ==
    ASSUME TypeOK, EvictionsPending, [OverlapNext]_overlapVars
    PROVE  EvictionsPending'
<1>1. InFlightOK /\ [Next]_vars /\ room \subseteq Users
  BY DEF TypeOK, ColumnsOK, OverlapNext, overlapVars
<1>2. CASE UNCHANGED overlapVars
  <2>1. /\ room' = room /\ strays' = strays /\ op' = op
        /\ deleted' = deleted /\ resp' = resp
    BY <1>2 DEF overlapVars, vars, histories, row, responses
  <2> QED
    BY <2>1 DEF EvictionsPending, MayChat, Active, Evicting
<1>3. CASE Remember
  <2> SUFFICES ASSUME NEW u \in room', ~MayChat(u)', u \notin strays'
               PROVE  \E t \in Slots : Evicting(op'[t], u)
    BY DEF EvictionsPending, Evicting
  <2>1. u \notin strays /\ ~StrayingNow(u)
    BY <1>3 DEF Remember, Strays
  <2>2. u \in room /\ u \in Users
    BY <1>1, <2>1 DEF StrayingNow
  <2>3. CASE MayChat(u)
    BY <1>1, <2>1, <2>2, <2>3, AccessMoves DEF StrayingNow
  <2>4. CASE \E t \in Slots : Evicting(op[t], u)
    <3>1. PICK t \in Slots : Evicting(op[t], u)
      BY <2>4
    <3>2. ~CommitConflict(t) /\ ~Abort(t)
      BY <2>1, <3>1 DEF StrayingNow
    <3> QED
      BY <1>1, <3>1, <3>2, EvictionMoves
  <2> QED
    BY <2>1, <2>2, <2>3, <2>4 DEF EvictionsPending
<1> QED
  BY <1>2, <1>3 DEF OverlapNext

(* Whoever is in the room without access once nothing is in flight has     *)
(* joined, or not been evicted, through one of the crossings `strays`      *)
(* remembers; every other handler that takes access away evicts.           *)
THEOREM RoomIsCurrent == OverlapSpec => []RoomMatchesAccess
<1>1. OverlapInit => EvictionsPending
  BY DEF OverlapInit, Init, EvictionsPending
<1>2. TypeOK /\ EvictionsPending /\ [OverlapNext]_overlapVars => EvictionsPending'
  BY EvictionsStayPending
<1>3. EvictionsPending => RoomMatchesAccess
  BY DEF EvictionsPending, RoomMatchesAccess, Quiet, Evicting, Idle
<1> QED
  BY <1>1, <1>2, <1>3, OverlapTypes, PTL DEF OverlapSpec
============================================================================
