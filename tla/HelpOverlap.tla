---------------------------- MODULE HelpOverlap ----------------------------
(* HelpRequest with histories of what its handlers did to each other.      *)
(* The code promises little about handlers that overlap: a recomputation   *)
(* stores an older view, a helper responds behind a cascade, two first     *)
(* responses share the last place, confirm and reject each miss the other, *)
(* a join follows the eviction.  A history remembers that such a crossing  *)
(* has happened, and to whom; the properties say that nothing else goes    *)
(* wrong, whatever the interleaving, failures and restarts.                *)
(* The histories change no step: OverlapSpec has the behaviours of Spec.   *)
EXTENDS HelpRequest

ASSUME SlotsAssumption == IsFiniteSet(Slots)

VARIABLES
    overtaken,  \* slots whose edit has been overtaken by another one
    askew,      \* the row need not be what the responses ask for
    late,       \* helpers who took up a request after its responses closed
    firsts,     \* non-staff whose active response is the one they created
    contested,  \* helpers confirmed and rejected by two calls at once
    strays      \* users left in the chat room through a crossing

histories == <<overtaken, askew, late, firsts, contested, strays>>
overlapVars == <<vars, histories>>

HistoriesOK ==
    /\ overtaken \subseteq Slots
    /\ askew \in BOOLEAN
    /\ late \subseteq Users /\ firsts \subseteq Users
    /\ contested \subseteq Users /\ strays \subseteq Users

OverlapInit ==
    /\ Init
    /\ overtaken = {} /\ askew = FALSE
    /\ late = {} /\ firsts = {} /\ contested = {} /\ strays = {}

----------------------------------------------------------------------------
\* another edit commits while this one is under way
Overtaken ==
    {s \in Slots :
        /\ op'[s].pc \in EditSteps
        /\ \/ s \in overtaken
           \/ op[s].pc \in EditSteps /\ \E t \in Slots : Commit(t)}

At(step) == {s \in Slots : op[s].pc = step}

\* steps of a handler that has changed a response and not recomputed yet
Settling == At("evict") \union At("recompute")

\* what sets the row apart from the responses until the next recomputation
\* that no other one overlaps
Skewing ==
    \/ \E s \in Slots : RecomputeRead(s) /\ At("publish") # {}
    \/ \E s \in Slots : MeshComplete(s) /\ At("publish") # {}
    \/ \E s \in Slots : Cascade(s) /\ resp' # resp
    \/ \E s \in Slots : Commit(s) /\ status' # status
    \/ \E s \in Slots : Abort(s) /\ s \in Settling \union At("publish")
    \/ Restart /\ Settling \union At("publish") # {}

Skewed == Skewing \/ (askew /\ ~\E s \in Slots : RecomputeRead(s))

\* the request is cancelled, or a closing has passed its cascade
Closing == status = "cancelled" \/ \E s \in At("commit") : op[s].want \in Closed

Late == {u \in Active' : u \in late \/ (resp'[u] # resp[u] /\ Closing)}

Firsts == {u \in Active' : u \in firsts \/ (u \notin Staff /\ resp[u] = NoRow)}

\* confirm and reject are both past the check of the other
Contested ==
    {u \in Users : \E s, t \in At("mark") :
        /\ op[s].on = u /\ op[s].want = "confirm"
        /\ op[t].on = u /\ op[t].want = "reject"}

\* whom the request r is about to take out of the room
Evicting(r, u) ==
    \/ r.pc = "evict" /\ u = r.on
    \/ r.pc \in {"commit", "evict_all"} /\ u \in r.kick
    \/ r.pc = "clear"

\* ways to be in the room without access: a join whose check has expired, a
\* cancellation that did not capture the helper (the follow-up captures
\* nobody), an eviction given up by a conflict or a failure
StrayingNow(u) ==
    \/ u \notin room
    \/ u \in Active /\ \E s \in Slots : Cascade(s) /\ u \notin op[s].kick
    \/ \E s \in Slots : (CommitConflict(s) \/ Abort(s)) /\ Evicting(op[s], u)

Strays == {u \in room' : ~MayChat(u)' /\ (u \in strays \/ StrayingNow(u))}

Remember ==
    /\ overtaken' = Overtaken
    /\ askew' = Skewed
    /\ late' = Late
    /\ firsts' = Firsts
    /\ contested' = contested \union Contested'
    /\ strays' = Strays

OverlapNext == Next /\ Remember

OverlapSpec == OverlapInit /\ [][OverlapNext]_overlapVars

----------------------------------------------------------------------------
(* When a write of the status lands, it is a legal step from the status as *)
(* it is then; if it is not, the handler decided on a status that has      *)
(* changed since.  For an edit that can only be the unversioned write of a *)
(* recomputation or of the mesh handler: no edit lands over another one.   *)
StatusObeysLifecycle ==
    [][/\ \A s \in Slots : Commit(s) => s \notin overtaken
       /\ \/ [Life!Next]_(Life!vars)
          \/ \E s \in Slots :
                /\ RecomputeWrite(s) \/ MeshComplete(s) \/ Commit(s)
                /\ op[s].seen # status]_overlapVars

(* When nothing is in flight, the denormalised status and claimed_by are   *)
(* what the responses ask for, unless one of these has happened since the  *)
(* last recomputation that no other one overlapped: two recomputations at  *)
(* once, a mesh OK during one, an edit of the status, a closing, a failure.*)
StatusTellsResponses == Quiet /\ ~askew => Coherent

(* Nobody goes on helping a cancelled request without having changed the   *)
(* response after the cancellation closed it: the cascade forgets no one,  *)
(* whatever reached the responses before it.                               *)
CancelledForAll == status = "cancelled" => Active \subseteq late

(* The commit that closes a request finds its responses closed: cancelled, *)
(* or helped if it completes, but for those taken up behind the cascade.   *)
ClosingReachesResponses ==
    [][\A s \in Slots : Commit(s) =>
         /\ op[s].want = "cancelled" => Active' \subseteq late'
         /\ op[s].want = "completed" =>
              \A u \in Active' : resp'[u] = "helped" \/ u \in late']_overlapVars

(* First responses by people who are not staff exceed the cap by no more   *)
(* than the calls that counted at the same time: one less than the number  *)
(* of requests in flight.                                                  *)
OverrunIsBounded == firsts # {} => Cardinality(firsts) < Cap + Cardinality(Slots)

(* A response is thanked for and marked as "did not happen" at once only   *)
(* if a confirm and a reject were in flight together, both past the check  *)
(* of the other.  Achievements count confirmed responses.                  *)
VerdictsAgree == confirmed \intersect rejected \subseteq contested

(* When nothing is in flight, whoever is in the chat room may read the     *)
(* chat over HTTP, or has come to stay in one of the three ways above.     *)
RoomMatchesAccess == Quiet => \A u \in room : MayChat(u) \/ u \in strays
============================================================================
