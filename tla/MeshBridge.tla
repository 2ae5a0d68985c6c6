------------------------------ MODULE MeshBridge ------------------------------
(* How the bridge of the radio mesh hands messages to the API                *)
(* (scripts/meshtastic-bridge/bridge.py).  One thread hears the radio, one   *)
(* sends heartbeats; what their POST cannot deliver goes to a queue in       *)
(* SQLite that a third thread works off.  The process may die at any time,   *)
(* and SQLite may fail; the queue survives.  What the API takes twice is     *)
(* counted twice: except for river levels, which it compares with the last   *)
(* five minutes, the webhook has nothing to recognise a message by.          *)
EXTENDS Naturals, SequencesExt

CONSTANTS
    Reports,     \* messages of the mesh
    Beats,       \* heartbeats
    Refused,     \* what the API answers with a 4xx
    RetryMax,    \* retry_max
    MaxCrashes,  \* bound on the restarts of the bridge and the failures of SQLite
    MaxLost      \* bound on the answers lost on the way back

Items == Reports \cup Beats

ASSUME BridgeAssumption ==
    /\ Reports \cap Beats = {} /\ Refused \subseteq Items
    /\ RetryMax \in Nat \ {0} /\ MaxCrashes \in Nat /\ MaxLost \in Nat

VARIABLES
    heard,    \* what a POST was begun for
    posting,  \* first POSTs under way
    queue,    \* offline_queue, by id
    retries,  \* its column retries
    todo,     \* what the pass over the queue has still to do
    unread,   \* stored by the API, the answer still on its way
    rows,     \* rows[i]: how often the API took i
    crashes, lost,
    saved,    \* history: what was ever queued
    dropped,  \* history: what the pass gave up
    tries,    \* history: how often the pass failed to send i
    cut       \* history: first POSTs a crash cut off or SQLite did not take

disk == <<queue, retries>>
history == <<saved, dropped, tries, cut>>
bridgeVars == <<heard, posting, disk, todo, unread, rows, crashes, lost, history>>

Queue == ToSet(queue)
MaxRows == 1 + MaxCrashes + MaxLost

BridgeTypeOK ==
    /\ posting \subseteq heard /\ heard \subseteq Items
    /\ queue \in Seq(Items) /\ IsInjective(queue)
    /\ todo \in Seq(Items)
    /\ unread \subseteq Items
    /\ retries \in [Items -> 0 .. RetryMax] /\ tries \in [Items -> 0 .. RetryMax]
    /\ rows \in [Items -> 0 .. MaxRows]
    /\ crashes \in 0 .. MaxCrashes /\ lost \in 0 .. MaxLost
    /\ saved \subseteq heard /\ dropped \subseteq saved /\ cut \subseteq heard

BridgeInit ==
    /\ heard = {} /\ posting = {} /\ queue = <<>> /\ todo = <<>> /\ unread = {}
    /\ retries = [i \in Items |-> 0] /\ tries = [i \in Items |-> 0]
    /\ rows = [i \in Items |-> 0]
    /\ crashes = 0 /\ lost = 0
    /\ saved = {} /\ dropped = {} /\ cut = {}

-----------------------------------------------------------------------------

\* A message is heard, or a heartbeat is due: each thread has one POST.
Hear(i) ==
    /\ i \notin heard
    /\ \A j \in posting : (j \in Beats) # (i \in Beats)
    /\ heard' = heard \cup {i}
    /\ posting' = posting \cup {i}
    /\ UNCHANGED <<disk, todo, unread, rows, crashes, lost, history>>

\* What is being sent: first POSTs and the item the pass is at.
Sending == posting \cup (IF todo = <<>> THEN {} ELSE {i \in {todo[1]} : retries[i] < RetryMax})

\* The API stores the report of a request that has reached it.
Take(i) ==
    /\ i \in Sending \ (unread \cup Refused)
    /\ rows' = [rows EXCEPT ![i] = @ + 1]
    /\ unread' = unread \cup {i}
    /\ UNCHANGED <<heard, posting, disk, todo, crashes, lost, history>>

\* The answer arrives.
Accepted(i) ==
    /\ i \in posting \cap unread
    /\ posting' = posting \ {i}
    /\ unread' = unread \ {i}
    /\ UNCHANGED <<heard, disk, todo, rows, crashes, lost, history>>

\* No answer: the request failed, or the answer did not arrive in time.
NoAnswer(i) ==
    /\ i \in unread => lost < MaxLost
    /\ lost' = IF i \in unread THEN lost + 1 ELSE lost
    /\ unread' = unread \ {i}

\* post queues what failed, for whatever reason: the status of an error
\* answer is read as 0, so that a 4xx is queued like the rest.
Queues(i, more) ==
    /\ i \in posting
    /\ NoAnswer(i)
    /\ posting' = posting \ {i}
    /\ queue' = queue \o more
    /\ saved' = saved \cup {i}
    /\ UNCHANGED <<heard, retries, todo, rows, crashes, dropped, tries, cut>>
\* mutant: it is queued by post and by its caller
FailsTwice(i) == Queues(i, <<i, i>>)
Fails(i) == Queues(i, <<i>>)

-----------------------------------------------------------------------------
(* process_queue, one pass at a time.                                       *)

StartPass ==
    /\ todo = <<>> /\ queue # <<>>
    /\ todo' = queue
    /\ UNCHANGED <<heard, posting, disk, unread, rows, crashes, lost, history>>

\* A row leaves the queue, and the pass goes on to the next.
Forget(i) ==
    /\ queue' = RemoveFirst(queue, i)
    /\ retries' = [retries EXCEPT ![i] = 0]
    /\ todo' = Tail(todo)

\* An item that used up its retries is dropped ...
Abandons(limit) ==
    /\ todo # <<>>
    /\ LET i == Head(todo)
       IN  retries[i] >= limit /\ Forget(i) /\ dropped' = dropped \cup {i}
    /\ UNCHANGED <<heard, posting, unread, rows, crashes, lost, saved, tries, cut>>
\* mutant: the retry in hand is counted before it is made
AbandonEarly == Abandons(RetryMax - 1)
Abandon == Abandons(RetryMax)

\* ... one that was stored is removed ...
Removed(i) ==
    /\ Forget(i) /\ unread' = unread \ {i}
    /\ UNCHANGED <<heard, posting, rows, crashes, lost, history>>
\* mutant: an error answer passes for a success
DeliveredUnchecked == todo # <<>> /\ retries[Head(todo)] < RetryMax /\ Removed(Head(todo))
\* mutant: the row stays in the queue
DeliveredKept ==
    /\ todo # <<>> /\ Head(todo) \in unread
    /\ todo' = Tail(todo) /\ unread' = unread \ {Head(todo)}
    /\ UNCHANGED <<heard, posting, disk, rows, crashes, lost, history>>
Delivered ==
    /\ todo # <<>> /\ Head(todo) \in unread /\ retries[Head(todo)] < RetryMax
    /\ Removed(Head(todo))

\* ... and one that failed is counted and left for the next pass; the pass
\* sleeps before it goes on.
Retried(counted) ==
    /\ todo # <<>>
    /\ LET i == Head(todo)
       IN  /\ retries[i] < RetryMax
           /\ NoAnswer(i)
           /\ retries' = [retries EXCEPT ![i] = @ + counted]
           /\ tries' = [tries EXCEPT ![i] = @ + counted]
    /\ todo' = Tail(todo)
    /\ UNCHANGED <<heard, posting, queue, rows, crashes, saved, dropped, cut>>
\* mutant: the failure is not counted
RetryUncounted == Retried(0)
Retry == Retried(1)

-----------------------------------------------------------------------------

\* The bridge dies and is started again: only the queue is left.
Crash ==
    /\ crashes < MaxCrashes
    /\ crashes' = crashes + 1
    /\ posting' = {} /\ todo' = <<>> /\ unread' = {}
    /\ cut' = cut \cup posting
    /\ UNCHANGED <<heard, disk, rows, lost, saved, dropped, tries>>

\* SQLite fails.  A POST that is not queued is lost, the thread that heard the
\* message swallows the error ...
EnqueueFails(i) ==
    /\ i \in posting
    /\ crashes < MaxCrashes
    /\ crashes' = crashes + 1
    /\ posting' = posting \ {i} /\ unread' = unread \ {i}
    /\ cut' = cut \cup {i}
    /\ UNCHANGED <<heard, disk, todo, rows, lost, saved, dropped, tries>>

\* ... and a row that is not removed, or its try not counted, ends the pass.
UpdateFails ==
    /\ todo # <<>>
    /\ crashes < MaxCrashes
    /\ crashes' = crashes + 1
    /\ todo' = <<>> /\ unread' = unread \ {Head(todo)}
    /\ UNCHANGED <<heard, posting, disk, rows, lost, history>>

BridgeNext ==
    \/ \E i \in Items : Hear(i) \/ Take(i) \/ Accepted(i) \/ Fails(i) \/ EnqueueFails(i)
    \/ StartPass \/ Abandon \/ Delivered \/ Retry \/ UpdateFails
    \/ Crash

\* A request ends, by its timeout if nothing else, and the three threads run.
BridgeFairness ==
    /\ \A i \in Items : WF_bridgeVars(Accepted(i) \/ Fails(i))
    /\ WF_bridgeVars(StartPass) /\ WF_bridgeVars(Abandon \/ Delivered \/ Retry)

BridgeSpec == BridgeInit /\ [][BridgeNext]_bridgeVars
FairBridgeSpec == BridgeSpec /\ BridgeFairness

-----------------------------------------------------------------------------

Excused == {i \in saved : rows[i] > 0 \/ tries[i] = RetryMax}
Promise == INSTANCE SavedReports WITH
    Reports <- Items, saved <- saved, kept <- Queue, excused <- Excused

(* A queued message stays in the queue until the API stored it or it was    *)
(* tried retry_max times, over restarts in the middle of a pass             *)
(* (bridge.py:237).                                                         *)
KeepsReports == Promise!Spec

(* Whatever was heard was stored, or is on its way or in the queue, unless  *)
(* the queue used up its tries, or the bridge died during the first POST or *)
(* SQLite did not take it, which nothing recorded (bridge.py:410, 201).     *)
HeardIsAccountedFor ==
    \A i \in heard : rows[i] > 0 \/ i \in posting \cup Queue \cup dropped \cup cut

(* A message is stored again only for an answer that was lost, a restart    *)
(* that forgot it or a row that could not be removed: the first POST and    *)
(* the pass never both send it (bridge.py:265, 219).                        *)
StoredAgainForACause == \A i \in Items : rows[i] <= 1 + lost + crashes

(* A message that waits in the queue leaves it: the pass reaches it past    *)
(* the items before it, and its tries run out (bridge.py:246).              *)
Drains == \A i \in Items : i \in Queue ~> i \notin Queue

(* "4xx = permanent failure, don't retry" (bridge.py:214): a message that   *)
(* the API refuses is not queued.                                           *)
RefusedIsNotRetried == Queue \cap Refused = {}

=============================================================================
