------------------------------- MODULE HelpChat -------------------------------
(* The discussion of one help request: its messages, the open chats of the   *)
(* participants, and the reports that coordinators settle                    *)
(* (routes/helpRequests.ts, routes/moderation.ts, socket.ts, HelpChat.tsx,   *)
(* MessageReports.tsx).                                                      *)
(*                                                                           *)
(* A chat is filled by one GET and kept up to date by the events of a room   *)
(* it asks to join; the two are not synchronised.  Messages are numbered in  *)
(* the order of createdAt.  Who takes part does not change here              *)
(* (HelpRequest), and the read watermark, which nothing here reads, is left  *)
(* out; writing it may fail like any step of the handler.  So is what the    *)
(* sender's page shows while it waits.                                       *)
EXTENDS Naturals, Sequences, FiniteSets

CONSTANTS
    People,      \* the participants that read, each with one device
    Slots,       \* coordinators' calls at a time
    PageSize,    \* PAGE_SIZE
    MaxPosts,    \* bound on the messages stored
    MaxReports,  \* bound on the reports handed in
    MaxDrops     \* bound on the connections lost

ASSUME HelpChatAssumption ==
    /\ People # {}
    /\ PageSize \in Nat \ {0} /\ MaxPosts \in Nat \ {0}
    /\ MaxReports \in Nat /\ MaxDrops \in Nat

VARIABLES
    posted, deleted,  \* how many messages there are, those soft-deleted
    coming,           \* messages stored by a POST that has not told the room
    since,            \* since[p]: the first message p may read (joinedAt)
    report,           \* report[m, p]: what p's report on m has come to
    page,             \* page[p]: the chat on p's screen
    load,             \* load[p]: the GET its page waits for
    link,             \* link[p]: p's socket and its place in the room
    filing,           \* reports handed in and not stored yet
    verdict,          \* verdict[s]: a coordinator's call
    reports, drops,   \* counted against MaxReports, MaxDrops
    missed,           \* history: messages whose event a page did not take
    slipped,          \* history: deletions whose event could not help
    crossed,          \* history: those before since[p] untold when p joined
    late              \* history: reports filed once the message was deleted

talk == <<posted, deleted, coming, since>>
rows == <<talk, report>>
screen == <<page, load, link>>
desk == <<filing, verdict, reports>>
history == <<missed, slipped, crossed, late>>
vars == <<rows, screen, desk, drops, history>>

Ids == 1 .. MaxPosts
Stored == 1 .. posted

\* Later than every message.
None == MaxPosts + 1

Event == [kind : {"created", "deleted"}, msg : Ids]
Statuses == {"none", "open", "resolved_delete", "resolved_dismiss"}

Pages == [state : {"closed", "loading", "ready", "error"},
          body : SUBSET Ids,   \* shown with their text
          gone : SUBSET Ids,   \* shown as deleted
          first : Ids \cup {None},  \* the head of its list
          more : BOOLEAN]      \* hasMore

Loads == [pc : {"idle", "asked", "read"}, earlier : BOOLEAN, before : Ids \cup {None},
          body : SUBSET Ids, gone : SUBSET Ids]

\* asked: help:subscribe is being checked; feed: events on their way.
Links == [on : BOOLEAN, asked : BOOLEAN, joined : BOOLEAN, feed : Seq(Event)]

Verdicts == [pc : {"idle", "seen", "emit"}, msg : Ids, by : People,
             how : {"dismiss", "verdict", "delete"}, fresh : BOOLEAN]

TypeOK ==
    /\ posted \in 0 .. MaxPosts
    /\ deleted \subseteq Ids /\ coming \subseteq Stored
    /\ since \in [People -> Ids]
    /\ report \in [Ids \X People -> Statuses]
    /\ page \in [People -> Pages]
    /\ load \in [People -> Loads]
    /\ link \in [People -> Links]
    /\ \A p \in People : ~link[p].on => ~link[p].joined /\ link[p].feed = <<>>
    /\ filing \subseteq Ids \X People
    /\ verdict \in [Slots -> Verdicts]
    /\ reports \in 0 .. MaxReports /\ drops \in 0 .. MaxDrops
    /\ missed \subseteq People \X Ids /\ slipped \subseteq People \X Ids
    /\ crossed \subseteq People \X Ids
    /\ late \subseteq Ids \X People

NoPage == [state |-> "closed", body |-> {}, gone |-> {}, first |-> None, more |-> FALSE]
NoLoad == [pc |-> "idle", earlier |-> FALSE, before |-> None, body |-> {}, gone |-> {}]
NoVerdict == [pc |-> "idle", msg |-> 1, by |-> CHOOSE p \in People : TRUE,
              how |-> "dismiss", fresh |-> FALSE]

Init ==
    /\ posted = 0 /\ deleted = {} /\ coming = {}
    /\ since \in [People -> Ids]
    /\ report = [r \in Ids \X People |-> "none"]
    /\ page = [p \in People |-> NoPage]
    /\ load = [p \in People |-> NoLoad]
    /\ link = [p \in People |-> [on |-> TRUE, asked |-> FALSE, joined |-> FALSE, feed |-> <<>>]]
    /\ filing = {}
    /\ verdict = [s \in Slots |-> NoVerdict]
    /\ reports = 0 /\ drops = 0
    /\ missed = {} /\ slipped = {} /\ crossed = {} /\ late = {}

Shown(p) == page[p].body \cup page[p].gone
Held(p) == load[p].body \cup load[p].gone

-----------------------------------------------------------------------------
(* The page.                                                                *)

\* The chat opens: it asks for the messages and for the room.  A responder
\* has responded by then.
Open(p) ==
    /\ page[p].state \in {"closed", "error"}
    /\ posted + 1 >= since[p]
    /\ page' = [page EXCEPT ![p] = [NoPage EXCEPT !.state = "loading"]]
    /\ load' = [load EXCEPT ![p] = [NoLoad EXCEPT !.pc = "asked"]]
    /\ link' = [link EXCEPT ![p].asked = TRUE]
    /\ UNCHANGED <<rows, desk, drops, history>>

\* The chat is left: help:unsubscribe, and an answer still to come is
\* dropped.  A help:subscribe being checked may join all the same.
Close(p) ==
    /\ page[p].state # "closed"
    /\ page' = [page EXCEPT ![p] = NoPage]
    /\ load' = [load EXCEPT ![p] = NoLoad]
    /\ link' = [link EXCEPT ![p].joined = FALSE]
    /\ UNCHANGED <<rows, desk, drops, history>>

\* "Show earlier": the page before the message that heads the list.
LoadEarlier(p) ==
    /\ page[p].state = "ready" /\ page[p].more /\ load[p].pc = "idle"
    /\ Shown(p) # {}
    /\ load' = [load EXCEPT ![p] = [NoLoad EXCEPT !.pc = "asked", !.earlier = TRUE,
                                                  !.before = page[p].first]]
    /\ UNCHANGED <<rows, page, link, desk, drops, history>>

\* mutant: the filter on before takes the place of the filter on joinedAt
ReadableAnyone(p, before) ==
    {m \in Stored : (before > MaxPosts => since[p] <= m) /\ m < before}

\* The messages p may read, and the newest PageSize of a set.
Readable(p, before) == {m \in Stored : since[p] <= m /\ m < before}
Newest(S) == {m \in S : Cardinality({n \in S : n >= m}) <= PageSize}

\* GET /:id/messages; the text of a deleted message is not sent.
Fetch(p) ==
    /\ load[p].pc = "asked"
    /\ LET found == Newest(Readable(p, load[p].before))
       IN  /\ load' = [load EXCEPT ![p].pc = "read", ![p].body = found \ deleted,
                                   ![p].gone = found \cap deleted]
           /\ missed' = missed \ ({p} \X found)
           /\ slipped' = IF load[p].earlier THEN slipped ELSE slipped \ ({p} \X found)
    /\ UNCHANGED <<rows, page, link, desk, drops, crossed, late>>

Oldest(S, otherwise) == IF S = {} THEN otherwise ELSE CHOOSE m \in S : \A n \in S : m <= n

\* The first answer replaces what is shown, a later one goes before it.
Applied(p, keep) ==
    /\ load[p].pc = "read"
    /\ page' = [page EXCEPT ![p].state = "ready",
                            ![p].body = (IF keep THEN @ ELSE {}) \cup load[p].body,
                            ![p].gone = (IF keep THEN @ ELSE {}) \cup load[p].gone,
                            ![p].first = Oldest(Held(p), page[p].first),
                            ![p].more = Cardinality(Held(p)) >= PageSize]
    /\ load' = [load EXCEPT ![p] = NoLoad]
    /\ UNCHANGED <<rows, link, desk, drops, history>>

\* mutant: an earlier page replaces what is shown
ApplyAlone(p) == Applied(p, FALSE)
Apply(p) == Applied(p, load[p].earlier)

\* The request fails; the first one leaves an error until the chat reopens.
LoadFails(p) ==
    /\ load[p].pc # "idle"
    /\ page' = [page EXCEPT ![p].state = IF load[p].earlier THEN @ ELSE "error"]
    /\ load' = [load EXCEPT ![p] = NoLoad]
    /\ UNCHANGED <<rows, link, desk, drops, history>>

-----------------------------------------------------------------------------
(* The socket.                                                              *)

\* help:subscribe, once the check of the participant has answered.
Join(p) ==
    /\ link[p].on /\ link[p].asked
    /\ link' = [link EXCEPT ![p].asked = FALSE, ![p].joined = TRUE]
    /\ crossed' = crossed \cup ({p} \X {m \in coming : m < since[p]})
    /\ UNCHANGED <<rows, page, load, desk, drops, missed, slipped, late>>

\* An event reaches everyone in the room.
Sent(e) ==
    [p \in People |-> IF link[p].joined THEN [link[p] EXCEPT !.feed = Append(@, e)]
                      ELSE link[p]]
Away == {p \in People : ~link[p].joined}

Queued(p, kind, m) == \E i \in 1 .. Len(link[p].feed) : link[p].feed[i] = [kind |-> kind, msg |-> m]
Telling(m) == \E s \in Slots : verdict[s].pc = "emit" /\ verdict[s].msg = m
\* p is still to hear that m was deleted.
Announced(p, m) == Telling(m) \/ Queued(p, "deleted", m)

\* The next event.  A page that is not ready drops a new message; a deletion
\* turns what is shown into a placeholder, whatever the page waits for.
Deliver(p) ==
    /\ link[p].feed # <<>>
    /\ LET e == Head(link[p].feed)
           ready == page[p].state = "ready"
       IN  /\ link' = [link EXCEPT ![p].feed = Tail(@)]
           /\ IF e.kind = "created"
              THEN /\ page' = IF ready /\ e.msg \notin Shown(p)
                              THEN [page EXCEPT ![p].body = @ \cup {e.msg},
                                                ![p].first = IF @ = None THEN e.msg ELSE @]
                              ELSE page
                   /\ missed' = IF ready \/ e.msg \in Held(p) THEN missed
                                ELSE missed \cup {<<p, e.msg>>}
                   /\ slipped' = IF e.msg \in deleted /\ ~Announced(p, e.msg)
                                 THEN slipped \cup {<<p, e.msg>>} ELSE slipped
              ELSE /\ page' = IF e.msg \in page[p].body
                              THEN [page EXCEPT ![p].body = @ \ {e.msg},
                                                ![p].gone = @ \cup {e.msg}] ELSE page
                   /\ slipped' = IF e.msg \in load[p].body THEN slipped \cup {<<p, e.msg>>}
                                 ELSE slipped
                   /\ UNCHANGED missed
    /\ UNCHANGED <<rows, load, desk, drops, crossed, late>>

\* The connection is lost with everything on its way; the socket comes back
\* by itself and an open chat asks for the room again, not for the messages.
Drop(p) ==
    /\ link[p].on /\ drops < MaxDrops
    /\ LET lost == {link[p].feed[i] : i \in 1 .. Len(link[p].feed)}
       IN  /\ missed' = missed \cup {<<p, e.msg>> : e \in {x \in lost : x.kind = "created"}}
           /\ slipped' = slipped \cup {<<p, e.msg>> : e \in {x \in lost : x.kind = "deleted"}}
    /\ link' = [link EXCEPT ![p] = [on |-> FALSE, asked |-> FALSE, joined |-> FALSE, feed |-> <<>>]]
    /\ drops' = drops + 1
    /\ UNCHANGED <<rows, page, load, desk, crossed, late>>

Reconnect(p) ==
    /\ ~link[p].on
    /\ link' = [link EXCEPT ![p].on = TRUE, ![p].asked = page[p].state # "closed"]
    /\ UNCHANGED <<rows, page, load, desk, drops, history>>

-----------------------------------------------------------------------------
(* Sending a message.                                                       *)

\* POST /:id/messages stores the row ...
Store ==
    /\ posted < MaxPosts
    /\ posted' = posted + 1
    /\ coming' = coming \cup {posted + 1}
    /\ UNCHANGED <<deleted, since, report, screen, desk, drops, history>>

\* ... and, two awaits later, tells the room.
Emit(m) ==
    /\ m \in coming
    /\ coming' = coming \ {m}
    /\ link' = Sent([kind |-> "created", msg |-> m])
    /\ missed' = missed \cup (Away \X {m})
    /\ UNCHANGED <<posted, deleted, since, report, page, load, desk, drops, slipped, crossed, late>>

\* One of the two awaits fails: the sender is told that nothing was sent.
EmitFails(m) ==
    /\ m \in coming
    /\ coming' = coming \ {m}
    /\ missed' = missed \cup (People \X {m})
    /\ UNCHANGED <<posted, deleted, since, report, screen, desk, drops, slipped, crossed, late>>

-----------------------------------------------------------------------------
(* Reports and coordinators.                                                *)

\* The reader of somebody else's message hands in a report ...
Complain(p) ==
    /\ page[p].state = "ready" /\ reports < MaxReports
    /\ \E m \in page[p].body :
          /\ <<m, p>> \notin filing
          /\ filing' = filing \cup {<<m, p>>}
    /\ reports' = reports + 1
    /\ UNCHANGED <<rows, screen, verdict, drops, history>>

\* ... whose upsert opens it, again if it was settled, and whether or not the
\* message is still there.
File(r) ==
    /\ r \in filing
    /\ filing' = filing \ {r}
    /\ report' = [report EXCEPT ![r] = "open"]
    /\ late' = IF r[1] \in deleted THEN late \cup {r} ELSE late
    /\ UNCHANGED <<talk, screen, verdict, reports, drops, missed, slipped, crossed>>

\* A coordinator settles an open report, or deletes a message in the chat:
\* what either handler reads first.
Look(s) ==
    /\ verdict[s].pc = "idle"
    /\ \E m \in Stored, p \in People, how \in {"dismiss", "verdict", "delete"} :
          /\ IF how = "delete" THEN m \notin deleted ELSE report[<<m, p>>] = "open"
          /\ verdict' = [verdict EXCEPT ![s] = [pc |-> "seen", msg |-> m, by |-> p, how |-> how,
                                                fresh |-> m \notin deleted]]
    /\ UNCHANGED <<rows, screen, filing, reports, drops, history>>

\* Dismissed: this report alone, whatever has become of it.
Dismiss(s) ==
    /\ verdict[s].pc = "seen" /\ verdict[s].how = "dismiss"
    /\ report' = [report EXCEPT ![<<verdict[s].msg, verdict[s].by>>] = "resolved_dismiss"]
    /\ verdict' = [verdict EXCEPT ![s] = NoVerdict]
    /\ UNCHANGED <<talk, screen, filing, reports, drops, history>>

\* mutant: the wrong status is looked for
DismissedOn(m) == {r \in Ids \X People : r[1] = m /\ report[r] = "resolved_dismiss"}

\* The open reports a deletion of m settles.
OpenOn(m) == {r \in Ids \X People : r[1] = m /\ report[r] = "open"}
Settle(rs) ==
    report' = [r \in Ids \X People |-> IF r \in rs THEN "resolved_delete" ELSE report[r]]

\* One transaction deletes the message, unless it was gone when looked at,
\* and settles its open reports.
Settles(s, gone, told) ==
    /\ verdict[s].pc = "seen" /\ verdict[s].how # "dismiss"
    /\ deleted' = IF gone THEN deleted \cup {verdict[s].msg} ELSE deleted
    /\ Settle(OpenOn(verdict[s].msg))
    /\ verdict' = [verdict EXCEPT ![s] = IF told THEN [@ EXCEPT !.pc = "emit"] ELSE NoVerdict]
    /\ late' = late \ OpenOn(verdict[s].msg)
    /\ UNCHANGED <<posted, coming, since, screen, filing, reports, drops, missed, slipped, crossed>>
\* mutant: the coordinators' page does not tell the room
DeleteQuietly(s) == Settles(s, verdict[s].fresh, verdict[s].fresh /\ verdict[s].how = "delete")
\* mutant: it settles the reports and leaves the message
SettleOnly(s) == Settles(s, verdict[s].how = "delete", verdict[s].how = "delete")
Delete(s) == Settles(s, verdict[s].fresh, verdict[s].fresh)

\* The room is told.
Tell(s) ==
    /\ verdict[s].pc = "emit"
    /\ link' = Sent([kind |-> "deleted", msg |-> verdict[s].msg])
    /\ slipped' = slipped \cup (Away \X {verdict[s].msg})
    /\ verdict' = [verdict EXCEPT ![s] = NoVerdict]
    /\ UNCHANGED <<rows, page, load, filing, reports, drops, missed, crossed, late>>

-----------------------------------------------------------------------------

Next ==
    \/ \E p \in People :
          \/ Open(p) \/ Close(p) \/ LoadEarlier(p) \/ Fetch(p) \/ Apply(p) \/ LoadFails(p)
          \/ Join(p) \/ Deliver(p) \/ Drop(p) \/ Reconnect(p)
          \/ Complain(p)
    \/ Store
    \/ \E m \in coming : Emit(m) \/ EmitFails(m)
    \/ \E r \in filing : File(r)
    \/ \E s \in Slots : Look(s) \/ Dismiss(s) \/ Delete(s) \/ Tell(s)

Spec == Init /\ [][Next]_vars

-----------------------------------------------------------------------------

(* A deleted message does not stay readable on a page that was in the room  *)
(* when the deletion was told: the placeholder comes with the event, unless *)
(* the event met an answer read before the deletion, was lost with the      *)
(* connection, or overtook the message (helpRequests.ts:1259, HelpChat.tsx: *)
(* 226).                                                                    *)
DeletedIsHidden ==
    \A p \in People : \A m \in deleted \cap page[p].body :
        Announced(p, m) \/ <<p, m>> \in slipped

(* A page that is ready shows every message its reader may read, down to    *)
(* where "show earlier" begins, except those on their way and those told    *)
(* while it was loading or out of the room: two answers and the events in   *)
(* between never lose another one (HelpChat.tsx:210, 281).                  *)
ReadyPageIsComplete ==
    \A p \in People : page[p].state = "ready" =>
        \A m \in Stored \ Shown(p) : since[p] <= m =>
            \/ page[p].more /\ m < page[p].first
            \/ m \in Held(p)
            \/ m \in coming \/ Queued(p, "created", m) \/ <<p, m>> \in missed

(* A responder is shown nothing written before the response, by the first   *)
(* answer, by an earlier page or by an event, but for a message whose       *)
(* author's call had not told the room yet when the responder entered it    *)
(* (lib/helpAccess.ts:62, helpRequests.ts:1092, 1187).                      *)
LateJoinIsPrivate ==
    \A p \in People : \A m \in Shown(p) \cup Held(p) :
        since[p] <= m \/ <<p, m>> \in crossed

(* A responder sees messages from the response onward (lib/helpAccess.ts:   *)
(* 60).                                                                     *)
SeesFromResponseOnward ==
    \A p \in People : \A m \in Shown(p) : since[p] <= m

(* The queue of the coordinators holds no open report on a deleted message  *)
(* but one that was filed after the deletion, whichever of the two routes   *)
(* deleted it and whoever else was at work on it (moderation.ts:124,        *)
(* helpRequests.ts:1260).                                                   *)
QueueIsFresh ==
    \A r \in Ids \X People : report[r] = "open" /\ r[1] \in deleted => r \in late

(* A report settled by deletion is on a message that is deleted, also when  *)
(* the caller that settled it left the deletion to another (moderation.ts:  *)
(* 127).                                                                    *)
VerdictIsTrue ==
    \A r \in Ids \X People : report[r] = "resolved_delete" => r[1] \in deleted

=============================================================================
