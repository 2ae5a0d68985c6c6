---------------------------- MODULE HelpChatProofs ----------------------------
(* The chat of a help request keeps the late-comer's privacy, hides what was *)
(* deleted, loses no message between two answers, and keeps the              *)
(* coordinators' queue true, for any number of participants, messages,       *)
(* coordinators, reconnections and orders of answers and events.             *)
EXTENDS HelpChat, FiniteSetTheorems, SequenceTheorems, WellFoundedInduction, TLAPS

-----------------------------------------------------------------------------
\* A set of messages has an oldest.
LEMMA LeastExists ==
    ASSUME NEW S \in SUBSET Nat, S # {}
    PROVE  \E m \in S : \A n \in S : m <= n
<1> DEFINE less == {ss \in Nat \X Nat : ss[1] < ss[2]}
<1>1. IsWellFoundedOn(less, Nat)
  BY NatLessThanWellFounded DEF OpToRel
<1>2. \A n, m \in Nat : n < m => <<n, m>> \in less
  OBVIOUS
<1> HIDE DEF less
<1>3. PICK m \in S : \A n \in S : ~(<<n, m>> \in less)
  BY <1>1, WFMin
<1>4. ASSUME NEW n \in S PROVE m <= n
  <2>1. m \in Nat /\ n \in Nat /\ ~(n < m)
    BY <1>2, <1>3
  <2> QED
    BY <2>1
<1> QED
  BY <1>4

\* The head of a list of messages is one of them.
LEMMA OldestTyped ==
    ASSUME NEW S \in SUBSET Ids, NEW otherwise \in Ids \cup {None}
    PROVE  Oldest(S, otherwise) \in Ids \cup {None}
<1>1. CASE S = {}
  BY <1>1 DEF Oldest
<1>2. CASE S # {}
  <2>1. S \subseteq Nat
    BY HelpChatAssumption DEF Ids
  <2>2. \E m \in S : \A n \in S : m <= n
    BY <1>2, <2>1, LeastExists
  <2> QED
    BY <1>2, <2>2 DEF Oldest
<1> QED
  BY <1>1, <1>2

\* What an event does to the link of a participant.
LEMMA SentFields ==
    ASSUME TypeOK, NEW e \in Event, NEW p \in People
    PROVE  /\ Sent(e)[p] \in Links
           /\ Sent(e)[p].on = link[p].on
           /\ Sent(e)[p].asked = link[p].asked
           /\ Sent(e)[p].joined = link[p].joined
           /\ Sent(e)[p].feed = IF link[p].joined THEN Append(link[p].feed, e)
                                ELSE link[p].feed
<1>1. link[p] \in Links /\ link[p].feed \in Seq(Event)
  BY DEF TypeOK, Links
<1>2. CASE link[p].joined
  <2> DEFINE told == [link[p] EXCEPT !.feed = Append(@, e)]
  <2>1. Sent(e)[p] = told
    BY <1>2 DEF Sent
  <2>2. Append(link[p].feed, e) \in Seq(Event)
    BY <1>1, AppendProperties
  <2>3. /\ told \in Links /\ told.on = link[p].on /\ told.asked = link[p].asked
        /\ told.joined = link[p].joined /\ told.feed = Append(link[p].feed, e)
    BY <1>1, <2>2 DEF Links
  <2> HIDE DEF told
  <2> QED
    BY <1>2, <2>1, <2>3
<1>3. CASE ~link[p].joined
  BY <1>1, <1>3 DEF Sent
<1> QED
  BY <1>2, <1>3

LEMMA SentTyped ==
    ASSUME TypeOK, NEW e \in Event
    PROVE  /\ Sent(e) \in [People -> Links]
           /\ \A p \in People : ~Sent(e)[p].on => ~Sent(e)[p].joined /\ Sent(e)[p].feed = <<>>
<1>1. Sent(e) = [p \in People |-> Sent(e)[p]]
  BY DEF Sent
<1>2. \A p \in People : ~link[p].on => ~link[p].joined /\ link[p].feed = <<>>
  BY DEF TypeOK
<1> QED
  BY <1>1, <1>2, SentFields

LEMMA StoredIds ==
    ASSUME TypeOK
    PROVE  Stored \subseteq Ids /\ coming \subseteq Ids
<1>1. posted \in 0 .. MaxPosts /\ coming \subseteq Stored
  BY DEF TypeOK
<1> QED
  BY <1>1, HelpChatAssumption DEF Stored, Ids

\* The link of one participant changes.
LEMMA LinkReplaced ==
    ASSUME TypeOK, NEW p \in People, NEW next \in Links, link' = [link EXCEPT ![p] = next],
           ~next.on => ~next.joined /\ next.feed = <<>>
    PROVE  /\ link' \in [People -> Links]
           /\ \A q \in People : ~link'[q].on => ~link'[q].joined /\ link'[q].feed = <<>>
BY DEF TypeOK

\* The empty states are states.
LEMMA Blanks ==
    /\ NoPage \in Pages /\ NoLoad \in Loads /\ NoVerdict \in Verdicts
    /\ [on |-> TRUE, asked |-> FALSE, joined |-> FALSE, feed |-> <<>>] \in Links
    /\ 1 \in Ids /\ Ids \subseteq Nat
<1>1. 1 \in Ids /\ Ids \subseteq Nat
  BY HelpChatAssumption DEF Ids
<1>2. (CHOOSE p \in People : TRUE) \in People
  BY HelpChatAssumption
<1>3. <<>> \in Seq(Event)
  OBVIOUS
<1>4. NoPage \in Pages
  BY DEF NoPage, Pages
<1>5. NoLoad \in Loads
  BY DEF NoLoad, Loads
<1>6. NoVerdict \in Verdicts
  BY <1>1, <1>2 DEF NoVerdict, Verdicts
<1> QED
  BY <1>1, <1>3, <1>4, <1>5, <1>6 DEF Links

-----------------------------------------------------------------------------
(* Steps of the page.                                                      *)

LEMMA OpenTyped == ASSUME TypeOK, NEW p \in People, Open(p) PROVE TypeOK'
<1> DEFINE loading == [NoPage EXCEPT !.state = "loading"]
           asked == [NoLoad EXCEPT !.pc = "asked"]
           next == [link[p] EXCEPT !.asked = TRUE]
<1>1. loading \in Pages /\ asked \in Loads
  BY Blanks DEF Pages, Loads
<1>2. next \in Links /\ next.on = link[p].on /\ next.joined = link[p].joined
      /\ next.feed = link[p].feed
  BY DEF TypeOK, Links
<1>3. page' = [page EXCEPT ![p] = loading] /\ load' = [load EXCEPT ![p] = asked]
      /\ link' = [link EXCEPT ![p] = next]
  BY DEF Open
<1> HIDE DEF loading, asked, next
<1>4. /\ link' \in [People -> Links]
      /\ \A q \in People : ~link'[q].on => ~link'[q].joined /\ link'[q].feed = <<>>
  <2>1. ~next.on => ~next.joined /\ next.feed = <<>>
    BY <1>2 DEF TypeOK
  <2> QED
    BY <1>2, <1>3, <2>1, LinkReplaced
<1>5. page' \in [People -> Pages] /\ load' \in [People -> Loads]
  BY <1>1, <1>3 DEF TypeOK
<1>6. UNCHANGED <<rows, desk, drops, history>>
  BY DEF Open
<1> QED
  BY <1>4, <1>5, <1>6 DEF TypeOK, rows, talk, desk, history, Stored

LEMMA CloseTyped == ASSUME TypeOK, NEW p \in People, Close(p) PROVE TypeOK'
<1> DEFINE next == [link[p] EXCEPT !.joined = FALSE]
<1>1. next \in Links /\ next.on = link[p].on /\ next.joined = FALSE
      /\ next.feed = link[p].feed
  BY DEF TypeOK, Links
<1>2. page' = [page EXCEPT ![p] = NoPage] /\ load' = [load EXCEPT ![p] = NoLoad]
      /\ link' = [link EXCEPT ![p] = next]
  BY DEF Close
<1> HIDE DEF next
<1>3. /\ link' \in [People -> Links]
      /\ \A q \in People : ~link'[q].on => ~link'[q].joined /\ link'[q].feed = <<>>
  <2>1. ~next.on => ~next.joined /\ next.feed = <<>>
    BY <1>1 DEF TypeOK
  <2> QED
    BY <1>1, <1>2, <2>1, LinkReplaced
<1>4. page' \in [People -> Pages] /\ load' \in [People -> Loads]
  BY <1>2, Blanks DEF TypeOK
<1>5. UNCHANGED <<rows, desk, drops, history>>
  BY DEF Close
<1> QED
  BY <1>3, <1>4, <1>5 DEF TypeOK, rows, talk, desk, history, Stored

LEMMA LoadEarlierTyped == ASSUME TypeOK, NEW p \in People, LoadEarlier(p) PROVE TypeOK'
<1> DEFINE asked == [NoLoad EXCEPT !.pc = "asked", !.earlier = TRUE, !.before = page[p].first]
<1>1. page[p].first \in Ids \cup {None}
  BY DEF TypeOK, Pages
<1>2. asked \in Loads
  BY <1>1, Blanks DEF Loads
<1>3. load' = [load EXCEPT ![p] = asked]
  BY DEF LoadEarlier
<1> HIDE DEF asked
<1>4. load' \in [People -> Loads]
  BY <1>2, <1>3 DEF TypeOK
<1>5. UNCHANGED <<rows, page, link, desk, drops, history>>
  BY DEF LoadEarlier
<1> QED
  BY <1>4, <1>5 DEF TypeOK, rows, talk, desk, history, Stored

LEMMA FetchTyped == ASSUME TypeOK, NEW p \in People, Fetch(p) PROVE TypeOK'
<1> DEFINE found == Newest(Readable(p, load[p].before))
           next == [load[p] EXCEPT !.pc = "read", !.body = found \ deleted,
                                   !.gone = found \cap deleted]
<1>1. found \subseteq Ids
  BY HelpChatAssumption DEF Newest, Readable, Stored, Ids, TypeOK
<1>2. load' = [load EXCEPT ![p] = next] /\ missed' = missed \ ({p} \X found)
      /\ slipped' \subseteq slipped
  BY DEF Fetch
<1> HIDE DEF found
<1>3. next \in Loads
  BY <1>1 DEF TypeOK, Loads
<1> HIDE DEF next
<1>4. load' \in [People -> Loads]
  BY <1>2, <1>3 DEF TypeOK
<1>5. UNCHANGED <<rows, page, link, desk, drops, crossed, late>>
  BY DEF Fetch
<1> QED
  BY <1>2, <1>4, <1>5 DEF TypeOK, rows, talk, desk, Stored

LEMMA ApplyTyped == ASSUME TypeOK, NEW p \in People, Apply(p) PROVE TypeOK'
<1> DEFINE keep == load[p].earlier
           body == (IF keep THEN page[p].body ELSE {}) \cup load[p].body
           gone == (IF keep THEN page[p].gone ELSE {}) \cup load[p].gone
           first == Oldest(Held(p), page[p].first)
           more == Cardinality(Held(p)) >= PageSize
           next == [page[p] EXCEPT !.state = "ready", !.body = body, !.gone = gone,
                                   !.first = first, !.more = more]
<1>1. page[p] \in Pages /\ load[p] \in Loads
  BY DEF TypeOK
<1>2. page' = [page EXCEPT ![p] = next] /\ load' = [load EXCEPT ![p] = NoLoad]
  BY DEF Apply, Applied
<1>3. body \subseteq Ids /\ gone \subseteq Ids
  BY <1>1 DEF Pages, Loads
<1>4. first \in Ids \cup {None}
  BY <1>1, OldestTyped DEF Held, Pages, Loads
<1>5. more \in BOOLEAN
  OBVIOUS
<1> HIDE DEF body, gone, first, more
<1>6. next \in Pages
  BY <1>1, <1>3, <1>4, <1>5 DEF Pages
<1> HIDE DEF next
<1>7. page' \in [People -> Pages] /\ load' \in [People -> Loads]
  BY <1>2, <1>6, Blanks DEF TypeOK
<1>8. UNCHANGED <<rows, link, desk, drops, history>>
  BY DEF Apply, Applied
<1> QED
  BY <1>7, <1>8 DEF TypeOK, rows, talk, desk, history, Stored

LEMMA LoadFailsTyped == ASSUME TypeOK, NEW p \in People, LoadFails(p) PROVE TypeOK'
<1> DEFINE next == [page[p] EXCEPT !.state = IF load[p].earlier THEN @ ELSE "error"]
<1>1. next \in Pages
  BY DEF TypeOK, Pages
<1>2. page' = [page EXCEPT ![p] = next] /\ load' = [load EXCEPT ![p] = NoLoad]
  BY DEF LoadFails
<1> HIDE DEF next
<1>3. page' \in [People -> Pages] /\ load' \in [People -> Loads]
  BY <1>1, <1>2, Blanks DEF TypeOK
<1>4. UNCHANGED <<rows, link, desk, drops, history>>
  BY DEF LoadFails
<1> QED
  BY <1>3, <1>4 DEF TypeOK, rows, talk, desk, history, Stored

-----------------------------------------------------------------------------
(* Steps of the socket.                                                    *)

LEMMA JoinTyped == ASSUME TypeOK, NEW p \in People, Join(p) PROVE TypeOK'
<1> DEFINE next == [link[p] EXCEPT !.asked = FALSE, !.joined = TRUE]
<1>1. next \in Links /\ next.on
  BY DEF TypeOK, Links, Join
<1>2. link' = [link EXCEPT ![p] = next]
  BY DEF Join
<1> HIDE DEF next
<1>3. /\ link' \in [People -> Links]
      /\ \A q \in People : ~link'[q].on => ~link'[q].joined /\ link'[q].feed = <<>>
  BY <1>1, <1>2, LinkReplaced
<1>4. crossed' \subseteq People \X Ids
  BY HelpChatAssumption DEF Join, TypeOK, Stored, Ids
<1>5. UNCHANGED <<rows, page, load, desk, drops, missed, slipped, late>>
  BY DEF Join
<1> QED
  BY <1>3, <1>4, <1>5 DEF TypeOK, rows, talk, desk, Stored

\* The next event leaves the feed and changes one page at most.
LEMMA DeliverParts ==
    ASSUME TypeOK, NEW p \in People, Deliver(p)
    PROVE  LET e == Head(link[p].feed) IN
           /\ e \in Event
           /\ link' = [link EXCEPT ![p] = [link[p] EXCEPT !.feed = Tail(@)]]
           /\ Tail(link[p].feed) \in Seq(Event)
           /\ \/ page' = page
              \/ /\ e.kind = "created"
                 /\ page' = [page EXCEPT ![p] =
                      [page[p] EXCEPT !.body = @ \cup {e.msg},
                                      !.first = IF @ = None THEN e.msg ELSE @]]
              \/ /\ e.msg \in page[p].body
                 /\ page' = [page EXCEPT ![p] =
                      [page[p] EXCEPT !.body = @ \ {e.msg}, !.gone = @ \cup {e.msg}]]
           /\ missed' \subseteq missed \cup {<<p, e.msg>>}
           /\ slipped' \subseteq slipped \cup {<<p, e.msg>>}
<1> DEFINE e == Head(link[p].feed)
<1>1. link[p].feed \in Seq(Event) /\ link[p].feed # <<>>
  BY DEF Deliver, TypeOK, Links
<1>2. e \in Event /\ Tail(link[p].feed) \in Seq(Event)
  BY <1>1, HeadTailProperties
<1>3. link' = [link EXCEPT ![p] = [link[p] EXCEPT !.feed = Tail(@)]]
  BY DEF Deliver
<1>4. CASE e.kind = "created"
  <2>1. \/ page' = page
        \/ page' = [page EXCEPT ![p] =
                      [page[p] EXCEPT !.body = @ \cup {e.msg},
                                      !.first = IF @ = None THEN e.msg ELSE @]]
    BY <1>4 DEF Deliver
  <2>2. missed' \subseteq missed \cup {<<p, e.msg>>} /\ slipped' \subseteq slipped \cup {<<p, e.msg>>}
    BY <1>4 DEF Deliver
  <2> QED
    BY <1>2, <1>3, <1>4, <2>1, <2>2
<1>5. CASE e.kind # "created"
  <2>1. \/ page' = page
        \/ /\ e.msg \in page[p].body
           /\ page' = [page EXCEPT ![p] =
                      [page[p] EXCEPT !.body = @ \ {e.msg}, !.gone = @ \cup {e.msg}]]
    BY <1>5 DEF Deliver
  <2>2. missed' = missed /\ slipped' \subseteq slipped \cup {<<p, e.msg>>}
    BY <1>5 DEF Deliver
  <2> QED
    BY <1>2, <1>3, <2>1, <2>2
<1> QED
  BY <1>4, <1>5

LEMMA DeliverTyped == ASSUME TypeOK, NEW p \in People, Deliver(p) PROVE TypeOK'
<1> DEFINE e == Head(link[p].feed)
           feed == Tail(link[p].feed)
           next == [link[p] EXCEPT !.feed = feed]
           told == [page[p] EXCEPT !.body = @ \cup {e.msg},
                                   !.first = IF @ = None THEN e.msg ELSE @]
           hidden == [page[p] EXCEPT !.body = @ \ {e.msg}, !.gone = @ \cup {e.msg}]
<1>1. e \in Event /\ feed \in Seq(Event)
  BY DeliverParts
<1>2. link' = [link EXCEPT ![p] = next]
  BY DeliverParts
<1>3. page' = page \/ page' = [page EXCEPT ![p] = told] \/ page' = [page EXCEPT ![p] = hidden]
  BY DeliverParts
<1>4. missed' \subseteq missed \cup {<<p, e.msg>>} /\ slipped' \subseteq slipped \cup {<<p, e.msg>>}
  BY DeliverParts
<1> HIDE DEF e, feed
<1>5. e.msg \in Ids
  BY <1>1 DEF Event
<1>6. told \in Pages /\ hidden \in Pages
  BY <1>5 DEF TypeOK, Pages
<1>7. next \in Links /\ next.on = link[p].on
  BY <1>1 DEF TypeOK, Links
<1>8. link[p].on
  BY DEF Deliver, TypeOK
<1> HIDE DEF told, hidden, next
<1>9. /\ link' \in [People -> Links]
      /\ \A q \in People : ~link'[q].on => ~link'[q].joined /\ link'[q].feed = <<>>
  BY <1>2, <1>7, <1>8, LinkReplaced
<1>10. page' \in [People -> Pages]
  BY <1>3, <1>6 DEF TypeOK
<1>11. missed' \subseteq People \X Ids /\ slipped' \subseteq People \X Ids
  BY <1>4, <1>5 DEF TypeOK
<1>12. UNCHANGED <<rows, load, desk, drops, crossed, late>>
  BY DEF Deliver
<1> QED
  BY <1>9, <1>10, <1>11, <1>12 DEF TypeOK, rows, talk, desk, Stored

LEMMA DropTyped == ASSUME TypeOK, NEW p \in People, Drop(p) PROVE TypeOK'
<1> DEFINE lost == {link[p].feed[i] : i \in 1 .. Len(link[p].feed)}
           next == [on |-> FALSE, asked |-> FALSE, joined |-> FALSE, feed |-> <<>>]
<1>1. lost \subseteq Event
  <2>1. link[p].feed \in Seq(Event)
    BY DEF TypeOK, Links
  <2> QED
    BY <2>1
<1>2. /\ missed' = missed \cup {<<p, e.msg>> : e \in {x \in lost : x.kind = "created"}}
      /\ slipped' = slipped \cup {<<p, e.msg>> : e \in {x \in lost : x.kind = "deleted"}}
      /\ link' = [link EXCEPT ![p] = next]
  BY DEF Drop
<1> HIDE DEF lost
<1>3. missed' \subseteq People \X Ids /\ slipped' \subseteq People \X Ids
  BY <1>1, <1>2 DEF TypeOK, Event
<1>4. next \in Links /\ ~next.joined /\ next.feed = <<>>
  BY DEF Links
<1> HIDE DEF next
<1>5. /\ link' \in [People -> Links]
      /\ \A q \in People : ~link'[q].on => ~link'[q].joined /\ link'[q].feed = <<>>
  BY <1>2, <1>4, LinkReplaced
<1>6. drops' \in 0 .. MaxDrops
  BY HelpChatAssumption DEF Drop, TypeOK
<1>7. UNCHANGED <<rows, page, load, desk, crossed, late>>
  BY DEF Drop
<1> QED
  BY <1>3, <1>5, <1>6, <1>7 DEF TypeOK, rows, talk, desk, Stored

LEMMA ReconnectTyped == ASSUME TypeOK, NEW p \in People, Reconnect(p) PROVE TypeOK'
<1> DEFINE next == [link[p] EXCEPT !.on = TRUE, !.asked = page[p].state # "closed"]
<1>1. next \in Links /\ next.on
  BY DEF TypeOK, Links
<1>2. link' = [link EXCEPT ![p] = next]
  BY DEF Reconnect
<1> HIDE DEF next
<1>3. /\ link' \in [People -> Links]
      /\ \A q \in People : ~link'[q].on => ~link'[q].joined /\ link'[q].feed = <<>>
  BY <1>1, <1>2, LinkReplaced
<1>4. UNCHANGED <<rows, page, load, desk, drops, history>>
  BY DEF Reconnect
<1> QED
  BY <1>3, <1>4 DEF TypeOK, rows, talk, desk, history, Stored

-----------------------------------------------------------------------------
(* Steps of the handlers.                                                  *)

LEMMA StoreTyped == ASSUME TypeOK, Store PROVE TypeOK'
<1>1. posted' \in 0 .. MaxPosts /\ Stored \subseteq Stored' /\ posted + 1 \in Stored'
  BY HelpChatAssumption DEF Store, TypeOK, Stored
<1>2. coming' \subseteq Stored' /\ deleted' = deleted
  BY <1>1 DEF Store, TypeOK
<1>3. UNCHANGED <<since, report, screen, desk, drops, history>>
  BY DEF Store
<1> QED
  BY <1>1, <1>2, <1>3 DEF TypeOK, screen, desk, history

LEMMA EmitTyped == ASSUME TypeOK, NEW m \in coming, Emit(m) PROVE TypeOK'
<1> DEFINE e == [kind |-> "created", msg |-> m]
<1>1. m \in Ids
  BY StoredIds
<1>2. e \in Event /\ link' = Sent(e)
  BY <1>1 DEF Event, Emit
<1> HIDE DEF e
<1>3. /\ link' \in [People -> Links]
      /\ \A q \in People : ~link'[q].on => ~link'[q].joined /\ link'[q].feed = <<>>
  BY <1>2, SentTyped
<1>4. missed' \subseteq People \X Ids /\ coming' \subseteq coming
  BY <1>1 DEF Emit, TypeOK, Away
<1>5. UNCHANGED <<posted, deleted, since, report, page, load, desk, drops, slipped, crossed, late>>
  BY DEF Emit
<1> QED
  BY <1>3, <1>4, <1>5 DEF TypeOK, desk, Stored

LEMMA EmitFailsTyped == ASSUME TypeOK, NEW m \in coming, EmitFails(m) PROVE TypeOK'
<1>1. m \in Ids
  BY StoredIds
<1>2. missed' \subseteq People \X Ids /\ coming' \subseteq coming
  BY <1>1 DEF EmitFails, TypeOK
<1>3. UNCHANGED <<posted, deleted, since, report, screen, desk, drops, slipped, crossed, late>>
  BY DEF EmitFails
<1> QED
  BY <1>2, <1>3 DEF TypeOK, desk, screen, Stored

LEMMA ComplainTyped == ASSUME TypeOK, NEW p \in People, Complain(p) PROVE TypeOK'
<1>1. filing' \subseteq Ids \X People
  BY DEF Complain, TypeOK, Pages
<1>2. reports' \in 0 .. MaxReports
  BY HelpChatAssumption DEF Complain, TypeOK
<1>3. UNCHANGED <<rows, screen, verdict, drops, history>>
  BY DEF Complain
<1> QED
  BY <1>1, <1>2, <1>3 DEF TypeOK, rows, talk, screen, history, Stored

LEMMA FileTyped == ASSUME TypeOK, NEW r \in filing, File(r) PROVE TypeOK'
<1>1. report' \in [Ids \X People -> Statuses] /\ filing' \subseteq Ids \X People
      /\ late' \subseteq Ids \X People
  BY DEF File, TypeOK, Statuses
<1>2. UNCHANGED <<talk, screen, verdict, reports, drops, missed, slipped, crossed>>
  BY DEF File
<1> QED
  BY <1>1, <1>2 DEF TypeOK, talk, screen, Stored

LEMMA LookTyped == ASSUME TypeOK, NEW s \in Slots, Look(s) PROVE TypeOK'
<1>1. PICK m \in Stored, p \in People, how \in {"dismiss", "verdict", "delete"} :
         /\ IF how = "delete" THEN m \notin deleted ELSE report[<<m, p>>] = "open"
         /\ verdict' = [verdict EXCEPT ![s] = [pc |-> "seen", msg |-> m, by |-> p, how |-> how,
                                               fresh |-> m \notin deleted]]
  BY Zenon DEF Look
<1>2. m \in Ids
  BY StoredIds
<1>3. [pc |-> "seen", msg |-> m, by |-> p, how |-> how, fresh |-> m \notin deleted] \in Verdicts
  BY <1>2 DEF Verdicts
<1>4. verdict' \in [Slots -> Verdicts]
  BY <1>1, <1>3 DEF TypeOK
<1>5. UNCHANGED <<rows, screen, filing, reports, drops, history>>
  BY DEF Look
<1> QED
  BY <1>4, <1>5 DEF TypeOK, rows, talk, screen, history, Stored

LEMMA DismissTyped == ASSUME TypeOK, NEW s \in Slots, Dismiss(s) PROVE TypeOK'
<1>1. report' \in [Ids \X People -> Statuses]
  BY DEF Dismiss, TypeOK, Statuses
<1>2. verdict' \in [Slots -> Verdicts]
  BY Blanks DEF Dismiss, TypeOK
<1>3. UNCHANGED <<talk, screen, filing, reports, drops, history>>
  BY DEF Dismiss
<1> QED
  BY <1>1, <1>2, <1>3 DEF TypeOK, talk, screen, history, Stored

LEMMA DeleteTyped == ASSUME TypeOK, NEW s \in Slots, Delete(s) PROVE TypeOK'
<1> DEFINE told == [verdict[s] EXCEPT !.pc = "emit"]
<1>1. told \in Verdicts
  BY DEF TypeOK, Verdicts
<1>2. verdict' = [verdict EXCEPT ![s] = told] \/ verdict' = [verdict EXCEPT ![s] = NoVerdict]
  BY DEF Delete, Settles
<1> HIDE DEF told
<1>3. verdict' \in [Slots -> Verdicts]
  BY <1>1, <1>2, Blanks DEF TypeOK
<1>4. report' \in [Ids \X People -> Statuses]
  BY DEF Delete, Settles, Settle, TypeOK, Statuses
<1>5. deleted' \subseteq Ids
  BY DEF Delete, Settles, TypeOK, Verdicts
<1>6. late' \subseteq late /\ UNCHANGED <<posted, coming, since, screen, filing, reports, drops, missed, slipped, crossed>>
  BY DEF Delete, Settles
<1> QED
  BY <1>3, <1>4, <1>5, <1>6 DEF TypeOK, screen, Stored

LEMMA TellTyped == ASSUME TypeOK, NEW s \in Slots, Tell(s) PROVE TypeOK'
<1> DEFINE e == [kind |-> "deleted", msg |-> verdict[s].msg]
<1>1. e \in Event /\ link' = Sent(e)
  BY DEF TypeOK, Verdicts, Event, Tell
<1>2. slipped' \subseteq People \X Ids
  BY DEF Tell, TypeOK, Verdicts, Away
<1> HIDE DEF e
<1>3. /\ link' \in [People -> Links]
      /\ \A q \in People : ~link'[q].on => ~link'[q].joined /\ link'[q].feed = <<>>
  BY <1>1, SentTyped
<1>4. verdict' \in [Slots -> Verdicts]
  BY Blanks DEF Tell, TypeOK
<1>5. UNCHANGED <<rows, page, load, filing, reports, drops, missed, crossed, late>>
  BY DEF Tell
<1> QED
  BY <1>2, <1>3, <1>4, <1>5 DEF TypeOK, rows, talk, Stored

LEMMA TypeStep == TypeOK /\ [Next]_vars => TypeOK'
<1> SUFFICES ASSUME TypeOK, [Next]_vars PROVE TypeOK'
  OBVIOUS
<1>1. CASE UNCHANGED vars
  BY <1>1 DEF TypeOK, vars, rows, talk, screen, desk, history, Stored
<1>2. ASSUME NEW p \in People,
             \/ Open(p) \/ Close(p) \/ LoadEarlier(p) \/ Fetch(p) \/ Apply(p) \/ LoadFails(p)
             \/ Join(p) \/ Deliver(p) \/ Drop(p) \/ Reconnect(p) \/ Complain(p)
      PROVE  TypeOK'
  BY <1>2, OpenTyped, CloseTyped, LoadEarlierTyped, FetchTyped, ApplyTyped, LoadFailsTyped,
     JoinTyped, DeliverTyped, DropTyped, ReconnectTyped, ComplainTyped
<1>3. ASSUME NEW s \in Slots, Look(s) \/ Dismiss(s) \/ Delete(s) \/ Tell(s) PROVE TypeOK'
  BY <1>3, LookTyped, DismissTyped, DeleteTyped, TellTyped
<1> QED
  BY <1>1, <1>2, <1>3, StoreTyped, EmitTyped, EmitFailsTyped, FileTyped DEF Next

(* Messages, pages, links, reports and verdicts stay well typed; a socket  *)
(* that is down is in no room and has no event on its way.                 *)
THEOREM TypeCorrect == Spec => []TypeOK
<1>1. Init => TypeOK
  <2> SUFFICES ASSUME Init PROVE TypeOK
    OBVIOUS
  <2>1. posted \in 0 .. MaxPosts /\ coming \subseteq Stored /\ deleted \subseteq Ids
    BY HelpChatAssumption DEF Init
  <2>2. report \in [Ids \X People -> Statuses]
    BY DEF Init, Statuses
  <2>3. page \in [People -> Pages] /\ load \in [People -> Loads] /\ verdict \in [Slots -> Verdicts]
    BY Blanks DEF Init
  <2>4. link \in [People -> Links] /\ \A p \in People : link[p].feed = <<>> /\ ~link[p].joined
    BY Blanks DEF Init
  <2>5. reports \in 0 .. MaxReports /\ drops \in 0 .. MaxDrops
    BY HelpChatAssumption DEF Init
  <2>6. since \in [People -> Ids] /\ filing = {} /\ missed = {} /\ slipped = {} /\ crossed = {} /\ late = {}
    BY DEF Init
  <2> QED
    BY <2>1, <2>2, <2>3, <2>4, <2>5, <2>6 DEF TypeOK
<1> QED
  BY <1>1, TypeStep, PTL DEF Spec

-----------------------------------------------------------------------------
(* The coordinators' queue.  What QueueIsFresh and VerdictIsTrue lack to be *)
(* inductive is what a call under way has learnt: whoever found the message *)
(* deleted, and so leaves the deletion out, is right for good.              *)
SeenGone ==
    \A s \in Slots :
        verdict[s].pc = "seen" /\ verdict[s].how # "dismiss" /\ ~verdict[s].fresh
        => verdict[s].msg \in deleted

Desk == SeenGone /\ VerdictIsTrue /\ QueueIsFresh

LEMMA DeskKept ==
    ASSUME Desk, UNCHANGED <<deleted, report, verdict, late>>
    PROVE  Desk'
BY DEF Desk, SeenGone, VerdictIsTrue, QueueIsFresh

LEMMA FileKeeps == ASSUME TypeOK, Desk, NEW r \in filing, File(r) PROVE Desk'
<1>1. SeenGone'
  BY DEF File, talk, Desk, SeenGone
<1>2. \A q \in Ids \X People : report'[q] = report[q] \/ (q = r /\ report'[q] = "open")
  BY DEF File, TypeOK
<1>3. deleted' = deleted /\ late \subseteq late' /\ (r \in deleted' \X People => r \in late')
  BY DEF File, talk
<1>4. r \in Ids \X People
  BY DEF TypeOK
<1>5. VerdictIsTrue'
  BY <1>2, <1>3 DEF Desk, VerdictIsTrue
<1>6. ASSUME NEW q \in Ids \X People, report'[q] = "open", q[1] \in deleted'
      PROVE  q \in late'
  <2>1. CASE q = r
    BY <1>6, <2>1 DEF File, talk
  <2>2. CASE q # r
    BY <1>2, <1>3, <1>6, <2>2 DEF Desk, QueueIsFresh
  <2> QED
    BY <2>1, <2>2
<1> QED
  BY <1>1, <1>5, <1>6 DEF Desk, QueueIsFresh

LEMMA LookKeeps == ASSUME TypeOK, Desk, NEW s \in Slots, Look(s) PROVE Desk'
<1>1. PICK m \in Stored, p \in People, how \in {"dismiss", "verdict", "delete"} :
         /\ IF how = "delete" THEN m \notin deleted ELSE report[<<m, p>>] = "open"
         /\ verdict' = [verdict EXCEPT ![s] = [pc |-> "seen", msg |-> m, by |-> p, how |-> how,
                                               fresh |-> m \notin deleted]]
  BY Zenon DEF Look
<1>2. UNCHANGED <<deleted, report, late>>
  BY DEF Look, rows, talk, history
<1>3. ASSUME NEW t \in Slots, verdict'[t].pc = "seen", verdict'[t].how # "dismiss",
             ~verdict'[t].fresh
      PROVE  verdict'[t].msg \in deleted'
  <2>1. CASE t = s
    BY <1>1, <1>2, <1>3, <2>1 DEF TypeOK
  <2>2. CASE t # s
    BY <1>1, <1>2, <1>3, <2>2 DEF TypeOK, Desk, SeenGone
  <2> QED
    BY <2>1, <2>2
<1>4. VerdictIsTrue' /\ QueueIsFresh'
  BY <1>2 DEF Desk, VerdictIsTrue, QueueIsFresh
<1> QED
  BY <1>3, <1>4 DEF Desk, SeenGone

\* A call that ends has learnt nothing.
LEMMA VerdictEnds ==
    ASSUME TypeOK, SeenGone, NEW s \in Slots, deleted \subseteq deleted',
           verdict' = [verdict EXCEPT ![s] = NoVerdict]
    PROVE  SeenGone'
BY DEF TypeOK, SeenGone, NoVerdict

LEMMA DismissKeeps == ASSUME TypeOK, Desk, NEW s \in Slots, Dismiss(s) PROVE Desk'
<1>1. UNCHANGED <<deleted, late>> /\ verdict' = [verdict EXCEPT ![s] = NoVerdict]
  BY DEF Dismiss, talk, history
<1>2. SeenGone'
  BY <1>1, VerdictEnds DEF Desk
<1>3. \A q \in Ids \X People : report'[q] = report[q] \/ report'[q] = "resolved_dismiss"
  BY DEF Dismiss, TypeOK
<1> QED
  BY <1>1, <1>2, <1>3 DEF Desk, VerdictIsTrue, QueueIsFresh

LEMMA DeleteKeeps == ASSUME TypeOK, Desk, NEW s \in Slots, Delete(s) PROVE Desk'
<1> DEFINE m == verdict[s].msg
           told == [verdict[s] EXCEPT !.pc = "emit"]
\* the message is deleted by this call, or was when the call looked
<1>1. deleted' = deleted \cup {m}
  <2>1. CASE verdict[s].fresh
    BY <2>1 DEF Delete, Settles
  <2>2. CASE ~verdict[s].fresh
    BY <2>2 DEF Delete, Settles, Desk, SeenGone
  <2> QED
    BY <2>1, <2>2
<1>2. SeenGone'
  <2>1. verdict' = [verdict EXCEPT ![s] = told] \/ verdict' = [verdict EXCEPT ![s] = NoVerdict]
    BY DEF Delete, Settles
  <2>2. told.pc = "emit"
    BY DEF TypeOK, Verdicts
  <2> HIDE DEF told
  <2>3. CASE verdict' = [verdict EXCEPT ![s] = told]
    BY <1>1, <2>2, <2>3 DEF TypeOK, Desk, SeenGone
  <2>4. CASE verdict' = [verdict EXCEPT ![s] = NoVerdict]
    BY <1>1, <2>4, VerdictEnds DEF Desk
  <2> QED
    BY <2>1, <2>3, <2>4
<1>3. \A q \in Ids \X People :
         report'[q] = IF q[1] = m /\ report[q] = "open" THEN "resolved_delete" ELSE report[q]
  BY DEF Delete, Settles, Settle, OpenOn
<1>4. \A q \in late : q[1] # m => q \in late'
  BY DEF Delete, Settles, OpenOn
<1> HIDE DEF m
<1>5. VerdictIsTrue'
  BY <1>1, <1>3 DEF Desk, VerdictIsTrue
<1>6. QueueIsFresh'
  BY <1>1, <1>3, <1>4 DEF Desk, QueueIsFresh
<1> QED
  BY <1>2, <1>5, <1>6 DEF Desk

LEMMA TellKeeps == ASSUME TypeOK, Desk, NEW s \in Slots, Tell(s) PROVE Desk'
<1>1. UNCHANGED <<deleted, report, late>> /\ verdict' = [verdict EXCEPT ![s] = NoVerdict]
  BY DEF Tell, rows, talk
<1>2. SeenGone'
  BY <1>1, VerdictEnds DEF Desk
<1> QED
  BY <1>1, <1>2 DEF Desk, VerdictIsTrue, QueueIsFresh

LEMMA DeskStep == TypeOK /\ Desk /\ [Next]_vars => Desk'
<1> SUFFICES ASSUME TypeOK, Desk, [Next]_vars PROVE Desk'
  OBVIOUS
<1> USE DEF rows, talk, desk, history
<1>1. CASE UNCHANGED vars
  BY <1>1, DeskKept DEF vars
<1>2. ASSUME NEW p \in People,
             Open(p) \/ Close(p) \/ LoadEarlier(p) \/ Fetch(p) \/ Apply(p) \/ LoadFails(p)
      PROVE  Desk'
  BY <1>2, DeskKept DEF Open, Close, LoadEarlier, Fetch, Apply, Applied, LoadFails
<1>3. ASSUME NEW p \in People,
             Join(p) \/ Deliver(p) \/ Drop(p) \/ Reconnect(p) \/ Complain(p)
      PROVE  Desk'
  BY <1>3, DeskKept DEF Join, Deliver, Drop, Reconnect, Complain
<1>4. CASE Store \/ \E m \in coming : Emit(m) \/ EmitFails(m)
  BY <1>4, DeskKept DEF Store, Emit, EmitFails
<1>5. ASSUME NEW s \in Slots, Look(s) \/ Dismiss(s) \/ Delete(s) \/ Tell(s) PROVE Desk'
  BY <1>5, LookKeeps, DismissKeeps, DeleteKeeps, TellKeeps
<1> QED
  BY <1>1, <1>2, <1>3, <1>4, <1>5, FileKeeps DEF Next

LEMMA DeskAlways == Spec => []Desk
<1>1. Init => Desk
  <2> SUFFICES ASSUME Init PROVE Desk
    OBVIOUS
  <2>1. \A s \in Slots : verdict[s].pc = "idle"
    BY DEF Init, NoVerdict
  <2>2. \A r \in Ids \X People : report[r] = "none"
    BY DEF Init
  <2> QED
    BY <2>1, <2>2 DEF Desk, SeenGone, VerdictIsTrue, QueueIsFresh
<1> QED
  BY <1>1, DeskStep, TypeCorrect, PTL DEF Spec

(* The queue holds no open report on a deleted message but one that was    *)
(* filed after the deletion.                                               *)
THEOREM FreshQueue == Spec => []QueueIsFresh
BY DeskAlways, PTL DEF Desk

(* A report settled by deletion is on a message that is deleted.           *)
THEOREM TrueVerdicts == Spec => []VerdictIsTrue
BY DeskAlways, PTL DEF Desk

-----------------------------------------------------------------------------
(* The late-comer's privacy.  A message reaches a page through an answer,   *)
(* which is filtered, or through the feed, which is not: what keeps older   *)
(* messages out of the feed is that nobody is admitted to the chat before   *)
(* the response, and that what was stored by then and not told yet is       *)
(* counted (crossed) when the room is entered.                              *)
Allowed(p, m) == since[p] <= m \/ <<p, m>> \in crossed

Started(p) ==
    page[p].state # "closed" \/ load[p].pc # "idle" \/ link[p].asked \/ link[p].joined

PrivateTo(p) ==
    /\ Started(p) => since[p] <= posted + 1
    /\ link[p].joined => \A m \in coming : Allowed(p, m)
    /\ \A i \in 1 .. Len(link[p].feed) :
          link[p].feed[i].kind = "created" => Allowed(p, link[p].feed[i].msg)
    /\ \A m \in Shown(p) \cup Held(p) : Allowed(p, m)

Privacy == \A p \in People : PrivateTo(p)

\* A participant whom a step passes by.
LEMMA PrivateKept ==
    ASSUME TypeOK, NEW p \in People, PrivateTo(p), page'[p] = page[p], load'[p] = load[p],
           link'[p] = link[p], since' = since, posted' = posted, coming' \subseteq coming,
           crossed \subseteq crossed'
    PROVE  PrivateTo(p)'
BY DEF PrivateTo, Started, Allowed, Shown, Held

\* Another screen for p, showing nothing new, and the same link but for asked
\* and joined, which p may lose, or have when it has started.
LEMMA ScreenKept ==
    ASSUME TypeOK, NEW p \in People, PrivateTo(p),
           since' = since, posted' = posted, coming' = coming, crossed' = crossed,
           Started(p)' => Started(p) \/ since[p] <= posted + 1,
           link'[p].joined => link[p].joined,
           link'[p].feed = link[p].feed \/ link'[p].feed = <<>>,
           (Shown(p) \cup Held(p))' \subseteq (Shown(p) \cup Held(p)) \cup
                                               {m \in Ids : since[p] <= m}
    PROVE  PrivateTo(p)'
<1>1. (Started(p) => since[p] <= posted + 1)'
  BY DEF PrivateTo
<1>2. \A m : Allowed(p, m) => Allowed(p, m)'
  BY DEF Allowed
<1>3. (link[p].joined => \A m \in coming : Allowed(p, m))'
  BY <1>2 DEF PrivateTo
<1>4. (\A i \in 1 .. Len(link[p].feed) :
          link[p].feed[i].kind = "created" => Allowed(p, link[p].feed[i].msg))'
  <2>1. CASE link'[p].feed = link[p].feed
    BY <1>2, <2>1 DEF PrivateTo
  <2>2. CASE link'[p].feed = <<>>
    BY <2>2
  <2> QED
    BY <2>1, <2>2
<1>5. (\A m \in Shown(p) \cup Held(p) : Allowed(p, m))'
  <2> SUFFICES ASSUME NEW m \in (Shown(p) \cup Held(p))' PROVE Allowed(p, m)'
    OBVIOUS
  <2>1. CASE m \in Shown(p) \cup Held(p)
    BY <1>2, <2>1 DEF PrivateTo
  <2>2. CASE since[p] <= m
    BY <2>2 DEF Allowed
  <2> QED
    BY <2>1, <2>2
<1> QED
  BY <1>1, <1>3, <1>4, <1>5 DEF PrivateTo

\* Everybody but p is passed by.
LEMMA OthersKept ==
    ASSUME TypeOK, Privacy, NEW p \in People, PrivateTo(p)',
           since' = since, posted' = posted, coming' \subseteq coming, crossed \subseteq crossed',
           \A q \in People \ {p} :
              page'[q] = page[q] /\ load'[q] = load[q] /\ link'[q] = link[q]
    PROVE  Privacy'
BY PrivateKept DEF Privacy

LEMMA OpenPrivate == ASSUME TypeOK, Privacy, NEW p \in People, Open(p) PROVE Privacy'
<1> DEFINE loading == [NoPage EXCEPT !.state = "loading"]
           asked == [NoLoad EXCEPT !.pc = "asked"]
           next == [link[p] EXCEPT !.asked = TRUE]
<1>1. page' = [page EXCEPT ![p] = loading] /\ load' = [load EXCEPT ![p] = asked]
      /\ link' = [link EXCEPT ![p] = next] /\ since[p] <= posted + 1
  BY DEF Open
<1>2. loading.body = {} /\ loading.gone = {} /\ asked.body = {} /\ asked.gone = {}
  BY DEF NoPage, NoLoad
<1>3. next.joined = link[p].joined /\ next.feed = link[p].feed
  BY DEF TypeOK, Links
<1> HIDE DEF loading, asked, next
<1>4. UNCHANGED <<since, posted, coming, crossed>>
  BY DEF Open, rows, talk, history
<1>5. (Shown(p) \cup Held(p))' = {} /\ link'[p].joined = link[p].joined /\ link'[p].feed = link[p].feed
  BY <1>1, <1>2, <1>3 DEF TypeOK, Shown, Held
<1>6. PrivateTo(p)'
  BY <1>1, <1>4, <1>5, ScreenKept DEF Privacy
<1> QED
  BY <1>1, <1>4, <1>6, OthersKept DEF TypeOK

LEMMA ClosePrivate == ASSUME TypeOK, Privacy, NEW p \in People, Close(p) PROVE Privacy'
<1> DEFINE next == [link[p] EXCEPT !.joined = FALSE]
<1>1. page' = [page EXCEPT ![p] = NoPage] /\ load' = [load EXCEPT ![p] = NoLoad]
      /\ link' = [link EXCEPT ![p] = next] /\ Started(p)
  BY DEF Close, Started
<1>2. next.joined = FALSE /\ next.feed = link[p].feed
  BY DEF TypeOK, Links
<1> HIDE DEF next
<1>3. UNCHANGED <<since, posted, coming, crossed>>
  BY DEF Close, rows, talk, history
<1>4. (Shown(p) \cup Held(p))' = {} /\ link'[p].joined = FALSE /\ link'[p].feed = link[p].feed
  BY <1>1, <1>2 DEF TypeOK, Shown, Held, NoPage, NoLoad
<1>5. PrivateTo(p)'
  BY <1>1, <1>3, <1>4, ScreenKept DEF Privacy
<1> QED
  BY <1>1, <1>3, <1>5, OthersKept DEF TypeOK

LEMMA LoadEarlierPrivate ==
    ASSUME TypeOK, Privacy, NEW p \in People, LoadEarlier(p) PROVE Privacy'
<1> DEFINE asked == [NoLoad EXCEPT !.pc = "asked", !.earlier = TRUE, !.before = page[p].first]
<1>1. load' = [load EXCEPT ![p] = asked] /\ Started(p) /\ UNCHANGED <<page, link>>
  BY DEF LoadEarlier, Started
<1>2. asked.body = {} /\ asked.gone = {}
  BY DEF NoLoad
<1> HIDE DEF asked
<1>3. UNCHANGED <<since, posted, coming, crossed>>
  BY DEF LoadEarlier, rows, talk, history
<1>4. (Shown(p) \cup Held(p))' = Shown(p)
  BY <1>1, <1>2 DEF TypeOK, Shown, Held
<1>5. PrivateTo(p)'
  BY <1>1, <1>3, <1>4, ScreenKept DEF Privacy
<1> QED
  BY <1>1, <1>3, <1>5, OthersKept DEF TypeOK

\* the answer is filtered by the time of the response
LEMMA FetchPrivate == ASSUME TypeOK, Privacy, NEW p \in People, Fetch(p) PROVE Privacy'
<1> DEFINE found == Newest(Readable(p, load[p].before))
           next == [load[p] EXCEPT !.pc = "read", !.body = found \ deleted,
                                   !.gone = found \cap deleted]
<1>1. found \subseteq {m \in Ids : since[p] <= m}
  BY StoredIds DEF Newest, Readable
<1>2. load' = [load EXCEPT ![p] = next] /\ Started(p) /\ UNCHANGED <<page, link>>
  BY DEF Fetch, Started
<1> HIDE DEF found
<1>3. next.body \cup next.gone = found
  BY DEF TypeOK, Loads
<1> HIDE DEF next
<1>4. UNCHANGED <<since, posted, coming, crossed>>
  BY DEF Fetch, rows, talk
<1>5. (Shown(p) \cup Held(p))' = Shown(p) \cup found
  BY <1>2, <1>3 DEF TypeOK, Shown, Held
<1>6. PrivateTo(p)'
  BY <1>1, <1>2, <1>4, <1>5, ScreenKept DEF Privacy
<1> QED
  BY <1>2, <1>4, <1>6, OthersKept DEF TypeOK

LEMMA ApplyPrivate == ASSUME TypeOK, Privacy, NEW p \in People, Apply(p) PROVE Privacy'
<1> DEFINE keep == load[p].earlier
           body == (IF keep THEN page[p].body ELSE {}) \cup load[p].body
           gone == (IF keep THEN page[p].gone ELSE {}) \cup load[p].gone
           next == [page[p] EXCEPT !.state = "ready", !.body = body, !.gone = gone,
                                   !.first = Oldest(Held(p), page[p].first),
                                   !.more = Cardinality(Held(p)) >= PageSize]
<1>1. page' = [page EXCEPT ![p] = next] /\ load' = [load EXCEPT ![p] = NoLoad]
      /\ Started(p) /\ link' = link
  BY DEF Apply, Applied, Started
<1>2. body \cup gone \subseteq Shown(p) \cup Held(p)
  BY DEF Shown, Held
<1> HIDE DEF body, gone
<1>3. next.body = body /\ next.gone = gone
  BY DEF TypeOK, Pages
<1> HIDE DEF next
<1>4. UNCHANGED <<since, posted, coming, crossed>>
  BY DEF Apply, Applied, rows, talk, history
<1>5. (Shown(p) \cup Held(p))' = body \cup gone
  BY <1>1, <1>3 DEF TypeOK, Shown, Held, NoLoad
<1>6. PrivateTo(p)'
  BY <1>1, <1>2, <1>4, <1>5, ScreenKept DEF Privacy
<1> QED
  BY <1>1, <1>4, <1>6, OthersKept DEF TypeOK

LEMMA LoadFailsPrivate == ASSUME TypeOK, Privacy, NEW p \in People, LoadFails(p) PROVE Privacy'
<1> DEFINE next == [page[p] EXCEPT !.state = IF load[p].earlier THEN @ ELSE "error"]
<1>1. page' = [page EXCEPT ![p] = next] /\ load' = [load EXCEPT ![p] = NoLoad]
      /\ Started(p) /\ link' = link
  BY DEF LoadFails, Started
<1>2. next.body = page[p].body /\ next.gone = page[p].gone
  BY DEF TypeOK, Pages
<1> HIDE DEF next
<1>3. UNCHANGED <<since, posted, coming, crossed>>
  BY DEF LoadFails, rows, talk, history
<1>4. (Shown(p) \cup Held(p))' = Shown(p)
  BY <1>1, <1>2 DEF TypeOK, Shown, Held, NoLoad
<1>5. PrivateTo(p)'
  BY <1>1, <1>3, <1>4, ScreenKept DEF Privacy
<1> QED
  BY <1>1, <1>3, <1>5, OthersKept DEF TypeOK

LEMMA DropPrivate == ASSUME TypeOK, Privacy, NEW p \in People, Drop(p) PROVE Privacy'
<1> DEFINE next == [on |-> FALSE, asked |-> FALSE, joined |-> FALSE, feed |-> <<>>]
<1>1. link' = [link EXCEPT ![p] = next] /\ UNCHANGED <<page, load>>
  BY DEF Drop
<1>2. ~next.asked /\ ~next.joined /\ next.feed = <<>>
  OBVIOUS
<1> HIDE DEF next
<1>3. UNCHANGED <<since, posted, coming, crossed>>
  BY DEF Drop, rows, talk
<1>4. (Shown(p) \cup Held(p))' = Shown(p) \cup Held(p)
  BY <1>1 DEF Shown, Held
<1>5. ~link'[p].asked /\ ~link'[p].joined /\ link'[p].feed = <<>>
  BY <1>1, <1>2 DEF TypeOK
<1>6. Started(p)' => Started(p)
  BY <1>1, <1>5 DEF Started
<1>7. PrivateTo(p)'
  BY <1>3, <1>4, <1>5, <1>6, ScreenKept DEF Privacy
<1> QED
  BY <1>1, <1>3, <1>7, OthersKept DEF TypeOK

LEMMA ReconnectPrivate == ASSUME TypeOK, Privacy, NEW p \in People, Reconnect(p) PROVE Privacy'
<1> DEFINE next == [link[p] EXCEPT !.on = TRUE, !.asked = page[p].state # "closed"]
<1>1. link' = [link EXCEPT ![p] = next] /\ UNCHANGED <<page, load>>
  BY DEF Reconnect
<1>2. next.joined = link[p].joined /\ next.feed = link[p].feed
      /\ (next.asked => page[p].state # "closed")
  BY DEF TypeOK, Links
<1> HIDE DEF next
<1>3. UNCHANGED <<since, posted, coming, crossed>>
  BY DEF Reconnect, rows, talk, history
<1>4. (Shown(p) \cup Held(p))' = Shown(p) \cup Held(p)
  BY <1>1 DEF Shown, Held
<1>5. link'[p] = next
  BY <1>1 DEF TypeOK
<1>6. Started(p)' => Started(p)
  BY <1>1, <1>2, <1>5 DEF Started
<1>7. PrivateTo(p)'
  BY <1>2, <1>3, <1>4, <1>5, <1>6, ScreenKept DEF Privacy
<1> QED
  BY <1>1, <1>3, <1>7, OthersKept DEF TypeOK

\* what was stored before the response and is still to be told is counted
LEMMA JoinPrivate == ASSUME TypeOK, Privacy, NEW p \in People, Join(p) PROVE Privacy'
<1> DEFINE next == [link[p] EXCEPT !.asked = FALSE, !.joined = TRUE]
<1>1. link' = [link EXCEPT ![p] = next] /\ Started(p) /\ UNCHANGED <<page, load>>
      /\ crossed' = crossed \cup ({p} \X {m \in coming : m < since[p]})
  BY DEF Join, Started
<1>2. next.feed = link[p].feed
  BY DEF TypeOK, Links
<1> HIDE DEF next
<1>3. UNCHANGED <<since, posted, coming>>
  BY DEF Join, rows, talk
<1>4. link'[p].feed = link[p].feed
  BY <1>1, <1>2 DEF TypeOK
<1>5. \A m : Allowed(p, m) => Allowed(p, m)'
  BY <1>1, <1>3 DEF Allowed
<1>6. \A m \in coming : Allowed(p, m)'
  <2> SUFFICES ASSUME NEW m \in coming PROVE Allowed(p, m)'
    OBVIOUS
  <2>1. m \in Nat /\ since[p] \in Nat
    BY StoredIds, Blanks DEF TypeOK
  <2>2. CASE m < since[p]
    BY <1>1, <2>2 DEF Allowed
  <2>3. CASE since[p] <= m
    BY <1>3, <2>3 DEF Allowed
  <2> QED
    BY <2>1, <2>2, <2>3
<1>7. (\A m \in Shown(p) \cup Held(p) : Allowed(p, m))'
  BY <1>1, <1>5 DEF Privacy, PrivateTo, Shown, Held
<1>8. (\A i \in 1 .. Len(link[p].feed) :
          link[p].feed[i].kind = "created" => Allowed(p, link[p].feed[i].msg))'
  BY <1>4, <1>5 DEF Privacy, PrivateTo
<1>9. (Started(p) => since[p] <= posted + 1)'
  BY <1>1, <1>3 DEF Privacy, PrivateTo
<1>10. PrivateTo(p)'
  BY <1>3, <1>6, <1>7, <1>8, <1>9 DEF PrivateTo
<1> QED
  BY <1>1, <1>3, <1>10, OthersKept DEF TypeOK

LEMMA DeliverPrivate == ASSUME TypeOK, Privacy, NEW p \in People, Deliver(p) PROVE Privacy'
<1> DEFINE e == Head(link[p].feed)
           feed == Tail(link[p].feed)
           next == [link[p] EXCEPT !.feed = feed]
           told == [page[p] EXCEPT !.body = @ \cup {e.msg},
                                   !.first = IF @ = None THEN e.msg ELSE @]
           hidden == [page[p] EXCEPT !.body = @ \ {e.msg}, !.gone = @ \cup {e.msg}]
<1>1. link' = [link EXCEPT ![p] = next]
  BY DeliverParts
<1>2. \/ page' = page
      \/ e.kind = "created" /\ page' = [page EXCEPT ![p] = told]
      \/ e.msg \in page[p].body /\ page' = [page EXCEPT ![p] = hidden]
  BY DeliverParts
<1>3. link[p].feed \in Seq(Event) /\ link[p].feed # <<>>
  BY DEF Deliver, TypeOK, Links
<1>4. e = link[p].feed[1] /\ Len(link[p].feed) >= 1
  BY <1>3
<1>5. Len(feed) = Len(link[p].feed) - 1 /\ \A i \in 1 .. Len(feed) : feed[i] = link[p].feed[i + 1]
  BY <1>3, HeadTailProperties
<1>6. /\ told.state = page[p].state /\ told.body = page[p].body \cup {e.msg}
      /\ told.gone = page[p].gone
  BY DEF TypeOK, Pages
<1>7. /\ hidden.state = page[p].state /\ hidden.body = page[p].body \ {e.msg}
      /\ hidden.gone = page[p].gone \cup {e.msg}
  BY DEF TypeOK, Pages
<1>8. next.asked = link[p].asked /\ next.joined = link[p].joined /\ next.feed = feed
  BY DEF TypeOK, Links
<1>9. UNCHANGED <<since, posted, coming, crossed, load>>
  BY DEF Deliver, rows, talk
<1> HIDE DEF e, feed, next, told, hidden
<1>10. \A m : Allowed(p, m) => Allowed(p, m)'
  BY <1>9 DEF Allowed
<1>11. e.kind = "created" => Allowed(p, e.msg)
  <2>1. 1 \in 1 .. Len(link[p].feed)
    BY <1>3, <1>4
  <2> QED
    BY <1>4, <2>1 DEF Privacy, PrivateTo
<1>12. link'[p] = next /\ load'[p] = load[p]
       /\ (page'[p] = page[p] \/ (e.kind = "created" /\ page'[p] = told)
            \/ (e.msg \in page[p].body /\ page'[p] = hidden))
  BY <1>1, <1>2, <1>9 DEF TypeOK
<1>13. (\A m \in Shown(p) \cup Held(p) : Allowed(p, m))'
  <2> SUFFICES ASSUME NEW m \in (Shown(p) \cup Held(p))' PROVE Allowed(p, m)
    BY <1>10
  <2>1. m \in Shown(p) \cup Held(p) \/ (m = e.msg /\ e.kind = "created")
    BY <1>6, <1>7, <1>12 DEF Shown, Held
  <2> QED
    BY <1>11, <2>1 DEF Privacy, PrivateTo
<1>14. (\A i \in 1 .. Len(link[p].feed) :
          link[p].feed[i].kind = "created" => Allowed(p, link[p].feed[i].msg))'
  <2> SUFFICES ASSUME NEW i \in 1 .. Len(feed), feed[i].kind = "created"
               PROVE  Allowed(p, feed[i].msg)
    BY <1>8, <1>10, <1>12
  <2>1. i + 1 \in 1 .. Len(link[p].feed) /\ feed[i] = link[p].feed[i + 1]
    BY <1>3, <1>5
  <2> QED
    BY <2>1 DEF Privacy, PrivateTo
<1>15. Started(p)' => Started(p)
  BY <1>6, <1>7, <1>8, <1>12 DEF Started
<1>16. (Started(p) => since[p] <= posted + 1)'
  BY <1>9, <1>15 DEF Privacy, PrivateTo
<1>17. (link[p].joined => \A m \in coming : Allowed(p, m))'
  BY <1>8, <1>9, <1>10, <1>12 DEF Privacy, PrivateTo
<1>18. PrivateTo(p)'
  BY <1>13, <1>14, <1>16, <1>17 DEF PrivateTo
<1> QED
  BY <1>1, <1>2, <1>9, <1>18, OthersKept DEF TypeOK

\* a message stored while somebody is in the room is not older than the response
LEMMA StorePrivate == ASSUME TypeOK, Privacy, Store PROVE Privacy'
<1>1. UNCHANGED <<since, page, load, link, crossed>> /\ posted' = posted + 1
      /\ coming' = coming \cup {posted + 1}
  BY DEF Store, screen, history
<1> SUFFICES ASSUME NEW p \in People PROVE PrivateTo(p)'
  BY DEF Privacy
<1>2. \A m : Allowed(p, m) => Allowed(p, m)'
  BY <1>1 DEF Allowed
<1>3. posted \in Nat /\ since[p] \in Nat
  BY HelpChatAssumption DEF TypeOK, Ids
<1>4. PrivateTo(p)
  BY DEF Privacy
<1>5. (Started(p) => since[p] <= posted + 1)'
  BY <1>1, <1>3, <1>4 DEF PrivateTo, Started
<1>6. (link[p].joined => \A m \in coming : Allowed(p, m))'
  <2> SUFFICES ASSUME link[p].joined, NEW m \in coming' PROVE Allowed(p, m)'
    BY <1>1
  <2>1. CASE m \in coming
    BY <1>2, <1>4, <2>1 DEF PrivateTo
  <2>2. CASE m = posted + 1
    BY <1>1, <1>4, <2>2 DEF PrivateTo, Started, Allowed
  <2> QED
    BY <1>1, <2>1, <2>2
<1>7. (\A m \in Shown(p) \cup Held(p) : Allowed(p, m))'
  BY <1>1, <1>2, <1>4 DEF PrivateTo, Shown, Held
<1>8. (\A i \in 1 .. Len(link[p].feed) :
          link[p].feed[i].kind = "created" => Allowed(p, link[p].feed[i].msg))'
  BY <1>1, <1>2, <1>4 DEF PrivateTo
<1> QED
  BY <1>5, <1>6, <1>7, <1>8 DEF PrivateTo

\* An event that may be told to everyone in the room.
LEMMA SentPrivate ==
    ASSUME TypeOK, Privacy, NEW e \in Event, link' = Sent(e),
           UNCHANGED <<since, posted, crossed, page, load>>, coming' \subseteq coming,
           \A p \in People : link[p].joined /\ e.kind = "created" => Allowed(p, e.msg)
    PROVE  Privacy'
<1> SUFFICES ASSUME NEW p \in People PROVE PrivateTo(p)'
  BY DEF Privacy
<1>1. \A m : Allowed(p, m) => Allowed(p, m)'
  BY DEF Allowed
<1>2. PrivateTo(p)
  BY DEF Privacy
<1>3. /\ link'[p].asked = link[p].asked /\ link'[p].joined = link[p].joined
      /\ link'[p].feed = IF link[p].joined THEN Append(link[p].feed, e) ELSE link[p].feed
  BY SentFields
<1>4. (Started(p) => since[p] <= posted + 1)'
  BY <1>2, <1>3 DEF PrivateTo, Started
<1>5. (link[p].joined => \A m \in coming : Allowed(p, m))'
  BY <1>1, <1>2, <1>3 DEF PrivateTo
<1>6. (\A m \in Shown(p) \cup Held(p) : Allowed(p, m))'
  BY <1>1, <1>2 DEF PrivateTo, Shown, Held
<1>7. (\A i \in 1 .. Len(link[p].feed) :
          link[p].feed[i].kind = "created" => Allowed(p, link[p].feed[i].msg))'
  <2>1. CASE ~link[p].joined
    BY <1>1, <1>2, <1>3, <2>1 DEF PrivateTo
  <2>2. CASE link[p].joined
    <3> DEFINE old == link[p].feed
               new == Append(old, e)
    <3>1. old \in Seq(Event) /\ Len(old) \in Nat
      BY DEF TypeOK, Links
    <3>2. /\ Len(new) = Len(old) + 1 /\ new[Len(old) + 1] = e
          /\ \A i \in 1 .. Len(old) : new[i] = old[i]
      BY <3>1, AppendProperties
    <3> SUFFICES ASSUME NEW i \in 1 .. Len(new), new[i].kind = "created"
                 PROVE  Allowed(p, new[i].msg)
      BY <1>1, <1>3, <2>2
    <3> HIDE DEF new
    <3>3. CASE i \in 1 .. Len(old)
      BY <1>2, <3>2, <3>3 DEF PrivateTo
    <3>4. CASE i = Len(old) + 1
      BY <2>2, <3>2, <3>4
    <3> QED
      BY <3>1, <3>2, <3>3, <3>4
  <2> QED
    BY <2>1, <2>2
<1> QED
  BY <1>4, <1>5, <1>6, <1>7 DEF PrivateTo

LEMMA EmitPrivate == ASSUME TypeOK, Privacy, NEW m \in coming, Emit(m) PROVE Privacy'
<1> DEFINE e == [kind |-> "created", msg |-> m]
<1>1. e \in Event /\ link' = Sent(e) /\ e.msg = m
  BY StoredIds DEF Event, Emit
<1> HIDE DEF e
<1>2. UNCHANGED <<since, posted, crossed, page, load>> /\ coming' \subseteq coming
  BY DEF Emit
<1>3. \A p \in People : link[p].joined => Allowed(p, m)
  BY DEF Privacy, PrivateTo
<1> QED
  BY <1>1, <1>2, <1>3, SentPrivate

LEMMA TellPrivate == ASSUME TypeOK, Privacy, NEW s \in Slots, Tell(s) PROVE Privacy'
<1> DEFINE e == [kind |-> "deleted", msg |-> verdict[s].msg]
<1>1. e \in Event /\ link' = Sent(e) /\ e.kind = "deleted"
  BY DEF TypeOK, Verdicts, Event, Tell
<1> HIDE DEF e
<1>2. UNCHANGED <<since, posted, crossed, page, load, coming>>
  BY DEF Tell, rows, talk
<1> QED
  BY <1>1, <1>2, SentPrivate

LEMMA PrivacyStep == TypeOK /\ Privacy /\ [Next]_vars => Privacy'
<1> SUFFICES ASSUME TypeOK, Privacy, [Next]_vars PROVE Privacy'
  OBVIOUS
<1> USE DEF rows, talk, screen, desk, history
<1>0. ASSUME UNCHANGED <<since, posted, crossed, page, load, link>>, coming' \subseteq coming
      PROVE  Privacy'
  BY <1>0, PrivateKept DEF Privacy
<1>1. CASE UNCHANGED vars
  BY <1>0, <1>1 DEF vars
<1>2. ASSUME NEW p \in People,
             Open(p) \/ Close(p) \/ LoadEarlier(p) \/ Fetch(p) \/ Apply(p) \/ LoadFails(p)
             \/ Join(p) \/ Deliver(p) \/ Drop(p) \/ Reconnect(p)
      PROVE  Privacy'
  BY <1>2, OpenPrivate, ClosePrivate, LoadEarlierPrivate, FetchPrivate, ApplyPrivate,
     LoadFailsPrivate, JoinPrivate, DeliverPrivate, DropPrivate, ReconnectPrivate
<1>3. ASSUME NEW p \in People, Complain(p) PROVE Privacy'
  BY <1>0, <1>3 DEF Complain
<1>4. ASSUME NEW m \in coming, EmitFails(m) PROVE Privacy'
  BY <1>0, <1>4 DEF EmitFails
<1>5. ASSUME NEW r \in filing, File(r) PROVE Privacy'
  BY <1>0, <1>5 DEF File
<1>6. ASSUME NEW s \in Slots, Look(s) \/ Dismiss(s) \/ Delete(s) PROVE Privacy'
  BY <1>0, <1>6 DEF Look, Dismiss, Delete, Settles
<1> QED
  BY <1>1, <1>2, <1>3, <1>4, <1>5, <1>6, StorePrivate, EmitPrivate, TellPrivate DEF Next

(* A responder is shown nothing written before the response, but for a     *)
(* message whose author's call had not told the room yet when the          *)
(* responder entered it.                                                   *)
THEOREM LateJoinPrivate == Spec => []LateJoinIsPrivate
<1>1. Init => Privacy
  <2> SUFFICES ASSUME Init, NEW p \in People PROVE PrivateTo(p)
    BY DEF Privacy
  <2>1. ~Started(p) /\ ~link[p].joined
    BY DEF Init, Started, NoPage, NoLoad
  <2>2. link[p].feed = <<>>
    BY DEF Init
  <2>3. Shown(p) = {} /\ Held(p) = {}
    BY DEF Init, Shown, Held, NoPage, NoLoad
  <2> QED
    BY <2>1, <2>2, <2>3 DEF PrivateTo
<1>2. Privacy => LateJoinIsPrivate
  BY DEF Privacy, PrivateTo, LateJoinIsPrivate, Allowed
<1> QED
  BY <1>1, <1>2, PrivacyStep, TypeCorrect, PTL DEF Spec

-----------------------------------------------------------------------------
(* What a page shows.  Two answers and the events in between must not lose   *)
(* a message, and what is deleted meanwhile must not stay readable.  The     *)
(* invariant says what an answer on its way to a page will bring.            *)

\* p will hear of m, or the loss is counted.
Unheard(p, m) == m \in coming \/ Queued(p, "created", m) \/ <<p, m>> \in missed

\* How the page and the answer it waits for go together.
Tidy(p) ==
    /\ page[p].state # "ready" => Shown(p) = {}
    /\ load[p].pc # "idle" =>
          page[p].state = IF load[p].earlier THEN "ready" ELSE "loading"
    /\ load[p].pc # "read" => Held(p) = {}
    /\ page[p].more => page[p].first \in Ids
    /\ load[p].pc # "idle" /\ load[p].earlier =>
          page[p].more /\ load[p].before = page[p].first
    /\ load[p].pc # "idle" /\ ~load[p].earlier => load[p].before = None
    /\ \A m \in Held(p) : m < load[p].before

\* S is a full page of messages that are all newer than m.
FullAfter(S, m) == Cardinality(S) >= PageSize /\ \A n \in S : m < n

\* The answer on its way holds what it was asked for, or the newest of it.
Answers(p) ==
    load[p].pc = "read" =>
       \A m \in Stored : since[p] <= m /\ m < load[p].before =>
           m \in Shown(p) \cup Held(p) \/ FullAfter(Held(p), m) \/ Unheard(p, m)

Complete(p) ==
    page[p].state = "ready" =>
       \A m \in Stored \ Shown(p) : since[p] <= m =>
           (page[p].more /\ m < page[p].first) \/ m \in Held(p) \/ Unheard(p, m)

Whole(p) == Tidy(p) /\ Answers(p) /\ Complete(p)

\* Neither the page nor the answer keeps the text of a deleted message of
\* which p has heard.
Hides(p) ==
    \A m \in deleted \cap (page[p].body \cup load[p].body) :
        Announced(p, m) \/ <<p, m>> \in slipped

\* A set of messages has a newest.
LEMMA GreatestExists ==
    ASSUME NEW S \in SUBSET Ids, S # {}
    PROVE  \E m \in S : \A n \in S : n <= m
<1> DEFINE D == {MaxPosts - n : n \in S}
<1>1. \A n \in S : n \in Nat /\ n <= MaxPosts /\ MaxPosts \in Nat
  BY HelpChatAssumption DEF Ids
<1>2. D \in SUBSET Nat /\ D # {}
  BY <1>1
<1>3. PICK d \in D : \A x \in D : d <= x
  BY <1>2, LeastExists
<1>4. PICK m \in S : d = MaxPosts - m
  OBVIOUS
<1>5. ASSUME NEW n \in S PROVE n <= m
  <2>1. MaxPosts - m <= MaxPosts - n
    BY <1>3, <1>4
  <2> QED
    BY <1>1, <2>1
<1> QED
  BY <1>5

\* The head of a list is the oldest of it.
LEMMA OldestLeast ==
    ASSUME NEW S \in SUBSET Ids, NEW otherwise, S # {}
    PROVE  Oldest(S, otherwise) \in S /\ \A n \in S : Oldest(S, otherwise) <= n
<1>1. \E m \in S : \A n \in S : m <= n
  BY LeastExists, Blanks
<1>2. Oldest(S, otherwise) = CHOOSE m \in S : \A n \in S : m <= n
  BY DEF Oldest
<1> QED
  BY <1>1, <1>2

\* What the newest page of a set leaves out is older than a full page.
LEMMA NewestIsFull ==
    ASSUME NEW S \in SUBSET Ids, NEW m \in S \ Newest(S)
    PROVE  FullAfter(Newest(S), m)
<1> DEFINE Since(k) == {n \in S : n >= k}
<1>1. IsFiniteSet(S) /\ S \subseteq Nat /\ PageSize \in Nat
  <2>1. IsFiniteSet(Ids)
    BY HelpChatAssumption, FS_Interval DEF Ids
  <2> QED
    BY <2>1, Blanks, FS_Subset, HelpChatAssumption
<1>2. \A k : IsFiniteSet(Since(k)) /\ Cardinality(Since(k)) \in Nat
  BY <1>1, FS_Subset, FS_CardinalityType
<1>3. PICK k \in S \ Newest(S) : \A j \in S \ Newest(S) : j <= k
  BY GreatestExists
<1>4. k \in Since(k) /\ ~(Cardinality(Since(k)) <= PageSize)
  BY <1>1, <1>3 DEF Newest
<1>5. Since(k) \ {k} \subseteq Newest(S)
  <2> SUFFICES ASSUME NEW n \in S, n >= k, n # k PROVE n \in Newest(S)
    OBVIOUS
  <2>1. n \in Nat /\ k \in Nat
    BY <1>1, <1>3
  <2>2. ~(n <= k)
    BY <2>1
  <2> QED
    BY <1>3, <2>2
<1>6. IsFiniteSet(Newest(S)) /\ Cardinality(Newest(S)) \in Nat
  BY <1>1, FS_Subset, FS_CardinalityType DEF Newest
<1>7. Cardinality(Newest(S)) >= PageSize
  <2> HIDE DEF Since
  <2>1. Cardinality(Since(k) \ {k}) = Cardinality(Since(k)) - 1
    BY <1>2, <1>4, FS_RemoveElement
  <2>2. Cardinality(Since(k) \ {k}) <= Cardinality(Newest(S))
    BY <1>5, <1>6, FS_Subset
  <2>3. Cardinality(Since(k)) \in Nat /\ ~(Cardinality(Since(k)) <= PageSize)
    BY <1>2, <1>4
  <2> QED
    BY <1>1, <1>6, <2>1, <2>2, <2>3
<1>8. ASSUME NEW n \in Newest(S) PROVE m < n
  <2>1. m \in S /\ n \in S /\ m \in Nat /\ n \in Nat
    BY <1>1 DEF Newest
  <2>2. Cardinality(Since(n)) <= PageSize /\ ~(Cardinality(Since(m)) <= PageSize)
    BY DEF Newest
  <2>3. CASE n <= m
    <3>1. Since(m) \subseteq Since(n)
      <4> SUFFICES ASSUME NEW x \in S, x >= m PROVE x >= n
        OBVIOUS
      <4>1. x \in Nat
        BY <1>1
      <4> QED
        BY <2>1, <2>3, <4>1
    <3> HIDE DEF Since
    <3>2. Cardinality(Since(m)) <= Cardinality(Since(n))
      BY <1>2, <3>1, FS_Subset
    <3>3. Cardinality(Since(m)) \in Nat /\ Cardinality(Since(n)) \in Nat
      BY <1>2
    <3> QED
      BY <1>1, <2>2, <3>2, <3>3
  <2> QED
    BY <2>1, <2>3
<1> QED
  BY <1>7, <1>8 DEF FullAfter

\* An event joins the feed at the end and leaves it at the head.
LEMMA QueuedAfterSend ==
    ASSUME TypeOK, NEW e \in Event, NEW p \in People, link' = Sent(e), NEW kind, NEW m
    PROVE  /\ Queued(p, kind, m) => Queued(p, kind, m)'
           /\ link[p].joined /\ e = [kind |-> kind, msg |-> m] => Queued(p, kind, m)'
<1> DEFINE old == link[p].feed
           new == Append(old, e)
           sought == [kind |-> kind, msg |-> m]
<1>1. link'[p].feed = IF link[p].joined THEN new ELSE old
  BY SentFields
<1>2. old \in Seq(Event) /\ Len(old) \in Nat
  BY DEF TypeOK, Links
<1>3. /\ Len(new) = Len(old) + 1 /\ new[Len(old) + 1] = e
      /\ \A i \in 1 .. Len(old) : new[i] = old[i]
  BY <1>2, AppendProperties
<1> HIDE DEF new, sought
<1>4. Queued(p, kind, m) = \E i \in 1 .. Len(old) : old[i] = sought
  BY DEF Queued, sought
<1>5. Queued(p, kind, m)' = \E i \in 1 .. Len(link'[p].feed) : link'[p].feed[i] = sought
  BY DEF Queued, sought
<1>6. ASSUME Queued(p, kind, m) PROVE Queued(p, kind, m)'
  <2>1. PICK i \in 1 .. Len(old) : old[i] = sought
    BY <1>4, <1>6
  <2>2. i \in 1 .. Len(new) /\ new[i] = sought
    BY <1>2, <1>3, <2>1
  <2> QED
    BY <1>1, <1>5, <2>1, <2>2
<1>7. ASSUME link[p].joined, e = sought PROVE Queued(p, kind, m)'
  <2>1. Len(old) + 1 \in 1 .. Len(new)
    BY <1>2, <1>3
  <2> QED
    BY <1>1, <1>3, <1>5, <1>7, <2>1
<1> QED
  BY <1>6, <1>7 DEF sought

LEMMA QueuedAfterDeliver ==
    ASSUME TypeOK, NEW p \in People, Deliver(p), NEW kind, NEW m, Queued(p, kind, m)
    PROVE  \/ Queued(p, kind, m)'
           \/ Head(link[p].feed).kind = kind /\ Head(link[p].feed).msg = m
<1> DEFINE old == link[p].feed
           new == Tail(old)
           sought == [kind |-> kind, msg |-> m]
<1>1. old \in Seq(Event) /\ old # <<>>
  BY DEF Deliver, TypeOK, Links
<1>2. /\ Head(old) = old[1] /\ Len(old) \in Nat /\ Len(new) = Len(old) - 1
      /\ \A i \in 1 .. Len(new) : new[i] = old[i + 1]
  BY <1>1, HeadTailProperties
<1>3. link'[p].feed = new
  <2> DEFINE next == [link[p] EXCEPT !.feed = new]
  <2>1. link' = [link EXCEPT ![p] = next]
    BY DEF Deliver
  <2>2. next.feed = new
    BY DEF TypeOK, Links
  <2> HIDE DEF next
  <2> QED
    BY <2>1, <2>2 DEF TypeOK
<1> HIDE DEF new
<1>4. PICK i \in 1 .. Len(old) : old[i] = sought
  BY DEF Queued
<1>5. CASE i = 1
  BY <1>2, <1>4, <1>5
<1>6. CASE i # 1
  <2>1. i - 1 \in 1 .. Len(new) /\ new[i - 1] = old[i]
    BY <1>2, <1>4, <1>6
  <2> QED
    BY <1>3, <1>4, <2>1 DEF Queued
<1> QED
  BY <1>5, <1>6

LEMMA QueuedKept ==
    ASSUME NEW p \in People, NEW kind, NEW m, link'[p].feed = link[p].feed
    PROVE  Queued(p, kind, m)' = Queued(p, kind, m)
BY DEF Queued

\* A step that leaves the page of p, and the answer it waits for, as they are.
LEMMA WholeKept ==
    ASSUME NEW p \in People, Whole(p), page'[p] = page[p], load'[p] = load[p], since' = since,
           \A m \in Stored' : m \in Stored /\ Unheard(p, m) => Unheard(p, m)',
           \A m \in Stored' : m \notin Stored => Unheard(p, m)'
    PROVE  Whole(p)'
<1>1. Shown(p)' = Shown(p) /\ Held(p)' = Held(p)
  BY DEF Shown, Held
<1>2. Tidy(p)'
  BY <1>1 DEF Whole, Tidy
<1>3. Answers(p)'
  BY <1>1 DEF Whole, Answers, FullAfter
<1>4. Complete(p)'
  BY <1>1 DEF Whole, Complete
<1> QED
  BY <1>2, <1>3, <1>4 DEF Whole

\* Deleted messages and what announces them stay; the page gains no text.
LEMMA HidesKept ==
    ASSUME NEW p \in People, Hides(p), deleted' = deleted,
           \A m : m \in (page[p].body \cup load[p].body)' =>
                     m \in page[p].body \cup load[p].body \/ m \notin deleted,
           \A m : Announced(p, m) => Announced(p, m)' \/ <<p, m>> \in slipped',
           \A m : m \in (page[p].body \cup load[p].body)' /\ <<p, m>> \in slipped
                     => <<p, m>> \in slipped'
    PROVE  Hides(p)'
BY DEF Hides

\* A call that is about to tell the room stays there.
LEMMA AnnouncedKept ==
    ASSUME NEW p \in People, NEW m, Announced(p, m), link'[p].feed = link[p].feed,
           \A s \in Slots : verdict[s].pc = "emit" => verdict'[s] = verdict[s]
    PROVE  Announced(p, m)'
<1>1. CASE Queued(p, "deleted", m)
  BY <1>1, QueuedKept DEF Announced
<1>2. CASE Telling(m)
  <2>1. PICK s \in Slots : verdict[s].pc = "emit" /\ verdict[s].msg = m
    BY <1>2 DEF Telling
  <2> QED
    BY <2>1 DEF Announced, Telling
<1> QED
  BY <1>1, <1>2 DEF Announced

\* Nothing is announced or missed by a step of the page.
LEMMA NewsKept ==
    ASSUME NEW p \in People, link'[p].feed = link[p].feed, coming' = coming,
           verdict' = verdict
    PROVE  /\ \A m : Announced(p, m) => Announced(p, m)'
           /\ \A m : Unheard(p, m) /\ (<<p, m>> \in missed => <<p, m>> \in missed')
                     => Unheard(p, m)'
<1>1. \A kind, m : Queued(p, kind, m)' = Queued(p, kind, m)
  BY QueuedKept
<1> QED
  BY <1>1, AnnouncedKept DEF Unheard

LEMMA OpenShows ==
    ASSUME TypeOK, NEW p \in People, Open(p) PROVE Whole(p)' /\ Hides(p)'
<1> DEFINE loading == [NoPage EXCEPT !.state = "loading"]
           asked == [NoLoad EXCEPT !.pc = "asked"]
<1>1. page' = [page EXCEPT ![p] = loading] /\ load' = [load EXCEPT ![p] = asked]
  BY DEF Open
<1>2. /\ loading.state = "loading" /\ loading.body = {} /\ loading.gone = {} /\ ~loading.more
      /\ asked.pc = "asked" /\ ~asked.earlier /\ asked.before = None /\ asked.body = {} /\ asked.gone = {}
  BY DEF NoPage, NoLoad
<1> HIDE DEF loading, asked
<1>3. page'[p] = loading /\ load'[p] = asked
  BY <1>1 DEF TypeOK
<1>4. Shown(p)' = {} /\ Held(p)' = {}
  BY <1>2, <1>3 DEF Shown, Held
<1> QED
  BY <1>2, <1>3, <1>4 DEF Whole, Tidy, Answers, Complete, Hides

LEMMA CloseShows ==
    ASSUME TypeOK, NEW p \in People, Close(p) PROVE Whole(p)' /\ Hides(p)'
<1>1. page'[p] = NoPage /\ load'[p] = NoLoad
  BY DEF Close, TypeOK
<1>2. Shown(p)' = {} /\ Held(p)' = {}
  BY <1>1 DEF Shown, Held, NoPage, NoLoad
<1> QED
  BY <1>1, <1>2 DEF Whole, Tidy, Answers, Complete, Hides, NoPage, NoLoad

LEMMA LoadEarlierShows ==
    ASSUME TypeOK, NEW p \in People, LoadEarlier(p), Whole(p), Hides(p)
    PROVE  Whole(p)' /\ Hides(p)'
<1> DEFINE asked == [NoLoad EXCEPT !.pc = "asked", !.earlier = TRUE, !.before = page[p].first]
<1>1. load' = [load EXCEPT ![p] = asked] /\ page' = page
  BY DEF LoadEarlier
<1>2. /\ asked.pc = "asked" /\ asked.earlier /\ asked.before = page[p].first
      /\ asked.body = {} /\ asked.gone = {}
  BY DEF NoLoad
<1> HIDE DEF asked
<1>3. load'[p] = asked
  BY <1>1 DEF TypeOK
<1>4. Shown(p)' = Shown(p) /\ Held(p)' = {} /\ Held(p) = {}
  BY <1>1, <1>2, <1>3 DEF Shown, Held, LoadEarlier, Whole, Tidy
<1>5. UNCHANGED <<posted, since, coming, link, verdict, deleted, missed, slipped>>
  BY DEF LoadEarlier, rows, talk, desk, history
<1>6. /\ \A m : Announced(p, m) => Announced(p, m)'
      /\ \A m : Unheard(p, m) => Unheard(p, m)'
  BY <1>5, NewsKept
<1>7. Tidy(p)'
  BY <1>1, <1>2, <1>3, <1>4 DEF Whole, Tidy, LoadEarlier
<1>8. Answers(p)'
  BY <1>2, <1>3 DEF Answers
<1>9. Complete(p)'
  BY <1>1, <1>4, <1>5, <1>6 DEF Whole, Complete, Stored
<1>10. Hides(p)'
  BY <1>1, <1>2, <1>3, <1>5, <1>6, HidesKept
<1> QED
  BY <1>7, <1>8, <1>9, <1>10 DEF Whole

LEMMA FetchShows ==
    ASSUME TypeOK, NEW p \in People, Fetch(p), Whole(p), Hides(p)
    PROVE  Whole(p)' /\ Hides(p)'
<1> DEFINE before == load[p].before
           found == Newest(Readable(p, before))
           next == [load[p] EXCEPT !.pc = "read", !.body = found \ deleted,
                                   !.gone = found \cap deleted]
<1>1. load' = [load EXCEPT ![p] = next] /\ page' = page
      /\ missed' = missed \ ({p} \X found)
      /\ slipped' = IF load[p].earlier THEN slipped ELSE slipped \ ({p} \X found)
  BY DEF Fetch
<1>2. /\ next.pc = "read" /\ next.earlier = load[p].earlier /\ next.before = before
      /\ next.body = found \ deleted /\ next.gone = found \cap deleted
  BY DEF TypeOK, Loads
<1>3. UNCHANGED <<posted, since, coming, link, verdict, deleted>>
  BY DEF Fetch, rows, talk, desk
<1>4. found \subseteq Readable(p, before) /\ Readable(p, before) \subseteq Ids
  BY StoredIds DEF Newest, Readable
<1>5. \A m \in Readable(p, before) \ found : FullAfter(found, m)
  BY <1>4, NewestIsFull
<1>6. \A m \in found : m < before
  BY <1>4 DEF Readable
<1>7. \A m \in Stored : since[p] <= m /\ m < before => m \in Readable(p, before)
  BY DEF Readable
<1> HIDE DEF found, next
<1>8. load'[p] = next
  BY <1>1 DEF TypeOK
<1>9. Shown(p)' = Shown(p) /\ Held(p)' = found /\ Held(p) = {} /\ load[p].pc = "asked"
  BY <1>1, <1>2, <1>8 DEF Shown, Held, Fetch, Whole, Tidy
<1>10. \A m : Announced(p, m) => Announced(p, m)'
  BY <1>3, NewsKept
<1>11. \A m : Unheard(p, m) => m \in found \/ Unheard(p, m)'
  BY <1>1, <1>3, NewsKept
<1>12. Tidy(p)'
  BY <1>1, <1>2, <1>6, <1>8, <1>9 DEF Whole, Tidy
<1>13. Answers(p)'
  BY <1>2, <1>3, <1>5, <1>7, <1>8, <1>9 DEF Answers, Stored
<1>14. Complete(p)'
  BY <1>1, <1>3, <1>9, <1>11 DEF Whole, Complete, Stored
<1>15. Hides(p)'
  <2>1. CASE load[p].earlier
    BY <1>1, <1>2, <1>3, <1>8, <1>10, <2>1, HidesKept
  <2>2. CASE ~load[p].earlier
    <3>1. page[p].body = {}
      BY <1>9, <2>2 DEF Whole, Tidy, Shown
    <3> QED
      BY <1>1, <1>2, <1>3, <1>8, <3>1 DEF Hides
  <2> QED
    BY <2>1, <2>2
<1> QED
  BY <1>12, <1>13, <1>14, <1>15 DEF Whole

LEMMA ApplyShows ==
    ASSUME TypeOK, NEW p \in People, Apply(p), Whole(p), Hides(p)
    PROVE  Whole(p)' /\ Hides(p)'
<1> DEFINE keep == load[p].earlier
           held == Held(p)
           body == (IF keep THEN page[p].body ELSE {}) \cup load[p].body
           gone == (IF keep THEN page[p].gone ELSE {}) \cup load[p].gone
           first == Oldest(held, page[p].first)
           more == Cardinality(held) >= PageSize
           next == [page[p] EXCEPT !.state = "ready", !.body = body, !.gone = gone,
                                   !.first = first, !.more = more]
<1>1. /\ page' = [page EXCEPT ![p] = next] /\ load' = [load EXCEPT ![p] = NoLoad]
      /\ load[p].pc = "read"
  BY DEF Apply, Applied
<1>2. UNCHANGED <<posted, since, coming, link, verdict, deleted, missed, slipped>>
  BY DEF Apply, Applied, rows, talk, desk, history
<1>3. /\ next.state = "ready" /\ next.body = body /\ next.gone = gone
      /\ next.first = first /\ next.more = more
  BY DEF TypeOK, Pages
<1>4. body \cup gone = Shown(p) \cup held
  <2>1. ~keep => Shown(p) = {}
    BY <1>1 DEF Whole, Tidy
  <2> QED
    BY <2>1 DEF Shown, Held
<1>5. body \subseteq page[p].body \cup load[p].body
  OBVIOUS
<1>6. held \subseteq Ids
  BY DEF TypeOK, Loads, Held
<1>7. more => held # {}
  <2>1. Cardinality({}) = 0
    BY FS_EmptySet
  <2>2. PageSize \in Nat \ {0}
    BY HelpChatAssumption
  <2> QED
    BY <2>1, <2>2
<1>8. held # {} => first \in held
  BY <1>6, OldestLeast
<1>9. \A m : FullAfter(held, m) => more /\ m < first
  BY <1>7, <1>8 DEF FullAfter
<1> HIDE DEF next, body, gone, first, more, held
<1>10. page'[p] = next /\ load'[p] = NoLoad
  BY <1>1 DEF TypeOK
<1>11. NoLoad.pc = "idle" /\ NoLoad.body = {} /\ NoLoad.gone = {}
  BY DEF NoLoad
<1>12. Shown(p)' = Shown(p) \cup held /\ Held(p)' = {}
  BY <1>3, <1>4, <1>10, <1>11 DEF Shown, Held
<1>13. /\ \A m : Announced(p, m) => Announced(p, m)'
       /\ \A m : Unheard(p, m) => Unheard(p, m)'
  BY <1>2, NewsKept
<1>14. Tidy(p)'
  BY <1>3, <1>6, <1>7, <1>8, <1>10, <1>11, <1>12 DEF Tidy
<1>15. Answers(p)'
  BY <1>10, <1>11 DEF Answers
<1>16. ASSUME NEW m \in Stored, m \notin Shown(p) \cup held, since[p] <= m
       PROVE  (more /\ m < first) \/ Unheard(p, m)
  <2>1. CASE m < load[p].before
    BY <1>1, <1>9, <1>16, <2>1 DEF Whole, Answers, held
  <2>2. CASE ~(m < load[p].before) /\ keep
    <3>1. page[p].state = "ready" /\ load[p].before = page[p].first
      BY <1>1, <2>2 DEF Whole, Tidy
    <3> QED
      BY <1>16, <2>2, <3>1 DEF Whole, Complete, held
  <2>3. CASE ~keep
    <3>1. load[p].before = MaxPosts + 1
      BY <1>1, <2>3 DEF Whole, Tidy, None
    <3>2. m \in Nat /\ m <= MaxPosts /\ MaxPosts \in Nat
      BY StoredIds, HelpChatAssumption DEF Ids
    <3>3. m < load[p].before
      BY <3>1, <3>2
    <3> QED
      BY <2>1, <3>3
  <2> QED
    BY <2>1, <2>2, <2>3
<1>17. Complete(p)'
  BY <1>2, <1>3, <1>10, <1>12, <1>13, <1>16 DEF Complete, Stored
<1>18. Hides(p)'
  BY <1>2, <1>3, <1>5, <1>10, <1>11, <1>13, HidesKept
<1> QED
  BY <1>14, <1>15, <1>17, <1>18 DEF Whole

LEMMA LoadFailsShows ==
    ASSUME TypeOK, NEW p \in People, LoadFails(p), Whole(p), Hides(p)
    PROVE  Whole(p)' /\ Hides(p)'
<1> DEFINE state == IF load[p].earlier THEN page[p].state ELSE "error"
           next == [page[p] EXCEPT !.state = state]
<1>1. /\ page' = [page EXCEPT ![p] = next] /\ load' = [load EXCEPT ![p] = NoLoad]
      /\ load[p].pc # "idle"
  BY DEF LoadFails
<1>2. UNCHANGED <<posted, since, coming, link, verdict, deleted, missed, slipped>>
  BY DEF LoadFails, rows, talk, desk, history
<1>3. /\ next.state = state /\ next.body = page[p].body /\ next.gone = page[p].gone
      /\ next.first = page[p].first /\ next.more = page[p].more
  BY DEF TypeOK, Pages
<1>4. state = "ready" => load[p].earlier /\ page[p].state = "ready"
  OBVIOUS
<1>5. state # "ready" => Shown(p) = {}
  BY <1>1 DEF Whole, Tidy
<1> HIDE DEF next, state
<1>6. page'[p] = next /\ load'[p] = NoLoad
  BY <1>1 DEF TypeOK
<1>7. NoLoad.pc = "idle" /\ NoLoad.body = {} /\ NoLoad.gone = {}
  BY DEF NoLoad
<1>8. Shown(p)' = Shown(p) /\ Held(p)' = {}
  BY <1>3, <1>6, <1>7 DEF Shown, Held
<1>9. /\ \A m : Announced(p, m) => Announced(p, m)'
      /\ \A m : Unheard(p, m) => Unheard(p, m)'
  BY <1>2, NewsKept
<1>10. Tidy(p)'
  BY <1>3, <1>5, <1>6, <1>7, <1>8 DEF Whole, Tidy
<1>11. Answers(p)'
  BY <1>6, <1>7 DEF Answers
<1>12. \A m \in Held(p) : state = "ready" => page[p].more /\ m < page[p].first
  BY <1>1, <1>4 DEF Whole, Tidy
<1>13. Complete(p)'
  BY <1>2, <1>3, <1>4, <1>6, <1>8, <1>9, <1>12 DEF Whole, Complete, Stored
<1>14. Hides(p)'
  BY <1>2, <1>3, <1>6, <1>7, <1>9, HidesKept
<1> QED
  BY <1>10, <1>11, <1>13, <1>14 DEF Whole

\* What the next event makes of the page.
LEMMA DeliverShows ==
    ASSUME TypeOK, NEW p \in People, Deliver(p), Whole(p), Hides(p)
    PROVE  Whole(p)' /\ Hides(p)'
<1> DEFINE e == Head(link[p].feed)
           m0 == e.msg
           told == [page[p] EXCEPT !.body = @ \cup {m0},
                                   !.first = IF @ = None THEN m0 ELSE @]
           hidden == [page[p] EXCEPT !.body = @ \ {m0}, !.gone = @ \cup {m0}]
<1>1. UNCHANGED <<posted, since, coming, verdict, deleted, load>>
  BY DEF Deliver, rows, talk, desk
<1>2. e \in Event /\ m0 \in Ids
  BY DeliverParts DEF Event
<1>3. \A kind, m : Queued(p, kind, m) => Queued(p, kind, m)' \/ (e.kind = kind /\ m0 = m)
  BY QueuedAfterDeliver
<1>4. /\ told.state = page[p].state /\ told.body = page[p].body \cup {m0}
      /\ told.gone = page[p].gone /\ told.more = page[p].more
      /\ told.first = IF page[p].first = None THEN m0 ELSE page[p].first
  BY DEF TypeOK, Pages
<1>5. /\ hidden.state = page[p].state /\ hidden.body = page[p].body \ {m0}
      /\ hidden.gone = page[p].gone \cup {m0} /\ hidden.more = page[p].more
      /\ hidden.first = page[p].first
  BY DEF TypeOK, Pages
<1>6. Held(p)' = Held(p)
  BY <1>1 DEF Held
<1>7. \A m : Telling(m)' <=> Telling(m)
  BY <1>1 DEF Telling
<1>8. CASE e.kind = "created"
  <2> DEFINE ready == page[p].state = "ready"
  <2>1. /\ page' = IF ready /\ m0 \notin Shown(p) THEN [page EXCEPT ![p] = told] ELSE page
        /\ missed' = IF ready \/ m0 \in Held(p) THEN missed ELSE missed \cup {<<p, m0>>}
        /\ slipped' = IF m0 \in deleted /\ ~Announced(p, m0)
                      THEN slipped \cup {<<p, m0>>} ELSE slipped
    BY <1>8 DEF Deliver
  <2> HIDE DEF told, e, m0
  <2>2. page'[p] = IF ready /\ m0 \notin Shown(p) THEN told ELSE page[p]
    BY <2>1 DEF TypeOK
  <2>3. Shown(p)' = IF ready THEN Shown(p) \cup {m0} ELSE Shown(p)
    BY <1>4, <2>2 DEF Shown
  <2>4. /\ page'[p].state = page[p].state /\ page'[p].more = page[p].more
        /\ page[p].more => page'[p].first = page[p].first
    <3>1. page[p].more => page[p].first # None
      BY HelpChatAssumption DEF Whole, Tidy, None, Ids
    <3> QED
      BY <1>4, <2>2, <3>1
  <2>5. \A m : Unheard(p, m) => Unheard(p, m)' \/ m = m0
    BY <1>1, <1>3, <2>1 DEF Unheard
  <2>6. \A m : m = m0 => Unheard(p, m)' \/ ready \/ m \in Held(p)
    BY <2>1 DEF Unheard
  <2>7. Tidy(p)'
    BY <1>1, <1>6, <2>3, <2>4 DEF Whole, Tidy
  <2>8. Answers(p)'
    BY <1>1, <1>6, <2>3, <2>5, <2>6 DEF Whole, Answers, FullAfter, Stored
  <2>9. Complete(p)'
    BY <1>1, <1>6, <2>3, <2>4, <2>5, <2>6 DEF Whole, Complete, Stored
  <2>10. \A m : Announced(p, m) => Announced(p, m)'
    BY <1>3, <1>7, <1>8 DEF Announced
  <2>11. Hides(p)'
    <3> SUFFICES ASSUME NEW m \in deleted, m \in page'[p].body \cup load[p].body
                 PROVE  Announced(p, m)' \/ <<p, m>> \in slipped'
      BY <1>1 DEF Hides
    <3>1. CASE m \in page[p].body \cup load[p].body
      BY <2>1, <2>10, <3>1 DEF Hides
    <3>2. CASE m = m0
      BY <2>1, <2>10, <3>2
    <3> QED
      BY <1>4, <2>2, <3>1, <3>2
  <2> QED
    BY <2>7, <2>8, <2>9, <2>11 DEF Whole
<1>9. CASE e.kind # "created"
  <2>1. /\ page' = IF m0 \in page[p].body THEN [page EXCEPT ![p] = hidden] ELSE page
        /\ slipped' = IF m0 \in load[p].body THEN slipped \cup {<<p, m0>>} ELSE slipped
        /\ missed' = missed
    BY <1>9 DEF Deliver
  <2> HIDE DEF hidden, e, m0
  <2>2. page'[p] = IF m0 \in page[p].body THEN hidden ELSE page[p]
    BY <2>1 DEF TypeOK
  <2>3. /\ Shown(p)' = Shown(p) /\ page'[p].body = page[p].body \ {m0}
        /\ page'[p].state = page[p].state /\ page'[p].more = page[p].more
        /\ page'[p].first = page[p].first
    BY <1>5, <2>2 DEF Shown
  <2>4. \A m : Unheard(p, m) => Unheard(p, m)'
    BY <1>1, <1>3, <1>9, <2>1 DEF Unheard
  <2>5. Tidy(p)' /\ Answers(p)' /\ Complete(p)'
    BY <1>1, <1>6, <2>3, <2>4 DEF Whole, Tidy, Answers, Complete, FullAfter, Stored
  <2>6. \A m : Announced(p, m) => Announced(p, m)' \/ m = m0
    BY <1>3, <1>7 DEF Announced
  <2>7. Hides(p)'
    <3> SUFFICES ASSUME NEW m \in deleted, m \in (page[p].body \ {m0}) \cup load[p].body
                 PROVE  Announced(p, m)' \/ <<p, m>> \in slipped'
      BY <1>1, <2>3 DEF Hides
    <3>1. CASE m = m0
      BY <2>1, <3>1
    <3>2. CASE m # m0
      BY <2>1, <2>6, <3>2 DEF Hides
    <3> QED
      BY <3>1, <3>2
  <2> QED
    BY <2>5, <2>7 DEF Whole
<1> QED
  BY <1>8, <1>9

\* Losing, or regaining, the room and the connection counts what is lost.
LEMMA LinkShows ==
    ASSUME TypeOK, NEW p \in People, Join(p) \/ Drop(p) \/ Reconnect(p), Whole(p), Hides(p)
    PROVE  Whole(p)' /\ Hides(p)'
<1>1. UNCHANGED <<posted, since, coming, verdict, deleted, page, load>>
  BY DEF Join, Drop, Reconnect, rows, talk, desk
<1>2. \A m : Telling(m)' <=> Telling(m)
  BY <1>1 DEF Telling
<1>3. /\ \A m : Unheard(p, m) => Unheard(p, m)'
      /\ \A m : Announced(p, m) => Announced(p, m)' \/ <<p, m>> \in slipped'
      /\ slipped \subseteq slipped'
  <2>1. CASE Join(p) \/ Reconnect(p)
    <3>1. missed' = missed /\ slipped' = slipped
      BY <2>1 DEF Join, Reconnect, history
    <3>2. link'[p].feed = link[p].feed
      <4> DEFINE joined == [link[p] EXCEPT !.asked = FALSE, !.joined = TRUE]
                 back == [link[p] EXCEPT !.on = TRUE, !.asked = page[p].state # "closed"]
      <4>1. link' = [link EXCEPT ![p] = joined] \/ link' = [link EXCEPT ![p] = back]
        BY <2>1 DEF Join, Reconnect
      <4>2. joined.feed = link[p].feed /\ back.feed = link[p].feed
        BY DEF TypeOK, Links
      <4> HIDE DEF joined, back
      <4> QED
        BY <4>1, <4>2 DEF TypeOK
    <3> QED
      BY <1>1, <3>1, <3>2, NewsKept
  <2>2. CASE Drop(p)
    <3> DEFINE lost == {link[p].feed[i] : i \in 1 .. Len(link[p].feed)}
    <3>1. /\ missed' = missed \cup {<<p, e.msg>> : e \in {x \in lost : x.kind = "created"}}
          /\ slipped' = slipped \cup {<<p, e.msg>> : e \in {x \in lost : x.kind = "deleted"}}
      BY <2>2 DEF Drop
    <3>2. \A kind, m : Queued(p, kind, m) => [kind |-> kind, msg |-> m] \in lost
      BY DEF Queued
    <3> HIDE DEF lost
    <3>3. ASSUME NEW m, Queued(p, "created", m) PROVE <<p, m>> \in missed'
      <4> DEFINE e == [kind |-> "created", msg |-> m]
      <4>1. e \in lost /\ e.kind = "created" /\ e.msg = m
        BY <3>2, <3>3
      <4> HIDE DEF e
      <4> QED
        BY <3>1, <4>1
    <3>4. ASSUME NEW m, Queued(p, "deleted", m) PROVE <<p, m>> \in slipped'
      <4> DEFINE e == [kind |-> "deleted", msg |-> m]
      <4>1. e \in lost /\ e.kind = "deleted" /\ e.msg = m
        BY <3>2, <3>4
      <4> HIDE DEF e
      <4> QED
        BY <3>1, <4>1
    <3>5. missed \subseteq missed' /\ slipped \subseteq slipped'
      BY <3>1
    <3> QED
      BY <1>1, <1>2, <3>3, <3>4, <3>5 DEF Unheard, Announced
  <2> QED
    BY <2>1, <2>2
<1>4. Whole(p)'
  BY <1>1, <1>3, WholeKept DEF Stored
<1>5. Hides(p)'
  BY <1>1, <1>3, HidesKept
<1> QED
  BY <1>4, <1>5

\* A step of one participant passes by the others.
LEMMA OthersShow ==
    ASSUME TypeOK, NEW q \in People, NEW p \in People \ {q}, Whole(p), Hides(p),
           \/ Open(q) \/ Close(q) \/ LoadEarlier(q) \/ Fetch(q) \/ Apply(q) \/ LoadFails(q)
           \/ Join(q) \/ Deliver(q) \/ Drop(q) \/ Reconnect(q)
    PROVE  Whole(p)' /\ Hides(p)'
<1>1. UNCHANGED <<posted, since, coming, verdict, deleted>>
  BY DEF Open, Close, LoadEarlier, Fetch, Apply, Applied, LoadFails, Join, Deliver, Drop,
         Reconnect, rows, talk, desk
<1>2. page'[p] = page[p] /\ load'[p] = load[p] /\ link'[p] = link[p]
  <2>1. CASE Open(q) \/ Close(q) \/ LoadEarlier(q) \/ Fetch(q)
    BY <2>1 DEF TypeOK, Open, Close, LoadEarlier, Fetch
  <2>2. CASE Apply(q) \/ LoadFails(q)
    BY <2>2 DEF TypeOK, Apply, Applied, LoadFails
  <2>3. CASE Join(q) \/ Drop(q) \/ Reconnect(q)
    BY <2>3 DEF TypeOK, Join, Drop, Reconnect
  <2>4. CASE Deliver(q)
    <3>1. load' = load
      BY <2>4 DEF Deliver
    <3>2. page' = page \/ \E next : page' = [page EXCEPT ![q] = next]
      BY <2>4, DeliverParts
    <3>3. \E next : link' = [link EXCEPT ![q] = next]
      BY <2>4, DeliverParts
    <3> QED
      BY <3>1, <3>2, <3>3 DEF TypeOK
  <2> QED
    BY <2>1, <2>2, <2>3, <2>4
<1>3. \A m : /\ <<p, m>> \in missed => <<p, m>> \in missed'
             /\ <<p, m>> \in slipped => <<p, m>> \in slipped'
  <2>1. CASE Fetch(q)
    BY <2>1 DEF Fetch
  <2>2. CASE Deliver(q)
    <3>1. missed \subseteq missed' /\ slipped \subseteq slipped'
      BY <2>2 DEF Deliver
    <3> QED
      BY <3>1
  <2>3. CASE Drop(q)
    BY <2>3 DEF Drop
  <2>4. CASE ~Fetch(q) /\ ~Deliver(q) /\ ~Drop(q)
    BY <2>4 DEF Open, Close, LoadEarlier, Apply, Applied, LoadFails, Join, Reconnect, history
  <2> QED
    BY <2>1, <2>2, <2>3, <2>4
<1>4. /\ \A m : Announced(p, m) => Announced(p, m)'
      /\ \A m : Unheard(p, m) => Unheard(p, m)'
  BY <1>1, <1>2, <1>3, NewsKept
<1>5. Whole(p)'
  BY <1>1, <1>2, <1>4, WholeKept DEF Stored
<1>6. Hides(p)'
  BY <1>1, <1>2, <1>3, <1>4, HidesKept
<1> QED
  BY <1>5, <1>6

\* A message is stored, and told to the room or counted as missed.
LEMMA PostShows ==
    ASSUME TypeOK, Store \/ \E m \in coming : Emit(m) \/ EmitFails(m),
           NEW p \in People, Whole(p), Hides(p)
    PROVE  Whole(p)' /\ Hides(p)'
<1>1. UNCHANGED <<since, deleted, page, load, verdict, slipped>>
  BY DEF Store, Emit, EmitFails, screen, desk, history
<1>2. CASE Store
  <2>1. link' = link /\ missed' = missed /\ coming' = coming \cup {posted + 1}
        /\ posted' = posted + 1
    BY <1>2 DEF Store, screen, history
  <2>2. /\ \A kind, m : Queued(p, kind, m)' = Queued(p, kind, m)
        /\ \A m : Announced(p, m) => Announced(p, m)'
    BY <1>1, <2>1, QueuedKept, AnnouncedKept
  <2>3. \A m : Unheard(p, m) => Unheard(p, m)'
    BY <2>1, <2>2 DEF Unheard
  <2>4. \A m \in Stored' : m \in Stored \/ m = posted + 1
    BY <2>1, HelpChatAssumption DEF Stored, TypeOK
  <2>5. \A m \in Stored' : m \notin Stored => Unheard(p, m)'
    BY <2>1, <2>4 DEF Unheard
  <2>6. Whole(p)'
    BY <1>1, <2>3, <2>5, WholeKept
  <2>7. Hides(p)'
    BY <1>1, <2>2, HidesKept
  <2> QED
    BY <2>6, <2>7
<1>3. ASSUME NEW m0 \in coming, Emit(m0) PROVE Whole(p)' /\ Hides(p)'
  <2> DEFINE e == [kind |-> "created", msg |-> m0]
  <2>1. /\ posted' = posted /\ coming' = coming \ {m0} /\ link' = Sent(e)
        /\ missed' = missed \cup (Away \X {m0})
    BY <1>3 DEF Emit
  <2>2. e \in Event
    BY StoredIds DEF Event
  <2>3. /\ \A kind, m : Queued(p, kind, m) => Queued(p, kind, m)'
        /\ link[p].joined => Queued(p, "created", m0)'
    <3> HIDE DEF e
    <3>1. \A kind, m : /\ Queued(p, kind, m) => Queued(p, kind, m)'
                       /\ link[p].joined /\ e = [kind |-> kind, msg |-> m]
                          => Queued(p, kind, m)'
      BY <2>1, <2>2, QueuedAfterSend
    <3> QED
      BY <3>1 DEF e
  <2>4. Queued(p, "created", m0)' \/ <<p, m0>> \in missed'
    BY <2>1, <2>3 DEF Away
  <2>5. \A m : Unheard(p, m) => Unheard(p, m)'
    BY <2>1, <2>3, <2>4 DEF Unheard
  <2>6. \A m : Announced(p, m) => Announced(p, m)'
    BY <1>1, <2>3 DEF Announced, Telling
  <2>7. Whole(p)'
    BY <1>1, <2>1, <2>5, WholeKept DEF Stored
  <2>8. Hides(p)'
    BY <1>1, <2>6, HidesKept
  <2> QED
    BY <2>7, <2>8
<1>4. ASSUME NEW m0 \in coming, EmitFails(m0) PROVE Whole(p)' /\ Hides(p)'
  <2>1. /\ posted' = posted /\ coming' = coming \ {m0} /\ link' = link
        /\ missed' = missed \cup (People \X {m0})
    BY <1>4 DEF EmitFails, screen
  <2>2. /\ \A kind, m : Queued(p, kind, m)' = Queued(p, kind, m)
        /\ \A m : Announced(p, m) => Announced(p, m)'
    BY <1>1, <2>1, QueuedKept, AnnouncedKept
  <2>3. \A m : Unheard(p, m) => Unheard(p, m)'
    BY <2>1, <2>2 DEF Unheard
  <2>4. Whole(p)'
    BY <1>1, <2>1, <2>3, WholeKept DEF Stored
  <2>5. Hides(p)'
    BY <1>1, <2>2, HidesKept
  <2> QED
    BY <2>4, <2>5
<1> QED
  BY <1>2, <1>3, <1>4

\* Reports and verdicts: what is deleted is told or counted.
LEMMA VerdictShows ==
    ASSUME TypeOK, NEW s \in Slots, Look(s) \/ Dismiss(s) \/ Delete(s) \/ Tell(s),
           NEW p \in People, Whole(p), Hides(p)
    PROVE  Whole(p)' /\ Hides(p)'
<1>1. UNCHANGED <<posted, since, coming, page, load, missed>>
  BY DEF Look, Dismiss, Delete, Settles, Tell, rows, talk, screen, history
<1>2. CASE Look(s) \/ Dismiss(s) \/ Delete(s)
  <2>1. link' = link /\ slipped' = slipped /\ verdict[s].pc # "emit"
        /\ \A t \in Slots \ {s} : verdict'[t] = verdict[t]
    BY <1>2 DEF Look, Dismiss, Delete, Settles, screen, history, TypeOK
  <2>2. /\ \A m : Announced(p, m) => Announced(p, m)'
        /\ \A kind, m : Queued(p, kind, m)' = Queued(p, kind, m)
    BY <2>1, AnnouncedKept, QueuedKept
  <2>3. Whole(p)'
    BY <1>1, <2>2, WholeKept DEF Stored, Unheard
  <2>4. CASE deleted' = deleted
    BY <1>1, <2>1, <2>2, <2>3, <2>4, HidesKept
  <2>5. CASE deleted' # deleted
    <3> DEFINE next == [verdict[s] EXCEPT !.pc = "emit"]
    <3>1. /\ deleted' = deleted \cup {verdict[s].msg}
          /\ verdict' = [verdict EXCEPT ![s] = next]
      BY <1>2, <2>5 DEF Look, Dismiss, Delete, Settles, rows, talk
    <3>2. next.pc = "emit" /\ next.msg = verdict[s].msg
      BY DEF TypeOK, Verdicts
    <3> HIDE DEF next
    <3>3. \A m : m = verdict[s].msg => Announced(p, m)'
      BY <3>1, <3>2 DEF Announced, Telling, TypeOK
    <3>4. Hides(p)'
      BY <1>1, <2>1, <2>2, <3>1, <3>3 DEF Hides
    <3> QED
      BY <2>3, <3>4
  <2> QED
    BY <2>4, <2>5
<1>3. CASE Tell(s)
  <2> DEFINE m0 == verdict[s].msg
             e == [kind |-> "deleted", msg |-> m0]
  <2>1. /\ link' = Sent(e) /\ slipped' = slipped \cup (Away \X {m0})
        /\ verdict' = [verdict EXCEPT ![s] = NoVerdict] /\ deleted' = deleted
    BY <1>3 DEF Tell, rows, talk
  <2>2. e \in Event
    BY DEF Event, TypeOK, Verdicts
  <2>3. \A kind, m : /\ Queued(p, kind, m) => Queued(p, kind, m)'
                     /\ link[p].joined /\ e = [kind |-> kind, msg |-> m]
                        => Queued(p, kind, m)'
    <3> HIDE DEF e
    <3> QED
      BY <2>1, <2>2, QueuedAfterSend
  <2>4. \A m : Unheard(p, m) => Unheard(p, m)'
    BY <1>1, <2>3 DEF Unheard
  <2>5. \A m : m = m0 => Queued(p, "deleted", m)' \/ <<p, m>> \in slipped'
    BY <2>1, <2>3 DEF Away
  <2>6. \A m : Telling(m) => Telling(m)' \/ m = m0
    BY <2>1 DEF Telling, TypeOK
  <2>7. \A m : Announced(p, m) => Announced(p, m)' \/ <<p, m>> \in slipped'
    BY <2>3, <2>5, <2>6 DEF Announced
  <2>8. Whole(p)'
    BY <1>1, <2>4, WholeKept DEF Stored
  <2>9. Hides(p)'
    BY <1>1, <2>1, <2>7, HidesKept
  <2> QED
    BY <2>8, <2>9
<1> QED
  BY <1>2, <1>3

Screens == \A p \in People : Whole(p) /\ Hides(p)

LEMMA ScreensStep == TypeOK /\ Screens /\ [Next]_vars => Screens'
<1> SUFFICES ASSUME TypeOK, Screens, [Next]_vars, NEW p \in People
             PROVE  Whole(p)' /\ Hides(p)'
  BY DEF Screens
<1>1. Whole(p) /\ Hides(p)
  BY DEF Screens
<1>2. ASSUME UNCHANGED <<posted, since, coming, verdict, deleted, page, load, link, missed, slipped>>
      PROVE  Whole(p)' /\ Hides(p)'
  <2>1. /\ \A m : Announced(p, m) => Announced(p, m)'
        /\ \A m : Unheard(p, m) => Unheard(p, m)'
    BY <1>2, NewsKept
  <2> QED
    BY <1>1, <1>2, <2>1, WholeKept, HidesKept DEF Stored
<1>3. ASSUME NEW q \in People,
             \/ Open(q) \/ Close(q) \/ LoadEarlier(q) \/ Fetch(q) \/ Apply(q) \/ LoadFails(q)
             \/ Join(q) \/ Deliver(q) \/ Drop(q) \/ Reconnect(q)
      PROVE  Whole(p)' /\ Hides(p)'
  <2>1. CASE p = q
    BY <1>1, <1>3, <2>1, OpenShows, CloseShows, LoadEarlierShows, FetchShows, ApplyShows,
       LoadFailsShows, LinkShows, DeliverShows
  <2>2. CASE p # q
    BY <1>1, <1>3, <2>2, OthersShow
  <2> QED
    BY <2>1, <2>2
<1>4. CASE UNCHANGED vars
  BY <1>2, <1>4 DEF vars, rows, talk, screen, desk, history
<1>5. ASSUME NEW q \in People, Complain(q) PROVE Whole(p)' /\ Hides(p)'
  BY <1>2, <1>5 DEF Complain, rows, talk, screen, history
<1>6. ASSUME NEW r \in filing, File(r) PROVE Whole(p)' /\ Hides(p)'
  BY <1>2, <1>6 DEF File, talk, screen
<1>7. CASE Store \/ \E m \in coming : Emit(m) \/ EmitFails(m)
  BY <1>1, <1>7, PostShows
<1>8. ASSUME NEW s \in Slots, Look(s) \/ Dismiss(s) \/ Delete(s) \/ Tell(s)
      PROVE  Whole(p)' /\ Hides(p)'
  BY <1>1, <1>8, VerdictShows
<1> QED
  BY <1>3, <1>4, <1>5, <1>6, <1>7, <1>8 DEF Next

LEMMA ScreensAlways == Spec => []Screens
<1>1. Init => Screens
  <2> SUFFICES ASSUME Init, NEW p \in People PROVE Whole(p) /\ Hides(p)
    BY DEF Screens
  <2>1. page[p] = NoPage /\ load[p] = NoLoad /\ Shown(p) = {} /\ Held(p) = {}
    BY DEF Init, Shown, Held, NoPage, NoLoad
  <2> QED
    BY <2>1 DEF Whole, Tidy, Answers, Complete, Hides, NoPage, NoLoad
<1> QED
  BY <1>1, ScreensStep, TypeCorrect, PTL DEF Spec

(* A deleted message does not stay readable on a page that was in the room  *)
(* when the deletion was told, but for an event that met an answer read     *)
(* before the deletion, was lost with the connection, or overtook the       *)
(* message.                                                                 *)
THEOREM HiddenWhenDeleted == Spec => []DeletedIsHidden
<1>1. Screens => DeletedIsHidden
  BY DEF Screens, Hides, DeletedIsHidden
<1> QED
  BY <1>1, ScreensAlways, PTL

(* A page that is ready shows every message its reader may read, down to    *)
(* where "show earlier" begins, except those on their way and those told    *)
(* while it was loading or out of the room.                                 *)
THEOREM ReadyPagesComplete == Spec => []ReadyPageIsComplete
<1>1. Screens => ReadyPageIsComplete
  BY DEF Screens, Whole, Complete, Unheard, ReadyPageIsComplete
<1> QED
  BY <1>1, ScreensAlways, PTL
===============================================================================
