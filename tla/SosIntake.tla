----------------------------- MODULE SosIntake -----------------------------
(* How an SOS gets in: the SOS button of the PWA (SOSButton.tsx) and the   *)
(* bot, POST /help-requests/sos with its dedup and its rate limit          *)
(* (helpRequests.ts, sosVerification.ts), and the author's retraction.     *)
(*                                                                         *)
(* A client waits 15 seconds for an answer and then stops listening; the   *)
(* handler goes on.  The bot takes some of the steps of the PWA and one of *)
(* its own; a client is whoever takes any of them.  What a request becomes *)
(* afterwards is HelpRequest's; here it is active, or closed - completed,  *)
(* cancelled or deleted - and reopened perhaps.  Left open are whether a   *)
(* row is within the kilometre and the half hour of the dedup, and whether *)
(* a request is served as a user's or as anonymous: not everybody is       *)
(* signed in, and optionalAuth (middleware/auth.ts:46) drops a token it    *)
(* cannot check and says nothing.                                          *)

CONSTANTS
    Clients,   \* phones, one person each
    Ip,        \* Ip[c]: the address a client's requests come from
    Copies,    \* Copies[c]: names of the rows a client may have at a time
    Slots      \* requests in flight at a time

ASSUME SosAssumption == Clients # {}

Rows == UNION {{c} \X Copies[c] : c \in Clients}
Author(r) == r[1]

VARIABLES
    row,      \* help_requests: active, closed, or not there yet
    named,    \* the rows that carry their author's userId
    spent,    \* addresses whose rate-limit point is taken
    phone,    \* phone[c]: what the person sees, and what is saved for later
    op,       \* op[i]: the requests in flight
    twins     \* history: the active rows that came up beside another of their
              \* author, or beside a request that was about to store one

vars == <<row, named, spent, phone, op, twins>>

RowStates == {"none", "active", "closed"}
\* row: the last one answered with; saved: an SOS waits in the outbox.
PhoneStates == [stage : {"idle", "sending", "sent", "error"}, row : SUBSET Rows,
                saved : BOOLEAN]
\* to: who waits for the answer; a phone that has stopped waiting leaves nobody.
\* named: what it stores will carry the userId of the caller.
\* crossed (history, of a retraction): a request from the screen and it were
\* under way for the same row at the same time.
OpStates == [pc : {"idle", "lookup", "limit", "create", "stored", "load", "commit"},
             by : Clients, row : SUBSET Rows, to : {"screen", "outbox", "nobody"},
             named : BOOLEAN, crossed : BOOLEAN]

TypeOK ==
    /\ row \in [Rows -> RowStates]
    /\ named \subseteq Rows
    /\ spent \subseteq {Ip[c] : c \in Clients}
    /\ phone \in [Clients -> PhoneStates]
    /\ op \in [Slots -> OpStates]
    /\ twins \subseteq Rows

Quiet == [stage |-> "idle", row |-> {}, saved |-> FALSE]
Free == [pc |-> "idle", by |-> CHOOSE c \in Clients : TRUE, row |-> {},
         to |-> "nobody", named |-> FALSE, crossed |-> FALSE]

Init ==
    /\ row = [r \in Rows |-> "none"]
    /\ named = {}
    /\ spent = {}
    /\ phone = [c \in Clients |-> Quiet]
    /\ op = [i \in Slots |-> Free]
    /\ twins = {}

Active(c) == {r \in Rows : Author(r) = c /\ row[r] = "active"}
Own(c) == Active(c) \cap named
To(i, pc) == op' = [op EXCEPT ![i].pc = pc]
\* Closing the overlay keeps nothing but what is saved.
Dismissed(c) == [Quiet EXCEPT !.saved = phone[c].saved]

-----------------------------------------------------------------------------
\* The phone.

(* sendSOS after a long press, or "try again": online, the POST goes out.  *)
Send(c, i) ==
    /\ phone[c].stage \in {"idle", "error"}
    /\ op[i].pc = "idle"
    /\ phone' = [phone EXCEPT ![c].stage = "sending"]
    /\ op' = [op EXCEPT ![i] = [Free EXCEPT !.pc = "lookup", !.by = c, !.to = "screen"]]
    /\ UNCHANGED <<row, named, spent, twins>>

(* sendSOS offline: the outbox keeps it, and the screen says it is sent.   *)
Save(c) ==
    /\ phone[c].stage \in {"idle", "error"}
    /\ phone' = [phone EXCEPT ![c].stage = "sent", ![c].saved = TRUE]
    /\ UNCHANGED <<row, named, spent, op, twins>>

(* A pass over the outbox (or the bot's queue) sends what is saved.        *)
Flush(c, i) ==
    /\ phone[c].saved
    /\ op[i].pc = "idle"
    /\ \A j \in Slots : op[j].to = "outbox" => op[j].by # c
    /\ op' = [op EXCEPT ![i] = [Free EXCEPT !.pc = "lookup", !.by = c, !.to = "outbox"]]
    /\ UNCHANGED <<row, named, spent, phone, twins>>

(* 15 seconds without an answer.                                           *)
TimeOut(c) ==
    /\ \E i \in Slots :
         /\ op[i].by = c /\ op[i].to = "screen"
         /\ op' = [op EXCEPT ![i] = IF @.pc = "stored" THEN Free
                                    ELSE [@ EXCEPT !.to = "nobody"]]
    /\ phone' = [phone EXCEPT ![c].stage = "error"]
    /\ UNCHANGED <<row, named, spent, twins>>

(* "Done", Escape or back: details typed are saved in passing.             *)
Done(c) ==
    /\ phone[c].stage = "sent"
    /\ phone' = [phone EXCEPT ![c] = Dismissed(c)]
    /\ UNCHANGED <<row, named, spent, op, twins>>

(* cancel: the error screen is closed, or left by "back" while the SOS is  *)
(* being sent - and is listened to all the same: whatever the answer is,   *)
(* the overlay opens again with it.                                        *)
GiveUp(c) ==
    /\ phone[c].stage \in {"sending", "error"}
    /\ phone' = [phone EXCEPT ![c] = Dismissed(c)]
    /\ UNCHANGED <<row, named, spent, op, twins>>

(* The bot is out of attempts: the SOS goes to its queue.                  *)
Enqueue(c) ==
    /\ phone[c].stage = "error"
    /\ phone' = [phone EXCEPT ![c] = [Quiet EXCEPT !.saved = TRUE]]
    /\ UNCHANGED <<row, named, spent, op, twins>>

\* The PATCH of a retraction goes out, past the requests that have found its
\* row and not answered yet.
Retraction(c, i) ==
    /\ phone[c].stage = "sent" /\ phone[c].row # {}
    /\ op[i].pc = "idle"
    /\ op' = [op EXCEPT ![i] =
                [Free EXCEPT !.pc = "load", !.by = c, !.row = phone[c].row,
                             !.crossed = \E j \in Slots : /\ op[j].to = "screen"
                                                          /\ op[j].row \cap phone[c].row # {}]]

\* mutant: the overlay stays until the server has answered
RetractStays(c, i) ==
    /\ Retraction(c, i)
    /\ UNCHANGED <<row, named, spent, phone, twins>>

(* cancelSOS: the overlay closes at once, the PATCH follows behind.        *)
Retract(c, i) ==
    /\ Retraction(c, i)
    /\ phone' = [phone EXCEPT ![c] = Dismissed(c)]
    /\ UNCHANGED <<row, named, spent, twins>>

-----------------------------------------------------------------------------
\* POST /help-requests/sos.

\* The answer is settled, and nothing is left to do for nobody.
Found(i, r) ==
    op' = [j \in Slots |->
             IF j = i THEN IF op[i].to = "nobody" THEN Free
                           ELSE [op[i] EXCEPT !.pc = "stored", !.row = {r}, !.named = FALSE]
             ELSE [op[j] EXCEPT !.crossed = @ \/ /\ op[j].pc \in {"load", "commit"}
                                                 /\ r \in op[j].row /\ op[i].to = "screen"]]

\* findExistingAnonymousSOS: an active row of the same address, anybody's, if
\* it is near and young enough.
Nearby(c) == {r \in Rows : row[r] = "active" /\ Ip[Author(r)] = Ip[c]}

\* mutant: users, too, are matched by address and place
LookupNearby(i) ==
    /\ op[i].pc = "lookup"
    /\ \/ \E r \in Nearby(op[i].by) : Found(i, r)
       \/ \E user \in BOOLEAN : op' = [op EXCEPT ![i].named = user, ![i].pc = "limit"]
    /\ UNCHANGED <<row, named, spent, phone, twins>>

(* The dedup comes before the limit: for a user, a row of theirs that is   *)
(* active; ...                                                             *)
LookupOwn(i) ==
    LET own == Own(op[i].by) IN
    \/ \E r \in own : Found(i, r)
    \/ own = {} /\ op' = [op EXCEPT ![i].named = TRUE, ![i].pc = "create"]

(* ... for an anonymous caller, one from the same address, if it is near.  *)
(* It is loaded in full, and if it is gone by then the limit comes next    *)
(* here, too.                                                              *)
LookupNear(i) ==
    \/ \E r \in Nearby(op[i].by) : Found(i, r)
    \/ To(i, "limit")

Lookup(i) ==
    /\ op[i].pc = "lookup"
    /\ LookupOwn(i) \/ LookupNear(i)
    /\ UNCHANGED <<row, named, spent, phone, twins>>

\* mutant: the limit is kept by caller
ConsumeByCaller(i) ==
    /\ op[i].pc = "limit"
    /\ op[i].by \notin spent
    /\ spent' = spent \union {op[i].by}
    /\ To(i, "create")
    /\ UNCHANGED <<row, named, phone, twins>>

(* checkSosRateLimit: one point an address.                                *)
Consume(i) ==
    /\ op[i].pc = "limit"
    /\ Ip[op[i].by] \notin spent
    /\ spent' = spent \union {Ip[op[i].by]}
    /\ To(i, "create")
    /\ UNCHANGED <<row, named, phone, twins>>

\* A request that ends without an answer, at the phone and at the outbox,
\* which may or may not try again.
Failed(i) ==
    /\ op' = [op EXCEPT ![i] = Free]
    /\ LET c == op[i].by IN
       CASE op[i].to = "screen" -> phone' = [phone EXCEPT ![c].stage = "error"]
         [] op[i].to = "outbox" -> \E kept \in BOOLEAN : phone' = [phone EXCEPT ![c].saved = kept]
         [] op[i].to = "nobody" -> UNCHANGED phone

(* 429: the point is taken, or Redis fails.  The outbox drops the SOS.     *)
Refuse(i) ==
    /\ op[i].pc = "limit"
    /\ Failed(i)
    /\ op[i].to = "outbox" => ~phone'[op[i].by].saved
    /\ UNCHANGED <<row, named, spent, twins>>

\* The model reuses a row that is not active and that nobody looks at.
Unused(r) ==
    /\ row[r] # "active"
    /\ \A i \in Slots : r \notin op[i].row
    /\ \A c \in Clients : r \notin phone[c].row

\* A request that will store a row for the user c.
Creating(j, c) == op[j].pc = "create" /\ op[j].named /\ op[j].by = c

(* The SOS is scored and stored (the queries behind the score fail open).  *)
Create(i) ==
    /\ op[i].pc = "create"
    /\ \E r \in Rows :
         /\ Author(r) = op[i].by /\ Unused(r)
         /\ row' = [row EXCEPT ![r] = "active"]
         /\ named' = IF op[i].named THEN named \union {r} ELSE named \ {r}
         /\ twins' = IF op[i].named /\ \E j \in Slots \ {i} : Creating(j, op[i].by)
                     THEN twins \union {r} ELSE twins \ {r}
         /\ Found(i, r)
    /\ UNCHANGED <<spent, phone>>

\* Bound of the model: an author has no more rows than Copies.
CreateFull(i) ==
    /\ op[i].pc = "create"
    /\ \A r \in Rows : Author(r) = op[i].by => ~Unused(r)
    /\ Failed(i)
    /\ UNCHANGED <<row, named, spent, twins>>

(* The row is there and has its update token: the answer arrives where     *)
(* somebody waits for it.                                                  *)
Answered(i) ==
    /\ op[i].pc = "stored"
    /\ op' = [op EXCEPT ![i] = Free]
    /\ phone' =
         [phone EXCEPT ![op[i].by] =
            CASE op[i].to = "screen" -> [@ EXCEPT !.stage = "sent", !.row = op[i].row]
              [] op[i].to = "outbox" -> [@ EXCEPT !.saved = FALSE]
              [] op[i].to = "nobody" -> @]
    /\ UNCHANGED <<row, named, spent, twins>>

(* A query or Redis fails (for the update token, say: the row is stored    *)
(* and the answer is an error), the process dies, or the answer is lost.   *)
Lose(i) ==
    /\ op[i].pc \in {"lookup", "limit", "create", "stored"}
    /\ Failed(i)
    /\ UNCHANGED <<row, named, spent, twins>>

-----------------------------------------------------------------------------
\* PATCH /help-requests/sos/:id/follow-up with cancel.

(* By the update token, which lives an hour, or as the signed-in author; a *)
(* Redis error ends it.  The address gets its point back even if the row   *)
(* is closed, though not if it is deleted.                                 *)
Load(i) ==
    /\ op[i].pc = "load"
    /\ \E r \in op[i].row :
         \/ /\ row[r] = "active"
            /\ To(i, "commit")
            /\ UNCHANGED spent
         \/ /\ op' = [op EXCEPT ![i] = Free]
            /\ \/ UNCHANGED spent
               \/ row[r] # "active" /\ spent' = spent \ {Ip[Author(r)]}
    /\ UNCHANGED <<row, named, phone, twins>>

\* A row leaves the active ones.
Closes(r) ==
    /\ row' = [row EXCEPT ![r] = "closed"]
    /\ twins' = twins \ {r}

(* The point is given back, then the row is cancelled - if nobody has      *)
(* edited it since (the version) and it is still there.                    *)
Commit(i) ==
    /\ op[i].pc = "commit"
    /\ op' = [op EXCEPT ![i] = Free]
    /\ \E r \in op[i].row :
         /\ spent' \in {spent, spent \ {Ip[Author(r)]}}
         /\ UNCHANGED <<row, twins>> \/ Closes(r)
    /\ UNCHANGED <<named, phone>>

-----------------------------------------------------------------------------
\* The rest of the world.

(* Completed or cancelled through the other endpoints; or deleted.         *)
CloseRow ==
    /\ \E r \in Rows : row[r] = "active" /\ Closes(r)
    /\ UNCHANGED <<named, spent, phone, op>>

(* The author or a coordinator reopens it (PATCH /:id), or a recomputation *)
(* writes back the status it has read before.                              *)
Reopen(r) ==
    /\ row[r] = "closed"
    /\ row' = [row EXCEPT ![r] = "active"]
    /\ LET c == Author(r) IN
       twins' = IF r \in named /\ (Own(c) # {} \/ \E i \in Slots : Creating(i, c))
                THEN twins \union {r} ELSE twins
    /\ UNCHANGED <<named, spent, phone, op>>

\* mutant: the point never comes back
NeverExpire(a) == FALSE /\ spent' = spent \ {a} /\ UNCHANGED <<row, named, phone, op, twins>>

\* Five minutes have passed, or the shorter block of a refusal.
Expire(a) ==
    /\ a \in spent
    /\ spent' = spent \ {a}
    /\ UNCHANGED <<row, named, phone, op, twins>>

Handle(i) ==
    \/ Lookup(i) \/ Consume(i) \/ Refuse(i) \/ Create(i) \/ CreateFull(i)
    \/ Answered(i) \/ Load(i) \/ Commit(i)
Next ==
    \/ \E c \in Clients :
         \/ Save(c) \/ TimeOut(c) \/ Done(c) \/ GiveUp(c) \/ Enqueue(c)
         \/ \E i \in Slots : Send(c, i) \/ Flush(c, i) \/ Retract(c, i)
    \/ \E i \in Slots : Handle(i) \/ Lose(i)
    \/ \E c \in Clients : Expire(Ip[c])
    \/ \E r \in Rows : Reopen(r)
    \/ CloseRow

(* Handlers run on and what is tried for ever works out at last: a query,  *)
(* a free point, a stored row; points expire.  A person keeps trying.      *)
Fairness ==
    /\ \A i \in Slots : WF_vars(Handle(i))
    /\ \A c \in Clients :
         /\ WF_vars(Expire(Ip[c]))
         /\ SF_vars(phone[c].stage = "error" /\ \E i \in Slots : Send(c, i))
         /\ SF_vars(\E i \in Slots : op[i].by = c /\ Lookup(i))
         /\ SF_vars(\E i \in Slots : op[i].by = c /\ Consume(i))
         /\ SF_vars(\E i \in Slots : op[i].by = c /\ Create(i))

Spec == Init /\ [][Next]_vars
FairSpec == Spec /\ Fairness

-----------------------------------------------------------------------------
(* A signed-in person has one active SOS under their name, however often   *)
(* the button is pressed and answers are lost.  A second one comes only of *)
(* two requests that were both past the dedup (helpRequests.ts:342), or of *)
(* reopening one that was closed.                                          *)
OneSosPerUser == \A c \in Clients : \A r, s \in Own(c) \ twins : r = s

\* Nobody shares the address of c.
OwnLine(c) == \A d \in Clients \ {c} : Ip[d] # Ip[c]

\* r is on the screen of c as sent, or in the answer c waits for.
Shows(c, r) ==
    \/ phone[c].stage = "sent" /\ r \in phone[c].row
    \/ \E i \in Slots : op[i].by = c /\ op[i].to = "screen" /\ r \in op[i].row

(* A retraction never closes the SOS a screen shows as sent: it reaches    *)
(* nothing its author has sent since - except when it and the request that *)
(* is answered with the old row were under way together (SOSButton.tsx:456,*)
(* helpRequests.ts:539).                                                   *)
ShownSosIsActive ==
    [][\A i \in Slots : \A r \in op[i].row :
          op[i].pc = "commit" /\ ~op[i].crossed /\ op'[i].pc = "idle" /\ row'[r] # row[r]
          => \A c \in Clients : OwnLine(c) => ~Shows(c, r)]_vars

(* Whoever keeps trying is heard: failed queries after the rate limit has  *)
(* charged its point, lost answers, timeouts and a Redis outage delay an   *)
(* SOS and do not lock anybody out (helpRequests.ts:384).                  *)
IsHeard ==
    \A c \in Clients :
        phone[c].stage = "error" ~> phone[c].stage \in {"idle", "sent"} \/ Active(c) # {}

=============================================================================
