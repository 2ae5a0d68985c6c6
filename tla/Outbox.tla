------------------------------- MODULE Outbox -------------------------------
(* The PWA's outbox of reports filed offline (apps/pwa/src/services/       *)
(* outbox.ts and db.ts): an IndexedDB store, emptied by passes of          *)
(* syncOutbox.  The 30 s timer does not wait for the pass before it, and   *)
(* every open tab has a timer, so passes overlap; each IndexedDB call is   *)
(* an await, and incrementOutboxRetry is two of them.                      *)
EXTENDS Naturals

CONSTANTS
    MaxEntries,   \* bound: reports filed
    Endpoint,     \* Endpoint[e]: method and path entry e is addressed to
    MaxRetries,   \* MAX_RETRIES (5 in the code)
    Passes,       \* passes that may run at the same time
    MaxClosings   \* bound: passes cut short by closing their tab

\* entries are numbered in the order of createdAt
Entries == 1 .. MaxEntries
None == 0

ASSUME OutboxAssumption ==
    /\ MaxEntries \in Nat
    /\ MaxRetries \in Nat \ {0}
    /\ MaxClosings \in Nat
    /\ DOMAIN Endpoint = Entries

VARIABLES
    stored,     \* entries in the object store
    retries,    \* their retryCount, 0 for one that is not stored
    filed,      \* number of entries ever added
    pass,       \* pass[p]: the pass in slot p
    closings,   \* tabs closed in the middle of a pass
    answered,   \* entries for which a 2xx or 4xx response arrived
    tries       \* failed tries that were recorded, up to MaxRetries

db == <<stored, retries>>
history == <<answered, tries>>
vars == <<db, filed, pass, closings, history>>

\* old: duplicates to purge, todo: entries to visit, seen: the retryCounts
\* as read at the start, cur: the entry at hand, got: its count as re-read
NoPass ==
    [pc |-> "idle", old |-> {}, todo |-> {}, seen |-> [e \in Entries |-> 0],
     cur |-> None, got |-> 0]

PassRecords ==
    [pc   : {"idle", "visit", "remove", "get", "put"},
     old  : SUBSET Entries,
     todo : SUBSET Entries,
     seen : [Entries -> Nat],
     cur  : Entries \union {None},
     got  : Nat]

\* how the fields of a pass hang together
PassOK(r) ==
    /\ r \in PassRecords
    /\ r.old \intersect r.todo = {}
    /\ r.pc \in {"remove", "get", "put"} => r.cur \in Entries

TypeOK ==
    /\ stored \subseteq Entries
    /\ retries \in [Entries -> Nat]
    /\ filed \in 0 .. MaxEntries
    /\ closings \in 0 .. MaxClosings
    /\ answered \subseteq Entries
    /\ tries \in [Entries -> 0 .. MaxRetries]
    /\ pass \in [Passes -> PassRecords]
    /\ \A p \in Passes : PassOK(pass[p])

Init ==
    /\ stored = {}
    /\ retries = [e \in Entries |-> 0]
    /\ filed = 0
    /\ pass = [p \in Passes |-> NoPass]
    /\ closings = 0
    /\ answered = {}
    /\ tries = [e \in Entries |-> 0]

\* addToOutbox, when a report is filed offline
File ==
    /\ filed < MaxEntries
    /\ filed' = filed + 1
    /\ stored' = stored \union {filed + 1}
    /\ UNCHANGED <<retries, pass, closings, history>>

\* removeFromOutbox
Drop(e) ==
    /\ stored' = stored \ {e}
    /\ retries' = [retries EXCEPT ![e] = 0]

Newer(e, f) == f > e /\ Endpoint[f] = Endpoint[e]

\* deduplicateEntries: the last entry of every method and endpoint
Latest(entries) == {e \in entries : \A f \in entries : ~Newer(e, f)}

CountOf(entries) == [e \in Entries |-> IF e \in entries THEN retries[e] ELSE 0]

\* syncOutbox reads the store once; a pass over an empty store does nothing
Start(p) ==
    /\ pass[p].pc = "idle"
    /\ stored # {}
    /\ pass' = [pass EXCEPT ![p] =
                  [NoPass EXCEPT !.pc = "visit", !.old = stored \ Latest(stored),
                                 !.todo = Latest(stored),
                                 !.seen = CountOf(Latest(stored))]]
    /\ UNCHANGED <<db, filed, closings, history>>

\* the duplicates are removed first
Purge(p) ==
    /\ pass[p].pc = "visit"
    /\ \E e \in pass[p].old :
          /\ Drop(e)
          /\ pass' = [pass EXCEPT ![p].old = @ \ {e}]
    /\ UNCHANGED <<filed, closings, history>>

\* the loop's next entry, in any order
Visit(p, e) ==
    /\ pass[p].pc = "visit"
    /\ pass[p].old = {}
    /\ e \in pass[p].todo

\* the pass is done with e, or about to do the given step about it
Past(r, e) == [r EXCEPT !.todo = @ \ {e}, !.seen[e] = 0]
About(r, e, step) == [Past(r, e) EXCEPT !.pc = step, !.cur = e]

\* mutant: off by one
GiveUpEarly(p, e) ==
    /\ Visit(p, e)
    /\ pass[p].seen[e] + 1 >= MaxRetries
    /\ Drop(e)
    /\ pass' = [pass EXCEPT ![p] = Past(@, e)]
    /\ UNCHANGED <<filed, closings, history>>

\* the count is the one read at the start of the pass
GiveUp(p, e) ==
    /\ Visit(p, e)
    /\ pass[p].seen[e] >= MaxRetries
    /\ Drop(e)
    /\ pass' = [pass EXCEPT ![p] = Past(@, e)]
    /\ UNCHANGED <<filed, closings, history>>

\* the backoff of an earlier try has not elapsed
Skip(p, e) ==
    /\ Visit(p, e)
    /\ pass[p].seen[e] \in 1 .. MaxRetries - 1
    /\ pass' = [pass EXCEPT ![p] = Past(@, e)]
    /\ UNCHANGED <<db, filed, closings, history>>

\* the fetch is over: a 2xx or 4xx response, or a 5xx or no response at all,
\* in which case the server may have stored the report nevertheless
Send(p, e) ==
    /\ Visit(p, e)
    /\ pass[p].seen[e] < MaxRetries
    /\ \/ /\ answered' = answered \union {e}
          /\ pass' = [pass EXCEPT ![p] = About(@, e, "remove")]
       \/ /\ answered' = answered
          /\ pass' = [pass EXCEPT ![p] = About(@, e, "get")]
    /\ UNCHANGED <<db, filed, closings, tries>>

Remove(p) ==
    /\ pass[p].pc = "remove"
    /\ Drop(pass[p].cur)
    /\ pass' = [pass EXCEPT ![p].pc = "visit", ![p].cur = None]
    /\ UNCHANGED <<filed, closings, history>>

\* incrementOutboxRetry: nothing to do for an entry that is gone by now
RetryGet(p) ==
    LET e == pass[p].cur IN
    /\ pass[p].pc = "get"
    /\ pass' = IF e \in stored
               THEN [pass EXCEPT ![p].pc = "put", ![p].got = retries[e]]
               ELSE [pass EXCEPT ![p].pc = "visit", ![p].cur = None]
    /\ UNCHANGED <<db, filed, closings, history>>

\* mutant: the count is not incremented
RetryPutSame(p) ==
    LET e == pass[p].cur IN
    /\ pass[p].pc = "put"
    /\ stored' = stored \union {e}
    /\ retries' = [retries EXCEPT ![e] = pass[p].got]
    /\ tries' = [tries EXCEPT ![e] = IF @ < MaxRetries THEN @ + 1 ELSE @]
    /\ pass' = [pass EXCEPT ![p].pc = "visit", ![p].cur = None, ![p].got = 0]
    /\ UNCHANGED <<filed, closings, answered>>

\* the put brings back an entry another pass removed since the get
RetryPut(p) ==
    LET e == pass[p].cur IN
    /\ pass[p].pc = "put"
    /\ stored' = stored \union {e}
    /\ retries' = [retries EXCEPT ![e] = pass[p].got + 1]
    /\ tries' = [tries EXCEPT ![e] = IF @ < MaxRetries THEN @ + 1 ELSE @]
    /\ pass' = [pass EXCEPT ![p].pc = "visit", ![p].cur = None, ![p].got = 0]
    /\ UNCHANGED <<filed, closings, answered>>

Finish(p) ==
    /\ pass[p].pc = "visit"
    /\ pass[p].old = {} /\ pass[p].todo = {}
    /\ pass' = [pass EXCEPT ![p] = NoPass]
    /\ UNCHANGED <<db, filed, closings, history>>

\* the tab is closed; the object store survives
CloseTab(p) ==
    /\ pass[p].pc # "idle"
    /\ closings < MaxClosings
    /\ closings' = closings + 1
    /\ pass' = [pass EXCEPT ![p] = NoPass]
    /\ UNCHANGED <<db, filed, history>>

PassStep(p) ==
    \/ Start(p) \/ Purge(p) \/ Remove(p) \/ RetryGet(p) \/ RetryPut(p) \/ Finish(p)
    \/ \E e \in Entries : GiveUp(p, e) \/ Skip(p, e) \/ Send(p, e)

Next == File \/ \E p \in Passes : PassStep(p) \/ CloseTab(p)

\* the timer keeps firing and the event loop keeps running; a backoff is less
\* than a minute, so an entry that is visited for ever is sent eventually
Fairness ==
    \A p \in Passes :
        /\ WF_vars(PassStep(p))
        /\ \A e \in Entries : SF_vars(Send(p, e))

Spec == Init /\ [][Next]_vars

FairSpec == Spec /\ Fairness

----------------------------------------------------------------------------
Filed == 1 .. filed

Superseded == {e \in Filed : \E f \in Filed : Newer(e, f)}

Excused == Superseded \union answered \union {e \in Filed : tries[e] = MaxRetries}

(* Overlapping passes work on stale snapshots, lose increments and bring   *)
(* entries back; still no entry leaves the outbox unless a newer one has   *)
(* the same method and endpoint, or the server answered, or MaxRetries     *)
(* failures were recorded for it.                                          *)
Promise == INSTANCE SavedReports WITH
    Reports <- Entries, saved <- Filed, kept <- stored, excused <- Excused
KeepsReports == Promise!Spec

(* "Сохранено. Отправится при подключении к сети" (ReportForm.tsx), as the *)
(* user reads it: a report leaves the outbox only once it was answered or  *)
(* tried MaxRetries times.  Reports to the same endpoint refute it.        *)
SavedMeansSent ==
    \A e \in Filed \ stored : e \in answered \/ tries[e] = MaxRetries

(* The outbox runs empty, and stays so, in spite of passes that write an   *)
(* entry back or put an older retry count over a newer one.                *)
Drains == <>[](stored = {})
============================================================================
