----------------------------- MODULE RetryQueue -----------------------------
(* The queue of submissions the API did not take: the Telegram bot's, a    *)
(* Redis list (apps/telegram/src/queue.ts, index.ts), and the VK mini      *)
(* app's, a localStorage item (apps/vk/src/services/offlineQueue.ts).  A   *)
(* pass reads the whole queue, sends its entries one after the other and   *)
(* then writes the whole queue back.  Neither the bot's 30 s timer nor     *)
(* VK's "online" event waits for the pass before it.                       *)
EXTENDS Naturals

CONSTANTS
    Entries,           \* submissions that may fail
    MaxRetries,        \* MAX_RETRIES (10 in the bot, 5 in the VK app)
    Passes,            \* passes that may run at the same time
    MaxFailures        \* bound: passes that die before they write back

ASSUME QueueAssumption ==
    /\ MaxRetries \in Nat \ {0}
    /\ MaxFailures \in Nat

VARIABLES
    queue,      \* entries in the queue
    retries,    \* their retry counts, 0 for one that is not queued
    filed,      \* entries ever enqueued
    pass,       \* pass[p]: the pass in slot p
    failures,   \* passes that died
    late,       \* entries filed while a pass was running
    answered,   \* entries the server took, or (bot) refused with a 4xx
    tries       \* failed tries, up to MaxRetries

history == <<answered, tries>>
vars == <<queue, retries, filed, late, pass, failures, history>>

\* todo: entries still to send, keep: those to write back, seen: their counts
NoPass ==
    [on |-> FALSE, todo |-> {}, keep |-> {}, seen |-> [e \in Entries |-> 0]]

PassRecords ==
    [on   : BOOLEAN,
     todo : SUBSET Entries,
     keep : SUBSET Entries,
     seen : [Entries -> 0 .. MaxRetries - 1]]

TypeOK ==
    /\ queue \subseteq Entries
    /\ retries \in [Entries -> 0 .. MaxRetries - 1]
    /\ filed \subseteq Entries
    /\ late \subseteq filed
    /\ failures \in 0 .. MaxFailures
    /\ answered \subseteq Entries
    /\ tries \in [Entries -> 0 .. MaxRetries]
    /\ pass \in [Passes -> PassRecords]

Init ==
    /\ queue = {}
    /\ retries = [e \in Entries |-> 0]
    /\ filed = {}
    /\ late = {}
    /\ pass = [p \in Passes |-> NoPass]
    /\ failures = 0
    /\ answered = {}
    /\ tries = [e \in Entries |-> 0]

\* enqueue, addToQueue
Enqueue(e) ==
    /\ e \notin filed
    /\ filed' = filed \union {e}
    /\ queue' = queue \union {e}
    /\ late' = IF \E p \in Passes : pass[p].on THEN late \union {e} ELSE late
    /\ UNCHANGED <<retries, pass, failures, history>>

\* LRANGE 0 -1; there is no pass over an empty queue
Start(p) ==
    /\ ~pass[p].on
    /\ queue # {}
    /\ pass' = [pass EXCEPT ![p] = [on |-> TRUE, todo |-> queue, keep |-> {},
                                    seen |-> retries]]
    /\ UNCHANGED <<queue, retries, filed, late, failures, history>>

Forget(r, e) == [r EXCEPT !.todo = @ \ {e}, !.seen[e] = 0]
Keep(r, e, n) == [r EXCEPT !.todo = @ \ {e}, !.keep = @ \union {e}, !.seen[e] = n]

\* mutant: an entry in its backoff is not written back
SkipForgets(p, e) ==
    /\ e \in pass[p].todo
    /\ pass[p].seen[e] > 0
    /\ pass' = [pass EXCEPT ![p] = Forget(@, e)]
    /\ UNCHANGED <<queue, retries, filed, late, failures, history>>

\* the backoff of an earlier try has not elapsed
Skip(p, e) ==
    /\ e \in pass[p].todo
    /\ pass[p].seen[e] > 0
    /\ pass' = [pass EXCEPT ![p] = Keep(@, e, pass[p].seen[e])]
    /\ UNCHANGED <<queue, retries, filed, late, failures, history>>

\* the callback returns true
Delivered(p, e) ==
    /\ e \in pass[p].todo
    /\ answered' = answered \union {e}
    /\ pass' = [pass EXCEPT ![p] = Forget(@, e)]
    /\ UNCHANGED <<queue, retries, filed, late, failures, tries>>

\* it returns false or throws: one more retry, unless that was the last
Failed(p, e) ==
    LET n == pass[p].seen[e] + 1 IN
    /\ e \in pass[p].todo
    /\ tries' = [tries EXCEPT ![e] = IF @ < MaxRetries THEN @ + 1 ELSE @]
    /\ pass' = [pass EXCEPT ![p] = IF n < MaxRetries THEN Keep(@, e, n)
                                                     ELSE Forget(@, e)]
    /\ UNCHANGED <<queue, retries, filed, late, failures, answered>>

\* MULTI DEL RPUSH EXEC, saveEntries: whatever the queue holds by now
Replace(p) ==
    /\ pass[p].on
    /\ pass[p].todo = {}
    /\ queue' = pass[p].keep
    /\ retries' = pass[p].seen
    /\ pass' = [pass EXCEPT ![p] = NoPass]
    /\ UNCHANGED <<filed, late, failures, history>>

\* the bot restarts, the app is closed, Redis does not answer
Die(p) ==
    /\ pass[p].on
    /\ failures < MaxFailures
    /\ failures' = failures + 1
    /\ pass' = [pass EXCEPT ![p] = NoPass]
    /\ UNCHANGED <<queue, retries, filed, late, history>>

Next ==
    \/ \E e \in Entries : Enqueue(e)
    \/ \E p \in Passes :
          \/ Start(p) \/ Replace(p) \/ Die(p)
          \/ \E e \in Entries : Skip(p, e) \/ Delivered(p, e) \/ Failed(p, e)

Spec == Init /\ [][Next]_vars

----------------------------------------------------------------------------
Excused == answered \union {e \in filed : tries[e] = MaxRetries}

(* A submission queued while no pass was running leaves the queue only     *)
(* when the server answered it or it was tried MaxRetries times, although  *)
(* overlapping passes overwrite each other's result and passes die.        *)
Promise == INSTANCE SavedReports WITH
    Reports <- Entries, saved <- filed, kept <- queue, excused <- Excused \union late
KeepsReports == Promise!Spec

(* "Сигнал сохранён и будет отправлен при восстановлении" (handlers/sos.ts *)
(* of the bot): the same of every submission.  A pass that overwrites what *)
(* was queued since it read the queue refutes it.                          *)
Strict == INSTANCE SavedReports WITH
    Reports <- Entries, saved <- filed, kept <- queue, excused <- Excused
KeepsEveryReport == Strict!Spec
============================================================================
