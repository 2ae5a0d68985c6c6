---------------------------- MODULE OutboxProofs ----------------------------
(* The outbox loses no report without an excuse, for any number of         *)
(* entries, endpoints, retries, passes and tabs closed.  The invariant     *)
(* behind it: every retry count in sight - in the store, in a pass's       *)
(* snapshot, or re-read for an increment - is backed by recorded failures, *)
(* a duplicate about to be purged has a newer entry, an entry about to be  *)
(* removed after its fetch was answered, and whatever is not stored any    *)
(* more is excused.  An entry that a put brings back was excused already.  *)
EXTENDS Outbox, TLAPS

Backed(n, e) == n <= tries[e] \/ tries[e] = MaxRetries

StoreFine ==
    /\ stored \subseteq Filed
    /\ answered \subseteq Filed
    /\ \A e \in Entries : Backed(retries[e], e)
    /\ Filed \ stored \subseteq Excused

PassFine(p) ==
    /\ pass[p].todo \subseteq Filed
    /\ pass[p].old \subseteq Superseded
    /\ \A e \in Entries : Backed(pass[p].seen[e], e)
    /\ pass[p].pc \in {"remove", "get", "put"} => pass[p].cur \in Filed
    /\ pass[p].pc = "remove" => pass[p].cur \in answered
    /\ pass[p].pc = "put" => Backed(pass[p].got, pass[p].cur)

IInv == TypeOK /\ StoreFine /\ \A p \in Passes : PassFine(p)

\* what a pass looks like past an entry
LEMMA Passing ==
    ASSUME NEW r \in PassRecords, NEW e \in Entries
    PROVE  /\ Past(r, e) \in PassRecords
           /\ Past(r, e).pc = r.pc /\ Past(r, e).cur = r.cur /\ Past(r, e).got = r.got
           /\ Past(r, e).old = r.old
           /\ Past(r, e).todo = r.todo \ {e}
           /\ \A x \in Entries : Past(r, e).seen[x] = IF x = e THEN 0 ELSE r.seen[x]
<1>1. [r.seen EXCEPT ![e] = 0] \in [Entries -> Nat]
  BY DEF PassRecords
<1>2. r.todo \ {e} \in SUBSET Entries
  BY DEF PassRecords
<1> QED
  BY <1>1, <1>2 DEF Past, PassRecords

Fetched == {"remove", "get"}

\* and when it is in the middle of one
LEMMA Sending ==
    ASSUME NEW r \in PassRecords, NEW e \in Entries, NEW step \in Fetched
    PROVE  /\ About(r, e, step) \in PassRecords
           /\ About(r, e, step).pc = step
           /\ About(r, e, step).cur = e
           /\ About(r, e, step).got = r.got
           /\ About(r, e, step).old = r.old
           /\ About(r, e, step).todo = r.todo \ {e}
           /\ \A x \in Entries : About(r, e, step).seen[x] = IF x = e THEN 0 ELSE r.seen[x]
<1> DEFINE o == Past(r, e)
<1>1. /\ o \in PassRecords /\ o.got = r.got /\ o.old = r.old
      /\ o.todo = r.todo \ {e} /\ \A x \in Entries : o.seen[x] = IF x = e THEN 0 ELSE r.seen[x]
  BY Passing
<1>2. About(r, e, step) = [o EXCEPT !.pc = step, !.cur = e]
  BY DEF About
<1> HIDE DEF o
<1> QED
  BY <1>1, <1>2 DEF PassRecords, Fetched

\* an idle pass has the form of a pass
LEMMA NoPassFits == PassOK(NoPass)
BY DEF NoPass, PassRecords, PassOK

\* every step moves one pass at most
LEMMA OneMoves ==
    ASSUME TypeOK, NEW p \in Passes, NEW r, PassOK(r), pass' = [pass EXCEPT ![p] = r]
    PROVE  pass' \in [Passes -> PassRecords] /\ \A q \in Passes : PassOK(pass'[q])
<1>1. r \in PassRecords
  BY DEF PassOK
<1>2. pass' \in [Passes -> PassRecords]
  BY <1>1 DEF TypeOK
<1>3. ASSUME NEW q \in Passes PROVE PassOK(pass'[q])
  <2>1. pass'[q] = IF q = p THEN r ELSE pass[q]
    BY DEF TypeOK
  <2> QED
    BY <2>1 DEF TypeOK
<1> QED
  BY <1>2, <1>3

(* Every field keeps its type, a pass never sends an entry it is purging,  *)
(* and an entry in the middle of a fetch is a real one.                    *)
THEOREM TypeCorrect == Spec => []TypeOK
<1>1. Init => TypeOK
  <2> SUFFICES ASSUME Init PROVE TypeOK
    OBVIOUS
  <2>1. \A p \in Passes : PassOK(pass[p]) /\ pass[p] \in PassRecords
    BY NoPassFits DEF Init, PassOK
  <2>2. pass \in [Passes -> PassRecords]
    BY <2>1 DEF Init
  <2> QED
    BY <2>1, <2>2, OutboxAssumption DEF Init, TypeOK
<1>2. TypeOK /\ [Next]_vars => TypeOK'
  <2> SUFFICES ASSUME TypeOK, [Next]_vars PROVE TypeOK'
    OBVIOUS
  <2> USE OutboxAssumption DEF history, db
  <2>0. /\ stored \subseteq Entries /\ retries \in [Entries -> Nat]
        /\ filed \in 0 .. MaxEntries /\ closings \in 0 .. MaxClosings
        /\ answered \subseteq Entries /\ tries \in [Entries -> 0 .. MaxRetries]
        /\ \A p \in Passes : pass[p] \in PassRecords /\ PassOK(pass[p])
    BY DEF TypeOK
  <2>1. CASE File
    <3>1. filed' \in 0 .. MaxEntries /\ filed + 1 \in Entries
      BY <2>0, <2>1 DEF File, Entries
    <3>2. UNCHANGED <<retries, pass, closings, answered, tries>>
      BY <2>1 DEF File
    <3>3. stored' \subseteq Entries
      BY <2>0, <2>1, <3>1 DEF File
    <3> QED
      BY <3>1, <3>2, <3>3 DEF TypeOK
  <2>2. ASSUME NEW p \in Passes, Start(p) PROVE TypeOK'
    <3> DEFINE r == [NoPass EXCEPT !.pc = "visit", !.old = stored \ Latest(stored),
                                  !.todo = Latest(stored),
                                  !.seen = CountOf(Latest(stored))]
    <3>1. /\ CountOf(Latest(stored)) \in [Entries -> Nat]
          /\ Latest(stored) \subseteq stored
      BY <2>0 DEF CountOf, Latest
    <3>2. PassOK(r)
      BY <2>0, <3>1, NoPassFits DEF PassOK, PassRecords
    <3> HIDE DEF r
    <3>3. /\ pass' = [pass EXCEPT ![p] = r]
          /\ UNCHANGED <<stored, retries, filed, closings, answered, tries>>
      BY <2>2 DEF Start, r
    <3> QED
      BY <2>0, <3>2, <3>3, OneMoves DEF TypeOK
  <2>3. ASSUME NEW p \in Passes, Purge(p) PROVE TypeOK'
    <3>1. PICK e \in pass[p].old : Drop(e) /\ pass' = [pass EXCEPT ![p].old = @ \ {e}]
      BY <2>3 DEF Purge
    <3> DEFINE r == [pass[p] EXCEPT !.old = @ \ {e}]
    <3>2. PassOK(r)
      BY <2>0 DEF PassOK, PassRecords
    <3> HIDE DEF r
    <3>3. pass' = [pass EXCEPT ![p] = r]
      BY <3>1 DEF r
    <3>4. /\ stored' \subseteq Entries /\ retries' \in [Entries -> Nat]
          /\ UNCHANGED <<filed, closings, answered, tries>>
      BY <2>0, <2>3, <3>1 DEF Drop, Purge
    <3> QED
      BY <2>0, <3>2, <3>3, <3>4, OneMoves DEF TypeOK
  <2>4. ASSUME NEW p \in Passes, NEW e \in Entries, GiveUp(p, e) \/ Skip(p, e)
        PROVE  TypeOK'
    <3>1. /\ pass' = [pass EXCEPT ![p] = Past(pass[p], e)]
          /\ UNCHANGED <<filed, closings, answered, tries>>
          /\ stored' \subseteq Entries /\ retries' \in [Entries -> Nat]
      BY <2>0, <2>4 DEF GiveUp, Skip, Drop
    <3> DEFINE r == Past(pass[p], e)
    <3>2. /\ r \in PassRecords /\ r.pc = pass[p].pc /\ r.cur = pass[p].cur
          /\ r.old = pass[p].old /\ r.todo = pass[p].todo \ {e}
      BY <2>0, Passing
    <3> HIDE DEF r
    <3>3. PassOK(r)
      BY <2>0, <3>2 DEF PassOK
    <3>4. pass' = [pass EXCEPT ![p] = r]
      BY <3>1 DEF r
    <3> QED
      BY <2>0, <3>1, <3>3, <3>4, OneMoves DEF TypeOK
  <2>5. ASSUME NEW p \in Passes, NEW e \in Entries, Send(p, e) PROVE TypeOK'
    <3>1. PICK step \in Fetched :
             pass' = [pass EXCEPT ![p] = About(pass[p], e, step)]
      BY <2>5 DEF Send, Fetched
    <3> DEFINE r == About(pass[p], e, step)
    <3>2. /\ r \in PassRecords /\ r.pc = step /\ r.cur = e
          /\ r.old = pass[p].old /\ r.todo = pass[p].todo \ {e}
      BY <2>0, <3>1, Sending
    <3>3. pass' = [pass EXCEPT ![p] = r]
      BY <3>1
    <3> HIDE DEF r
    <3>4. PassOK(r)
      BY <2>0, <3>2 DEF PassOK
    <3>5. answered' \subseteq Entries /\ UNCHANGED <<stored, retries, filed, closings, tries>>
      BY <2>0, <2>5 DEF Send
    <3> QED
      BY <2>0, <3>3, <3>4, <3>5, OneMoves DEF TypeOK
  <2>6. ASSUME NEW p \in Passes, Remove(p) PROVE TypeOK'
    <3> DEFINE r == [pass[p] EXCEPT !.pc = "visit", !.cur = None]
    <3>1. PassOK(r)
      BY <2>0 DEF PassOK, PassRecords
    <3> HIDE DEF r
    <3>2. pass' = [pass EXCEPT ![p] = r]
      BY <2>6 DEF Remove, r
    <3>3. /\ stored' \subseteq Entries /\ retries' \in [Entries -> Nat]
          /\ UNCHANGED <<filed, closings, answered, tries>>
      BY <2>0, <2>6 DEF Drop, Remove
    <3> QED
      BY <2>0, <3>1, <3>2, <3>3, OneMoves DEF TypeOK
  <2>7. ASSUME NEW p \in Passes, RetryGet(p) PROVE TypeOK'
    <3>1. PICK r : PassOK(r) /\ pass' = [pass EXCEPT ![p] = r]
      <4>1. pass[p].cur \in Entries /\ retries[pass[p].cur] \in Nat
        BY <2>0, <2>7 DEF RetryGet, PassOK
      <4>2. PassOK([pass[p] EXCEPT !.pc = "put", !.got = retries[pass[p].cur]])
        BY <2>0, <4>1 DEF PassOK, PassRecords
      <4>3. PassOK([pass[p] EXCEPT !.pc = "visit", !.cur = None])
        BY <2>0 DEF PassOK, PassRecords
      <4> QED
        BY <2>7, <4>2, <4>3 DEF RetryGet
    <3>2. UNCHANGED <<stored, retries, filed, closings, answered, tries>>
      BY <2>7 DEF RetryGet
    <3> QED
      BY <2>0, <3>1, <3>2, OneMoves DEF TypeOK
  <2>8. ASSUME NEW p \in Passes, RetryPut(p) PROVE TypeOK'
    <3>1. pass[p].got + 1 \in Nat /\ pass[p].cur \in Entries
      BY <2>0, <2>8 DEF RetryPut, PassOK, PassRecords
    <3>2. /\ stored' \subseteq Entries
          /\ retries' \in [Entries -> Nat]
          /\ tries' \in [Entries -> 0 .. MaxRetries]
          /\ UNCHANGED <<filed, closings, answered>>
      BY <2>0, <2>8, <3>1 DEF RetryPut
    <3> DEFINE r == [pass[p] EXCEPT !.pc = "visit", !.cur = None, !.got = 0]
    <3>3. PassOK(r)
      BY <2>0 DEF PassOK, PassRecords
    <3> HIDE DEF r
    <3>4. pass' = [pass EXCEPT ![p] = r]
      BY <2>8 DEF RetryPut, r
    <3> QED
      BY <2>0, <3>2, <3>3, <3>4, OneMoves DEF TypeOK
  <2>9. ASSUME NEW p \in Passes, Finish(p) \/ CloseTab(p) PROVE TypeOK'
    <3>1. /\ pass' = [pass EXCEPT ![p] = NoPass]
          /\ closings' \in 0 .. MaxClosings
          /\ UNCHANGED <<stored, retries, filed, answered, tries>>
      BY <2>0, <2>9 DEF Finish, CloseTab
    <3> QED
      BY <2>0, <3>1, NoPassFits, OneMoves DEF TypeOK
  <2>10. CASE UNCHANGED vars
    BY <2>10 DEF vars, TypeOK
  <2> QED
    BY <2>1, <2>2, <2>3, <2>4, <2>5, <2>6, <2>7, <2>8, <2>9, <2>10
    DEF Next, PassStep
<1> QED
  BY <1>1, <1>2, PTL DEF Spec

\* nothing that was excused or counted is ever taken back
LEMMA ExcusesGrow ==
    ASSUME TypeOK, [Next]_vars
    PROVE  /\ Filed \subseteq Filed'
           /\ Superseded \subseteq Superseded'
           /\ answered \subseteq answered'
           /\ \A e \in Entries, n \in Nat : Backed(n, e) => Backed(n, e)'
           /\ Excused \subseteq Excused'
<1> DEFINE Grows ==
            /\ filed \in Nat /\ filed' \in Nat /\ filed <= filed' /\ answered \subseteq answered'
            /\ \A e \in Entries :
                  tries'[e] = tries[e] \/ (tries'[e] = tries[e] + 1 /\ tries[e] < MaxRetries)
<1>1. Grows
  <2>0. filed \in Nat /\ tries \in [Entries -> 0 .. MaxRetries] /\ MaxRetries \in Nat
    BY OutboxAssumption DEF TypeOK
  <2>1. CASE File
    BY <2>0, <2>1 DEF File, history
  <2>2. ASSUME NEW p \in Passes, NEW e \in Entries, Send(p, e) PROVE Grows
    BY <2>0, <2>2 DEF Send
  <2>3. ASSUME NEW p \in Passes, RetryPut(p) PROVE Grows
    BY <2>0, <2>3 DEF RetryPut
  <2>4. CASE UNCHANGED <<filed, history>>
    BY <2>0, <2>4 DEF history
  <2> QED
    BY <2>1, <2>2, <2>3, <2>4
    DEF vars, Next, PassStep, Start, Purge, GiveUp, Skip, Remove, RetryGet, Finish, CloseTab
<1>2. Filed \subseteq Filed'
  BY <1>1 DEF Filed
<1>3. Superseded \subseteq Superseded'
  BY <1>2 DEF Superseded, Newer
<1>4. \A e \in Entries : /\ tries[e] \in 0 .. MaxRetries /\ MaxRetries \in Nat
                         /\ tries[e] = MaxRetries => tries'[e] = MaxRetries
  BY <1>1, OutboxAssumption DEF TypeOK
<1>5. \A e \in Entries, n \in Nat : Backed(n, e) => Backed(n, e)'
  BY <1>1, <1>4 DEF Backed
<1>6. Filed \subseteq Entries
  BY OutboxAssumption DEF TypeOK, Filed, Entries
<1>7. Excused \subseteq Excused'
  BY <1>1, <1>2, <1>3, <1>4, <1>6 DEF Excused
<1> QED
  BY <1>1, <1>2, <1>3, <1>5, <1>7

\* a count that is backed and at the limit is an excuse
LEMMA GivenUp ==
    ASSUME TypeOK, NEW e \in Filed, NEW n \in Nat, Backed(n, e), n >= MaxRetries
    PROVE  e \in Excused
<1>1. e \in Entries /\ tries[e] \in 0 .. MaxRetries
  BY OutboxAssumption DEF TypeOK, Filed, Entries
<1>2. tries[e] = MaxRetries
  BY <1>1, OutboxAssumption DEF Backed
<1> QED
  BY <1>2 DEF Excused

\* a step that lets an excused entry go, or leaves the store alone, is fine
LEMMA StoreStep ==
    ASSUME TypeOK, TypeOK', StoreFine, [Next]_vars, filed' = filed,
           \/ \E e \in Excused : Drop(e) /\ answered' = answered
           \/ UNCHANGED <<stored, retries>> /\ answered' \subseteq Filed
    PROVE  StoreFine'
<1>0. /\ stored \subseteq Entries /\ Excused \subseteq Excused' /\ Filed' = Filed
      /\ \A e \in Entries : /\ retries[e] \in Nat /\ tries'[e] \in Nat
                            /\ Backed(retries[e], e) => Backed(retries[e], e)'
  <2>1. \A e \in Entries : retries[e] \in Nat /\ tries'[e] \in Nat
    BY OutboxAssumption DEF TypeOK
  <2>2. Filed' = Filed
    BY DEF Filed
  <2>3. ASSUME NEW e \in Entries, Backed(retries[e], e) PROVE Backed(retries[e], e)'
    <3>1. retries[e] <= tries'[e] \/ tries'[e] = MaxRetries
      BY <2>1, <2>3, ExcusesGrow DEF Backed
    <3>2. UNCHANGED <<stored, retries>> \/ \E x \in Excused : Drop(x)
      OBVIOUS
    <3>3. retries'[e] = retries[e] \/ retries'[e] = 0
      BY <3>2 DEF Drop, TypeOK
    <3> QED
      BY <2>1, <3>1, <3>3, OutboxAssumption DEF Backed
  <2> QED
    BY <2>1, <2>2, <2>3, ExcusesGrow DEF TypeOK
<1>1. CASE UNCHANGED <<stored, retries>> /\ answered' \subseteq Filed
  BY <1>0, <1>1 DEF StoreFine, Backed
<1>2. ASSUME NEW x \in Excused, Drop(x), answered' = answered PROVE StoreFine'
  <2>1. ASSUME NEW e \in Entries PROVE Backed(retries[e], e)'
    <3>1. retries'[e] = 0 \/ retries'[e] = retries[e]
      BY <1>2 DEF Drop, TypeOK
    <3> QED
      BY <1>0, <3>1 DEF Backed, StoreFine
  <2> QED
    BY <1>0, <1>2, <2>1 DEF Drop, StoreFine
<1> QED
  BY <1>1, <1>2

\* a pass that does not move stays fine, because excuses and counts only grow
LEMMA OtherPasses ==
    ASSUME TypeOK, [Next]_vars, NEW p \in Passes, PassFine(p), pass'[p] = pass[p]
    PROVE  PassFine(p)'
<1>1. /\ pass[p].got \in Nat /\ \A e \in Entries : pass[p].seen[e] \in Nat
      /\ pass[p].pc = "put" => pass[p].cur \in Entries
  BY DEF TypeOK, PassOK, PassRecords
<1>2. /\ Filed \subseteq Filed' /\ Superseded \subseteq Superseded'
      /\ answered \subseteq answered'
      /\ \A e \in Entries, n \in Nat : Backed(n, e) => Backed(n, e)'
  BY ExcusesGrow
<1>3. \A e \in Entries : Backed(pass[p].seen[e], e)'
  <2>1. \A e \in Entries : pass'[p].seen[e] = pass[p].seen[e]
    OBVIOUS
  <2> QED
    BY <1>1, <1>2, <2>1 DEF PassFine, Backed
<1>4. (pass[p].pc = "put" => Backed(pass[p].got, pass[p].cur))'
  BY <1>1, <1>2 DEF PassFine, Backed
<1> QED
  BY <1>2, <1>3, <1>4 DEF PassFine

\* the invariant holds initially and is preserved by every action
LEMMA Inductive == (Init => IInv) /\ (IInv /\ TypeOK' /\ [Next]_vars => IInv')
<1>1. Init => IInv
  <2> SUFFICES ASSUME Init PROVE IInv
    OBVIOUS
  <2>1. \A p \in Passes : PassOK(pass[p]) /\ pass[p] \in PassRecords
    BY NoPassFits DEF Init, PassOK
  <2>2. pass \in [Passes -> PassRecords]
    BY <2>1 DEF Init
  <2>3. TypeOK
    BY <2>1, <2>2, OutboxAssumption DEF Init, TypeOK
  <2>4. Filed = {} /\ \A e \in Entries : Backed(0, e)
    BY DEF Init, Filed, Backed
  <2>5. StoreFine
    BY <2>4 DEF Init, StoreFine
  <2>6. \A p \in Passes : PassFine(p)
    BY <2>4 DEF Init, PassFine, NoPass
  <2> QED
    BY <2>3, <2>5, <2>6 DEF IInv
<1>2. ASSUME IInv, TypeOK', [Next]_vars PROVE IInv'
  <2> USE <1>2 DEF IInv
  \* it is enough to look at the store and at the pass that moves
  <2>0. ASSUME NEW p \in Passes, PassFine(p)', StoreFine',
               \A q \in Passes \ {p} : pass'[q] = pass[q]
        PROVE  IInv'
    <3>1. ASSUME NEW q \in Passes PROVE PassFine(q)'
      BY <2>0, OtherPasses
    <3> QED
      BY <2>0, <3>1
  <2>a. /\ \A p \in Passes : pass[p] \in PassRecords /\ PassFine(p)
        /\ pass \in [Passes -> PassRecords]
    BY DEF TypeOK
  <2>b. \A p \in Passes, e \in Entries : pass[p].seen[e] \in Nat
    BY <2>a DEF PassRecords
  <2>c. \A e \in Entries : retries[e] \in Nat /\ tries[e] \in 0 .. MaxRetries
    BY DEF TypeOK
  <2>d. Filed \subseteq Entries
    BY OutboxAssumption DEF TypeOK, Filed, Entries
  <2>1. /\ \A p \in Passes : pass[p] \in PassRecords /\ pass \in [Passes -> PassRecords]
        /\ \A p \in Passes : PassFine(p)
        /\ \A p \in Passes, e \in Entries : pass[p].seen[e] \in Nat
        /\ \A e \in Entries : retries[e] \in Nat /\ tries[e] \in 0 .. MaxRetries
        /\ Filed \subseteq Entries /\ stored \subseteq Filed
    BY <2>a, <2>b, <2>c, <2>d DEF StoreFine
  <2>2. CASE File
    <3>1. /\ UNCHANGED <<retries, pass, closings, answered, tries>>
          /\ filed' = filed + 1 /\ stored' = stored \union {filed + 1}
          /\ Filed' = Filed \union {filed + 1}
      BY <2>2, OutboxAssumption DEF File, history, Filed, TypeOK
    <3>2. Excused \subseteq Excused'
      BY ExcusesGrow
    <3>3. StoreFine'
      BY <3>1, <3>2 DEF StoreFine, Backed
    <3>4. ASSUME NEW q \in Passes PROVE PassFine(q)'
      BY <2>1, <3>1, OtherPasses
    <3> QED
      BY <3>3, <3>4
  <2>3. ASSUME NEW p \in Passes, Start(p) PROVE IInv'
    <3>1. UNCHANGED <<stored, retries, filed, answered, tries>>
      BY <2>3 DEF Start, db, history
    <3>2. /\ \A q \in Passes \ {p} : pass'[q] = pass[q]
          /\ pass'[p] = [NoPass EXCEPT !.pc = "visit", !.old = stored \ Latest(stored),
                                      !.todo = Latest(stored),
                                      !.seen = CountOf(Latest(stored))]
      BY <2>1, <2>3 DEF Start
    <3>3. pass'[p].old \subseteq Superseded /\ pass'[p].todo \subseteq Filed
      BY <2>1, <3>2 DEF Latest, Superseded, NoPass
    <3>4. \A e \in Entries : Backed(pass'[p].seen[e], e)
      BY <2>1, <3>2 DEF CountOf, NoPass, StoreFine, Backed
    <3>5. PassFine(p)'
      BY <3>1, <3>2, <3>3, <3>4 DEF PassFine, NoPass, Backed, Superseded, Filed
    <3>6. StoreFine'
      BY <3>1, StoreStep DEF StoreFine
    <3> QED
      BY <2>0, <3>2, <3>5, <3>6
  <2>4. ASSUME NEW p \in Passes, Purge(p) PROVE IInv'
    <3>1. PICK e \in pass[p].old : Drop(e) /\ pass' = [pass EXCEPT ![p].old = @ \ {e}]
      BY <2>4 DEF Purge
    <3>2. UNCHANGED <<filed, answered, tries>>
      BY <2>4 DEF Purge, history
    <3>3. e \in Excused
      BY <2>1, <3>1 DEF PassFine, Excused
    <3>4. StoreFine'
      BY <3>1, <3>2, <3>3, StoreStep
    <3>5. /\ \A q \in Passes \ {p} : pass'[q] = pass[q]
          /\ pass'[p] = [pass[p] EXCEPT !.old = @ \ {e}]
      BY <2>1, <3>1
    <3>6. PassFine(p)'
      BY <2>1, <3>2, <3>5 DEF PassFine, PassRecords, Backed, Superseded, Filed
    <3> QED
      BY <2>0, <3>4, <3>5, <3>6
  \* moving past an entry
  <2>5. ASSUME NEW p \in Passes, NEW e \in Entries, GiveUp(p, e) \/ Skip(p, e)
        PROVE  IInv'
    <3>1. /\ pass' = [pass EXCEPT ![p] = Past(pass[p], e)]
          /\ UNCHANGED <<filed, answered, tries>>
          /\ e \in pass[p].todo
          /\ \/ UNCHANGED <<stored, retries>>
             \/ Drop(e) /\ pass[p].seen[e] >= MaxRetries
      <4>1. CASE GiveUp(p, e)
        BY <2>1, <4>1 DEF GiveUp, Visit, history
      <4>2. CASE Skip(p, e)
        BY <2>1, <4>2 DEF Skip, Visit, db, history
      <4> QED
        BY <2>5, <4>1, <4>2
    <3>2. e \in Filed /\ Backed(pass[p].seen[e], e)
      BY <2>1, <3>1 DEF PassFine
    <3>3. pass[p].seen[e] >= MaxRetries => e \in Excused
      BY <2>1, <3>2, GivenUp
    <3>4. StoreFine'
      BY <3>1, <3>3, StoreStep DEF StoreFine
    <3>5. \A q \in Passes \ {p} : pass'[q] = pass[q]
      BY <2>1, <3>1
    <3> DEFINE r == Past(pass[p], e)
    <3>6. /\ r.pc = pass[p].pc /\ r.cur = pass[p].cur /\ r.got = pass[p].got
          /\ r.old = pass[p].old /\ r.todo = pass[p].todo \ {e}
          /\ \A x \in Entries : r.seen[x] = IF x = e THEN 0 ELSE pass[p].seen[x]
      BY <2>1, Passing
    <3>7. pass'[p] = r
      BY <2>1, <3>1
    <3> HIDE DEF r
    <3>8. \A x \in Entries : Backed(r.seen[x], x)
      BY <2>1, <3>6 DEF PassFine, Backed
    <3>9. PassFine(p)'
      BY <2>1, <3>1, <3>6, <3>7, <3>8 DEF PassFine, Backed, Superseded, Filed
    <3> QED
      BY <2>0, <3>4, <3>5, <3>9
  <2>6. ASSUME NEW p \in Passes, NEW e \in Entries, Send(p, e) PROVE IInv'
    <3>1. PICK step \in Fetched :
             /\ pass' = [pass EXCEPT ![p] = About(pass[p], e, step)]
             /\ answered' = IF step = "remove" THEN answered \union {e} ELSE answered
      BY <2>6 DEF Send, Fetched
    <3>2. UNCHANGED <<stored, retries, filed, tries>> /\ e \in pass[p].todo
      BY <2>6 DEF Send, Visit, db
    <3>3. e \in Filed /\ answered \subseteq Filed
      BY <2>1, <3>2 DEF PassFine, StoreFine
    <3>4. answered' \subseteq Filed
      BY <3>1, <3>3
    <3>5. StoreFine'
      BY <3>2, <3>4, StoreStep
    <3>6. \A q \in Passes \ {p} : pass'[q] = pass[q]
      BY <2>1, <3>1
    <3> DEFINE r == About(pass[p], e, step)
    <3>7. /\ r.pc = step /\ r.cur = e /\ r.old = pass[p].old
          /\ r.todo = pass[p].todo \ {e}
          /\ \A x \in Entries : r.seen[x] = IF x = e THEN 0 ELSE pass[p].seen[x]
      BY <2>1, <3>1, Sending
    <3>8. pass'[p] = r
      BY <2>1, <3>1
    <3> HIDE DEF r
    <3>9. \A x \in Entries : Backed(r.seen[x], x)
      BY <2>1, <3>7 DEF PassFine, Backed
    <3>10. step # "put" /\ (step = "remove" => e \in answered')
      BY <3>1 DEF Fetched
    <3>11. PassFine(p)'
      BY <2>1, <3>2, <3>3, <3>7, <3>8, <3>9, <3>10
      DEF PassFine, Backed, Superseded, Filed
    <3> QED
      BY <2>0, <3>5, <3>6, <3>11
  <2>7. ASSUME NEW p \in Passes, Remove(p) PROVE IInv'
    <3>1. /\ pass[p].pc = "remove" /\ Drop(pass[p].cur)
          /\ UNCHANGED <<filed, answered, tries>>
      BY <2>7 DEF Remove, history
    <3>2. pass[p].cur \in Excused
      BY <2>1, <3>1 DEF PassFine, Excused
    <3>3. StoreFine'
      BY <3>1, <3>2, StoreStep
    <3>4. /\ \A q \in Passes \ {p} : pass'[q] = pass[q]
          /\ pass'[p] = [pass[p] EXCEPT !.pc = "visit", !.cur = None]
      BY <2>1, <2>7 DEF Remove
    <3>5. PassFine(p)'
      BY <2>1, <3>1, <3>4 DEF PassFine, PassRecords, Backed, Superseded, Filed
    <3> QED
      BY <2>0, <3>3, <3>4, <3>5
  <2>8. ASSUME NEW p \in Passes, RetryGet(p) PROVE IInv'
    <3>1. UNCHANGED <<stored, retries, filed, answered, tries>>
      BY <2>8 DEF RetryGet, db, history
    <3>2. /\ pass[p].cur \in Entries
          /\ \A q \in Passes \ {p} : pass'[q] = pass[q]
          /\ \/ pass'[p] = [pass[p] EXCEPT !.pc = "put", !.got = retries[pass[p].cur]]
             \/ pass'[p] = [pass[p] EXCEPT !.pc = "visit", !.cur = None]
      BY <2>1, <2>8 DEF RetryGet, TypeOK, PassOK
    <3>3. Backed(retries[pass[p].cur], pass[p].cur) /\ pass[p].cur \in Filed
      BY <2>1, <2>8, <3>2 DEF StoreFine, PassFine, RetryGet
    <3>4. PassFine(p)'
      BY <2>1, <3>1, <3>2, <3>3 DEF PassFine, PassRecords, Backed, Superseded, Filed
    <3>5. StoreFine'
      BY <3>1, StoreStep DEF StoreFine
    <3> QED
      BY <2>0, <3>2, <3>4, <3>5
  <2>9. ASSUME NEW p \in Passes, RetryPut(p) PROVE IInv'
    <3> DEFINE e == pass[p].cur
    <3>1. /\ e \in Filed /\ e \in Entries /\ pass[p].got \in Nat /\ Backed(pass[p].got, e)
      BY <2>1, <2>9 DEF RetryPut, PassFine, PassRecords
    <3>2. /\ stored' = stored \union {e}
          /\ retries' = [retries EXCEPT ![e] = pass[p].got + 1]
          /\ tries' = [tries EXCEPT ![e] = IF @ < MaxRetries THEN @ + 1 ELSE @]
          /\ UNCHANGED <<filed, answered>>
      BY <2>9 DEF RetryPut
    <3>3. /\ \A q \in Passes \ {p} : pass'[q] = pass[q]
          /\ pass'[p] = [pass[p] EXCEPT !.pc = "visit", !.cur = None, !.got = 0]
      BY <2>1, <2>9 DEF RetryPut
    <3> HIDE DEF e
    <3>4. Excused \subseteq Excused' /\ \A x \in Entries, n \in Nat : Backed(n, x) => Backed(n, x)'
      BY ExcusesGrow
    <3>5. ASSUME NEW x \in Entries PROVE Backed(retries[x], x)'
      <4>1. CASE x = e
        <5>1. retries'[x] = pass[p].got + 1
              /\ tries'[x] = IF tries[e] < MaxRetries THEN tries[e] + 1 ELSE tries[e]
          BY <3>1, <3>2, <4>1 DEF TypeOK
        <5> QED
          BY <2>1, <3>1, <4>1, <5>1, OutboxAssumption DEF Backed
      <4>2. CASE x # e
        <5>1. retries'[x] = retries[x] /\ tries'[x] = tries[x]
          BY <3>2, <4>2 DEF TypeOK
        <5> QED
          BY <5>1 DEF StoreFine, Backed
      <4> QED
        BY <4>1, <4>2
    <3>6. StoreFine'
      BY <2>1, <3>1, <3>2, <3>4, <3>5 DEF StoreFine, Filed
    <3>7. \A x \in Entries : Backed(pass[p].seen[x], x)'
      <4>1. ASSUME NEW x \in Entries PROVE pass'[p].seen[x] = pass[p].seen[x]
        BY <2>1, <3>3 DEF PassRecords
      <4>2. ASSUME NEW x \in Entries
            PROVE  pass[p].seen[x] <= tries'[x] \/ tries'[x] = MaxRetries
        BY <2>1, <3>4 DEF PassFine, Backed
      <4> QED
        BY <4>1, <4>2 DEF Backed
    <3>8. PassFine(p)'
      BY <2>1, <3>2, <3>3, <3>7 DEF PassFine, PassRecords, Superseded, Filed
    <3> QED
      BY <2>0, <3>3, <3>6, <3>8
  <2>10. ASSUME NEW p \in Passes, Finish(p) \/ CloseTab(p) PROVE IInv'
    <3>1. /\ UNCHANGED <<stored, retries, filed, answered, tries>>
          /\ \A q \in Passes \ {p} : pass'[q] = pass[q]
          /\ pass'[p] = NoPass
      BY <2>1, <2>10 DEF Finish, CloseTab, db, history
    <3>2. StoreFine'
      BY <3>1, StoreStep DEF StoreFine
    <3>3. PassFine(p)'
      BY <2>1, <3>1 DEF PassFine, NoPass, Backed, TypeOK
    <3> QED
      BY <2>0, <3>1, <3>2, <3>3
  <2>11. CASE UNCHANGED vars
    <3>1. UNCHANGED <<stored, retries, filed, pass, answered, tries>>
      BY <2>11 DEF vars, db, history
    <3>2. StoreFine'
      BY <3>1, StoreStep DEF StoreFine
    <3>3. ASSUME NEW q \in Passes PROVE PassFine(q)'
      BY <2>1, <3>1, OtherPasses
    <3> QED
      BY <3>2, <3>3
  <2> QED
    BY <2>2, <2>3, <2>4, <2>5, <2>6, <2>7, <2>8, <2>9, <2>10, <2>11 DEF Next, PassStep
<1> QED
  BY <1>1, <1>2

(* However passes overlap and tabs close, a report leaves the outbox only  *)
(* superseded, answered, or after MaxRetries recorded failures: the outbox *)
(* implements SavedReports.  A put that follows another pass's removal     *)
(* changes the store only by an entry that was excused before.             *)
THEOREM OutboxKeepsReports == Spec => KeepsReports
<1>1. Init => Promise!Init
  BY OutboxAssumption DEF Init, Promise!Init, Excused, Superseded, Filed
<1>2. ASSUME IInv, TypeOK', [Next]_vars PROVE [Promise!Next]_(Promise!vars)
  <2> USE <1>2 DEF IInv
  <2>0. /\ Filed \subseteq Filed' /\ Excused \subseteq Excused' /\ Excused' \subseteq Filed'
        /\ stored \subseteq Filed /\ stored' \subseteq Filed'
    <3>1. IInv'
      BY Inductive
    <3> QED
      BY <3>1, ExcusesGrow DEF StoreFine, Excused, Superseded
  <2>1. CASE File
    <3>1. /\ filed + 1 \in Entries \ Filed /\ Filed' = Filed \union {filed + 1}
          /\ stored' = stored \union {filed + 1}
      BY <2>1, OutboxAssumption DEF File, Filed, Entries, TypeOK
    <3>2. Promise!Save(filed + 1)
      BY <2>0, <3>1 DEF Promise!Save
    <3> QED
      BY <3>1, <3>2 DEF Promise!Next
  \* entries of which a pass is rid, and entries it brings back
  <2>2. ASSUME UNCHANGED <<filed, answered, tries>>, \A e \in stored \ stored' : e \in Excused
        PROVE  [Promise!Next]_(Promise!vars)
    <3>1. Filed' = Filed /\ Excused' = Excused
      BY <2>2 DEF Excused, Superseded, Filed
    <3>2. Promise!Sweep
      BY <2>0, <2>2, <3>1 DEF Promise!Sweep
    <3> QED
      BY <3>2 DEF Promise!Next
  <2>3. ASSUME UNCHANGED <<filed, stored>> PROVE [Promise!Next]_(Promise!vars)
    <3>1. Filed' = Filed
      BY <2>3 DEF Filed
    <3>2. Promise!Excuse
      BY <2>0, <2>3, <3>1 DEF Promise!Excuse
    <3> QED
      BY <3>2 DEF Promise!Next
  <2>4. ASSUME NEW p \in Passes, PassStep(p) \/ CloseTab(p)
        PROVE  [Promise!Next]_(Promise!vars)
    <3>0. PassFine(p) /\ pass[p] \in PassRecords
      BY DEF TypeOK
    <3>1. CASE Purge(p)
      BY <2>2, <3>0, <3>1 DEF Purge, Drop, history, PassFine, Excused
    <3>2. ASSUME NEW e \in Entries, GiveUp(p, e) PROVE [Promise!Next]_(Promise!vars)
      <4>1. e \in Filed /\ pass[p].seen[e] \in Nat /\ Backed(pass[p].seen[e], e)
        BY <3>0, <3>2 DEF GiveUp, Visit, PassFine, PassRecords
      <4>2. e \in Excused
        BY <3>2, <4>1, GivenUp DEF GiveUp
      <4> QED
        BY <2>2, <3>2, <4>2 DEF GiveUp, Drop, history
    <3>3. CASE Remove(p)
      BY <2>2, <3>0, <3>3 DEF Remove, Drop, history, PassFine, Excused
    <3>4. CASE RetryPut(p)
      <4>1. pass[p].cur \in Filed /\ pass[p].cur \in Entries
        BY <3>0, <3>4 DEF RetryPut, PassFine, TypeOK, PassOK
      <4>2. CASE pass[p].cur \in stored
        BY <2>3, <3>4, <4>2 DEF RetryPut
      <4>3. CASE pass[p].cur \notin stored
        <5>1. pass[p].cur \in Excused
          BY <4>1, <4>3 DEF StoreFine
        <5>2. Filed' = Filed /\ Superseded' = Superseded /\ answered' = answered
          BY <3>4 DEF RetryPut, Filed, Superseded
        <5>3. \A x \in Entries : x # pass[p].cur => tries'[x] = tries[x]
          BY <3>4, <4>1 DEF RetryPut, TypeOK
        <5>4. Filed \subseteq Entries
          BY OutboxAssumption DEF Filed, Entries, TypeOK
        <5>5. Excused' = Excused
          BY <2>0, <5>1, <5>2, <5>3, <5>4 DEF Excused
        <5>6. Promise!Sweep
          BY <2>0, <3>4, <5>2, <5>5 DEF RetryPut, Promise!Sweep
        <5> QED
          BY <5>6 DEF Promise!Next
      <4> QED
        BY <4>2, <4>3
    <3>5. CASE UNCHANGED <<filed, stored>>
      BY <2>3, <3>5
    <3> QED
      BY <2>4, <3>1, <3>2, <3>3, <3>4, <3>5
      DEF PassStep, Start, Skip, Send, RetryGet, Finish, CloseTab, db
  <2> QED
    BY <2>1, <2>3, <2>4 DEF Next, vars, db
<1> QED
  <2>1. Spec => []IInv
    BY Inductive, TypeCorrect, PTL DEF Spec
  <2> QED
    BY <1>1, <1>2, <2>1, TypeCorrect, PTL DEF Spec, KeepsReports, Promise!Spec
============================================================================
