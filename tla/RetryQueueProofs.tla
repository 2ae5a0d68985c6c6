-------------------------- MODULE RetryQueueProofs --------------------------
(* The queue loses nothing that was filed while no pass ran, for any       *)
(* number of entries, retries, passes and failures.  That is not inductive *)
(* by itself: what a pass will write back was decided when it read the     *)
(* queue and counted from there, so the invariant says that every count in *)
(* sight is backed by real tries, and that whatever is missing - from the  *)
(* queue or from what a pass is going to write over it - is excused.       *)
EXTENDS RetryQueue, TLAPS

Lost == Excused \union late

OnlyFiled ==
    /\ queue \subseteq filed
    /\ answered \subseteq filed
    /\ \A p \in Passes : pass[p].todo \union pass[p].keep \subseteq filed

Counted ==
    /\ \A e \in Entries : retries[e] <= tries[e]
    /\ \A p \in Passes, e \in Entries : pass[p].seen[e] <= tries[e]

Accounted ==
    /\ filed \ queue \subseteq Lost
    /\ \A p \in Passes :
          pass[p].on => filed \ (pass[p].todo \union pass[p].keep) \subseteq Lost

PassesOff == \A p \in Passes : ~pass[p].on => pass[p] = NoPass

IInv == TypeOK /\ OnlyFiled /\ Counted /\ PassesOff /\ Accounted

\* what a pass looks like when it has let go of an entry
LEMMA Forgetting ==
    ASSUME NEW r \in PassRecords, NEW e \in Entries
    PROVE  /\ Forget(r, e) \in PassRecords
           /\ Forget(r, e).on = r.on
           /\ Forget(r, e).todo = r.todo \ {e}
           /\ Forget(r, e).keep = r.keep
           /\ Forget(r, e).seen = [r.seen EXCEPT ![e] = 0]
<1>1. [r.seen EXCEPT ![e] = 0] \in [Entries -> 0 .. MaxRetries - 1]
  BY QueueAssumption DEF PassRecords
<1>2. r.on \in BOOLEAN /\ r.todo \ {e} \in SUBSET Entries /\ r.keep \in SUBSET Entries
  BY DEF PassRecords
<1> QED
  BY <1>1, <1>2 DEF Forget, PassRecords

\* and when it has decided to write it back
LEMMA Keeping ==
    ASSUME NEW r \in PassRecords, NEW e \in Entries, NEW n \in 0 .. MaxRetries - 1
    PROVE  /\ Keep(r, e, n) \in PassRecords
           /\ Keep(r, e, n).on = r.on
           /\ Keep(r, e, n).todo = r.todo \ {e}
           /\ Keep(r, e, n).keep = r.keep \union {e}
           /\ Keep(r, e, n).seen = [r.seen EXCEPT ![e] = n]
<1>1. [r.seen EXCEPT ![e] = n] \in [Entries -> 0 .. MaxRetries - 1]
  BY DEF PassRecords
<1>2. /\ r.on \in BOOLEAN
      /\ r.todo \ {e} \in SUBSET Entries
      /\ r.keep \union {e} \in SUBSET Entries
  BY DEF PassRecords
<1> QED
  BY <1>1, <1>2 DEF Keep, PassRecords

(* Counts, sets of entries and the passes' snapshots have their types; in  *)
(* particular no entry is written back with its retries used up.           *)
THEOREM TypeCorrect == Spec => []TypeOK
<1>0. /\ NoPass \in PassRecords
      /\ [e \in Entries |-> 0] \in [Entries -> 0 .. MaxRetries - 1]
      /\ [e \in Entries |-> 0] \in [Entries -> 0 .. MaxRetries]
  BY QueueAssumption DEF NoPass, PassRecords
<1>1. Init => TypeOK
  BY <1>0, QueueAssumption DEF Init, TypeOK
<1>2. TypeOK /\ [Next]_vars => TypeOK'
  <2> SUFFICES ASSUME TypeOK, [Next]_vars PROVE TypeOK'
    OBVIOUS
  <2> USE QueueAssumption DEF TypeOK, history
  <2>1. ASSUME NEW e \in Entries, Enqueue(e) PROVE TypeOK'
    BY <2>1 DEF Enqueue
  <2>2. ASSUME NEW p \in Passes, Start(p) PROVE TypeOK'
    BY <2>2 DEF Start, PassRecords
  <2>3. ASSUME NEW p \in Passes, NEW e \in Entries, Skip(p, e) PROVE TypeOK'
    <3>1. pass[p] \in PassRecords /\ pass[p].seen[e] \in 0 .. MaxRetries - 1
      BY DEF PassRecords
    <3>2. Keep(pass[p], e, pass[p].seen[e]) \in PassRecords
      BY <3>1, Keeping
    <3> QED
      BY <2>3, <3>2 DEF Skip
  <2>4. ASSUME NEW p \in Passes, NEW e \in Entries, Delivered(p, e) PROVE TypeOK'
    <3>1. Forget(pass[p], e) \in PassRecords
      BY Forgetting
    <3> QED
      BY <2>4, <3>1 DEF Delivered
  <2>5. ASSUME NEW p \in Passes, NEW e \in Entries, Failed(p, e) PROVE TypeOK'
    <3>1. tries' \in [Entries -> 0 .. MaxRetries]
      BY <2>5 DEF Failed
    <3>2. pass[p] \in PassRecords /\ pass[p].seen[e] \in 0 .. MaxRetries - 1
      BY DEF PassRecords
    <3>3. CASE pass[p].seen[e] + 1 < MaxRetries
      <4>1. pass[p].seen[e] + 1 \in 0 .. MaxRetries - 1
        BY <3>2, <3>3
      <4>2. Keep(pass[p], e, pass[p].seen[e] + 1) \in PassRecords
        BY <3>2, <4>1, Keeping
      <4> QED
        BY <2>5, <3>1, <3>3, <4>2 DEF Failed
    <3>4. CASE ~(pass[p].seen[e] + 1 < MaxRetries)
      <4>1. Forget(pass[p], e) \in PassRecords
        BY <3>2, Forgetting
      <4> QED
        BY <2>5, <3>1, <3>4, <4>1 DEF Failed
    <3> QED
      BY <3>3, <3>4
  <2>6. ASSUME NEW p \in Passes, Replace(p) PROVE TypeOK'
    BY <1>0, <2>6 DEF Replace, PassRecords
  <2>7. ASSUME NEW p \in Passes, Die(p) PROVE TypeOK'
    BY <1>0, <2>7 DEF Die
  <2>8. CASE UNCHANGED vars
    BY <2>8 DEF vars
  <2> QED
    BY <2>1, <2>2, <2>3, <2>4, <2>5, <2>6, <2>7, <2>8 DEF Next
<1> QED
  BY <1>1, <1>2, PTL DEF Spec

\* entries are only ever excused, never held to account again
LEMMA LostGrows ==
    ASSUME TypeOK, [Next]_vars
    PROVE  Lost \subseteq Lost' /\ (\A e \in Entries : tries[e] <= tries'[e])
<1> USE QueueAssumption DEF TypeOK, Lost, Excused, history
<1>1. ASSUME NEW e \in Entries, Enqueue(e)
      PROVE  Lost \subseteq Lost' /\ (\A x \in Entries : tries[x] <= tries'[x])
  BY <1>1 DEF Enqueue
<1>2. ASSUME NEW p \in Passes, NEW e \in Entries, Delivered(p, e)
      PROVE  Lost \subseteq Lost' /\ (\A x \in Entries : tries[x] <= tries'[x])
  BY <1>2 DEF Delivered
<1>3. ASSUME NEW p \in Passes, NEW e \in Entries, Failed(p, e)
      PROVE  Lost \subseteq Lost' /\ (\A x \in Entries : tries[x] <= tries'[x])
  BY <1>3 DEF Failed
<1>4. ASSUME UNCHANGED <<filed, late, history>>
      PROVE  Lost \subseteq Lost' /\ (\A x \in Entries : tries[x] <= tries'[x])
  BY <1>4
<1> QED
  BY <1>1, <1>2, <1>3, <1>4 DEF Next, vars, Start, Skip, Replace, Die

\* the invariant holds initially and is preserved by every action
LEMMA Inductive == (Init => IInv) /\ (IInv /\ TypeOK' /\ [Next]_vars => IInv')
<1>1. Init => IInv
  <2> SUFFICES ASSUME Init PROVE IInv
    OBVIOUS
  <2>1. TypeOK
    BY QueueAssumption DEF Init, TypeOK, NoPass, PassRecords
  <2> QED
    BY <2>1 DEF Init, IInv, OnlyFiled, Counted, PassesOff, Accounted, NoPass
<1>2. ASSUME IInv, TypeOK', [Next]_vars PROVE IInv'
  <2> USE <1>2 DEF IInv, TypeOK
  <2>0. Lost \subseteq Lost' /\ \A e \in Entries : tries[e] <= tries'[e]
    BY <1>2, LostGrows
  <2>a. \A p \in Passes : pass[p].todo # {} => pass[p].on
    BY DEF PassesOff, NoPass
  <2>b. \A p \in Passes, e \in Entries :
           /\ pass[p] \in PassRecords
           /\ pass[p].seen[e] \in 0 .. MaxRetries - 1
           /\ retries[e] \in Nat /\ tries[e] \in Nat /\ tries'[e] \in Nat
    BY DEF PassRecords
  <2>1. ASSUME NEW e \in Entries, Enqueue(e)
        PROVE  OnlyFiled' /\ Counted' /\ PassesOff' /\ Accounted'
    <3> USE <1>2, <2>1 DEF Enqueue, history
    <3>1. OnlyFiled'
      BY DEF OnlyFiled
    <3>2. Counted' /\ PassesOff'
      BY DEF Counted, PassesOff
    \* a running pass will overwrite the new entry, which is late then
    <3>3. (\E p \in Passes : pass[p].on) => e \in Lost'
      BY DEF Lost
    <3>4. Accounted'
      BY <2>0, <3>3 DEF Accounted
    <3> QED
      BY <3>1, <3>2, <3>4
  <2>2. ASSUME NEW p \in Passes, Start(p)
        PROVE  OnlyFiled' /\ Counted' /\ PassesOff' /\ Accounted'
    <3> USE <1>2, <2>2 DEF Start, history
    <3>1. OnlyFiled'
      BY DEF OnlyFiled
    <3>2. Counted' /\ PassesOff'
      BY DEF Counted, PassesOff
    <3>3. Accounted'
      BY <2>0 DEF Accounted
    <3> QED
      BY <3>1, <3>2, <3>3
  <2>3. ASSUME NEW p \in Passes, NEW e \in Entries, Skip(p, e)
        PROVE  OnlyFiled' /\ Counted' /\ PassesOff' /\ Accounted'
    <3> DEFINE r == Keep(pass[p], e, pass[p].seen[e])
    <3>1. /\ r.on = pass[p].on /\ r.todo = pass[p].todo \ {e}
          /\ r.keep = pass[p].keep \union {e}
          /\ r.seen = [pass[p].seen EXCEPT ![e] = pass[p].seen[e]]
      BY <2>b, Keeping
    <3>2. r.seen = pass[p].seen
      BY <2>b, <3>1 DEF PassRecords
    <3> HIDE DEF r
    <3> USE <1>2, <2>3 DEF Skip, history
    <3>3. pass' = [pass EXCEPT ![p] = r]
      BY DEF r
    <3>4. OnlyFiled'
      BY <3>1, <3>3 DEF OnlyFiled
    <3>5. Counted' /\ PassesOff'
      BY <2>a, <3>1, <3>2, <3>3 DEF Counted, PassesOff
    <3>6. Accounted'
      BY <2>0, <3>1, <3>3 DEF Accounted
    <3> QED
      BY <3>4, <3>5, <3>6
  <2>4. ASSUME NEW p \in Passes, NEW e \in Entries, Delivered(p, e)
        PROVE  OnlyFiled' /\ Counted' /\ PassesOff' /\ Accounted'
    <3> DEFINE r == Forget(pass[p], e)
    <3>1. /\ r.on = pass[p].on /\ r.todo = pass[p].todo \ {e}
          /\ r.keep = pass[p].keep
          /\ r.seen = [pass[p].seen EXCEPT ![e] = 0]
      BY <2>b, Forgetting
    <3>2. \A x \in Entries : r.seen[x] <= pass[p].seen[x]
      BY <2>b, <3>1 DEF PassRecords
    <3> HIDE DEF r
    <3> USE <1>2, <2>4 DEF Delivered
    <3>3. pass' = [pass EXCEPT ![p] = r]
      BY DEF r
    <3>4. OnlyFiled'
      BY <3>1, <3>3 DEF OnlyFiled
    <3>5. PassesOff'
      BY <2>a, <3>1, <3>3 DEF PassesOff
    <3>6. Counted'
      BY <2>b, <3>1, <3>2, <3>3 DEF Counted, PassRecords
    <3>7. e \in Lost'
      BY DEF Lost, Excused
    <3>8. Accounted'
      BY <2>0, <3>1, <3>3, <3>7 DEF Accounted
    <3> QED
      BY <3>4, <3>5, <3>6, <3>8
  <2>5. ASSUME NEW p \in Passes, NEW e \in Entries, Failed(p, e)
        PROVE  OnlyFiled' /\ Counted' /\ PassesOff' /\ Accounted'
    <3> DEFINE n == pass[p].seen[e] + 1
               r == pass'[p]
    <3>1. /\ e \in filed /\ e \in pass[p].todo
          /\ pass[p].seen[e] <= tries[e] /\ tries[e] \in 0 .. MaxRetries
          /\ tries' = [tries EXCEPT ![e] = IF @ < MaxRetries THEN @ + 1 ELSE @]
      BY <2>5 DEF Failed, Counted, OnlyFiled
    <3>2. tries'[e] = IF tries[e] < MaxRetries THEN tries[e] + 1 ELSE tries[e]
      BY <3>1
    <3>3. n < MaxRetries => n <= tries'[e]
      BY <2>b, <3>1, <3>2, QueueAssumption
    \* the last retry is used up only by that many recorded tries
    <3>4. ~(n < MaxRetries) => e \in Lost'
      <4> SUFFICES ASSUME ~(n < MaxRetries) PROVE tries'[e] = MaxRetries
        BY <2>5, <3>1 DEF Lost, Excused, Failed
      <4>1. /\ pass[p].seen[e] \in Nat /\ tries[e] \in Nat /\ MaxRetries \in Nat
            /\ tries[e] <= MaxRetries
        BY <2>b, <3>1, QueueAssumption
      <4>2. pass[p].seen[e] + 1 >= MaxRetries
        BY <4>1
      <4> QED
        BY <3>1, <3>2, <4>1, <4>2
    <3>5. /\ r.on = pass[p].on /\ r.todo = pass[p].todo \ {e}
          /\ IF n < MaxRetries
             THEN r.keep = pass[p].keep \union {e}
                  /\ r.seen = [pass[p].seen EXCEPT ![e] = n]
             ELSE r.keep = pass[p].keep
                  /\ r.seen = [pass[p].seen EXCEPT ![e] = 0]
      <4>1. CASE n < MaxRetries
        <5>1. n \in 0 .. MaxRetries - 1
          BY <2>b, <4>1, QueueAssumption
        <5>2. r = Keep(pass[p], e, n)
          BY <2>5, <4>1 DEF Failed
        <5> QED
          BY <2>b, <4>1, <5>1, <5>2, Keeping
      <4>2. CASE ~(n < MaxRetries)
        <5>1. r = Forget(pass[p], e)
          BY <2>5, <4>2 DEF Failed
        <5>2. pass[p] \in PassRecords
          BY <2>b
        <5>3. /\ Forget(pass[p], e).on = pass[p].on
              /\ Forget(pass[p], e).todo = pass[p].todo \ {e}
              /\ Forget(pass[p], e).keep = pass[p].keep
              /\ Forget(pass[p], e).seen = [pass[p].seen EXCEPT ![e] = 0]
          BY <5>2, Forgetting
        <5> QED
          BY <4>2, <5>1, <5>3
      <4> QED
        BY <4>1, <4>2
    <3>6. \A x \in Entries : r.seen[x] <= tries'[x]
      <4>1. CASE n < MaxRetries
        BY <2>0, <2>b, <3>3, <3>5, <4>1 DEF Counted, PassRecords
      <4>2. CASE ~(n < MaxRetries)
        <5>1. ASSUME NEW x \in Entries PROVE r.seen[x] <= tries'[x]
          <6>1. r.seen[x] = IF x = e THEN 0 ELSE pass[p].seen[x]
            BY <2>b, <3>5, <4>2 DEF PassRecords
          <6>2. pass[p].seen[x] <= tries[x] /\ tries[x] <= tries'[x]
            BY <2>0 DEF Counted
          <6> QED
            BY <2>b, <6>1, <6>2
        <5> QED
          BY <5>1
      <4> QED
        BY <4>1, <4>2
    <3>7. /\ pass' = [pass EXCEPT ![p] = r]
          /\ UNCHANGED <<queue, retries, filed, late, answered>>
      BY <2>5 DEF Failed
    <3> HIDE DEF n, r
    <3>8. OnlyFiled'
      BY <3>1, <3>5, <3>7 DEF OnlyFiled
    <3>9. PassesOff'
      BY <2>a, <3>1, <3>5, <3>7 DEF PassesOff
    <3>10. Counted'
      BY <2>0, <2>b, <3>6, <3>7 DEF Counted
    <3>11. Accounted'
      BY <2>0, <3>4, <3>5, <3>7 DEF Accounted
    <3> QED
      BY <3>8, <3>9, <3>10, <3>11
  <2>6. ASSUME NEW p \in Passes, Replace(p)
        PROVE  OnlyFiled' /\ Counted' /\ PassesOff' /\ Accounted'
    <3> USE <1>2, <2>6 DEF Replace, NoPass, history
    <3>1. OnlyFiled'
      BY DEF OnlyFiled
    <3>2. PassesOff'
      BY DEF PassesOff
    <3>3. \A e \in Entries : 0 <= tries[e] /\ tries'[e] = tries[e]
      BY <2>b
    <3>4. Counted'
      BY <3>3 DEF Counted
    <3>5. Accounted'
      BY <2>0 DEF Accounted
    <3> QED
      BY <3>1, <3>2, <3>4, <3>5
  <2>7. ASSUME NEW p \in Passes, Die(p)
        PROVE  OnlyFiled' /\ Counted' /\ PassesOff' /\ Accounted'
    <3> USE <1>2, <2>7 DEF Die, NoPass, history
    <3>1. OnlyFiled'
      BY DEF OnlyFiled
    <3>2. PassesOff'
      BY DEF PassesOff
    <3>3. \A e \in Entries : 0 <= tries[e] /\ tries'[e] = tries[e]
      BY <2>b
    <3>4. Counted'
      BY <3>3 DEF Counted
    <3>5. Accounted'
      BY <2>0 DEF Accounted
    <3> QED
      BY <3>1, <3>2, <3>4, <3>5
  <2>8. CASE UNCHANGED vars
    BY <1>2, <2>8 DEF vars, history, OnlyFiled, Counted, PassesOff, Accounted,
                      Lost, Excused
  <2> QED
    BY <1>2, <2>1, <2>2, <2>3, <2>4, <2>5, <2>6, <2>7, <2>8 DEF Next
<1> QED
  BY <1>1, <1>2

(* Passes that overlap, overwrite each other's result or die never cost a  *)
(* submission filed between passes its answer or its MaxRetries tries: the *)
(* queue implements SavedReports.                                          *)
THEOREM QueueKeepsReports == Spec => KeepsReports
<1>1. Init => Promise!Init
  BY QueueAssumption DEF Init, Promise!Init, Excused
<1>2. ASSUME IInv, TypeOK', [Next]_vars PROVE [Promise!Next]_(Promise!vars)
  <2> USE <1>2 DEF IInv, Promise!Next, Promise!vars
  <2>0. /\ Excused \union late \subseteq Excused' \union late'
        /\ Excused' \union late' \subseteq filed'
    <3>1. IInv'
      BY Inductive
    <3> QED
      BY <3>1, LostGrows DEF Lost, Excused, OnlyFiled, TypeOK
  <2>1. ASSUME NEW e \in Entries, Enqueue(e) PROVE [Promise!Next]_(Promise!vars)
    <3>1. Promise!Save(e)
      BY <2>0, <2>1 DEF Enqueue, Promise!Save
    <3> QED
      BY <3>1
  <2>2. ASSUME NEW p \in Passes, NEW e \in Entries, Delivered(p, e) \/ Failed(p, e)
        PROVE  [Promise!Next]_(Promise!vars)
    <3>1. Promise!Excuse
      BY <2>0, <2>2 DEF Delivered, Failed, Promise!Excuse
    <3> QED
      BY <3>1
  <2>3. ASSUME NEW p \in Passes, Replace(p) PROVE [Promise!Next]_(Promise!vars)
    <3>1. queue \ queue' \subseteq Excused \union late
      BY <2>3 DEF Replace, Accounted, OnlyFiled, Lost
    <3>2. queue' \subseteq filed
      BY <2>3 DEF Replace, OnlyFiled
    <3>3. UNCHANGED <<filed, Excused \union late>>
      BY <2>3 DEF Replace, history, Excused
    <3>4. Promise!Sweep
      BY <3>1, <3>2, <3>3 DEF Promise!Sweep
    <3> QED
      BY <3>4
  <2>4. ASSUME UNCHANGED <<queue, filed, late, history>>
        PROVE  [Promise!Next]_(Promise!vars)
    BY <2>4 DEF history, Excused
  <2> QED
    BY <2>1, <2>2, <2>3, <2>4 DEF Next, vars, Start, Skip, Die
<1> QED
  <2>1. Spec => []IInv
    BY Inductive, TypeCorrect, PTL DEF Spec
  <2> QED
    BY <1>1, <1>2, <2>1, TypeCorrect, PTL DEF Spec, KeepsReports, Promise!Spec
============================================================================
