---------------------------- MODULE IntakeProofs ----------------------------
(* The two ways a call for help gets in: over the network (SosIntake) and     *)
(* over the radio mesh (MeshBridge).                                          *)
(*                                                                            *)
(* The bridge.  What is queued was heard and failed, its tries are the        *)
(* column retries for as long as it is queued, an answer is under way only to *)
(* the request that waits for it, and a message that may still be sent was    *)
(* stored no more often than answers were lost or forgotten (BridgeInv).      *)
(*                                                                            *)
(* One SOS.  What a request stores carries a name only from the moment it is  *)
(* past the dedup (NamedLate), and then it still finds no active row of that  *)
(* person but twins (ClearToCreate): rows come up by being stored or reopened *)
(* and one that comes up past another request of that kind is a twin itself.  *)
(*                                                                            *)
(* What is shown.  Rows are kept by phones and waited for by screens within   *)
(* reach of their author only (Within), and no uncrossed retraction is under  *)
(* way of a row that a phone keeps or a screen waits for (NotRetracted).      *)
EXTENDS SosIntake, MeshBridge, SequenceTheorems, TLAPS

-----------------------------------------------------------------------------
(* The bridge of the mesh.                                                   *)

(* An item is heard, posted once, and queued when the post failed.           *)
Placed ==
    /\ Queue \subseteq saved /\ posting \cap saved = {}
    /\ ToSet(todo) \subseteq Queue /\ IsInjective(todo)

(* The column retries counts the failures of an item for as long as it is    *)
(* queued.                                                                   *)
Counted ==
    \A i \in Items :
        /\ i \in Queue => tries[i] = retries[i]
        /\ i \notin saved => tries[i] = 0
        /\ i \notin Queue => retries[i] = 0

(* An answer is under way to the request that is waiting for it.             *)
Awaited == unread \subseteq Sending /\ \A i \in unread : rows[i] > 0

(* What may still be sent was stored no more often than answers were lost or *)
(* forgotten.                                                                *)
Sendable == (Items \ heard) \cup posting \cup Queue
StoredOften ==
    \A i \in Items :
        /\ rows[i] <= 1 + lost + crashes
        /\ i \in Sendable \ unread => rows[i] <= lost + crashes

BridgeInv == BridgeTypeOK /\ Placed /\ Counted /\ Awaited /\ StoredOften /\ HeardIsAccountedFor

\* RemoveFirst takes one element out of a sequence without repetitions.
LEMMA Without ==
    ASSUME NEW S, NEW s \in Seq(S), IsInjective(s), NEW e \in ToSet(s)
    PROVE  /\ RemoveFirst(s, e) \in Seq(S) /\ IsInjective(RemoveFirst(s, e))
           /\ ToSet(RemoveFirst(s, e)) = ToSet(s) \ {e}
<1>1. PICK k \in 1 .. Len(s) : s[k] = e
  BY DEF ToSet
<1>2. DOMAIN s = 1 .. Len(s) /\ Len(s) \in Nat
  OBVIOUS
<1>3. {i \in 1 .. Len(s) : s[i] = e} = {k}
  BY <1>1, <1>2 DEF IsInjective
<1>4. Min({k}) = k
  BY <1>1, <1>2 DEF Min
<1>5. RemoveFirst(s, e) = RemoveAt(s, k)
  BY <1>1, <1>3, <1>4 DEF RemoveFirst, SelectInSeq
<1> DEFINE front == SubSeq(s, 1, k - 1)
           back == SubSeq(s, k + 1, Len(s))
<1>6. /\ front \in Seq(S) /\ Len(front) = k - 1
      /\ \A i \in 1 .. k - 1 : front[i] = s[i]
  <2>1. \A i \in 1 .. k - 1 : s[i] \in S
    BY <1>2
  <2> QED
    BY <1>1, <1>2, <2>1, SubSeqProperties
<1>7. /\ back \in Seq(S) /\ Len(back) = Len(s) - k
      /\ \A i \in 1 .. Len(s) - k : back[i] = s[k + i]
  <2>1. \A i \in k + 1 .. Len(s) : s[i] \in S
    BY <1>1, <1>2
  <2>2. /\ back \in Seq(S)
        /\ Len(back) = IF k + 1 <= Len(s) THEN Len(s) - (k + 1) + 1 ELSE 0
        /\ \A i \in 1 .. Len(s) - (k + 1) + 1 : back[i] = s[(k + 1) + i - 1]
    BY <1>1, <1>2, <2>1, SubSeqProperties
  <2> HIDE DEF back
  <2>3. k \in Nat /\ k <= Len(s)
    BY <1>1, <1>2
  <2>4. Len(s) - (k + 1) + 1 = Len(s) - k /\ \A i \in Int : (k + 1) + i - 1 = k + i
    BY <1>2, <2>3
  <2>5. Len(back) = Len(s) - k
    <3>1. Len(back) = IF k + 1 <= Len(s) THEN Len(s) - (k + 1) + 1 ELSE 0
      BY <2>2
    <3>2. CASE k = Len(s)
      BY <1>2, <2>3, <3>1, <3>2
    <3>3. CASE k # Len(s)
      <4>1. \A n \in Nat : k <= n /\ k # n => k + 1 <= n
        BY <2>3
      <4>2. k + 1 <= Len(s)
        BY <1>2, <2>3, <3>3, <4>1
      <4> QED
        BY <2>4, <3>1, <4>2
    <3> QED
      BY <3>2, <3>3
  <2>6. \A i \in 1 .. Len(s) - k : back[i] = s[k + i]
    <3> SUFFICES ASSUME NEW i \in 1 .. Len(s) - k PROVE back[i] = s[k + i]
      OBVIOUS
    <3>1. i \in 1 .. Len(s) - (k + 1) + 1 /\ i \in Int
      BY <1>2, <2>3, <2>4
    <3>2. back[i] = s[(k + 1) + i - 1]
      BY <2>2, <3>1
    <3> QED
      BY <2>4, <3>1, <3>2
  <2> QED
    BY <2>2, <2>5, <2>6
<1> DEFINE t == front \o back
<1> HIDE DEF front, back
<1>8. /\ t \in Seq(S) /\ DOMAIN t = 1 .. Len(s) - 1
      /\ \A i \in DOMAIN t : t[i] = IF i < k THEN s[i] ELSE s[i + 1]
  <2>0. /\ t \in Seq(S) /\ Len(t) = Len(front) + Len(back)
        /\ \A i \in 1 .. Len(front) + Len(back) :
              t[i] = IF i <= Len(front) THEN front[i] ELSE back[i - Len(front)]
    BY <1>6, <1>7, ConcatProperties
  <2> HIDE DEF t
  <2>1. t \in Seq(S) /\ Len(t) = Len(s) - 1
    BY <1>1, <1>2, <1>6, <1>7, <2>0
  <2>2. DOMAIN t = 1 .. Len(s) - 1
    BY <2>1
  <2>3. ASSUME NEW i \in DOMAIN t PROVE t[i] = IF i < k THEN s[i] ELSE s[i + 1]
    <3>1. i \in 1 .. Len(front) + Len(back) /\ i \in Nat /\ k \in Nat
      BY <1>1, <1>2, <1>6, <1>7, <2>1, <2>2
    <3>2. CASE i < k
      <4>1. i <= Len(front) /\ i \in 1 .. k - 1
        BY <1>6, <3>1, <3>2
      <4> QED
        BY <1>6, <2>0, <3>1, <3>2, <4>1
    <3>3. CASE ~(i < k)
      <4>1. ~(i <= Len(front)) /\ i - Len(front) = i - k + 1
        BY <1>6, <3>1, <3>3
      <4>2. t[i] = back[i - k + 1]
        BY <2>0, <3>1, <4>1
      <4>3. i - k + 1 \in 1 .. Len(s) - k /\ k + (i - k + 1) = i + 1
        BY <1>1, <1>2, <2>1, <3>1, <3>3
      <4> QED
        BY <1>7, <3>3, <4>2, <4>3
    <3> QED
      BY <3>2, <3>3
  <2> QED
    BY <2>1, <2>2, <2>3
<1> HIDE DEF t
<1>9. IsInjective(t)
  <2> SUFFICES ASSUME NEW i \in DOMAIN t, NEW j \in DOMAIN t, t[i] = t[j] PROVE i = j
    BY DEF IsInjective
  <2>1. \A n \in DOMAIN t : n \in DOMAIN s /\ n + 1 \in DOMAIN s
    BY <1>2, <1>8
  <2> DEFINE at(n) == IF n < k THEN n ELSE n + 1
  <2>2. at(i) = at(j)
    BY <1>8, <2>1 DEF IsInjective
  <2> QED
    BY <1>1, <1>2, <1>8, <2>2
<1>10. ToSet(t) = ToSet(s) \ {e}
  <2>1. ASSUME NEW i \in DOMAIN t PROVE t[i] \in ToSet(s) \ {e}
    <3>1. PICK n \in DOMAIN s : n # k /\ t[i] = s[n]
      BY <1>1, <1>2, <1>8
    <3>2. s[n] # e
      BY <1>1, <1>2, <3>1 DEF IsInjective
    <3> QED
      BY <3>1, <3>2 DEF ToSet
  <2>2. ASSUME NEW n \in DOMAIN s, s[n] # e PROVE s[n] \in ToSet(t)
    <3>1. n # k
      BY <1>1, <2>2
    <3>2. PICK i \in DOMAIN t : n = IF i < k THEN i ELSE i + 1
      <4>1. CASE n < k
        <5>1. n \in DOMAIN t
          BY <1>1, <1>2, <1>8, <4>1
        <5> QED
          BY <4>1, <5>1
      <4>2. CASE ~(n < k)
        <5>1. n - 1 \in DOMAIN t /\ ~(n - 1 < k)
          BY <1>1, <1>2, <1>8, <3>1, <4>2
        <5>2. n = (n - 1) + 1
          BY <1>2
        <5> QED
          BY <5>1, <5>2
      <4> QED
        BY <4>1, <4>2
    <3> QED
      BY <1>8, <3>2 DEF ToSet
  <2> QED
    BY <2>1, <2>2 DEF ToSet
<1>11. RemoveFirst(s, e) = t
  BY <1>5 DEF RemoveAt, t, front, back
<1> QED
  BY <1>8, <1>9, <1>10, <1>11

\* What is left of a pass.
LEMMA Rest ==
    ASSUME NEW S, NEW s \in Seq(S), IsInjective(s), s # <<>>
    PROVE  /\ Head(s) = s[1] /\ Head(s) \in ToSet(s) /\ Head(s) \in S
           /\ Tail(s) \in Seq(S) /\ IsInjective(Tail(s))
           /\ ToSet(Tail(s)) = ToSet(s) \ {Head(s)}
<1>1. /\ Len(s) \in Nat \ {0} /\ DOMAIN s = 1 .. Len(s) /\ Head(s) = s[1]
      /\ Tail(s) \in Seq(S) /\ Len(Tail(s)) = Len(s) - 1
      /\ DOMAIN Tail(s) = 1 .. Len(s) - 1
      /\ \A i \in 1 .. Len(s) - 1 : Tail(s)[i] = s[i + 1]
  OBVIOUS
<1> DEFINE t == Tail(s)
<1> HIDE DEF t
<1>2. /\ DOMAIN t = 1 .. Len(s) - 1
      /\ \A i \in 1 .. Len(s) - 1 : t[i] = s[i + 1]
  BY <1>1 DEF t
<1>3. IsInjective(t)
  <2> SUFFICES ASSUME NEW i \in DOMAIN t, NEW j \in DOMAIN t, t[i] = t[j] PROVE i = j
    BY DEF IsInjective
  <2>1. i + 1 \in DOMAIN s /\ j + 1 \in DOMAIN s
    BY <1>1, <1>2
  <2>2. i + 1 = j + 1
    BY <1>2, <2>1 DEF IsInjective
  <2> QED
    BY <1>2, <2>2
<1>4. ToSet(t) = ToSet(s) \ {s[1]}
  <2>1. ASSUME NEW i \in DOMAIN t PROVE t[i] \in ToSet(s) \ {s[1]}
    <3>1. i + 1 \in DOMAIN s /\ i + 1 # 1 /\ 1 \in DOMAIN s /\ t[i] = s[i + 1]
      BY <1>1, <1>2
    <3> QED
      BY <3>1 DEF ToSet, IsInjective
  <2>2. ASSUME NEW n \in DOMAIN s, s[n] # s[1] PROVE s[n] \in ToSet(t)
    <3>1. n - 1 \in DOMAIN t /\ s[(n - 1) + 1] = s[n]
      BY <1>1, <1>2, <2>2
    <3>2. t[n - 1] = s[n]
      BY <1>2, <3>1
    <3> QED
      BY <3>1, <3>2 DEF ToSet
  <2> QED
    BY <2>1, <2>2 DEF ToSet
<1>5. Head(s) \in ToSet(s) /\ Head(s) \in S
  BY <1>1 DEF ToSet
<1> QED
  BY <1>1, <1>3, <1>4, <1>5 DEF t

\* One more at the end.
LEMMA OneMore ==
    ASSUME NEW S, NEW s \in Seq(S), IsInjective(s), NEW e \in S, e \notin ToSet(s)
    PROVE  /\ s \o <<e>> \in Seq(S) /\ IsInjective(s \o <<e>>)
           /\ ToSet(s \o <<e>>) = ToSet(s) \cup {e}
<1> DEFINE t == s \o <<e>>
<1>1. /\ Len(s) \in Nat /\ DOMAIN s = 1 .. Len(s)
      /\ t \in Seq(S) /\ Len(t) = Len(s) + 1 /\ DOMAIN t = 1 .. Len(s) + 1
      /\ \A i \in 1 .. Len(s) : t[i] = s[i]
      /\ t[Len(s) + 1] = e
  OBVIOUS
<1> HIDE DEF t
<1>2. \A i \in DOMAIN t : i \in DOMAIN s \/ i = Len(s) + 1
  BY <1>1
<1>3. IsInjective(t)
  <2>1. \A i \in DOMAIN s : s[i] # e
    BY DEF ToSet
  <2> QED
    BY <1>1, <1>2, <2>1 DEF IsInjective
<1>4. ToSet(t) = ToSet(s) \cup {e}
  <2>1. \A i \in DOMAIN t : t[i] \in ToSet(s) \cup {e}
    BY <1>1, <1>2 DEF ToSet
  <2>2. \A i \in DOMAIN s : s[i] \in ToSet(t)
    BY <1>1 DEF ToSet
  <2>3. e \in ToSet(t)
    BY <1>1 DEF ToSet
  <2> QED
    BY <2>1, <2>2, <2>3 DEF ToSet
<1> QED
  BY <1>1, <1>3, <1>4 DEF t

\* What the invariant says of the values at hand.
LEMMA AtHand ==
    ASSUME BridgeInv
    PROVE  /\ RetryMax \in Nat \ {0} /\ crashes \in Nat /\ lost \in Nat
           /\ \A i \in Items : /\ rows[i] \in Nat
                               /\ retries[i] \in 0 .. RetryMax /\ tries[i] \in 0 .. RetryMax
           /\ queue \in Seq(Items) /\ todo \in Seq(Items)
           /\ Queue \subseteq saved /\ saved \subseteq heard /\ heard \subseteq Items
           /\ posting \subseteq heard /\ posting \cap Queue = {}
           /\ todo # <<>> => /\ Head(todo) = todo[1] /\ Head(todo) \in Queue
                             /\ Head(todo) \in Items /\ Head(todo) \notin posting
           /\ \A i : i \in Sending <=> \/ i \in posting
                                       \/ /\ todo # <<>> /\ i = Head(todo)
                                          /\ retries[i] < RetryMax
           /\ \A i \in unread : i \in Items /\ i \in Sendable
<1>1. BridgeTypeOK /\ Placed /\ Awaited
  BY DEF BridgeInv
<1>2. RetryMax \in Nat \ {0} /\ crashes \in Nat /\ lost \in Nat
  BY <1>1, BridgeAssumption DEF BridgeTypeOK
<1>3. \A i \in Items : /\ rows[i] \in Nat
                       /\ retries[i] \in 0 .. RetryMax /\ tries[i] \in 0 .. RetryMax
  BY <1>1 DEF BridgeTypeOK
<1>4. /\ queue \in Seq(Items) /\ todo \in Seq(Items)
      /\ Queue \subseteq saved /\ saved \subseteq heard /\ heard \subseteq Items
      /\ posting \subseteq heard /\ posting \cap Queue = {}
  BY <1>1 DEF BridgeTypeOK, Placed
<1>5. todo # <<>> => /\ Head(todo) = todo[1] /\ Head(todo) \in Queue
                     /\ Head(todo) \in Items /\ Head(todo) \notin posting
  BY <1>1, <1>4, Rest DEF Placed
<1>6. \A i : i \in Sending <=> \/ i \in posting
                               \/ todo # <<>> /\ i = Head(todo) /\ retries[i] < RetryMax
  BY <1>5 DEF Sending
<1>7. \A i \in unread : i \in Items /\ i \in Sendable
  BY <1>1, <1>4, <1>5, <1>6 DEF Awaited, Sendable
<1> QED
  BY <1>2, <1>3, <1>4, <1>5, <1>6, <1>7

LEMMA HearBridge ==
    ASSUME BridgeInv, NEW i \in Items, Hear(i)
    PROVE  BridgeInv'
<1> USE AtHand
<1>1. /\ i \notin heard /\ heard' = heard \cup {i} /\ posting' = posting \cup {i}
      /\ UNCHANGED <<queue, retries, todo, unread, rows, crashes, lost, saved, dropped, tries, cut>>
  BY DEF Hear, disk, history
<1>2. Queue' = Queue /\ Sendable' = Sendable /\ Sending \subseteq Sending'
  <2>1. Queue' = Queue
    BY <1>1 DEF Queue
  <2> QED
    BY <1>1, <2>1 DEF Sendable, Sending
<1>3. BridgeTypeOK'
  BY <1>1 DEF BridgeInv, BridgeTypeOK
<1>4. Placed'
  BY <1>1, <1>2 DEF BridgeInv, BridgeTypeOK, Placed
<1>5. Counted'
  BY <1>1, <1>2 DEF BridgeInv, Counted
<1>6. Awaited'
  BY <1>1, <1>2 DEF BridgeInv, Awaited
<1>7. StoredOften'
  BY <1>1, <1>2 DEF BridgeInv, StoredOften
<1>8. HeardIsAccountedFor'
  BY <1>1, <1>2 DEF BridgeInv, HeardIsAccountedFor
<1> QED
  BY <1>3, <1>4, <1>5, <1>6, <1>7, <1>8 DEF BridgeInv

\* One row more of an item that had none too many.
LEMMA TakeBridge ==
    ASSUME BridgeInv, NEW i \in Items, Take(i)
    PROVE  BridgeInv'
<1> USE AtHand
<1>1. /\ i \in Sending /\ i \notin unread
      /\ rows' = [rows EXCEPT ![i] = @ + 1] /\ unread' = unread \cup {i}
      /\ UNCHANGED <<heard, posting, queue, retries, todo, crashes, lost, saved, dropped, tries, cut>>
  BY DEF Take, disk, history
<1>2. Queue' = Queue /\ Sendable' = Sendable /\ Sending' = Sending
  <2>1. Queue' = Queue
    BY <1>1 DEF Queue
  <2> QED
    BY <1>1, <2>1 DEF Sendable, Sending
<1>3. \A j \in Items : rows'[j] = IF j = i THEN rows[i] + 1 ELSE rows[j]
  BY <1>1 DEF BridgeInv, BridgeTypeOK
<1>4. i \in Sendable \ unread
  BY <1>1 DEF Sendable
<1>5. rows[i] <= lost + crashes
  BY <1>4 DEF BridgeInv, StoredOften
<1>6. BridgeTypeOK'
  <2>1. rows[i] + 1 \in 0 .. MaxRows
    BY <1>5, BridgeAssumption DEF BridgeInv, BridgeTypeOK, MaxRows
  <2> QED
    BY <1>1, <2>1 DEF BridgeInv, BridgeTypeOK
<1>7. Placed' /\ Counted'
  BY <1>1, <1>2 DEF BridgeInv, Placed, Counted
<1>8. Awaited'
  BY <1>1, <1>2, <1>3 DEF BridgeInv, Awaited
<1>9. StoredOften'
  <2> SUFFICES ASSUME NEW j \in Items
               PROVE  /\ rows'[j] <= 1 + lost + crashes
                      /\ j \in Sendable \ unread' => rows'[j] <= lost + crashes
    BY <1>1, <1>2 DEF StoredOften
  <2>1. CASE j = i
    BY <1>1, <1>3, <1>5, <2>1
  <2>2. CASE j # i
    BY <1>1, <1>3, <2>2 DEF BridgeInv, StoredOften
  <2> QED
    BY <2>1, <2>2
<1>10. HeardIsAccountedFor'
  BY <1>1, <1>2, <1>3 DEF BridgeInv, HeardIsAccountedFor
<1> QED
  BY <1>6, <1>7, <1>8, <1>9, <1>10 DEF BridgeInv

LEMMA AcceptedBridge ==
    ASSUME BridgeInv, NEW i \in Items, Accepted(i)
    PROVE  BridgeInv'
<1> USE AtHand
<1>1. /\ i \in posting /\ i \in unread
      /\ posting' = posting \ {i} /\ unread' = unread \ {i}
      /\ UNCHANGED <<heard, queue, retries, todo, rows, crashes, lost, saved, dropped, tries, cut>>
  BY DEF Accepted, disk, history
<1>2. Queue' = Queue /\ Sendable' \subseteq Sendable \ {i} /\ Sending \ {i} \subseteq Sending'
  <2>1. Queue' = Queue
    BY <1>1 DEF Queue
  <2> QED
    BY <1>1, <2>1 DEF Sendable, Sending
<1>3. BridgeTypeOK'
  BY <1>1 DEF BridgeInv, BridgeTypeOK
<1>4. Placed' /\ Counted'
  BY <1>1, <1>2 DEF BridgeInv, Placed, Counted
<1>5. Awaited'
  BY <1>1, <1>2 DEF BridgeInv, Awaited
<1>6. StoredOften'
  BY <1>1, <1>2 DEF BridgeInv, StoredOften
<1>7. HeardIsAccountedFor'
  BY <1>1, <1>2 DEF BridgeInv, HeardIsAccountedFor, Awaited
<1> QED
  BY <1>3, <1>4, <1>5, <1>6, <1>7 DEF BridgeInv

\* An answer that does not come: what was stored is paid for.
LEMMA NoAnswerPaid ==
    ASSUME BridgeInv, NEW i \in Items, NoAnswer(i), UNCHANGED <<rows, crashes>>
    PROVE  /\ unread' = unread \ {i} /\ lost' \in {lost, lost + 1} /\ lost' \in 0 .. MaxLost
           /\ \A j \in Items : j \in Sendable => \/ rows[j] <= lost' + crashes
                                                 \/ j \in unread'
           /\ \A j \in Items : rows[j] <= 1 + lost' + crashes
<1> USE AtHand
<1>1. /\ i \in unread => lost < MaxLost
      /\ lost' = IF i \in unread THEN lost + 1 ELSE lost
      /\ unread' = unread \ {i}
  BY DEF NoAnswer
<1>2. lost' \in {lost, lost + 1} /\ lost' \in 0 .. MaxLost
  BY <1>1, BridgeAssumption DEF BridgeInv, BridgeTypeOK
<1>3. ASSUME NEW j \in Items
      PROVE  /\ rows[j] <= 1 + lost' + crashes
             /\ j \in Sendable => rows[j] <= lost' + crashes \/ j \in unread'
  <2>1. /\ rows[j] <= 1 + lost + crashes
        /\ j \in Sendable \ unread => rows[j] <= lost + crashes
    BY DEF BridgeInv, StoredOften
  <2>2. CASE j = i /\ i \in unread
    BY <1>1, <2>1, <2>2
  <2>3. CASE ~(j = i /\ i \in unread)
    BY <1>1, <1>2, <2>1, <2>3
  <2> QED
    BY <2>2, <2>3
<1> QED
  BY <1>1, <1>2, <1>3

LEMMA FailsBridge ==
    ASSUME BridgeInv, NEW i \in Items, Fails(i)
    PROVE  BridgeInv' /\ Queue' = Queue \cup {i}
<1> USE AtHand
<1>1. /\ i \in posting /\ NoAnswer(i) /\ posting' = posting \ {i}
      /\ queue' = queue \o <<i>> /\ saved' = saved \cup {i}
      /\ UNCHANGED <<heard, retries, todo, rows, crashes, dropped, tries, cut>>
  BY DEF Fails, Queues
<1>2. /\ queue' \in Seq(Items) /\ IsInjective(queue') /\ Queue' = Queue \cup {i}
  <2>1. i \notin ToSet(queue) /\ IsInjective(queue)
    BY <1>1 DEF BridgeInv, BridgeTypeOK, Queue
  <2> QED
    BY <1>1, <2>1, OneMore DEF Queue
<1>3. /\ unread' = unread \ {i} /\ lost' \in {lost, lost + 1} /\ lost' \in 0 .. MaxLost
      /\ \A j \in Items : j \in Sendable => rows[j] <= lost' + crashes \/ j \in unread'
      /\ \A j \in Items : rows[j] <= 1 + lost' + crashes
  BY <1>1, NoAnswerPaid
<1>4. Sendable' = Sendable /\ Sending \ {i} \subseteq Sending' /\ i \notin saved
  BY <1>1, <1>2 DEF Sendable, Sending, BridgeInv, Placed
<1>5. BridgeTypeOK'
  BY <1>1, <1>2, <1>3 DEF BridgeInv, BridgeTypeOK
<1>6. Placed'
  BY <1>1, <1>2 DEF BridgeInv, Placed
<1>7. Counted'
  BY <1>1, <1>2, <1>4 DEF BridgeInv, Counted
<1>8. Awaited'
  BY <1>1, <1>3, <1>4 DEF BridgeInv, Awaited
<1>9. StoredOften'
  BY <1>1, <1>3, <1>4 DEF StoredOften
<1>10. HeardIsAccountedFor'
  BY <1>1, <1>2 DEF BridgeInv, HeardIsAccountedFor
<1> QED
  BY <1>2, <1>5, <1>6, <1>7, <1>8, <1>9, <1>10 DEF BridgeInv

LEMMA StartBridge ==
    ASSUME BridgeInv, StartPass
    PROVE  BridgeInv'
<1> USE AtHand
<1>1. /\ todo = <<>> /\ queue # <<>> /\ todo' = queue
      /\ UNCHANGED <<heard, posting, queue, retries, unread, rows, crashes, lost, saved, dropped, tries, cut>>
  BY DEF StartPass, disk, history
<1>2. Queue' = Queue /\ Sendable' = Sendable /\ Sending \subseteq Sending'
  <2>1. Queue' = Queue
    BY <1>1 DEF Queue
  <2> QED
    BY <1>1, <2>1 DEF Sendable, Sending
<1>3. BridgeTypeOK'
  BY <1>1 DEF BridgeInv, BridgeTypeOK
<1>4. Placed'
  BY <1>1, <1>2 DEF BridgeInv, BridgeTypeOK, Placed, Queue
<1>5. Counted' /\ Awaited' /\ StoredOften' /\ HeardIsAccountedFor'
  BY <1>1, <1>2 DEF BridgeInv, Counted, Awaited, StoredOften, HeardIsAccountedFor
<1> QED
  BY <1>3, <1>4, <1>5 DEF BridgeInv

\* A row that leaves the queue, and the pass with it.
LEMMA ForgetsHead ==
    ASSUME BridgeInv, todo # <<>>, Forget(Head(todo))
    PROVE  /\ queue' \in Seq(Items) /\ IsInjective(queue')
           /\ todo' \in Seq(Items) /\ IsInjective(todo')
           /\ Queue' = Queue \ {Head(todo)} /\ ToSet(todo') \subseteq Queue'
           /\ \A j \in Items : retries'[j] = IF j = Head(todo) THEN 0 ELSE retries[j]
           /\ retries' \in [Items -> 0 .. RetryMax]
<1> USE AtHand
<1>1. /\ queue' = RemoveFirst(queue, Head(todo)) /\ todo' = Tail(todo)
      /\ retries' = [retries EXCEPT ![Head(todo)] = 0]
  BY DEF Forget
<1>2. IsInjective(queue) /\ IsInjective(todo) /\ Head(todo) \in ToSet(queue)
  BY DEF BridgeInv, BridgeTypeOK, Placed, Queue
<1>3. /\ queue' \in Seq(Items) /\ IsInjective(queue') /\ Queue' = Queue \ {Head(todo)}
  BY <1>1, <1>2, Without DEF Queue
<1>4. /\ todo' \in Seq(Items) /\ IsInjective(todo')
      /\ ToSet(todo') = ToSet(todo) \ {Head(todo)}
  BY <1>1, <1>2, Rest
<1>5. ToSet(todo') \subseteq Queue'
  BY <1>3, <1>4 DEF BridgeInv, Placed
<1>6. /\ retries' \in [Items -> 0 .. RetryMax]
      /\ \A j \in Items : retries'[j] = IF j = Head(todo) THEN 0 ELSE retries[j]
  BY <1>1 DEF BridgeInv, BridgeTypeOK
<1> QED
  BY <1>3, <1>4, <1>5, <1>6

\* It counted a failure for every try.
LEMMA AbandonBridge ==
    ASSUME BridgeInv, Abandon
    PROVE  /\ BridgeInv'
           /\ Queue' = Queue \ {Head(todo)} /\ tries[Head(todo)] = RetryMax
<1> USE AtHand
<1> DEFINE i == Head(todo)
<1>1. /\ todo # <<>> /\ retries[i] >= RetryMax /\ Forget(i) /\ dropped' = dropped \cup {i}
      /\ UNCHANGED <<heard, posting, unread, rows, crashes, lost, saved, tries, cut>>
  BY DEF Abandon, Abandons
<1>2. i \in Queue /\ i \in Items /\ i \notin posting
  BY <1>1
<1>3. retries[i] = RetryMax /\ tries[i] = RetryMax
  BY <1>1, <1>2 DEF BridgeInv, Counted
<1>4. /\ queue' \in Seq(Items) /\ IsInjective(queue')
      /\ todo' \in Seq(Items) /\ IsInjective(todo')
      /\ Queue' = Queue \ {i} /\ ToSet(todo') \subseteq Queue'
      /\ \A j \in Items : retries'[j] = IF j = i THEN 0 ELSE retries[j]
      /\ retries' \in [Items -> 0 .. RetryMax]
  BY <1>1, ForgetsHead
<1> HIDE DEF i
<1>5. unread \subseteq posting
  BY <1>1, <1>3 DEF BridgeInv, Awaited, i
<1>6. BridgeTypeOK'
  BY <1>1, <1>2, <1>4 DEF BridgeInv, BridgeTypeOK
<1>7. Placed'
  BY <1>1, <1>4 DEF BridgeInv, Placed
<1>8. Counted'
  BY <1>1, <1>2, <1>4 DEF BridgeInv, Counted
<1>9. Awaited'
  BY <1>1, <1>5 DEF BridgeInv, Awaited, Sending
<1>10. StoredOften'
  <2>1. Sendable' \subseteq Sendable
    BY <1>1, <1>4 DEF Sendable
  <2> QED
    BY <1>1, <2>1 DEF BridgeInv, StoredOften
<1>11. HeardIsAccountedFor'
  BY <1>1, <1>4 DEF BridgeInv, HeardIsAccountedFor
<1> QED
  BY <1>3, <1>4, <1>6, <1>7, <1>8, <1>9, <1>10, <1>11 DEF BridgeInv, i

\* What is removed was stored.
LEMMA DeliveredBridge ==
    ASSUME BridgeInv, Delivered
    PROVE  BridgeInv' /\ Queue' = Queue \ {Head(todo)} /\ rows[Head(todo)] > 0
<1> USE AtHand
<1> DEFINE i == Head(todo)
<1>1. /\ todo # <<>> /\ i \in unread /\ Forget(i) /\ unread' = unread \ {i}
      /\ UNCHANGED <<heard, posting, rows, crashes, lost, saved, dropped, tries, cut>>
  BY DEF Delivered, Removed, history
<1>2. i \in Queue /\ i \in Items /\ i \notin posting
  BY <1>1
<1>3. rows[i] > 0
  BY <1>1 DEF BridgeInv, Awaited
<1>4. /\ queue' \in Seq(Items) /\ IsInjective(queue')
      /\ todo' \in Seq(Items) /\ IsInjective(todo')
      /\ Queue' = Queue \ {i} /\ ToSet(todo') \subseteq Queue'
      /\ \A j \in Items : retries'[j] = IF j = i THEN 0 ELSE retries[j]
      /\ retries' \in [Items -> 0 .. RetryMax]
  BY <1>1, ForgetsHead
<1>5. unread' \subseteq posting
  BY <1>1 DEF BridgeInv, Awaited
<1> HIDE DEF i
<1>6. BridgeTypeOK'
  BY <1>1, <1>2, <1>4 DEF BridgeInv, BridgeTypeOK
<1>7. Placed'
  BY <1>1, <1>4 DEF BridgeInv, Placed
<1>8. Counted'
  BY <1>1, <1>2, <1>4 DEF BridgeInv, Counted
<1>9. Awaited'
  BY <1>1, <1>5 DEF BridgeInv, Awaited, Sending
<1>10. StoredOften'
  <2>1. Sendable' \subseteq Sendable \ {i}
    <3>1. i \notin Sendable'
      BY <1>1, <1>2, <1>4 DEF Sendable
    <3> QED
      BY <1>1, <1>4, <3>1 DEF Sendable
  <2> QED
    BY <1>1, <2>1 DEF BridgeInv, StoredOften
<1>11. HeardIsAccountedFor'
  BY <1>1, <1>3, <1>4 DEF BridgeInv, HeardIsAccountedFor
<1> QED
  BY <1>3, <1>4, <1>6, <1>7, <1>8, <1>9, <1>10, <1>11 DEF BridgeInv, i

LEMMA RetryBridge ==
    ASSUME BridgeInv, Retry
    PROVE  /\ BridgeInv' /\ Queue' = Queue
           /\ todo # <<>> /\ tries' = [tries EXCEPT ![Head(todo)] = @ + 1]
           /\ \A i \in Items : tries[i] <= tries'[i]
<1> USE AtHand
<1> DEFINE i == Head(todo)
<1>1. /\ todo # <<>> /\ retries[i] < RetryMax /\ NoAnswer(i)
      /\ retries' = [retries EXCEPT ![i] = @ + 1]
      /\ tries' = [tries EXCEPT ![i] = @ + 1]
      /\ todo' = Tail(todo)
      /\ UNCHANGED <<heard, posting, queue, rows, crashes, saved, dropped, cut>>
  BY DEF Retry, Retried
<1>2. i \in Queue /\ i \in Items /\ i \notin posting
  BY <1>1
<1>3. /\ unread' = unread \ {i} /\ lost' \in {lost, lost + 1} /\ lost' \in 0 .. MaxLost
      /\ \A j \in Items : j \in Sendable => rows[j] <= lost' + crashes \/ j \in unread'
      /\ \A j \in Items : rows[j] <= 1 + lost' + crashes
  BY <1>1, <1>2, NoAnswerPaid
<1>4. /\ todo' \in Seq(Items) /\ IsInjective(todo') /\ ToSet(todo') \subseteq Queue
  BY <1>1, Rest DEF BridgeInv, Placed
<1>5. Queue' = Queue /\ Sendable' = Sendable
  <2>1. Queue' = Queue
    BY <1>1 DEF Queue
  <2> QED
    BY <1>1, <2>1 DEF Sendable
<1>6. unread' \subseteq posting
  BY <1>1, <1>3 DEF BridgeInv, Awaited
<1> HIDE DEF i
<1>7. tries[i] = retries[i] /\ retries[i] + 1 \in 0 .. RetryMax
  BY <1>1, <1>2 DEF BridgeInv, Counted
<1>8. /\ retries' \in [Items -> 0 .. RetryMax] /\ tries' \in [Items -> 0 .. RetryMax]
      /\ \A j \in Items : /\ retries'[j] = IF j = i THEN retries[i] + 1 ELSE retries[j]
                          /\ tries'[j] = IF j = i THEN tries[i] + 1 ELSE tries[j]
  BY <1>1, <1>7 DEF BridgeInv, BridgeTypeOK
<1>9. BridgeTypeOK'
  BY <1>1, <1>3, <1>4, <1>8 DEF BridgeInv, BridgeTypeOK
<1>10. Placed'
  BY <1>1, <1>4, <1>5 DEF BridgeInv, Placed
<1>11. Counted'
  <2>1. i \in saved
    BY <1>2
  <2> QED
    BY <1>1, <1>2, <1>5, <1>7, <1>8, <2>1 DEF BridgeInv, Counted
<1>12. Awaited'
  BY <1>1, <1>3, <1>6 DEF BridgeInv, Awaited, Sending
<1>13. StoredOften'
  BY <1>1, <1>3, <1>5 DEF StoredOften
<1>14. HeardIsAccountedFor'
  BY <1>1, <1>5 DEF BridgeInv, HeardIsAccountedFor
<1>15. \A j \in Items : tries[j] <= tries'[j]
  <2> SUFFICES ASSUME NEW j \in Items PROVE tries[j] <= tries'[j]
    OBVIOUS
  <2>1. tries[j] \in Nat /\ \A n \in Nat : n <= n /\ n <= n + 1
    BY <1>2
  <2>2. tries'[j] = tries[j] \/ tries'[j] = tries[j] + 1
    BY <1>8
  <2> QED
    BY <2>1, <2>2
<1> QED
  BY <1>1, <1>5, <1>9, <1>10, <1>11, <1>12, <1>13, <1>14, <1>15 DEF BridgeInv, i

\* A restart pays for every answer it forgets.
LEMMA CrashBridge ==
    ASSUME BridgeInv, Crash
    PROVE  BridgeInv' /\ Queue' = Queue
<1> USE AtHand
<1>1. /\ crashes < MaxCrashes /\ crashes' = crashes + 1
      /\ posting' = {} /\ todo' = <<>> /\ unread' = {} /\ cut' = cut \cup posting
      /\ UNCHANGED <<heard, queue, retries, rows, lost, saved, dropped, tries>>
  BY DEF Crash, disk
<1>2. Queue' = Queue
  BY <1>1 DEF Queue
<1>3. todo' \in Seq(Items) /\ IsInjective(todo') /\ ToSet(todo') = {}
  BY <1>1 DEF IsInjective, ToSet
<1>4. BridgeTypeOK'
  <2>1. crashes' \in 0 .. MaxCrashes
    BY <1>1, BridgeAssumption DEF BridgeInv, BridgeTypeOK
  <2> QED
    BY <1>1, <1>3, <2>1 DEF BridgeInv, BridgeTypeOK
<1>5. Placed'
  BY <1>1, <1>2, <1>3 DEF BridgeInv, Placed
<1>6. Counted'
  BY <1>1, <1>2 DEF BridgeInv, Counted
<1>7. Awaited'
  BY <1>1 DEF Awaited
<1>8. StoredOften'
  BY <1>1 DEF BridgeInv, StoredOften
<1>9. HeardIsAccountedFor'
  BY <1>1, <1>2 DEF BridgeInv, HeardIsAccountedFor
<1> QED
  BY <1>2, <1>4, <1>5, <1>6, <1>7, <1>8, <1>9 DEF BridgeInv

\* A message that was not queued is recorded as cut off.
LEMMA EnqueueFailsBridge ==
    ASSUME BridgeInv, NEW i \in Items, EnqueueFails(i)
    PROVE  BridgeInv'
<1> USE AtHand
<1>1. /\ i \in posting /\ crashes < MaxCrashes /\ crashes' = crashes + 1
      /\ posting' = posting \ {i} /\ unread' = unread \ {i} /\ cut' = cut \cup {i}
      /\ UNCHANGED <<heard, queue, retries, todo, rows, lost, saved, dropped, tries>>
  BY DEF EnqueueFails, disk
<1>2. Queue' = Queue /\ Sendable' \subseteq Sendable \ {i} /\ Sending \ {i} \subseteq Sending'
  <2>1. Queue' = Queue
    BY <1>1 DEF Queue
  <2> QED
    BY <1>1, <2>1 DEF Sendable, Sending
<1>3. BridgeTypeOK'
  <2>1. crashes' \in 0 .. MaxCrashes
    BY <1>1, BridgeAssumption DEF BridgeInv, BridgeTypeOK
  <2> QED
    BY <1>1, <2>1 DEF BridgeInv, BridgeTypeOK
<1>4. Placed' /\ Counted'
  BY <1>1, <1>2 DEF BridgeInv, Placed, Counted
<1>5. Awaited'
  BY <1>1, <1>2 DEF BridgeInv, Awaited
<1>6. StoredOften'
  BY <1>1, <1>2 DEF BridgeInv, StoredOften
<1>7. HeardIsAccountedFor'
  BY <1>1, <1>2 DEF BridgeInv, HeardIsAccountedFor
<1> QED
  BY <1>3, <1>4, <1>5, <1>6, <1>7 DEF BridgeInv

\* A row that was not removed is paid for like an answer that was forgotten.
LEMMA UpdateFailsBridge ==
    ASSUME BridgeInv, UpdateFails
    PROVE  BridgeInv'
<1> USE AtHand
<1> DEFINE i == Head(todo)
<1>1. /\ todo # <<>> /\ crashes < MaxCrashes /\ crashes' = crashes + 1
      /\ todo' = <<>> /\ unread' = unread \ {i}
      /\ UNCHANGED <<heard, posting, queue, retries, rows, lost, saved, dropped, tries, cut>>
  BY DEF UpdateFails, disk, history
<1>2. unread' \subseteq posting
  BY <1>1 DEF BridgeInv, Awaited
<1> HIDE DEF i
<1>3. Queue' = Queue /\ Sendable' = Sendable /\ posting \subseteq Sending'
  <2>1. Queue' = Queue
    BY <1>1 DEF Queue
  <2> QED
    BY <1>1, <2>1 DEF Sendable, Sending
<1>4. todo' \in Seq(Items) /\ IsInjective(todo') /\ ToSet(todo') = {}
  BY <1>1 DEF IsInjective, ToSet
<1>5. BridgeTypeOK'
  <2>1. crashes' \in 0 .. MaxCrashes
    BY <1>1, BridgeAssumption DEF BridgeInv, BridgeTypeOK
  <2> QED
    BY <1>1, <1>4, <2>1 DEF BridgeInv, BridgeTypeOK
<1>6. Placed' /\ Counted'
  BY <1>1, <1>3, <1>4 DEF BridgeInv, Placed, Counted
<1>7. Awaited'
  BY <1>1, <1>2, <1>3 DEF BridgeInv, Awaited
<1>8. StoredOften'
  BY <1>1, <1>3 DEF BridgeInv, StoredOften
<1>9. HeardIsAccountedFor'
  BY <1>1, <1>3 DEF BridgeInv, HeardIsAccountedFor
<1> QED
  BY <1>5, <1>6, <1>7, <1>8, <1>9 DEF BridgeInv

LEMMA BridgeStarts == BridgeInit => BridgeInv /\ Queue = {} /\ saved = {}
<1> SUFFICES ASSUME BridgeInit PROVE BridgeInv /\ Queue = {} /\ saved = {}
  OBVIOUS
<1> USE BridgeAssumption DEF BridgeInit
<1>1. /\ queue \in Seq(Items) /\ IsInjective(queue) /\ ToSet(queue) = {}
      /\ todo \in Seq(Items) /\ IsInjective(todo) /\ ToSet(todo) = {}
  BY DEF IsInjective, ToSet
<1>2. Queue = {}
  BY <1>1 DEF Queue
<1>3. 0 \in 0 .. MaxRows /\ 0 \in 0 .. RetryMax
  BY DEF MaxRows
<1>4. BridgeTypeOK
  BY <1>1, <1>3 DEF BridgeTypeOK
<1>5. Placed /\ Counted /\ Awaited
  BY <1>1, <1>2 DEF Placed, Counted, Awaited
<1>6. StoredOften
  BY DEF StoredOften
<1>7. HeardIsAccountedFor
  BY DEF HeardIsAccountedFor
<1> QED
  BY <1>2, <1>4, <1>5, <1>6, <1>7 DEF BridgeInv

LEMMA BridgeStutters == ASSUME BridgeInv, UNCHANGED bridgeVars PROVE BridgeInv'
<1> USE DEF bridgeVars, disk, history, Queue, Sending, Sendable
<1>1. BridgeTypeOK' /\ Placed' /\ Counted'
  BY DEF BridgeInv, BridgeTypeOK, Placed, Counted
<1>2. Awaited' /\ StoredOften' /\ HeardIsAccountedFor'
  BY DEF BridgeInv, Awaited, StoredOften, HeardIsAccountedFor
<1> QED
  BY <1>1, <1>2 DEF BridgeInv

LEMMA BridgeKept == BridgeInv /\ [BridgeNext]_bridgeVars => BridgeInv'
<1> SUFFICES ASSUME BridgeInv, [BridgeNext]_bridgeVars PROVE BridgeInv'
  OBVIOUS
<1>1. ASSUME NEW i \in Items,
             Hear(i) \/ Take(i) \/ Accepted(i) \/ Fails(i) \/ EnqueueFails(i)
      PROVE  BridgeInv'
  BY <1>1, HearBridge, TakeBridge, AcceptedBridge, FailsBridge, EnqueueFailsBridge
<1>2. CASE StartPass
  BY <1>2, StartBridge
<1>3. CASE Abandon
  BY <1>3, AbandonBridge
<1>4. CASE Delivered
  BY <1>4, DeliveredBridge
<1>5. CASE Retry
  BY <1>5, RetryBridge
<1>6. CASE Crash \/ UpdateFails
  BY <1>6, CrashBridge, UpdateFailsBridge
<1>7. CASE UNCHANGED bridgeVars
  BY <1>7, BridgeStutters
<1> QED
  BY <1>1, <1>2, <1>3, <1>4, <1>5, <1>6, <1>7 DEF BridgeNext

LEMMA BridgeAlways == BridgeSpec => []BridgeInv
  BY BridgeStarts, BridgeKept, PTL DEF BridgeSpec

(* Every variable of the bridge keeps its type: one row per item in the      *)
(* queue, and no more tries than retry_max (bridge.py:237).                  *)
THEOREM BridgeTyped == BridgeSpec => []BridgeTypeOK
<1>1. BridgeInv => BridgeTypeOK
  BY DEF BridgeInv
<1> QED
  BY <1>1, BridgeAlways, PTL

(* Whatever the radio brought in was stored, or is on its way or in the      *)
(* queue, unless its tries ran out, or the bridge died in its first POST or  *)
(* SQLite did not take it (bridge.py:410, 201).                              *)
THEOREM BridgeAccounts == BridgeSpec => []HeardIsAccountedFor
<1>1. BridgeInv => HeardIsAccountedFor
  BY DEF BridgeInv
<1> QED
  BY <1>1, BridgeAlways, PTL

(* Every row beyond the first of a message was paid for by an answer that    *)
(* was lost, a restart, or a failure of SQLite (bridge.py:265, 219).         *)
THEOREM BridgeStoresAgain == BridgeSpec => []StoredAgainForACause
<1>1. BridgeInv => StoredAgainForACause
  BY DEF BridgeInv, StoredOften, StoredAgainForACause
<1> QED
  BY <1>1, BridgeAlways, PTL

(* A message that waits stays in the queue until the API has stored it or    *)
(* its tries are used up, over restarts in the middle of a pass              *)
(* (bridge.py:237): each step of the bridge is a step of SavedReports, or    *)
(* none.                                                                     *)
THEOREM BridgeKeepsReports == BridgeSpec => KeepsReports
<1> USE DEF Promise!Next, Promise!vars
<1>1. BridgeInit => Promise!Init
  BY BridgeStarts DEF Promise!Init, Excused
<1>2. ASSUME BridgeInv, BridgeInv', [BridgeNext]_bridgeVars
      PROVE  [Promise!Next]_(Promise!vars)
  <2> USE <1>2
  <2>0. Queue \subseteq saved /\ Queue' \subseteq saved' /\ saved \subseteq Items
    BY AtHand DEF BridgeInv, Placed
  <2>1. ASSUME NEW i \in Items, Fails(i) PROVE [Promise!Next]_(Promise!vars)
    <3>1. /\ i \in Items \ saved /\ saved' = saved \cup {i} /\ Queue' = Queue \cup {i}
      BY <2>1, FailsBridge DEF Fails, Queues, BridgeInv, Placed
    <3>2. UNCHANGED <<rows, tries>>
      BY <2>1 DEF Fails, Queues
    <3>3. Excused \subseteq Excused' /\ Excused' \subseteq saved'
      BY <3>1, <3>2 DEF Excused
    <3>4. Promise!Save(i)
      BY <3>1, <3>3 DEF Promise!Save
    <3> QED
      BY <3>4
  <2>2. ASSUME NEW i \in Items, Take(i) PROVE [Promise!Next]_(Promise!vars)
    <3>1. UNCHANGED <<queue, saved, tries>> /\ rows' = [rows EXCEPT ![i] = @ + 1]
      BY <2>2 DEF Take, disk, history
    <3>2. Queue' = Queue
      BY <3>1 DEF Queue
    <3>3. \A j \in Items : rows[j] \in Nat /\ (rows[j] > 0 => rows'[j] > 0)
      BY <3>1 DEF BridgeInv, BridgeTypeOK
    <3>4. Excused \subseteq Excused' /\ Excused' \subseteq saved
      BY <2>0, <3>1, <3>3 DEF Excused
    <3>5. Promise!Excuse
      BY <3>1, <3>2, <3>4 DEF Promise!Excuse
    <3> QED
      BY <3>5
  <2>3. CASE Retry
    <3>1. /\ UNCHANGED <<saved, rows>> /\ Queue' = Queue
          /\ \A j \in Items : tries[j] <= tries'[j]
      BY <2>3, RetryBridge DEF Retry, Retried
    <3>2. \A j \in Items : tries[j] \in 0 .. RetryMax /\ tries'[j] \in 0 .. RetryMax
      BY DEF BridgeInv, BridgeTypeOK
    <3>3. \A j \in Items : tries[j] = RetryMax => tries'[j] = RetryMax
      BY <3>1, <3>2, AtHand
    <3>4. Excused \subseteq Excused' /\ Excused' \subseteq saved
      BY <2>0, <3>1, <3>3 DEF Excused
    <3>5. Promise!Excuse
      BY <3>1, <3>4 DEF Promise!Excuse
    <3> QED
      BY <3>5
  <2>4. ASSUME Abandon \/ Delivered PROVE [Promise!Next]_(Promise!vars)
    <3>1. UNCHANGED <<saved, rows, tries>>
      BY <2>4 DEF Abandon, Abandons, Delivered, Removed, history
    <3>2. /\ Queue' = Queue \ {Head(todo)}
          /\ rows[Head(todo)] > 0 \/ tries[Head(todo)] = RetryMax
      BY <2>4, AbandonBridge, DeliveredBridge
    <3>3. Excused' = Excused
      BY <3>1 DEF Excused
    <3>4. Queue \ Queue' \subseteq Excused
      BY <2>0, <3>2 DEF Excused
    <3>5. Promise!Sweep
      BY <2>0, <3>1, <3>3, <3>4 DEF Promise!Sweep
    <3> QED
      BY <3>5
  <2>5. ASSUME UNCHANGED <<queue, saved, rows, tries>> PROVE UNCHANGED Promise!vars
    <3>1. Queue' = Queue /\ Excused' = Excused
      BY <2>5 DEF Queue, Excused
    <3> QED
      BY <2>5, <3>1
  <2>6. ASSUME \/ \E i \in Items : Hear(i) \/ Accepted(i) \/ EnqueueFails(i)
               \/ StartPass \/ Crash \/ UpdateFails \/ UNCHANGED bridgeVars
        PROVE  UNCHANGED <<queue, saved, rows, tries>>
    BY <2>6 DEF Hear, Accepted, EnqueueFails, StartPass, Crash, UpdateFails, bridgeVars, disk,
                history
  <2> QED
    BY <2>1, <2>2, <2>3, <2>4, <2>5, <2>6 DEF BridgeNext
<1> QED
  BY <1>1, <1>2, BridgeAlways, PTL DEF BridgeSpec, KeepsReports, Promise!Spec

-----------------------------------------------------------------------------
(* One active SOS of a person under their name.                              *)

(* What a request stores carries a name only from the moment it is past the  *)
(* dedup; and then it finds no active row of that person but twins.          *)
NamedLate == \A i \in Slots : op[i].pc # "create" => ~op[i].named
ClearToCreate ==
    \A i \in Slots : op[i].pc = "create" /\ op[i].named => Own(op[i].by) \subseteq twins

IInv == TypeOK /\ NamedLate /\ ClearToCreate /\ OneSosPerUser

USE SosAssumption

\* How a request may come nearer to storing a row under a name.
May(old, new) ==
    /\ new.pc # "create" => ~new.named
    /\ new.pc = "create" /\ new.named => \/ old.pc = "create" /\ old.named /\ new.by = old.by
                                         \/ Own(new.by) = {}

LEMMA Constants ==
    /\ Quiet \in PhoneStates /\ Free \in OpStates
    /\ Free.pc = "idle" /\ Free.to = "nobody" /\ Free.row = {} /\ ~Free.named /\ ~Free.crossed
    /\ Quiet.row = {}
    /\ \A r \in Rows : Author(r) \in Clients
<1>1. (CHOOSE c \in Clients : TRUE) \in Clients
  OBVIOUS
<1>2. \A r \in Rows : Author(r) \in Clients
  <2> SUFFICES ASSUME NEW c \in Clients, NEW r \in {c} \X Copies[c] PROVE Author(r) = c
    BY DEF Rows
  <2> QED
    BY DEF Author
<1> QED
  BY <1>1, <1>2 DEF Quiet, Free, PhoneStates, OpStates

LEMMA Facts ==
    ASSUME IInv
    PROVE  /\ TypeOK /\ op \in [Slots -> OpStates] /\ phone \in [Clients -> PhoneStates]
           /\ row \in [Rows -> RowStates] /\ spent \subseteq {Ip[c] : c \in Clients}
           /\ named \subseteq Rows /\ twins \subseteq Rows
           /\ \A i \in Slots : May(op[i], op[i])
BY DEF IInv, TypeOK, NamedLate, May

\* A step by which nobody comes to have an active row, and those who had twins
\* have them still.
LEMMA Kept ==
    ASSUME IInv, TypeOK', \A i \in Slots : May(op[i], op'[i]),
           \A c \in Clients : Own(c)' \subseteq Own(c) /\ Own(c)' \cap twins \subseteq twins'
    PROVE  IInv'
<1>1. OneSosPerUser'
  BY DEF IInv, OneSosPerUser
<1>2. NamedLate'
  BY DEF May, NamedLate
<1>3. ClearToCreate'
  <2> SUFFICES ASSUME NEW i \in Slots, op'[i].pc = "create", op'[i].named,
                      NEW c, c = op'[i].by
               PROVE  Own(c)' \subseteq twins'
    BY DEF ClearToCreate, Own, Active
  <2>1. c \in Clients
    BY DEF TypeOK, OpStates
  <2>2. Own(c) \subseteq twins
    <3>1. CASE op[i].pc = "create" /\ op[i].named /\ op'[i].by = op[i].by
      BY <2>1, <3>1 DEF IInv, ClearToCreate
    <3>2. CASE Own(c) = {}
      BY <3>2
    <3> QED
      BY <2>1, <3>1, <3>2 DEF May
  <2> QED
    BY <2>1, <2>2
<1> QED
  BY <1>1, <1>2, <1>3 DEF IInv

\* One request in another state of its own.
LEMMA OpReplaced ==
    ASSUME IInv, NEW i \in Slots, NEW next \in OpStates, op' = [op EXCEPT ![i] = next],
           May(op[i], next)
    PROVE  op' \in [Slots -> OpStates] /\ \A j \in Slots : May(op[j], op'[j])
<1>1. \A j \in Slots : op'[j] = IF j = i THEN next ELSE op[j]
  BY Facts
<1> QED
  BY <1>1, Facts

\* One phone in another state of its own.
LEMMA PhoneReplaced ==
    ASSUME TypeOK, NEW c \in Clients, NEW next \in PhoneStates,
           phone' = [phone EXCEPT ![c] = next]
    PROVE  phone' \in [Clients -> PhoneStates]
BY DEF TypeOK

\* The invariant, when the rows are left alone.
LEMMA KeptBy ==
    ASSUME IInv, UNCHANGED <<row, named, twins>>,
           op' \in [Slots -> OpStates], \A i \in Slots : May(op[i], op'[i]),
           phone' \in [Clients -> PhoneStates], spent' \subseteq {Ip[c] : c \in Clients}
    PROVE  IInv'
<1>1. TypeOK'
  BY DEF IInv, TypeOK
<1>2. \A c : Own(c)' = Own(c)
  BY DEF Own, Active
<1> QED
  BY <1>1, <1>2, Kept

\* The invariant, when a row is closed.
LEMMA KeptClosing ==
    ASSUME IInv, NEW r \in Rows, Closes(r), named' = named,
           op' \in [Slots -> OpStates], \A i \in Slots : May(op[i], op'[i]),
           phone' = phone, spent' \subseteq {Ip[c] : c \in Clients}
    PROVE  IInv'
<1>1. /\ row' \in [Rows -> RowStates] /\ twins' = twins \ {r}
      /\ \A s \in Rows : row'[s] = IF s = r THEN "closed" ELSE row[s]
  BY Facts DEF Closes, RowStates
<1>2. TypeOK'
  BY <1>1 DEF IInv, TypeOK
<1>3. \A c : Own(c)' = Own(c) \ {r}
  BY <1>1 DEF Own, Active
<1> QED
  BY <1>1, <1>2, <1>3, Kept

-----------------------------------------------------------------------------
\* The phone.

LEMMA DismissedTyped ==
    ASSUME TypeOK, NEW c \in Clients
    PROVE  Dismissed(c) \in PhoneStates /\ Dismissed(c).row = {}
<1>1. phone[c] \in PhoneStates
  BY DEF TypeOK
<1> QED
  BY <1>1, Constants DEF Dismissed, PhoneStates

LEMMA PhoneKeeps ==
    ASSUME IInv, NEW c \in Clients, Save(c) \/ Done(c) \/ GiveUp(c) \/ Enqueue(c)
    PROVE  IInv'
<1>1. UNCHANGED <<row, named, spent, op, twins>>
  BY DEF Save, Done, GiveUp, Enqueue
<1>2. phone' \in [Clients -> PhoneStates]
  <2>1. CASE Save(c)
    <3> DEFINE next == [phone[c] EXCEPT !.stage = "sent", !.saved = TRUE]
    <3>1. phone' = [phone EXCEPT ![c] = next]
      BY <2>1 DEF Save
    <3>2. next \in PhoneStates
      BY Facts DEF PhoneStates
    <3> HIDE DEF next
    <3> QED
      BY <3>1, <3>2, PhoneReplaced, Facts
  <2>2. CASE Done(c) \/ GiveUp(c)
    BY <2>2, DismissedTyped, PhoneReplaced, Facts DEF Done, GiveUp
  <2>3. CASE Enqueue(c)
    <3> DEFINE next == [Quiet EXCEPT !.saved = TRUE]
    <3>1. phone' = [phone EXCEPT ![c] = next]
      BY <2>3 DEF Enqueue
    <3>2. next \in PhoneStates
      BY Constants DEF PhoneStates
    <3> HIDE DEF next
    <3> QED
      BY <3>1, <3>2, PhoneReplaced, Facts
  <2> QED
    BY <2>1, <2>2, <2>3
<1> QED
  BY <1>1, <1>2, KeptBy, Facts

\* A request that has ended.
LEMMA FreeTyped ==
    ASSUME IInv, NEW i \in Slots, op' = [op EXCEPT ![i] = Free]
    PROVE  op' \in [Slots -> OpStates] /\ \A j \in Slots : May(op[j], op'[j])
BY Constants, OpReplaced DEF May

LEMMA TimeOutKeeps == ASSUME IInv, NEW c \in Clients, TimeOut(c) PROVE IInv'
<1>1. UNCHANGED <<row, named, spent, twins>>
  BY DEF TimeOut
<1>2. PICK i \in Slots : op' = [op EXCEPT ![i] = IF @.pc = "stored" THEN Free
                                                 ELSE [@ EXCEPT !.to = "nobody"]]
  BY DEF TimeOut
<1>3. op' \in [Slots -> OpStates] /\ \A j \in Slots : May(op[j], op'[j])
  <2>1. CASE op[i].pc = "stored"
    <3>1. op' = [op EXCEPT ![i] = Free]
      BY <1>2, <2>1, Facts
    <3> QED
      BY <3>1, FreeTyped
  <2>2. CASE op[i].pc # "stored"
    <3> DEFINE next == [op[i] EXCEPT !.to = "nobody"]
    <3>1. next \in OpStates /\ next.pc = op[i].pc /\ next.by = op[i].by /\ next.named = op[i].named
      BY Facts DEF OpStates
    <3>2. op' = [op EXCEPT ![i] = next]
      BY <1>2, <2>2, Facts
    <3> HIDE DEF next
    <3>3. May(op[i], next)
      BY <3>1, Facts DEF May
    <3> QED
      BY <3>1, <3>2, <3>3, OpReplaced
  <2> QED
    BY <2>1, <2>2
<1> DEFINE told == [phone[c] EXCEPT !.stage = "error"]
<1>6. told \in PhoneStates
  BY Facts DEF PhoneStates
<1>7. phone' = [phone EXCEPT ![c] = told]
  BY DEF TimeOut
<1> HIDE DEF told
<1>8. phone' \in [Clients -> PhoneStates]
  BY <1>6, <1>7, PhoneReplaced, Facts
<1> QED
  BY <1>1, <1>3, <1>8, KeptBy, Facts

\* The request that a phone begins.
Asks(c, to) == [Free EXCEPT !.pc = "lookup", !.by = c, !.to = to]
Retracts(c) ==
    [Free EXCEPT !.pc = "load", !.by = c, !.row = phone[c].row,
                 !.crossed = \E j \in Slots : /\ op[j].to = "screen"
                                              /\ op[j].row \cap phone[c].row # {}]
LEMMA Begun ==
    ASSUME TypeOK, NEW c \in Clients
    PROVE  /\ \A to \in {"screen", "outbox"} :
                 /\ Asks(c, to) \in OpStates /\ Asks(c, to).pc = "lookup"
                 /\ Asks(c, to).row = {} /\ ~Asks(c, to).named
           /\ Retracts(c) \in OpStates /\ Retracts(c).pc = "load" /\ ~Retracts(c).named
           /\ Retracts(c).by = c /\ Retracts(c).row = phone[c].row /\ Retracts(c).to = "nobody"
           /\ ~Retracts(c).crossed => \A j \in Slots : op[j].to = "screen" =>
                                          \A r \in op[j].row : r \notin phone[c].row
<1>1. phone[c].row \in SUBSET Rows
  BY DEF TypeOK, PhoneStates
<1> DEFINE met == \E j \in Slots : op[j].to = "screen" /\ op[j].row \cap phone[c].row # {}
<1>2. met \in BOOLEAN
  OBVIOUS
<1>3. Retracts(c) = [Free EXCEPT !.pc = "load", !.by = c, !.row = phone[c].row, !.crossed = met]
  BY DEF Retracts
<1>4. ~met => \A j \in Slots : op[j].to = "screen" => \A r \in op[j].row : r \notin phone[c].row
  OBVIOUS
<1> HIDE DEF met
<1> QED
  BY <1>1, <1>2, <1>3, <1>4, Constants DEF Asks, OpStates

LEMMA AskKeeps ==
    ASSUME IInv, NEW c \in Clients, NEW i \in Slots, Send(c, i) \/ Flush(c, i) \/ Retract(c, i)
    PROVE  IInv'
<1>1. UNCHANGED <<row, named, spent, twins>>
  BY DEF Send, Flush, Retract
<1>2. PICK call \in OpStates : call.pc # "create" /\ ~call.named /\ op' = [op EXCEPT ![i] = call]
  <2>1. CASE Send(c, i)
    BY <2>1, Begun, Facts DEF Send, Asks
  <2>2. CASE Flush(c, i)
    BY <2>2, Begun, Facts DEF Flush, Asks
  <2>3. CASE Retract(c, i)
    BY <2>3, Begun, Facts DEF Retract, Retraction, Retracts
  <2> QED
    BY <2>1, <2>2, <2>3
<1>3. op' \in [Slots -> OpStates] /\ \A j \in Slots : May(op[j], op'[j])
  BY <1>2, OpReplaced DEF May
<1>4. phone' \in [Clients -> PhoneStates]
  <2>1. CASE Send(c, i)
    <3> DEFINE next == [phone[c] EXCEPT !.stage = "sending"]
    <3>1. phone' = [phone EXCEPT ![c] = next]
      BY <2>1 DEF Send
    <3>2. next \in PhoneStates
      BY Facts DEF PhoneStates
    <3> HIDE DEF next
    <3> QED
      BY <3>1, <3>2, PhoneReplaced, Facts
  <2>2. CASE Flush(c, i)
    BY <2>2, Facts DEF Flush
  <2>3. CASE Retract(c, i)
    BY <2>3, DismissedTyped, PhoneReplaced, Facts DEF Retract
  <2> QED
    BY <2>1, <2>2, <2>3
<1> QED
  BY <1>1, <1>3, <1>4, KeptBy, Facts

-----------------------------------------------------------------------------
\* The handlers.

\* A handler's step that only moves on.
LEMMA ToTyped ==
    ASSUME IInv, NEW i \in Slots, op[i].pc # "create",
           NEW pc \in {"limit", "create", "commit"}, To(i, pc)
    PROVE  op' \in [Slots -> OpStates] /\ \A j \in Slots : May(op[j], op'[j])
<1> DEFINE next == [op[i] EXCEPT !.pc = pc]
<1>1. op' = [op EXCEPT ![i] = next]
  BY DEF To
<1>2. next \in OpStates /\ next.named = op[i].named
  BY Facts DEF OpStates
<1> HIDE DEF next
<1>3. May(op[i], next)
  BY <1>2, Facts DEF May
<1> QED
  BY <1>1, <1>2, <1>3, OpReplaced

\* What a row found or stored makes of the requests.
LEMMA FoundCalls ==
    ASSUME TypeOK, NEW i \in Slots, NEW r \in Rows, Found(i, r)
    PROVE  /\ op' \in [Slots -> OpStates]
           /\ ~op'[i].named /\ op'[i].pc \in {"idle", "stored"}
           /\ \/ op'[i] = Free
              \/ op'[i].row = {r} /\ op'[i].by = op[i].by /\ op'[i].to = op[i].to
           /\ \A j \in Slots \ {i} :
                 /\ op'[j].pc = op[j].pc /\ op'[j].by = op[j].by /\ op'[j].row = op[j].row
                 /\ op'[j].to = op[j].to /\ op'[j].named = op[j].named
                 /\ ~op'[j].crossed => /\ ~op[j].crossed
                                       /\ ~(/\ op[j].pc \in {"load", "commit"}
                                            /\ r \in op[j].row /\ op[i].to = "screen")
<1> DEFINE next == [op[i] EXCEPT !.pc = "stored", !.row = {r}, !.named = FALSE]
           met(j) == op[j].pc \in {"load", "commit"} /\ r \in op[j].row /\ op[i].to = "screen"
           other(j) == [op[j] EXCEPT !.crossed = @ \/ met(j)]
<1>1. op' = [j \in Slots |-> IF j = i THEN IF op[i].to = "nobody" THEN Free ELSE next ELSE other(j)]
  BY DEF Found
<1>2. /\ next \in OpStates /\ ~next.named /\ next.pc = "stored"
      /\ next.row = {r} /\ next.by = op[i].by /\ next.to = op[i].to
  BY DEF TypeOK, OpStates
<1>3. ASSUME NEW j \in Slots
      PROVE  /\ other(j) \in OpStates
             /\ other(j).pc = op[j].pc /\ other(j).by = op[j].by /\ other(j).row = op[j].row
             /\ other(j).to = op[j].to /\ other(j).named = op[j].named
             /\ ~other(j).crossed => ~op[j].crossed /\ ~met(j)
  <2>1. op[j] \in OpStates /\ (op[j].crossed \/ met(j)) \in BOOLEAN
    BY DEF TypeOK, OpStates
  <2> HIDE DEF met
  <2> QED
    BY <2>1 DEF OpStates
<1> HIDE DEF next, other, met
<1>4. \A j \in Slots : op'[j] = IF j = i THEN IF op[i].to = "nobody" THEN Free ELSE next ELSE other(j)
  BY <1>1
<1>5. op' \in [Slots -> OpStates]
  BY <1>1, <1>2, <1>3, Constants
<1> QED
  BY <1>2, <1>3, <1>4, <1>5, Constants DEF met

LEMMA LookupKeeps == ASSUME IInv, NEW i \in Slots, Lookup(i) PROVE IInv'
<1>1. UNCHANGED <<row, named, spent, phone, twins>> /\ op[i].pc = "lookup"
  BY DEF Lookup
<1>2. op' \in [Slots -> OpStates] /\ \A j \in Slots : May(op[j], op'[j])
  <2>1. ASSUME NEW r \in Rows, Found(i, r)
        PROVE  op' \in [Slots -> OpStates] /\ \A j \in Slots : May(op[j], op'[j])
    BY <2>1, FoundCalls, Facts DEF May
  <2>2. CASE Own(op[i].by) = {} /\ op' = [op EXCEPT ![i].named = TRUE, ![i].pc = "create"]
    <3> DEFINE next == [op[i] EXCEPT !.named = TRUE, !.pc = "create"]
    <3>1. op' = [op EXCEPT ![i] = next]
      BY <2>2
    <3>2. next \in OpStates /\ next.pc = "create" /\ next.by = op[i].by
      BY Facts DEF OpStates
    <3> HIDE DEF next
    <3>3. May(op[i], next)
      BY <2>2, <3>2 DEF May
    <3> QED
      BY <3>1, <3>2, <3>3, OpReplaced
  <2>3. CASE To(i, "limit")
    BY <1>1, <2>3, ToTyped
  <2>4. \A r : r \in Own(op[i].by) \/ r \in Nearby(op[i].by) => r \in Rows
    BY DEF Own, Active, Nearby
  <2> QED
    BY <2>1, <2>2, <2>3, <2>4 DEF Lookup, LookupOwn, LookupNear
<1> QED
  BY <1>1, <1>2, KeptBy, Facts

LEMMA ConsumeKeeps == ASSUME IInv, NEW i \in Slots, Consume(i) PROVE IInv'
<1>1. UNCHANGED <<row, named, phone, twins>> /\ op[i].pc = "limit" /\ To(i, "create")
  BY DEF Consume
<1>2. spent' \subseteq {Ip[c] : c \in Clients}
  <2>1. op[i].by \in Clients
    BY Facts DEF OpStates
  <2> QED
    BY <2>1, Facts DEF Consume
<1> QED
  BY <1>1, <1>2, ToTyped, KeptBy, Facts

LEMMA FailedKeeps ==
    ASSUME IInv, NEW i \in Slots, Failed(i), UNCHANGED <<row, named, spent, twins>>
    PROVE  IInv'
<1>1. op' \in [Slots -> OpStates] /\ \A j \in Slots : May(op[j], op'[j])
  BY FreeTyped DEF Failed
<1> DEFINE c == op[i].by
<1>2. c \in Clients /\ op[i].to \in {"screen", "outbox", "nobody"}
  BY Facts DEF OpStates
<1>3. phone' \in [Clients -> PhoneStates]
  <2>1. CASE op[i].to = "screen"
    <3> DEFINE next == [phone[c] EXCEPT !.stage = "error"]
    <3>1. phone' = [phone EXCEPT ![c] = next]
      BY <2>1 DEF Failed
    <3>2. next \in PhoneStates
      BY <1>2, Facts DEF PhoneStates
    <3> HIDE DEF next
    <3> QED
      BY <1>2, <3>1, <3>2, PhoneReplaced, Facts
  <2>2. CASE op[i].to = "outbox"
    <3>1. PICK kept \in BOOLEAN : phone' = [phone EXCEPT ![c].saved = kept]
      BY <2>2 DEF Failed
    <3> DEFINE next == [phone[c] EXCEPT !.saved = kept]
    <3>2. next \in PhoneStates
      BY <1>2, Facts DEF PhoneStates
    <3>3. phone' = [phone EXCEPT ![c] = next]
      BY <3>1
    <3> HIDE DEF next
    <3> QED
      BY <1>2, <3>2, <3>3, PhoneReplaced, Facts
  <2>3. CASE op[i].to = "nobody"
    BY <2>3, Facts DEF Failed
  <2> QED
    BY <1>2, <2>1, <2>2, <2>3
<1> QED
  BY <1>1, <1>3, KeptBy, Facts

LEMMA AnsweredKeeps == ASSUME IInv, NEW i \in Slots, Answered(i) PROVE IInv'
<1>1. UNCHANGED <<row, named, spent, twins>>
  BY DEF Answered
<1>2. op' \in [Slots -> OpStates] /\ \A j \in Slots : May(op[j], op'[j])
  BY FreeTyped DEF Answered
<1> DEFINE c == op[i].by
           shown == [phone[c] EXCEPT !.stage = "sent", !.row = op[i].row]
           flushed == [phone[c] EXCEPT !.saved = FALSE]
<1>3. c \in Clients /\ op[i].to \in {"screen", "outbox", "nobody"}
      /\ op[i].row \in SUBSET Rows
  BY Facts DEF OpStates
<1>4. phone[c] \in PhoneStates
  BY <1>3, Facts
<1>5. shown \in PhoneStates
  BY <1>3, <1>4 DEF PhoneStates
<1>6. flushed \in PhoneStates
  BY <1>4 DEF PhoneStates
<1>7. phone' = [phone EXCEPT ![c] = CASE op[i].to = "screen" -> shown
                                      [] op[i].to = "outbox" -> flushed
                                      [] op[i].to = "nobody" -> phone[c]]
  BY DEF Answered
<1> HIDE DEF shown, flushed
<1>8. phone' \in [Clients -> PhoneStates]
  BY <1>3, <1>4, <1>5, <1>6, <1>7, PhoneReplaced, Facts
<1> QED
  BY <1>1, <1>2, <1>8, KeptBy, Facts
LEMMA LoadKeeps == ASSUME IInv, NEW i \in Slots, Load(i) PROVE IInv'
<1>1. UNCHANGED <<row, named, phone, twins>> /\ op[i].pc # "create"
  BY DEF Load
<1>2. spent' \subseteq {Ip[c] : c \in Clients}
  BY Facts DEF Load
<1>3. op' \in [Slots -> OpStates] /\ \A j \in Slots : May(op[j], op'[j])
  BY <1>1, ToTyped, FreeTyped DEF Load
<1> QED
  BY <1>1, <1>2, <1>3, KeptBy, Facts

LEMMA CommitKeeps == ASSUME IInv, NEW i \in Slots, Commit(i) PROVE IInv'
<1>1. UNCHANGED <<named, phone>> /\ op' = [op EXCEPT ![i] = Free]
  BY DEF Commit
<1>2. PICK r \in op[i].row : /\ spent' \in {spent, spent \ {Ip[Author(r)]}}
                             /\ UNCHANGED <<row, twins>> \/ Closes(r)
  BY DEF Commit
<1>3. r \in Rows
  BY Facts DEF OpStates
<1>4. spent' \subseteq {Ip[c] : c \in Clients}
  BY <1>2, Facts
<1>5. op' \in [Slots -> OpStates] /\ \A j \in Slots : May(op[j], op'[j])
  BY <1>1, FreeTyped
<1>6. CASE Closes(r)
  BY <1>1, <1>3, <1>4, <1>5, <1>6, KeptClosing
<1>7. CASE UNCHANGED <<row, twins>>
  BY <1>1, <1>4, <1>5, <1>7, KeptBy, Facts
<1> QED
  BY <1>2, <1>6, <1>7

\* The two steps that bring up an active row.
LEMMA CreateKeeps == ASSUME IInv, NEW i \in Slots, Create(i) PROVE IInv'
<1>1. PICK c \in Clients : c = op[i].by
  BY Facts DEF OpStates
<1>2. PICK r \in Rows :
        /\ Author(r) = c /\ row[r] # "active" /\ row' = [row EXCEPT ![r] = "active"]
        /\ named' = IF op[i].named THEN named \union {r} ELSE named \ {r}
        /\ twins' = IF op[i].named /\ \E j \in Slots \ {i} : Creating(j, c)
                    THEN twins \union {r} ELSE twins \ {r}
        /\ Found(i, r)
  BY <1>1 DEF Create, Unused
<1>3. UNCHANGED <<spent, phone>> /\ op[i].pc = "create"
  BY DEF Create
<1>4. /\ op' \in [Slots -> OpStates] /\ ~op'[i].named /\ op'[i].pc # "create"
      /\ \A j \in Slots \ {i} : /\ op'[j].pc = op[j].pc /\ op'[j].by = op[j].by
                                /\ op'[j].named = op[j].named
  BY <1>2, FoundCalls, Facts
<1>5. /\ row' \in [Rows -> RowStates]
      /\ \A s \in Rows : row'[s] = IF s = r THEN "active" ELSE row[s]
  BY <1>2, Facts DEF RowStates
<1>6. TypeOK'
  BY <1>2, <1>3, <1>4, <1>5 DEF IInv, TypeOK
<1>7. r \notin Own(c)
  BY <1>2 DEF Own, Active
<1>8. \A d : d # c => Own(d)' = Own(d)
  BY <1>2, <1>5 DEF Own, Active
<1>9. Own(c)' = IF op[i].named THEN Own(c) \union {r} ELSE Own(c)
  BY <1>2, <1>5, Facts DEF Own, Active
<1>10. \A d, s : s \in Own(d) /\ s \in twins => s \in twins'
  BY <1>2 DEF Own, Active
<1>11. op[i].named => Own(c) \subseteq twins
  BY <1>1, <1>3 DEF IInv, ClearToCreate
<1>12. OneSosPerUser'
  <2> SUFFICES ASSUME NEW d \in Clients, NEW s \in Own(d)' \ twins', NEW t \in Own(d)' \ twins'
               PROVE  s = t
    BY DEF OneSosPerUser
  <2>1. CASE d # c \/ ~op[i].named
    <3>1. s \in Own(d) \ twins /\ t \in Own(d) \ twins
      BY <1>8, <1>9, <1>10, <2>1
    <3> QED
      BY <3>1 DEF IInv, OneSosPerUser
  <2>2. CASE d = c /\ op[i].named
    <3>1. s = r /\ t = r
      BY <1>9, <1>10, <1>11, <2>2
    <3> QED
      BY <3>1
  <2> QED
    BY <2>1, <2>2
<1>13. ClearToCreate'
  <2> SUFFICES ASSUME NEW j \in Slots, op'[j].pc = "create", op'[j].named,
                      NEW d, d = op'[j].by
               PROVE  Own(d)' \subseteq twins'
    BY DEF ClearToCreate, Own, Active
  <2>1. d \in Clients
    BY <1>4 DEF OpStates
  <2>2. j # i /\ op[j].pc = "create" /\ op[j].named /\ op[j].by = d
    BY <1>4, <2>1
  <2>3. Own(d) \subseteq twins
    BY <2>2 DEF IInv, ClearToCreate
  <2>4. d = c /\ op[i].named => r \in twins'
    BY <1>2, <2>2 DEF Creating
  <2> QED
    BY <1>8, <1>9, <1>10, <2>3, <2>4
<1>14. NamedLate'
  BY <1>4 DEF IInv, NamedLate
<1> QED
  BY <1>6, <1>12, <1>13, <1>14 DEF IInv

LEMMA ReopenKeeps == ASSUME IInv, NEW r \in Rows, Reopen(r) PROVE IInv'
<1>1. PICK c \in Clients : c = Author(r)
  BY Constants
<1>2. /\ row[r] = "closed" /\ row' = [row EXCEPT ![r] = "active"]
      /\ twins' = IF r \in named /\ (Own(c) # {} \/ \E i \in Slots : Creating(i, c))
                  THEN twins \union {r} ELSE twins
      /\ UNCHANGED <<named, spent, phone, op>>
  BY <1>1 DEF Reopen
<1>3. /\ row' \in [Rows -> RowStates] /\ twins' \in SUBSET Rows
      /\ \A s \in Rows : row'[s] = IF s = r THEN "active" ELSE row[s]
  BY <1>2, Facts DEF RowStates
<1>4. TypeOK'
  BY <1>2, <1>3 DEF IInv, TypeOK
<1>5. \A d : Own(d)' \subseteq Own(d) \union {r}
  BY <1>2, <1>3 DEF Own, Active
<1>6. \A d \in Clients : r \in Own(d)' => d = c /\ r \in named
  BY <1>1, <1>2 DEF Own, Active
<1>7. twins \subseteq twins'
  BY <1>2
<1>8. OneSosPerUser'
  <2> SUFFICES ASSUME NEW d \in Clients, NEW s \in Own(d)' \ twins', NEW t \in Own(d)' \ twins'
               PROVE  s = t
    BY DEF OneSosPerUser
  <2>1. CASE r \in Own(d)' /\ r \notin twins'
    <3>1. Own(d) = {}
      BY <1>2, <1>6, <2>1
    <3> QED
      BY <1>5, <3>1
  <2>2. CASE r \notin Own(d)' \/ r \in twins'
    <3>1. s \in Own(d) \ twins /\ t \in Own(d) \ twins
      BY <1>5, <1>7, <2>2
    <3> QED
      BY <3>1 DEF IInv, OneSosPerUser
  <2> QED
    BY <2>1, <2>2
<1>9. ClearToCreate'
  <2> SUFFICES ASSUME NEW j \in Slots, op[j].pc = "create", op[j].named
               PROVE  Own(op[j].by)' \subseteq twins'
    BY <1>2 DEF ClearToCreate
  <2>1. PICK d \in Clients : d = op[j].by
    BY Facts DEF OpStates
  <2>2. Own(d) \subseteq twins
    BY <2>1 DEF IInv, ClearToCreate
  <2>3. r \in Own(d)' => r \in twins'
    BY <1>2, <1>6, <2>1 DEF Creating
  <2>4. Own(d)' \subseteq twins'
    BY <1>5, <1>7, <2>2, <2>3
  <2> QED
    BY <1>2, <2>1, <2>4
<1>10. NamedLate'
  BY <1>2 DEF IInv, NamedLate
<1> QED
  BY <1>4, <1>8, <1>9, <1>10 DEF IInv

LEMMA WorldKeeps == ASSUME IInv, CloseRow \/ \E a : Expire(a) PROVE IInv'
<1>1. CASE CloseRow
  BY <1>1, KeptClosing, Facts DEF CloseRow
<1>2. CASE \E a : Expire(a)
  <2>1. UNCHANGED <<row, named, phone, op, twins>> /\ spent' \subseteq spent
    BY <1>2 DEF Expire
  <2> QED
    BY <2>1, KeptBy, Facts
<1> QED
  BY <1>1, <1>2

LEMMA StepKeeps == ASSUME IInv, [Next]_vars PROVE IInv'
<1>1. ASSUME NEW c \in Clients, NEW i \in Slots, Send(c, i) \/ Flush(c, i) \/ Retract(c, i)
      PROVE  IInv'
  BY <1>1, AskKeeps
<1>2. ASSUME NEW c \in Clients, Save(c) \/ TimeOut(c) \/ Done(c) \/ GiveUp(c) \/ Enqueue(c)
      PROVE  IInv'
  BY <1>2, PhoneKeeps, TimeOutKeeps
<1>3. ASSUME NEW i \in Slots, Handle(i) \/ Lose(i) PROVE IInv'
  <2>1. CASE Lookup(i)
    BY <2>1, LookupKeeps
  <2>2. CASE Consume(i)
    BY <2>2, ConsumeKeeps
  <2>3. CASE Refuse(i) \/ CreateFull(i) \/ Lose(i)
    BY <2>3, FailedKeeps DEF Refuse, CreateFull, Lose
  <2>4. CASE Create(i)
    BY <2>4, CreateKeeps
  <2>5. CASE Answered(i)
    BY <2>5, AnsweredKeeps
  <2>6. CASE Load(i)
    BY <2>6, LoadKeeps
  <2>7. CASE Commit(i)
    BY <2>7, CommitKeeps
  <2> QED
    BY <1>3, <2>1, <2>2, <2>3, <2>4, <2>5, <2>6, <2>7 DEF Handle
<1>4. CASE CloseRow \/ (\E a : Expire(a)) \/ \E r \in Rows : Reopen(r)
  BY <1>4, WorldKeeps, ReopenKeeps
<1>5. CASE UNCHANGED vars
  BY <1>5, KeptBy, Facts DEF vars
<1> QED
  BY <1>1, <1>2, <1>3, <1>4, <1>5 DEF Next

LEMMA Invariant == Spec => []IInv
<1>1. Init => IInv
  <2> SUFFICES ASSUME Init PROVE IInv
    OBVIOUS
  <2>1. TypeOK
    BY Constants DEF Init, TypeOK, RowStates
  <2>2. \A c : Own(c) = {}
    BY DEF Init, Own, Active
  <2>3. ClearToCreate /\ OneSosPerUser /\ NamedLate
    BY <2>2, Constants DEF Init, ClearToCreate, OneSosPerUser, NamedLate
  <2> QED
    BY <2>1, <2>3 DEF IInv
<1>2. IInv /\ [Next]_vars => IInv'
  BY StepKeeps
<1> QED
  BY <1>1, <1>2, PTL DEF Spec

-----------------------------------------------------------------------------
(* The rows, the phones, the points of the rate limit and every request in    *)
(* flight stay well typed.                                                    *)
THEOREM TypeCorrect == Spec => []TypeOK
BY Invariant, PTL DEF IInv

(* Nobody has two active SOS under their name however requests, retries,      *)
(* timeouts, retractions, failures and requests served as anonymous           *)
(* interleave, for any number of people and of requests in flight, but for    *)
(* rows stored past the same dedup and rows reopened.                         *)
THEOREM OneSos == Spec => []OneSosPerUser
BY Invariant, PTL DEF IInv

-----------------------------------------------------------------------------
(* What a screen shows as sent, and the retractions under way.               *)

(* The row somebody is answered with is their own or came from their address.*)
Reaches(c, r) == Author(r) = c \/ Ip[Author(r)] = Ip[c]
Within ==
    /\ \A i \in Slots : \A r \in op[i].row : Reaches(op[i].by, r)
    /\ \A c \in Clients : \A r \in phone[c].row : Reaches(c, r)

(* No retraction is under way, uncrossed, of a row that a phone keeps or that *)
(* a screen waits for.                                                        *)
WillShow(c, r) ==
    \/ r \in phone[c].row
    \/ \E i \in Slots : op[i].by = c /\ op[i].to = "screen" /\ r \in op[i].row
Uncrossed(i, r) == op[i].pc \in {"load", "commit"} /\ ~op[i].crossed /\ r \in op[i].row
NotRetracted ==
    \A i \in Slots : \A c \in Clients : \A r \in Rows :
        OwnLine(c) /\ Uncrossed(i, r) => ~WillShow(c, r)

ScreenInv == TypeOK /\ Within /\ NotRetracted

\* How a request may change without a row coming to be waited for.
CallMay(old, new) ==
    \/ new.row = {}
    \/ /\ new.row = old.row /\ new.by = old.by
       /\ new.to = "screen" => old.to = "screen"
       /\ new.pc \in {"load", "commit"} => old.pc \in {"load", "commit"}
       /\ ~new.crossed => ~old.crossed

LEMMA ScreenFacts ==
    ASSUME ScreenInv
    PROVE  /\ TypeOK /\ op \in [Slots -> OpStates] /\ phone \in [Clients -> PhoneStates]
           /\ \A i \in Slots : op[i].row \subseteq Rows /\ op[i].by \in Clients
           /\ \A c \in Clients : phone[c].row \subseteq Rows
           /\ \A i \in Slots : CallMay(op[i], op[i])
<1>1. TypeOK
  BY DEF ScreenInv
<1> QED
  BY <1>1 DEF TypeOK, OpStates, PhoneStates, CallMay

\* A step by which a phone shows no more than it would have.
LEMMA ScreensKept ==
    ASSUME ScreenInv, TypeOK', \A i \in Slots : CallMay(op[i], op'[i]),
           \A c \in Clients : \A r \in phone'[c].row : WillShow(c, r)
    PROVE  ScreenInv'
<1>1. Within'
  <2>1. ASSUME NEW i \in Slots, NEW r \in op'[i].row PROVE Reaches(op'[i].by, r)
    <3>1. op'[i].row = op[i].row /\ op'[i].by = op[i].by
      BY <2>1 DEF CallMay
    <3> QED
      BY <2>1, <3>1 DEF ScreenInv, Within
  <2>2. ASSUME NEW c \in Clients, NEW r \in phone'[c].row PROVE Reaches(c, r)
    BY <2>2 DEF ScreenInv, Within, WillShow
  <2> QED
    BY <2>1, <2>2 DEF Within, Reaches
<1>2. ASSUME NEW i \in Slots, NEW c \in Clients, NEW r \in Rows, OwnLine(c), Uncrossed(i, r)',
             WillShow(c, r)'
      PROVE  FALSE
  <2>1. Uncrossed(i, r)
    BY <1>2 DEF Uncrossed, CallMay
  <2>2. WillShow(c, r)
    <3>1. CASE r \in phone'[c].row
      BY <3>1
    <3>2. CASE \E j \in Slots : op'[j].by = c /\ op'[j].to = "screen" /\ r \in op'[j].row
      <4>1. PICK j \in Slots : op'[j].by = c /\ op'[j].to = "screen" /\ r \in op'[j].row
        BY <3>2
      <4>2. op[j].by = c /\ op[j].to = "screen" /\ r \in op[j].row
        BY <4>1 DEF CallMay
      <4> QED
        BY <4>2 DEF WillShow
    <3> QED
      BY <1>2, <3>1, <3>2 DEF WillShow
  <2> QED
    BY <1>2, <2>1, <2>2 DEF ScreenInv, NotRetracted
<1>3. NotRetracted'
  BY <1>2 DEF NotRetracted, OwnLine
<1> QED
  BY <1>1, <1>3 DEF ScreenInv

\* One request changed, and the phones show what they showed or less.
LEMMA ScreensOf ==
    ASSUME ScreenInv, TypeOK', NEW i \in Slots, NEW next,
           op' = [op EXCEPT ![i] = next], CallMay(op[i], next),
           \A c \in Clients : phone'[c].row \subseteq phone[c].row
    PROVE  ScreenInv'
<1>1. \A j \in Slots : op'[j] = IF j = i THEN next ELSE op[j]
  BY ScreenFacts
<1>2. \A j \in Slots : CallMay(op[j], op'[j])
  BY <1>1, ScreenFacts
<1>3. \A c \in Clients : \A r \in phone'[c].row : WillShow(c, r)
  BY DEF WillShow
<1> QED
  BY <1>2, <1>3, ScreensKept

LEMMA PhoneScreens ==
    ASSUME ScreenInv, TypeOK', NEW c \in Clients,
           Save(c) \/ Done(c) \/ GiveUp(c) \/ Enqueue(c)
    PROVE  ScreenInv'
<1>1. op' = op
  BY DEF Save, Done, GiveUp, Enqueue
<1>2. \A d \in Clients : phone'[d].row \subseteq phone[d].row
  <2>1. CASE Save(c)
    BY <2>1, ScreenFacts DEF Save, PhoneStates
  <2>2. CASE Done(c) \/ GiveUp(c)
    BY <2>2, DismissedTyped, ScreenFacts DEF Done, GiveUp
  <2>3. CASE Enqueue(c)
    <3> DEFINE next == [Quiet EXCEPT !.saved = TRUE]
    <3>1. next.row = {}
      BY Constants DEF PhoneStates
    <3>2. phone' = [phone EXCEPT ![c] = next]
      BY <2>3 DEF Enqueue
    <3> HIDE DEF next
    <3> QED
      BY <3>1, <3>2, ScreenFacts
  <2> QED
    BY <2>1, <2>2, <2>3
<1>3. \A d \in Clients : \A r \in phone'[d].row : WillShow(d, r)
  BY <1>2 DEF WillShow
<1> QED
  BY <1>1, <1>3, ScreensKept, ScreenFacts

LEMMA TimeOutScreens ==
    ASSUME ScreenInv, TypeOK', NEW c \in Clients, TimeOut(c) PROVE ScreenInv'
<1>1. PICK i \in Slots : op' = [op EXCEPT ![i] = IF @.pc = "stored" THEN Free
                                                 ELSE [@ EXCEPT !.to = "nobody"]]
  BY DEF TimeOut
<1> DEFINE next == IF op[i].pc = "stored" THEN Free ELSE [op[i] EXCEPT !.to = "nobody"]
<1>2. op' = [op EXCEPT ![i] = next]
  BY <1>1, ScreenFacts
<1>3. CallMay(op[i], next)
  BY Constants, ScreenFacts DEF CallMay, OpStates
<1> HIDE DEF next
<1>4. \A d \in Clients : phone'[d].row \subseteq phone[d].row
  BY ScreenFacts DEF TimeOut, PhoneStates
<1> QED
  BY <1>2, <1>3, <1>4, ScreensOf

LEMMA AskScreens ==
    ASSUME ScreenInv, TypeOK', NEW c \in Clients, NEW i \in Slots, Send(c, i) \/ Flush(c, i)
    PROVE  ScreenInv'
<1>1. PICK next : next.row = {} /\ op' = [op EXCEPT ![i] = next]
  <2>1. CASE Send(c, i)
    BY <2>1, Begun, ScreenFacts DEF Send, Asks
  <2>2. CASE Flush(c, i)
    BY <2>2, Begun, ScreenFacts DEF Flush, Asks
  <2> QED
    BY <2>1, <2>2
<1>2. \A d \in Clients : phone'[d].row \subseteq phone[d].row
  BY ScreenFacts DEF Send, Flush, PhoneStates
<1> QED
  BY <1>1, <1>2, ScreensOf DEF CallMay

\* Who is alone on a line and keeps a row has it to themselves.
LEMMA OneReaches ==
    ASSUME NEW c \in Clients, NEW d \in Clients, NEW r \in Rows, OwnLine(c),
           Reaches(c, r), Reaches(d, r)
    PROVE  c = d
<1>1. Author(r) = c
  BY Constants DEF OwnLine, Reaches
<1> QED
  BY <1>1 DEF OwnLine, Reaches

LEMMA RetractScreens ==
    ASSUME ScreenInv, TypeOK', NEW c \in Clients, NEW i \in Slots, Retract(c, i)
    PROVE  ScreenInv'
<1> DEFINE next == Retracts(c)
<1>1. \A j \in Slots : op'[j] = IF j = i THEN next ELSE op[j]
  BY ScreenFacts DEF Retract, Retraction, Retracts
<1>2. /\ next.by = c /\ next.row = phone[c].row /\ next.to = "nobody"
      /\ ~next.crossed => \A j \in Slots : op[j].to = "screen" =>
                              \A r \in op[j].row : r \notin phone[c].row
  BY Begun, ScreenFacts
<1>3. \A d \in Clients : phone'[d].row = IF d = c THEN {} ELSE phone[d].row
  BY DismissedTyped, ScreenFacts DEF Retract
<1> HIDE DEF next
<1>4. Within'
  BY <1>1, <1>2, <1>3 DEF ScreenInv, Within, Reaches
<1>5. ASSUME NEW d \in Clients, NEW r \in Rows, WillShow(d, r)'
      PROVE  \/ d # c /\ r \in phone[d].row
             \/ \E j \in Slots : op[j].by = d /\ op[j].to = "screen" /\ r \in op[j].row
  BY <1>1, <1>2, <1>3, <1>5 DEF WillShow
<1>6. ASSUME NEW j \in Slots, NEW d \in Clients, NEW r \in Rows, OwnLine(d), Uncrossed(j, r)',
             WillShow(d, r)'
      PROVE  FALSE
  <2>1. CASE j # i
    <3>1. Uncrossed(j, r)
      BY <1>1, <1>6, <2>1 DEF Uncrossed
    <3>2. WillShow(d, r)
      BY <1>5, <1>6 DEF WillShow
    <3> QED
      BY <1>6, <3>1, <3>2 DEF ScreenInv, NotRetracted
  <2>2. CASE j = i
    <3>1. ~next.crossed /\ r \in phone[c].row
      BY <1>1, <1>2, <1>6, <2>2 DEF Uncrossed
    <3>2. d # c /\ r \in phone[d].row
      BY <1>2, <1>5, <1>6, <3>1
    <3>3. Reaches(c, r) /\ Reaches(d, r)
      BY <3>1, <3>2 DEF ScreenInv, Within
    <3> QED
      BY <1>6, <3>2, <3>3, OneReaches
  <2> QED
    BY <2>1, <2>2
<1>7. NotRetracted'
  BY <1>6 DEF NotRetracted, OwnLine
<1> QED
  BY <1>4, <1>7 DEF ScreenInv

\* A request is answered with a row within the reach of its sender.
LEMMA FoundScreens ==
    ASSUME ScreenInv, TypeOK', NEW i \in Slots, NEW r \in Rows, Found(i, r),
           Reaches(op[i].by, r), phone' = phone
    PROVE  ScreenInv'
<1>1. /\ op'[i].pc \in {"idle", "stored"}
      /\ \/ op'[i].row = {}
         \/ op'[i].row = {r} /\ op'[i].by = op[i].by /\ op'[i].to = op[i].to
      /\ \A j \in Slots \ {i} :
            /\ op'[j].pc = op[j].pc /\ op'[j].by = op[j].by /\ op'[j].row = op[j].row
            /\ op'[j].to = op[j].to
            /\ ~op'[j].crossed => /\ ~op[j].crossed
                                  /\ ~(/\ op[j].pc \in {"load", "commit"}
                                       /\ r \in op[j].row /\ op[i].to = "screen")
  BY FoundCalls, Constants, ScreenFacts
<1>2. Within'
  <2>1. ASSUME NEW j \in Slots, NEW s \in op'[j].row PROVE Reaches(op'[j].by, s)
    BY <1>1, <2>1 DEF ScreenInv, Within
  <2> QED
    BY <2>1 DEF ScreenInv, Within, Reaches
<1>3. ASSUME NEW j \in Slots, NEW c \in Clients, NEW s \in Rows, OwnLine(c), Uncrossed(j, s)',
             WillShow(c, s)'
      PROVE  FALSE
  <2>1. j # i /\ Uncrossed(j, s) /\ ~(s = r /\ op[i].to = "screen")
    BY <1>1, <1>3 DEF Uncrossed
  <2>2. ~WillShow(c, s)
    BY <1>3, <2>1 DEF ScreenInv, NotRetracted
  <2>3. PICK k \in Slots : op'[k].by = c /\ op'[k].to = "screen" /\ s \in op'[k].row
    BY <1>3, <2>2 DEF WillShow
  <2>4. k = i
    BY <1>1, <2>2, <2>3 DEF WillShow
  <2> QED
    BY <1>1, <2>1, <2>3, <2>4
<1>4. NotRetracted'
  BY <1>3 DEF NotRetracted, OwnLine
<1> QED
  BY <1>2, <1>4 DEF ScreenInv

LEMMA LookupScreens ==
    ASSUME ScreenInv, TypeOK', NEW i \in Slots, Lookup(i) PROVE ScreenInv'
<1>1. phone' = phone
  BY DEF Lookup
<1>2. CASE \E r \in Own(op[i].by) \union Nearby(op[i].by) : Found(i, r)
  <2>1. PICK r \in Own(op[i].by) \union Nearby(op[i].by) : Found(i, r)
    BY <1>2
  <2>2. r \in Rows /\ Reaches(op[i].by, r)
    BY DEF Own, Active, Nearby, Reaches
  <2> QED
    BY <1>1, <2>1, <2>2, FoundScreens
<1>3. CASE op' = [op EXCEPT ![i].named = TRUE, ![i].pc = "create"]
  <2> DEFINE next == [op[i] EXCEPT !.named = TRUE, !.pc = "create"]
  <2>1. op' = [op EXCEPT ![i] = next]
    BY <1>3
  <2>2. CallMay(op[i], next)
    BY ScreenFacts DEF CallMay, OpStates
  <2> HIDE DEF next
  <2> QED
    BY <1>1, <2>1, <2>2, ScreensOf
<1>4. CASE To(i, "limit")
  <2> DEFINE next == [op[i] EXCEPT !.pc = "limit"]
  <2>1. op' = [op EXCEPT ![i] = next]
    BY <1>4 DEF To
  <2>2. CallMay(op[i], next)
    BY ScreenFacts DEF CallMay, OpStates
  <2> HIDE DEF next
  <2> QED
    BY <1>1, <2>1, <2>2, ScreensOf
<1> QED
  BY <1>2, <1>3, <1>4 DEF Lookup, LookupOwn, LookupNear

LEMMA CreateScreens ==
    ASSUME ScreenInv, TypeOK', NEW i \in Slots, Create(i) PROVE ScreenInv'
<1>1. PICK r \in Rows : Author(r) = op[i].by /\ Found(i, r)
  BY DEF Create
<1>2. phone' = phone
  BY DEF Create
<1> QED
  BY <1>1, <1>2, FoundScreens DEF Reaches

\* A request moves on or ends.
LEMMA MovesScreens ==
    ASSUME ScreenInv, TypeOK', NEW i \in Slots,
           Consume(i) \/ Failed(i) \/ Load(i) \/ Commit(i)
    PROVE  ScreenInv'
<1>1. \A c \in Clients : phone'[c].row \subseteq phone[c].row
  <2>1. CASE Failed(i)
    <3>1. op[i].by \in Clients /\ op[i].to \in {"screen", "outbox", "nobody"}
      BY ScreenFacts DEF OpStates
    <3>2. CASE op[i].to = "screen"
      BY <2>1, <3>1, <3>2, ScreenFacts DEF Failed, PhoneStates
    <3>3. CASE op[i].to = "outbox"
      <4>1. PICK kept \in BOOLEAN : phone' = [phone EXCEPT ![op[i].by].saved = kept]
        BY <2>1, <3>3 DEF Failed
      <4> QED
        BY <3>1, <4>1, ScreenFacts DEF PhoneStates
    <3>4. CASE op[i].to = "nobody"
      BY <2>1, <3>4 DEF Failed
    <3> QED
      BY <3>1, <3>2, <3>3, <3>4
  <2>2. CASE Consume(i) \/ Load(i) \/ Commit(i)
    BY <2>2 DEF Consume, Load, Commit
  <2> QED
    BY <2>1, <2>2
<1>2. CASE op' = [op EXCEPT ![i] = Free]
  BY <1>1, <1>2, Constants, ScreensOf DEF CallMay
<1>3. CASE \E pc \in {"create", "commit"} : /\ To(i, pc)
                                            /\ pc = "commit" => op[i].pc = "load"
  <2>1. PICK pc \in {"create", "commit"} : To(i, pc) /\ (pc = "commit" => op[i].pc = "load")
    BY <1>3
  <2> DEFINE next == [op[i] EXCEPT !.pc = pc]
  <2>2. op' = [op EXCEPT ![i] = next]
    BY <2>1 DEF To
  <2>3. CallMay(op[i], next)
    BY <2>1, ScreenFacts DEF CallMay, OpStates
  <2> HIDE DEF next
  <2> QED
    BY <1>1, <2>2, <2>3, ScreensOf
<1> QED
  BY <1>2, <1>3 DEF Consume, Failed, Load, Commit

\* What a phone comes to show was in the answer.
LEMMA AnsweredScreens ==
    ASSUME ScreenInv, TypeOK', NEW i \in Slots, Answered(i) PROVE ScreenInv'
<1>1. \A j \in Slots : op'[j] = IF j = i THEN Free ELSE op[j]
  BY ScreenFacts DEF Answered
<1>2. \A j \in Slots : CallMay(op[j], op'[j])
  BY <1>1, Constants, ScreenFacts DEF CallMay
<1> DEFINE c == op[i].by
<1>3. c \in Clients /\ op[i].to \in {"screen", "outbox", "nobody"}
  BY ScreenFacts DEF OpStates
<1>4. /\ \A d \in Clients : d # c => phone'[d].row = phone[d].row
      /\ phone'[c].row = IF op[i].to = "screen" THEN op[i].row ELSE phone[c].row
  <2>1. CASE op[i].to = "screen"
    BY <1>3, <2>1, ScreenFacts DEF Answered, PhoneStates
  <2>2. CASE op[i].to = "outbox"
    BY <1>3, <2>2, ScreenFacts DEF Answered, PhoneStates
  <2>3. CASE op[i].to = "nobody"
    BY <1>3, <2>3, ScreenFacts DEF Answered
  <2> QED
    BY <1>3, <2>1, <2>2, <2>3
<1>5. \A d \in Clients : \A r \in phone'[d].row : WillShow(d, r)
  BY <1>3, <1>4 DEF WillShow
<1> QED
  BY <1>2, <1>5, ScreensKept

LEMMA StepScreens == ASSUME ScreenInv, TypeOK', [Next]_vars PROVE ScreenInv'
<1>1. ASSUME NEW c \in Clients, NEW i \in Slots, Send(c, i) \/ Flush(c, i) \/ Retract(c, i)
      PROVE  ScreenInv'
  BY <1>1, AskScreens, RetractScreens
<1>2. ASSUME NEW c \in Clients, Save(c) \/ TimeOut(c) \/ Done(c) \/ GiveUp(c) \/ Enqueue(c)
      PROVE  ScreenInv'
  BY <1>2, PhoneScreens, TimeOutScreens
<1>3. ASSUME NEW i \in Slots, Handle(i) \/ Lose(i) PROVE ScreenInv'
  <2>1. CASE Lookup(i) \/ Create(i) \/ Answered(i)
    BY <2>1, LookupScreens, CreateScreens, AnsweredScreens
  <2>2. CASE Refuse(i) \/ CreateFull(i) \/ Lose(i)
    BY <2>2, MovesScreens DEF Refuse, CreateFull, Lose
  <2>3. CASE Consume(i) \/ Load(i) \/ Commit(i)
    BY <2>3, MovesScreens
  <2> QED
    BY <1>3, <2>1, <2>2, <2>3 DEF Handle
<1>4. CASE \/ CloseRow \/ (\E a : Expire(a)) \/ (\E r \in Rows : Reopen(r))
           \/ UNCHANGED vars
  <2>1. op' = op /\ phone' = phone
    BY <1>4 DEF CloseRow, Expire, Reopen, vars
  <2> QED
    BY <2>1, ScreensKept, ScreenFacts DEF WillShow
<1> QED
  BY <1>1, <1>2, <1>3, <1>4 DEF Next

LEMMA ScreensAlways == Spec => []ScreenInv
<1>1. Init /\ TypeOK => ScreenInv
  BY Constants DEF Init, ScreenInv, Within, NotRetracted, Uncrossed
<1>2. ScreenInv /\ TypeOK' /\ [Next]_vars => ScreenInv'
  BY StepScreens
<1> QED
  BY <1>1, <1>2, TypeCorrect, PTL DEF Spec

(* A retraction never closes the SOS that a screen shows as sent, for any     *)
(* number of people, rows and requests in flight: where an address is not     *)
(* shared one person only is answered with a row, their overlay closes as the *)
(* retraction begins, and a press that is answered with the row meanwhile, or *)
(* an earlier one that is answered late, has crossed it (SOSButton.tsx:456,   *)
(* 585, helpRequests.ts:539).                                                 *)
THEOREM ShownIsActive == Spec => ShownSosIsActive
<1>1. ASSUME ScreenInv, NEW i \in Slots, NEW r \in op[i].row, op[i].pc = "commit",
             ~op[i].crossed, NEW c \in Clients, OwnLine(c), Shows(c, r)
      PROVE  FALSE
  <2>1. r \in Rows /\ Uncrossed(i, r)
    BY <1>1, ScreenFacts DEF Uncrossed
  <2>2. WillShow(c, r)
    BY <1>1 DEF Shows, WillShow
  <2> QED
    BY <1>1, <2>1, <2>2 DEF ScreenInv, NotRetracted
<1>2. ScreenInv /\ [Next]_vars =>
        [\A i \in Slots : \A r \in op[i].row :
            op[i].pc = "commit" /\ ~op[i].crossed /\ op'[i].pc = "idle" /\ row'[r] # row[r]
            => \A c \in Clients : OwnLine(c) => ~Shows(c, r)]_vars
  BY <1>1
<1> QED
  BY <1>2, ScreensAlways, PTL DEF Spec, ShownSosIsActive

=============================================================================
