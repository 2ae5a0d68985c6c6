---------------------------- MODULE SessionsProofs ----------------------------
(* The revocation window of the sessions, for any number of calls in flight, *)
(* any life of the cache entry and any delay of its writes.                  *)
(*                                                                           *)
(* What makes the window hold is a relation between three clocks: the age of *)
(* a version under way to Redis, the remaining life of the entry, and how    *)
(* long ago the row left that version.  A write is at least as old as the    *)
(* version it carries is superseded (SoundWrite), so an entry that is stale  *)
(* ends before the window of its version does (SoundEntry); and the versions *)
(* are superseded in their order (PastOrdered).                              *)
EXTENDS Sessions, TLAPS

SoundWrite(w, v, p) == w.on => w.value <= v /\ (w.value < v => p[w.value] <= w.age)

SoundCall(call, v, p) ==
    /\ call.tok.version <= v
    /\ SoundWrite(call.prime, v, p) /\ SoundWrite(call.bump, v, p)
    /\ call.pc = "publish" => call.bump.on

SoundEntry(entry, v, p) ==
    /\ entry.value <= v
    /\ entry.ttl > 0 /\ entry.value < v => p[entry.value] + entry.ttl <= Window

PastOrdered ==
    /\ \A v \in Versions : v >= version => past[v] = 0
    /\ \A u, v \in Versions : u <= v => past[u] >= past[v]

IInv ==
    /\ TypeOK
    /\ \A tok \in minted : tok.version <= version
    /\ \A s \in Slots : SoundCall(op[s], version, past)
    /\ SoundEntry(cache, version, past)
    /\ PastOrdered

\* A token of the current version, held, to be signed or signed, carries the
\* role of the row.
RolesAgree ==
    ~strayed =>
      /\ \A tok \in minted : tok.version = version => tok.role = role
      /\ \A s \in Slots : op[s].tok.version = version => op[s].tok.role = role
      /\ version = 0 => role = "resident"

USE SessionsAssumption

LEMMA BlankTyped == Blank \in Calls /\ Nothing \in Writes /\ NoEntry \in [value : Versions, ttl : 0 .. TTL]
BY DEF Blank, Calls, Nothing, Writes, NoEntry, Steps, Tokens, Versions, Roles

LEMMA BlankSound == \A v \in Versions : \A p : SoundCall(Blank, v, p)
BY DEF SoundCall, SoundWrite, Blank, Nothing, Versions

\* What is sound stays so when the row goes to its next version.
LEMMA StillSound ==
    ASSUME TypeOK, PastOrdered, version' \in {version, version + 1}, past' = past,
           NEW call \in Calls, SoundCall(call, version, past)
    PROVE  SoundCall(call, version', past')
<1>1. version \in Nat /\ past \in [Versions -> 0 .. Window]
  BY DEF TypeOK, Versions
<1>2. ASSUME NEW w \in Writes, SoundWrite(w, version, past)
      PROVE  SoundWrite(w, version', past')
  <2>1. w.value \in Versions /\ w.value \in Nat /\ w.age \in Nat
    BY DEF Writes, Versions
  <2>2. w.on => w.value <= version /\ (w.value < version => past[w.value] <= w.age)
    BY <1>2 DEF SoundWrite
  <2>3. w.value = version => past[w.value] = 0
    BY <1>1, <2>1 DEF PastOrdered
  <2> QED
    BY <1>1, <2>1, <2>2, <2>3 DEF SoundWrite
<1>3. call.prime \in Writes /\ call.bump \in Writes /\ call.tok.version \in Nat
  BY DEF Calls, Tokens, Versions
<1> QED
  BY <1>1, <1>2, <1>3 DEF SoundCall

\* One call in another state of its own.
LEMMA CallReplaced ==
    ASSUME TypeOK, NEW s \in Slots, NEW call \in Calls, op' = [op EXCEPT ![s] = call],
           SoundCall(call, version', past')
    PROVE  /\ op' \in [Slots -> Calls]
           /\ \A t \in Slots : op'[t] = op[t] \/ SoundCall(op'[t], version', past')
BY DEF TypeOK

\* A step that ages nothing keeps the invariant, if what it writes is sound.
LEMMA Kept ==
    ASSUME IInv, op' \in [Slots -> Calls],
           \A t \in Slots : op'[t] = op[t] \/ SoundCall(op'[t], version', past'),
           version' \in Versions, version' \in {version, version + 1}, role' \in Roles,
           minted' \subseteq Tokens, \A tok \in minted' : tok.version <= version',
           past' = past, strayed' \in BOOLEAN,
           cache' = cache \/ \E w \in Writes : w.on /\ SoundWrite(w, version, past)
                                               /\ cache' = Stored(w.value)
    PROVE  IInv'
<1>1. TypeOK /\ PastOrdered /\ SoundEntry(cache, version, past)
  BY DEF IInv
<1>2. version \in Nat /\ past \in [Versions -> 0 .. Window] /\ Window \in Nat
      /\ cache \in [value : Versions, ttl : 0 .. TTL]
  BY <1>1 DEF TypeOK, Versions, Window
<1>3. cache' \in [value : Versions, ttl : 0 .. TTL]
  BY <1>2 DEF Stored, Writes
<1>4. TypeOK'
  BY <1>1, <1>3 DEF TypeOK
<1>5. ASSUME NEW t \in Slots PROVE SoundCall(op'[t], version', past')
  <2>1. op[t] \in Calls /\ SoundCall(op[t], version, past)
    BY <1>1 DEF IInv, TypeOK
  <2> QED
    BY <1>1, <2>1, StillSound
<1>6. SoundEntry(cache, version, past)'
  <2>1. CASE cache' = cache
    <3>1. cache.value \in Versions /\ cache.value \in Nat /\ cache.ttl \in 0 .. TTL
      BY <1>2 DEF Versions
    <3>2. cache.value = version => past[cache.value] = 0
      BY <1>1, <1>2, <3>1 DEF PastOrdered
    <3> QED
      BY <1>1, <1>2, <2>1, <3>1, <3>2 DEF SoundEntry, Window
  <2>2. ASSUME NEW w \in Writes, w.on, SoundWrite(w, version, past), cache' = Stored(w.value)
        PROVE  SoundEntry(cache, version, past)'
    <3>1. w.value \in Versions /\ w.value \in Nat /\ w.age \in 0 .. MaxDelay
      BY DEF Writes, Versions
    <3>2. w.value = version => past[w.value] = 0
      BY <1>1, <1>2, <3>1 DEF PastOrdered
    <3>3. w.value <= version /\ (w.value < version => past[w.value] <= w.age)
      BY <2>2 DEF SoundWrite
    <3>4. cache'.value = w.value /\ cache'.ttl = TTL
      BY <2>2 DEF Stored
    <3>5. past[w.value] \in Nat
      BY <1>2, <3>1
    <3> QED
      BY <1>2, <3>1, <3>2, <3>3, <3>4, <3>5 DEF SoundEntry, Window
  <2> QED
    BY <2>1, <2>2
<1>7. PastOrdered'
  BY <1>1, <1>2 DEF PastOrdered, Versions
<1> QED
  BY <1>4, <1>5, <1>6, <1>7 DEF IInv

\* What the invariant says of one call.
LEMMA CallFacts ==
    ASSUME IInv, NEW s \in Slots
    PROVE  /\ op[s] \in Calls /\ SoundCall(op[s], version, past)
           /\ op[s].tok \in Tokens /\ op[s].tok.version <= version
           /\ op[s].prime \in Writes /\ SoundWrite(op[s].prime, version, past)
           /\ op[s].bump \in Writes /\ SoundWrite(op[s].bump, version, past)
<1>1. op[s] \in Calls /\ SoundCall(op[s], version, past)
  BY DEF IInv, TypeOK
<1> QED
  BY <1>1 DEF Calls, SoundCall

LEMMA Facts ==
    ASSUME IInv
    PROVE  /\ TypeOK /\ PastOrdered
           /\ version \in Versions /\ version \in Nat /\ role \in Roles
           /\ minted \subseteq Tokens /\ strayed \in BOOLEAN
           /\ \A tok \in minted : tok.version <= version
           /\ CurrentToken \in Tokens /\ CurrentToken.version = version
           /\ CurrentToken.role = role
BY DEF IInv, TypeOK, Versions, CurrentToken, Tokens

-----------------------------------------------------------------------------
\* The actions.

LEMMA FinishKeeps ==
    ASSUME IInv, NEW s \in Slots, Finish(s), version' = version, role' \in Roles,
           minted' \subseteq Tokens, \A tok \in minted' : tok.version <= version,
           cache' = cache, past' = past, strayed' \in BOOLEAN
    PROVE  IInv'
<1> DEFINE next == Done(s)
<1>1. op' = [op EXCEPT ![s] = next]
  BY DEF Finish
<1>2. next \in Calls /\ next.tok = Blank.tok /\ next.bump = Nothing /\ next.prime = op[s].prime
      /\ next.pc = "idle"
  BY CallFacts, BlankTyped DEF Done, Calls, Blank
<1>3. SoundCall(next, version, past)
  BY <1>2, CallFacts, BlankSound, Facts DEF SoundCall, Blank
<1> HIDE DEF next
<1>4. op' \in [Slots -> Calls]
      /\ \A t \in Slots : op'[t] = op[t] \/ SoundCall(op'[t], version', past')
  BY <1>1, <1>2, <1>3, CallReplaced, Facts
<1> QED
  BY <1>4, Kept, Facts

LEMMA AdmitKeeps ==
    ASSUME IInv, NEW s \in Slots, NEW current, NEW prime \in Writes, Admit(s, current, prime),
           SoundWrite(prime, version, past), UNCHANGED <<row, cache, minted, past, strayed>>
    PROVE  IInv'
<1>0. UNCHANGED <<version, role>>
  BY DEF row
<1>1. PICK kind \in Authenticated, tok \in minted, want \in Roles :
        op' = [op EXCEPT ![s] = IF IsCurrent(tok, current)
                 THEN [Blank EXCEPT !.pc = FirstStep(kind), !.tok = tok,
                                    !.want = want, !.prime = prime]
                 ELSE [Blank EXCEPT !.prime = prime]]
  BY Zenon DEF Admit
<1> DEFINE next == IF IsCurrent(tok, current)
                 THEN [Blank EXCEPT !.pc = FirstStep(kind), !.tok = tok,
                                    !.want = want, !.prime = prime]
                 ELSE [Blank EXCEPT !.prime = prime]
<1>2. FirstStep(kind) \in Steps
  BY DEF FirstStep, Steps, Authenticated, AllKinds
<1>9. FirstStep(kind) # "publish"
  BY DEF FirstStep, Authenticated, AllKinds
<1>3. tok \in Tokens /\ tok.version <= version
  BY Facts
<1>4. next \in Calls /\ next.tok \in {tok, Blank.tok} /\ next.bump = Nothing /\ next.prime = prime
      /\ next.pc # "publish"
  BY <1>2, <1>3, <1>9, BlankTyped DEF Calls, Blank
<1>5. SoundCall(next, version, past)
  BY <1>3, <1>4, BlankSound, Facts DEF SoundCall, Blank
<1>6. op' = [op EXCEPT ![s] = next]
  BY <1>1
<1> HIDE DEF next
<1>7. op' \in [Slots -> Calls]
      /\ \A t \in Slots : op'[t] = op[t] \/ SoundCall(op'[t], version', past')
  BY <1>0, <1>4, <1>5, <1>6, CallReplaced, Facts
<1> QED
  BY <1>0, <1>7, Kept, Facts

LEMMA LookupKeeps ==
    ASSUME IInv, NEW s \in Slots, LookupHit(s) \/ LookupMiss(s)
    PROVE  IInv'
<1>1. Nothing \in Writes /\ SoundWrite(Nothing, version, past)
  BY BlankTyped DEF SoundWrite, Nothing
<1>2. Write(version) \in Writes /\ SoundWrite(Write(version), version, past)
  BY Facts DEF Write, Writes, SoundWrite
<1>3. CASE LookupHit(s)
  BY <1>1, <1>3, AdmitKeeps DEF LookupHit
<1>4. CASE LookupMiss(s)
  BY <1>2, <1>4, AdmitKeeps DEF LookupMiss
<1> QED
  BY <1>3, <1>4

LEMMA PrimeKeeps ==
    ASSUME IInv, NEW s \in Slots, Prime(s) \/ LosePrime(s)
    PROVE  IInv'
<1>1. op[s].prime.on /\ UNCHANGED <<version, role, minted, past, strayed>>
  BY DEF Prime, LosePrime, row
<1> DEFINE next == [op[s] EXCEPT !.prime = Nothing]
<1>2. op' = [op EXCEPT ![s] = next]
  BY DEF Prime, LosePrime
<1>3. next \in Calls /\ next.tok = op[s].tok /\ next.bump = op[s].bump /\ next.prime = Nothing
      /\ next.pc = op[s].pc
  BY CallFacts, BlankTyped DEF Calls
<1>4. SoundCall(next, version, past)
  BY <1>3, CallFacts DEF SoundCall, SoundWrite, Nothing
<1> HIDE DEF next
<1>5. op' \in [Slots -> Calls]
      /\ \A t \in Slots : op'[t] = op[t] \/ SoundCall(op'[t], version', past')
  BY <1>1, <1>2, <1>3, <1>4, CallReplaced, Facts
<1>6. cache' = cache \/ cache' = Stored(op[s].prime.value)
  BY DEF Prime, LosePrime
<1>7. cache' = cache \/ \E w \in Writes : w.on /\ SoundWrite(w, version, past)
                                          /\ cache' = Stored(w.value)
  BY <1>1, <1>6, CallFacts
<1> QED
  BY <1>1, <1>5, <1>7, Kept, Facts

LEMMA MeKeeps == ASSUME IInv, NEW s \in Slots, Me(s) PROVE IInv'
<1>1. UNCHANGED <<version, role, cache, past, strayed>> /\ Finish(s)
  BY DEF Me, row
<1>2. minted' \subseteq minted \union {CurrentToken}
  BY DEF Me
<1> QED
  BY <1>1, <1>2, FinishKeeps, Facts

LEMMA IncrementKeeps ==
    ASSUME IInv, NEW s \in Slots, NEW signed \in Tokens, signed.version <= version + 1,
           Increment(s, signed), role' \in Roles, UNCHANGED <<cache, minted, past, strayed>>
    PROVE  IInv'
<1>1. version' = version + 1 /\ version' \in Versions
  BY Facts DEF Increment, Versions
<1> DEFINE next == [op[s] EXCEPT !.pc = "publish", !.bump = Write(version + 1), !.tok = signed]
<1>2. op' = [op EXCEPT ![s] = next]
  BY DEF Increment
<1>3. Write(version + 1) \in Writes
  BY <1>1 DEF Write, Writes
<1>4. next \in Calls /\ next.tok = signed /\ next.prime = op[s].prime
      /\ next.bump = Write(version + 1)
  BY <1>3, CallFacts DEF Calls, Steps
<1>5. SoundCall(op[s], version', past')
  BY <1>1, CallFacts, Facts, StillSound
<1>6. SoundCall(next, version', past')
  BY <1>1, <1>4, <1>5, Facts DEF SoundCall, SoundWrite, Write
<1> HIDE DEF next
<1>7. op' \in [Slots -> Calls]
      /\ \A t \in Slots : op'[t] = op[t] \/ SoundCall(op'[t], version', past')
  BY <1>2, <1>4, <1>6, CallReplaced, Facts
<1>8. \A tok \in minted' : tok.version <= version'
  BY <1>1, Facts DEF Tokens, Versions
<1> QED
  BY <1>1, <1>7, <1>8, Kept, Facts

LEMMA PatchKeeps == ASSUME IInv, NEW s \in Slots, Patch(s) PROVE IInv'
<1>1. role' = op[s].want /\ role' \in Roles /\ UNCHANGED <<cache, minted, past>>
  BY CallFacts DEF Patch, Calls
<1>2. CASE op[s].want # op[s].tok.role
  <2>1. Increment(s, [version |-> version + 1, role |-> op[s].want]) /\ UNCHANGED strayed
    BY <1>2 DEF Patch
  <2>2. [version |-> version + 1, role |-> op[s].want] \in Tokens
    BY <1>1, <2>1, Facts DEF Tokens, Increment, Versions
  <2> QED
    BY <1>1, <2>1, <2>2, IncrementKeeps, Facts
<1>3. CASE op[s].want = op[s].tok.role
  <2>1. Finish(s) /\ UNCHANGED version /\ strayed' \in BOOLEAN
    BY <1>3, Facts DEF Patch
  <2> QED
    BY <1>1, <2>1, FinishKeeps, Facts
<1> QED
  BY <1>2, <1>3

LEMMA BumpKeeps == ASSUME IInv, NEW s \in Slots, Bump(s) PROVE IInv'
<1>1. Blank.tok \in Tokens /\ Blank.tok.version = 0
  BY BlankTyped DEF Blank, Calls
<1>2. Increment(s, Blank.tok) /\ role' \in Roles /\ UNCHANGED <<cache, minted, past, strayed>>
  BY Facts DEF Bump
<1> QED
  BY <1>1, <1>2, IncrementKeeps, Facts

LEMMA CallsKept ==
    ASSUME IInv, op' \in [Slots -> Calls], version' = version, role' = role,
           past' = past, cache' = cache, strayed' = strayed,
           \A t \in Slots : SoundCall(op'[t], version, past),
           minted' \subseteq Tokens, \A tok \in minted' : tok.version <= version
    PROVE  IInv'
BY Kept, Facts

LEMMA PublishKeeps == ASSUME IInv, NEW s \in Slots, Publish(s) PROVE IInv'
<1>0. op[s].bump.on
  BY CallFacts DEF Publish, SoundCall
<1>1. UNCHANGED <<version, role, minted, past, strayed>>
  BY DEF Publish, row
<1> DEFINE next == [op[s] EXCEPT !.pc = "disconnect", !.bump = Nothing]
<1>2. op' = [op EXCEPT ![s] = next]
  BY DEF Publish
<1>3. next \in Calls /\ next.tok = op[s].tok /\ next.bump = Nothing /\ next.prime = op[s].prime
      /\ next.pc = "disconnect"
  BY CallFacts, BlankTyped DEF Calls, Steps
<1>4. SoundCall(next, version, past)
  BY <1>3, CallFacts DEF SoundCall, SoundWrite, Nothing
<1> HIDE DEF next
<1>5. op' \in [Slots -> Calls]
      /\ \A t \in Slots : op'[t] = op[t] \/ SoundCall(op'[t], version', past')
  BY <1>1, <1>2, <1>3, <1>4, CallReplaced, Facts
<1>6. cache' = cache \/ \E w \in Writes : w.on /\ SoundWrite(w, version, past)
                                          /\ cache' = Stored(w.value)
  BY <1>0, CallFacts DEF Publish
<1> QED
  BY <1>1, <1>5, <1>6, Kept, Facts

LEMMA DoneSound ==
    ASSUME IInv, NEW t \in Slots
    PROVE  Done(t) \in Calls /\ SoundCall(Done(t), version, past)
<1> DEFINE next == Done(t)
<1>1. next \in Calls /\ next.tok = Blank.tok /\ next.bump = Nothing /\ next.prime = op[t].prime
      /\ next.pc = "idle"
  BY CallFacts, BlankTyped DEF Done, Calls, Blank
<1>2. SoundCall(next, version, past)
  BY <1>1, CallFacts, BlankSound, Facts DEF SoundCall, Blank
<1> QED
  BY <1>1, <1>2

LEMMA DisconnectKeeps == ASSUME IInv, NEW s \in Slots, Disconnect(s) PROVE IInv'
<1>1. UNCHANGED <<version, role, cache, past, strayed>> /\ minted' = minted \union {op[s].tok}
  BY DEF Disconnect, row
<1>2. ASSUME NEW t \in Slots PROVE op'[t] \in {Done(t), op[t]}
  BY DEF Disconnect
<1>3. \A t \in Slots : op'[t] \in Calls /\ SoundCall(op'[t], version, past)
  BY <1>2, DoneSound, CallFacts
<1>4. op' \in [Slots -> Calls]
  BY <1>3 DEF Disconnect
<1> QED
  BY <1>1, <1>3, <1>4, CallsKept, CallFacts, Facts

LEMMA JoinKeeps == ASSUME IInv, NEW s \in Slots, Join(s) PROVE IInv'
<1>1. UNCHANGED <<version, role, cache, minted, past, strayed>>
  BY DEF Join, row
<1> DEFINE next == [op[s] EXCEPT !.pc = "open", !.late = Revoked(op[s].tok) /\ Revoking = {}]
<1>2. op' = [op EXCEPT ![s] = next]
  BY DEF Join
<1>3. next \in Calls /\ next.tok = op[s].tok /\ next.bump = op[s].bump /\ next.prime = op[s].prime
      /\ next.pc = "open"
  BY CallFacts DEF Calls, Steps
<1>4. SoundCall(next, version, past)
  BY <1>3, CallFacts DEF SoundCall
<1> HIDE DEF next
<1>5. op' \in [Slots -> Calls]
      /\ \A t \in Slots : op'[t] = op[t] \/ SoundCall(op'[t], version', past')
  BY <1>1, <1>2, <1>3, <1>4, CallReplaced, Facts
<1> QED
  BY <1>1, <1>5, Kept, Facts

LEMMA LoginKeeps == ASSUME IInv, NEW s \in Slots, Login(s) PROVE IInv'
<1>1. UNCHANGED <<version, role, cache, minted, past, strayed>>
  BY DEF Login, row
<1> DEFINE next == [op[s] EXCEPT !.tok = CurrentToken, !.pc = "mint"]
<1>2. op' = [op EXCEPT ![s] = next]
  BY DEF Login
<1>3. next \in Calls /\ next.tok = CurrentToken /\ next.bump = op[s].bump
      /\ next.prime = op[s].prime /\ next.pc = "mint"
  BY CallFacts, Facts DEF Calls, Steps
<1>4. SoundCall(next, version, past)
  BY <1>3, CallFacts, Facts DEF SoundCall
<1> HIDE DEF next
<1>5. op' \in [Slots -> Calls]
      /\ \A t \in Slots : op'[t] = op[t] \/ SoundCall(op'[t], version', past')
  BY <1>1, <1>2, <1>3, <1>4, CallReplaced, Facts
<1> QED
  BY <1>1, <1>5, Kept, Facts

LEMMA MintKeeps == ASSUME IInv, NEW s \in Slots, Mint(s) PROVE IInv'
<1>1. UNCHANGED <<version, role, cache, past, strayed>> /\ Finish(s)
      /\ minted' = minted \union {op[s].tok}
  BY DEF Mint, row
<1> QED
  BY <1>1, FinishKeeps, CallFacts, Facts

LEMMA EndKeeps == ASSUME IInv, NEW s \in Slots, End(s) PROVE IInv'
BY FinishKeeps, Facts DEF End, row

LEMMA RestartKeeps == ASSUME IInv, Restart PROVE IInv'
<1>1. UNCHANGED <<version, role, cache, minted, past, strayed>>
  BY DEF Restart, row
<1>2. op' \in [Slots -> Calls] /\ \A t \in Slots : op'[t] = Blank
  BY BlankTyped DEF Restart
<1>3. \A t \in Slots : SoundCall(op'[t], version, past)
  BY <1>2, BlankSound, Facts
<1> QED
  BY <1>1, <1>2, <1>3, CallsKept, Facts

LEMMA TickKeeps == ASSUME IInv, Tick PROVE IInv'
<1>1. UNCHANGED <<version, role, minted, strayed>>
  BY DEF Tick, row
<1>2. version \in Nat /\ past \in [Versions -> 0 .. Window] /\ Window \in Nat
      /\ cache \in [value : Versions, ttl : 0 .. TTL] /\ op \in [Slots -> Calls]
  BY DEF IInv, TypeOK, Versions, Window
<1>3. \A v \in Versions : past'[v] = IF v < version /\ past[v] < Window THEN past[v] + 1 ELSE past[v]
  BY DEF Tick
<1>4. past' \in [Versions -> 0 .. Window]
  <2>1. ASSUME NEW v \in Versions
        PROVE  (IF v < version /\ past[v] < Window THEN past[v] + 1 ELSE past[v]) \in 0 .. Window
    BY <1>2
  <2> QED
    BY <2>1 DEF Tick
<1>5. PastOrdered'
  <2>1. ASSUME NEW v \in Versions, v >= version PROVE past'[v] = 0
    BY <1>2, <1>3, <2>1 DEF IInv, PastOrdered, Versions
  <2>2. ASSUME NEW u \in Versions, NEW v \in Versions, u <= v PROVE past'[u] >= past'[v]
    <3>1. past[u] >= past[v] /\ past[u] \in 0 .. Window /\ past[v] \in 0 .. Window
      BY <1>2, <2>2 DEF IInv, PastOrdered
    <3>2. u \in Nat /\ v \in Nat
      BY DEF Versions
    <3> QED
      BY <1>2, <1>3, <2>2, <3>1, <3>2
  <2> QED
    BY <1>1, <2>1, <2>2 DEF PastOrdered
<1>6. ASSUME NEW w \in Writes, SoundWrite(w, version, past), w.on => w.age < MaxDelay
      PROVE  Older(w) \in Writes /\ SoundWrite(Older(w), version, past')
  <2>1. w.value \in Versions /\ w.value \in Nat /\ w.age \in 0 .. MaxDelay /\ w.on \in BOOLEAN
    BY DEF Writes, Versions
  <2>2. CASE ~w.on
    BY <2>2 DEF Older, SoundWrite
  <2>3. CASE w.on
    <3> DEFINE old == [w EXCEPT !.age = w.age + 1]
    <3>1. Older(w) = old
      BY <2>3 DEF Older
    <3>2. old \in Writes /\ old.on = w.on /\ old.value = w.value /\ old.age = w.age + 1
      <4>1. w.age + 1 \in 0 .. MaxDelay
        BY <1>6, <2>1, <2>3
      <4>2. w \in [on : BOOLEAN, value : Versions, age : 0 .. MaxDelay]
        BY DEF Writes
      <4> QED
        BY <4>1, <4>2 DEF Writes
    <3>3. w.value <= version /\ (w.value < version => past[w.value] <= w.age)
      BY <1>6, <2>3 DEF SoundWrite
    <3>4. past'[w.value] <= past[w.value] + 1 /\ past[w.value] \in Nat /\ past'[w.value] \in Nat
      BY <1>2, <1>3, <1>4, <2>1
    <3> HIDE DEF old
    <3>5. SoundWrite(old, version, past')
      BY <1>2, <2>1, <3>2, <3>3, <3>4 DEF SoundWrite
    <3> QED
      BY <3>1, <3>2, <3>5
  <2> QED
    BY <2>2, <2>3
<1>7. ASSUME NEW s \in Slots PROVE op'[s] \in Calls /\ SoundCall(op'[s], version, past')
  <2> DEFINE next == [op[s] EXCEPT !.prime = Older(op[s].prime), !.bump = Older(op[s].bump)]
  <2>1. op'[s] = next
    BY Zenon DEF Tick
  <2>2. (op[s].prime.on => op[s].prime.age < MaxDelay) /\ (op[s].bump.on => op[s].bump.age < MaxDelay)
    BY DEF Tick
  <2>3. /\ Older(op[s].prime) \in Writes /\ SoundWrite(Older(op[s].prime), version, past')
        /\ Older(op[s].bump) \in Writes /\ SoundWrite(Older(op[s].bump), version, past')
    BY <1>6, <2>2, CallFacts
  <2>4. next \in Calls /\ next.tok = op[s].tok /\ next.pc = op[s].pc
        /\ next.prime = Older(op[s].prime) /\ next.bump = Older(op[s].bump)
    BY <2>3, CallFacts DEF Calls
  <2>5. Older(op[s].bump).on \in BOOLEAN /\ (op[s].bump.on => Older(op[s].bump).on)
    BY <2>3, CallFacts DEF Older, Writes
  <2> HIDE DEF next
  <2>6. SoundCall(next, version, past')
    BY <2>3, <2>4, <2>5, CallFacts DEF SoundCall
  <2> QED
    BY <2>1, <2>4, <2>6
<1>8. op' \in [Slots -> Calls]
  BY <1>7 DEF Tick
<1>9. cache' \in [value : Versions, ttl : 0 .. TTL] /\ SoundEntry(cache', version, past')
  <2>1. cache.value \in Versions /\ cache.value \in Nat /\ cache.ttl \in 0 .. TTL
    BY <1>2 DEF Versions
  <2>2. CASE cache.ttl > 1
    <3> DEFINE left == [cache EXCEPT !.ttl = cache.ttl - 1]
    <3>1. cache' = left
      BY <2>2 DEF Tick
    <3>2. left \in [value : Versions, ttl : 0 .. TTL] /\ left.value = cache.value
          /\ left.ttl = cache.ttl - 1
      BY <1>2, <2>1, <2>2
    <3>3. cache.value <= version
          /\ (cache.value < version => past[cache.value] + cache.ttl <= Window)
      BY <2>1, <2>2 DEF IInv, SoundEntry
    <3>4. past'[cache.value] <= past[cache.value] + 1 /\ past[cache.value] \in Nat
          /\ past'[cache.value] \in Nat
      BY <1>2, <1>3, <1>4, <2>1
    <3> HIDE DEF left
    <3> QED
      BY <1>2, <2>1, <2>2, <3>1, <3>2, <3>3, <3>4 DEF SoundEntry
  <2>3. CASE ~(cache.ttl > 1)
    <3>1. cache' = NoEntry
      BY <2>3 DEF Tick
    <3> QED
      BY <1>2, <3>1, BlankTyped DEF SoundEntry, NoEntry
  <2> QED
    BY <2>2, <2>3
<1>10. TypeOK'
  BY <1>1, <1>4, <1>8, <1>9 DEF IInv, TypeOK
<1> QED
  BY <1>1, <1>5, <1>7, <1>9, <1>10, Facts DEF IInv

LEMMA StepKeeps == ASSUME IInv, [Next]_vars PROVE IInv'
<1>1. CASE Restart
  BY <1>1, RestartKeeps
<1>2. CASE Tick
  BY <1>2, TickKeeps
<1>3. ASSUME NEW s \in Slots, Step(s) PROVE IInv'
  <2>1. CASE LookupHit(s) \/ LookupMiss(s)
    BY <2>1, LookupKeeps
  <2>2. CASE Prime(s) \/ LosePrime(s)
    BY <2>2, PrimeKeeps
  <2>3. CASE Me(s)
    BY <2>3, MeKeeps
  <2>4. CASE Patch(s)
    BY <2>4, PatchKeeps
  <2>5. CASE Bump(s)
    BY <2>5, BumpKeeps
  <2>6. CASE Publish(s)
    BY <2>6, PublishKeeps
  <2>7. CASE Disconnect(s)
    BY <2>7, DisconnectKeeps
  <2>8. CASE Join(s)
    BY <2>8, JoinKeeps
  <2>9. CASE Login(s)
    BY <2>9, LoginKeeps
  <2>10. CASE Mint(s)
    BY <2>10, MintKeeps
  <2>11. CASE End(s)
    BY <2>11, EndKeeps
  <2> QED
    BY <1>3, <2>1, <2>2, <2>3, <2>4, <2>5, <2>6, <2>7, <2>8, <2>9, <2>10, <2>11 DEF Step
<1>4. CASE UNCHANGED vars
  <2>1. UNCHANGED <<version, role, cache, op, minted, past, strayed>>
    BY <1>4 DEF vars, row
  <2> QED
    BY <2>1, Kept, Facts, CallFacts DEF IInv, TypeOK
<1> QED
  BY <1>1, <1>2, <1>3, <1>4 DEF Next

LEMMA InitKeeps == Init => IInv
<1> SUFFICES ASSUME Init PROVE IInv
  OBVIOUS
<1>0. 0 \in Versions /\ version = 0 /\ role = "resident" /\ role \in Roles
  BY DEF Init, Versions, Roles
<1>1. TypeOK
  <2>1. op \in [Slots -> Calls] /\ cache \in [value : Versions, ttl : 0 .. TTL]
    BY BlankTyped DEF Init
  <2>2. minted \subseteq Tokens
    BY <1>0 DEF Init, Tokens, CurrentToken
  <2>3. past \in [Versions -> 0 .. Window]
    BY DEF Init, Window
  <2>4. strayed \in BOOLEAN
    BY DEF Init
  <2> QED
    BY <1>0, <2>1, <2>2, <2>3, <2>4 DEF TypeOK
<1>2. \A s \in Slots : SoundCall(op[s], version, past)
  <2> SUFFICES ASSUME NEW s \in Slots PROVE SoundCall(op[s], version, past)
    OBVIOUS
  <2>1. op[s] = Blank
    BY DEF Init
  <2> QED
    BY <1>0, <2>1, BlankSound
<1>3. SoundEntry(cache, version, past) /\ PastOrdered
  BY DEF Init, NoEntry, SoundEntry, PastOrdered, Versions
<1> QED
  BY <1>1, <1>2, <1>3 DEF IInv, Init, CurrentToken

LEMMA Invariant == Spec => []IInv
<1>1. Init => IInv
  BY InitKeeps
<1>2. IInv /\ [Next]_vars => IInv'
  BY StepKeeps
<1> QED
  BY <1>1, <1>2, PTL DEF Spec

-----------------------------------------------------------------------------
(* The user row, the cache entry, the tokens and every call in flight stay   *)
(* well typed, for any number of calls and revocations.                      *)
THEOREM TypeCorrect == Spec => []TypeOK
BY Invariant, PTL DEF IInv

(* A session nobody revoked is never refused: whatever the order in which    *)
(* readers and revokers write the entry, it is never ahead of the row.       *)
THEOREM FreshPasses == Spec => []FreshTokenPasses
<1>1. IInv => FreshTokenPasses
  <2> SUFFICES ASSUME IInv, NEW tok \in minted, tok.version = version, Cached
               PROVE  IsCurrent(tok, cache.value)
    BY DEF FreshTokenPasses
  <2>1. cache.value <= version /\ cache.value \in Nat /\ version \in Nat
    BY DEF IInv, TypeOK, SoundEntry, Versions
  <2> QED
    BY <2>1 DEF IsCurrent
<1> QED
  BY <1>1, Invariant, PTL

-----------------------------------------------------------------------------
\* The window.

Admitted(s) ==
    op[s].pc = "idle" /\ op'[s].pc \in {"me", "patch", "bump", "join"}

\* What a slot is admitted with, by the one step that admits.
LEMMA AdmittedWith ==
    ASSUME IInv, NEW s \in Slots, NEW t \in Slots, NEW current, NEW prime \in Writes,
           Admit(t, current, prime), Admitted(s)
    PROVE  op'[s].tok \in minted /\ IsCurrent(op'[s].tok, current)
<1>1. PICK kind \in Authenticated, tok \in minted, want \in Roles :
        op' = [op EXCEPT ![t] = IF IsCurrent(tok, current)
                 THEN [Blank EXCEPT !.pc = FirstStep(kind), !.tok = tok,
                                    !.want = want, !.prime = prime]
                 ELSE [Blank EXCEPT !.prime = prime]]
  BY Zenon DEF Admit
<1>2. op \in [Slots -> Calls]
  BY DEF IInv, TypeOK
<1>3. s = t
  BY <1>1, <1>2 DEF Admitted
<1>4. op'[s] = IF IsCurrent(tok, current)
                 THEN [Blank EXCEPT !.pc = FirstStep(kind), !.tok = tok,
                                    !.want = want, !.prime = prime]
                 ELSE [Blank EXCEPT !.prime = prime]
  BY <1>1, <1>2, <1>3
<1>5. IsCurrent(tok, current)
  <2> SUFFICES ASSUME ~IsCurrent(tok, current) PROVE FALSE
    OBVIOUS
  <2>1. op'[s].pc = "idle"
    BY <1>4 DEF Blank
  <2> QED
    BY <2>1 DEF Admitted
<1>6. op'[s].tok = tok
  BY <1>4, <1>5 DEF Blank
<1> QED
  BY <1>5, <1>6

\* Nothing but the two lookups admits.
LEMMA OnlyLookupsAdmit ==
    ASSUME IInv, NEW s \in Slots, Next, Admitted(s)
    PROVE  \E t \in Slots : LookupHit(t) \/ LookupMiss(t)
<1> SUFFICES ASSUME \A t \in Slots : ~LookupHit(t) /\ ~LookupMiss(t) PROVE FALSE
  OBVIOUS
<1>0. op \in [Slots -> Calls] /\ op[s].pc = "idle"
      /\ op'[s].pc \in {"me", "patch", "bump", "join"}
  BY DEF IInv, TypeOK, Admitted
<1>1. CASE Restart
  BY <1>0, <1>1 DEF Restart, Blank
<1>2. CASE Tick
  <2>1. op'[s] = [op[s] EXCEPT !.prime = Older(op[s].prime), !.bump = Older(op[s].bump)]
    BY <1>2, Zenon DEF Tick
  <2>2. op[s] \in Calls
    BY <1>0
  <2>3. op'[s].pc = op[s].pc
    BY ONLY <2>1, <2>2 DEF Calls
  <2> QED
    BY <1>0, <2>3
<1>3. ASSUME NEW t \in Slots, Step(t) PROVE FALSE
  <2> DEFINE Others == \A u \in Slots : u # t => op'[u] = op[u]
  <2>0. op[t] \in Calls
    BY <1>0
  <2>1. CASE Prime(t) \/ LosePrime(t)
    BY <1>0, <2>0, <2>1 DEF Prime, LosePrime, Calls
  <2>2. ASSUME Finish(t) PROVE FALSE
    BY <1>0, <2>2 DEF Finish, Done, Blank
  <2>3. ASSUME NEW signed, Increment(t, signed) PROVE FALSE
    BY <1>0, <2>0, <2>3 DEF Increment, Calls
  <2>4. CASE Publish(t)
    BY <1>0, <2>0, <2>4 DEF Publish, Calls
  <2>5. CASE Disconnect(t)
    BY <1>0, <2>5 DEF Disconnect, Done, Blank
  <2>6. CASE Join(t)
    BY <1>0, <2>0, <2>6 DEF Join, Calls
  <2>7. CASE Login(t)
    BY <1>0, <2>0, <2>7 DEF Login, Calls
  <2>8. CASE Me(t) \/ Mint(t) \/ End(t)
    BY <2>2, <2>8 DEF Me, Mint, End
  <2>9. CASE Patch(t)
    BY <2>2, <2>3, <2>9 DEF Patch
  <2>10. CASE Bump(t)
    BY <2>3, <2>10 DEF Bump
  <2> QED
    BY <1>3, <2>1, <2>4, <2>5, <2>6, <2>7, <2>8, <2>9, <2>10 DEF Step
<1> QED
  BY <1>1, <1>2, <1>3 DEF Next

(* A revoked token passes for less than one life of the entry and one delay  *)
(* of its writes, for any number of calls, any TTL and any delay.            *)
THEOREM WindowHolds == Spec => RevokedWithinWindow
<1> DEFINE Passes(s) == Admitted(s) /\ Revoked(op'[s].tok) => past[op'[s].tok.version] < Window
<1>1. IInv /\ Next => \A s \in Slots : Passes(s)
  <2> SUFFICES ASSUME IInv, Next, NEW s \in Slots, Admitted(s), Revoked(op'[s].tok)
               PROVE  past[op'[s].tok.version] < Window
    OBVIOUS
  <2> DEFINE v == op'[s].tok.version
  <2>0. version \in Nat /\ past \in [Versions -> 0 .. Window] /\ v < version
    BY DEF IInv, TypeOK, Versions, Revoked
  <2>1. PICK t \in Slots : LookupHit(t) \/ LookupMiss(t)
    BY OnlyLookupsAdmit
  <2>2. CASE LookupHit(t)
    <3>1. Cached /\ op'[s].tok \in minted /\ v >= cache.value
      BY <2>2, AdmittedWith, BlankTyped DEF LookupHit, IsCurrent
    <3>2. v \in Versions /\ v \in Nat
      BY <3>1, Facts DEF Tokens, Versions
    <3>3. cache.value \in Versions /\ cache.value \in Nat /\ cache.ttl \in Nat /\ cache.ttl > 0
      BY <3>1 DEF IInv, TypeOK, Versions, Cached
    <3>4. past[cache.value] + cache.ttl <= Window
      BY <2>0, <3>1, <3>2, <3>3 DEF IInv, SoundEntry
    <3>5. past[v] <= past[cache.value] /\ past[v] \in Nat /\ past[cache.value] \in Nat
      BY <2>0, <3>1, <3>2, <3>3 DEF IInv, PastOrdered
    <3> QED
      BY <3>3, <3>4, <3>5 DEF Window
  <2>3. CASE LookupMiss(t)
    <3>1. Write(version) \in Writes
      BY Facts DEF Write, Writes
    <3>2. v >= version /\ op'[s].tok \in minted
      BY <2>3, <3>1, AdmittedWith DEF LookupMiss, IsCurrent
    <3>3. v \in Nat
      BY <3>2, Facts DEF Tokens, Versions
    <3> QED
      BY <2>0, <3>2, <3>3
  <2> QED
    BY <2>1, <2>2, <2>3
<1>2. IInv /\ [Next]_vars =>
      [\A s \in Slots :
          /\ op[s].pc = "idle"
          /\ op'[s].pc \in {"me", "patch", "bump", "join"}
          /\ Revoked(op'[s].tok)
          => past[op'[s].tok.version] < Window]_vars
  BY <1>1 DEF Admitted
<1> QED
  BY <1>2, Invariant, PTL DEF Spec, RevokedWithinWindow

-----------------------------------------------------------------------------
\* Sockets.

\* A step of one call leaves the others alone, but for the disconnect.
LEMMA OthersStand ==
    ASSUME IInv, NEW t \in Slots, Step(t), ~Disconnect(t), NEW u \in Slots, u # t
    PROVE  op'[u] = op[u]
<1>0. op \in [Slots -> Calls]
  BY DEF IInv, TypeOK
<1>1. CASE LookupHit(t) \/ LookupMiss(t) \/ Prime(t) \/ LosePrime(t)
  BY <1>0, <1>1 DEF LookupHit, LookupMiss, Admit, Prime, LosePrime
<1>2. CASE Me(t) \/ Mint(t) \/ End(t) \/ Patch(t) \/ Bump(t)
  BY <1>0, <1>2 DEF Me, Mint, End, Patch, Bump, Finish, Increment
<1>3. CASE Publish(t) \/ Join(t) \/ Login(t)
  BY <1>0, <1>3 DEF Publish, Join, Login
<1> QED
  BY <1>1, <1>2, <1>3 DEF Step

\* A revocation is ended by its disconnect, or by a restart.
LEMMA RevokingEnds ==
    ASSUME IInv, NEW t \in Slots, Step(t), ~Disconnect(t), Revoking' = {}
    PROVE  Revoking = {} /\ version' = version
<1>0. op \in [Slots -> Calls] /\ op[t] \in Calls
  BY DEF IInv, TypeOK
<1>1. \A u \in Slots : u # t => op'[u] = op[u]
  BY OthersStand
<1>2. op'[t].pc \notin {"publish", "disconnect"}
  BY DEF Revoking
<1>3. op[t].pc \notin {"publish", "disconnect"} /\ version' = version
  <2>1. CASE LookupHit(t) \/ LookupMiss(t)
    BY <2>1 DEF LookupHit, LookupMiss, Free, row
  <2>2. CASE Prime(t) \/ LosePrime(t)
    <3>1. op' = [op EXCEPT ![t].prime = Nothing] /\ version' = version
      BY <2>2 DEF Prime, LosePrime, row
    <3>2. op'[t].pc = op[t].pc
      BY ONLY <1>0, <3>1 DEF Calls
    <3> QED
      BY <1>2, <3>1, <3>2
  <2>3. CASE Me(t) \/ Mint(t) \/ End(t)
    BY <2>3 DEF Me, Mint, End, row
  <2>4. ~Increment(t, Blank.tok) /\ ~Increment(t, [version |-> version + 1, role |-> op[t].want])
    BY <1>0, <1>2 DEF Increment, Calls
  <2>5. CASE Patch(t) \/ Bump(t)
    BY <2>4, <2>5 DEF Patch, Bump
  <2>6. CASE Publish(t)
    <3>1. op'[t].pc = "disconnect"
      BY <1>0, <2>6 DEF Publish, Calls
    <3> QED
      BY <1>2, <3>1
  <2>7. CASE Join(t) \/ Login(t)
    BY <2>7 DEF Join, Login, Free, row
  <2> QED
    BY <2>1, <2>2, <2>3, <2>5, <2>6, <2>7 DEF Step
<1> QED
  BY <1>1, <1>3 DEF Revoking

\* A socket opens by joining, and is left as it was by every other step.
LEMMA SocketOpens ==
    ASSUME IInv, NEW t \in Slots, Step(t), ~Disconnect(t), op'[t].pc = "open"
    PROVE  \/ op[t].pc = "open" /\ op'[t].tok = op[t].tok /\ op'[t].late = op[t].late
           \/ /\ op'[t].tok = op[t].tok
              /\ op'[t].late = (Revoked(op[t].tok) /\ Revoking = {})
<1>0. op \in [Slots -> Calls] /\ op[t] \in Calls
  BY DEF IInv, TypeOK
<1>1. CASE LookupHit(t) \/ LookupMiss(t)
  <2>1. PICK current, prime : Admit(t, current, prime)
    BY <1>1 DEF LookupHit, LookupMiss
  <2>2. PICK kind \in Authenticated, tok \in minted, want \in Roles :
          op' = [op EXCEPT ![t] = IF IsCurrent(tok, current)
                   THEN [Blank EXCEPT !.pc = FirstStep(kind), !.tok = tok,
                                      !.want = want, !.prime = prime]
                   ELSE [Blank EXCEPT !.prime = prime]]
    BY <2>1 DEF Admit
  <2>3. FirstStep(kind) # "open"
    <3>1. kind \in {"me", "role", "logout-all", "socket"}
      BY DEF Authenticated, AllKinds
    <3> QED
      BY <3>1 DEF FirstStep
  <2>4. CASE IsCurrent(tok, current)
    <3>1. op'[t] = [Blank EXCEPT !.pc = FirstStep(kind), !.tok = tok,
                                 !.want = want, !.prime = prime]
      BY <1>0, <2>2, <2>4
    <3> QED
      BY <2>3, <3>1 DEF Blank
  <2>5. CASE ~IsCurrent(tok, current)
    <3>1. op'[t] = [Blank EXCEPT !.prime = prime]
      BY <1>0, <2>2, <2>5
    <3> QED
      BY <3>1 DEF Blank
  <2> QED
    BY <2>4, <2>5
<1>2. CASE Prime(t) \/ LosePrime(t)
  <2>1. op' = [op EXCEPT ![t].prime = Nothing]
    BY <1>2 DEF Prime, LosePrime
  <2>2. op'[t].pc = op[t].pc /\ op'[t].tok = op[t].tok /\ op'[t].late = op[t].late
    BY ONLY <1>0, <2>1 DEF Calls
  <2> QED
    BY <2>2
<1>3. ~Finish(t)
  BY <1>0 DEF Finish, Done, Blank
<1>4. ~Increment(t, Blank.tok) /\ ~Increment(t, [version |-> version + 1, role |-> op[t].want])
  BY <1>0 DEF Increment, Calls
<1>5. CASE Me(t) \/ Mint(t) \/ End(t) \/ Patch(t) \/ Bump(t)
  BY <1>3, <1>4, <1>5 DEF Me, Mint, End, Patch, Bump
<1>6. CASE Publish(t)
  BY <1>0, <1>6 DEF Publish, Calls
<1>7. CASE Login(t)
  BY <1>0, <1>7 DEF Login, Calls
<1>8. CASE Join(t)
  <2>1. op' = [op EXCEPT ![t].pc = "open",
                         ![t].late = Revoked(op[t].tok) /\ Revoking = {}]
    BY <1>8 DEF Join
  <2>2. op'[t] = [op[t] EXCEPT !.pc = "open",
                               !.late = Revoked(op[t].tok) /\ Revoking = {}]
    BY <1>0, <2>1
  <2> QED
    BY <1>0, <2>2 DEF Calls
<1> QED
  BY <1>1, <1>2, <1>5, <1>6, <1>7, <1>8 DEF Step

(* A socket that outlives the revocation of its token has joined behind the  *)
(* last disconnect, for any number of calls and overlapping revocations.     *)
THEOREM LateJoiners == Spec => []OnlyLateJoinersStay
<1>1. Init => OnlyLateJoinersStay
  BY DEF Init, OnlyLateJoinersStay, Blank
<1>2. IInv /\ OnlyLateJoinersStay /\ [Next]_vars => OnlyLateJoinersStay'
  <2> SUFFICES ASSUME IInv, OnlyLateJoinersStay, [Next]_vars, Revoking' = {},
                      NEW s \in Slots, op'[s].pc = "open", op'[s].tok.version < version'
               PROVE  op'[s].late
    BY DEF OnlyLateJoinersStay, Revoked
  <2>0. op \in [Slots -> Calls] /\ op[s] \in Calls
    BY DEF IInv, TypeOK
  <2>1. CASE UNCHANGED vars
    BY <2>1 DEF vars, row, OnlyLateJoinersStay, Revoked, Revoking
  <2>2. CASE Restart
    BY <2>2 DEF Restart, Blank
  <2>3. CASE Tick
    <3>1. ASSUME NEW u \in Slots
          PROVE  op'[u].pc = op[u].pc /\ op'[u].tok = op[u].tok /\ op'[u].late = op[u].late
      <4>1. op'[u] = [op[u] EXCEPT !.prime = Older(op[u].prime), !.bump = Older(op[u].bump)]
        BY <2>3, Zenon DEF Tick
      <4>2. op[u] \in Calls
        BY <2>0
      <4> QED
        BY ONLY <4>1, <4>2 DEF Calls
    <3>2. Revoking = {} /\ version' = version
      BY <2>3, <3>1 DEF Revoking, Tick, row
    <3> QED
      BY <3>1, <3>2 DEF OnlyLateJoinersStay, Revoked
  <2>4. ASSUME NEW t \in Slots, Disconnect(t) PROVE FALSE
    BY <2>4 DEF Disconnect, Done, Blank
  <2>5. ASSUME NEW t \in Slots, Step(t), ~Disconnect(t) PROVE op'[s].late
    <3>1. Revoking = {} /\ version' = version
      BY <2>5, RevokingEnds
    <3>2. CASE s # t
      BY <2>5, <3>1, <3>2, OthersStand DEF OnlyLateJoinersStay, Revoked
    <3>3. CASE s = t
      <4>1. op'[s].tok = op[s].tok
        BY <2>5, <3>3, SocketOpens
      <4> QED
        BY <2>5, <3>1, <3>3, <4>1, SocketOpens DEF OnlyLateJoinersStay, Revoked
    <3> QED
      BY <3>2, <3>3
  <2> QED
    BY <2>1, <2>2, <2>3, <2>4, <2>5 DEF Next
<1> QED
  BY <1>1, <1>2, Invariant, PTL DEF Spec

-----------------------------------------------------------------------------
\* Roles.

Held == {op[s].tok : s \in Slots} \union {Blank.tok, CurrentToken}

\* A step that leaves the row alone, and signs and holds only what was there.
LEMMA RolesKept ==
    ASSUME IInv, RolesAgree, UNCHANGED <<version, role, strayed>>,
           minted' \subseteq minted \union Held,
           \A s \in Slots : op'[s].tok \in minted \union Held
    PROVE  RolesAgree'
<1>1. ASSUME ~strayed, NEW tok \in minted \union Held, tok.version = version
      PROVE  tok.role = role
  <2>1. CASE tok = Blank.tok
    BY <1>1, <2>1 DEF RolesAgree, Blank
  <2>2. CASE tok = CurrentToken
    BY <2>2 DEF CurrentToken
  <2>3. CASE tok \in minted \/ \E s \in Slots : tok = op[s].tok
    BY <1>1, <2>3 DEF RolesAgree
  <2> QED
    BY <2>1, <2>2, <2>3 DEF Held
<1> QED
  BY <1>1 DEF RolesAgree

\* A step of one slot that leaves the row alone.
LEMMA RolesKeptBy ==
    ASSUME IInv, RolesAgree, UNCHANGED <<version, role, strayed>>,
           minted' \subseteq minted \union Held,
           NEW t \in Slots, NEW call, op' = [op EXCEPT ![t] = call],
           call.tok \in minted \union Held
    PROVE  RolesAgree'
<1>1. op \in [Slots -> Calls]
  BY DEF IInv, TypeOK
<1>2. \A s \in Slots : op'[s].tok \in minted \union Held
  BY <1>1 DEF Held
<1> QED
  BY <1>2, RolesKept

LEMMA RolesIncrement ==
    ASSUME IInv, RolesAgree, NEW t \in Slots, NEW signed \in Tokens, Increment(t, signed),
           signed.version = version + 1 => signed.role = role', UNCHANGED <<minted, strayed>>
    PROVE  RolesAgree'
<1>1. version' = version + 1 /\ version \in Nat
  BY Facts DEF Increment
<1>2. op \in [Slots -> Calls] /\ op[t] \in Calls
  BY DEF IInv, TypeOK
<1>3. \A tok \in minted : tok.version # version'
  BY <1>1, Facts DEF Tokens, Versions
<1>4. ASSUME NEW s \in Slots, s # t PROVE op'[s].tok.version # version'
  <2>1. op'[s] = op[s] /\ op[s].tok.version \in Nat /\ op[s].tok.version <= version
    BY <1>2, <1>4, CallFacts DEF Increment, Tokens, Versions
  <2> QED
    BY <1>1, <2>1
<1>5. op'[t].tok = signed
  BY <1>2 DEF Increment, Calls
<1> QED
  BY <1>1, <1>3, <1>4, <1>5 DEF RolesAgree

LEMMA RolesPatch == ASSUME IInv, RolesAgree, NEW t \in Slots, Patch(t) PROVE RolesAgree'
<1>1. role' = op[t].want /\ minted' = minted
  BY DEF Patch
<1>2. CASE op[t].want # op[t].tok.role
  <2>1. Increment(t, [version |-> version + 1, role |-> op[t].want]) /\ strayed' = strayed
    BY <1>2 DEF Patch
  <2>2. [version |-> version + 1, role |-> op[t].want] \in Tokens
    BY <2>1, CallFacts, Facts DEF Tokens, Increment, Versions, Calls
  <2> QED
    BY <1>1, <2>1, <2>2, RolesIncrement
<1>3. CASE op[t].want = op[t].tok.role
  <2>1. /\ Finish(t) /\ version' = version
        /\ strayed' = (strayed \/ (op[t].want # role /\ Revoked(op[t].tok)))
    BY <1>3, Zenon DEF Patch
  <2>2. CASE strayed'
    BY <2>2 DEF RolesAgree
  <2>3. CASE ~strayed'
    <3>1. ~strayed /\ ~(op[t].want # role /\ Revoked(op[t].tok))
      BY <2>1, <2>3
    <3>2. op[t].tok.version \in Nat /\ op[t].tok.version <= version /\ version \in Nat
      BY CallFacts, Facts DEF Tokens, Versions
    <3>3. op[t].want = role
      BY <1>3, <3>1, <3>2 DEF RolesAgree, Revoked
    <3>4. strayed' = strayed
      <4>1. strayed' \in BOOLEAN /\ strayed \in BOOLEAN
        BY <1>3, Facts DEF Patch
      <4> QED
        BY <2>3, <3>1, <4>1
    <3>5. op' = [op EXCEPT ![t] = Done(t)] /\ Done(t).tok = Blank.tok
      BY <2>1 DEF Finish, Done, Blank
    <3> QED
      BY <1>1, <2>1, <3>3, <3>4, <3>5, RolesKeptBy DEF Held
  <2> QED
    BY <2>2, <2>3
<1> QED
  BY <1>2, <1>3

LEMMA RolesAdmit ==
    ASSUME IInv, RolesAgree, NEW t \in Slots, LookupHit(t) \/ LookupMiss(t)
    PROVE  RolesAgree'
<1>1. UNCHANGED <<version, role, strayed, minted>>
  BY DEF LookupHit, LookupMiss, row
<1>2. PICK current, prime : Admit(t, current, prime)
  BY Zenon DEF LookupHit, LookupMiss
<1>3. PICK kind \in Authenticated, tok \in minted, want \in Roles :
        op' = [op EXCEPT ![t] = IF IsCurrent(tok, current)
                 THEN [Blank EXCEPT !.pc = FirstStep(kind), !.tok = tok,
                                    !.want = want, !.prime = prime]
                 ELSE [Blank EXCEPT !.prime = prime]]
  BY <1>2, Zenon DEF Admit
<1> DEFINE next == IF IsCurrent(tok, current)
                 THEN [Blank EXCEPT !.pc = FirstStep(kind), !.tok = tok,
                                    !.want = want, !.prime = prime]
                 ELSE [Blank EXCEPT !.prime = prime]
<1>4. op' = [op EXCEPT ![t] = next]
  BY <1>3
<1>5. next.tok \in {tok, Blank.tok}
  BY DEF Blank
<1> HIDE DEF next
<1> QED
  BY <1>1, <1>4, <1>5, RolesKeptBy DEF Held

\* The other steps of a slot.
LEMMA RolesStep ==
    ASSUME IInv, RolesAgree, NEW t \in Slots, Step(t),
           ~LookupHit(t), ~LookupMiss(t), ~Patch(t)
    PROVE  RolesAgree'
<1>0. op \in [Slots -> Calls] /\ op[t] \in Calls /\ op[t].tok \in Held
  BY DEF IInv, TypeOK, Held
<1>1. CASE Prime(t) \/ LosePrime(t)
  <2>1. op' = [op EXCEPT ![t] = [op[t] EXCEPT !.prime = Nothing]]
    BY <1>1 DEF Prime, LosePrime
  <2>2. [op[t] EXCEPT !.prime = Nothing].tok = op[t].tok
    BY <1>0 DEF Calls
  <2> QED
    BY <1>0, <1>1, <2>1, <2>2, RolesKeptBy DEF Prime, LosePrime, row
<1>2. ASSUME Finish(t), UNCHANGED <<version, role, strayed>>, minted' \subseteq minted \union Held
      PROVE  RolesAgree'
  <2>1. op' = [op EXCEPT ![t] = Done(t)] /\ Done(t).tok = Blank.tok
    BY <1>2 DEF Finish, Done, Blank
  <2> QED
    BY <1>2, <2>1, RolesKeptBy DEF Held
<1>3. CASE Me(t) \/ Mint(t) \/ End(t)
  BY <1>0, <1>2, <1>3 DEF Me, Mint, End, row, Held
<1>4. CASE Bump(t)
  <2>1. Blank.tok \in Tokens /\ Blank.tok.version = 0
    BY BlankTyped DEF Blank, Calls
  <2> QED
    BY <1>4, <2>1, RolesIncrement, Facts DEF Bump
<1>5. CASE Publish(t)
  <2>1. op' = [op EXCEPT ![t] = [op[t] EXCEPT !.pc = "disconnect", !.bump = Nothing]]
    BY <1>5 DEF Publish
  <2>2. [op[t] EXCEPT !.pc = "disconnect", !.bump = Nothing].tok = op[t].tok
    BY <1>0 DEF Calls
  <2> QED
    BY <1>0, <1>5, <2>1, <2>2, RolesKeptBy DEF Publish, row
<1>6. CASE Disconnect(t)
  <2>1. UNCHANGED <<version, role, strayed>> /\ minted' \subseteq minted \union Held
    BY <1>0, <1>6 DEF Disconnect, row
  <2>2. ASSUME NEW s \in Slots PROVE op'[s].tok \in Held
    BY <1>6 DEF Disconnect, Done, Blank, Held
  <2> QED
    BY <2>1, <2>2, RolesKept
<1>7. CASE Join(t)
  <2> DEFINE next == [op[t] EXCEPT !.pc = "open",
                                   !.late = Revoked(op[t].tok) /\ Revoking = {}]
  <2>1. op' = [op EXCEPT ![t] = next]
    BY <1>7 DEF Join
  <2>2. next.tok = op[t].tok
    BY <1>0 DEF Calls
  <2> QED
    BY <1>0, <1>7, <2>1, <2>2, RolesKeptBy DEF Join, row
<1>8. CASE Login(t)
  <2>1. op' = [op EXCEPT ![t] = [op[t] EXCEPT !.tok = CurrentToken, !.pc = "mint"]]
    BY <1>8 DEF Login
  <2>2. [op[t] EXCEPT !.tok = CurrentToken, !.pc = "mint"].tok = CurrentToken
    BY <1>0 DEF Calls
  <2> QED
    BY <1>8, <2>1, <2>2, RolesKeptBy DEF Login, row, Held
<1> QED
  BY <1>1, <1>3, <1>4, <1>5, <1>6, <1>7, <1>8 DEF Step

(* Tokens of the current version agree with the row on the role until a      *)
(* revoked caller, inside the window, writes one.                            *)
THEOREM RolesDrift == Spec => []RoleDriftNeedsRevokedCaller
<1>1. Init => RolesAgree
  <2> SUFFICES ASSUME Init PROVE RolesAgree
    OBVIOUS
  <2>1. \A s \in Slots : op[s].tok.role = "resident"
    BY DEF Init, Blank
  <2> QED
    BY <2>1 DEF Init, RolesAgree, CurrentToken
<1>2. IInv /\ RolesAgree /\ [Next]_vars => RolesAgree'
  <2> SUFFICES ASSUME IInv, RolesAgree, [Next]_vars PROVE RolesAgree'
    OBVIOUS
  <2>1. CASE Restart
    <3>1. \A s \in Slots : op'[s].tok \in Held
      BY <2>1 DEF Restart, Held
    <3> QED
      BY <2>1, <3>1, RolesKept DEF Restart, row
  <2>2. CASE Tick
    <3>1. ASSUME NEW s \in Slots PROVE op'[s].tok \in Held
      <4>1. op'[s] = [op[s] EXCEPT !.prime = Older(op[s].prime), !.bump = Older(op[s].bump)]
        BY <2>2, Zenon DEF Tick
      <4>2. op[s] \in Calls
        BY DEF IInv, TypeOK
      <4>3. op'[s].tok = op[s].tok
        BY ONLY <4>1, <4>2 DEF Calls
      <4> QED
        BY <4>3 DEF Held
    <3> QED
      BY <2>2, <3>1, RolesKept DEF Tick, row
  <2>3. ASSUME NEW t \in Slots, Step(t) PROVE RolesAgree'
    BY <2>3, RolesAdmit, RolesPatch, RolesStep
  <2>4. CASE UNCHANGED vars
    BY <2>4 DEF vars, row, RolesAgree
  <2> QED
    BY <2>1, <2>2, <2>3, <2>4 DEF Next
<1>3. RolesAgree => RoleDriftNeedsRevokedCaller
  BY DEF RolesAgree, RoleDriftNeedsRevokedCaller
<1> QED
  BY <1>1, <1>2, <1>3, Invariant, PTL DEF Spec

=============================================================================
