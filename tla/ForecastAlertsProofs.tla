------------------------- MODULE ForecastAlertsProofs -------------------------
(* The lock of the scheduler excludes until a run outlives it, and a warning *)
(* is the first alert of its station and day, for any number of instances,   *)
(* stations, lives of the lock and timeouts.                                 *)
(*                                                                           *)
(* RunnerHoldsLock alone is not inductive: a task that has timed out would   *)
(* go on without the lock, so the invariant adds that nobody is late before  *)
(* the first overrun (LockHeld).  Then the one run that is going on is also  *)
(* the only one that creates alerts, and what it looked up before an insert  *)
(* still holds when it inserts (WarningDue).                                 *)
EXTENDS ForecastAlerts, TLAPS

LockHeld ==
    ~overrun => \A r \in Runs : Running(r) =>
                    lock.holder = r /\ lock.ttl > 0 /\ ~run[r].late

WarningDue ==
    ~overrun => \A r \in Runs : \A s \in run[r].at :
                    run[r].peaks[s] = "warning" =>
                        \A u \in Urgency : alerts[s][u] = 0

\* One run in another state of its own.
LEMMA RunReplaced ==
    ASSUME run \in [Runs -> RunStates], NEW r \in Runs, NEW state \in RunStates,
           run' = [run EXCEPT ![r] = state],
           \A q \in Runs : run[q].at # {} <=> run[q].pc = "create",
           state.at # {} <=> state.pc = "create"
    PROVE  /\ run' \in [Runs -> RunStates]
           /\ \A q \in Runs : run'[q].at # {} <=> run'[q].pc = "create"
OBVIOUS

\* What Continue leaves of a run and of the lock.
LEMMA ContinueTyped ==
    ASSUME TypeOK, NEW r \in Runs, NEW todo \in SUBSET Stations, Continue(r, todo)
    PROVE  /\ lock' \in [holder : Runs \union {Nobody}, ttl : 0 .. LockTTL]
           /\ run' \in [Runs -> RunStates]
           /\ \A q \in Runs : run'[q].at # {} <=> run'[q].pc = "create"
<1> USE ForecastAssumption DEF TypeOK
<1>1. CASE todo # {}
  <2> DEFINE next == [run[r] EXCEPT !.pc = "find", !.peaks = Left(r, todo), !.at = {}]
  <2>1. run' = [run EXCEPT ![r] = next] /\ lock' = lock
    BY <1>1 DEF Continue
  <2>0. run[r] \in RunStates
    OBVIOUS
  <2>3. Left(r, todo) \in [Stations -> Levels]
    BY <2>0 DEF RunStates, Left, Levels
  <2>2. next \in RunStates /\ next.at = {} /\ next.pc = "find"
    BY ONLY <2>0, <2>3 DEF RunStates
  <2> HIDE DEF next
  <2> QED
    BY <2>1, <2>2, RunReplaced
<1>2. CASE todo = {}
  <2>1. run' = [run EXCEPT ![r] = Idle] /\ (lock' = lock \/ lock' = Unlocked)
    BY <1>2 DEF Continue
  <2>2. Idle \in RunStates /\ Idle.at = {} /\ Idle.pc = "idle"
    BY DEF RunStates, Idle, Levels
  <2>3. lock' \in [holder : Runs \union {Nobody}, ttl : 0 .. LockTTL]
    BY <2>1 DEF Unlocked
  <2> QED
    BY <2>1, <2>2, <2>3, RunReplaced
<1> QED
  BY <1>1, <1>2

(* The lock, the runs and the alerts stay well typed; a run that is about  *)
(* to insert knows for which station.                                      *)
LEMMA TypeStep == TypeOK /\ [Next]_vars => TypeOK'
<1> SUFFICES ASSUME TypeOK, [Next]_vars PROVE TypeOK'
  OBVIOUS
<1> USE ForecastAssumption DEF TypeOK
<1>0. Idle \in RunStates /\ Idle.at = {} /\ Idle.pc = "idle"
  BY DEF RunStates, Idle, Levels
<1>1. CASE Tick
  <2>1. lock' \in [holder : Runs \union {Nobody}, ttl : 0 .. LockTTL] /\ overrun' \in BOOLEAN
    BY <1>1 DEF Tick, Expiring, Unlocked
  <2>2. ASSUME NEW r \in Runs
        PROVE  /\ Aged[r] \in RunStates
               /\ Aged[r].at = run[r].at /\ Aged[r].pc = run[r].pc
    <3> DEFINE older == [run[r] EXCEPT !.age = @ + 1]
    <3>1. CASE Running(r) /\ ~run[r].late
      <4>1. run[r] \in RunStates /\ run[r].age < Timeout
        BY <1>1, <3>1 DEF Tick
      <4>2. run[r].age \in 0 .. Timeout /\ run[r].age + 1 \in 0 .. Timeout
        BY <4>1 DEF RunStates
      <4>3. older \in RunStates /\ older.at = run[r].at /\ older.pc = run[r].pc
        BY <4>1, <4>2 DEF RunStates
      <4>4. Aged[r] = older
        BY <3>1 DEF Aged
      <4> QED
        BY <4>3, <4>4
    <3>2. CASE ~(Running(r) /\ ~run[r].late)
      BY <3>2 DEF Aged
    <3> QED
      BY <3>1, <3>2
  <2>3. run' = Aged /\ Aged = [r \in Runs |-> Aged[r]]
    BY <1>1 DEF Tick, Aged
  <2>4. run' \in [Runs -> RunStates] /\ \A r \in Runs : run'[r].at # {} <=> run'[r].pc = "create"
    BY <2>2, <2>3
  <2> QED
    BY <1>1, <2>1, <2>4 DEF Tick
<1>2. CASE Delete
  BY <1>2 DEF Delete
<1>3. CASE NewDay
  BY <1>3 DEF NewDay, NoAlerts
<1>4. ASSUME NEW r \in Runs, Start(r) PROVE TypeOK'
  <2> DEFINE next == [Idle EXCEPT !.pc = "predict"]
  <2>1. next \in RunStates /\ next.at = {} /\ next.pc = "predict"
    BY <1>0 DEF RunStates
  <2>2. run' = [run EXCEPT ![r] = next]
    BY <1>4 DEF Start
  <2> HIDE DEF next
  <2>3. lock' \in [holder : Runs \union {Nobody}, ttl : 0 .. LockTTL]
    BY <1>4 DEF Start
  <2> QED
    BY <1>4, <2>1, <2>2, <2>3, RunReplaced DEF Start
<1>5. ASSUME NEW r \in Runs, Predict(r) PROVE TypeOK'
  <2> DEFINE next == [run[r] EXCEPT !.pc = "read"]
  <2>1. next \in RunStates /\ next.at = {} /\ next.pc = "read"
    BY <1>5 DEF Predict, RunStates
  <2>2. run' = [run EXCEPT ![r] = next]
    BY <1>5 DEF Predict
  <2> HIDE DEF next
  <2> QED
    BY <1>5, <2>1, <2>2, RunReplaced DEF Predict
<1>6. ASSUME NEW r \in Runs, Read(r) PROVE TypeOK'
  <2>1. CASE Continue(r, {})
    BY <1>6, <2>1, ContinueTyped DEF Read
  <2>2. ASSUME ~Continue(r, {}) PROVE TypeOK'
    <3> DEFINE crossed == {s \in Stations : level[s] \in Urgency}
               next == [run[r] EXCEPT !.pc = "find", !.peaks = level]
    <3>1. run' = [run EXCEPT ![r] = next] /\ UNCHANGED lock
      BY <1>6, <2>2 DEF Read
    <3>2. crossed \in SUBSET Stations
      OBVIOUS
    <3> HIDE DEF crossed
    <3>3. next \in RunStates /\ next.at = {} /\ next.pc = "find"
      BY <1>6, <3>2 DEF Read, RunStates
    <3> HIDE DEF next
    <3> QED
      BY <1>6, <3>1, <3>3, RunReplaced DEF Read
  <2> QED
    BY <2>1, <2>2
<1>7. ASSUME NEW r \in Runs, Find(r) PROVE TypeOK'
  <2>1. PICK s \in Todo(r) :
           \/ Continue(r, Todo(r) \ {s})
           \/ /\ run' = [run EXCEPT ![r].pc = "create", ![r].at = {s}]
              /\ UNCHANGED lock
    BY <1>7 DEF Find
  <2>2. Todo(r) \subseteq Stations /\ run[r] \in RunStates /\ s \in Stations
    BY DEF RunStates, Todo
  <2>3. CASE Continue(r, Todo(r) \ {s})
    BY <1>7, <2>2, <2>3, ContinueTyped DEF Find
  <2>4. CASE run' = [run EXCEPT ![r].pc = "create", ![r].at = {s}] /\ UNCHANGED lock
    <3> DEFINE next == [run[r] EXCEPT !.pc = "create", !.at = {s}]
    <3>1. next \in RunStates /\ next.at # {} /\ next.pc = "create"
      BY <2>2 DEF RunStates
    <3>2. run' = [run EXCEPT ![r] = next]
      BY <2>4
    <3> HIDE DEF next
    <3>3. run' \in [Runs -> RunStates] /\ \A q \in Runs : run'[q].at # {} <=> run'[q].pc = "create"
      BY <3>1, <3>2, RunReplaced
    <3>4. UNCHANGED <<lock, level, alerts, crashes, overrun>>
      BY <1>7, <2>4 DEF Find
    <3> QED
      BY <3>3, <3>4
  <2> QED
    BY <2>1, <2>3, <2>4
<1>8. ASSUME NEW r \in Runs, Create(r) PROVE TypeOK'
  <2>1. PICK s \in run[r].at :
           /\ alerts' = [alerts EXCEPT ![s][run[r].peaks[s]] = IF @ < MaxAlerts THEN @ + 1 ELSE @]
           /\ Continue(r, Todo(r) \ {s})
    BY <1>8 DEF Create, CreateFor, TypeOK, RunStates
  <2>2. run[r] \in RunStates /\ Todo(r) \subseteq Stations /\ s \in Stations
    BY DEF RunStates, Todo
  <2>3. alerts' \in [Stations -> [Urgency -> 0 .. MaxAlerts]]
    <3> DEFINE u == run[r].peaks[s]
               day == [alerts[s] EXCEPT ![u] = IF @ < MaxAlerts THEN @ + 1 ELSE @]
    <3>1. alerts' = [alerts EXCEPT ![s] = day]
      BY <2>1
    <3>2. alerts[s] \in [Urgency -> 0 .. MaxAlerts]
      BY <2>2
    <3>3. day \in [Urgency -> 0 .. MaxAlerts]
      <4> DEFINE n == alerts[s][u]
                 more == IF n < MaxAlerts THEN n + 1 ELSE n
      <4>1. day = [alerts[s] EXCEPT ![u] = more]
        OBVIOUS
      <4>2. u \in Urgency => more \in 0 .. MaxAlerts
        BY <3>2
      <4> HIDE DEF more, day, u
      <4> QED
        BY <3>2, <4>1, <4>2
    <3> HIDE DEF day
    <3> QED
      BY <2>2, <3>1, <3>3
  <2> QED
    BY <1>8, <2>1, <2>2, <2>3, ContinueTyped DEF Create, CreateFor
<1>9. ASSUME NEW r \in Runs, CreateFails(r) PROVE TypeOK'
  <2>1. Todo(r) \ run[r].at \subseteq Stations
    BY DEF RunStates, Todo
  <2> QED
    BY <1>9, <2>1, ContinueTyped DEF CreateFails
<1>10. ASSUME NEW r \in Runs, TimedOut(r) PROVE TypeOK'
  <2> DEFINE next == [run[r] EXCEPT !.late = TRUE]
  <2>1. next \in RunStates /\ next.at = run[r].at /\ next.pc = run[r].pc
    BY DEF RunStates
  <2>2. run' = [run EXCEPT ![r] = next]
    BY <1>10 DEF TimedOut
  <2>3. next.at # {} <=> next.pc = "create"
    BY <2>1
  <2> HIDE DEF next
  <2>4. run' \in [Runs -> RunStates] /\ \A q \in Runs : run'[q].at # {} <=> run'[q].pc = "create"
    BY <2>1, <2>2, <2>3, RunReplaced
  <2> QED
    BY <1>10, <2>4 DEF TimedOut, Unlocked
<1>11. ASSUME NEW r \in Runs, Crash(r) PROVE TypeOK'
  BY <1>11, <1>0, RunReplaced DEF Crash
<1>12. ASSUME NEW r \in Runs, TaskFails(r) PROVE TypeOK'
  BY <1>12, ContinueTyped DEF TaskFails
<1>13. CASE UNCHANGED vars
  BY <1>13 DEF vars
<1> QED
  BY <1>1, <1>2, <1>3, <1>4, <1>5, <1>6, <1>7, <1>8, <1>9, <1>10, <1>11, <1>12, <1>13
     DEF Next, Step

(* Every reachable state is well typed.                                    *)
THEOREM TypeCorrect == Spec => []TypeOK
<1>1. Init => TypeOK
  <2>1. Idle \in RunStates /\ Idle.at = {} /\ Idle.pc = "idle"
    BY ForecastAssumption DEF RunStates, Idle, Levels, Urgency
  <2> SUFFICES ASSUME Init PROVE TypeOK
    OBVIOUS
  <2>2. run \in [Runs -> RunStates] /\ \A r \in Runs : run[r].at # {} <=> run[r].pc = "create"
    BY <2>1 DEF Init
  <2>3. lock \in [holder : Runs \union {Nobody}, ttl : 0 .. LockTTL]
    BY ForecastAssumption DEF Init, Unlocked
  <2>4. alerts \in [Stations -> [Urgency -> 0 .. MaxAlerts]]
    BY ForecastAssumption DEF Init, NoAlerts
  <2>5. level \in [Stations -> Levels]
    BY DEF Init, Levels
  <2>6. crashes \in 0 .. MaxCrashes
    BY ForecastAssumption DEF Init
  <2>7. overrun \in BOOLEAN
    BY DEF Init
  <2> QED
    BY <2>2, <2>3, <2>4, <2>5, <2>6, <2>7 DEF TypeOK
<1> QED
  BY <1>1, TypeStep, PTL DEF Spec

-----------------------------------------------------------------------------
\* Whoever continues or ends was running, so the lock it frees was its own.
LEMMA ContinueHeld ==
    ASSUME TypeOK, LockHeld, ~overrun, NEW r \in Runs, NEW todo, Running(r), Continue(r, todo)
    PROVE  \A q \in Runs : run'[q].pc # "idle" =>
               lock'.holder = q /\ lock'.ttl > 0 /\ ~run'[q].late
<1>1. lock.holder = r /\ lock.ttl > 0 /\ ~run[r].late
  BY DEF LockHeld
<1>2. \A q \in Runs \ {r} : ~Running(q)
  BY <1>1 DEF LockHeld
<1>3. \A q \in Runs \ {r} : run'[q] = run[q]
  BY DEF Continue, TypeOK
<1>4. CASE todo # {}
  <2> DEFINE next == [run[r] EXCEPT !.pc = "find", !.peaks = Left(r, todo), !.at = {}]
  <2>1. lock' = lock /\ run' = [run EXCEPT ![r] = next]
    BY <1>4 DEF Continue
  <2>2. next.late = run[r].late
    BY DEF TypeOK, RunStates
  <2> HIDE DEF next
  <2>3. run'[r].late = run[r].late
    BY <2>1, <2>2 DEF TypeOK
  <2> QED
    BY <1>1, <1>2, <1>3, <2>1, <2>3 DEF Running
<1>5. CASE todo = {}
  <2>1. run'[r] = Idle
    BY <1>5 DEF Continue, TypeOK
  <2> QED
    BY <1>2, <1>3, <2>1 DEF Running, Idle
<1> QED
  BY <1>4, <1>5

LEMMA LockStep == TypeOK /\ LockHeld /\ [Next]_vars => LockHeld'
<1> SUFFICES ASSUME TypeOK, LockHeld, [Next]_vars, ~overrun'
             PROVE  \A q \in Runs : run'[q].pc # "idle" =>
                        lock'.holder = q /\ lock'.ttl > 0 /\ ~run'[q].late
  BY DEF LockHeld, Running
<1> DEFINE Goal == \A q \in Runs : run'[q].pc # "idle" =>
                       lock'.holder = q /\ lock'.ttl > 0 /\ ~run'[q].late
<1>0. run \in [Runs -> RunStates] /\ lock.ttl \in 0 .. LockTTL
  BY DEF TypeOK
\* the lock does not expire under a run, or that is an overrun
<1>1. CASE Tick
  <2>1. ~overrun /\ ~ \E r \in Runs : lock.ttl = 1 /\ lock.holder = r /\ Running(r)
    BY <1>1 DEF Tick, Expiring
  <2>2. ASSUME NEW q \in Runs, run'[q].pc # "idle"
        PROVE  lock'.holder = q /\ lock'.ttl > 0 /\ ~run'[q].late
    <3> DEFINE older == [run[q] EXCEPT !.age = @ + 1]
    <3>1. run'[q] = older \/ run'[q] = run[q]
      BY <1>1 DEF Tick, Aged
    <3>2. older.pc = run[q].pc /\ older.late = run[q].late
      BY <1>0 DEF RunStates
    <3>3. run'[q].pc = run[q].pc /\ run'[q].late = run[q].late
      BY <3>1, <3>2
    <3>4. Running(q) /\ lock.holder = q /\ lock.ttl > 0 /\ ~run[q].late
      BY <2>1, <2>2, <3>3 DEF LockHeld, Running
    <3>5. lock.ttl > 1
      BY <1>0, <2>1, <3>4, ForecastAssumption
    <3>6. lock' = [lock EXCEPT !.ttl = @ - 1]
      BY <1>1, <3>5 DEF Tick, Expiring
    <3>7. lock'.holder = lock.holder /\ lock'.ttl = lock.ttl - 1
      BY <3>6 DEF TypeOK
    <3> QED
      BY <1>0, <3>3, <3>4, <3>5, <3>7, ForecastAssumption
  <2> QED
    BY <2>2
<1>2. CASE Delete
  BY <1>2 DEF Delete, LockHeld, Running
<1>3. CASE NewDay
  BY <1>3 DEF NewDay, LockHeld, Running
\* nobody runs while the lock is free
<1>4. ASSUME NEW r \in Runs, Start(r) PROVE Goal
  <2>1. \A q \in Runs : ~Running(q)
    BY <1>4 DEF Start, LockHeld
  <2>2. run' = [run EXCEPT ![r] = [Idle EXCEPT !.pc = "predict"]]
    BY <1>4 DEF Start
  <2>3. run'[r].late = FALSE /\ \A q \in Runs \ {r} : run'[q] = run[q]
    BY <1>0, <2>2 DEF Idle
  <2>4. lock'.holder = r /\ lock'.ttl > 0
    BY <1>4, ForecastAssumption DEF Start
  <2> QED
    BY <2>1, <2>3, <2>4 DEF Running
<1>5. ASSUME NEW r \in Runs, Predict(r) PROVE Goal
  <2>1. \A q \in Runs : run'[q].pc # "idle" => Running(q) /\ run'[q].late = run[q].late
    BY <1>0, <1>5 DEF Predict, Running, RunStates
  <2> QED
    BY <1>5, <2>1 DEF Predict, LockHeld
<1>6. ASSUME NEW r \in Runs, Read(r) PROVE Goal
  <2>1. CASE Continue(r, {})
    BY <1>6, <2>1, ContinueHeld DEF Read, Running
  <2>2. ASSUME ~Continue(r, {}) PROVE Goal
    <3> DEFINE crossed == {s \in Stations : level[s] \in Urgency}
               next == [run[r] EXCEPT !.pc = "find", !.peaks = level]
    <3>1. run' = [run EXCEPT ![r] = next] /\ UNCHANGED <<lock, overrun>> /\ Running(r)
      BY <1>6, <2>2 DEF Read, Running
    <3>2. next.late = run[r].late
      BY <1>0 DEF RunStates
    <3> HIDE DEF next
    <3>3. \A q \in Runs : run'[q].pc # "idle" => Running(q) /\ run'[q].late = run[q].late
      BY <1>0, <3>1, <3>2 DEF Running
    <3> QED
      BY <3>1, <3>3 DEF LockHeld
  <2> QED
    BY <2>1, <2>2
<1>7. ASSUME NEW r \in Runs, Find(r) PROVE Goal
  <2>1. PICK s \in Todo(r) :
           \/ Continue(r, Todo(r) \ {s})
           \/ /\ run' = [run EXCEPT ![r].pc = "create", ![r].at = {s}]
              /\ UNCHANGED lock
    BY <1>7 DEF Find
  <2>2. Running(r) /\ ~overrun
    BY <1>7 DEF Find, Running
  <2>3. CASE Continue(r, Todo(r) \ {s})
    BY <2>2, <2>3, ContinueHeld
  <2>4. CASE run' = [run EXCEPT ![r].pc = "create", ![r].at = {s}] /\ UNCHANGED lock
    <3> DEFINE next == [run[r] EXCEPT !.pc = "create", !.at = {s}]
    <3>1. run' = [run EXCEPT ![r] = next]
      BY <2>4
    <3>2. next.late = run[r].late
      BY <1>0 DEF RunStates
    <3> HIDE DEF next
    <3>3. \A q \in Runs : run'[q].pc # "idle" => Running(q) /\ run'[q].late = run[q].late
      BY <1>0, <2>2, <3>1, <3>2 DEF Running
    <3> QED
      BY <2>2, <2>4, <3>3 DEF LockHeld
  <2> QED
    BY <2>1, <2>3, <2>4
<1>8. ASSUME NEW r \in Runs, Create(r) PROVE Goal
  <2>0. PICK s \in Stations : CreateFor(r, s)
    BY <1>8 DEF Create
  <2>1. ~overrun /\ Running(r) /\ Continue(r, Todo(r) \ {s})
    BY <2>0 DEF CreateFor, Running
  <2> QED
    BY <2>1, ContinueHeld
<1>9. ASSUME NEW r \in Runs, CreateFails(r) PROVE Goal
  BY <1>9, ContinueHeld DEF CreateFails, Running
<1>10. ASSUME NEW r \in Runs, TimedOut(r) PROVE Goal
  BY <1>10 DEF TimedOut
<1>11. ASSUME NEW r \in Runs, Crash(r) PROVE Goal
  <2>1. run'[r].pc = "idle" /\ \A q \in Runs \ {r} : run'[q] = run[q]
    BY <1>0, <1>11 DEF Crash, Idle
  <2> QED
    BY <1>11, <2>1 DEF Crash, LockHeld, Running
<1>12. ASSUME NEW r \in Runs, TaskFails(r) PROVE Goal
  BY <1>12, ContinueHeld DEF TaskFails, Running
<1>13. CASE UNCHANGED vars
  BY <1>13 DEF vars, LockHeld, Running
<1> QED
  BY <1>1, <1>2, <1>3, <1>4, <1>5, <1>6, <1>7, <1>8, <1>9, <1>10, <1>11, <1>12, <1>13
     DEF Next, Step

(* Until a run outlives its lock, whoever runs holds it.                   *)
THEOREM LockExcludes == Spec => []RunnerHoldsLock
<1>1. Init => LockHeld
  BY DEF Init, LockHeld, Running, Idle
<1>2. LockHeld => RunnerHoldsLock
  BY DEF LockHeld, RunnerHoldsLock
<1> QED
  BY <1>1, <1>2, LockStep, TypeCorrect, PTL DEF Spec

-----------------------------------------------------------------------------
\* Whoever continues or ends is not about to insert.
LEMMA ContinueEmpties ==
    ASSUME TypeOK, NEW r \in Runs, NEW todo \in SUBSET Stations, Continue(r, todo)
    PROVE  run'[r].at = {} /\ \A q \in Runs \ {r} : run'[q] = run[q]
<1>1. CASE todo # {}
  <2> DEFINE next == [run[r] EXCEPT !.pc = "find", !.peaks = Left(r, todo), !.at = {}]
  <2>1. run' = [run EXCEPT ![r] = next]
    BY <1>1 DEF Continue
  <2>2. next.at = {}
    BY DEF TypeOK, RunStates
  <2> HIDE DEF next
  <2> QED
    BY <2>1, <2>2 DEF TypeOK
<1>2. CASE todo = {}
  BY <1>2 DEF Continue, TypeOK, Idle
<1> QED
  BY <1>1, <1>2

\* A lookup that sends a warning on its way has found no alert.
LEMMA WarningFound ==
    ASSUME TypeOK, NEW s \in Stations,
           \/ Found(s) = {}
           \/ \E existing \in Found(s) : ~Covers(existing, "warning")
    PROVE  \A u \in Urgency : alerts[s][u] = 0
<1>1. CASE Found(s) = {}
  <2>1. s \in NamedIn[s]
    BY ForecastAssumption
  <2>2. \A u \in Urgency : ~(alerts[s][u] > 0) /\ alerts[s][u] \in 0 .. MaxAlerts
    BY <1>1, <2>1 DEF Found, TypeOK
  <2> QED
    BY <2>2, ForecastAssumption
<1>2. ASSUME NEW existing \in Found(s), ~Covers(existing, "warning") PROVE FALSE
  BY <1>2 DEF Covers
<1> QED
  BY <1>1, <1>2

LEMMA DueStep == TypeOK /\ LockHeld /\ WarningDue /\ [Next]_vars => WarningDue'
<1> SUFFICES ASSUME TypeOK, LockHeld, WarningDue, [Next]_vars, ~overrun',
                    NEW q \in Runs, NEW s \in run'[q].at, run'[q].peaks[s] = "warning",
                    NEW u \in Urgency
             PROVE  alerts'[s][u] = 0
  BY DEF WarningDue
<1>0. run \in [Runs -> RunStates] /\ run[q] \in RunStates
  BY DEF TypeOK
<1>a. ASSUME ~overrun, s \in run[q].at, run[q].peaks[s] = "warning"
      PROVE  alerts[s][u] = 0
  BY <1>a DEF WarningDue
<1>1. CASE Tick
  <2> DEFINE older == [run[q] EXCEPT !.age = @ + 1]
  <2>1. run'[q] = older \/ run'[q] = run[q]
    BY <1>1 DEF Tick, Aged
  <2>2. older.at = run[q].at /\ older.peaks = run[q].peaks
    BY <1>0 DEF RunStates
  <2> QED
    BY <1>1, <1>a, <2>1, <2>2 DEF Tick, Expiring
<1>2. CASE Delete
  <2>1. alerts[s][u] = 0 /\ \A v \in Urgency : alerts[s][v] = 0
    BY <1>2 DEF Delete, WarningDue
  <2>2. PICK t \in Stations, v \in Urgency :
           alerts[t][v] > 0 /\ alerts' = [alerts EXCEPT ![t][v] = @ - 1]
    BY <1>2 DEF Delete
  <2>3. t # s
    BY <2>1, <2>2
  <2>4. alerts'[s] = alerts[s]
    BY <2>2, <2>3 DEF TypeOK
  <2> QED
    BY <2>1, <2>4
<1>3. CASE NewDay
  <2>1. s \in Stations
    BY <1>0, <1>3 DEF NewDay, RunStates
  <2> QED
    BY <1>3, <2>1 DEF NewDay, NoAlerts
<1>4. ASSUME NEW r \in Runs, Start(r) PROVE alerts'[s][u] = 0
  <2>1. run' = [run EXCEPT ![r] = [Idle EXCEPT !.pc = "predict"]]
    BY <1>4 DEF Start
  <2>2. run'[r].at = {} /\ (q # r => run'[q] = run[q])
    BY <1>0, <2>1 DEF Idle
  <2> QED
    BY <1>4, <1>a, <2>2 DEF Start
<1>5. ASSUME NEW r \in Runs, Predict(r) PROVE alerts'[s][u] = 0
  <2>1. run'[q].at = run[q].at /\ run'[q].peaks = run[q].peaks
    BY <1>0, <1>5 DEF Predict, RunStates
  <2> QED
    BY <1>5, <1>a, <2>1 DEF Predict
<1>6. ASSUME NEW r \in Runs, Read(r) PROVE alerts'[s][u] = 0
  <2>1. run[r].at = {}
    BY <1>6 DEF Read, TypeOK
  <2>2. run'[r].at = {} /\ (q # r => run'[q] = run[q])
    <3>1. CASE Continue(r, {})
      BY <3>1, ContinueEmpties
    <3>2. ASSUME ~Continue(r, {})
          PROVE  run'[r].at = {} /\ (q # r => run'[q] = run[q])
      <4> DEFINE crossed == {x \in Stations : level[x] \in Urgency}
                 next == [run[r] EXCEPT !.pc = "find", !.peaks = level]
      <4>1. run' = [run EXCEPT ![r] = next]
        BY <1>6, <3>2 DEF Read
      <4>2. next.at = {}
        BY <1>0, <2>1 DEF RunStates
      <4> HIDE DEF next
      <4> QED
        BY <1>0, <4>1, <4>2
    <3> QED
      BY <3>1, <3>2
  <2> QED
    BY <1>6, <1>a, <2>2 DEF Read
\* the step that looks: a warning goes on only if there is no alert at all
<1>7. ASSUME NEW r \in Runs, Find(r) PROVE alerts'[s][u] = 0
  <2>1. PICK x \in Todo(r) :
           \/ Continue(r, Todo(r) \ {x})
           \/ /\ \/ Found(x) = {}
                 \/ \E existing \in Found(x) : ~Covers(existing, run[r].peaks[x])
              /\ run' = [run EXCEPT ![r].pc = "create", ![r].at = {x}]
    BY <1>7 DEF Find
  <2>2. x \in Stations /\ Todo(r) \in SUBSET Stations
    BY <1>0 DEF RunStates, Todo
  <2>3. UNCHANGED <<alerts, overrun>>
    BY <1>7 DEF Find
  <2>4. CASE Continue(r, Todo(r) \ {x})
    BY <1>a, <2>2, <2>3, <2>4, ContinueEmpties
  <2>5. ASSUME \/ Found(x) = {}
               \/ \E existing \in Found(x) : ~Covers(existing, run[r].peaks[x]),
               run' = [run EXCEPT ![r].pc = "create", ![r].at = {x}]
        PROVE  alerts'[s][u] = 0
    <3> DEFINE next == [run[r] EXCEPT !.pc = "create", !.at = {x}]
    <3>1. run' = [run EXCEPT ![r] = next]
      BY <2>5
    <3>2. next.at = {x} /\ next.peaks = run[r].peaks
      BY <1>0 DEF RunStates
    <3> HIDE DEF next
    <3>3. CASE q = r
      <4>1. s = x /\ run[r].peaks[x] = "warning"
        BY <1>0, <3>1, <3>2, <3>3
      <4> QED
        BY <2>2, <2>3, <2>5, <4>1, WarningFound
    <3>4. CASE q # r
      BY <1>0, <1>a, <2>3, <3>1, <3>4
    <3> QED
      BY <3>3, <3>4
  <2> QED
    BY <2>1, <2>4, <2>5
\* nobody else runs when an alert is inserted
<1>8. ASSUME NEW r \in Runs, Create(r) PROVE alerts'[s][u] = 0
  <2>1. PICK x \in run[r].at : Continue(r, Todo(r) \ {x})
    BY <1>8 DEF Create, CreateFor
  <2>2. Todo(r) \ {x} \in SUBSET Stations
    BY <1>0 DEF RunStates, Todo
  <2>3. run'[r].at = {} /\ (q # r => run'[q] = run[q])
    BY <2>1, <2>2, ContinueEmpties
  <2>4. q # r => ~Running(q)
    BY <1>8 DEF Create, CreateFor, LockHeld, Running
  <2>5. q # r => run[q].at = {}
    BY <2>4 DEF TypeOK, Running
  <2> QED
    BY <2>3, <2>5
<1>9. ASSUME NEW r \in Runs, CreateFails(r) PROVE alerts'[s][u] = 0
  <2>1. Todo(r) \ run[r].at \in SUBSET Stations
    BY <1>0 DEF RunStates, Todo
  <2> QED
    BY <1>9, <1>a, <2>1, ContinueEmpties DEF CreateFails
<1>10. ASSUME NEW r \in Runs, TimedOut(r) PROVE alerts'[s][u] = 0
  BY <1>10 DEF TimedOut
<1>11. ASSUME NEW r \in Runs, Crash(r) PROVE alerts'[s][u] = 0
  <2>1. run'[r].at = {} /\ (q # r => run'[q] = run[q])
    BY <1>0, <1>11 DEF Crash, Idle
  <2> QED
    BY <1>11, <1>a, <2>1 DEF Crash
<1>12. ASSUME NEW r \in Runs, TaskFails(r) PROVE alerts'[s][u] = 0
  BY <1>12, <1>a, ContinueEmpties DEF TaskFails
<1>13. CASE UNCHANGED vars
  BY <1>13, <1>a DEF vars
<1> QED
  BY <1>1, <1>2, <1>3, <1>4, <1>5, <1>6, <1>7, <1>8, <1>9, <1>10, <1>11, <1>12, <1>13
     DEF Next, Step

\* The only step that adds to the warnings of a station.
LEMMA WarningStep ==
    ASSUME TypeOK, WarningDue, [Next]_vars, NEW s \in Stations,
           alerts'[s]["warning"] > alerts[s]["warning"]
    PROVE  overrun \/ \A u \in Urgency : alerts[s][u] = 0
<1>0. /\ run \in [Runs -> RunStates] /\ alerts \in [Stations -> [Urgency -> 0 .. MaxAlerts]]
      /\ "warning" \in Urgency /\ alerts[s]["warning"] \in Nat /\ MaxAlerts \in Nat
  BY ForecastAssumption DEF TypeOK, Urgency
<1>1. ASSUME NEW r \in Runs, Create(r)
      PROVE  overrun \/ \A u \in Urgency : alerts[s][u] = 0
  <2>1. PICK x \in run[r].at :
           alerts' = [alerts EXCEPT ![x][run[r].peaks[x]] = IF @ < MaxAlerts THEN @ + 1 ELSE @]
    BY <1>1 DEF Create, CreateFor
  <2>2. x = s /\ run[r].peaks[x] = "warning"
    <3> DEFINE v == run[r].peaks[x]
               more == IF alerts[x][v] < MaxAlerts THEN alerts[x][v] + 1 ELSE alerts[x][v]
    <3>1. alerts' = [alerts EXCEPT ![x] = [alerts[x] EXCEPT ![v] = more]]
      BY <2>1
    <3> HIDE DEF more, v
    <3>2. x # s \/ v # "warning" => alerts'[s]["warning"] = alerts[s]["warning"]
      BY <1>0, <3>1
    <3> QED
      BY <1>0, <3>2 DEF v
  <2> QED
    BY <2>2 DEF WarningDue
<1>2. CASE Delete
  <2>1. PICK t \in Stations, v \in Urgency :
           alerts[t][v] > 0 /\ alerts' = [alerts EXCEPT ![t][v] = @ - 1]
    BY <1>2 DEF Delete
  <2>2. alerts'[s]["warning"] = alerts[s]["warning"] \/ alerts'[s]["warning"] = alerts[s]["warning"] - 1
    BY <1>0, <2>1
  <2> QED
    BY <1>0, <2>2
<1>3. CASE NewDay
  BY <1>0, <1>3 DEF NewDay, NoAlerts
<1>4. CASE UNCHANGED alerts
  BY <1>0, <1>4
<1> QED
  BY <1>1, <1>2, <1>3, <1>4
     DEF Next, Step, vars, Tick, Start, Predict, Read, Find, CreateFails, TimedOut, Crash, TaskFails

(* A warning is only ever the first alert of its station and day, unless a *)
(* run has outlived its lock.                                              *)
THEOREM WarningFirst == Spec => WarningComesFirst
<1>1. Init => LockHeld /\ WarningDue
  BY DEF Init, LockHeld, WarningDue, Running, Idle
<1>2. TypeOK /\ WarningDue /\ [Next]_vars =>
         [\A s \in Stations :
             alerts'[s]["warning"] > alerts[s]["warning"]
             => overrun \/ \A u \in Urgency : alerts[s][u] = 0]_vars
  BY WarningStep
<1>3. TypeOK /\ LockHeld /\ WarningDue /\ [Next]_vars => (LockHeld /\ WarningDue)'
  BY LockStep, DueStep
<1> QED
  BY <1>1, <1>2, <1>3, TypeCorrect, PTL DEF Spec, WarningComesFirst
=============================================================================
