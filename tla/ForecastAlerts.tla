--------------------------- MODULE ForecastAlerts ---------------------------
(* The hourly forecast task (services/scheduler.ts, mlClient.ts,           *)
(* aiAlertGenerator.ts): a Redis lock lets one run in at a time, the run   *)
(* stores new forecasts and ships an alert for every station whose         *)
(* forecast crosses a threshold, unless today's alerts already say so.     *)
(*                                                                         *)
(* A run is one call of runMlPredict in whichever API instance its timer   *)
(* fired.  The task is raced against a timeout: when that wins, the lock   *)
(* is released and the task goes on without it.  An instance that found no *)
(* Redis when it started runs every task without a lock (scheduler.ts:28,  *)
(* 157-160); every instance here has one.                                  *)
EXTENDS Naturals

CONSTANTS
    Runs,        \* calls of the task at a time
    Nobody,      \* no holder
    Stations,
    NamedIn,     \* NamedIn[s]: stations whose alert titles contain s's name
    LockTTL,     \* seconds the lock lives, counted in ticks
    Timeout,     \* TASK_TIMEOUT_MS, in ticks
    MaxAlerts,   \* alerts of one kind are counted up to this
    MaxCrashes   \* bound on the crashes and failed queries

ASSUME ForecastAssumption ==
    /\ Nobody \notin Runs
    /\ NamedIn \in [Stations -> SUBSET Stations]
    /\ \A s \in Stations : s \in NamedIn[s]
    /\ LockTTL \in Nat \ {0} /\ Timeout \in Nat \ {0}
    /\ MaxAlerts \in Nat \ {0} /\ MaxCrashes \in Nat

Urgency == {"warning", "critical"}
\* The peak of a station's forecast against its danger level.
Levels == {"calm"} \union Urgency

VARIABLES
    lock,      \* scheduler:ml-predict: who set it, and its remaining life
    run,       \* run[r]
    level,     \* the stored forecast of each station
    alerts,    \* today's alerts by station and urgency, deleted ones aside
    crashes,   \* how many runs have died or thrown
    overrun    \* history: a run outlived its lock

vars == <<lock, run, level, alerts, crashes, overrun>>

\* age: since the lock was taken; late: the timeout has fired; peaks: what was
\* read, of the stations still to be looked at; at: the one looked up.
RunStates ==
    [pc : {"idle", "predict", "read", "find", "create"}, age : 0 .. Timeout,
     late : BOOLEAN, peaks : [Stations -> Levels], at : SUBSET Stations]
Idle == [pc |-> "idle", age |-> 0, late |-> FALSE, at |-> {},
         peaks |-> [s \in Stations |-> "calm"]]

TypeOK ==
    /\ lock \in [holder : Runs \union {Nobody}, ttl : 0 .. LockTTL]
    /\ run \in [Runs -> RunStates]
    /\ \A r \in Runs : run[r].at # {} <=> run[r].pc = "create"
    /\ level \in [Stations -> Levels]
    /\ alerts \in [Stations -> [Urgency -> 0 .. MaxAlerts]]
    /\ crashes \in 0 .. MaxCrashes
    /\ overrun \in BOOLEAN

Unlocked == [holder |-> Nobody, ttl |-> 0]
NoAlerts == [s \in Stations |-> [u \in Urgency |-> 0]]

Init ==
    /\ lock = Unlocked
    /\ run = [r \in Runs |-> Idle]
    /\ level = [s \in Stations |-> "calm"]
    /\ alerts = NoAlerts
    /\ crashes = 0
    /\ overrun = FALSE

Running(r) == run[r].pc # "idle"

-----------------------------------------------------------------------------
\* mutant: the lock is taken whether or not it is held
StartAnyway(r) ==
    /\ run[r] = Idle
    /\ lock' = [holder |-> r, ttl |-> LockTTL]
    /\ run' = [run EXCEPT ![r].pc = "predict"]
    /\ UNCHANGED <<level, alerts, crashes, overrun>>

(* A timer fires, and SET NX EX finds no lock.                             *)
Start(r) ==
    /\ run[r] = Idle
    /\ lock.ttl = 0
    /\ lock' = [holder |-> r, ttl |-> LockTTL]
    /\ run' = [run EXCEPT ![r].pc = "predict"]
    /\ UNCHANGED <<level, alerts, crashes, overrun>>

(* fetchAndStorePredictions: every station's forecast is replaced, or kept *)
(* when the service or the write fails.                                    *)
Predict(r) ==
    /\ run[r].pc = "predict"
    /\ level' \in [Stations -> Levels]
    /\ run' = [run EXCEPT ![r].pc = "read"]
    /\ UNCHANGED <<lock, alerts, crashes, overrun>>

\* The crossed stations a run has not looked at yet.
Todo(r) == {s \in Stations : run[r].peaks[s] # "calm"}
Left(r, todo) == [s \in Stations |-> IF s \in todo THEN run[r].peaks[s] ELSE "calm"]

\* After the last station the task is over: finally, the lock is released,
\* whoever holds it; a run that timed out has done so before.
Continue(r, todo) ==
    IF todo # {}
    THEN /\ run' = [run EXCEPT ![r].pc = "find", ![r].peaks = Left(r, todo),
                               ![r].at = {}]
         /\ UNCHANGED lock
    ELSE /\ run' = [run EXCEPT ![r] = Idle]
         /\ lock' = IF run[r].late THEN lock ELSE Unlocked

(* runAiAlertCheck reads the forecasts once and keeps the peaks.           *)
Read(r) ==
    /\ run[r].pc = "read"
    /\ LET crossed == {s \in Stations : level[s] \in Urgency} IN
       IF crossed # {}
       THEN /\ run' = [run EXCEPT ![r].pc = "find", ![r].peaks = level]
            /\ UNCHANGED lock
       ELSE Continue(r, {})
    /\ UNCHANGED <<level, alerts, crashes, overrun>>

\* What findFirst may return: any of the alerts whose title has the name.
Found(s) == {u \in Urgency : \E t \in NamedIn[s] : alerts[t][u] > 0}

\* mutant: an alert of either kind is no reason to skip
NeverCovered(existing, peak) == existing = "critical" /\ peak = "calm"
\* mutant: any alert of the day is enough
AlwaysCovered(existing, peak) == existing \in Urgency

\* Skip: the alert found is critical already, or the peak is not.
Covers(existing, peak) == existing = "critical" \/ peak # "critical"

Find(r) ==
    /\ run[r].pc = "find"
    /\ \E s \in Todo(r) :
         \/ /\ \E existing \in Found(s) : Covers(existing, run[r].peaks[s])
            /\ Continue(r, Todo(r) \ {s})
         \/ /\ \/ Found(s) = {}
               \/ \E existing \in Found(s) : ~Covers(existing, run[r].peaks[s])
            /\ run' = [run EXCEPT ![r].pc = "create", ![r].at = {s}]
            /\ UNCHANGED lock
    /\ UNCHANGED <<level, alerts, crashes, overrun>>

\* The row is inserted and broadcast, ...
CreateFor(r, s) ==
    /\ run[r].pc = "create"
    /\ s \in run[r].at
    /\ LET u == run[r].peaks[s] IN
       alerts' = [alerts EXCEPT ![s][u] = IF @ < MaxAlerts THEN @ + 1 ELSE @]
    /\ Continue(r, Todo(r) \ {s})
    /\ UNCHANGED <<level, crashes, overrun>>
Create(r) == \E s \in Stations : CreateFor(r, s)

\* ... or the insert fails, which is logged.
CreateFails(r) ==
    /\ run[r].pc = "create"
    /\ Continue(r, Todo(r) \ run[r].at)
    /\ UNCHANGED <<level, alerts, crashes, overrun>>

(* The timeout wins the race: finally releases the lock, whoever holds it, *)
(* and the task runs on.                                                   *)
TimedOut(r) ==
    /\ Running(r) /\ ~run[r].late
    /\ run[r].age = Timeout
    /\ run' = [run EXCEPT ![r].late = TRUE]
    /\ lock' = Unlocked
    /\ overrun' = TRUE
    /\ UNCHANGED <<level, alerts, crashes>>

\* The instance dies; its lock stays until it expires.
Crash(r) ==
    /\ Running(r)
    /\ crashes < MaxCrashes
    /\ crashes' = crashes + 1
    /\ run' = [run EXCEPT ![r] = Idle]
    /\ UNCHANGED <<lock, level, alerts, overrun>>

\* A query throws: the task ends here, and its lock is released.
TaskFails(r) ==
    /\ run[r].pc \in {"read", "find"}
    /\ crashes < MaxCrashes
    /\ crashes' = crashes + 1
    /\ Continue(r, {})
    /\ UNCHANGED <<level, alerts, overrun>>

Aged == [r \in Runs |-> IF Running(r) /\ ~run[r].late
                        THEN [run[r] EXCEPT !.age = @ + 1] ELSE run[r]]
Expiring ==
    /\ lock' = IF lock.ttl > 1 THEN [lock EXCEPT !.ttl = @ - 1] ELSE Unlocked
    /\ overrun' = (overrun \/ \E r \in Runs : lock.ttl = 1 /\ lock.holder = r /\ Running(r))

(* Time goes on; a timeout fires when it is due.                           *)
Tick ==
    /\ \A r \in Runs : Running(r) /\ ~run[r].late => run[r].age < Timeout
    /\ run' = Aged
    /\ Expiring
    /\ UNCHANGED <<level, alerts, crashes>>

\* A coordinator deletes an alert (DELETE /alerts/:id).
Delete ==
    /\ \E s \in Stations, u \in Urgency :
         /\ alerts[s][u] > 0
         /\ alerts' = [alerts EXCEPT ![s][u] = @ - 1]
    /\ UNCHANGED <<lock, run, level, crashes, overrun>>

\* UTC midnight: yesterday's alerts no longer count.
NewDay ==
    /\ alerts # NoAlerts
    /\ alerts' = NoAlerts
    /\ UNCHANGED <<lock, run, level, crashes, overrun>>

Step(r) == Predict(r) \/ Read(r) \/ Find(r) \/ Create(r) \/ CreateFails(r)
Next ==
    \/ Tick \/ Delete \/ NewDay
    \/ \E r \in Runs : Start(r) \/ Step(r) \/ TimedOut(r) \/ Crash(r) \/ TaskFails(r)

(* Timers keep firing and queries answer; the insert for a station, tried  *)
(* again and again, succeeds at last.                                      *)
Fairness ==
    /\ WF_vars(Tick)
    /\ WF_vars(\E r \in Runs : Start(r))
    /\ \A r \in Runs : WF_vars(Step(r))
    /\ \A s \in Stations : SF_vars(\E r \in Runs : CreateFor(r, s))

Spec == Init /\ [][Next]_vars
FairSpec == Spec /\ Fairness

-----------------------------------------------------------------------------
(* As long as no run has outlived its lock, a run that is going on holds   *)
(* it: at most one runs, and none is deprived of its lock by the release   *)
(* of another (scheduler.ts:33 deletes the key whoever set it).            *)
RunnerHoldsLock ==
    ~overrun => \A r \in Runs : Running(r) => lock.holder = r /\ lock.ttl > 0

(* A warning is only ever the first alert of its station and day: neither  *)
(* a second one nor a downgrade, unless two runs overlapped                *)
(* (aiAlertGenerator.ts:119).                                              *)
WarningComesFirst ==
    [][\A s \in Stations :
          alerts'[s]["warning"] > alerts[s]["warning"]
          => overrun \/ \A u \in Urgency : alerts[s][u] = 0]_vars

(* While the forecast of a station stays above the danger level there is,  *)
(* again and again, every day anew, a critical alert that names it: its    *)
(* own, or one that the lookup by title takes for it.  Runs may crash with *)
(* the lock in hand, inserts fail, alerts be deleted, and the day may have *)
(* begun with a warning.                                                   *)
DangerIsAnnounced ==
    \A s \in Stations :
        <>[](level[s] = "critical")
        => []<>(\E t \in NamedIn[s] : alerts[t]["critical"] > 0)

(* A crossed station is left out only if an alert of its own covers it     *)
(* (aiAlertGenerator.ts:5: "Deduplicates one-per-station-per-day").        *)
SkipsOnlyCovered ==
    [][\A r \in Runs : \A s \in Todo(r) :
          run[r].pc = "find" /\ s \notin Todo(r)' /\ run'[r].pc # "idle"
          => \E u \in Urgency : alerts[s][u] > 0]_vars

=============================================================================
