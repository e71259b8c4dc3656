----------------------------- MODULE AlertPolicy -----------------------------
(***************************************************************************)
(* The alert life cycle of one alert type of the StatefulPolicy            *)
(* (internal/infra/monitoring/stateful_policy*.go): a metric crosses its   *)
(* threshold, an event is opened in Redis, a notification is due once the  *)
(* event is old enough and not debounced, and a recovery notification is   *)
(* due once the metric has stayed normal long enough.                      *)
(*                                                                         *)
(* One step of PolicyNext is one call of processDecision for this type     *)
(* under p.mu, or the passage of time, or a crash or start of the process. *)
(* Times are kept as ages, the time that has passed since, which stop      *)
(* growing at Cap: no comparison in the code tells ages beyond it apart.   *)
(* A decision carries the now its Apply read before it waited for p.mu, so *)
(* it may lag behind the clock by up to MaxLag (stateful_policy_engine.go, *)
(* line 14 against line 25).                                               *)
(***************************************************************************)
EXTENDS Naturals

CONSTANTS
    EventId,     \* random event ids
    Proc,        \* PIDs the host reports as top process
    NameOf,      \* NameOf[p], the name of process p
    Kind,        \* "process" for CPUHigh and MemHigh, "http" for HTTPErr,
                 \* "plain" for DiskHigh, RedisHigh and RedisLow
    Severity,    \* the levels that occur
    Immediate,   \* the levels whose notify_immediately is set
    Dur,         \* trigger.duration_required
    Interval,    \* trigger.alert_interval
    RecDur,      \* trigger.recovery_duration_required
    StaleAge,    \* age at which a recorded process is dropped (10 min)
    Retention,   \* the TTL of a state in Redis
    MaxLag,      \* bound on the wait for p.mu
    MaxGap,      \* bound on the time between two readings of a live process
    Cap,         \* the age at which ages stop growing
    Faults,      \* may Redis calls fail?
    None

\* The wait between two recoveries of one event: half of alert_interval, and
\* at least one minute (stateful_policy_recovery.go:107).
RecDebounce == IF Interval \div 2 < 1 THEN 1 ELSE Interval \div 2

ASSUME PolicyConstants ==
    /\ Dur \in Nat \ {0} /\ Interval \in Nat \ {0} /\ RecDur \in Nat \ {0}
    /\ StaleAge \in Nat /\ Retention \in Nat \ {0}
    /\ MaxLag \in Nat /\ MaxGap \in Nat \ {0} /\ Cap \in Nat
    /\ Cap >= Dur + MaxLag /\ Cap >= Interval + MaxLag
    /\ Cap >= RecDur + MaxLag /\ Cap > StaleAge
    /\ Immediate \subseteq Severity
    /\ Kind \in {"process", "http", "plain"} /\ Faults \in BOOLEAN
    /\ \A p \in Proc : NameOf[p] # None
    /\ Kind # "process" => Proc = {}

ASSUME NoneIsNoValue ==
    None \notin Nat /\ None \notin EventId /\ None \notin Proc

ByProcess == Kind = "process"

Age == 0 .. Cap
Name == {NameOf[p] : p \in Proc} \cup {None}

\* domain/monitoring/alert_state_storage.go: what a later step reads of it.
\* procs gives the age of LastSeenTime of each recorded PID; idle is the age
\* of the last write, which the TTL counts from.
AlertState == [name : Name, severity : Severity, age : Age, sent : BOOLEAN,
               procs : [Proc -> Age \cup {None}], idle : 0 .. Retention]

ASSUME NoneIsNoState == None \notin AlertState

VARIABLES
    store,        \* Redis: event id -> AlertState, with its two indexes
    lastAlert,    \* memory: age of lastAlertTimes[id]
    lastRecovery, \* memory: age of lastAlertTimes[id_recovery]
    recStart,     \* memory: age of recoveryStartTimes[type_recovery_start_id]
    up,           \* is the process running?
    uptime,       \* its age, up to MaxLag
    gap,          \* time since the last reading, or since the start
    out,          \* what the last step returned to the caller
    \* history, read by the properties only
    reading,      \* what the last decision said
    okAge,        \* age of the last decision that found the metric normal
    badAge,       \* age of the last decision that found it not normal
    alerted,      \* events an alert was returned for
    recovered     \* events a recovery was returned for

redis   == <<store>>
memory  == <<lastAlert, lastRecovery, recStart>>
host    == <<up, uptime, gap>>
history == <<reading, okAge, badAge, alerted, recovered>>
vars    == <<store, lastAlert, lastRecovery, recStart, up, uptime, gap, out,
             reading, okAge, badAge, alerted, recovered>>

Ages == [EventId -> Age \cup {None}]
Readings == {"none", "ok", "hot", "high", "unjudged", "error"}
NoResult == [kind |-> "none", ev |-> None]
Result == [kind : {"none", "alert", "recovery", "error"}, ev : EventId \cup {None}]

TypeOK ==
    /\ store \in [EventId -> AlertState \cup {None}]
    /\ lastAlert \in Ages /\ lastRecovery \in Ages /\ recStart \in Ages
    /\ up \in BOOLEAN /\ uptime \in 0 .. MaxLag /\ gap \in 0 .. MaxGap
    /\ out \in Result
    /\ reading \in Readings /\ okAge \in Age /\ badAge \in Age
    /\ alerted \subseteq EventId /\ recovered \subseteq EventId

Init ==
    /\ store = [e \in EventId |-> None]
    /\ lastAlert = [e \in EventId |-> None]
    /\ lastRecovery = [e \in EventId |-> None]
    /\ recStart = [e \in EventId |-> None]
    /\ up = TRUE /\ uptime = 0 /\ gap = 0
    /\ out = NoResult
    /\ reading = "none" /\ okAge = 0 /\ badAge = 0
    /\ alerted = {} /\ recovered = {}

-----------------------------------------------------------------------------
(* Reads.  SMEMBERS lists ids in any order and the code takes the first     *)
(* whose state it can read; an answer is one of these ids, or None when     *)
(* there is none or a call fails.                                           *)

Live == {e \in EventId : store[e] # None}

\* Success or failure of one Redis write.
Call == IF Faults THEN BOOLEAN ELSE {TRUE}

Answers(ids) == IF ids = {} \/ Faults THEN ids \cup {None} ELSE ids

\* Fault of GetByProcessName: addIndexes leaves the name out.
GetByProcessName_Unindexed(n) == Answers({})

GetByProcessName(n) == Answers({e \in Live : n # None /\ store[e].name = n})

GetByType == Answers(Live)

\* findAlertState: by process name for CPUHigh and MemHigh, then by type.
FindAlertState(n) ==
    IF ~ByProcess THEN GetByType
    ELSE (GetByProcessName(n) \ {None})
         \cup (IF None \in GetByProcessName(n) THEN GetByType ELSE {})

\* Fault of FindExisting: every type is looked up by process name.
FindExisting_NameOnly(n) == GetByProcessName(n)

\* findExistingState: CPUHigh and MemHigh are looked up by name only.
FindExisting(n) == IF ByProcess THEN GetByProcessName(n) ELSE GetByType

\* An id out of the store may stand for a new random id: no code path reaches
\* the entries the maps still hold for the old one.
FreshId == EventId \ Live

-----------------------------------------------------------------------------
(* The recovery flow: handleRecovery and executeRecoveryFlow.              *)

\* Fault of Delete: the call is forgotten.
Delete_Forgotten(e, ok) == UNCHANGED store

\* DeleteAlertStateByEventID(e); an error is logged and ignored.
Delete(e, ok) == store' = IF ok THEN [store EXCEPT ![e] = None] ELSE store

\* allProcessesRecovered is false: a recorded PID is among the hot ones.
StillHot(e, hot) == \E p \in hot : e \in Live /\ store[e].procs[p] # None

\* Fault of Notified: the check for an earlier alert is dropped.
Notified_Unchecked(e) == TRUE

\* hasPriorAlertNotification.
Notified(e) == store[e].sent \/ lastAlert[e] # None

\* Fault of RecoveryStart: a running timer is not looked up.
RecoveryStart_Restarted(e, lag) == lag

\* getOrSetRecoveryStartTime.
RecoveryStart(e, lag) == IF recStart[e] = None THEN lag ELSE recStart[e]

RecoveryDebounced(e, lag) ==
    lastRecovery[e] # None /\ lastRecovery[e] < lag + RecDebounce

\* Fault of DropUnsent: the event nobody was told of is kept.
DropUnsent_Kept(e) ==
    /\ ~Notified(e)
    /\ out' = NoResult
    /\ UNCHANGED <<store, memory, recovered>>

\* The metric is back but no alert was ever sent: the event is dropped.
DropUnsent(e) ==
    /\ ~Notified(e)
    /\ \E ok \in Call : Delete(e, ok)
    /\ out' = NoResult
    /\ UNCHANGED <<memory, recovered>>

\* The metric is back, for less than RecDur or just after another recovery.
AwaitRecovery(e, lag) ==
    /\ Notified(e)
    /\ RecoveryStart(e, lag) < lag + RecDur \/ RecoveryDebounced(e, lag)
    /\ recStart' = [recStart EXCEPT ![e] = RecoveryStart(e, lag)]
    /\ out' = NoResult
    /\ UNCHANGED <<store, lastAlert, lastRecovery, recovered>>

EmitRecovery(e, lag) ==
    /\ Notified(e)
    /\ RecoveryStart(e, lag) >= lag + RecDur
    /\ ~RecoveryDebounced(e, lag)
    /\ \E ok \in Call : Delete(e, ok)
    /\ recStart' = [recStart EXCEPT ![e] = None]
    /\ lastRecovery' = [lastRecovery EXCEPT ![e] = lag]
    /\ out' = [kind |-> "recovery", ev |-> e]
    /\ recovered' = recovered \cup {e}
    /\ UNCHANGED lastAlert

\* checkLocalRecovery holds: the metric itself is below its base.
HandleRecovery(n, hot, lag) ==
    /\ \E e \in FindAlertState(n) :
         \/ /\ e \in Live /\ ~StillHot(e, hot)
            /\ DropUnsent(e) \/ AwaitRecovery(e, lag) \/ EmitRecovery(e, lag)
         \/ /\ e = None \/ StillHot(e, hot)
            /\ out' = NoResult
            /\ UNCHANGED <<store, memory, recovered>>
    /\ reading' = IF hot = {} THEN "ok" ELSE "hot"
    /\ okAge' = lag
    /\ UNCHANGED <<badAge, alerted>>

-----------------------------------------------------------------------------
(* The alert flow: clearRecoveryStartTimeIfNeeded, findOrCreateAlertState  *)
(* and evaluateAndEmitAlert.                                               *)

\* Fault of ClearedTimers: a relapse does not stop the recovery timer.
ClearedTimers_Kept(n) == {recStart}

\* The timers after clearRecoveryStartTimeIfNeeded: the timer of one found
\* event is stopped, those of other events keep running.
ClearedTimers(n) ==
    {IF e = None THEN recStart ELSE [recStart EXCEPT ![e] = None] : e \in FindAlertState(n)}

\* updateProcessInfo, then cleanupStaleProcesses.
SeenProcs(procs, pid) ==
    [p \in Proc |-> IF p = pid THEN 0
                    ELSE IF procs[p] # None /\ procs[p] > StaleAge THEN None
                    ELSE procs[p]]

\* Fault of Updated: an update restarts the duration.
Updated_Restarted(st, pid, sev) ==
    [st EXCEPT !.severity = sev, !.age = 0, !.procs = SeenProcs(st.procs, pid)]

\* updateExistingState, on the copy that was read.
Updated(st, pid, sev) ==
    [st EXCEPT !.severity = sev, !.procs = SeenProcs(st.procs, pid)]

\* Fault of NewState: the state is saved without its level.
NewState_NoLevel(n, pid, sev, lag) ==
    [name |-> n, severity |-> None, age |-> lag, sent |-> FALSE,
     procs |-> [p \in Proc |-> IF p = pid THEN 0 ELSE None], idle |-> 0]

\* createNewState.
NewState(n, pid, sev, lag) ==
    [name |-> n, severity |-> sev, age |-> lag, sent |-> FALSE,
     procs |-> [p \in Proc |-> IF p = pid THEN 0 ELSE None], idle |-> 0]

\* passedDebounce, on the map m of alert times.
PassedDebounce(m, e, sev, lag) ==
    \/ m[e] = None
    \/ sev \notin Immediate /\ m[e] >= lag + Interval

\* evaluateAndEmitAlert: st is the copy in hand, base the store before the
\* write and m the alert times.  The write is persistAlertState, whose error
\* is ignored.
Evaluate(e, st, base, m, sev, lag) ==
    LET due == st.age >= lag + Dur /\ PassedDebounce(m, e, sev, lag)
        written == [st EXCEPT !.sent = due \/ st.sent, !.idle = 0]
    IN  /\ \E ok \in Call : store' = IF ok THEN [base EXCEPT ![e] = written] ELSE base
        /\ lastAlert' = IF due THEN [m EXCEPT ![e] = lag] ELSE m
        /\ out' = IF due THEN [kind |-> "alert", ev |-> e] ELSE NoResult

Emitted(old) == old \cup (IF out'.kind = "alert" THEN {out'.ev} ELSE {})

UpdateEvent(n, pid, sev, lag, timers) ==
    /\ \E e \in FindExisting(n) \ {None} :
         Evaluate(e, Updated(store[e], pid, sev), store, lastAlert, sev, lag)
    /\ recStart' = timers
    /\ alerted' = Emitted(alerted)
    /\ UNCHANGED <<lastRecovery, recovered>>

\* A state for id e is built; with Apply it is saved before it is evaluated
\* and a failed save ends the decision, with PeekApply it is only evaluated.
StartEvent(e, st, sev, lag, peek, m) ==
    \/ peek /\ Evaluate(e, st, store, m, sev, lag)
    \/ ~peek /\ Evaluate(e, st, [store EXCEPT ![e] = st], m, sev, lag)
    \/ /\ ~peek /\ FALSE \in Call
       /\ lastAlert' = m /\ out' = NoResult /\ UNCHANGED store

\* createNewState after a second look for an event of the same process, whose
\* id it would reuse: that event starts again.
ReuseEvent(n, pid, sev, lag, peek, timers) ==
    /\ ByProcess
    /\ None \in FindExisting(n)
    /\ \E e \in GetByProcessName(n) \ {None} :
         StartEvent(e, NewState(n, pid, sev, lag), sev, lag, peek, lastAlert)
    /\ recStart' = timers
    /\ alerted' = Emitted(alerted)
    /\ UNCHANGED <<lastRecovery, recovered>>

CreateEvent(n, pid, sev, lag, peek, timers) ==
    /\ None \in FindExisting(n)
    /\ \E e \in FreshId :
         /\ StartEvent(e, NewState(n, pid, sev, lag), sev, lag, peek,
                       [lastAlert EXCEPT ![e] = None])
         /\ lastRecovery' = [lastRecovery EXCEPT ![e] = None]
         /\ recStart' = [timers EXCEPT ![e] = None]
         /\ alerted' = Emitted(alerted \ {e})
         /\ recovered' = recovered \ {e}

\* The metric is at or above the threshold of level sev.
HandleHigh(n, pid, sev, lag, peek) ==
    /\ \E timers \in ClearedTimers(n) :
         \/ UpdateEvent(n, pid, sev, lag, timers)
         \/ ReuseEvent(n, pid, sev, lag, peek, timers)
         \/ CreateEvent(n, pid, sev, lag, peek, timers)
    /\ reading' = "high" /\ badAge' = lag
    /\ UNCHANGED okAge

\* Not recovered and not an alert either: an HTTP collection error, with value
\* 0 (stateful_policy_engine.go:135 with shouldContinue).  The policy handles it;
\* the Init of the collector it runs with today never fails.
HandleUnjudged(lag) ==
    /\ Kind = "http"
    /\ recStart' \in ClearedTimers(None)
    /\ reading' = "unjudged" /\ badAge' = lag
    /\ out' = NoResult
    /\ UNCHANGED <<store, lastAlert, lastRecovery, okAge, alerted, recovered>>

\* The metric could not be collected: the evaluator decides on the error type
\* instead, which has no threshold.  Its id is new on every call, so the map
\* of alert times never holds it (handleNoConfigAlert).
HandleNoConfig(e, lag) ==
    /\ Kind # "http"
    /\ e \in FreshId
    /\ lastAlert' = [lastAlert EXCEPT ![e] = lag]
    /\ out' = [kind |-> "error", ev |-> e]
    /\ reading' = "error"
    /\ alerted' = alerted \ {e} /\ recovered' = recovered \ {e}
    /\ UNCHANGED <<store, lastRecovery, recStart, okAge, badAge>>

-----------------------------------------------------------------------------
(* The decisions of the evaluator, one processDecision each.               *)

\* PID and name of the top process; "default" and "" when it is unknown or
\* the alert type has none.
Subject == {<<p, NameOf[p]>> : p \in Proc} \cup {<<None, None>>}

Lag == 0 .. uptime

\* A decision runs in a live process and is its latest reading.
Decision ==
    /\ up
    /\ gap' = 0
    /\ UNCHANGED <<up, uptime>>

ReadNormal ==
    /\ Decision
    /\ \E s \in Subject, hot \in SUBSET Proc, lag \in Lag :
         HandleRecovery(s[2], hot, lag)

ReadHigh ==
    /\ Decision
    /\ \E s \in Subject, sev \in Severity, lag \in Lag, peek \in BOOLEAN :
         HandleHigh(s[2], s[1], sev, lag, peek)

ReadUnjudged == Decision /\ \E lag \in Lag : HandleUnjudged(lag)

ReadError == Decision /\ \E e \in EventId, lag \in Lag : HandleNoConfig(e, lag)

-----------------------------------------------------------------------------
(* The environment.                                                        *)

Older(a) == IF a = None THEN None ELSE IF a < Cap THEN a + 1 ELSE Cap

\* A state nobody has written for Retention leaves Redis; its index entries
\* stay but lead to no state.
Aged(st) ==
    IF st = None \/ st.idle + 1 >= Retention THEN None
    ELSE [st EXCEPT !.age = Older(st.age), !.idle = st.idle + 1,
                    !.procs = [p \in Proc |-> Older(st.procs[p])]]

\* One unit of time.  A live process reads its metrics at least once every
\* MaxGap; one that is down may stay down.
Tick ==
    /\ up => gap < MaxGap
    /\ gap' = IF up THEN gap + 1 ELSE gap
    /\ uptime' = IF up /\ uptime < MaxLag THEN uptime + 1 ELSE uptime
    /\ store' = [e \in EventId |-> Aged(store[e])]
    /\ lastAlert' = [e \in EventId |-> Older(lastAlert[e])]
    /\ lastRecovery' = [e \in EventId |-> Older(lastRecovery[e])]
    /\ recStart' = [e \in EventId |-> Older(recStart[e])]
    /\ okAge' = Older(okAge) /\ badAge' = Older(badAge)
    /\ out' = NoResult
    /\ UNCHANGED <<up, reading, alerted, recovered>>

\* The maps of NewStatefulPolicy are empty; the states in Redis survive.
Crash ==
    /\ up
    /\ up' = FALSE /\ uptime' = 0 /\ gap' = 0
    /\ lastAlert' = [e \in EventId |-> None]
    /\ lastRecovery' = [e \in EventId |-> None]
    /\ recStart' = [e \in EventId |-> None]
    /\ out' = NoResult
    /\ UNCHANGED <<store, history>>

Start ==
    /\ ~up
    /\ up' = TRUE
    /\ out' = NoResult
    /\ UNCHANGED <<store, memory, uptime, gap, history>>

Read == ReadNormal \/ ReadHigh \/ ReadUnjudged \/ ReadError

Next == Read \/ Tick \/ Crash \/ Start

Spec == Init /\ [][Next]_vars

\* The tickers of the two cycles keep firing while the process is up.
Fairness == WF_vars(Tick) /\ WF_vars(Read) /\ WF_vars(Start)

FairSpec == Spec /\ Fairness

-----------------------------------------------------------------------------
(* Properties.                                                             *)

\* "There is a recovery only where there was an alert"
\* (stateful_policy_recovery.go:82), whatever crashes, failing Redis calls and
\* reused ids come between the two.
RecoveryAfterAlert == out.kind = "recovery" => out.ev \in alerted

\* While no Redis call fails, one process name, or one type, has one open
\* event, across crashes and expiries; otherwise the readings of one problem
\* would be spread over several events.
OneEventPerKey ==
    ~Faults => \A e, f \in Live :
        \/ e = f
        \/ ByProcess /\ (store[e].name # store[f].name \/ store[e].name = None)

\* duration_required (config_example.yml:27-28): for a type with one event, the
\* first alert of an event comes after readings that were abnormal for Dur,
\* up to the wait for the lock: a normal reading in between drops the event.
AlertAfterContinuousHigh ==
    [][(out'.kind = "alert" /\ out'.ev \notin alerted) => okAge + MaxLag >= Dur]_vars

\* recovery_duration_required (config_example.yml:30-31): a recovery comes after
\* readings that were normal for RecDur, up to the wait for the lock.
RecoveryAfterContinuousNormal ==
    [][out'.kind = "recovery" => badAge + MaxLag >= RecDur]_vars

\* While no Redis call fails a recovery ends its event: no later notification,
\* alert or recovery, carries its id.
RecoveryIsFinal ==
    [][out'.kind \in {"alert", "recovery"} => out'.ev \notin recovered]_vars

\* While no Redis call fails the policy keeps the promises of AlertLifecycle:
\* an event is notified when the code would find evidence of its alert.
Phase == [e \in EventId |-> IF e \notin Live THEN "closed"
                            ELSE IF Notified(e) THEN "notified" ELSE "open"]

Lifecycle == INSTANCE AlertLifecycle WITH phase <- Phase

ImplementsLifecycle == Lifecycle!Spec

\* A metric that stays abnormal in a process that stays up is alerted, even if
\* the process crashed while the event was open.
HighIsAlerted ==
    <>[](up /\ reading = "high") => <>[](\E e \in Live : store[e].sent)

\* An alerted event is closed with a recovery, and not by its TTL, when from
\* now on everything is normal in a process that stays up, if the TTL leaves
\* the time for it: two waits for a reading, the longer of the two waits of
\* the recovery flow, and one unit in which the last of them is read.
TimeToRecover ==
    2 * MaxGap + 1 + (IF RecDur > RecDebounce THEN RecDur ELSE RecDebounce)

AlertedIsRecovered ==
    \A e \in EventId :
        [](/\ e \in Live \cap alerted
           /\ up /\ store[e].idle + TimeToRecover < Retention
           /\ [](up /\ reading = "ok")
           => <>(e \in recovered))
=============================================================================
