-------------------------- MODULE AlertPolicyProofs --------------------------
(***************************************************************************)
(* What AlertPolicy guarantees for every number of events and processes,   *)
(* every configuration of the times, and with or without failing Redis     *)
(* calls.                                                                  *)
(***************************************************************************)
EXTENDS AlertPolicy, TLAPS

LEMMA ZeroIsAge == 0 \in Age /\ Age \subseteq Nat
  BY PolicyConstants DEF Age

\* A lag is an age that Dur, Interval and RecDur can be added to below Cap.
LEMMA LagIsAge == TypeOK => Lag \subseteq Age
  BY PolicyConstants DEF TypeOK, Lag, Age

LEMMA OlderType == \A a \in Age \cup {None} : Older(a) \in Age \cup {None}
  BY PolicyConstants, NoneIsNoValue DEF Older, Age

LEMMA OlderAge == \A a \in Age : Older(a) \in Age
  BY PolicyConstants, NoneIsNoValue DEF Older, Age

\* What is in the store of a live event is a state.
LEMMA LiveState == TypeOK => \A e \in Live : e \in EventId /\ store[e] \in AlertState
  BY DEF TypeOK, Live

\* A read answers with a live event or with None.
LEMMA ReadsAnswerLive ==
    ASSUME NEW n
    PROVE  /\ FindAlertState(n) \subseteq Live \cup {None}
           /\ FindExisting(n) \subseteq Live \cup {None}
           /\ GetByProcessName(n) \subseteq Live \cup {None}
  BY DEF FindAlertState, FindExisting, GetByProcessName, GetByType, Answers

LEMMA ClearedTimersType ==
    ASSUME TypeOK, NEW n, NEW timers \in ClearedTimers(n)
    PROVE  timers \in Ages
  BY ReadsAnswerLive, NoneIsNoValue DEF ClearedTimers, Live, TypeOK, Ages

LEMMA SeenProcsType ==
    ASSUME NEW procs \in [Proc -> Age \cup {None}], NEW pid
    PROVE  SeenProcs(procs, pid) \in [Proc -> Age \cup {None}]
  BY ZeroIsAge DEF SeenProcs

LEMMA UpdatedType ==
    ASSUME NEW st \in AlertState, NEW pid, NEW sev \in Severity
    PROVE  Updated(st, pid, sev) \in AlertState
  BY SeenProcsType DEF Updated, AlertState

LEMMA NewStateType ==
    ASSUME NEW n \in Name, NEW pid, NEW sev \in Severity, NEW lag \in Age
    PROVE  NewState(n, pid, sev, lag) \in AlertState
  BY ZeroIsAge, PolicyConstants DEF NewState, AlertState

LEMMA AgedType ==
    ASSUME NEW st \in AlertState \cup {None}
    PROVE  Aged(st) \in AlertState \cup {None}
  <1>1. CASE st = None \/ st.idle + 1 >= Retention
    BY <1>1 DEF Aged
  <1>2. CASE st # None /\ ~(st.idle + 1 >= Retention)
    <2>1. st \in AlertState
      BY <1>2
    <2>2. /\ Older(st.age) \in Age
          /\ st.idle + 1 \in 0 .. Retention
          /\ [p \in Proc |-> Older(st.procs[p])] \in [Proc -> Age \cup {None}]
      BY <2>1, <1>2, OlderType, OlderAge, PolicyConstants DEF AlertState
    <2>3. QED
      BY <2>1, <2>2, <1>2 DEF Aged, AlertState
  <1>3. QED
    BY <1>1, <1>2

-----------------------------------------------------------------------------
(* Type correctness, one action at a time.                                 *)

States == [EventId -> AlertState \cup {None}]

LEMMA DeleteType ==
    ASSUME TypeOK, NEW e \in EventId, NEW ok, Delete(e, ok)
    PROVE  store' \in States
  BY DEF TypeOK, Delete, States

LEMMA EvaluateType ==
    ASSUME NEW e \in EventId, NEW st \in AlertState, NEW base \in States,
           NEW m \in Ages, NEW sev, NEW lag \in Age,
           Evaluate(e, st, base, m, sev, lag)
    PROVE  store' \in States /\ lastAlert' \in Ages /\ out' \in Result
  <1> DEFINE due == st.age >= lag + Dur /\ PassedDebounce(m, e, sev, lag)
             written == [st EXCEPT !.sent = due \/ st.sent, !.idle = 0]
  <1>1. due \in BOOLEAN /\ st.sent \in BOOLEAN
    BY DEF AlertState
  <1>2. written \in AlertState
    <2>1. (due \/ st.sent) \in BOOLEAN
      BY <1>1
    <2>2. 0 \in 0 .. Retention
      BY PolicyConstants
    <2> HIDE DEF due
    <2>3. QED
      BY <2>1, <2>2 DEF AlertState
  <1>3. PICK ok \in Call : store' = IF ok THEN [base EXCEPT ![e] = written] ELSE base
    BY DEF Evaluate
  <1>4. store' \in States
    BY <1>2, <1>3 DEF States
  <1>5. lastAlert' \in Ages
    BY DEF Evaluate, Ages
  <1>6. out' \in Result
    BY DEF Evaluate, Result, NoResult
  <1>7. QED
    BY <1>4, <1>5, <1>6

LEMMA HandleRecoveryType ==
    ASSUME TypeOK, NEW n, NEW hot \in SUBSET Proc, NEW lag \in Age,
           HandleRecovery(n, hot, lag), UNCHANGED <<up, uptime>>, gap' = 0
    PROVE  TypeOK'
  <1>1. /\ up' \in BOOLEAN /\ uptime' \in 0 .. MaxLag /\ gap' \in 0 .. MaxGap
        /\ reading' \in Readings /\ okAge' \in Age /\ badAge' \in Age
        /\ alerted' \subseteq EventId
    BY PolicyConstants DEF HandleRecovery, TypeOK, Readings
  <1>2. PICK e \in FindAlertState(n) :
          \/ /\ e \in Live /\ ~StillHot(e, hot)
             /\ DropUnsent(e) \/ AwaitRecovery(e, lag) \/ EmitRecovery(e, lag)
          \/ /\ e = None \/ StillHot(e, hot)
             /\ out' = NoResult
             /\ UNCHANGED <<store, memory, recovered>>
    BY DEF HandleRecovery
  <1>3. CASE out' = NoResult /\ UNCHANGED <<store, memory, recovered>>
    BY <1>1, <1>3 DEF TypeOK, memory, NoResult, Result
  <1>4. CASE e \in Live /\ DropUnsent(e)
    <2>1. store' \in States
      BY <1>4, DeleteType DEF DropUnsent, Live
    <2>2. QED
      BY <1>1, <1>4, <2>1 DEF DropUnsent, TypeOK, memory, NoResult, Result, States
  <1>5. CASE e \in Live /\ AwaitRecovery(e, lag)
    <2>1. RecoveryStart(e, lag) \in Age
      BY <1>5 DEF RecoveryStart, TypeOK, Ages, Live
    <2>2. recStart' \in Ages
      BY <1>5, <2>1 DEF AwaitRecovery, TypeOK, Ages
    <2>3. QED
      BY <1>1, <1>5, <2>2 DEF AwaitRecovery, TypeOK, NoResult, Result
  <1>6. CASE e \in Live /\ EmitRecovery(e, lag)
    <2>1. store' \in States
      BY <1>6, DeleteType DEF EmitRecovery, Live
    <2>2. recStart' \in Ages /\ lastRecovery' \in Ages
      BY <1>6 DEF EmitRecovery, TypeOK, Ages
    <2>3. QED
      BY <1>1, <1>6, <2>1, <2>2 DEF EmitRecovery, TypeOK, Result, States, Live
  <1>7. QED
    BY <1>2, <1>3, <1>4, <1>5, <1>6

LEMMA StartEventType ==
    ASSUME TypeOK, NEW e \in EventId, NEW st \in AlertState, NEW sev,
           NEW lag \in Age, NEW peek, NEW m \in Ages,
           StartEvent(e, st, sev, lag, peek, m)
    PROVE  store' \in States /\ lastAlert' \in Ages /\ out' \in Result
  <1>1. store \in States /\ [store EXCEPT ![e] = st] \in States
    BY DEF TypeOK, States
  <1>2. CASE Evaluate(e, st, store, m, sev, lag)
    BY <1>1, <1>2, EvaluateType
  <1>3. CASE Evaluate(e, st, [store EXCEPT ![e] = st], m, sev, lag)
    BY <1>1, <1>3, EvaluateType
  <1>4. CASE lastAlert' = m /\ out' = NoResult /\ UNCHANGED store
    BY <1>1, <1>4 DEF NoResult, Result
  <1>5. QED
    BY <1>2, <1>3, <1>4 DEF StartEvent

LEMMA EmittedType ==
    ASSUME NEW old, old \subseteq EventId, out' \in Result, None \notin EventId,
           out'.kind = "alert" => out'.ev \in EventId
    PROVE  Emitted(old) \subseteq EventId
  BY DEF Emitted

\* A handler of an abnormal reading returns an alert for the event it works on.
LEMMA EvaluateResult ==
    ASSUME NEW e, NEW st, NEW base, NEW m, NEW sev, NEW lag,
           Evaluate(e, st, base, m, sev, lag)
    PROVE  out' = [kind |-> "alert", ev |-> e] \/ out' = NoResult
  BY DEF Evaluate

LEMMA StartEventResult ==
    ASSUME NEW e, NEW st, NEW sev, NEW lag, NEW peek, NEW m,
           StartEvent(e, st, sev, lag, peek, m)
    PROVE  out' = [kind |-> "alert", ev |-> e] \/ out' = NoResult
  BY EvaluateResult DEF StartEvent

LEMMA HandleHighType ==
    ASSUME TypeOK, NEW n \in Name, NEW pid, NEW sev \in Severity, NEW lag \in Age,
           NEW peek \in BOOLEAN, HandleHigh(n, pid, sev, lag, peek),
           UNCHANGED <<up, uptime>>, gap' = 0
    PROVE  TypeOK'
  <1>1. /\ up' \in BOOLEAN /\ uptime' \in 0 .. MaxLag /\ gap' \in 0 .. MaxGap
        /\ reading' \in Readings /\ okAge' \in Age /\ badAge' \in Age
    BY PolicyConstants DEF HandleHigh, TypeOK, Readings
  <1>2. PICK timers \in ClearedTimers(n) :
          \/ UpdateEvent(n, pid, sev, lag, timers)
          \/ ReuseEvent(n, pid, sev, lag, peek, timers)
          \/ CreateEvent(n, pid, sev, lag, peek, timers)
    BY DEF HandleHigh
  <1>3. timers \in Ages
    BY ClearedTimersType
  <1>4. NewState(n, pid, sev, lag) \in AlertState
    BY NewStateType
  <1>5. store \in States /\ lastAlert \in Ages
    BY DEF TypeOK, States
  <1>6. CASE UpdateEvent(n, pid, sev, lag, timers)
    <2>1. PICK e \in FindExisting(n) \ {None} :
            Evaluate(e, Updated(store[e], pid, sev), store, lastAlert, sev, lag)
      BY <1>6 DEF UpdateEvent
    <2>2. e \in Live /\ e \in EventId
      BY <2>1, ReadsAnswerLive DEF Live
    <2>3. Updated(store[e], pid, sev) \in AlertState
      BY <2>2, LiveState, UpdatedType
    <2>4. store' \in States /\ lastAlert' \in Ages /\ out' \in Result
      BY <1>5, <2>1, <2>2, <2>3, EvaluateType
    <2>5. Emitted(alerted) \subseteq EventId
      BY <2>1, <2>2, EvaluateResult DEF Emitted, TypeOK, NoResult
    <2>6. QED
      BY <1>1, <1>3, <1>6, <2>4, <2>5 DEF UpdateEvent, TypeOK, States
  <1>7. CASE ReuseEvent(n, pid, sev, lag, peek, timers)
    <2>1. PICK e \in GetByProcessName(n) \ {None} :
            StartEvent(e, NewState(n, pid, sev, lag), sev, lag, peek, lastAlert)
      BY <1>7 DEF ReuseEvent
    <2>2. e \in EventId
      BY <2>1, ReadsAnswerLive DEF Live
    <2>3. store' \in States /\ lastAlert' \in Ages /\ out' \in Result
      BY <1>4, <1>5, <2>1, <2>2, StartEventType
    <2>4. Emitted(alerted) \subseteq EventId
      BY <2>1, <2>2, StartEventResult DEF Emitted, TypeOK, NoResult
    <2>5. QED
      BY <1>1, <1>3, <1>7, <2>3, <2>4 DEF ReuseEvent, TypeOK, States
  <1>8. CASE CreateEvent(n, pid, sev, lag, peek, timers)
    <2>1. PICK e \in FreshId :
            /\ StartEvent(e, NewState(n, pid, sev, lag), sev, lag, peek,
                          [lastAlert EXCEPT ![e] = None])
            /\ lastRecovery' = [lastRecovery EXCEPT ![e] = None]
            /\ recStart' = [timers EXCEPT ![e] = None]
            /\ alerted' = Emitted(alerted \ {e})
            /\ recovered' = recovered \ {e}
      BY <1>8 DEF CreateEvent
    <2>2. e \in EventId
      BY <2>1 DEF FreshId
    <2>3. [lastAlert EXCEPT ![e] = None] \in Ages
      BY <1>5 DEF Ages
    <2>4. store' \in States /\ lastAlert' \in Ages /\ out' \in Result
      BY <1>4, <2>1, <2>2, <2>3, StartEventType
    <2>5. alerted' \subseteq EventId /\ recovered' \subseteq EventId
      BY <2>1, <2>2, StartEventResult DEF Emitted, TypeOK, NoResult
    <2>6. lastRecovery' \in Ages /\ recStart' \in Ages
      BY <1>3, <2>1 DEF Ages, TypeOK
    <2>7. QED
      BY <1>1, <2>4, <2>5, <2>6 DEF TypeOK, States
  <1>9. QED
    BY <1>2, <1>6, <1>7, <1>8

LEMMA HandleUnjudgedType ==
    ASSUME TypeOK, NEW lag \in Age, HandleUnjudged(lag), UNCHANGED <<up, uptime>>, gap' = 0
    PROVE  TypeOK'
  <1>1. recStart' \in Ages
    BY ClearedTimersType DEF HandleUnjudged
  <1>2. QED
    BY <1>1, PolicyConstants DEF HandleUnjudged, TypeOK, Readings, Result, NoResult

LEMMA HandleNoConfigType ==
    ASSUME TypeOK, NEW e \in EventId, NEW lag \in Age, HandleNoConfig(e, lag),
           UNCHANGED <<up, uptime>>, gap' = 0
    PROVE  TypeOK'
  <1>1. lastAlert' \in Ages
    BY DEF HandleNoConfig, TypeOK, Ages
  <1>2. QED
    BY <1>1, PolicyConstants DEF HandleNoConfig, TypeOK, Readings, Result

LEMMA TickType == TypeOK /\ Tick => TypeOK'
  <1> SUFFICES ASSUME TypeOK, Tick PROVE TypeOK'
    OBVIOUS
  <1>1. store' \in States
    <2>1. \A e \in EventId : Aged(store[e]) \in AlertState \cup {None}
      BY AgedType DEF TypeOK
    <2>2. QED
      BY <2>1 DEF Tick, States
  <1>2. lastAlert' \in Ages /\ lastRecovery' \in Ages /\ recStart' \in Ages
    BY OlderType DEF Tick, TypeOK, Ages
  <1>3. okAge' \in Age /\ badAge' \in Age
    BY OlderAge DEF Tick, TypeOK
  <1>4. gap' \in 0 .. MaxGap /\ uptime' \in 0 .. MaxLag
    BY PolicyConstants DEF Tick, TypeOK
  <1>5. QED
    BY <1>1, <1>2, <1>3, <1>4 DEF Tick, TypeOK, States, Result, NoResult

\* The decision handlers run with a lag that is an age and with the name of a
\* top process or none.
LEMMA ReadCases ==
    ASSUME TypeOK, Read
    PROVE  /\ UNCHANGED <<up, uptime>> /\ gap' = 0
           /\ \/ \E n \in Name, hot \in SUBSET Proc, lag \in Age : HandleRecovery(n, hot, lag)
              \/ \E n \in Name, pid \in Proc \cup {None}, sev \in Severity, lag \in Age,
                    peek \in BOOLEAN : HandleHigh(n, pid, sev, lag, peek)
              \/ \E lag \in Age : HandleUnjudged(lag)
              \/ \E e \in EventId, lag \in Age : HandleNoConfig(e, lag)
  <1>1. UNCHANGED <<up, uptime>> /\ gap' = 0
    BY DEF Read, ReadNormal, ReadHigh, ReadUnjudged, ReadError, Decision
  <1>2. Lag \subseteq Age
    BY LagIsAge
  <1>3. \A s \in Subject : s[1] \in Proc \cup {None} /\ s[2] \in Name
    BY DEF Subject, Name
  <1>4. CASE ReadNormal
    <2>1. PICK s \in Subject, hot \in SUBSET Proc, lag \in Lag : HandleRecovery(s[2], hot, lag)
      BY <1>4 DEF ReadNormal
    <2>2. s[2] \in Name /\ lag \in Age
      BY <1>2, <1>3
    <2>3. QED
      BY <1>1, <2>1, <2>2
  <1>5. CASE ReadHigh
    <2>1. PICK s \in Subject, sev \in Severity, lag \in Lag, peek \in BOOLEAN :
            HandleHigh(s[2], s[1], sev, lag, peek)
      BY <1>5 DEF ReadHigh
    <2>2. s[1] \in Proc \cup {None} /\ s[2] \in Name /\ lag \in Age
      BY <1>2, <1>3
    <2>3. QED
      BY <1>1, <2>1, <2>2
  <1>6. CASE ReadUnjudged
    BY <1>1, <1>2, <1>6 DEF ReadUnjudged
  <1>7. CASE ReadError
    BY <1>1, <1>2, <1>7 DEF ReadError
  <1>8. QED
    BY <1>4, <1>5, <1>6, <1>7 DEF Read

LEMMA CrashStartType == TypeOK /\ (Crash \/ Start) => TypeOK'
  <1>1. TypeOK /\ Crash => TypeOK'
    <2> SUFFICES ASSUME TypeOK, Crash PROVE TypeOK'
      OBVIOUS
    <2>1. lastAlert' \in Ages /\ lastRecovery' \in Ages /\ recStart' \in Ages
      BY DEF Crash, Ages
    <2>2. uptime' \in 0 .. MaxLag /\ gap' \in 0 .. MaxGap
      BY PolicyConstants DEF Crash
    <2>3. QED
      BY <2>1, <2>2 DEF TypeOK, Crash, history, Result, NoResult
  <1>2. TypeOK /\ Start => TypeOK'
    BY DEF TypeOK, Start, history, memory, Result, NoResult
  <1>3. QED
    BY <1>1, <1>2

\* Every reachable state is well typed: no step of the policy, of time or of a
\* crash leaves a field of a state, a timer or a result out of its range.
THEOREM TypeCorrect == Spec => []TypeOK
  <1>1. Init => TypeOK
    BY PolicyConstants DEF Init, TypeOK, Ages, Age, Result, NoResult, Readings
  <1>2. TypeOK /\ [Next]_vars => TypeOK'
    <2> SUFFICES ASSUME TypeOK, [Next]_vars PROVE TypeOK'
      OBVIOUS
    <2>1. CASE Read
      BY <2>1, ReadCases, HandleRecoveryType, HandleHighType, HandleUnjudgedType,
         HandleNoConfigType
    <2>2. CASE Tick
      BY <2>2, TickType
    <2>3. CASE Crash \/ Start
      BY <2>3, CrashStartType
    <2>4. CASE UNCHANGED vars
      BY <2>4 DEF vars, TypeOK
    <2>5. QED
      BY <2>1, <2>2, <2>3, <2>4 DEF Next
  <1>3. QED
    BY <1>1, <1>2, PTL DEF Spec

-----------------------------------------------------------------------------
(* There is a recovery only where there was an alert.                      *)

\* What the recovery flow takes as evidence of an earlier alert, the sent flag
\* in Redis or an entry in the map, is evidence of one.
NotifiedWasAlerted == \A e \in Live : Notified(e) => e \in alerted

AlertInv == NotifiedWasAlerted /\ RecoveryAfterAlert

\* The effect of evaluateAndEmitAlert on the evidence.
LEMMA EvaluateEvidence ==
    ASSUME NEW e \in EventId, NEW st \in AlertState, NEW base \in States,
           NEW m \in Ages, NEW sev, NEW lag \in Age,
           Evaluate(e, st, base, m, sev, lag)
    PROVE  /\ \A f \in EventId \ {e} : store'[f] = base[f] /\ lastAlert'[f] = m[f]
           /\ \/ out' = [kind |-> "alert", ev |-> e]
              \/ /\ out' = NoResult
                 /\ lastAlert' = m
                 /\ \/ store'[e] = base[e]
                    \/ store'[e] # None /\ store'[e].sent = st.sent
  <1> DEFINE due == st.age >= lag + Dur /\ PassedDebounce(m, e, sev, lag)
             written == [st EXCEPT !.sent = due \/ st.sent, !.idle = 0]
  <1>1. PICK ok \in Call : store' = IF ok THEN [base EXCEPT ![e] = written] ELSE base
    BY DEF Evaluate
  <1>2. /\ lastAlert' = IF due THEN [m EXCEPT ![e] = lag] ELSE m
        /\ out' = IF due THEN [kind |-> "alert", ev |-> e] ELSE NoResult
    BY DEF Evaluate
  <1>3. st.sent \in BOOLEAN
    BY DEF AlertState
  <1>4. ~due => written.sent = st.sent /\ written # None
    <2>0. \A b \in BOOLEAN : [st EXCEPT !.sent = b, !.idle = 0] \in AlertState
      <3>1. 0 \in 0 .. Retention
        BY PolicyConstants
      <3>2. QED
        BY <3>1 DEF AlertState
    <2> SUFFICES ASSUME ~due PROVE written.sent = st.sent /\ written # None
      OBVIOUS
    <2>1. (due \/ st.sent) = st.sent
      BY <1>3
    <2> HIDE DEF due
    <2>2. written.sent = st.sent
      BY <2>1 DEF AlertState
    <2>3. written \in AlertState
      BY <2>0, <2>1, <1>3
    <2>4. QED
      BY <2>2, <2>3, NoneIsNoState
  <1> HIDE DEF due, written
  <1>5. QED
    BY <1>1, <1>2, <1>4 DEF States, Ages

LEMMA RecoveryKeepsAlertInv ==
    ASSUME TypeOK, AlertInv, NEW n, NEW hot \in SUBSET Proc, NEW lag \in Age,
           HandleRecovery(n, hot, lag)
    PROVE  AlertInv'
  <1>1. alerted' = alerted
    BY DEF HandleRecovery
  <1>2. /\ \A f \in EventId : store'[f] = store[f] \/ store'[f] = None
        /\ lastAlert' = lastAlert
        /\ out'.kind = "recovery" => out'.ev \in Live /\ Notified(out'.ev)
    BY DEF HandleRecovery, DropUnsent, AwaitRecovery, EmitRecovery, Delete, memory,
           NoResult, TypeOK
  <1>3. \A f \in Live' : f \in Live /\ (Notified(f)' => Notified(f))
    BY <1>2 DEF Live, Notified
  <1>4. QED
    BY <1>1, <1>2, <1>3 DEF AlertInv, NotifiedWasAlerted, RecoveryAfterAlert

LEMMA HighKeepsAlertInv ==
    ASSUME TypeOK, AlertInv, NEW n \in Name, NEW pid, NEW sev \in Severity,
           NEW lag \in Age, NEW peek \in BOOLEAN, HandleHigh(n, pid, sev, lag, peek)
    PROVE  AlertInv'
  <1>1. PICK timers \in ClearedTimers(n) :
          \/ UpdateEvent(n, pid, sev, lag, timers)
          \/ ReuseEvent(n, pid, sev, lag, peek, timers)
          \/ CreateEvent(n, pid, sev, lag, peek, timers)
    BY DEF HandleHigh
  <1>2. store \in States /\ lastAlert \in Ages
    BY DEF TypeOK, States
  \* An evaluation on a map and with a state that hold evidence only where
  \* there was an alert keeps the invariant.
  <1>3. ASSUME NEW e \in EventId, NEW st \in AlertState, NEW base \in States,
               NEW m \in Ages, Evaluate(e, st, base, m, sev, lag),
               NEW old, alerted' = Emitted(old),
               \A f \in EventId \ {e} : base[f] = store[f] /\ m[f] = lastAlert[f],
               \A f \in EventId \ {e} : f \in alerted => f \in old,
               m[e] # None \/ st.sent \/ (base[e] # None /\ base[e].sent) => e \in old
        PROVE  AlertInv'
    <2>1. /\ \A f \in EventId \ {e} : store'[f] = base[f] /\ lastAlert'[f] = m[f]
          /\ \/ out' = [kind |-> "alert", ev |-> e]
             \/ /\ out' = NoResult
                /\ lastAlert' = m
                /\ \/ store'[e] = base[e]
                   \/ store'[e] # None /\ store'[e].sent = st.sent
      BY <1>3, EvaluateEvidence
    <2>2. old \subseteq alerted'
      BY <1>3 DEF Emitted
    <2>3. \A f \in EventId \ {e} : f \in Live' /\ Notified(f)' => f \in alerted'
      BY <1>3, <2>1, <2>2 DEF Live, Notified, AlertInv, NotifiedWasAlerted
    <2>4. e \in Live' /\ Notified(e)' => e \in alerted'
      <3>1. CASE out' = [kind |-> "alert", ev |-> e]
        BY <3>1, <1>3 DEF Emitted
      <3>2. CASE out' = NoResult
        BY <3>2, <2>1, <2>2, <1>3 DEF Live, Notified, NoResult
      <3>3. QED
        BY <2>1, <3>1, <3>2
    <2>5. RecoveryAfterAlert'
      BY <2>1 DEF RecoveryAfterAlert, NoResult
    <2>6. QED
      BY <2>3, <2>4, <2>5 DEF AlertInv, NotifiedWasAlerted, Live
  <1>4. CASE UpdateEvent(n, pid, sev, lag, timers)
    <2>1. PICK e \in FindExisting(n) \ {None} :
            Evaluate(e, Updated(store[e], pid, sev), store, lastAlert, sev, lag)
      BY <1>4 DEF UpdateEvent
    <2>2. e \in Live /\ e \in EventId /\ store[e] \in AlertState
      BY <2>1, ReadsAnswerLive, LiveState DEF Live
    <2>3. Updated(store[e], pid, sev) \in AlertState
      BY <2>2, UpdatedType
    <2>4. Updated(store[e], pid, sev).sent = store[e].sent
      BY <2>2 DEF Updated, AlertState
    <2>5. alerted' = Emitted(alerted)
      BY <1>4 DEF UpdateEvent
    <2>6. lastAlert[e] # None \/ store[e].sent => e \in alerted
      BY <2>2 DEF AlertInv, NotifiedWasAlerted, Notified
    <2>7. QED
      BY <1>2, <1>3, <2>1, <2>2, <2>3, <2>4, <2>5, <2>6
  <1>5. ASSUME NEW e \in EventId, NEW m \in Ages, NEW old, alerted' = Emitted(old),
               StartEvent(e, NewState(n, pid, sev, lag), sev, lag, peek, m),
               \A f \in EventId \ {e} : m[f] = lastAlert[f],
               \A f \in EventId \ {e} : f \in alerted => f \in old,
               m[e] # None \/ (store[e] # None /\ store[e].sent) => e \in old
        PROVE  AlertInv'
    <2> DEFINE st == NewState(n, pid, sev, lag)
    <2>1. st \in AlertState /\ ~st.sent
      BY NewStateType DEF NewState
    <2>2. [store EXCEPT ![e] = st] \in States
      BY <1>2, <2>1 DEF States
    <2>3. CASE Evaluate(e, st, store, m, sev, lag)
      BY <1>2, <1>3, <1>5, <2>1, <2>3
    <2>4. CASE Evaluate(e, st, [store EXCEPT ![e] = st], m, sev, lag)
      <3> DEFINE base == [store EXCEPT ![e] = st]
      <3>1. base[e] = st /\ \A f \in EventId \ {e} : base[f] = store[f]
        BY <1>2 DEF States
      <3>2. Evaluate(e, st, base, m, sev, lag) /\ base \in States
        BY <2>2, <2>4
      <3> HIDE DEF st, base
      <3>3. \A f \in EventId \ {e} : base[f] = store[f] /\ m[f] = lastAlert[f]
        BY <1>5, <3>1
      <3>4. m[e] # None \/ st.sent \/ (base[e] # None /\ base[e].sent) => e \in old
        BY <1>5, <2>1, <3>1
      <3>5. QED
        BY <1>3, <1>5, <2>1, <3>2, <3>3, <3>4
    <2>5. CASE lastAlert' = m /\ out' = NoResult /\ UNCHANGED store
      <3>1. old \subseteq alerted'
        BY <1>5 DEF Emitted
      <3>2. QED
        BY <1>5, <2>5, <3>1 DEF AlertInv, NotifiedWasAlerted, RecoveryAfterAlert, Live,
           Notified, NoResult
    <2>6. QED
      BY <1>5, <2>3, <2>4, <2>5 DEF StartEvent
  <1>6. CASE ReuseEvent(n, pid, sev, lag, peek, timers)
    <2>1. PICK e \in GetByProcessName(n) \ {None} :
            StartEvent(e, NewState(n, pid, sev, lag), sev, lag, peek, lastAlert)
      BY <1>6 DEF ReuseEvent
    <2>2. e \in Live /\ e \in EventId
      BY <2>1, ReadsAnswerLive DEF Live
    <2>3. alerted' = Emitted(alerted)
      BY <1>6 DEF ReuseEvent
    <2>4. lastAlert[e] # None \/ (store[e] # None /\ store[e].sent) => e \in alerted
      BY <2>2 DEF AlertInv, NotifiedWasAlerted, Notified
    <2>5. QED
      BY <1>2, <1>5, <2>1, <2>2, <2>3, <2>4
  <1>7. CASE CreateEvent(n, pid, sev, lag, peek, timers)
    <2>1. PICK e \in FreshId :
            /\ StartEvent(e, NewState(n, pid, sev, lag), sev, lag, peek,
                          [lastAlert EXCEPT ![e] = None])
            /\ alerted' = Emitted(alerted \ {e})
      BY <1>7 DEF CreateEvent
    <2>2. e \in EventId /\ store[e] = None
      BY <2>1 DEF FreshId, Live
    <2> DEFINE m == [lastAlert EXCEPT ![e] = None]
    <2>3. m \in Ages /\ m[e] = None /\ \A f \in EventId \ {e} : m[f] = lastAlert[f]
      BY <1>2, <2>2 DEF Ages
    <2> HIDE DEF m
    <2>4. StartEvent(e, NewState(n, pid, sev, lag), sev, lag, peek, m)
      BY <2>1 DEF m
    <2>5. QED
      BY <1>5, <2>1, <2>2, <2>3, <2>4
  <1>8. QED
    BY <1>1, <1>4, <1>6, <1>7

LEMMA NoConfigKeepsAlertInv ==
    ASSUME TypeOK, AlertInv, NEW e \in EventId, NEW lag \in Age, HandleNoConfig(e, lag)
    PROVE  AlertInv'
  <1>1. e \notin Live /\ Live' = Live
    BY DEF HandleNoConfig, FreshId, Live
  <1>2. \A f \in Live : Notified(f)' => Notified(f)
    BY <1>1 DEF HandleNoConfig, Notified, TypeOK, Ages, Live
  <1>3. QED
    BY <1>1, <1>2 DEF HandleNoConfig, AlertInv, NotifiedWasAlerted, RecoveryAfterAlert

LEMMA TickKeepsAlertInv ==
    ASSUME TypeOK, AlertInv, Tick
    PROVE  AlertInv'
  <1>1. \A e \in Live' : e \in Live /\ store'[e].sent = store[e].sent
    <2> SUFFICES ASSUME NEW e \in Live' PROVE e \in Live /\ store'[e].sent = store[e].sent
      OBVIOUS
    <2>1. e \in EventId /\ store'[e] = Aged(store[e]) /\ store'[e] # None
      BY DEF Live, Tick
    <2>2. store[e] # None
      BY <2>1 DEF Aged
    <2>3. store[e] \in AlertState
      BY <2>1, <2>2 DEF TypeOK
    <2>4. QED
      BY <2>1, <2>2, <2>3 DEF Aged, Live, AlertState
  <1>2. \A e \in Live' : lastAlert'[e] # None => lastAlert[e] # None
    BY DEF Tick, Live, Older
  <1>3. QED
    BY <1>1, <1>2 DEF Tick, AlertInv, NotifiedWasAlerted, RecoveryAfterAlert, Notified, NoResult

LEMMA OthersKeepAlertInv ==
    ASSUME TypeOK, AlertInv,
           Crash \/ Start \/ UNCHANGED vars \/ \E lag \in Age : HandleUnjudged(lag)
    PROVE  AlertInv'
  BY DEF Crash, Start, vars, HandleUnjudged, memory, history, AlertInv, NotifiedWasAlerted,
         RecoveryAfterAlert, Notified, Live, NoResult, TypeOK, Ages

LEMMA AlertInvInit == Init => AlertInv
  BY DEF Init, AlertInv, NotifiedWasAlerted, RecoveryAfterAlert, Live, NoResult

LEMMA AlertInvStep == TypeOK /\ AlertInv /\ [Next]_vars => AlertInv'
  <1> SUFFICES ASSUME TypeOK, AlertInv, [Next]_vars PROVE AlertInv'
    OBVIOUS
  <1>1. CASE Read
    BY <1>1, ReadCases, RecoveryKeepsAlertInv, HighKeepsAlertInv, NoConfigKeepsAlertInv,
       OthersKeepAlertInv
  <1>2. CASE Tick
    BY <1>2, TickKeepsAlertInv
  <1>3. CASE Crash \/ Start \/ UNCHANGED vars
    BY <1>3, OthersKeepAlertInv
  <1>4. QED
    BY <1>1, <1>2, <1>3 DEF Next

\* A recovery notification is returned only for an event an alert was returned
\* for, through crashes, failing Redis calls, expiries and reused ids.
THEOREM RecoveryIsAfterAlert == Spec => []RecoveryAfterAlert
  <1>1. AlertInv => RecoveryAfterAlert
    BY DEF AlertInv
  <1>2. QED
    BY <1>1, AlertInvInit, AlertInvStep, TypeCorrect, PTL DEF Spec

-----------------------------------------------------------------------------
(* While no Redis call fails: one open event per problem, the promises of   *)
(* AlertLifecycle, and for types with one event the two durations.          *)

\* No other event is open for the problem of an open one.
OnePerKey ==
    \A e, f \in Live : e = f \/ (ByProcess /\ (store[e].name # store[f].name \/ store[e].name = None))

\* A crash forgets no alert: what memory knows is in Redis.
EvidenceIsStored == \A e \in Live : lastAlert[e] # None => store[e].sent

\* Its recovery was the end of an event.
RecoveredIsClosed == \A e \in Live : e \notin recovered

CalmInv == OnePerKey /\ EvidenceIsStored /\ RecoveredIsClosed

-----------------------------------------------------------------------------
(* Reads and writes that do not fail.                                       *)

LEMMA CallWorks == ASSUME ~Faults PROVE Call = {TRUE}
  BY DEF Call

LEMMA DeleteWorks ==
    ASSUME ~Faults, NEW e, NEW ok \in Call, Delete(e, ok)
    PROVE  store' = [store EXCEPT ![e] = None]
  <1>1. ok = TRUE
    BY CallWorks
  <1> QED BY <1>1 DEF Delete

\* A lookup answers None only if there is nothing to find.
LEMMA LookupExact ==
    ASSUME ~Faults, NEW n
    PROVE  /\ None \in GetByType => Live = {}
           /\ None \in GetByProcessName(n) => \A e \in Live : n = None \/ store[e].name # n
  BY NoneIsNoValue DEF GetByType, GetByProcessName, Answers, Live

\* One event of a type with one event: the lookup finds it.
LEMMA LookupFindsAll ==
    ASSUME ~Faults, ~ByProcess, OnePerKey, NEW n, NEW e \in FindAlertState(n)
    PROVE  Live \subseteq {e}
  <1>1. e \in GetByType
    BY DEF FindAlertState
  <1>2. CASE e = None
    BY <1>1, <1>2, LookupExact
  <1>3. CASE e \in Live
    BY <1>3 DEF OnePerKey
  <1> QED BY <1>1, <1>2, <1>3, ReadsAnswerLive

\* The evaluation of the state st of an event, which is written to base.
LEMMA EvaluateCalm ==
    ASSUME ~Faults, NEW e \in EventId, NEW st \in AlertState, NEW base \in States,
           NEW m \in Ages, NEW sev, NEW lag \in Age, Evaluate(e, st, base, m, sev, lag)
    PROVE  /\ \A f \in EventId \ {e} : store'[f] = base[f] /\ lastAlert'[f] = m[f]
           /\ store'[e] \in AlertState
           /\ store'[e].name = st.name /\ store'[e].age = st.age
           /\ \/ /\ out' = [kind |-> "alert", ev |-> e] /\ st.age >= lag + Dur
                 /\ store'[e].sent /\ lastAlert'[e] = lag
              \/ /\ out' = NoResult /\ lastAlert' = m
                 /\ store'[e].sent = st.sent
  <1> DEFINE due == st.age >= lag + Dur /\ PassedDebounce(m, e, sev, lag)
             written == [st EXCEPT !.sent = due \/ st.sent, !.idle = 0]
  <1>1. store' = [base EXCEPT ![e] = written]
    <2>1. PICK ok \in Call : store' = IF ok THEN [base EXCEPT ![e] = written] ELSE base
      BY DEF Evaluate
    <2>2. ok = TRUE
      BY CallWorks
    <2> HIDE DEF written
    <2> QED BY <2>1, <2>2
  <1>2. /\ lastAlert' = IF due THEN [m EXCEPT ![e] = lag] ELSE m
        /\ out' = IF due THEN [kind |-> "alert", ev |-> e] ELSE NoResult
    BY DEF Evaluate
  <1>3. \A b \in BOOLEAN : LET w == [st EXCEPT !.sent = b, !.idle = 0]
                           IN w \in AlertState /\ w.name = st.name /\ w.age = st.age /\ w.sent = b
    <2>1. 0 \in 0 .. Retention
      BY PolicyConstants
    <2> QED BY <2>1 DEF AlertState
  <1>4. (due \/ st.sent) \in BOOLEAN /\ st.sent \in BOOLEAN
    BY DEF AlertState
  <1>5. due => st.age >= lag + Dur
    OBVIOUS
  <1>6. /\ written \in AlertState /\ written.name = st.name /\ written.age = st.age
        /\ written.sent = (due \/ st.sent)
    <2> HIDE DEF due
    <2> QED BY <1>3, <1>4
  <1>7. (due => written.sent) /\ (~due => written.sent = st.sent)
    <2> HIDE DEF due
    <2>1. CASE due
      <3>1. (due \/ st.sent) = TRUE
        BY <2>1
      <3> QED BY <2>1, <3>1, <1>6
    <2>2. CASE ~due
      <3>1. (due \/ st.sent) = st.sent
        BY <2>2, <1>4
      <3> QED BY <2>2, <3>1, <1>6
    <2> QED BY <2>1, <2>2
  <1> HIDE DEF due, written
  <1> QED BY <1>1, <1>2, <1>5, <1>6, <1>7 DEF States, Ages

-----------------------------------------------------------------------------
(* What the decisions do.                                                   *)

\* An abnormal reading updates an open event.
Updates(n, e, lag) ==
    /\ e \in Live /\ e \in FindExisting(n)
    /\ \A f \in EventId \ {e} : store'[f] = store[f] /\ lastAlert'[f] = lastAlert[f]
    /\ store'[e] # None /\ store'[e].name = store[e].name /\ store'[e].age = store[e].age
    /\ \/ /\ out' = [kind |-> "alert", ev |-> e] /\ store[e].age >= lag + Dur
          /\ store'[e].sent /\ alerted' = alerted \cup {e} /\ lastAlert'[e] # None
       \/ /\ out' = NoResult /\ lastAlert' = lastAlert /\ alerted' = alerted
          /\ store'[e].sent = store[e].sent
    /\ recStart' \in ClearedTimers(n)
    /\ UNCHANGED recovered

\* Or it opens one, which is too young to be alerted.
Creates(n, e, lag) ==
    /\ e \in FreshId /\ None \in FindExisting(n)
    /\ \A f \in EventId \ {e} : store'[f] = store[f] /\ lastAlert'[f] = lastAlert[f]
    /\ store'[e] # None /\ store'[e].name = n /\ store'[e].age = lag /\ ~store'[e].sent
    /\ lastAlert'[e] = None /\ out' = NoResult
    /\ alerted' = alerted \ {e} /\ recovered' = recovered \ {e}
    /\ \E timers \in ClearedTimers(n) : recStart' = [timers EXCEPT ![e] = None]

LEMMA HighEffect ==
    ASSUME ~Faults, TypeOK, NEW n \in Name, NEW pid, NEW sev \in Severity, NEW lag \in Age,
           NEW peek \in BOOLEAN, HandleHigh(n, pid, sev, lag, peek)
    PROVE  \E e \in EventId : Updates(n, e, lag) \/ Creates(n, e, lag)
  <1>1. PICK timers \in ClearedTimers(n) :
          \/ UpdateEvent(n, pid, sev, lag, timers)
          \/ ReuseEvent(n, pid, sev, lag, peek, timers)
          \/ CreateEvent(n, pid, sev, lag, peek, timers)
    BY DEF HandleHigh
  <1>2. store \in States /\ lastAlert \in Ages
    BY DEF TypeOK, States
  <1>3. CASE UpdateEvent(n, pid, sev, lag, timers)
    <2>1. PICK e \in FindExisting(n) \ {None} :
            Evaluate(e, Updated(store[e], pid, sev), store, lastAlert, sev, lag)
      BY <1>3 DEF UpdateEvent
    <2>2. e \in Live /\ e \in EventId /\ store[e] \in AlertState
      BY <2>1, ReadsAnswerLive, LiveState
    <2> DEFINE st == Updated(store[e], pid, sev)
    <2>3. st \in AlertState
      BY <2>2, UpdatedType
    <2>4. st.name = store[e].name /\ st.age = store[e].age /\ st.sent = store[e].sent
      BY <2>2 DEF Updated, AlertState
    <2>5. Evaluate(e, st, store, lastAlert, sev, lag)
      BY <2>1
    <2> HIDE DEF st
    <2>6. /\ \A f \in EventId \ {e} : store'[f] = store[f] /\ lastAlert'[f] = lastAlert[f]
          /\ store'[e] \in AlertState /\ store'[e].name = st.name /\ store'[e].age = st.age
          /\ \/ /\ out' = [kind |-> "alert", ev |-> e] /\ st.age >= lag + Dur
                /\ store'[e].sent /\ lastAlert'[e] = lag
             \/ out' = NoResult /\ lastAlert' = lastAlert /\ store'[e].sent = st.sent
      BY <1>2, <2>2, <2>3, <2>5, EvaluateCalm
    <2>7. store'[e] # None /\ lag # None
      BY <2>6, NoneIsNoState, NoneIsNoValue, ZeroIsAge
    <2>8. /\ alerted' = Emitted(alerted) /\ recStart' \in ClearedTimers(n)
          /\ UNCHANGED recovered
      BY <1>3 DEF UpdateEvent
    <2>9. (out'.kind = "alert" => alerted' = alerted \cup {out'.ev})
          /\ (out'.kind # "alert" => alerted' = alerted)
      BY <2>8 DEF Emitted
    <2>10. Updates(n, e, lag)
      BY <2>1, <2>2, <2>4, <2>6, <2>7, <2>8, <2>9 DEF Updates, NoResult
    <2> QED BY <2>2, <2>10
  \* The second look for an event finds what the first one did not.
  <1>4. ~ReuseEvent(n, pid, sev, lag, peek, timers)
    BY LookupExact, NoneIsNoValue DEF ReuseEvent, FindExisting, GetByProcessName, Answers, Live
  <1>5. CASE CreateEvent(n, pid, sev, lag, peek, timers)
    <2> DEFINE st == NewState(n, pid, sev, lag)
    <2>1. PICK e \in FreshId :
            /\ StartEvent(e, st, sev, lag, peek, [lastAlert EXCEPT ![e] = None])
            /\ recStart' = [timers EXCEPT ![e] = None]
            /\ alerted' = Emitted(alerted \ {e})
            /\ recovered' = recovered \ {e}
      BY <1>5 DEF CreateEvent
    <2>2. e \in EventId
      BY <2>1 DEF FreshId
    <2> DEFINE m == [lastAlert EXCEPT ![e] = None]
    <2>3. m \in Ages /\ m[e] = None /\ \A f \in EventId \ {e} : m[f] = lastAlert[f]
      BY <1>2, <2>2 DEF Ages
    <2>4. st \in AlertState
      BY NewStateType
    <2>5. st.name = n /\ st.age = lag /\ ~st.sent
      BY DEF NewState
    <2>6. ~(st.age >= lag + Dur)
      BY <2>5, PolicyConstants, ZeroIsAge
    <2>7. PICK base \in States :
            /\ Evaluate(e, st, base, m, sev, lag)
            /\ \A f \in EventId \ {e} : base[f] = store[f]
      <3>1. [store EXCEPT ![e] = st] \in States
        BY <1>2, <2>4 DEF States
      <3>2. \A f \in EventId \ {e} : [store EXCEPT ![e] = st][f] = store[f]
        BY <1>2 DEF States
      <3> HIDE DEF st, m
      <3>3. StartEvent(e, st, sev, lag, peek, m)
        BY <2>1 DEF m
      <3> QED BY <1>2, <3>1, <3>2, <3>3, CallWorks DEF StartEvent
    <2> HIDE DEF st, m
    <2>8. /\ \A f \in EventId \ {e} : store'[f] = store[f] /\ lastAlert'[f] = lastAlert[f]
          /\ store'[e] \in AlertState /\ store'[e].name = n /\ store'[e].age = lag
          /\ out' = NoResult /\ lastAlert' = m /\ store'[e].sent = st.sent
      <3>1. /\ \A f \in EventId \ {e} : store'[f] = base[f] /\ lastAlert'[f] = m[f]
            /\ store'[e] \in AlertState
            /\ store'[e].name = st.name /\ store'[e].age = st.age
            /\ \/ st.age >= lag + Dur
               \/ out' = NoResult /\ lastAlert' = m /\ store'[e].sent = st.sent
        BY <2>2, <2>3, <2>4, <2>7, EvaluateCalm
      <3> QED BY <2>3, <2>5, <2>6, <2>7, <3>1
    <2>9. store'[e] # None
      BY <2>8, NoneIsNoState
    <2>10. alerted' = alerted \ {e}
      BY <2>1, <2>8 DEF Emitted, NoResult
    <2>11. None \in FindExisting(n)
      BY <1>5 DEF CreateEvent
    <2>12. Creates(n, e, lag)
      BY <2>1, <2>3, <2>5, <2>8, <2>9, <2>10, <2>11 DEF Creates
    <2> QED BY <2>2, <2>12
  <1> QED BY <1>1, <1>3, <1>4, <1>5

\* A normal reading drops, holds or recovers one event, or finds none to judge.
Closes(e) == e \in Live /\ store' = [store EXCEPT ![e] = None]

Drops(e)  == ~Notified(e) /\ Closes(e) /\ out' = NoResult /\ UNCHANGED <<memory, recovered>>

Recovers(e, lag) ==
    /\ Notified(e) /\ Closes(e) /\ out' = [kind |-> "recovery", ev |-> e]
    /\ recovered' = recovered \cup {e} /\ UNCHANGED lastAlert
    /\ RecoveryStart(e, lag) >= lag + RecDur
    /\ recStart' = [recStart EXCEPT ![e] = None]

Holds(e, lag) ==
    /\ Notified(e) /\ e \in Live /\ out' = NoResult /\ UNCHANGED <<store, lastAlert, recovered>>
    /\ recStart' = [recStart EXCEPT ![e] = RecoveryStart(e, lag)]

Passes(e, hot) ==
    /\ e = None \/ StillHot(e, hot)
    /\ out' = NoResult /\ UNCHANGED <<store, memory, recovered>>

LEMMA NormalEffect ==
    ASSUME ~Faults, TypeOK, NEW n, NEW hot, NEW lag, HandleRecovery(n, hot, lag)
    PROVE  /\ \E e \in FindAlertState(n) :
                Drops(e) \/ Recovers(e, lag) \/ Holds(e, lag) \/ Passes(e, hot)
           /\ okAge' = lag /\ UNCHANGED <<badAge, alerted>>
  <1>1. PICK e \in FindAlertState(n) :
          \/ /\ e \in Live /\ ~StillHot(e, hot)
             /\ DropUnsent(e) \/ AwaitRecovery(e, lag) \/ EmitRecovery(e, lag)
          \/ /\ e = None \/ StillHot(e, hot)
             /\ out' = NoResult
             /\ UNCHANGED <<store, memory, recovered>>
    BY DEF HandleRecovery
  <1>2. e \in Live /\ DropUnsent(e) => Drops(e)
    BY DeleteWorks DEF DropUnsent, Drops, Closes
  <1>3. e \in Live /\ EmitRecovery(e, lag) => Recovers(e, lag)
    BY DeleteWorks DEF EmitRecovery, Recovers, Closes
  <1>4. e \in Live /\ AwaitRecovery(e, lag) => Holds(e, lag)
    BY DEF AwaitRecovery, Holds
  <1>5. okAge' = lag /\ UNCHANGED <<badAge, alerted>>
    BY DEF HandleRecovery
  <1> QED BY <1>1, <1>2, <1>3, <1>4, <1>5 DEF Passes

\* The time, a crash and the other decisions leave the open events as they are,
\* or let them expire.
LEMMA TickEffect ==
    ASSUME TypeOK, Tick
    PROVE  /\ \A e \in Live' : /\ e \in Live
                               /\ store'[e].name = store[e].name /\ store'[e].sent = store[e].sent
                               /\ store'[e].age = Older(store[e].age)
           /\ \A e \in EventId : /\ lastAlert'[e] = None <=> lastAlert[e] = None
                                 /\ recStart'[e] = Older(recStart[e])
           /\ out' = NoResult /\ UNCHANGED <<alerted, recovered>>
           /\ okAge' = Older(okAge) /\ badAge' = Older(badAge)
  <1>1. \A e \in Live' : /\ e \in Live
                         /\ store'[e].name = store[e].name /\ store'[e].sent = store[e].sent
                         /\ store'[e].age = Older(store[e].age)
    <2> SUFFICES ASSUME NEW e \in Live'
                 PROVE  /\ e \in Live
                        /\ store'[e].name = store[e].name /\ store'[e].sent = store[e].sent
                        /\ store'[e].age = Older(store[e].age)
      OBVIOUS
    <2>1. e \in EventId /\ store'[e] = Aged(store[e]) /\ store'[e] # None
      BY DEF Live, Tick
    <2>2. store[e] # None /\ ~(store[e].idle + 1 >= Retention)
      BY <2>1 DEF Aged
    <2>3. store[e] \in AlertState
      BY <2>1, <2>2 DEF TypeOK
    <2> QED BY <2>1, <2>2, <2>3 DEF Aged, Live, AlertState
  <1>2. \A e \in EventId : lastAlert'[e] = None <=> lastAlert[e] = None
    <2>1. \A a \in Age \cup {None} : Older(a) = None <=> a = None
      BY PolicyConstants, NoneIsNoValue DEF Older, Age
    <2> QED BY <2>1 DEF Tick, TypeOK, Ages
  <1> QED BY <1>1, <1>2 DEF Tick

-----------------------------------------------------------------------------
(* CalmInv is inductive.                                                    *)

LEMMA HighKeepsCalmInv ==
    ASSUME ~Faults, TypeOK, CalmInv, NEW n \in Name, NEW lag \in Age, NEW e \in EventId,
           Updates(n, e, lag) \/ Creates(n, e, lag)
    PROVE  CalmInv'
  <1>1. CASE Updates(n, e, lag)
    <2>1. Live' = Live
      BY <1>1 DEF Updates, Live
    <2>2. OnePerKey'
      BY <1>1, <2>1 DEF Updates, CalmInv, OnePerKey, ByProcess, Live
    <2>3. EvidenceIsStored' /\ RecoveredIsClosed'
      BY <1>1, <2>1 DEF Updates, CalmInv, EvidenceIsStored, RecoveredIsClosed, Live
    <2> QED BY <2>2, <2>3 DEF CalmInv
  <1>2. CASE Creates(n, e, lag)
    <2>1. Live' = Live \cup {e} /\ e \notin Live
      BY <1>2 DEF Creates, Live, FreshId
    <2>2. \A f \in Live : ByProcess /\ (store[f].name # n \/ n = None)
      BY <1>2, LookupExact DEF Creates, FindExisting
    <2>3. OnePerKey'
      BY <1>2, <2>1, <2>2 DEF Creates, CalmInv, OnePerKey, ByProcess, Live
    <2>4. EvidenceIsStored' /\ RecoveredIsClosed'
      BY <1>2, <2>1 DEF Creates, CalmInv, EvidenceIsStored, RecoveredIsClosed, Live
    <2> QED BY <2>3, <2>4 DEF CalmInv
  <1> QED BY <1>1, <1>2

LEMMA NormalKeepsCalmInv ==
    ASSUME ~Faults, TypeOK, CalmInv, NEW n, NEW hot, NEW lag, HandleRecovery(n, hot, lag)
    PROVE  CalmInv'
  <1>1. PICK e \in FindAlertState(n) :
          Drops(e) \/ Recovers(e, lag) \/ Holds(e, lag) \/ Passes(e, hot)
    BY NormalEffect
  <1>2. CASE Drops(e) \/ Recovers(e, lag)
    <2>1. /\ Live' = Live \ {e} /\ \A f \in Live \ {e} : store'[f] = store[f]
          /\ lastAlert' = lastAlert /\ recovered' \subseteq recovered \cup {e}
      BY <1>2 DEF Drops, Recovers, Closes, Live, memory, TypeOK
    <2> QED BY <2>1 DEF CalmInv, OnePerKey, EvidenceIsStored, RecoveredIsClosed, ByProcess
  <1>3. CASE Holds(e, lag) \/ Passes(e, hot)
    <2>1. UNCHANGED <<store, lastAlert, recovered>>
      BY <1>3 DEF Holds, Passes, memory
    <2> QED BY <2>1 DEF CalmInv, OnePerKey, EvidenceIsStored, RecoveredIsClosed, Live, ByProcess
  <1> QED BY <1>1, <1>2, <1>3

LEMMA CalmInvStep == ~Faults /\ TypeOK /\ CalmInv /\ [Next]_vars => CalmInv'
  <1> SUFFICES ASSUME ~Faults, TypeOK, CalmInv, [Next]_vars PROVE CalmInv'
    OBVIOUS
  <1>1. ASSUME NEW n \in Name, NEW pid \in Proc \cup {None}, NEW sev \in Severity, NEW lag \in Age,
               NEW peek \in BOOLEAN, HandleHigh(n, pid, sev, lag, peek)
        PROVE  CalmInv'
    BY <1>1, HighEffect, HighKeepsCalmInv
  <1>2. ASSUME NEW lag \in Age, HandleUnjudged(lag) PROVE CalmInv'
    BY <1>2 DEF HandleUnjudged, CalmInv, OnePerKey, EvidenceIsStored, RecoveredIsClosed, Live,
               ByProcess
  <1>3. ASSUME NEW e \in EventId, NEW lag \in Age, HandleNoConfig(e, lag) PROVE CalmInv'
    BY <1>3 DEF HandleNoConfig, FreshId, CalmInv, OnePerKey, EvidenceIsStored, RecoveredIsClosed,
               Live, ByProcess, TypeOK, Ages
  <1>4. CASE Read
    BY <1>1, <1>2, <1>3, <1>4, ReadCases, NormalKeepsCalmInv
  <1>5. CASE Tick
    <2>1. \A e \in Live' : e \in EventId
      BY DEF Live
    <2> QED BY <1>5, <2>1, TickEffect
            DEF CalmInv, OnePerKey, EvidenceIsStored, RecoveredIsClosed, ByProcess
  <1>6. CASE Crash
    BY <1>6 DEF Crash, history, CalmInv, OnePerKey, EvidenceIsStored, RecoveredIsClosed, Live,
               ByProcess
  <1>7. CASE Start \/ UNCHANGED vars
    <2>1. UNCHANGED <<store, lastAlert, recovered>>
      BY <1>7 DEF Start, vars, memory, history
    <2> QED BY <2>1 DEF CalmInv, OnePerKey, EvidenceIsStored, RecoveredIsClosed, Live, ByProcess
  <1> QED BY <1>4, <1>5, <1>6, <1>7 DEF Next

LEMMA CalmInvInit == Init => CalmInv
  BY DEF Init, CalmInv, OnePerKey, EvidenceIsStored, RecoveredIsClosed, Live

\* While no Redis call fails, one process name, or one type, has one open event,
\* for any number of processes, across crashes and expiries.
THEOREM OneEventHolds == Spec => []OneEventPerKey
  <1>1. CASE ~Faults
    <2>1. CalmInv => OneEventPerKey
      BY DEF CalmInv, OnePerKey, OneEventPerKey
    <2>2. TypeOK /\ CalmInv /\ [Next]_vars => CalmInv'
      BY <1>1, CalmInvStep
    <2> QED BY <2>1, <2>2, CalmInvInit, TypeCorrect, PTL DEF Spec
  <1>2. CASE Faults
    <2>1. OneEventPerKey
      BY <1>2 DEF OneEventPerKey
    <2> QED BY <2>1, PTL
  <1> QED BY <1>1, <1>2

-----------------------------------------------------------------------------
(* The refinement of AlertLifecycle.                                        *)

PhaseOf(e) == IF e \notin Live THEN "closed" ELSE IF Notified(e) THEN "notified" ELSE "open"

LEMMA PhaseFacts ==
    /\ Phase = [e \in EventId |-> PhaseOf(e)]
    /\ Phase' = [e \in EventId |-> PhaseOf(e)']
  BY DEF Phase, PhaseOf

\* One event changes its phase.
LEMMA BecomeFact ==
    ASSUME NEW e \in EventId, NEW to, PhaseOf(e)' = to,
           \A f \in EventId \ {e} : PhaseOf(f)' = PhaseOf(f)
    PROVE  Lifecycle!Become(e, to)
  BY PhaseFacts DEF Lifecycle!Become

LEMMA SamePhase ==
    ASSUME \A f \in EventId : PhaseOf(f)' = PhaseOf(f)
    PROVE  UNCHANGED Phase
  BY PhaseFacts

\* An event whose state and last alert stay keeps its phase.
LEMMA OtherPhase ==
    ASSUME NEW f \in EventId, store'[f] = store[f], lastAlert'[f] = lastAlert[f]
    PROVE  PhaseOf(f)' = PhaseOf(f)
  BY DEF PhaseOf, Live, Notified

LEMMA LiveEvent == \A e \in Live : e \in EventId
  BY DEF Live

LEMMA HighRefines ==
    ASSUME ~Faults, TypeOK, NEW n \in Name, NEW lag \in Age, NEW e \in EventId,
           Updates(n, e, lag) \/ Creates(n, e, lag)
    PROVE  Lifecycle!Next
  <1>1. \A f \in EventId \ {e} : PhaseOf(f)' = PhaseOf(f)
    BY OtherPhase DEF Updates, Creates
  <1>2. CASE Updates(n, e, lag) /\ out' = [kind |-> "alert", ev |-> e]
    <2>1. PhaseOf(e)' = "notified"
      BY <1>2 DEF Updates, PhaseOf, Live, Notified, NoResult
    <2>2. Phase[e] # "closed"
      BY <1>2, PhaseFacts DEF Updates, PhaseOf
    <2>3. Lifecycle!Become(e, "notified")
      BY <1>1, <2>1, BecomeFact
    <2> QED BY <1>2, <2>2, <2>3 DEF Lifecycle!Alert, Lifecycle!Returns, Lifecycle!Next
  <1>3. CASE Updates(n, e, lag) /\ out' = NoResult
    <2>1. PhaseOf(e)' = PhaseOf(e)
      BY <1>3 DEF Updates, PhaseOf, Live, Notified, NoResult
    <2>2. UNCHANGED Phase
      BY <1>1, <2>1, SamePhase
    <2> QED BY <1>3, <2>2
            DEF Lifecycle!Wait, Lifecycle!Silent, Lifecycle!Returns, Lifecycle!Next, NoResult
  <1>4. CASE Creates(n, e, lag)
    <2>1. PhaseOf(e)' = "open"
      BY <1>4 DEF Creates, PhaseOf, Live, Notified
    <2>2. Phase[e] = "closed"
      BY <1>4, PhaseFacts DEF Creates, PhaseOf, FreshId
    <2>3. Lifecycle!Become(e, "open")
      BY <1>1, <2>1, BecomeFact
    <2> QED BY <1>4, <2>2, <2>3
            DEF Creates, Lifecycle!Open, Lifecycle!Silent, Lifecycle!Returns, Lifecycle!Next, NoResult
  <1> QED BY <1>2, <1>3, <1>4 DEF Updates

LEMMA NormalRefines ==
    ASSUME ~Faults, TypeOK, NEW n, NEW hot, NEW lag, HandleRecovery(n, hot, lag)
    PROVE  Lifecycle!Next
  <1>1. PICK e \in FindAlertState(n) :
          Drops(e) \/ Recovers(e, lag) \/ Holds(e, lag) \/ Passes(e, hot)
    BY NormalEffect
  <1>2. CASE Holds(e, lag) \/ Passes(e, hot)
    <2>1. UNCHANGED <<store, lastAlert>> /\ out' = NoResult
      BY <1>2 DEF Holds, Passes, memory
    <2>2. UNCHANGED Phase
      BY <2>1, OtherPhase, SamePhase
    <2> QED BY <2>1, <2>2
            DEF Lifecycle!Wait, Lifecycle!Silent, Lifecycle!Returns, Lifecycle!Next, NoResult
  <1>3. CASE Drops(e) \/ Recovers(e, lag)
    <2>1. /\ e \in Live /\ store' = [store EXCEPT ![e] = None] /\ UNCHANGED lastAlert
      BY <1>3 DEF Drops, Recovers, Closes, memory
    <2>2. e \in EventId
      BY <2>1, LiveEvent
    <2>3. /\ \A f \in EventId \ {e} : PhaseOf(f)' = PhaseOf(f)
          /\ PhaseOf(e)' = "closed"
      BY <2>1, <2>2, OtherPhase DEF PhaseOf, Live, TypeOK
    <2>4. Lifecycle!Become(e, "closed")
      BY <2>2, <2>3, BecomeFact
    <2>5. CASE Drops(e)
      <3>1. Phase[e] = "open" /\ out' = NoResult
        BY <2>1, <2>2, <2>5, PhaseFacts DEF Drops, PhaseOf
      <3> QED BY <2>2, <2>4, <3>1
              DEF Lifecycle!Drop, Lifecycle!Silent, Lifecycle!Returns, Lifecycle!Next, NoResult
    <2>6. CASE Recovers(e, lag)
      <3>1. Phase[e] = "notified" /\ out' = [kind |-> "recovery", ev |-> e]
        BY <2>1, <2>2, <2>6, PhaseFacts DEF Recovers, PhaseOf
      <3> QED BY <2>2, <2>4, <3>1 DEF Lifecycle!Recover, Lifecycle!Returns, Lifecycle!Next
    <2> QED BY <1>3, <2>5, <2>6
  <1> QED BY <1>1, <1>2, <1>3

LEMMA NoConfigRefines ==
    ASSUME TypeOK, NEW e \in EventId, NEW lag, HandleNoConfig(e, lag)
    PROVE  Lifecycle!Next
  <1>1. /\ e \in FreshId /\ UNCHANGED store /\ out' = [kind |-> "error", ev |-> e]
        /\ \A f \in EventId \ {e} : lastAlert'[f] = lastAlert[f]
    BY DEF HandleNoConfig, TypeOK, Ages
  <1>2. \A f \in EventId \ {e} : PhaseOf(f)' = PhaseOf(f)
    BY <1>1, OtherPhase
  <1>3. PhaseOf(e)' = "closed" /\ PhaseOf(e) = "closed"
    BY <1>1 DEF PhaseOf, FreshId, Live
  <1>4. UNCHANGED Phase /\ Phase[e] = "closed"
    BY <1>2, <1>3, SamePhase, PhaseFacts
  <1> QED BY <1>1, <1>4 DEF Lifecycle!Fail, Lifecycle!Returns, Lifecycle!Next

\* Expiry closes events of any phase, at any time.
LEMMA TickRefines ==
    ASSUME TypeOK, Tick
    PROVE  Lifecycle!Next
  <1> DEFINE lost == Live \ Live'
  <1>1. \A e \in EventId : PhaseOf(e)' = IF e \in lost THEN "closed" ELSE PhaseOf(e)
    BY TickEffect DEF PhaseOf, Notified
  <1>2. Phase' = [e \in EventId |-> IF e \in lost THEN "closed" ELSE Phase[e]]
    BY <1>1, PhaseFacts
  <1>3. lost \in SUBSET EventId
    BY LiveEvent
  <1>4. out' = NoResult
    BY TickEffect
  <1>5. Lifecycle!Expire
    BY <1>2, <1>3, <1>4 DEF Lifecycle!Expire, Lifecycle!Silent, Lifecycle!Returns, NoResult
  <1> QED BY <1>5 DEF Lifecycle!Next

\* A crash takes no evidence of an alert away: it is in Redis too.
LEMMA SilentRefines ==
    ASSUME TypeOK, CalmInv, Crash \/ Start \/ \E lag \in Age : HandleUnjudged(lag)
    PROVE  Lifecycle!Next
  <1>1. UNCHANGED store /\ out' = NoResult
    BY DEF Crash, Start, HandleUnjudged
  <1>2. \A e \in EventId : PhaseOf(e)' = PhaseOf(e)
    <2>1. CASE Crash
      BY <2>1 DEF Crash, PhaseOf, Live, Notified, CalmInv, EvidenceIsStored
    <2>2. CASE Start \/ \E lag \in Age : HandleUnjudged(lag)
      <3>1. UNCHANGED <<store, lastAlert>>
        BY <2>2 DEF Start, HandleUnjudged, memory
      <3> QED BY <3>1, OtherPhase
    <2> QED BY <2>1, <2>2
  <1>3. UNCHANGED Phase
    BY <1>2, SamePhase
  <1> QED BY <1>1, <1>3
          DEF Lifecycle!Wait, Lifecycle!Silent, Lifecycle!Returns, Lifecycle!Next, NoResult

LEMMA InitRefines == Init => Lifecycle!Init
  BY PhaseFacts DEF Init, Lifecycle!Init, PhaseOf, Live, NoResult

LEMMA StepRefines ==
    ~Faults /\ TypeOK /\ CalmInv /\ [Next]_vars => [Lifecycle!Next]_(Lifecycle!vars)
  <1> SUFFICES ASSUME ~Faults, TypeOK, CalmInv, [Next]_vars
               PROVE  Lifecycle!Next \/ UNCHANGED Lifecycle!vars
    OBVIOUS
  <1>1. ASSUME NEW n \in Name, NEW pid \in Proc \cup {None}, NEW sev \in Severity, NEW lag \in Age,
               NEW peek \in BOOLEAN, HandleHigh(n, pid, sev, lag, peek)
        PROVE  Lifecycle!Next
    BY <1>1, HighEffect, HighRefines
  <1>2. CASE Read
    BY <1>1, <1>2, ReadCases, NormalRefines, NoConfigRefines, SilentRefines
  <1>3. CASE Tick
    BY <1>3, TickRefines
  <1>4. CASE Crash \/ Start
    BY <1>4, SilentRefines
  <1>5. CASE UNCHANGED vars
    <2>1. UNCHANGED <<store, lastAlert, out>>
      BY <1>5 DEF vars
    <2>2. UNCHANGED Phase
      BY <2>1, OtherPhase, SamePhase
    <2> QED BY <2>1, <2>2 DEF Lifecycle!vars
  <1> QED BY <1>2, <1>3, <1>4, <1>5 DEF Next

\* While no Redis call fails the policy keeps the promises of AlertLifecycle:
\* it alerts open events only, drops those nobody was told of in silence, and
\* recovers those somebody was told of, for any number of events and processes.
THEOREM LifecycleIsImplemented == ~Faults /\ Spec => ImplementsLifecycle
  <1> SUFFICES ASSUME ~Faults PROVE Spec => ImplementsLifecycle
    OBVIOUS
  <1>1. TypeOK /\ CalmInv /\ [Next]_vars => CalmInv'
    BY CalmInvStep
  <1>2. TypeOK /\ CalmInv /\ [Next]_vars => [Lifecycle!Next]_(Lifecycle!vars)
    BY StepRefines
  <1> QED BY <1>1, <1>2, InitRefines, CalmInvInit, TypeCorrect, PTL
          DEF Spec, ImplementsLifecycle, Lifecycle!Spec

-----------------------------------------------------------------------------
(* A recovery is final.                                                     *)

LEMMA StepIsFinal ==
    ~Faults /\ TypeOK /\ CalmInv /\ [Next]_vars
        => [out'.kind \in {"alert", "recovery"} => out'.ev \notin recovered]_vars
  <1> SUFFICES ASSUME ~Faults, TypeOK, CalmInv, Next, out'.kind \in {"alert", "recovery"}
               PROVE  out'.ev \notin recovered
    OBVIOUS
  \* Whatever is notified is about an open event.
  <1>1. ASSUME NEW n \in Name, NEW pid \in Proc \cup {None}, NEW sev \in Severity, NEW lag \in Age,
               NEW peek \in BOOLEAN, HandleHigh(n, pid, sev, lag, peek)
        PROVE  out'.ev \in Live
    <2>1. PICK e \in EventId : Updates(n, e, lag) \/ Creates(n, e, lag)
      BY <1>1, HighEffect
    <2> QED BY <2>1 DEF Updates, Creates, NoResult
  <1>2. ASSUME NEW n, NEW hot, NEW lag, HandleRecovery(n, hot, lag) PROVE out'.ev \in Live
    <2>1. PICK e : Drops(e) \/ Recovers(e, lag) \/ Holds(e, lag) \/ Passes(e, hot)
      BY <1>2, NormalEffect
    <2> QED BY <2>1 DEF Drops, Recovers, Holds, Passes, Closes, NoResult
  <1>3. ASSUME NEW e, NEW lag, HandleUnjudged(lag) \/ HandleNoConfig(e, lag) PROVE FALSE
    BY <1>3 DEF HandleUnjudged, HandleNoConfig, NoResult
  <1>4. CASE Read
    <2>1. out'.ev \in Live
      BY <1>1, <1>2, <1>3, <1>4, ReadCases
    <2> QED BY <2>1 DEF CalmInv, RecoveredIsClosed
  <1>5. CASE Tick \/ Crash \/ Start
    BY <1>5 DEF Tick, Crash, Start, NoResult
  <1> QED BY <1>4, <1>5 DEF Next

\* While no Redis call fails no notification follows the recovery of an event.
THEOREM RecoveryEndsEvent == ~Faults /\ Spec => RecoveryIsFinal
  <1> SUFFICES ASSUME ~Faults PROVE Spec => RecoveryIsFinal
    OBVIOUS
  <1>1. TypeOK /\ CalmInv /\ [Next]_vars => CalmInv'
    BY CalmInvStep
  <1>2. TypeOK /\ CalmInv /\ [Next]_vars
          => [out'.kind \in {"alert", "recovery"} => out'.ev \notin recovered]_vars
    BY StepIsFinal
  <1> QED BY <1>1, <1>2, CalmInvInit, TypeCorrect, PTL DEF Spec, RecoveryIsFinal

-----------------------------------------------------------------------------
(* The durations of a type with one event.                                  *)

\* An event nobody was told of is younger than the last normal reading, and a
\* recovery timer than the last one that was not normal.  A decision is as old
\* as its wait for the lock, so both are off by MaxLag at most.
YoungerThanOk ==
    \A e \in Live : e \notin alerted => store[e].age <= okAge + MaxLag
TimerSinceBad ==
    \A e \in Live : recStart[e] # None => recStart[e] <= badAge + MaxLag

DurationInv == CalmInv /\ NotifiedWasAlerted /\ YoungerThanOk /\ TimerSinceBad

LEMMA LagIsBounded == TypeOK => \A lag \in Lag : lag \in Age /\ lag <= MaxLag
  BY LagIsAge, PolicyConstants DEF TypeOK, Lag

LEMMA LiveAge == TypeOK => \A e \in Live : store[e].age \in Age
  BY LiveState DEF AlertState

\* The bound is kept while both ages grow.
LEMMA OlderKeepsBound ==
    ASSUME NEW a \in Age, NEW b \in Age, a <= b + MaxLag
    PROVE  Older(a) <= Older(b) + MaxLag
  BY PolicyConstants, NoneIsNoValue DEF Older, Age

\* What the decision says of a type with one event stops all of its timers.
LEMMA AllTimersCleared ==
    ASSUME ~Faults, ~ByProcess, TypeOK, CalmInv, NEW n, NEW timers \in ClearedTimers(n),
           NEW e \in Live
    PROVE  timers[e] = None
  <1>1. PICK f \in FindAlertState(n) :
          timers = IF f = None THEN recStart ELSE [recStart EXCEPT ![f] = None]
    BY DEF ClearedTimers
  <1>2. f = e
    BY LookupFindsAll DEF CalmInv
  <1>3. e # None /\ e \in EventId
    BY NoneIsNoValue DEF Live
  <1> QED BY <1>1, <1>2, <1>3 DEF TypeOK, Ages

LEMMA HighKeepsDurationInv ==
    ASSUME ~Faults, ~ByProcess, TypeOK, DurationInv, NEW n \in Name, NEW lag \in Age,
           lag <= MaxLag, NEW e \in EventId, Updates(n, e, lag) \/ Creates(n, e, lag),
           UNCHANGED okAge
    PROVE  YoungerThanOk' /\ TimerSinceBad'
  <1>1. CASE Updates(n, e, lag)
    <2>1. Live' = Live /\ alerted \subseteq alerted'
      BY <1>1 DEF Updates, Live
    <2>2. \A f \in Live : store'[f].age = store[f].age
      BY <1>1 DEF Updates, Live
    <2>3. \A f \in Live : recStart'[f] = None
      BY <1>1, AllTimersCleared DEF Updates, DurationInv
    <2> QED BY <2>1, <2>2, <2>3 DEF DurationInv, YoungerThanOk, TimerSinceBad
  <1>2. CASE Creates(n, e, lag)
    <2>1. Live' = Live \cup {e} /\ e \notin Live
      BY <1>2 DEF Creates, Live, FreshId
    <2>2. Live = {}
      BY <1>2, LookupExact DEF Creates, FindExisting
    <2>3. lag <= okAge + MaxLag
      BY ZeroIsAge, PolicyConstants DEF TypeOK, Age
    <2>4. recStart'[e] = None
      BY <1>2, ClearedTimersType DEF Creates, Ages
    <2> QED BY <1>2, <2>1, <2>2, <2>3, <2>4 DEF Creates, YoungerThanOk, TimerSinceBad
  <1> QED BY <1>1, <1>2

\* A normal reading drops an event nobody was told of.
LEMMA NormalKeepsDurationInv ==
    ASSUME ~Faults, ~ByProcess, TypeOK, DurationInv, NEW n, NEW hot \in SUBSET Proc,
           NEW lag \in Age, lag <= MaxLag, HandleRecovery(n, hot, lag)
    PROVE  YoungerThanOk' /\ TimerSinceBad'
  <1>1. PICK e \in FindAlertState(n) :
          Drops(e) \/ Recovers(e, lag) \/ Holds(e, lag) \/ Passes(e, hot)
    BY NormalEffect
  <1>2. UNCHANGED <<badAge, alerted>>
    BY NormalEffect
  <1>3. Live \subseteq {e}
    BY LookupFindsAll DEF DurationInv, CalmInv
  <1>4. CASE Drops(e) \/ Recovers(e, lag)
    <2>1. Live' = {}
      BY <1>3, <1>4 DEF Drops, Recovers, Closes, Live, TypeOK
    <2> QED BY <2>1 DEF YoungerThanOk, TimerSinceBad
  <1>5. CASE Holds(e, lag)
    <2>1. UNCHANGED store /\ Live' = Live /\ e \in EventId
      BY <1>5 DEF Holds, Live
    <2>2. e \in alerted
      BY <1>5 DEF Holds, DurationInv, NotifiedWasAlerted
    <2>3. lag <= badAge + MaxLag
      BY ZeroIsAge, PolicyConstants DEF TypeOK, Age
    <2>4. recStart'[e] = RecoveryStart(e, lag)
      BY <1>5, <2>1 DEF Holds, TypeOK, Ages
    <2>5. recStart'[e] <= badAge + MaxLag
      BY <1>5, <2>3, <2>4 DEF Holds, RecoveryStart, DurationInv, TimerSinceBad
    <2> QED BY <1>2, <1>3, <2>1, <2>2, <2>5 DEF YoungerThanOk, TimerSinceBad
  <1>6. CASE Passes(e, hot)
    <2>1. hot = {}
      BY PolicyConstants DEF ByProcess
    <2>2. e = None
      BY <1>6, <2>1 DEF Passes, StillHot
    <2>3. Live' = {}
      BY <1>3, <1>6, <2>2, NoneIsNoValue DEF Passes, Live
    <2> QED BY <2>3 DEF YoungerThanOk, TimerSinceBad
  <1> QED BY <1>1, <1>4, <1>5, <1>6

LEMMA UnjudgedKeepsDurationInv ==
    ASSUME ~Faults, ~ByProcess, TypeOK, DurationInv, NEW lag, HandleUnjudged(lag)
    PROVE  YoungerThanOk' /\ TimerSinceBad'
  <1>1. UNCHANGED <<store, alerted, okAge>> /\ recStart' \in ClearedTimers(None)
    BY DEF HandleUnjudged
  <1>2. \A e \in Live : recStart'[e] = None
    BY <1>1, AllTimersCleared DEF DurationInv
  <1> QED BY <1>1, <1>2 DEF DurationInv, YoungerThanOk, TimerSinceBad, Live

LEMMA TickKeepsDurationInv ==
    ASSUME TypeOK, DurationInv, Tick
    PROVE  YoungerThanOk' /\ TimerSinceBad'
  <1>1. YoungerThanOk'
    <2> SUFFICES ASSUME NEW e \in Live', e \notin alerted PROVE store'[e].age <= okAge' + MaxLag
      BY TickEffect DEF YoungerThanOk
    <2>1. e \in Live /\ store'[e].age = Older(store[e].age) /\ okAge' = Older(okAge)
      BY TickEffect
    <2>2. store[e].age \in Age /\ okAge \in Age /\ store[e].age <= okAge + MaxLag
      BY <2>1, LiveAge DEF DurationInv, YoungerThanOk, TypeOK
    <2> QED BY <2>1, <2>2, OlderKeepsBound
  <1>2. TimerSinceBad'
    <2> SUFFICES ASSUME NEW e \in Live', recStart'[e] # None PROVE recStart'[e] <= badAge' + MaxLag
      BY DEF TimerSinceBad
    <2>1. e \in Live /\ e \in EventId /\ badAge' = Older(badAge) /\ recStart'[e] = Older(recStart[e])
      BY TickEffect DEF Live
    <2>2. recStart[e] # None
      BY <2>1 DEF Older
    <2>3. recStart[e] \in Age /\ badAge \in Age /\ recStart[e] <= badAge + MaxLag
      BY <2>1, <2>2 DEF DurationInv, TimerSinceBad, TypeOK, Ages
    <2> QED BY <2>1, <2>3, OlderKeepsBound
  <1> QED BY <1>1, <1>2

\* The handlers of decisions run with a lag of at most MaxLag.
LEMMA ReadCasesLag ==
    ASSUME TypeOK, Read
    PROVE  \/ \E n \in Name, hot \in SUBSET Proc, lag \in Age :
                lag <= MaxLag /\ HandleRecovery(n, hot, lag)
           \/ \E n \in Name, pid \in Proc \cup {None}, sev \in Severity, lag \in Age,
                 peek \in BOOLEAN : lag <= MaxLag /\ HandleHigh(n, pid, sev, lag, peek)
           \/ \E lag \in Age : HandleUnjudged(lag)
           \/ \E e \in EventId, lag \in Age : HandleNoConfig(e, lag)
  <1>1. \A s \in Subject : s[1] \in Proc \cup {None} /\ s[2] \in Name
    BY DEF Subject, Name
  <1>2. CASE ReadNormal
    <2>1. PICK s \in Subject, hot \in SUBSET Proc, lag \in Lag : HandleRecovery(s[2], hot, lag)
      BY <1>2 DEF ReadNormal
    <2> QED BY <1>1, <2>1, LagIsBounded
  <1>3. CASE ReadHigh
    <2>1. PICK s \in Subject, sev \in Severity, lag \in Lag, peek \in BOOLEAN :
            HandleHigh(s[2], s[1], sev, lag, peek)
      BY <1>3 DEF ReadHigh
    <2> QED BY <1>1, <2>1, LagIsBounded
  <1>4. CASE ReadUnjudged \/ ReadError
    BY <1>4, LagIsBounded DEF ReadUnjudged, ReadError
  <1> QED BY <1>2, <1>3, <1>4 DEF Read

LEMMA DurationInvInit == Init => YoungerThanOk /\ TimerSinceBad
  BY DEF Init, YoungerThanOk, TimerSinceBad, Live

LEMMA DurationInvStep ==
    ASSUME ~Faults, ~ByProcess, TypeOK, DurationInv, [Next]_vars
    PROVE  YoungerThanOk' /\ TimerSinceBad'
  <1>1. ASSUME NEW n \in Name, NEW pid \in Proc \cup {None}, NEW sev \in Severity, NEW lag \in Age,
               NEW peek \in BOOLEAN, lag <= MaxLag, HandleHigh(n, pid, sev, lag, peek)
        PROVE  YoungerThanOk' /\ TimerSinceBad'
    <2>1. UNCHANGED okAge
      BY <1>1 DEF HandleHigh
    <2>2. PICK e \in EventId : Updates(n, e, lag) \/ Creates(n, e, lag)
      BY <1>1, HighEffect
    <2> QED BY <1>1, <2>1, <2>2, HighKeepsDurationInv
  <1>2. ASSUME NEW e \in EventId, NEW lag, HandleNoConfig(e, lag)
        PROVE  YoungerThanOk' /\ TimerSinceBad'
    BY <1>2 DEF HandleNoConfig, FreshId, DurationInv, YoungerThanOk, TimerSinceBad, Live
  <1>3. CASE Read
    BY <1>1, <1>2, <1>3, ReadCasesLag, NormalKeepsDurationInv, UnjudgedKeepsDurationInv
  <1>4. CASE Tick
    BY <1>4, TickKeepsDurationInv
  <1>5. CASE Crash
    BY <1>5 DEF Crash, history, DurationInv, YoungerThanOk, TimerSinceBad, Live
  <1>6. CASE Start \/ UNCHANGED vars
    <2>1. UNCHANGED <<store, recStart, okAge, badAge, alerted>>
      BY <1>6 DEF Start, vars, memory, history
    <2> QED BY <2>1 DEF DurationInv, YoungerThanOk, TimerSinceBad, Live
  <1> QED BY <1>3, <1>4, <1>5, <1>6 DEF Next

\* The first alert of an event is for one that was there for Dur when its
\* decision was made, and so before the last normal reading was.
LEMMA AlertIsLate ==
    ~Faults /\ ~ByProcess /\ TypeOK /\ DurationInv /\ [Next]_vars
        => [(out'.kind = "alert" /\ out'.ev \notin alerted) => okAge + MaxLag >= Dur]_vars
  <1> SUFFICES ASSUME ~Faults, ~ByProcess, TypeOK, DurationInv, Next,
                      out'.kind = "alert", out'.ev \notin alerted
               PROVE  okAge + MaxLag >= Dur
    OBVIOUS
  <1>1. ASSUME NEW n \in Name, NEW pid, NEW sev \in Severity, NEW lag \in Age,
               NEW peek \in BOOLEAN, HandleHigh(n, pid, sev, lag, peek)
        PROVE  okAge + MaxLag >= Dur
    <2>1. PICK e \in EventId : Updates(n, e, lag) \/ Creates(n, e, lag)
      BY <1>1, HighEffect
    <2>2. e \in Live /\ out'.ev = e /\ store[e].age >= lag + Dur
      BY <2>1 DEF Updates, Creates, NoResult
    <2>3. store[e].age <= okAge + MaxLag
      BY <2>2 DEF DurationInv, YoungerThanOk
    <2>4. store[e].age \in Nat /\ okAge \in Nat /\ lag \in Nat
      BY <2>2, LiveAge, ZeroIsAge DEF TypeOK
    <2> QED BY <2>2, <2>3, <2>4, PolicyConstants
  <1>2. ASSUME NEW n, NEW hot, NEW lag, HandleRecovery(n, hot, lag) PROVE FALSE
    <2>1. PICK e : Drops(e) \/ Recovers(e, lag) \/ Holds(e, lag) \/ Passes(e, hot)
      BY <1>2, NormalEffect
    <2> QED BY <2>1 DEF Drops, Recovers, Holds, Passes, NoResult
  <1>3. ASSUME NEW e, NEW lag, HandleUnjudged(lag) \/ HandleNoConfig(e, lag) PROVE FALSE
    BY <1>3 DEF HandleUnjudged, HandleNoConfig, NoResult
  <1>4. ~(Tick \/ Crash \/ Start)
    BY DEF Tick, Crash, Start, NoResult
  <1> QED BY <1>1, <1>2, <1>3, <1>4, ReadCases DEF Next

\* A recovery is for a timer that ran for RecDur when its decision was made, and
\* so since the last reading that was not normal.
LEMMA RecoveryIsLate ==
    ~Faults /\ ~ByProcess /\ TypeOK /\ DurationInv /\ [Next]_vars
        => [out'.kind = "recovery" => badAge + MaxLag >= RecDur]_vars
  <1> SUFFICES ASSUME ~Faults, ~ByProcess, TypeOK, DurationInv, Next, out'.kind = "recovery"
               PROVE  badAge + MaxLag >= RecDur
    OBVIOUS
  <1>1. ASSUME NEW n, NEW hot, NEW lag \in Age, HandleRecovery(n, hot, lag)
        PROVE  badAge + MaxLag >= RecDur
    <2>1. PICK e : Drops(e) \/ Recovers(e, lag) \/ Holds(e, lag) \/ Passes(e, hot)
      BY <1>1, NormalEffect
    <2>2. e \in Live /\ RecoveryStart(e, lag) >= lag + RecDur
      BY <2>1 DEF Drops, Recovers, Holds, Passes, Closes, NoResult
    <2>3. lag \in Nat /\ badAge \in Nat
      BY ZeroIsAge DEF TypeOK
    <2>4. recStart[e] # None /\ recStart[e] >= lag + RecDur
      BY <2>2, <2>3, PolicyConstants DEF RecoveryStart
    <2>5. recStart[e] \in Nat /\ recStart[e] <= badAge + MaxLag
      BY <2>2, <2>4, ZeroIsAge DEF DurationInv, TimerSinceBad, TypeOK, Ages, Live
    <2> QED BY <2>3, <2>4, <2>5, PolicyConstants
  <1>2. ASSUME NEW n \in Name, NEW pid, NEW sev \in Severity, NEW lag \in Age,
               NEW peek \in BOOLEAN, HandleHigh(n, pid, sev, lag, peek)
        PROVE  FALSE
    <2>1. PICK e \in EventId : Updates(n, e, lag) \/ Creates(n, e, lag)
      BY <1>2, HighEffect
    <2> QED BY <2>1 DEF Updates, Creates, NoResult
  <1>3. ASSUME NEW e, NEW lag, HandleUnjudged(lag) \/ HandleNoConfig(e, lag) PROVE FALSE
    BY <1>3 DEF HandleUnjudged, HandleNoConfig, NoResult
  <1>4. ~(Tick \/ Crash \/ Start)
    BY DEF Tick, Crash, Start, NoResult
  <1> QED BY <1>1, <1>2, <1>3, <1>4, ReadCases DEF Next

LEMMA DurationInvHolds == ~Faults /\ ~ByProcess /\ Spec => []DurationInv
  <1> SUFFICES ASSUME ~Faults, ~ByProcess PROVE Spec => []DurationInv
    OBVIOUS
  <1>1. Init => DurationInv
    BY CalmInvInit, AlertInvInit, DurationInvInit DEF DurationInv, AlertInv
  <1>2. TypeOK /\ AlertInv /\ DurationInv /\ [Next]_vars => DurationInv'
    <2> SUFFICES ASSUME TypeOK, AlertInv, DurationInv, [Next]_vars PROVE DurationInv'
      OBVIOUS
    <2>1. CalmInv'
      BY CalmInvStep DEF DurationInv
    <2>2. NotifiedWasAlerted'
      BY AlertInvStep DEF AlertInv
    <2> QED BY <2>1, <2>2, DurationInvStep DEF DurationInv
  <1> QED BY <1>1, <1>2, AlertInvInit, AlertInvStep, TypeCorrect, PTL DEF Spec

\* While no Redis call fails the first alert of an event of a type with one
\* event comes after readings that were abnormal for Dur, up to MaxLag.
THEOREM AlertNeedsDuration == ~Faults /\ ~ByProcess /\ Spec => AlertAfterContinuousHigh
  <1> SUFFICES ASSUME ~Faults, ~ByProcess PROVE Spec => AlertAfterContinuousHigh
    OBVIOUS
  <1>1. TypeOK /\ DurationInv /\ [Next]_vars
          => [(out'.kind = "alert" /\ out'.ev \notin alerted) => okAge + MaxLag >= Dur]_vars
    BY AlertIsLate
  <1>2. Spec => []DurationInv
    BY DurationInvHolds
  <1> QED BY <1>1, <1>2, TypeCorrect, PTL DEF Spec, AlertAfterContinuousHigh

\* And its recovery after readings that were normal for RecDur, up to MaxLag.
THEOREM RecoveryNeedsDuration == ~Faults /\ ~ByProcess /\ Spec => RecoveryAfterContinuousNormal
  <1> SUFFICES ASSUME ~Faults, ~ByProcess PROVE Spec => RecoveryAfterContinuousNormal
    OBVIOUS
  <1>1. TypeOK /\ DurationInv /\ [Next]_vars
          => [out'.kind = "recovery" => badAge + MaxLag >= RecDur]_vars
    BY RecoveryIsLate
  <1>2. Spec => []DurationInv
    BY DurationInvHolds
  <1> QED BY <1>1, <1>2, TypeCorrect, PTL DEF Spec, RecoveryAfterContinuousNormal
=============================================================================
