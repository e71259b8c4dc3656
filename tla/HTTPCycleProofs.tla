---------------------------- MODULE HTTPCycleProofs ----------------------------
(***************************************************************************)
(* The HTTP cycle keeps the promises of the policy, for every number of    *)
(* interfaces, and one healthy interface keeps it silent about others.     *)
(***************************************************************************)
EXTENDS HTTPCycle, AlertPolicyProofs

\* The policy is the one for HTTPErr, whose only level is p2.
HTTPPolicy == Kind = "http" /\ "p2" \in Severity

-----------------------------------------------------------------------------
(* A step of the cycle is a step of the policy, or reads the interfaces     *)
(* before the first decision.                                               *)

Opens ==
    /\ up /\ gap' = 0 /\ out' = NoResult
    /\ UNCHANGED <<store, memory, up, uptime, history>>

CycleStep == Next \/ Opens \/ UNCHANGED vars

LEMMA NowIsALag == TypeOK => 0 \in Lag
  BY PolicyConstants DEF TypeOK, Lag

LEMMA HandleIsRead ==
    ASSUME HTTPPolicy, TypeOK, Decision, NEW d, Handle(d)
    PROVE  Read
  <1>1. <<None, None>> \in Subject /\ {} \in SUBSET Proc /\ 0 \in Lag /\ FALSE \in BOOLEAN
    BY NowIsALag DEF Subject
  <1>2. <<None, None>>[1] = None /\ <<None, None>>[2] = None
    OBVIOUS
  <1>3. CASE HandleRecovery(None, {}, 0)
    <2>1. ReadNormal
      BY <1>1, <1>2, <1>3 DEF ReadNormal
    <2> QED BY <2>1 DEF Read
  <1>4. CASE HandleHigh(None, None, "p2", 0, FALSE)
    <2>1. ReadHigh
      BY <1>1, <1>2, <1>4 DEF ReadHigh, HTTPPolicy
    <2> QED BY <2>1 DEF Read
  <1> QED BY <1>3, <1>4 DEF Handle

LEMMA CycleStepIsPolicyStep ==
    HTTPPolicy /\ TypeOK /\ [CycleNext]_cycleVars => CycleStep
  <1> SUFFICES ASSUME HTTPPolicy, TypeOK, [CycleNext]_cycleVars PROVE CycleStep
    OBVIOUS
  <1>1. CASE Begin
    BY <1>1 DEF Begin, Opens, CycleStep
  <1>2. CASE Process
    <2>1. Read
      BY <1>2, HandleIsRead DEF Process
    <2> QED BY <2>1 DEF Next, CycleStep
  <1>3. CASE Change \/ Time \/ Stop \/ Restart \/ UNCHANGED cycleVars
    BY <1>3 DEF Change, Time, Stop, Restart, cycleVars, Next, CycleStep
  <1> QED BY <1>1, <1>2, <1>3 DEF CycleNext

\* Reading the interfaces disturbs no invariant of the policy.
LEMMA OpensKeeps ==
    ASSUME Opens
    PROVE  /\ TypeOK => TypeOK'
           /\ AlertInv => AlertInv'
           /\ CalmInv => CalmInv'
           /\ DurationInv => DurationInv'
  <1>1. UNCHANGED <<store, lastAlert, lastRecovery, recStart, up, uptime,
                    reading, okAge, badAge, alerted, recovered>>
    BY DEF Opens, memory, history
  <1>2. TypeOK => TypeOK'
    BY <1>1, PolicyConstants DEF Opens, TypeOK, Result, NoResult
  <1>3. NotifiedWasAlerted => NotifiedWasAlerted'
    BY <1>1 DEF NotifiedWasAlerted, Notified, Live
  <1>4. RecoveryAfterAlert'
    BY DEF Opens, RecoveryAfterAlert, NoResult
  <1>5. CalmInv => CalmInv'
    BY <1>1 DEF CalmInv, OnePerKey, EvidenceIsStored, RecoveredIsClosed, Live, ByProcess
  <1>6. YoungerThanOk /\ TimerSinceBad => YoungerThanOk' /\ TimerSinceBad'
    BY <1>1 DEF YoungerThanOk, TimerSinceBad, Live
  <1> QED BY <1>2, <1>3, <1>4, <1>5, <1>6 DEF AlertInv, DurationInv

LEMMA TypeStep == TypeOK /\ [Next]_vars => TypeOK'
  <1> SUFFICES ASSUME TypeOK, [Next]_vars PROVE TypeOK'
    OBVIOUS
  <1>1. CASE Read
    BY <1>1, ReadCases, HandleRecoveryType, HandleHighType, HandleUnjudgedType,
       HandleNoConfigType
  <1>2. CASE Tick \/ Crash \/ Start
    BY <1>2, TickType, CrashStartType
  <1>3. CASE UNCHANGED vars
    BY <1>3 DEF vars, TypeOK
  <1> QED BY <1>1, <1>2, <1>3 DEF Next

LEMMA TypeInit == Init => TypeOK
  BY PolicyConstants DEF Init, TypeOK, Ages, Age, Result, NoResult, Readings

-----------------------------------------------------------------------------
(* The promises of the policy in the cycle.                                 *)

SoundInv == TypeOK /\ AlertInv

LEMMA CycleSoundInit == CycleInit => SoundInv
  BY TypeInit, AlertInvInit DEF CycleInit, SoundInv

LEMMA CycleSoundStep == HTTPPolicy /\ SoundInv /\ [CycleNext]_cycleVars => SoundInv'
  <1> SUFFICES ASSUME HTTPPolicy, SoundInv, [CycleNext]_cycleVars PROVE SoundInv'
    OBVIOUS
  <1>1. CycleStep
    BY CycleStepIsPolicyStep DEF SoundInv
  <1> QED BY <1>1, OpensKeeps, TypeStep, AlertInvStep DEF CycleStep, SoundInv

LEMMA CycleSound == HTTPPolicy /\ CycleSpec => []SoundInv
  <1> SUFFICES ASSUME HTTPPolicy PROVE CycleSpec => []SoundInv
    OBVIOUS
  <1>1. SoundInv /\ [CycleNext]_cycleVars => SoundInv'
    BY CycleSoundStep
  <1> QED BY <1>1, CycleSoundInit, PTL DEF CycleSpec

\* In the HTTP cycle too a recovery is returned only for an event an alert was
\* returned for, whichever interface each of them was about.
THEOREM CycleRecoveryAfterAlert == HTTPPolicy /\ CycleSpec => []RecoveryAfterAlert
  <1> SUFFICES ASSUME HTTPPolicy PROVE CycleSpec => []RecoveryAfterAlert
    OBVIOUS
  <1>1. SoundInv => RecoveryAfterAlert
    BY DEF SoundInv, AlertInv
  <1>2. CycleSpec => []SoundInv
    BY CycleSound
  <1> QED BY <1>1, <1>2, PTL

LEMMA HTTPIsNotByProcess == HTTPPolicy => ~ByProcess
  BY DEF HTTPPolicy, ByProcess

LEMMA CycleDurationInit == CycleInit => DurationInv
  BY CalmInvInit, AlertInvInit, DurationInvInit DEF CycleInit, DurationInv, AlertInv

LEMMA CycleDurationStep ==
    HTTPPolicy /\ ~Faults /\ SoundInv /\ DurationInv /\ [CycleNext]_cycleVars => DurationInv'
  <1> SUFFICES ASSUME HTTPPolicy, ~Faults, SoundInv, DurationInv, [CycleNext]_cycleVars
               PROVE  DurationInv'
    OBVIOUS
  <1>1. CycleStep /\ ~ByProcess /\ TypeOK /\ AlertInv
    BY CycleStepIsPolicyStep, HTTPIsNotByProcess DEF SoundInv
  <1>2. CASE Opens
    BY <1>2, OpensKeeps
  <1>3. CASE [Next]_vars
    <2>1. CalmInv'
      BY <1>1, <1>3, CalmInvStep DEF DurationInv
    <2>2. NotifiedWasAlerted'
      BY <1>1, <1>3, AlertInvStep DEF AlertInv
    <2> QED BY <1>1, <1>3, <2>1, <2>2, DurationInvStep DEF DurationInv
  <1> QED BY <1>1, <1>2, <1>3 DEF CycleStep

LEMMA CycleDuration == HTTPPolicy /\ ~Faults /\ CycleSpec => []DurationInv
  <1> SUFFICES ASSUME HTTPPolicy, ~Faults PROVE CycleSpec => []DurationInv
    OBVIOUS
  <1>1. SoundInv /\ DurationInv /\ [CycleNext]_cycleVars => DurationInv'
    BY CycleDurationStep
  <1>2. CycleSpec => []SoundInv
    BY CycleSound
  <1> QED BY <1>1, <1>2, CycleDurationInit, PTL DEF CycleSpec

\* While no Redis call fails, the first alert of an HTTP event comes when no
\* interface was found healthy for duration_required: one healthy answer, of
\* any interface, starts the duration anew.
THEOREM CycleAlertNeedsDuration ==
    HTTPPolicy /\ ~Faults /\ CycleSpec => AlertAfterContinuousHigh
  <1> SUFFICES ASSUME HTTPPolicy, ~Faults PROVE CycleSpec => AlertAfterContinuousHigh
    OBVIOUS
  <1>1. SoundInv /\ DurationInv /\ [CycleNext]_cycleVars
          => [(out'.kind = "alert" /\ out'.ev \notin alerted) => okAge + MaxLag >= Dur]_vars
    <2> SUFFICES ASSUME SoundInv, DurationInv, [CycleNext]_cycleVars
                 PROVE  [(out'.kind = "alert" /\ out'.ev \notin alerted) => okAge + MaxLag >= Dur]_vars
      OBVIOUS
    <2>1. CycleStep /\ ~ByProcess /\ TypeOK
      BY CycleStepIsPolicyStep, HTTPIsNotByProcess DEF SoundInv
    <2>2. CASE Opens
      BY <2>2 DEF Opens, NoResult
    <2>3. CASE [Next]_vars
      BY <2>1, <2>3, AlertIsLate
    <2> QED BY <2>1, <2>2, <2>3 DEF CycleStep
  <1>2. CycleSpec => []SoundInv /\ []DurationInv
    BY CycleSound, CycleDuration
  <1> QED BY <1>1, <1>2, PTL DEF CycleSpec, AlertAfterContinuousHigh

-----------------------------------------------------------------------------
(* Why DownIsAlerted fails: a healthy interface drops the event of others.  *)

\* The interface at place n needs an alert.
Watched(n) == Interfaces[n] \in DOMAIN Settings /\ Settings[Interfaces[n]].alert

\* Only the interfaces at the places F ever fail, and those lie on one side of
\* another one, z, that needs an alert as well.  A code of 200 is allowed for
\* all but those at F.
Shadows(z, F) ==
    /\ z \in DOMAIN Interfaces /\ F \subseteq DOMAIN Interfaces /\ Watched(z) /\ z \notin F
    /\ (\A n \in F : n < z) \/ (\A n \in F : n > z)
    /\ \A n \in DOMAIN Interfaces \ F : Watched(n) => E!ValidCode(200, Settings[Interfaces[n]].allowed)

Well(F) == up /\ \A n \in DOMAIN Interfaces \ F : Interfaces[n] \notin down

Fresh == \A e \in Live : store[e].age = 0

\* Nobody was told of anything, and where a failing interface is decided on the
\* event is new: it was dropped at z in this cycle, or will be before time passes.
SilentInv(z, F) ==
    /\ alerted = {} /\ \A e \in Live : ~Notified(e)
    /\ todo \subseteq DOMAIN Interfaces
    /\ \A n \in todo : n < z => z \in todo
    /\ IF \A n \in F : n < z THEN (Live = {} \/ z \in todo) /\ Fresh
                             ELSE todo = {} \/ z \in todo \/ Fresh

\* The interfaces are named in their order; Settings has each of them.
HaveSettings == Interfaces \in Seq(DOMAIN Settings)

LEMMA PlaceIsNat == HaveSettings => \A n \in DOMAIN Interfaces : n \in Nat
  BY DEF HaveSettings

\* What is decided about an interface.
LEMMA DecidedFacts ==
    ASSUME NEW i, NEW d \in Decided(i)
    PROVE  /\ i \in DOMAIN Settings /\ Settings[i].alert
           /\ d = E!Decision("HTTPErr", E!DecidedCode(Code(i), Settings[i].allowed), i)
  BY DEF Decided, E!HTTPDecisions, E!Decision, Config

LEMMA WatchedIsDecided ==
    ASSUME NEW i \in DOMAIN Settings, Settings[i].alert
    PROVE  Decided(i) # {}
  <1> DEFINE d == E!Decision("HTTPErr", E!DecidedCode(Code(i), Settings[i].allowed), i)
  <1>1. d \in Decided(i)
    BY DEF Decided, E!HTTPDecisions, E!Decision, Config
  <1> QED BY <1>1

\* A healthy interface is judged recovered.
LEMMA HealthyIsRecovered ==
    ASSUME NEW i, i \notin down, E!ValidCode(200, Settings[i].allowed), NEW d \in Decided(i)
    PROVE  E!Judgement(Config, d) = "recovered"
  <1>1. /\ d.type = "HTTPErr" /\ d.pid = i
        /\ d.value = E!DecidedCode(Code(i), Settings[i].allowed)
    BY DecidedFacts DEF E!Decision
  <1>2. d.value = 200
    BY <1>1 DEF E!DecidedCode, Code
  <1>3. E!Recovered(Config, d)
    BY <1>1, <1>2 DEF E!Recovered, E!RedisType, Config
  <1>4. E!HasConfig(Config, d.type)
    BY <1>1 DEF E!HasConfig
  <1> QED BY <1>3, <1>4 DEF E!Judgement

\* A healthy interface drops the event nobody was told of.
LEMMA RecoverySilent ==
    ASSUME HTTPPolicy, ~Faults, TypeOK, CalmInv, \A e \in Live : ~Notified(e),
           HandleRecovery(None, {}, 0)
    PROVE  Live' = {} /\ alerted' = alerted
  <1>1. PICK e \in FindAlertState(None) :
          Drops(e) \/ Recovers(e, 0) \/ Holds(e, 0) \/ Passes(e, {})
    BY NormalEffect
  <1>2. Live \subseteq {e}
    BY LookupFindsAll, HTTPIsNotByProcess DEF CalmInv
  <1>3. ~Recovers(e, 0) /\ ~Holds(e, 0)
    BY DEF Recovers, Holds, Closes
  <1>4. alerted' = alerted
    BY NormalEffect
  <1>5. CASE Drops(e)
    BY <1>2, <1>4, <1>5 DEF Drops, Closes, Live, TypeOK
  <1>6. CASE Passes(e, {})
    <2>1. e = None
      BY <1>6 DEF Passes, StillHot
    <2>2. Live' = Live
      BY <1>6 DEF Passes, Live
    <2> QED BY <1>2, <1>4, <2>1, <2>2, NoneIsNoValue DEF Live
  <1> QED BY <1>1, <1>3, <1>5, <1>6

\* A failing interface finds a new event, or opens one: too early for an alert.
LEMMA FailureSilent ==
    ASSUME HTTPPolicy, ~Faults, TypeOK, CalmInv, alerted = {}, \A e \in Live : ~Notified(e), Fresh,
           HandleHigh(None, None, "p2", 0, FALSE)
    PROVE  alerted' = {} /\ (\A e \in Live' : ~Notified(e)') /\ Fresh'
  <1>1. PICK e \in EventId : Updates(None, e, 0) \/ Creates(None, e, 0)
    <2>1. None \in Name /\ 0 \in Age /\ "p2" \in Severity /\ FALSE \in BOOLEAN
      BY ZeroIsAge DEF Name, HTTPPolicy
    <2> QED BY <2>1, HighEffect
  <1>2. CASE Updates(None, e, 0)
    <2>1. ~(store[e].age >= 0 + Dur)
      BY <1>2, PolicyConstants DEF Updates, Fresh
    <2>2. /\ Live' = Live /\ lastAlert' = lastAlert /\ alerted' = alerted
          /\ \A f \in Live : store'[f].sent = store[f].sent /\ store'[f].age = store[f].age
      BY <1>2, <2>1 DEF Updates, Live
    <2> QED BY <2>2 DEF Fresh, Notified
  <1>3. CASE Creates(None, e, 0)
    <2>1. Live' = Live \cup {e} /\ e \notin Live /\ \A f \in Live : f \in EventId \ {e}
      BY <1>3 DEF Creates, Live, FreshId
    <2>2. /\ \A f \in Live : store'[f] = store[f] /\ lastAlert'[f] = lastAlert[f]
          /\ store'[e].age = 0 /\ ~store'[e].sent /\ lastAlert'[e] = None /\ alerted' = {}
      BY <1>3, <2>1 DEF Creates
    <2> QED BY <2>1, <2>2 DEF Fresh, Notified
  <1> QED BY <1>1, <1>2, <1>3

LEMMA ProcessSilent ==
    ASSUME HTTPPolicy, HaveSettings, ~Faults, TypeOK, CalmInv, NEW z, NEW F, Shadows(z, F),
           SilentInv(z, F), Well(F), Process
    PROVE  SilentInv(z, F)'
  <1>1. PICK n \in todo : /\ \A m \in todo : n <= m
                          /\ todo' = todo \ {n}
                          /\ \E d \in Decided(Interfaces[n]) : Handle(d)
    BY DEF Process
  <1>2. PICK d \in Decided(Interfaces[n]) : Handle(d)
    BY <1>1
  <1>3. n \in DOMAIN Interfaces /\ n \in Nat /\ z \in Nat /\ \A m \in todo : m \in Nat
    BY PlaceIsNat DEF SilentInv, Shadows
  <1>4. Watched(n)
    BY <1>2, DecidedFacts DEF Watched
  <1>5. \A m \in todo' : m < z => z \in todo'
    BY <1>1, <1>3 DEF SilentInv
  <1>6. CASE HandleRecovery(None, {}, 0)
    <2>1. Live' = {} /\ alerted' = {}
      BY <1>6, RecoverySilent DEF SilentInv
    <2> QED BY <1>1, <1>5, <2>1 DEF SilentInv, Fresh
  <1>7. CASE HandleHigh(None, None, "p2", 0, FALSE) /\ E!Judgement(Config, d) = "p2"
    <2>1. n \in F
      BY <1>2, <1>3, <1>4, <1>7, HealthyIsRecovered DEF Shadows, Well
    <2>2. Fresh
      BY <1>1, <1>3, <2>1 DEF SilentInv, Shadows
    <2>3. alerted' = {} /\ (\A e \in Live' : ~Notified(e)') /\ Fresh'
      BY <1>7, <2>2, FailureSilent DEF SilentInv
    <2>4. (\A m \in F : m < z) => z \in todo'
      BY <1>1, <1>3, <2>1 DEF SilentInv, Shadows
    <2> QED BY <1>1, <1>5, <2>3, <2>4 DEF SilentInv
  <1> QED BY <1>2, <1>6, <1>7 DEF Handle

LEMMA SilentStep ==
    ASSUME HTTPPolicy, HaveSettings, ~Faults, TypeOK, CalmInv, NEW z, NEW F, Shadows(z, F),
           SilentInv(z, F), Well(F), Well(F)', [CycleNext]_cycleVars
    PROVE  SilentInv(z, F)'
  <1>1. CASE Begin
    <2>1. UNCHANGED <<store, lastAlert, alerted>> /\ todo' \subseteq DOMAIN Interfaces
      BY <1>1 DEF Begin, memory, history
    <2>2. z \in todo'
      BY <1>1, WatchedIsDecided DEF Begin, Shadows, Watched
    <2> QED BY <2>1, <2>2 DEF SilentInv, Fresh, Live, Notified
  <1>2. CASE Process
    BY <1>2, ProcessSilent
  <1>3. CASE Time
    <2>1. \A e \in Live' : e \in Live /\ e \in EventId /\ store'[e].sent = store[e].sent
      BY <1>3, TickEffect DEF Time, Live
    <2>2. \A e \in Live' : ~Notified(e)'
      BY <1>3, <2>1, TickEffect DEF Time, SilentInv, Notified
    <2>3. alerted' = alerted /\ todo = {} /\ todo' = {}
      BY <1>3, TickEffect DEF Time
    <2> QED BY <2>1, <2>2, <2>3 DEF SilentInv, Fresh
  <1>4. CASE Stop \/ Restart
    BY <1>4 DEF Stop, Restart, Crash, Start, Well
  <1>5. CASE Change \/ UNCHANGED cycleVars
    <2>1. UNCHANGED <<store, lastAlert, alerted, todo>>
      BY <1>5 DEF Change, cycleVars, vars
    <2> QED BY <2>1 DEF SilentInv, Fresh, Live, Notified
  <1> QED BY <1>1, <1>2, <1>3, <1>4, <1>5 DEF CycleNext

LEMMA SilentInit ==
    ASSUME CycleInit, NEW z, NEW F PROVE SilentInv(z, F)
  BY DEF CycleInit, Init, SilentInv, Live, Fresh

\* In the HTTP cycle the outage of interfaces on one side of a healthy one that
\* needs an alert too, and so of any single interface beside a healthy one, is
\* never alerted, however long it lasts and for any number of interfaces and every
\* setting of the times, as long as the process and Redis keep working: what the
\* run of DownIsAlerted shows of two interfaces.
THEOREM HealthyInterfaceSilences ==
    ASSUME NEW z, NEW F, Shadows(z, F), HTTPPolicy, HaveSettings, ~Faults
    PROVE  CycleSpec /\ []Well(F) => [](alerted = {})
  <1>1. CycleInit => SilentInv(z, F)
    BY SilentInit
  <1>2. SoundInv /\ DurationInv /\ SilentInv(z, F) /\ Well(F) /\ Well(F)' /\ [CycleNext]_cycleVars
          => SilentInv(z, F)'
    BY SilentStep DEF SoundInv, DurationInv
  <1>3. SilentInv(z, F) => alerted = {}
    BY DEF SilentInv
  <1>4. CycleSpec => []SoundInv /\ []DurationInv
    BY CycleSound, CycleDuration
  <1> QED BY <1>1, <1>2, <1>3, <1>4, PTL DEF CycleSpec
=============================================================================
