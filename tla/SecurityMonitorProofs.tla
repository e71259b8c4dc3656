------------------------- MODULE SecurityMonitorProofs -------------------------
(***************************************************************************)
(* What SecurityMonitor guarantees for every number of domains and of      *)
(* checks at the same time, every clock and every number of faults.        *)
(***************************************************************************)
EXTENDS SecurityMonitor, TLAPS

\* Steps at which a check has an event.
Asked == {"memory", "query", "mark", "store", "send"}
Named == {"name"} \cup Asked

NamedHasEvent == \A i \in Check : check[i].st \in Named => check[i].id \in EventId

\* A process that is down has lost its maps and its goroutines.
DownIsEmpty ==
    ~up => /\ known = [p \in Problem |-> None] /\ active = {}
           /\ \A i \in Check : check[i].st = "off"

TypeInv == TypeOK /\ NamedHasEvent /\ DownIsEmpty


-----------------------------------------------------------------------------
(* Types.                                                                  *)

Checks == [st : Steps, domain : Domain, id : EventId \cup {None}]

LEMMA DomainFacts == Domain \subseteq Nat /\ 1 \in Domain
  BY SecurityConstants DEF Domain

LEMMA OffType == Off \in Checks /\ [Off EXCEPT !.st = "fetch"] \in Checks
                 /\ [Off EXCEPT !.st = "fetch"].st = "fetch" /\ Off.st = "off"
  BY DomainFacts DEF Off, Checks, Steps

\* A check that starts keeps the types.
LEMMA NewCheckType ==
    ASSUME TypeOK, NamedHasEvent, NEW i \in Check, NewCheck(i)
    PROVE  /\ check' \in [Check -> Checks] /\ NamedHasEvent'
           /\ check'[i].st = "fetch"
           /\ \A j \in Check : j # i => check'[j] = check[j]
  <1>1. check' = [check EXCEPT ![i] = [Off EXCEPT !.st = "fetch"]]
    BY DEF NewCheck
  <1>2. check \in [Check -> Checks]
    BY DEF TypeOK, Checks
  <1>3. check' \in [Check -> Checks]
    BY <1>1, <1>2, OffType
  <1>4. \A j \in Check : j # i => check'[j] = check[j]
    BY <1>1, <1>2
  <1>5. check'[i].st = "fetch"
    BY <1>1, <1>2, OffType
  <1>6. NamedHasEvent'
    BY <1>4, <1>5 DEF NamedHasEvent, Named, Asked
  <1> QED BY <1>3, <1>4, <1>5, <1>6

LEMMA NextDomainType ==
    ASSUME TypeOK, NamedHasEvent, NEW i \in Check, NextDomain(i)
    PROVE  /\ check' \in [Check -> Checks] /\ NamedHasEvent'
           /\ check'[i].st \in {"off", "fetch"}
           /\ \A j \in Check : j # i => check'[j] = check[j]
  <1> DEFINE next == IF check[i].domain = Domains THEN Off
                     ELSE [st |-> "fetch", domain |-> check[i].domain + 1, id |-> None]
  <1>1. check' = [check EXCEPT ![i] = next]
    BY DEF NextDomain
  <1>2. check \in [Check -> Checks]
    BY DEF TypeOK, Checks
  <1>3. check[i].domain \in Domain
    BY <1>2 DEF Checks
  <1>4. next \in Checks /\ next.st \in {"off", "fetch"}
    <2>1. CASE check[i].domain = Domains
      BY <2>1, OffType
    <2>2. CASE check[i].domain # Domains
      <3>1. check[i].domain + 1 \in Domain
        BY <1>3, <2>2, SecurityConstants DEF Domain
      <3> QED BY <2>2, <3>1 DEF Checks, Steps
    <2> QED BY <2>1, <2>2
  <1> HIDE DEF next
  <1>5. check' \in [Check -> Checks]
    BY <1>1, <1>2, <1>4
  <1>6. \A j \in Check : j # i => check'[j] = check[j]
    BY <1>1, <1>2
  <1>7. check'[i].st \in {"off", "fetch"}
    BY <1>1, <1>2, <1>4
  <1>8. NamedHasEvent'
    BY <1>6, <1>7 DEF NamedHasEvent, Named, Asked
  <1> QED BY <1>5, <1>6, <1>7, <1>8

LEMMA GotoType ==
    ASSUME TypeOK, NamedHasEvent, NEW i \in Check, NEW step \in Asked,
           check[i].st \in Named, Goto(i, step)
    PROVE  /\ check' \in [Check -> Checks] /\ NamedHasEvent'
           /\ check'[i].st = step /\ check'[i].id = check[i].id
           /\ \A j \in Check : j # i => check'[j] = check[j]
  <1>1. check' = [check EXCEPT ![i].st = step]
    BY DEF Goto
  <1>2. check \in [Check -> Checks]
    BY DEF TypeOK, Checks
  <1>3. step \in Steps
    BY DEF Asked, Steps
  <1>4. check' \in [Check -> Checks]
    BY <1>1, <1>2, <1>3 DEF Checks
  <1>5. check'[i].st = step /\ check'[i].id = check[i].id
    BY <1>1, <1>2 DEF Checks
  <1>6. \A j \in Check : j # i => check'[j] = check[j]
    BY <1>1, <1>2
  <1>7. NamedHasEvent'
    BY <1>5, <1>6 DEF NamedHasEvent
  <1> QED BY <1>4, <1>5, <1>6, <1>7

LEMMA AlertType ==
    ASSUME TypeOK, NamedHasEvent, NEW i \in Check, NEW step \in {"name", "memory"},
           NEW id \in EventId, Alert(i, step, id)
    PROVE  /\ check' \in [Check -> Checks] /\ NamedHasEvent'
           /\ check'[i].st = step /\ check'[i].id = id
           /\ \A j \in Check : j # i => check'[j] = check[j]
  <1>1. check' = [check EXCEPT ![i].st = step, ![i].id = id]
    BY DEF Alert
  <1>2. check \in [Check -> Checks]
    BY DEF TypeOK, Checks
  <1>3. step \in Steps
    BY DEF Steps
  <1>4. check' \in [Check -> Checks]
    BY <1>1, <1>2, <1>3 DEF Checks
  <1>5. check'[i].st = step /\ check'[i].id = id
    BY <1>1, <1>2 DEF Checks
  <1>6. \A j \in Check : j # i => check'[j] = check[j]
    BY <1>1, <1>2
  <1>7. NamedHasEvent'
    BY <1>5, <1>6 DEF NamedHasEvent
  <1> QED BY <1>4, <1>5, <1>6, <1>7

-----------------------------------------------------------------------------
(* TypeInv is inductive.                                                   *)

LEMMA TypeInvInit == Init => TypeInv
  <1> SUFFICES ASSUME Init PROVE TypeInv
    OBVIOUS
  <1>1. PICK k \in Check :
          check = [i \in Check |-> IF i = k THEN [Off EXCEPT !.st = "fetch"] ELSE Off]
    BY DEF Init
  <1>2. check \in [Check -> Checks] /\ \A i \in Check : check[i].st \in {"off", "fetch"}
    BY <1>1, OffType
  <1>3. NamedHasEvent
    BY <1>2 DEF NamedHasEvent, Named, Asked
  <1>4. TypeOK
    BY <1>2, SecurityConstants DEF Init, TypeOK, Checks
  <1>5. DownIsEmpty
    BY DEF Init, DownIsEmpty
  <1> QED BY <1>3, <1>4, <1>5 DEF TypeInv

\* What a process that runs does keeps it running.
LEMMA StillUp == up /\ UNCHANGED env => DownIsEmpty'
  BY DEF env, DownIsEmpty

\* A check that is at some step runs in a process that is up.
LEMMA WorkingIsUp ==
    ASSUME TypeInv, NEW i \in Check, check[i].st # "off"
    PROVE  up
  BY DEF TypeInv, DownIsEmpty

\* What a failing or working call may change.
LEMMA CallType ==
    ASSUME TypeOK, Works \/ Fails
    PROVE  calm' \in BOOLEAN /\ faults' \in 0 .. MaxFaults /\ (calm' => calm)
  <1>1. CASE Works
    BY <1>1 DEF TypeOK, Works, cost
  <1>2. CASE Fails
    <2>1. calm' = FALSE
      BY <1>2 DEF Fails
    <2>2. faults' \in 0 .. MaxFaults
      BY <1>2, SecurityConstants DEF Fails, TypeOK
    <2> QED BY <2>1, <2>2
  <1> QED BY <1>1, <1>2

LEMMA FetchType ==
    ASSUME TypeInv, NEW i \in Check, Fetch(i) PROVE TypeInv'
  <1>1. up
    BY WorkingIsUp DEF Fetch, At
  <1>2. check' \in [Check -> Checks] /\ NamedHasEvent'
    <2> DEFINE d == check[i].domain
               p == [kind |-> IF world[d] = "down" THEN "error" ELSE "expiring", domain |-> d]
               new == [problem |-> p, minute |-> minute]
    <2>1. p \in Problem /\ new \in EventId
      BY DEF TypeInv, TypeOK, Problem, EventId
    <2>2. CASE NextDomain(i)
      BY <2>2, NextDomainType DEF TypeInv
    <2>3. CASE KnownId(p) # None /\ Alert(i, "memory", KnownId(p))
      <3>1. KnownId(p) \in EventId
        BY <2>1, <2>3 DEF TypeInv, TypeOK, KnownId
      <3> QED BY <2>3, <3>1, AlertType DEF TypeInv
    <2>4. CASE Alert(i, "name", new)
      BY <2>1, <2>4, AlertType DEF TypeInv
    <2> QED BY <2>2, <2>3, <2>4 DEF Fetch
  <1>3. TypeOK'
    BY <1>2 DEF TypeInv, TypeOK, Fetch, env, past, cost, Checks
  <1> QED BY <1>1, <1>2, <1>3, StillUp DEF TypeInv, Fetch

LEMMA NameType ==
    ASSUME TypeInv, NEW i \in Check, Name(i) PROVE TypeInv'
  <1>1. up
    BY WorkingIsUp DEF Name, At
  <1>2. check' \in [Check -> Checks] /\ NamedHasEvent'
    BY GotoType DEF TypeInv, Name, At, Named, Asked
  <1>3. Id(i) \in EventId /\ Id(i).problem \in Problem
    BY DEF TypeInv, NamedHasEvent, Named, Name, At, Id, EventId
  <1>4. TypeOK'
    BY <1>2, <1>3 DEF TypeInv, TypeOK, Name, env, past, cost, Checks
  <1> QED BY <1>1, <1>2, <1>4, StillUp DEF TypeInv, Name

LEMMA AskMemoryType ==
    ASSUME TypeInv, NEW i \in Check, AskMemory(i) PROVE TypeInv'
  <1>1. up
    BY WorkingIsUp DEF AskMemory, At
  <1>2. check' \in [Check -> Checks] /\ NamedHasEvent'
    BY GotoType, NextDomainType DEF TypeInv, AskMemory, At, Named, Asked
  <1>3. TypeOK'
    BY <1>2 DEF TypeInv, TypeOK, AskMemory, env, past, cost, Checks
  <1> QED BY <1>1, <1>2, <1>3, StillUp DEF TypeInv, AskMemory

LEMMA AskRedisType ==
    ASSUME TypeInv, NEW i \in Check, AskRedis(i) PROVE TypeInv'
  <1>1. up
    BY WorkingIsUp DEF AskRedis, At
  <1>2. check' \in [Check -> Checks] /\ NamedHasEvent'
    BY GotoType, NextDomainType DEF TypeInv, AskRedis, At, Named, Asked
  <1>3. Works \/ Fails
    BY DEF AskRedis
  <1>4. TypeOK'
    BY <1>2, <1>3, CallType DEF TypeInv, TypeOK, AskRedis, env, past, Checks
  <1> QED BY <1>1, <1>2, <1>4, StillUp DEF TypeInv, AskRedis

LEMMA MarkType ==
    ASSUME TypeInv, NEW i \in Check, Mark(i) PROVE TypeInv'
  <1>1. up
    BY WorkingIsUp DEF Mark, At
  <1>2. check' \in [Check -> Checks] /\ NamedHasEvent'
    BY GotoType DEF TypeInv, Mark, At, Named, Asked
  <1>3. Id(i) \in EventId
    BY DEF TypeInv, NamedHasEvent, Named, Asked, Mark, At, Id
  <1>4. TypeOK'
    BY <1>2, <1>3 DEF TypeInv, TypeOK, Mark, env, past, cost, Checks
  <1> QED BY <1>1, <1>2, <1>4, StillUp DEF TypeInv, Mark

LEMMA StoreType ==
    ASSUME TypeInv, NEW i \in Check, Store(i) PROVE TypeInv'
  <1>1. up
    BY WorkingIsUp DEF Store, At
  <1>2. check' \in [Check -> Checks] /\ NamedHasEvent'
    BY GotoType DEF TypeInv, Store, At, Named, Asked
  <1>3. Id(i) \in EventId
    BY DEF TypeInv, NamedHasEvent, Named, Asked, Store, At, Id
  <1>4. Works \/ Fails
    BY DEF Store, StoreFails
  <1>5. redis' \subseteq EventId /\ active' \subseteq EventId
    BY <1>3 DEF TypeInv, TypeOK, Store, StoreFails
  <1>6. TypeOK'
    BY <1>2, <1>4, <1>5, CallType DEF TypeInv, TypeOK, Store, env, past, Checks
  <1> QED BY <1>1, <1>2, <1>6, StillUp DEF TypeInv, Store

LEMMA SendType ==
    ASSUME TypeInv, NEW i \in Check, Send(i) PROVE TypeInv'
  <1>1. up
    BY WorkingIsUp DEF Send, At
  <1>2. check' \in [Check -> Checks] /\ NamedHasEvent'
    BY NextDomainType DEF TypeInv, Send
  <1>3. announced' \in [Problem -> 0 .. 2]
    <2>1. Id(i).problem \in Problem
      BY DEF TypeInv, NamedHasEvent, Named, Asked, Send, At, Id, EventId
    <2>2. announced[Id(i).problem] \in 0 .. 2
      BY <2>1 DEF TypeInv, TypeOK
    <2>3. (IF announced[Id(i).problem] = 2 THEN 2 ELSE announced[Id(i).problem] + 1) \in 0 .. 2
      BY <2>2
    <2> QED BY <2>3 DEF TypeInv, TypeOK, Send
  <1>4. TypeOK'
    BY <1>2, <1>3 DEF TypeInv, TypeOK, Send, env, cost, Checks
  <1> QED BY <1>1, <1>2, <1>4, StillUp DEF TypeInv, Send

LEMMA TickerType ==
    ASSUME TypeInv, NEW i \in Check, Ticker(i) PROVE TypeInv'
  <1>1. check' \in [Check -> Checks] /\ NamedHasEvent'
    BY NewCheckType DEF TypeInv, Ticker
  <1>2. TypeOK'
    BY <1>1 DEF TypeInv, TypeOK, Ticker, env, past, Checks
  <1> QED BY <1>1, <1>2, StillUp DEF TypeInv, Ticker

LEMMA StartType ==
    ASSUME TypeInv, NEW i \in Check, Start(i) PROVE TypeInv'
  <1>1. check' \in [Check -> Checks] /\ NamedHasEvent'
    BY NewCheckType DEF TypeInv, Start
  <1>2. calm' \in BOOLEAN /\ faults' \in 0 .. MaxFaults
    BY CallType DEF TypeInv, TypeOK, Start
  <1>3. TypeOK'
    BY <1>1, <1>2 DEF TypeInv, TypeOK, Start, Checks
  <1>4. DownIsEmpty'
    BY DEF Start, DownIsEmpty
  <1> QED BY <1>1, <1>3, <1>4 DEF TypeInv

LEMMA CrashType ==
    ASSUME TypeInv, Crash PROVE TypeInv'
  <1>1. check' \in [Check -> Checks] /\ \A i \in Check : check'[i].st = "off"
    BY OffType DEF Crash
  <1>2. lost' \subseteq Problem
    BY DEF TypeInv, TypeOK, Crash, EventId
  <1>3. TypeOK'
    <2>1. faults' \in 0 .. MaxFaults
      BY SecurityConstants DEF TypeInv, TypeOK, Crash
    <2>2. up' \in BOOLEAN /\ active' \subseteq EventId
      BY DEF Crash
    <2>3. known' \in [Problem -> EventId \cup {None}]
      BY DEF Crash
    <2>4. UNCHANGED <<world, minute, redis, announced, expired, calm>>
      BY DEF Crash
    <2> QED BY <1>1, <1>2, <2>1, <2>2, <2>3, <2>4 DEF TypeInv, TypeOK, Checks
  <1>4. NamedHasEvent' /\ DownIsEmpty'
    BY <1>1 DEF NamedHasEvent, Named, Asked, DownIsEmpty, Crash
  <1> QED BY <1>3, <1>4 DEF TypeInv

\* The domains, the clock and Redis.
LEMMA OutsideType ==
    ASSUME TypeInv,
           (\E d \in Domain : Change(d)) \/ (\E id \in EventId : Expire(id)) \/ MinutePasses
    PROVE  TypeInv'
  <1>1. UNCHANGED <<up, known, active, check, cost>>
    BY DEF Change, Expire, MinutePasses, env
  <1>2. NamedHasEvent' /\ DownIsEmpty'
    BY <1>1 DEF TypeInv, NamedHasEvent, DownIsEmpty
  <1>3. TypeOK'
    <2>1. CASE \E d \in Domain : Change(d)
      BY <2>1 DEF TypeInv, TypeOK, Change, past, cost
    <2>2. CASE \E id \in EventId : Expire(id)
      BY <2>2 DEF TypeInv, TypeOK, Expire, env, cost
    <2>3. CASE MinutePasses
      BY <2>3, SecurityConstants DEF TypeInv, TypeOK, MinutePasses, past, cost
    <2> QED BY <2>1, <2>2, <2>3
  <1> QED BY <1>2, <1>3 DEF TypeInv

LEMMA TypeInvStep == TypeInv /\ [Next]_vars => TypeInv'
  <1> SUFFICES ASSUME TypeInv, [Next]_vars PROVE TypeInv'
    OBVIOUS
  <1>1. ASSUME NEW i \in Check, Work(i) PROVE TypeInv'
    BY <1>1, FetchType, NameType, AskMemoryType, AskRedisType, MarkType, StoreType, SendType
       DEF Work
  <1>2. ASSUME NEW i \in Check, Ticker(i) \/ Start(i) PROVE TypeInv'
    BY <1>2, TickerType, StartType
  <1>3. CASE Crash
    BY <1>3, CrashType
  <1>4. CASE (\E d \in Domain : Change(d)) \/ (\E id \in EventId : Expire(id)) \/ MinutePasses
    BY <1>4, OutsideType
  <1>5. CASE UNCHANGED vars
    BY <1>5 DEF vars, env, past, cost, TypeInv, TypeOK, NamedHasEvent, DownIsEmpty
  <1> QED BY <1>1, <1>2, <1>3, <1>4, <1>5 DEF Next

\* Every reachable state is well typed: the loop over the domains stays within
\* them, and what a check notifies is an event.
THEOREM TypeCorrect == Spec => []TypeOK
  <1>1. TypeInv => TypeOK
    BY DEF TypeInv
  <1> QED BY <1>1, TypeInvInit, TypeInvStep, PTL DEF Spec

-----------------------------------------------------------------------------
(* ActiveIsStored: who marks an event as active then stores it, and only    *)
(* that step of that check ends the time in which the mark is ahead.        *)

ActiveInv == TypeInv /\ ActiveIsStored

\* A check that is not storing moves, and the rest stays.
LEMMA OthersStillStore ==
    ASSUME ActiveIsStored, NEW i \in Check, check[i].st # "store",
           \A j \in Check : j # i => check'[j] = check[j],
           UNCHANGED <<active, redis, expired>>
    PROVE  ActiveIsStored'
  BY DEF ActiveIsStored, At, Id

LEMMA FetchActive ==
    ASSUME ActiveInv, NEW i \in Check, Fetch(i) PROVE ActiveIsStored'
  <1>1. \A j \in Check : j # i => check'[j] = check[j]
    BY DEF Fetch, NextDomain, Alert, ActiveInv, TypeInv, TypeOK
  <1> QED BY <1>1, OthersStillStore DEF Fetch, At, ActiveInv, past

LEMMA AskActive ==
    ASSUME ActiveInv, NEW i \in Check, Name(i) \/ AskMemory(i) \/ AskRedis(i)
    PROVE  ActiveIsStored'
  <1>1. \A j \in Check : j # i => check'[j] = check[j]
    BY DEF Name, AskMemory, AskRedis, NextDomain, Goto, ActiveInv, TypeInv, TypeOK
  <1>2. check[i].st # "store" /\ UNCHANGED <<active, redis, expired>>
    BY DEF Name, AskMemory, AskRedis, At, past
  <1> QED BY <1>1, <1>2, OthersStillStore DEF ActiveInv

LEMMA MarkActive ==
    ASSUME ActiveInv, NEW i \in Check, Mark(i) PROVE ActiveIsStored'
  <1>1. /\ check'[i].st = "store" /\ check'[i].id = check[i].id
        /\ \A j \in Check : j # i => check'[j] = check[j]
    BY GotoType DEF ActiveInv, TypeInv, Mark, At, Named, Asked
  <1>2. active' = active \cup {Id(i)} /\ UNCHANGED <<redis, expired>> /\ check[i].st = "mark"
    BY DEF Mark, past, At
  <1> QED BY <1>1, <1>2 DEF ActiveInv, ActiveIsStored, At, Id

LEMMA StoreActive ==
    ASSUME ActiveInv, NEW i \in Check, Store(i) PROVE ActiveIsStored'
  <1>1. \A j \in Check : j # i => check'[j] = check[j]
    BY GotoType DEF ActiveInv, TypeInv, Store, At, Named, Asked
  <1>2. expired' = expired
    BY DEF Store, past
  <1>3. CASE redis' = redis \cup {Id(i)} /\ UNCHANGED active
    BY <1>1, <1>2, <1>3 DEF ActiveInv, ActiveIsStored, At, Id
  <1>4. CASE active' = active \ {Id(i)} /\ UNCHANGED redis
    BY <1>1, <1>2, <1>4 DEF ActiveInv, ActiveIsStored, At, Id
  <1> QED BY <1>3, <1>4 DEF Store, StoreFails

LEMMA SendActive ==
    ASSUME ActiveInv, NEW i \in Check, Send(i) PROVE ActiveIsStored'
  <1>1. \A j \in Check : j # i => check'[j] = check[j]
    BY NextDomainType DEF ActiveInv, TypeInv, Send
  <1> QED BY <1>1, OthersStillStore DEF Send, At, ActiveInv

LEMMA TickerActive ==
    ASSUME ActiveInv, NEW i \in Check, Ticker(i) PROVE ActiveIsStored'
  <1>1. \A j \in Check : j # i => check'[j] = check[j]
    BY NewCheckType DEF ActiveInv, TypeInv, Ticker
  <1>2. check[i].st # "store"
    BY DEF Ticker, Running
  <1> QED BY <1>1, <1>2, OthersStillStore DEF Ticker, ActiveInv, past

LEMMA StartActive ==
    ASSUME ActiveInv, NEW i \in Check, Start(i) PROVE ActiveIsStored'
  <1>1. active' \subseteq redis
    BY DEF Start, ActiveInv, TypeInv, DownIsEmpty
  <1>2. redis' = redis
    BY DEF Start
  <1> QED BY <1>1, <1>2 DEF ActiveIsStored

LEMMA OutsideActive ==
    ASSUME ActiveInv,
           (\E d \in Domain : Change(d)) \/ (\E id \in EventId : Expire(id)) \/ MinutePasses
    PROVE  ActiveIsStored'
  <1>1. UNCHANGED <<active, check>> /\ redis \cup expired \subseteq redis' \cup expired'
    BY DEF Change, Expire, MinutePasses, past
  <1> QED BY <1>1 DEF ActiveInv, ActiveIsStored, At, Id

LEMMA ActiveInvStep == ActiveInv /\ [Next]_vars => ActiveInv'
  <1> SUFFICES ASSUME ActiveInv, [Next]_vars PROVE ActiveIsStored'
    BY TypeInvStep DEF ActiveInv
  <1>1. ASSUME NEW i \in Check, Work(i) PROVE ActiveIsStored'
    BY <1>1, FetchActive, AskActive, MarkActive, StoreActive, SendActive DEF Work
  <1>2. ASSUME NEW i \in Check, Ticker(i) \/ Start(i) PROVE ActiveIsStored'
    BY <1>2, TickerActive, StartActive
  <1>3. CASE Crash
    BY <1>3 DEF Crash, ActiveIsStored
  <1>4. CASE (\E d \in Domain : Change(d)) \/ (\E id \in EventId : Expire(id)) \/ MinutePasses
    BY <1>4, OutsideActive
  <1>5. CASE UNCHANGED vars
    BY <1>5 DEF vars, past, ActiveInv, ActiveIsStored, At, Id
  <1> QED BY <1>1, <1>2, <1>3, <1>4, <1>5 DEF Next

\* What memory calls active is stored, or will be in the next step of the check
\* that marked it: any number of overlapping checks, failing writes, crashes.
THEOREM ActiveStored == Spec => []ActiveIsStored
  <1>1. Init => ActiveInv
    BY TypeInvInit DEF ActiveInv, ActiveIsStored, Init
  <1>2. ActiveInv => ActiveIsStored
    BY DEF ActiveInv
  <1> QED BY <1>1, <1>2, ActiveInvStep, PTL DEF Spec

-----------------------------------------------------------------------------
(* AnnouncedOnce: in a calm process one check runs at a time, what was      *)
(* announced has a known id, and that id is active.                         *)

\* Steps at which the event is known not to be active, and at which it is.
Before == {"query", "mark"}
After  == {"store", "send"}

KnownIsOwn == \A p \in Problem : known[p] # None => known[p].problem = p

\* What is announced was announced once, and a process that has not crashed
\* since finds it active.
AnnouncedIsActive ==
    \A p \in Problem : announced[p] # 0 =>
        announced[p] = 1 /\ (up => known[p] # None /\ known[p] \in active)

\* Where a check is in the notification of its event.
Progress(i) ==
    /\ At(i, "name") => known[Id(i).problem] = None
    /\ check[i].st \in Asked => known[Id(i).problem] = Id(i)
    /\ check[i].st \in Before => Id(i) \notin active
    /\ check[i].st \in After => Id(i) \in active /\ announced[Id(i).problem] = 0

OneRuns == \A i, j \in Check : check[i].st # "off" /\ check[j].st # "off" => i = j

CalmInv == calm => OneRuns /\ AnnouncedIsActive /\ \A i \in Check : Progress(i)

OnceInv == TypeInv /\ KnownIsOwn /\ CalmInv

\* The problem of a check's event.
LEMMA OwnProblem ==
    ASSUME OnceInv, NEW i \in Check, check[i].st \in Named
    PROVE  Id(i) \in EventId /\ Id(i).problem \in Problem /\ Id(i) # None
  BY NoneIsNoEvent DEF OnceInv, TypeInv, NamedHasEvent, Id, EventId

\* The other checks are off, and stay so.
LEMMA StillOne ==
    ASSUME OneRuns, NEW i \in Check, check[i].st # "off",
           \A j \in Check : j # i => check'[j] = check[j]
    PROVE  OneRuns' /\ \A j \in Check : j # i => check'[j].st = "off"
  BY DEF OneRuns

\* A check between two events has nothing to show.
LEMMA RestingProgress ==
    ASSUME NEW i \in Check, check'[i].st \in {"off", "fetch"}
    PROVE  Progress(i)'
  BY DEF Progress, At, Asked, Before, After

\* A running check moves: the others have nothing to show.
LEMMA MoverProgress ==
    ASSUME OneRuns, NEW i \in Check, check[i].st # "off",
           \A j \in Check : j # i => check'[j] = check[j], Progress(i)'
    PROVE  OneRuns' /\ \A j \in Check : Progress(j)'
  <1>1. OneRuns' /\ \A j \in Check : j # i => check'[j].st = "off"
    BY StillOne
  <1>2. \A j \in Check : j # i => Progress(j)'
    BY <1>1, RestingProgress
  <1> QED BY <1>1, <1>2

LEMMA FetchOnce ==
    ASSUME OnceInv, NEW i \in Check, Fetch(i) PROVE KnownIsOwn' /\ CalmInv'
  <1> DEFINE d == check[i].domain
             p == [kind |-> IF world[d] = "down" THEN "error" ELSE "expiring", domain |-> d]
             new == [problem |-> p, minute |-> minute]
  <1>1. UNCHANGED <<up, known, active, announced, calm>> /\ check[i].st = "fetch"
    BY DEF Fetch, env, past, cost, At
  <1>2. p \in Problem /\ new \in EventId /\ new.problem = p
    BY DEF OnceInv, TypeInv, TypeOK, Problem, EventId
  <1>3. CASE NextDomain(i)
    <2>1. check'[i].st \in {"off", "fetch"} /\ \A j \in Check : j # i => check'[j] = check[j]
      BY <1>3, NextDomainType DEF OnceInv, TypeInv
    <2> QED BY <1>1, <2>1, RestingProgress, MoverProgress
            DEF OnceInv, KnownIsOwn, CalmInv, AnnouncedIsActive
  <1>4. CASE KnownId(p) # None /\ Alert(i, "memory", KnownId(p))
    <2>1. KnownId(p) \in EventId /\ KnownId(p).problem = p /\ KnownId(p) = known[p]
      BY <1>2, <1>4 DEF OnceInv, TypeInv, TypeOK, KnownId, KnownIsOwn
    <2>2. /\ check'[i].st = "memory" /\ check'[i].id = known[p]
          /\ \A j \in Check : j # i => check'[j] = check[j]
      BY <1>4, <2>1, AlertType DEF OnceInv, TypeInv
    <2>3. Progress(i)'
      BY <1>1, <2>1, <2>2 DEF Progress, At, Id, Asked, Before, After
    <2> QED BY <1>1, <2>2, <2>3, MoverProgress
            DEF OnceInv, KnownIsOwn, CalmInv, AnnouncedIsActive
  <1>5. CASE KnownId(p) = None /\ Alert(i, "name", new)
    <2>1. /\ check'[i].st = "name" /\ check'[i].id = new
          /\ \A j \in Check : j # i => check'[j] = check[j]
      BY <1>2, <1>5, AlertType DEF OnceInv, TypeInv
    <2>2. Progress(i)'
      BY <1>1, <1>2, <1>5, <2>1 DEF Progress, At, Id, Asked, Before, After, KnownId
    <2> QED BY <1>1, <2>1, <2>2, MoverProgress
            DEF OnceInv, KnownIsOwn, CalmInv, AnnouncedIsActive
  <1> QED BY <1>3, <1>4, <1>5 DEF Fetch

LEMMA NameOnce ==
    ASSUME OnceInv, NEW i \in Check, Name(i) PROVE KnownIsOwn' /\ CalmInv'
  <1>1. /\ check'[i].st = "memory" /\ Id(i)' = Id(i)
        /\ \A j \in Check : j # i => check'[j] = check[j]
    BY GotoType DEF OnceInv, TypeInv, Name, At, Id, Named, Asked
  <1>2. Id(i) \in EventId /\ Id(i).problem \in Problem /\ Id(i) # None
    BY OwnProblem DEF Name, At, Named
  <1>3. /\ known' = [known EXCEPT ![Id(i).problem] = Id(i)]
        /\ UNCHANGED <<up, active, announced, calm>> /\ check[i].st = "name"
    BY DEF Name, env, past, cost, At
  <1>4. known \in [Problem -> EventId \cup {None}]
    BY DEF OnceInv, TypeInv, TypeOK
  <1>5. KnownIsOwn'
    BY <1>2, <1>3, <1>4 DEF OnceInv, KnownIsOwn
  <1>6. Progress(i)'
    BY <1>1, <1>2, <1>3, <1>4 DEF Progress, At, Asked, Before, After
  <1>7. ASSUME calm' PROVE AnnouncedIsActive'
    <2>1. AnnouncedIsActive /\ known[Id(i).problem] = None
      BY <1>3, <1>7 DEF OnceInv, CalmInv, Progress, At
    <2>2. up
      BY <1>3, WorkingIsUp DEF OnceInv
    <2> QED BY <1>2, <1>3, <1>4, <2>1, <2>2 DEF AnnouncedIsActive
  <1> QED BY <1>1, <1>3, <1>5, <1>6, <1>7, MoverProgress DEF OnceInv, CalmInv

LEMMA AskMemoryOnce ==
    ASSUME OnceInv, NEW i \in Check, AskMemory(i) PROVE KnownIsOwn' /\ CalmInv'
  <1>1. UNCHANGED <<up, known, active, announced, calm>> /\ check[i].st = "memory"
    BY DEF AskMemory, env, past, cost, At
  <1>2. CASE NextDomain(i)
    <2>1. check'[i].st \in {"off", "fetch"} /\ \A j \in Check : j # i => check'[j] = check[j]
      BY <1>2, NextDomainType DEF OnceInv, TypeInv
    <2> QED BY <1>1, <2>1, RestingProgress, MoverProgress
            DEF OnceInv, KnownIsOwn, CalmInv, AnnouncedIsActive
  <1>3. CASE Id(i) \notin active /\ Goto(i, "query")
    <2>1. /\ check'[i].st = "query" /\ Id(i)' = Id(i)
          /\ \A j \in Check : j # i => check'[j] = check[j]
      BY <1>1, <1>3, GotoType DEF OnceInv, TypeInv, Id, Named, Asked
    <2>2. calm => Progress(i)'
      BY <1>1, <1>3, <2>1 DEF OnceInv, CalmInv, Progress, At, Asked, Before, After
    <2> QED BY <1>1, <2>1, <2>2, MoverProgress
            DEF OnceInv, KnownIsOwn, CalmInv, AnnouncedIsActive
  <1> QED BY <1>2, <1>3 DEF AskMemory

LEMMA AskRedisOnce ==
    ASSUME OnceInv, NEW i \in Check, AskRedis(i) PROVE KnownIsOwn' /\ CalmInv'
  <1>1. UNCHANGED <<up, known, active, announced>> /\ check[i].st = "query"
    BY DEF AskRedis, env, past, At
  <1>2. calm' => calm
    BY CallType DEF OnceInv, TypeInv, AskRedis
  <1>3. CASE NextDomain(i)
    <2>1. check'[i].st \in {"off", "fetch"} /\ \A j \in Check : j # i => check'[j] = check[j]
      BY <1>3, NextDomainType DEF OnceInv, TypeInv
    <2> QED BY <1>1, <1>2, <2>1, RestingProgress, MoverProgress
            DEF OnceInv, KnownIsOwn, CalmInv, AnnouncedIsActive
  <1>4. CASE Goto(i, "mark")
    <2>1. /\ check'[i].st = "mark" /\ Id(i)' = Id(i)
          /\ \A j \in Check : j # i => check'[j] = check[j]
      BY <1>1, <1>4, GotoType DEF OnceInv, TypeInv, Id, Named, Asked
    <2>2. calm => Progress(i)'
      BY <1>1, <2>1 DEF OnceInv, CalmInv, Progress, At, Asked, Before, After
    <2> QED BY <1>1, <1>2, <2>1, <2>2, MoverProgress
            DEF OnceInv, KnownIsOwn, CalmInv, AnnouncedIsActive
  <1> QED BY <1>3, <1>4 DEF AskRedis

LEMMA MarkOnce ==
    ASSUME OnceInv, NEW i \in Check, Mark(i) PROVE KnownIsOwn' /\ CalmInv'
  <1>1. /\ UNCHANGED <<up, known, announced, calm>> /\ check[i].st = "mark"
        /\ active' = active \cup {Id(i)}
    BY DEF Mark, env, past, cost, At
  <1>2. /\ check'[i].st = "store" /\ Id(i)' = Id(i)
        /\ \A j \in Check : j # i => check'[j] = check[j]
    BY GotoType DEF OnceInv, TypeInv, Mark, At, Id, Named, Asked
  <1>3. Id(i).problem \in Problem
    BY <1>1, OwnProblem DEF Named, Asked
  <1>4. calm => Progress(i)'
    BY <1>1, <1>2, <1>3, WorkingIsUp
       DEF OnceInv, CalmInv, Progress, At, Asked, Before, After, AnnouncedIsActive
  <1> QED BY <1>1, <1>2, <1>4, MoverProgress
          DEF OnceInv, KnownIsOwn, CalmInv, AnnouncedIsActive

LEMMA StoreOnce ==
    ASSUME OnceInv, NEW i \in Check, Store(i) PROVE KnownIsOwn' /\ CalmInv'
  <1>1. UNCHANGED <<up, known, announced>> /\ check[i].st = "store"
    BY DEF Store, env, past, At
  <1>2. KnownIsOwn'
    BY <1>1 DEF OnceInv, KnownIsOwn
  <1>3. CASE Fails
    <2>1. ~calm'
      BY <1>3 DEF Fails
    <2> QED BY <1>2, <2>1 DEF CalmInv
  <1>4. CASE Works /\ UNCHANGED active
    <2>1. /\ check'[i].st = "send" /\ Id(i)' = Id(i)
          /\ \A j \in Check : j # i => check'[j] = check[j]
      BY GotoType DEF OnceInv, TypeInv, Store, At, Id, Named, Asked
    <2>2. calm => Progress(i)'
      BY <1>1, <1>4, <2>1 DEF OnceInv, CalmInv, Progress, At, Asked, Before, After
    <2>3. calm' = calm
      BY <1>4 DEF Works, cost
    <2> QED BY <1>1, <1>2, <1>4, <2>1, <2>2, <2>3, MoverProgress
            DEF OnceInv, CalmInv, AnnouncedIsActive
  <1> QED BY <1>3, <1>4 DEF Store, StoreFails

LEMMA SendOnce ==
    ASSUME OnceInv, NEW i \in Check, Send(i) PROVE KnownIsOwn' /\ CalmInv'
  <1>1. UNCHANGED <<up, known, active, calm>> /\ check[i].st = "send"
    BY DEF Send, env, cost, At
  <1>2. check'[i].st \in {"off", "fetch"} /\ \A j \in Check : j # i => check'[j] = check[j]
    BY NextDomainType DEF OnceInv, TypeInv, Send
  <1>3. Id(i).problem \in Problem /\ Id(i) # None
    BY <1>1, OwnProblem DEF Named, Asked
  <1>4. ASSUME calm' PROVE AnnouncedIsActive'
    <2>1. /\ AnnouncedIsActive /\ announced[Id(i).problem] = 0
          /\ known[Id(i).problem] = Id(i) /\ Id(i) \in active
      BY <1>1, <1>4 DEF OnceInv, CalmInv, Progress, Asked, After
    <2>2. announced' = [announced EXCEPT ![Id(i).problem] = 1]
      BY <2>1 DEF Send
    <2> QED BY <1>1, <1>3, <2>1, <2>2 DEF AnnouncedIsActive, OnceInv, TypeInv, TypeOK
  <1> QED BY <1>1, <1>2, <1>4, RestingProgress, MoverProgress DEF OnceInv, KnownIsOwn, CalmInv

LEMMA TickerOnce ==
    ASSUME OnceInv, NEW i \in Check, Ticker(i) PROVE KnownIsOwn' /\ CalmInv'
  <1>1. UNCHANGED <<up, known, active, announced>>
    BY DEF Ticker, env, past
  <1>2. /\ check'[i].st = "fetch"
        /\ \A j \in Check : j # i => check'[j] = check[j]
    BY NewCheckType DEF OnceInv, TypeInv, Ticker
  <1>3. ASSUME calm' PROVE calm /\ \A j \in Check : check[j].st = "off"
    BY <1>3 DEF Ticker, Running
  <1>4. ASSUME calm' PROVE OneRuns' /\ \A j \in Check : Progress(j)'
    BY <1>2, <1>3, <1>4, RestingProgress DEF OneRuns
  <1> QED BY <1>1, <1>3, <1>4 DEF OnceInv, KnownIsOwn, CalmInv, AnnouncedIsActive

LEMMA StartOnce ==
    ASSUME OnceInv, NEW i \in Check, Start(i) PROVE KnownIsOwn' /\ CalmInv'
  <1>1. known' = known /\ announced' = [p \in Problem |-> 0] /\ ~up
    BY DEF Start
  <1>2. /\ check'[i].st = "fetch"
        /\ \A j \in Check : j # i => check'[j].st = "off"
    BY NewCheckType DEF OnceInv, TypeInv, DownIsEmpty, Start
  <1>3. OneRuns' /\ \A j \in Check : Progress(j)'
    BY <1>2, RestingProgress DEF OneRuns
  <1>4. AnnouncedIsActive'
    BY <1>1 DEF AnnouncedIsActive
  <1> QED BY <1>1, <1>3, <1>4 DEF OnceInv, KnownIsOwn, CalmInv

LEMMA CrashOnce ==
    ASSUME OnceInv, Crash PROVE KnownIsOwn' /\ CalmInv'
  <1>1. KnownIsOwn'
    BY DEF Crash, KnownIsOwn
  <1>2. \A j \in Check : check'[j].st = "off"
    BY OffType DEF Crash
  <1>3. OneRuns' /\ \A j \in Check : Progress(j)'
    BY <1>2, RestingProgress DEF OneRuns
  <1>4. ~up' /\ UNCHANGED <<announced, calm>>
    BY DEF Crash
  <1> QED BY <1>1, <1>3, <1>4 DEF OnceInv, CalmInv, AnnouncedIsActive

LEMMA OutsideOnce ==
    ASSUME OnceInv,
           (\E d \in Domain : Change(d)) \/ (\E id \in EventId : Expire(id)) \/ MinutePasses
    PROVE  KnownIsOwn' /\ CalmInv'
  <1>1. UNCHANGED <<up, known, active, check, announced, calm>>
    BY DEF Change, Expire, MinutePasses, env, past, cost
  <1> QED BY <1>1 DEF OnceInv, KnownIsOwn, CalmInv, AnnouncedIsActive, OneRuns, Progress, At, Id

LEMMA OnceInvInit == Init => OnceInv
  <1> SUFFICES ASSUME Init PROVE OnceInv
    OBVIOUS
  <1>1. PICK k \in Check :
          check = [i \in Check |-> IF i = k THEN [Off EXCEPT !.st = "fetch"] ELSE Off]
    BY DEF Init
  <1>2. /\ \A i \in Check : check[i].st \in {"off", "fetch"}
        /\ \A i \in Check : i # k => check[i].st = "off"
    BY <1>1, OffType
  <1>3. OneRuns /\ \A i \in Check : Progress(i)
    BY <1>2 DEF OneRuns, Progress, At, Asked, Before, After
  <1>4. KnownIsOwn /\ AnnouncedIsActive
    BY DEF Init, KnownIsOwn, AnnouncedIsActive
  <1> QED BY <1>3, <1>4, TypeInvInit DEF OnceInv, CalmInv

LEMMA OnceInvStep == OnceInv /\ [Next]_vars => OnceInv'
  <1> SUFFICES ASSUME OnceInv, [Next]_vars PROVE KnownIsOwn' /\ CalmInv'
    BY TypeInvStep DEF OnceInv
  <1>1. ASSUME NEW i \in Check, Work(i) PROVE KnownIsOwn' /\ CalmInv'
    BY <1>1, FetchOnce, NameOnce, AskMemoryOnce, AskRedisOnce, MarkOnce, StoreOnce, SendOnce
       DEF Work
  <1>2. ASSUME NEW i \in Check, Ticker(i) \/ Start(i) PROVE KnownIsOwn' /\ CalmInv'
    BY <1>2, TickerOnce, StartOnce
  <1>3. CASE Crash
    BY <1>3, CrashOnce
  <1>4. CASE (\E d \in Domain : Change(d)) \/ (\E id \in EventId : Expire(id)) \/ MinutePasses
    BY <1>4, OutsideOnce
  <1>5. CASE UNCHANGED vars
    <2>1. UNCHANGED <<up, known, active, check, announced, calm>>
      BY <1>5 DEF vars, env, past, cost
    <2> QED BY <2>1 DEF OnceInv, KnownIsOwn, CalmInv, AnnouncedIsActive, OneRuns, Progress, At, Id
  <1> QED BY <1>1, <1>2, <1>3, <1>4, <1>5 DEF Next

\* While calls work and checks do not overlap, a process notifies a problem once,
\* for any number of domains, through expiries and restarts.
THEOREM AnnouncedOnceHolds == Spec => []AnnouncedOnce
  <1>1. OnceInv => AnnouncedOnce
    <2> SUFFICES ASSUME OnceInv, calm, NEW p \in Problem PROVE announced[p] <= 1
      BY DEF AnnouncedOnce
    <2>1. announced[p] = 0 \/ announced[p] = 1
      BY DEF OnceInv, CalmInv, AnnouncedIsActive
    <2> QED BY <2>1
  <1> QED BY <1>1, OnceInvInit, OnceInvStep, PTL DEF Spec

-----------------------------------------------------------------------------
(* Nothing is silenced unheard.  The monitor with a history variable: told, *)
(* the problems that any process announced so far.  It restrains no step.   *)

VARIABLE told

Tells == told' = told \cup {Id(i).problem : i \in {j \in Check : Send(j)}}

ToldSpec == Init /\ told = {} /\ [][Next /\ Tells]_<<vars, told>>

\* An event for which memory or Redis turns a check away was announced, by this
\* process or an earlier one, or is on its way to the notifier in another check,
\* or a crash came between its write and its notification.
SilencedWasTold ==
    \A id \in active \cup redis :
        \/ id.problem \in told \cup lost
        \/ \E i \in Check : check[i].st \in After /\ Id(i) = id

\* What is in Redis is beyond the write: only the notification is left.
StoredWasTold ==
    \A id \in redis :
        id.problem \in told \cup lost \/ \E i \in Check : At(i, "send") /\ Id(i) = id

MarkedWasTold ==
    \A id \in active :
        id.problem \in told \cup lost \/ \E i \in Check : check[i].st \in After /\ Id(i) = id

ToldInv == TypeInv /\ StoredWasTold /\ MarkedWasTold

\* No step forgets what was told or lost.
LEMMA ToldStays == ToldInv /\ Next /\ Tells => told \cup lost \subseteq told' \cup lost'
  <1>1. Next => lost \subseteq lost'
    BY DEF Next, Work, Fetch, Name, AskMemory, AskRedis, Mark, Store, Send, Ticker, Start,
           Change, Expire, MinutePasses, Crash, past
  <1> QED BY <1>1 DEF Tells

\* A check before its mark moves, and adds nothing to memory or Redis.
LEMMA OthersStillTell ==
    ASSUME ToldInv, told \cup lost \subseteq told' \cup lost',
           NEW i \in Check, check[i].st \notin After,
           \A j \in Check : j # i => check'[j] = check[j],
           active' \subseteq active, redis' \subseteq redis
    PROVE  StoredWasTold' /\ MarkedWasTold'
  <1>1. StoredWasTold'
    BY DEF ToldInv, StoredWasTold, At, Id, After
  <1>2. MarkedWasTold'
    BY DEF ToldInv, MarkedWasTold, Id
  <1> QED BY <1>1, <1>2

LEMMA AskTold ==
    ASSUME ToldInv, told \cup lost \subseteq told' \cup lost', NEW i \in Check,
           Fetch(i) \/ Name(i) \/ AskMemory(i) \/ AskRedis(i)
    PROVE  StoredWasTold' /\ MarkedWasTold'
  <1>1. check[i].st \notin After
    BY DEF Fetch, Name, AskMemory, AskRedis, At, After
  <1>2. \A j \in Check : j # i => check'[j] = check[j]
    BY DEF Fetch, Name, AskMemory, AskRedis, NextDomain, Goto, Alert, ToldInv, TypeInv, TypeOK
  <1>3. UNCHANGED <<active, redis>>
    BY DEF Fetch, Name, AskMemory, AskRedis
  <1> QED BY <1>1, <1>2, <1>3, OthersStillTell

LEMMA TickerTold ==
    ASSUME ToldInv, told \cup lost \subseteq told' \cup lost', NEW i \in Check, Ticker(i)
    PROVE  StoredWasTold' /\ MarkedWasTold'
  <1>1. check[i].st \notin After
    BY DEF Ticker, Running, After
  <1>2. \A j \in Check : j # i => check'[j] = check[j]
    BY NewCheckType DEF Ticker, ToldInv, TypeInv
  <1> QED BY <1>1, <1>2, OthersStillTell DEF Ticker

LEMMA MarkTold ==
    ASSUME ToldInv, told \cup lost \subseteq told' \cup lost', NEW i \in Check, Mark(i)
    PROVE  StoredWasTold' /\ MarkedWasTold'
  <1>1. /\ check'[i].st = "store" /\ Id(i)' = Id(i)
        /\ \A j \in Check : j # i => check'[j] = check[j]
    BY GotoType DEF ToldInv, TypeInv, Mark, At, Id, Named, Asked
  <1>2. check[i].st = "mark" /\ active' = active \cup {Id(i)} /\ redis' = redis
    BY DEF Mark, At
  <1>3. StoredWasTold'
    BY <1>1, <1>2 DEF ToldInv, StoredWasTold, At, Id
  <1>4. MarkedWasTold'
    BY <1>1, <1>2 DEF ToldInv, MarkedWasTold, Id, After
  <1> QED BY <1>3, <1>4

\* The check that marked an event passes the write, whether or not it fails.
LEMMA StoreTold ==
    ASSUME ToldInv, told \cup lost \subseteq told' \cup lost', NEW i \in Check, Store(i)
    PROVE  StoredWasTold' /\ MarkedWasTold'
  <1>1. /\ check'[i].st = "send" /\ Id(i)' = Id(i)
        /\ \A j \in Check : j # i => check'[j] = check[j]
    BY GotoType DEF ToldInv, TypeInv, Store, At, Id, Named, Asked
  <1>2. /\ check[i].st = "store" /\ active' \subseteq active
        /\ redis' \subseteq redis \cup {Id(i)}
    BY DEF Store, StoreFails, At
  <1>3. StoredWasTold'
    BY <1>1, <1>2 DEF ToldInv, StoredWasTold, At, Id
  <1>4. MarkedWasTold'
    BY <1>1, <1>2 DEF ToldInv, MarkedWasTold, Id, After
  <1> QED BY <1>3, <1>4

LEMMA SendTold ==
    ASSUME ToldInv, told \cup lost \subseteq told' \cup lost', Tells, NEW i \in Check, Send(i)
    PROVE  StoredWasTold' /\ MarkedWasTold'
  <1>1. \A j \in Check : j # i => check'[j] = check[j]
    BY NextDomainType DEF ToldInv, TypeInv, Send
  <1>2. Id(i).problem \in told'
    BY DEF Tells
  <1>3. UNCHANGED <<active, redis>>
    BY DEF Send
  <1>4. StoredWasTold'
    BY <1>1, <1>2, <1>3 DEF ToldInv, StoredWasTold, At, Id
  <1>5. MarkedWasTold'
    BY <1>1, <1>2, <1>3 DEF ToldInv, MarkedWasTold, Id
  <1> QED BY <1>4, <1>5

\* A crash takes the checks that were about to notify: their problems are lost.
LEMMA CrashTold ==
    ASSUME ToldInv, told \cup lost \subseteq told' \cup lost', Crash
    PROVE  StoredWasTold' /\ MarkedWasTold'
  <1>1. active' = {} /\ redis' = redis
    BY DEF Crash
  <1>2. \A i \in Check : At(i, "send") /\ Id(i) \in redis => Id(i).problem \in lost'
    BY DEF Crash
  <1>3. StoredWasTold'
    BY <1>1, <1>2 DEF ToldInv, StoredWasTold
  <1> QED BY <1>1, <1>3 DEF MarkedWasTold

\* What a start restores from Redis was told, or is lost: no check runs.
LEMMA StartTold ==
    ASSUME ToldInv, told \cup lost \subseteq told' \cup lost', NEW i \in Check, Start(i)
    PROVE  StoredWasTold' /\ MarkedWasTold'
  <1>1. \A id \in redis : id.problem \in told \cup lost
    BY DEF ToldInv, TypeInv, DownIsEmpty, Start, StoredWasTold, At
  <1>2. redis' = redis /\ (active' = redis \/ active' = active)
    BY DEF Start
  <1>3. active' \subseteq redis
    BY <1>2 DEF Start, ToldInv, TypeInv, DownIsEmpty
  <1> QED BY <1>1, <1>2, <1>3 DEF StoredWasTold, MarkedWasTold

LEMMA OutsideTold ==
    ASSUME ToldInv, told \cup lost \subseteq told' \cup lost',
           (\E d \in Domain : Change(d)) \/ (\E id \in EventId : Expire(id)) \/ MinutePasses
    PROVE  StoredWasTold' /\ MarkedWasTold'
  <1>1. UNCHANGED <<active, check>> /\ redis' \subseteq redis
    BY DEF Change, Expire, MinutePasses
  <1> QED BY <1>1 DEF ToldInv, StoredWasTold, MarkedWasTold, At, Id

LEMMA ToldInvStep == ToldInv /\ [Next /\ Tells]_<<vars, told>> => ToldInv'
  <1> SUFFICES ASSUME ToldInv, [Next /\ Tells]_<<vars, told>> PROVE ToldInv'
    OBVIOUS
  <1>1. TypeInv'
    BY TypeInvStep DEF ToldInv
  <1>2. CASE Next /\ Tells
    <2>1. told \cup lost \subseteq told' \cup lost'
      BY <1>2, ToldStays
    <2>2. ASSUME NEW i \in Check, Work(i) PROVE StoredWasTold' /\ MarkedWasTold'
      BY <1>2, <2>1, <2>2, AskTold, MarkTold, StoreTold, SendTold DEF Work
    <2>3. ASSUME NEW i \in Check, Ticker(i) \/ Start(i) PROVE StoredWasTold' /\ MarkedWasTold'
      BY <2>1, <2>3, TickerTold, StartTold
    <2>4. CASE Crash
      BY <1>1, <2>1, <2>4, CrashTold DEF ToldInv
    <2>5. CASE (\E d \in Domain : Change(d)) \/ (\E id \in EventId : Expire(id)) \/ MinutePasses
      BY <1>1, <2>1, <2>5, OutsideTold DEF ToldInv
    <2> QED BY <1>1, <1>2, <2>2, <2>3, <2>4, <2>5 DEF Next, ToldInv
  <1>3. CASE UNCHANGED <<vars, told>>
    <2>1. UNCHANGED <<active, redis, check, lost, told>>
      BY <1>3 DEF vars, past
    <2> QED BY <1>1, <2>1 DEF ToldInv, StoredWasTold, MarkedWasTold, At, Id
  <1> QED BY <1>2, <1>3

\* No event is silenced that nobody heard of, whatever checks overlap, calls
\* fail, states expire and processes restart, but for the one window of a crash
\* that LastingErrorAnnounced excepts too.
THEOREM NothingSilencedUnheard == ToldSpec => []SilencedWasTold
  <1>1. Init /\ told = {} => ToldInv
    BY TypeInvInit DEF ToldInv, StoredWasTold, MarkedWasTold, Init
  <1>2. ToldInv => SilencedWasTold
    BY DEF ToldInv, StoredWasTold, MarkedWasTold, SilencedWasTold, At, After
  <1> QED BY <1>1, <1>2, ToldInvStep, PTL DEF ToldSpec
=============================================================================
