---------------------------- MODULE SecurityMonitor ----------------------------
(***************************************************************************)
(* The certificate monitor (app/usecase/security_monitoring): at its start *)
(* and at each tick a goroutine checks all domains; a failing check or an  *)
(* expiring certificate is notified unless its event is active, in memory  *)
(* or in Redis.  A check may still run when the next one starts.           *)
(*                                                                         *)
(* A step is the code between two points where another goroutine may come  *)
(* in: a section under s.mu, a call of Redis, a fetch.                     *)
(***************************************************************************)
EXTENDS Naturals, FiniteSets

CONSTANTS
    Domains,    \* number of domains, which are checked in order
    Check,      \* goroutines that may check at the same time
    MaxMinute,  \* bound on the clock
    MaxFaults,  \* bound on the crashes and failing calls together
    None

ASSUME SecurityConstants ==
    /\ Domains \in Nat \ {0} /\ MaxMinute \in Nat /\ MaxFaults \in Nat
    /\ IsFiniteSet(Check) /\ Check # {}

Domain == 1 .. Domains

\* A logical key: CertificateCheckErr or CertificateExpiring of a domain.
Problem == [kind : {"error", "expiring"}, domain : Domain]

\* stableSecurityEventID: type, logical key (as a hash) and the minute.
EventId == [problem : Problem, minute : 0 .. MaxMinute]

ASSUME NoneIsNoEvent == None \notin EventId

VARIABLES
    world,    \* what a fetch of a domain finds
    minute,   \* the clock
    up,       \* is the process running?
    known,    \* logicalEventIDs
    active,   \* active
    redis,    \* Redis: ids of states, all with AlertSent
    check,    \* the goroutines
    \* history, and the count behind the bound
    announced,\* announced[p]: notifications of p by this process, up to 2
    expired,  \* ids that left Redis
    calm,     \* no call failed and no two checks overlapped in this process
    lost,     \* problems whose stored alert a crash kept from the notifier
    faults

env  == <<world, minute, up>>
past == <<announced, expired, lost>>
cost == <<calm, faults>>
vars == <<env, known, active, redis, check, past, cost>>

Off == [st |-> "off", domain |-> 1, id |-> None]
Steps == {"off", "fetch", "name", "memory", "query", "mark", "store", "send"}

TypeOK ==
    /\ world \in [Domain -> {"ok", "expiring", "down"}]
    /\ minute \in 0 .. MaxMinute /\ up \in BOOLEAN /\ calm \in BOOLEAN
    /\ known \in [Problem -> EventId \cup {None}]
    /\ active \subseteq EventId /\ redis \subseteq EventId /\ expired \subseteq EventId
    /\ check \in [Check -> [st : Steps, domain : Domain, id : EventId \cup {None}]]
    /\ announced \in [Problem -> 0 .. 2] /\ lost \subseteq Problem
    /\ faults \in 0 .. MaxFaults

Init ==
    /\ world \in [Domain -> {"ok", "expiring", "down"}]
    /\ minute = 0 /\ up = TRUE
    /\ known = [p \in Problem |-> None]
    /\ active = {} /\ redis = {}
    /\ check \in {[i \in Check |-> IF i = j THEN [Off EXCEPT !.st = "fetch"] ELSE Off] : j \in Check}
    /\ announced = [p \in Problem |-> 0]
    /\ expired = {} /\ lost = {} /\ calm = TRUE /\ faults = 0

-----------------------------------------------------------------------------

Works == UNCHANGED <<cost>>
Fails == faults < MaxFaults /\ faults' = faults + 1 /\ calm' = FALSE

Running == {i \in Check : check[i].st # "off"}
NewCheck(i) == check' = [check EXCEPT ![i] = [Off EXCEPT !.st = "fetch"]]
Goto(i, step) == check' = [check EXCEPT ![i].st = step]
Alert(i, step, id) == check' = [check EXCEPT ![i].st = step, ![i].id = id]

\* Fault of NextDomain: the loop runs one step too far.
NextDomain_Late(i) ==
    check' = [check EXCEPT ![i] =
        IF @.domain > Domains THEN Off ELSE [st |-> "fetch", domain |-> @.domain + 1, id |-> None]]

\* The loop over conf.Domains goes on, or the check is done.
NextDomain(i) ==
    check' = [check EXCEPT ![i] =
        IF @.domain = Domains THEN Off ELSE [st |-> "fetch", domain |-> @.domain + 1, id |-> None]]

At(i, step) == check[i].st = step
Id(i) == check[i].id

\* The ticker: go run(), whether or not the last check is done.
Ticker(i) ==
    /\ up /\ i \notin Running
    /\ NewCheck(i)
    /\ calm' = (calm /\ Running = {})
    /\ UNCHANGED <<env, known, active, redis, past, faults>>

\* Fault of KnownId: every check makes a new id.
KnownId_Never(p) == None

KnownId(p) == known[p]

\* Fetch, and the first section of eventIDFor; a new id has the time of now.
Fetch(i) ==
    /\ At(i, "fetch")
    /\ LET d == check[i].domain
           p == [kind |-> IF world[d] = "down" THEN "error" ELSE "expiring", domain |-> d]
       IN \/ world[d] = "ok" /\ NextDomain(i)
          \/ world[d] # "ok" /\ KnownId(p) # None /\ Alert(i, "memory", KnownId(p))
          \/ world[d] # "ok" /\ KnownId(p) = None /\ Alert(i, "name", [problem |-> p, minute |-> minute])
    /\ UNCHANGED <<env, known, active, redis, past, cost>>

\* Fault of Name: the id is registered as active too.
Name_Marks(i) ==
    /\ At(i, "name")
    /\ known' = [known EXCEPT ![Id(i).problem] = Id(i)]
    /\ active' = active \cup {Id(i)}
    /\ Goto(i, "memory")
    /\ UNCHANGED <<env, redis, past, cost>>

\* The second section of eventIDFor.
Name(i) ==
    /\ At(i, "name")
    /\ known' = [known EXCEPT ![Id(i).problem] = Id(i)]
    /\ Goto(i, "memory")
    /\ UNCHANGED <<env, active, redis, past, cost>>

\* isActive under s.mu: an active event is not notified again.
AskMemory(i) ==
    /\ At(i, "memory")
    /\ \/ Id(i) \in active /\ NextDomain(i)
       \/ Id(i) \notin active /\ Goto(i, "query")
    /\ UNCHANGED <<env, known, active, redis, past, cost>>

\* isActive in Redis; a failing call counts as not active.
AskRedis(i) ==
    /\ At(i, "query")
    /\ \/ Id(i) \in redis /\ NextDomain(i) /\ Works
       \/ Id(i) \notin redis /\ Goto(i, "mark") /\ Works
       \/ Goto(i, "mark") /\ Fails
    /\ UNCHANGED <<env, known, active, redis, past>>

\* setActive under s.mu.
Mark(i) ==
    /\ At(i, "mark")
    /\ active' = active \cup {Id(i)}
    /\ Goto(i, "store")
    /\ UNCHANGED <<env, known, redis, past, cost>>

\* Fault of StoreFails: setActive returns without taking the mark back.
StoreFails_Keeps(i) == Fails /\ UNCHANGED active

\* The write of setActive failed: the mark is taken back.
StoreFails(i) == Fails /\ active' = active \ {Id(i)}

\* The write of setActive.  Its error is logged, and the alert sent anyway.
Store(i) ==
    /\ At(i, "store")
    /\ \/ Works /\ redis' = redis \cup {Id(i)} /\ UNCHANGED active
       \/ StoreFails(i) /\ UNCHANGED redis
    /\ Goto(i, "send")
    /\ UNCHANGED <<env, known, past>>

\* go Send(): nobody learns whether it succeeds.
Send(i) ==
    /\ At(i, "send")
    /\ announced' = [announced EXCEPT ![Id(i).problem] = IF @ = 2 THEN 2 ELSE @ + 1]
    /\ NextDomain(i)
    /\ UNCHANGED <<env, known, active, redis, expired, cost, lost>>

-----------------------------------------------------------------------------

\* A domain goes down or comes back, or its certificate nears its end or is renewed.
Change(d) ==
    /\ \E w \in {"ok", "expiring", "down"} : w # world[d] /\ world' = [world EXCEPT ![d] = w]
    /\ UNCHANGED <<minute, up, known, active, redis, check, past, cost>>

MinutePasses ==
    /\ minute < MaxMinute
    /\ minute' = minute + 1
    /\ UNCHANGED <<world, up, known, active, redis, check, past, cost>>

\* The TTL of a state runs out; nothing ever deletes one (recoverIfActive has
\* no caller).
Expire(id) ==
    /\ id \in redis /\ id.minute < minute
    /\ redis' = redis \ {id} /\ expired' = expired \cup {id}
    /\ UNCHANGED <<env, known, active, check, announced, cost, lost>>

Crash ==
    /\ up /\ faults < MaxFaults
    /\ faults' = faults + 1
    /\ up' = FALSE
    /\ lost' = lost \cup {Id(i).problem : i \in {j \in Check : At(j, "send") /\ Id(j) \in redis}}
    /\ known' = [p \in Problem |-> None] /\ active' = {}
    /\ check' = [i \in Check |-> Off]
    /\ UNCHANGED <<world, minute, redis, announced, expired, calm>>

\* NewService and Start: restoreActiveAlerts, then the first check.
Start(i) ==
    /\ ~up
    /\ up' = TRUE
    /\ \/ active' = redis /\ calm' = TRUE /\ UNCHANGED faults
       \/ Fails /\ UNCHANGED active
    /\ announced' = [p \in Problem |-> 0]
    /\ NewCheck(i)
    /\ UNCHANGED <<world, minute, known, redis, expired, lost>>

Work(i) ==
    \/ Fetch(i) \/ Name(i) \/ AskMemory(i) \/ AskRedis(i)
    \/ Mark(i) \/ Store(i) \/ Send(i)

Next ==
    \/ \E i \in Check : Work(i) \/ Ticker(i) \/ Start(i)
    \/ \E d \in Domain : Change(d)
    \/ \E id \in EventId : Expire(id)
    \/ MinutePasses \/ Crash

Spec == Init /\ [][Next]_vars

\* Fetches and calls have timeouts, the ticker goes on, and a service manager
\* restarts the process.
Fairness ==
    /\ \A i \in Check : WF_vars(Work(i))
    /\ WF_vars(\E i \in Check : Ticker(i)) /\ WF_vars(\E i \in Check : Start(i))

FairSpec == Spec /\ Fairness

-----------------------------------------------------------------------------
(* Properties.                                                             *)

\* A process notifies a problem once, however often checks find it, whatever
\* expires in Redis meanwhile, as long as calls work and checks do not overlap.
AnnouncedOnce == calm => \A p \in Problem : announced[p] <= 1

\* An event that memory calls active is in Redis or was, once its write is
\* done, whatever checks overlap and whichever writes fail: so a restart can
\* restore it.
ActiveIsStored ==
    \A id \in active :
        id \in redis \cup expired \/ \E i \in Check : At(i, "store") /\ Id(i) = id

\* A domain that stays down is notified, unless a crash came between the write
\* of its state and the notification.
LastingErrorAnnounced ==
    \A d \in Domain : LET p == [kind |-> "error", domain |-> d]
                      IN <>[](world[d] = "down") => <>(announced[p] > 0 \/ p \in lost)
=============================================================================
