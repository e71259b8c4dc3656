----------------------------- MODULE ScheduledPush -----------------------------
(***************************************************************************)
(* Scheduled push: at each push time the clients upload their metrics to   *)
(* Redis and the server, a delay later, reads all uploads, sends one       *)
(* report and deletes what it read (app/usecase/scheduler/push.go,         *)
(* app/usecase/scheduled_push, infra/scheduled_push/common).               *)
(*                                                                         *)
(* The clocks of the hosts agree.  A second of the program is a unit of    *)
(* clock, and minutes, days and the period of the ticker are shorter.  A   *)
(* step is the code between two points where another process may come in:  *)
(* a check of the scheduler, a call of Redis, a notification.              *)
(***************************************************************************)
EXTENDS Integers, FiniteSetsExt

CONSTANTS
    Client, Server,  \* processes with mode client, the one with mode server
    HostOf, TitleOf, \* GetHostIP and scheduled_push.title of a process
    Period,          \* of the scheduler's ticker (10 s)
    Minute,          \* length of a minute
    Day,             \* minutes in a day
    EnableNotification, \* enable_notification of the server
    PushTimes,       \* scheduled_push.push_times, as minutes of the day
    Delay,           \* server_aggregation_delay_seconds (60 s)
    TTL,             \* of an upload (5 min)
    MaxRun,          \* bound on the time a Run takes: its calls have timeouts
    MaxClock,        \* bound on the clock
    MaxFaults,       \* bound on the crashes and failing calls together
    None

ASSUME PushConstants ==
    /\ Period \in Nat \ {0} /\ Minute \in Nat \ {0} /\ Day \in Nat \ {0}
    /\ PushTimes \subseteq 1 .. Day - 1
    /\ MaxRun \in Nat \ {0} /\ MaxRun + Period <= Minute
    /\ Delay >= Period + MaxRun
    /\ TTL > Delay + Period + MaxRun
    /\ Minute + Delay + MaxRun <= Minute * Day \* a job ends before the next of its time
    /\ Server \notin Client /\ EnableNotification \in BOOLEAN
    /\ MaxClock \in Nat /\ MaxClock >= Minute /\ MaxFaults \in Nat
    /\ Delay \in Nat /\ TTL \in Nat

ASSUME NoneIsNoMinute == None \notin Nat

Node == Client \cup {Server}
Time == 0 .. MaxClock
MaxMinute == MaxClock \div Minute
InstanceOf(n) == <<HostOf[n], TitleOf[n]>>

\* ClientMonitorData: who made it and when; exp is when Redis drops it.
Upload == [by : Client, at : Time, exp : 0 .. MaxClock + TTL]

\* ClientDataKey: the host and the second, but not the title.
Key(u) == <<HostOf[u.by], u.at>>
Keys == {HostOf[c] : c \in Client} \X Time

\* The goroutine of a push time, from its start on.
Job == [st : {"idle", "sleep", "read", "delete"}, minute : 0 .. MaxMinute,
        wake : 0 .. MaxClock + Delay, keys : SUBSET Keys, got : SUBSET Upload]

VARIABLES
    clock,
    up,        \* is the process running?
    phase,     \* when its ticker fires, modulo Period
    pending,   \* is a check due: the one at the start, or a tick in the channel
    last,      \* last[n][t]: the minute of lastReported[t]
    run,       \* the Run of a client, in the goroutine of its scheduler
    job,       \* the server's goroutine for a push time
    redis,     \* the uploads in Redis
    \* history, and the counts behind the bounds
    since,     \* when the process started
    pushed,    \* pushes of the process in this minute, up to 2
    missed,    \* processes that ran through a push time and did not push
    told,      \* the time of the newest upload of a client in a report
    again,     \* clients an upload of which was in a report again
    answered,  \* the minute whose report went out last
    crashes, fails

node    == <<up, phase, since, crashes>>
history == <<pushed, missed, told, again, answered>>
vars    == <<clock, up, phase, pending, last, run, job, redis, since,
             pushed, missed, told, again, answered, crashes, fails>>

Resting == [st |-> "idle", since |-> 0]
NoJob   == [st |-> "idle", minute |-> 0, wake |-> 0, keys |-> {}, got |-> {}]

TypeOK ==
    /\ clock \in Time
    /\ up \in [Node -> BOOLEAN] /\ pending \in [Node -> BOOLEAN]
    /\ phase \in [Node -> 0 .. Period - 1] /\ since \in [Node -> Time]
    /\ last \in [Node -> [PushTimes -> 0 .. MaxMinute \cup {None}]]
    /\ run \in [Client -> [st : {"idle", "busy"}, since : Time]]
    /\ job \in [PushTimes -> Job]
    /\ redis \subseteq Upload /\ told \in [Client -> Time] /\ again \subseteq Client
    /\ pushed \in [Node -> 0 .. 2] /\ missed \subseteq Node
    /\ answered \in 0 .. MaxMinute
    /\ crashes \in Nat /\ fails \in Nat /\ crashes + fails <= MaxFaults

\* All have been running for a while; it is the last second of minute 0.  The
\* server gets another phase when it restarts.
Init ==
    /\ clock = Minute - 1
    /\ up = [n \in Node |-> TRUE]
    /\ phase \in {f \in [Node -> 0 .. Period - 1] : f[Server] = 0}
    /\ pending = [n \in Node |-> FALSE]
    /\ last = [n \in Node |-> [t \in PushTimes |-> None]]
    /\ run = [c \in Client |-> Resting]
    /\ job = [t \in PushTimes |-> NoJob]
    /\ redis = {}
    /\ since = [n \in Node |-> clock]
    /\ pushed = [n \in Node |-> 0] /\ missed = {}
    /\ told = [c \in Client |-> 0] /\ again = {} /\ answered = 0
    /\ crashes = 0 /\ fails = 0

\* A call succeeds, or it fails and is counted.
Works == UNCHANGED fails
Fails == crashes + fails < MaxFaults /\ fails' = fails + 1

-----------------------------------------------------------------------------
(* The repository: what each call reads or leaves in Redis if it works.     *)

AllKeys   == {Key(u) : u \in redis}
DataOf(k) == {u \in redis : Key(u) = k}

\* SET replaces what has the key.
Saved(u)   == {v \in redis : Key(v) # Key(u)} \cup {u}
Deleted(k) == {u \in redis : Key(u) # k}

-----------------------------------------------------------------------------
(* The scheduler of a process: one goroutine, which a client's Run blocks.  *)

\* Fault of ThisMinute: the key of the last report has the seconds too.
ThisMinute_Seconds == clock

ThisMinute == clock \div Minute
ThisTime   == ThisMinute % Day

\* Fault of IsTimeToPush: the minute of the last push is not looked at.
IsTimeToPush_Always(n) == ThisTime \in PushTimes

IsTimeToPush(n) == ThisTime \in PushTimes /\ last[n][ThisTime] # ThisMinute

Blocked == {c \in Client : run[c].st # "idle"}

\* Fault of AggregationDelay: the server does not wait.
AggregationDelay_None == 0

AggregationDelay == Delay

\* executeScheduledPushIfNeeded, at the start and at each tick.  Init of the
\* repository is the first call of a client's Run.
Check(n) ==
    /\ up[n] /\ pending[n] /\ n \notin Blocked
    /\ pending' = [pending EXCEPT ![n] = FALSE]
    /\ \/ /\ ~IsTimeToPush(n)
          /\ Works /\ UNCHANGED <<last, run, job, pushed>>
       \/ /\ IsTimeToPush(n)
          /\ last' = [last EXCEPT ![n][ThisTime] = ThisMinute]
          /\ pushed' = [pushed EXCEPT ![n] = IF @ = 2 THEN 2 ELSE @ + 1]
          /\ \/ /\ n = Server
                /\ job' = [job EXCEPT ![ThisTime] =
                    [NoJob EXCEPT !.st = "sleep", !.minute = ThisMinute,
                                  !.wake = clock + AggregationDelay]]
                /\ Works /\ UNCHANGED run
             \/ /\ n \in Client
                /\ \/ Works /\ run' = [run EXCEPT ![n] = [st |-> "busy", since |-> clock]]
                   \/ Fails /\ UNCHANGED run
                /\ UNCHANGED job
    /\ UNCHANGED <<clock, node, redis, missed, told, again, answered>>

-----------------------------------------------------------------------------
(* ClientUseCaseImpl.Run after Init.                                       *)

\* The metrics are collected, time.Now() is taken at some time since the check,
\* and SaveClientData stores them with a TTL.
Save(c) ==
    /\ run[c].st = "busy"
    /\ \/ /\ \E at \in run[c].since .. clock :
                redis' = Saved([by |-> c, at |-> at, exp |-> clock + TTL])
          /\ Works
       \/ Fails /\ UNCHANGED redis
    /\ run' = [run EXCEPT ![c] = Resting]
    /\ UNCHANGED <<clock, node, pending, last, job, history>>

-----------------------------------------------------------------------------
(* ServerUseCaseImpl.Run, in the goroutine of push time t.                 *)

By(c, uploads) == {u \in uploads : u.by = c}

\* The uploads in the report: the newest of each instance.  The entry of the
\* server itself is new, and replaces an upload of the same instance.
Report(got) ==
    {u \in got : /\ InstanceOf(u.by) # InstanceOf(Server)
                 /\ \A v \in got : InstanceOf(v.by) = InstanceOf(u.by) => v.at <= u.at}

\* Init and GetAllClientDataKeys.  Without Init Run returns; without keys it
\* goes on.
Wake(t) ==
    /\ job[t].st = "sleep" /\ job[t].wake <= clock
    /\ \/ Works /\ job' = [job EXCEPT ![t].st = "read", ![t].wake = clock,
                                      ![t].keys = AllKeys]
       \/ Fails /\ job' = [job EXCEPT ![t].st = "read", ![t].wake = clock]
       \/ Fails /\ job' = [job EXCEPT ![t] = NoJob]
    /\ UNCHANGED <<clock, node, pending, last, run, redis, history>>

\* GetClientDataByKey: an upload, or nothing if it is gone or the call fails.
Read(t) ==
    /\ job[t].st = "read"
    /\ \E k \in job[t].keys :
        \/ /\ job' = [job EXCEPT ![t].keys = @ \ {k},
                                 ![t].got = @ \cup DataOf(k)]
           /\ Works
        \/ Fails /\ job' = [job EXCEPT ![t].keys = @ \ {k}]
    /\ UNCHANGED <<clock, node, pending, last, run, redis, history>>

\* Faults of KeysToDelete: all that are there now; those in the report.
KeysToDelete_All(t) == AllKeys
KeysToDelete_Entries(t) == {Key(u) : u \in Report(job[t].got)}

\* validKeys
KeysToDelete(t) == {Key(u) : u \in job[t].got}

\* The goroutine goes on to delete the keys, and ends after the last.
Deleting(t, keys) ==
    job' = [job EXCEPT ![t] = IF keys = {} THEN NoJob
                              ELSE [@ EXCEPT !.st = "delete", !.keys = keys]]

Sent(t) == Works /\ Deleting(t, KeysToDelete(t))

\* Fault of SendFails: the error is logged only.
SendFails_GoesOn(t) ==
    Fails /\ Deleting(t, KeysToDelete(t))

\* Run returns the error of Send before it deletes anything.
SendFails(t) == Fails /\ job' = [job EXCEPT ![t] = NoJob]

\* The report is formatted and sent, unless notifications are off.
Send(t) ==
    /\ job[t].st = "read" /\ job[t].keys = {}
    /\ \/ /\ Sent(t)
          /\ LET entries == IF EnableNotification THEN Report(job[t].got) ELSE {}
             IN /\ told' = [c \in Client |-> Max({told[c]} \cup {u.at : u \in By(c, entries)})]
                /\ again' = again \cup {u.by : u \in {v \in entries : v.at <= told[v.by]}}
          /\ answered' = job[t].minute
       \/ EnableNotification /\ SendFails(t) /\ UNCHANGED <<told, again, answered>>
    /\ UNCHANGED <<clock, node, pending, last, run, redis, pushed, missed>>

\* DeleteClientData of one key; an error is logged.
Delete(t) ==
    /\ job[t].st = "delete"
    /\ \E k \in job[t].keys :
        /\ \/ Works /\ redis' = Deleted(k)
           \/ Fails /\ UNCHANGED redis
        /\ Deleting(t, job[t].keys \ {k})
    /\ UNCHANGED <<clock, node, pending, last, run, history>>

-----------------------------------------------------------------------------
(* Time, crashes and starts.                                               *)

\* A check and a wakeup come at once, a Run takes at most MaxRun.
Prompt ==
    /\ \A n \in Node : up[n] /\ pending[n] => n \in Blocked
    /\ \A c \in Client : run[c].st # "idle" => clock < run[c].since + MaxRun
    /\ \A t \in PushTimes : /\ job[t].st = "sleep" => clock < job[t].wake
                            /\ job[t].st \in {"read", "delete"} => clock < job[t].wake + MaxRun

\* Processes that were up throughout the minute that ends, and did not push.
Idle == {n \in Node : /\ ThisTime \in PushTimes /\ up[n] /\ pushed[n] = 0
                      /\ since[n] <= ThisMinute * Minute}

\* The ticker's channel holds one tick.  Redis drops what has expired.
Tick ==
    /\ clock < MaxClock /\ Prompt
    /\ clock' = clock + 1
    /\ pending' = [n \in Node |-> pending[n] \/ (up[n] /\ clock' % Period = phase[n])]
    /\ redis' = {u \in redis : clock' < u.exp}
    /\ IF clock' % Minute = 0
       THEN missed' = missed \cup Idle /\ pushed' = [n \in Node |-> 0]
       ELSE UNCHANGED <<missed, pushed>>
    /\ UNCHANGED <<node, last, run, job, told, again, answered, fails>>

\* The process ends, in a crash or by a signal, with all its goroutines.
Crash(n) ==
    /\ up[n] /\ crashes + fails < MaxFaults
    /\ crashes' = crashes + 1
    /\ up' = [up EXCEPT ![n] = FALSE]
    /\ pending' = [pending EXCEPT ![n] = FALSE]
    /\ run' = [c \in Client |-> IF c = n THEN Resting ELSE run[c]]
    /\ job' = IF n = Server THEN [t \in PushTimes |-> NoJob] ELSE job
    /\ UNCHANGED <<clock, phase, since, last, redis, history, fails>>

\* NewScheduledPushScheduler and Start, which checks at once.
Start(n) ==
    /\ ~up[n]
    /\ up' = [up EXCEPT ![n] = TRUE]
    /\ pending' = [pending EXCEPT ![n] = TRUE]
    /\ phase' = [phase EXCEPT ![n] = clock % Period]
    /\ since' = [since EXCEPT ![n] = clock]
    /\ last' = [last EXCEPT ![n] = [t \in PushTimes |-> None]]
    /\ pushed' = [pushed EXCEPT ![n] = 0]
    /\ UNCHANGED <<clock, crashes, run, job, redis, missed, told, again, answered, fails>>

Next ==
    \/ \E n \in Node : Check(n) \/ Crash(n) \/ Start(n)
    \/ \E c \in Client : Save(c)
    \/ \E t \in PushTimes : Wake(t) \/ Read(t) \/ Send(t) \/ Delete(t)
    \/ Tick

Spec == Init /\ [][Next]_vars

-----------------------------------------------------------------------------
(* Properties.                                                             *)

\* lastReported and the ticker: a process that runs through a push time pushes
\* once in it, on every day, however its ticks fall and however long its own
\* Runs block the scheduler.
EachPushTimeOnce == missed = {} /\ \A n \in Node : pushed[n] <= 1

\* An upload stays in Redis until it expires or a report has gone out that has
\* it, or a newer one of the same client, whatever fails or crashes: the
\* server reads, sends and deletes in separate steps while clients save.
KeptUntilReported ==
    [][\A u \in redis \ redis' :
          \/ clock' >= u.exp \/ ~EnableNotification
          \/ told'[u.by] >= u.at
          \/ \E v \in By(u.by, redis') : v.at >= u.at]_vars

\* Without failures and crashes no upload is reported again, and none after a
\* newer one, although the server reads, sends and deletes in separate steps.
ReportedOnce == crashes = 0 /\ fails = 0 => again = {}

\* The delay of the server is there to wait for all clients: when the report
\* of a minute has gone out, each client that was running when the minute
\* began has had its upload of that minute, or a newer one, in a report.
ReportIsComplete ==
    fails = 0 => \A c \in Client :
        up[c] /\ since[c] <= answered * Minute => told[c] >= answered * Minute
=============================================================================
