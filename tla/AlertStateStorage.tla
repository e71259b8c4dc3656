--------------------------- MODULE AlertStateStorage ---------------------------
(***************************************************************************)
(* The storage of alert states (infra/monitoring/alert_state_storage.go)   *)
(* and those who share it: the policy that judges DiskHigh, the scans its  *)
(* DiskUsageEnricher starts (disk_usage_enricher.go), and readers, which   *)
(* are the other policy, the security monitor and the id generator.        *)
(*                                                                         *)
(* A step is a command to Redis or a section of ensureConnected between    *)
(* two of them.  Only ensureConnected and Close hold s.mu: a command takes *)
(* s.client as it finds it.  Ages and durations are AlertPolicy's: here an *)
(* open event may become due at any reading, and TTLs do not run out.      *)
(***************************************************************************)
EXTENDS FiniteSets, Naturals

CONSTANTS
    Event,       \* random event ids
    Policy,      \* the goroutine of the policy
    Other,       \* goroutines that scan for it, or read for someone else: a
                 \* bound on how many do so at a time
    ReaderOps,   \* what readers call
    MaxFaults,   \* bound on outages and crashes together
    None, Failed

ASSUME StorageConstants ==
    /\ Policy \notin Other
    /\ ReaderOps \subseteq {"ByType", "All", "Get", "Exists"}
    /\ MaxFaults \in Nat
    /\ None \notin Event \cup Other \cup {Policy, "runs", "closed"} /\ Failed \notin Event

Thread == {Policy} \cup Other

\* An AlertState, by its AlertSent.  The disk usage it carries is left out.
State == {"unsent", "sent"}

ASSUME NoneAndFailedAreNoStates == None \notin State /\ Failed \notin State /\ None # Failed

VARIABLES
    db, index,   \* Redis: the states, and the ids in the indexes
    reachable,   \* does Redis answer?
    client,      \* s.client: "nil" or "open"
    mutex,       \* the holder of s.mu
    call,        \* the storage call of a goroutine, or its answer
    job,         \* what the goroutine is doing, and for which event
    lastAlert,   \* lastAlertTimes of the policy
    process,     \* "runs", "closed" its storage, "gone"
    \* history
    used,        \* ids given out
    open,        \* events the policy stored and did not begin to delete
    alerted,     \* events an alert was returned for and no recovery since
    dropped,     \* alerted events given up without a recovery
    revived,     \* a scan wrote an event after the policy deleted it
    overwritten, \* events a scan wrote an old AlertSent of
    panicked,    \* what process was when a command met a nil client
    outages, crashes

redis   == <<db, index>>
link    == <<client, mutex>>
scanned == <<revived, overwritten>>
told    == <<alerted, dropped>>
faults  == <<reachable, outages, crashes>>
vars    == <<db, index, reachable, client, mutex, call, job,
             lastAlert, process, used, open, alerted, dropped, revived,
             overwritten, panicked, outages, crashes>>

Ops == {"ByType", "All", "Get", "Exists", "Set", "Delete"}
Commands == {"get", "exists", "members", "set", "sadd", "del", "srem"}
NoCall == [op |-> "none", ev |-> None, val |-> None, at |-> "none", then |-> "none", ids |-> {}]
Idle == [st |-> "idle", ev |-> None]

TypeOK ==
    /\ db \in [Event -> State \cup {None}]
    /\ index \subseteq Event
    /\ reachable \in BOOLEAN /\ client \in {"nil", "open"}
    /\ mutex \in Thread \cup {None}
    /\ \A t \in Thread :
        /\ call[t].op \in Ops \cup {"none"} /\ call[t].ev \in Event \cup {None}
        /\ call[t].val \in State \cup {None, Failed} /\ call[t].ids \subseteq Event
        /\ call[t].at \in Commands \cup {"none", "lock", "dial", "verify", "returned"}
        /\ call[t].then \in Commands \cup {"none", "inner"}
        /\ mutex = t <=> call[t].at \in {"dial", "verify"}
        /\ job[t].ev \in Event \cup {None}
    /\ process \in {"runs", "closed", "gone"} /\ panicked \in {None, "runs", "closed"}
    /\ lastAlert \subseteq used /\ open \cup alerted \subseteq used
    /\ used \subseteq Event /\ dropped \subseteq used
    /\ revived \in BOOLEAN /\ overwritten \subseteq used
    /\ outages + crashes <= MaxFaults

Fresh ==
    /\ client' = "nil" /\ mutex' = None
    /\ call' = [t \in Thread |-> NoCall] /\ job' = [t \in Thread |-> Idle]
    /\ lastAlert' = {}

Init ==
    /\ db = [e \in Event |-> None] /\ index = {}
    /\ reachable = TRUE /\ client = "nil" /\ mutex = None
    /\ call = [t \in Thread |-> NoCall] /\ job = [t \in Thread |-> Idle]
    /\ lastAlert = {} /\ process = "runs"
    /\ used = {} /\ open = {} /\ alerted = {} /\ dropped = {}
    /\ revived = FALSE /\ overwritten = {} /\ panicked = None
    /\ outages = 0 /\ crashes = 0

-----------------------------------------------------------------------------
(* Calls.  Each starts with ensureConnected; then is what comes after it.   *)
(* A call that gets states by their id calls ensureConnected again for it. *)

First(op) == CASE op = "Get" -> "get" [] op = "Exists" -> "exists"
               [] op = "Set" -> "set" [] op = "Delete" -> "inner"
               [] op \in {"ByType", "All"} -> "members"

Calling(t, op, e, v) ==
    call' = [call EXCEPT ![t] = [op |-> op, ev |-> e, val |-> v, at |-> "lock",
                                 then |-> First(op), ids |-> {}]]

At(t, c) == process # "gone" /\ call[t].at = c
Goto(t, c) == call' = [call EXCEPT ![t].at = c]

\* The call of a reader is over; the others go on with the answer.
Return(t, v) ==
    call' = [call EXCEPT ![t] =
        IF job[t].st = "idle" THEN NoCall
        ELSE [NoCall EXCEPT !.at = "returned", !.val = v,
                            !.ev = IF v \in State THEN call[t].ev ELSE None]]

\* The loop over the ids of an index, in any order.
NextId(t, ids) ==
    IF ids = {} THEN Return(t, None)
    ELSE \E e \in ids : call' = [call EXCEPT ![t].ev = e, ![t].ids = ids \ {e},
                                             ![t].at = "lock", ![t].then = "get"]

\* GetAlertStateByEventID has answered s: to its caller, to the delete that
\* wants the indexes of the state, or to a loop that skips what it cannot get.
Got(t, s) ==
    LET op == call[t].op
    IN CASE op = "Get" -> Return(t, s)
         [] op = "Delete" -> call' = [call EXCEPT ![t].at = "del", ![t].then = "none",
                                                  ![t].val = IF s = Failed THEN None ELSE s]
         [] op = "ByType" /\ s \in State -> Return(t, s)
         [] OTHER -> NextId(t, call[t].ids)

Unavailable(t) == IF call[t].then = "get" THEN Got(t, Failed) ELSE Return(t, Failed)

\* An inner call of DeleteAlertStateByEventID begins with the lock again.
Connected(t) ==
    IF call[t].then = "inner"
    THEN call' = [call EXCEPT ![t].at = "lock", ![t].then = "get"]
    ELSE Goto(t, call[t].then)

Rest == UNCHANGED <<job, lastAlert, process, used, open, told, faults>>

\* The lock and what is done under it up to the next wait: with a client, a
\* ping that is answered, or Close and nil; without one, NewClient.  Only the
\* holder of s.mu writes s.client, so nothing can come between.
\* Fault of Lock: the client is replaced although it answers.
Lock_Replaces(t) ==
    /\ At(t, "lock") /\ mutex = None
    /\ mutex' = t
    /\ \/ client = "open" /\ client' = "nil" /\ Goto(t, "dial")
       \/ client = "nil" /\ client' = "open" /\ Goto(t, "verify")
    /\ UNCHANGED <<redis, scanned, panicked>> /\ Rest

Lock(t) ==
    /\ At(t, "lock") /\ mutex = None
    /\ \/ client = "open" /\ reachable /\ Connected(t) /\ UNCHANGED link
       \/ client = "open" /\ ~reachable /\ client' = "nil" /\ mutex' = t /\ Goto(t, "dial")
       \/ client = "nil" /\ client' = "open" /\ mutex' = t /\ Goto(t, "verify")
    /\ UNCHANGED <<redis, scanned, panicked>> /\ Rest

Dial(t) ==
    /\ At(t, "dial")
    /\ client' = "open" /\ Goto(t, "verify")
    /\ UNCHANGED <<redis, mutex, scanned, panicked>> /\ Rest

\* Fault of Verify: an early return that keeps s.mu.
Verify_Holds(t) ==
    /\ At(t, "verify")
    /\ \/ reachable /\ mutex' = None /\ UNCHANGED client /\ Connected(t)
       \/ ~reachable /\ client' = "nil" /\ UNCHANGED mutex /\ Unavailable(t)
    /\ UNCHANGED <<redis, scanned, panicked>> /\ Rest

Verify(t) ==
    /\ At(t, "verify")
    /\ \/ reachable /\ mutex' = None /\ UNCHANGED client /\ Connected(t)
       \/ ~reachable /\ client' = "nil" /\ mutex' = None /\ Unavailable(t)
    /\ UNCHANGED <<redis, scanned, panicked>> /\ Rest

-----------------------------------------------------------------------------
(* Commands.  One that meets a nil client ends the process; one that meets  *)
(* an unreachable Redis answers an error.                                   *)

Usable(t, c) == At(t, c) /\ client = "open"

Panic(t) ==
    /\ process # "gone" /\ call[t].at \in Commands /\ client = "nil"
    /\ panicked' = process /\ process' = "gone"
    /\ UNCHANGED <<redis, link, call, job, lastAlert, used, open, told, scanned, faults>>

Read(t) ==
    /\ \/ Usable(t, "get") /\ Got(t, IF reachable THEN db[call[t].ev] ELSE Failed)
       \/ Usable(t, "exists") /\ Return(t, IF reachable THEN None ELSE Failed)
       \/ Usable(t, "members") /\ ~reachable /\ Return(t, Failed)
       \/ Usable(t, "members") /\ reachable /\ NextId(t, index)
    /\ UNCHANGED <<redis, link, scanned, panicked>> /\ Rest

\* SET: what it does to the work of the policy when a scan calls it.
Set(t) ==
    LET e == call[t].ev  v == call[t].val
    IN /\ Usable(t, "set")
       /\ \/ /\ reachable /\ db' = [db EXCEPT ![e] = v] /\ Goto(t, "sadd")
             /\ revived' = (revived \/ (t # Policy /\ e \notin open /\ db[e] = None))
             /\ overwritten' = IF t # Policy /\ db[e] = "sent" /\ v = "unsent"
                               THEN overwritten \cup {e} ELSE overwritten
          \/ ~reachable /\ Return(t, Failed) /\ UNCHANGED <<db, scanned>>
       /\ UNCHANGED <<index, link, panicked>> /\ Rest

\* Fault of AddIndexes: the indexes are not written.
AddIndexes_None(t) ==
    /\ Usable(t, "sadd")
    /\ Return(t, None)
    /\ UNCHANGED <<redis, link, scanned, panicked>> /\ Rest

\* addIndexes ignores every error.
AddIndexes(t) ==
    /\ Usable(t, "sadd")
    /\ index' = IF reachable THEN index \cup {call[t].ev} ELSE index
    /\ Return(t, None)
    /\ UNCHANGED <<db, link, scanned, panicked>> /\ Rest

\* DEL, and the indexes only if the state was found before.
Del(t) ==
    LET e == call[t].ev
    IN /\ Usable(t, "del")
       /\ \/ /\ reachable /\ db' = [db EXCEPT ![e] = None]
             /\ IF call[t].val = None THEN Return(t, None) ELSE Goto(t, "srem")
          \/ ~reachable /\ Return(t, Failed) /\ UNCHANGED db
       /\ UNCHANGED <<index, link, scanned, panicked>> /\ Rest

RemoveIndexes(t) ==
    /\ Usable(t, "srem")
    /\ index' = IF reachable THEN index \ {call[t].ev} ELSE index
    /\ Return(t, None)
    /\ UNCHANGED <<db, link, scanned, panicked>> /\ Rest

Storage(t) ==
    \/ Lock(t) \/ Dial(t) \/ Verify(t)
    \/ Read(t) \/ Set(t) \/ AddIndexes(t) \/ Del(t) \/ RemoveIndexes(t)

-----------------------------------------------------------------------------
(* The policy, for readings of the disk: processDecision under p.mu.        *)

Is(t, st) == process # "gone" /\ job[t].st = st
Answered(t, st) == Is(t, st) /\ call[t].at = "returned"
Job(t, st, e) == job' = [job EXCEPT ![t] = [st |-> st, ev |-> e]]
Done(t) ==
    /\ job' = [job EXCEPT ![t] = Idle]
    /\ call' = [call EXCEPT ![t] = NoCall]
Subject(t) == job[t].ev
Answer(t) == call[t].val
Away == UNCHANGED <<redis, link, panicked, scanned, faults>>

\* EnrichAsync of the policy's event e, if wanted: go enrich().  More
\* goroutines than Other at a time are not explored.
Spawning(wanted, st, e) ==
    IF wanted
    THEN \E x \in Other : /\ job[x].st = "idle" /\ call[x].at = "none"
                          /\ job' = [job EXCEPT ![x] = [st |-> "scan", ev |-> e],
                                                ![Policy] = [st |-> st, ev |-> e]]
    ELSE Job(Policy, st, e)

\* evaluateAndEmitAlert: due or not yet, the state is written.
Evaluated(e, s, scan) ==
    \/ Spawning(scan, "hold", e) /\ Calling(Policy, "Set", e, s)
    \/ Spawning(scan, "emit", e) /\ Calling(Policy, "Set", e, "sent")

\* A normal reading looks for an event to recover, a high one for the event to
\* update.  (The lookup before that one, for a recovery timer to stop, asks the
\* same and writes nothing here.)
ReadDisk ==
    /\ process = "runs" /\ Is(Policy, "idle")
    /\ \E st \in {"recover", "find"} : Job(Policy, st, None)
    /\ Calling(Policy, "ByType", None, None)
    /\ UNCHANGED <<lastAlert, process, used, open, told>> /\ Away

\* updateExistingState and checkDiskScanIfNeeded: scan when the usage is not
\* there yet or is older than five minutes.
UpdateExisting ==
    /\ Answered(Policy, "find") /\ Answer(Policy) \in State
    /\ \E scan \in BOOLEAN : Evaluated(call[Policy].ev, Answer(Policy), scan)
    /\ UNCHANGED <<lastAlert, process, used, open, told>> /\ Away

\* No event, or a failing lookup: GenerateUniqueEventID asks for a new id.
NameEvent ==
    /\ Answered(Policy, "find") /\ Answer(Policy) \notin State
    /\ \E e \in Event \ used :
          /\ used' = used \cup {e}
          /\ Job(Policy, "name", e) /\ Calling(Policy, "Exists", e, None)
    /\ UNCHANGED <<lastAlert, process, open, told>> /\ Away

\* createNewState writes the state unless it peeks, and starts a scan.
CreateEvent ==
    /\ Answered(Policy, "name")
    /\ LET e == Subject(Policy)
       IN \/ Job(Policy, "create", e) /\ Calling(Policy, "Set", e, "unsent")
          \/ Evaluated(e, "unsent", TRUE)
    /\ UNCHANGED <<lastAlert, process, used, open, told>> /\ Away

Created ==
    /\ Answered(Policy, "create")
    /\ LET e == Subject(Policy)
       IN \/ Answer(Policy) = Failed /\ Done(Policy) /\ UNCHANGED open
          \/ Answer(Policy) # Failed /\ Evaluated(e, "unsent", TRUE) /\ open' = open \cup {e}
    /\ UNCHANGED <<lastAlert, process, used, told>> /\ Away

\* emitAlertResult records the alert whether or not the write succeeded.
Persisted ==
    /\ \/ Answered(Policy, "hold") /\ UNCHANGED <<lastAlert, alerted>>
       \/ Answered(Policy, "emit") /\ lastAlert' = lastAlert \cup {Subject(Policy)}
          /\ alerted' = alerted \cup {Subject(Policy)}
    /\ open' = IF Answer(Policy) = Failed THEN open ELSE open \cup {Subject(Policy)}
    /\ Done(Policy)
    /\ UNCHANGED <<process, used, dropped>> /\ Away

\* Fault of Notified: only the memory is asked.
Notified_InMemory(e, s) == e \in lastAlert

\* hasPriorAlertNotification
Notified(e, s) == s = "sent" \/ e \in lastAlert

\* handleRecovery: an alerted event is recovered when its time has come, one
\* without an alert is dropped; both are deleted.
Recover ==
    /\ Answered(Policy, "recover")
    /\ LET e == call[Policy].ev  s == Answer(Policy)
       IN \/ s \notin State /\ Done(Policy) /\ UNCHANGED <<open, told>>
          \/ s \in State /\ Notified(e, s) /\ Done(Policy) /\ UNCHANGED <<open, told>>
          \/ /\ s \in State
             /\ dropped' = IF Notified(e, s) THEN dropped ELSE dropped \cup ({e} \cap alerted)
             /\ alerted' = IF Notified(e, s) THEN alerted \ {e} ELSE alerted
             /\ open' = open \ {e}
             /\ Job(Policy, "forget", e) /\ Calling(Policy, "Delete", e, None)
    /\ UNCHANGED <<lastAlert, process, used>> /\ Away

Forgotten ==
    /\ Answered(Policy, "forget") /\ Done(Policy)
    /\ UNCHANGED <<lastAlert, process, used, open, told>> /\ Away

-----------------------------------------------------------------------------
(* A scan, a reader, and the end of the process.                            *)

\* enrich: the scan of the disk has ended, with a usage to write or without.
Scanned(t) ==
    /\ Is(t, "scan")
    /\ \/ Done(t)
       \/ Job(t, "read", Subject(t)) /\ Calling(t, "Get", Subject(t), None)
    /\ UNCHANGED <<lastAlert, process, used, open, told>> /\ Away

\* updateAlertState writes back the state it got, with the usage added.
UpdateAlertState(t) ==
    /\ Answered(t, "read")
    /\ \/ Answer(t) \notin State /\ Done(t)
       \/ Answer(t) \in State /\ Job(t, "write", Subject(t))
          /\ Calling(t, "Set", Subject(t), Answer(t))
    /\ UNCHANGED <<lastAlert, process, used, open, told>> /\ Away

Updated(t) ==
    /\ Answered(t, "write") /\ Done(t)
    /\ UNCHANGED <<lastAlert, process, used, open, told>> /\ Away

Ask(t) ==
    /\ At(t, "none") /\ Is(t, "idle")
    /\ \E op \in ReaderOps :
          \E e \in IF op \in {"Get", "Exists"} THEN Event ELSE {None} : Calling(t, op, e, None)
    /\ UNCHANGED <<job, lastAlert, process, used, open, told>> /\ Away

\* The cycles have ended: cleanup closes the storage, and main returns.  Scans
\* and the security monitor are not waited for.
Close ==
    /\ process = "runs" /\ Is(Policy, "idle") /\ mutex = None
    /\ process' = "closed" /\ client' = "nil"
    /\ UNCHANGED <<redis, mutex, call, job, lastAlert, used, open, told, scanned, panicked, faults>>

Exit ==
    /\ process = "closed"
    /\ process' = "gone"
    /\ UNCHANGED <<redis, link, call, job, lastAlert, used, open, told, scanned, panicked, faults>>

-----------------------------------------------------------------------------
(* The environment.                                                         *)

Outage ==
    /\ process # "gone" /\ reachable /\ outages + crashes < MaxFaults
    /\ reachable' = FALSE /\ outages' = outages + 1
    /\ UNCHANGED <<redis, link, call, job, lastAlert, process, used, open, told,
                   scanned, panicked, crashes>>

Back ==
    /\ process # "gone" /\ ~reachable
    /\ reachable' = TRUE
    /\ UNCHANGED <<redis, link, call, job, lastAlert, process, used, open, told,
                   scanned, panicked, outages, crashes>>

\* A crash and the start after it: NewAlertStateStorage and NewStatefulPolicy.
Restart ==
    /\ process = "runs" /\ outages + crashes < MaxFaults
    /\ Fresh /\ crashes' = crashes + 1
    /\ UNCHANGED <<redis, reachable, process, used, open, told, scanned, panicked, outages>>

Over == process = "gone" /\ UNCHANGED vars

PolicyStep ==
    \/ ReadDisk \/ UpdateExisting \/ NameEvent \/ CreateEvent
    \/ Created \/ Persisted \/ Recover \/ Forgotten

Work(t) ==
    \/ Storage(t) \/ Panic(t)
    \/ t = Policy /\ PolicyStep
    \/ t # Policy /\ (Scanned(t) \/ UpdateAlertState(t) \/ Updated(t) \/ Ask(t))

Next ==
    \/ \E t \in Thread : Work(t)
    \/ Close \/ Exit \/ Outage \/ Back \/ Restart \/ Over

Spec == Init /\ [][Next]_vars

-----------------------------------------------------------------------------
(* Properties.                                                             *)

\* ensureConnected and the command after it are not one step, and yet no
\* command meets a nil client unless Redis went away or the storage was closed
\* (cleanup does not wait for scans).
NoNilClient == panicked = "runs" => outages > 0

\* The policy does not open an event while another is open, as long as calls
\* work, unless a scan brought a deleted one back.
OneOpenEvent == outages = 0 /\ ~revived => Cardinality(open) <= 1

\* An alerted event is not given up without a recovery, even by a policy that
\* has lost its memory in a restart, unless a write was lost or undone by a scan.
NoSilentDrop == outages = 0 => dropped \subseteq overwritten

\* What the policy stored its lookups find, as long as calls work: the state
\* and its index entry are there until the policy deletes them.
OpenIsIndexed == outages = 0 => \A e \in open : db[e] # None /\ e \in index
=============================================================================
