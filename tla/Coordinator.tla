------------------------------ MODULE Coordinator ------------------------------
(***************************************************************************)
(* The two cycles of Coordinator.RunWithIntervals                          *)
(* (internal/app/usecase/monitoring/coordinator.go).  The base cycle       *)
(* collects host and Redis metrics and owns the base policy, the HTTP      *)
(* cycle collects interfaces and owns the HTTP policy; when a cycle finds, *)
(* by PeekApply, that its own metrics would notify, it collects the other  *)
(* ones too and applies both policies, so that one message carries all.    *)
(*                                                                         *)
(* A class of metrics has one alert type here, with one event, named after *)
(* the class; AlertLifecycle says what a policy does with it.  A step is   *)
(* the code between two points where the other goroutine may come in: a    *)
(* collection, a section under c.mu, a call of a policy under its p.mu, a  *)
(* notification.                                                           *)
(***************************************************************************)
EXTENDS Naturals

CONSTANT None

Class == {"base", "http"}
Other(c) == CHOOSE d \in Class : d # c

\* What a collection finds: the metrics of the class are normal or high.
Reading == {"ok", "high"}

VARIABLES
    httpEnabled, \* is http_monitoring on?
    latest,      \* latestBase and latestHTTP
    pc,          \* where the cycle of a class is
    taken,       \* what it has collected and not yet published
    merged,      \* its merged metrics, as far as it still reads them
    batch,       \* the results it will notify
    phase,       \* Redis: the event of a class (AlertLifecycle)
    out,         \* what the last step, if it called a policy, returned
    recent,      \* recent[p]: events policy p alerted less than alert_interval ago
    stopped,     \* is stopCh closed?
    returned,    \* has RunWithIntervals returned?
    \* history, read by the properties only
    alerts,      \* alerts[c]: alerts returned for the event in this interval
    handed       \* events whose alert reached NotifyWithAlertResults

L == INSTANCE AlertLifecycle WITH EventId <- Class

control == <<pc, batch, stopped, returned>>
metrics == <<latest, taken, merged>>
events  == <<phase, recent, alerts>>
vars    == <<httpEnabled, latest, pc, taken, merged, batch, phase, out, recent,
             stopped, returned, alerts, handed>>

Steps == {"off", "wait", "publish", "peek", "collectCross", "publishCross",
          "applyOwn", "applyOther", "applySingle", "notify", "done"}
Snapshot == [Class -> Reading \cup {None}]

\* More than one alert in an interval are as wrong as two.
MaxAlerts == 2

TypeOK ==
    /\ httpEnabled \in BOOLEAN
    /\ latest \in Snapshot /\ taken \in Snapshot
    /\ pc \in [Class -> Steps]
    /\ merged \in [Class -> Snapshot]
    /\ batch \in [Class -> SUBSET [kind : {"alert", "recovery"}, ev : Class]]
    /\ phase \in [Class -> {"closed", "open", "notified"}]
    /\ recent \in [Class -> SUBSET Class]
    /\ stopped \in BOOLEAN /\ returned \in BOOLEAN
    /\ alerts \in [Class -> 0 .. MaxAlerts]
    /\ handed \subseteq Class

Empty == [c \in Class |-> None]

\* After the first collection; without HTTP monitoring there is one cycle.
Init ==
    /\ httpEnabled \in BOOLEAN
    /\ latest \in {s \in Snapshot : /\ s["base"] # None
                                    /\ s["http"] = None <=> ~httpEnabled}
    /\ pc = [c \in Class |-> IF c = "base" \/ httpEnabled THEN "wait" ELSE "off"]
    /\ taken = Empty
    /\ merged = [c \in Class |-> Empty]
    /\ batch = [c \in Class |-> {}]
    /\ L!Init
    /\ recent = [c \in Class |-> {}]
    /\ stopped = FALSE /\ returned = FALSE
    /\ alerts = [c \in Class |-> 0]
    /\ handed = {}

Goto(c, step) == pc' = [pc EXCEPT ![c] = step]

\* A step that calls no policy.
NoCall == L!Silent /\ UNCHANGED events

-----------------------------------------------------------------------------
(* One call of policy p on the event of class c, under p.mu.               *)

\* A new event has a new id, which no map holds.
OpenEvent(c) ==
    /\ L!Open(c)
    /\ recent' = [p \in Class |-> recent[p] \ {c}]
    /\ alerts' = [alerts EXCEPT ![c] = 0]
    /\ handed' = handed \ {c}

AlertEvent(p, c) ==
    /\ c \notin recent[p]
    /\ L!Alert(c)
    /\ recent' = [recent EXCEPT ![p] = @ \cup {c}]
    /\ alerts' = [alerts EXCEPT ![c] = IF @ < MaxAlerts THEN @ + 1 ELSE @]
    /\ UNCHANGED handed

\* Too early, or within alert_interval of the last alert.
HoldEvent(p, c) ==
    /\ phase[c] = "open" \/ (phase[c] = "notified" /\ c \in recent[p])
    /\ L!Wait
    /\ UNCHANGED <<recent, alerts, handed>>

\* A normal metric: the wait for recovery_duration_required, or its end.
CloseEvent(c) ==
    /\ \/ L!Drop(c) \/ L!Recover(c)
       \/ phase[c] # "open" /\ L!Wait
    /\ UNCHANGED <<recent, alerts, handed>>

Judge(p, c, reading) ==
    \/ reading = "high" /\ (OpenEvent(c) \/ AlertEvent(p, c) \/ HoldEvent(p, c))
    \/ reading = "ok" /\ CloseEvent(c)

\* Fault of PolicyOf: a cycle gives all decisions to its own policy.
PolicyOf_Own(cycle, c) == cycle

\* filterNonHTTP goes to policyBase and filterOnlyHTTP to policyHTTP.
PolicyOf(cycle, c) == c

\* Fault of Results: a call without a result adds an empty one.
Results_Empty == {out'}

Results == IF out'.kind = "none" THEN {} ELSE {out'}

-----------------------------------------------------------------------------
(* One iteration of runCycle.                                              *)

Collect(c) ==
    /\ pc[c] = "wait"
    /\ \E r \in Reading : taken' = [taken EXCEPT ![c] = r]
    /\ Goto(c, "publish")
    /\ NoCall /\ UNCHANGED <<httpEnabled, latest, merged, batch, stopped, returned, handed>>

\* Under c.mu: latest takes what was collected of class d, merged takes both
\* classes, of which those in "used" are read before merged is set again.
Store(c, d, used) ==
    /\ latest' = [latest EXCEPT ![d] = taken[c]]
    /\ merged' = [merged EXCEPT ![c] = [e \in Class |-> IF e \in used THEN latest'[e] ELSE None]]
    /\ taken' = [taken EXCEPT ![c] = None]
    /\ NoCall /\ UNCHANGED <<httpEnabled, batch, stopped, returned, handed>>

\* Fault of AfterPublish: a lone base cycle peeks too.
AfterPublish_Peek == "peek"

AfterPublish == IF httpEnabled THEN "peek" ELSE "applySingle"

Publish(c) ==
    /\ pc[c] = "publish"
    /\ Store(c, c, {c})
    /\ Goto(c, AfterPublish)

\* wouldTrigger: the result counts, and is thrown away.
Peek(c) ==
    /\ pc[c] = "peek"
    /\ Judge(PolicyOf(c, c), c, merged[c][c])
    /\ \/ Results = {} /\ Goto(c, "applySingle") /\ UNCHANGED merged
       \/ Results # {} /\ Goto(c, "collectCross") /\ merged' = [merged EXCEPT ![c] = Empty]
    /\ UNCHANGED <<httpEnabled, latest, taken, batch, stopped, returned>>

CollectCross(c) ==
    /\ pc[c] = "collectCross"
    /\ \E r \in Reading : taken' = [taken EXCEPT ![c] = r]
    /\ Goto(c, "publishCross")
    /\ NoCall /\ UNCHANGED <<httpEnabled, latest, merged, batch, stopped, returned, handed>>

PublishCross(c) ==
    /\ pc[c] = "publishCross"
    /\ Store(c, Other(c), Class)
    /\ Goto(c, "applyOwn")

\* Apply on the decisions about class d, whose results join the batch.
Apply(c, d) ==
    /\ Judge(PolicyOf(c, d), d, merged[c][d])
    /\ merged' = [merged EXCEPT ![c][d] = None]
    /\ batch' = [batch EXCEPT ![c] = @ \cup Results]
    /\ UNCHANGED <<httpEnabled, latest, taken, stopped, returned>>

ApplyOwn(c) == pc[c] = "applyOwn" /\ Apply(c, c) /\ Goto(c, "applyOther")

ApplyOther(c) == pc[c] = "applyOther" /\ Apply(c, Other(c)) /\ Goto(c, "notify")

\* EvaluateAndNotifyBaseOnly and EvaluateAndNotifyHTTPOnly.
ApplySingle(c) == pc[c] = "applySingle" /\ Apply(c, c) /\ Goto(c, "notify")

\* NotifyWithAlertResults.  Whether Send succeeds changes nothing the program
\* reads: its error is ignored.
Notify(c) ==
    /\ pc[c] = "notify"
    /\ handed' = handed \cup {r.ev : r \in {x \in batch[c] : x.kind = "alert"}}
    /\ batch' = [batch EXCEPT ![c] = {}]
    /\ Goto(c, "wait")
    /\ NoCall /\ UNCHANGED <<httpEnabled, metrics, stopped, returned>>

\* Fault of AtRest: a cycle may return with results in its batch.
AtRest_Anywhere(c) == pc[c] \in {"wait", "notify"}

\* The select of runCycle, which looks at stopCh between iterations only.
AtRest(c) == pc[c] = "wait"

Quit(c) ==
    /\ stopped /\ AtRest(c)
    /\ Goto(c, "done")
    /\ NoCall /\ UNCHANGED <<httpEnabled, metrics, batch, stopped, returned, handed>>

-----------------------------------------------------------------------------

\* handleSignals closes stopCh.
Stop ==
    /\ ~stopped
    /\ stopped' = TRUE
    /\ NoCall /\ UNCHANGED <<httpEnabled, metrics, pc, batch, returned, handed>>

\* Fault of Started: wg counts the HTTP cycle even when it is off.
Started_Both == Class

\* The cycles wg counts.
Started == IF httpEnabled THEN Class ELSE {"base"}

\* <-stopCh and wg.Wait().
Return ==
    /\ stopped /\ ~returned
    /\ \A c \in Started : pc[c] = "done"
    /\ returned' = TRUE
    /\ NoCall /\ UNCHANGED <<httpEnabled, metrics, pc, batch, stopped, handed>>

\* alert_interval has passed since the last alert of an event.
IntervalPasses(c) ==
    /\ ~returned
    /\ \E p \in Class : c \in recent[p]
    /\ recent' = [p \in Class |-> recent[p] \ {c}]
    /\ alerts' = [alerts EXCEPT ![c] = 0]
    /\ L!Silent /\ UNCHANGED <<httpEnabled, metrics, control, phase, handed>>

Finished == returned /\ UNCHANGED vars

Work(c) ==
    \/ Collect(c) \/ Publish(c) \/ Peek(c) \/ CollectCross(c) \/ PublishCross(c)
    \/ ApplyOwn(c) \/ ApplyOther(c) \/ ApplySingle(c) \/ Notify(c)

Next ==
    \/ \E c \in Class : Work(c) \/ Quit(c) \/ IntervalPasses(c)
    \/ Stop \/ Return \/ Finished

Spec == Init /\ [][Next]_vars

\* Collections and calls return (they have timeouts), and select does not pass
\* over a closed stopCh forever: it picks among the ready cases at random.
Fairness ==
    /\ \A c \in Class : WF_vars(Work(c)) /\ SF_vars(Quit(c))
    /\ WF_vars(Return)

FairSpec == Spec /\ Fairness

-----------------------------------------------------------------------------
(* Properties.                                                             *)

\* alert_interval across the cycles: whichever of them judge an event, and
\* whether they peek or apply, it is alerted once per interval.
OneAlertPerInterval == \A c \in Class : alerts[c] <= 1

\* AlertSent says that the notification was sent
\* (domain/monitoring/alert_state_storage.go:33): between iterations it has been
\* handed to the notifier.
SentIsHanded ==
    (\A c \in Class : pc[c] \in {"off", "wait", "done"}) =>
        \A c \in Class : phase[c] = "notified" => c \in handed

\* Without HTTP monitoring there is no PeekApply, and SentIsHanded holds.
HandedWithoutHTTP == ~httpEnabled => SentIsHanded

\* RunWithIntervals returns, and the storage is closed, only when no cycle will
\* touch it again and every result of an Apply has been notified.
ReturnIsClean ==
    returned => \A c \in Class : pc[c] \in {"off", "done"} /\ batch[c] = {}

\* A signal ends the program.
StopReturns == stopped ~> returned
=============================================================================
