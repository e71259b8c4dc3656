---------------------------- MODULE CoordinatorProofs ----------------------------
(***************************************************************************)
(* What the two cycles of the Coordinator guarantee, however they          *)
(* interleave and whatever their collections and policies find.            *)
(***************************************************************************)
EXTENDS Coordinator, TLAPS

LEMMA OtherClass == \A c \in Class : Other(c) \in Class /\ Other(c) # c
  BY DEF Class, Other

Events == [kind : {"alert", "recovery"}, ev : Class]

\* Where a cycle holds results it has not notified yet.
Loaded == {"applyOther", "notify"}

\* The HTTP cycle is off exactly without HTTP monitoring, and then the base
\* cycle has no use for PeekApply.
LoneSteps == {"wait", "publish", "applySingle", "notify", "done"}

CyclesInv ==
    /\ pc["http"] = "off" <=> ~httpEnabled
    /\ pc["base"] # "off"
    /\ ~httpEnabled => pc["base"] \in LoneSteps
    /\ \A c \in Class : batch[c] # {} => pc[c] \in Loaded

\* A cycle that RunWithIntervals has seen finish stays finished.
ReturnedInv == returned => \A c \in Class : pc[c] \in {"off", "done"}

\* The map of the policy that owns an event tells that it was alerted.
IntervalInv == \A c \in Class : alerts[c] # 0 => alerts[c] = 1 /\ c \in recent[c]

\* Without HTTP monitoring the alert of a notified event is in the notifier's
\* hands or in the batch of the base cycle.
HandedInv ==
    ~httpEnabled => \A c \in Class : phase[c] = "notified" =>
        c \in handed \/ [kind |-> "alert", ev |-> c] \in batch["base"]

Inv == TypeOK /\ CyclesInv /\ ReturnedInv /\ IntervalInv /\ HandedInv

-----------------------------------------------------------------------------
(* One call of a policy.                                                    *)

\* What a call leaves: it changes one event only, and returns nothing or one
\* result about it.
LEMMA JudgeType ==
    ASSUME TypeOK, NEW c \in Class, NEW p \in Class, NEW reading, Judge(p, c, reading)
    PROVE  /\ phase' \in [Class -> {"closed", "open", "notified"}]
           /\ recent' \in [Class -> SUBSET Class]
           /\ alerts' \in [Class -> 0 .. MaxAlerts]
           /\ handed' \subseteq Class
           /\ Results \subseteq Events
  <1>1. CASE OpenEvent(c)
    BY <1>1 DEF OpenEvent, L!Open, L!Become, L!Silent, L!Returns, TypeOK, Results, MaxAlerts
  <1>2. CASE AlertEvent(p, c)
    <2>1. out' = [kind |-> "alert", ev |-> c]
      BY <1>2 DEF AlertEvent, L!Alert, L!Returns
    <2>2. Results \subseteq Events
      BY <2>1 DEF Results, Events
    <2> QED BY <1>2, <2>2 DEF AlertEvent, L!Alert, L!Become, TypeOK, MaxAlerts
  <1>3. CASE HoldEvent(p, c)
    BY <1>3 DEF HoldEvent, L!Wait, L!Silent, L!Returns, TypeOK, Results
  <1>4. CASE CloseEvent(c)
    <2>1. UNCHANGED <<recent, alerts, handed>>
      BY <1>4 DEF CloseEvent
    <2>2. phase' \in [Class -> {"closed", "open", "notified"}]
      BY <1>4 DEF CloseEvent, L!Drop, L!Recover, L!Wait, L!Become, TypeOK
    <2>3. out'.kind = "none" \/ out' = [kind |-> "recovery", ev |-> c]
      BY <1>4 DEF CloseEvent, L!Drop, L!Recover, L!Wait, L!Silent, L!Returns
    <2>4. Results \subseteq Events
      BY <2>3 DEF Results, Events
    <2> QED BY <2>1, <2>2, <2>4 DEF TypeOK
  <1> QED BY <1>1, <1>2, <1>3, <1>4 DEF Judge

\* The owner of an event alerts it once in an interval.
LEMMA JudgeInterval ==
    ASSUME TypeOK, IntervalInv, NEW c \in Class, NEW reading, Judge(c, c, reading)
    PROVE  IntervalInv'
  <1>1. CASE OpenEvent(c)
    BY <1>1 DEF OpenEvent, IntervalInv, TypeOK
  <1>2. CASE AlertEvent(c, c)
    <2>1. alerts[c] = 0
      BY <1>2 DEF AlertEvent, IntervalInv
    <2> QED BY <1>2, <2>1 DEF AlertEvent, IntervalInv, TypeOK, MaxAlerts
  <1>3. CASE UNCHANGED <<recent, alerts>>
    BY <1>3 DEF IntervalInv
  <1> QED BY <1>1, <1>2, <1>3 DEF Judge, HoldEvent, CloseEvent

\* An event that is notified after a call was so before, and what was handed
\* on stays handed on, or its alert is the result.
LEMMA JudgeHanded ==
    ASSUME TypeOK, NEW c \in Class, NEW p \in Class, NEW reading, Judge(p, c, reading),
           NEW d \in Class, phase'[d] = "notified"
    PROVE  \/ phase[d] = "notified" /\ (d \in handed => d \in handed')
           \/ [kind |-> "alert", ev |-> d] \in Results
  <1>1. CASE OpenEvent(c)
    BY <1>1 DEF OpenEvent, L!Open, L!Become, TypeOK
  <1>2. CASE AlertEvent(p, c)
    BY <1>2 DEF AlertEvent, L!Alert, L!Become, L!Returns, TypeOK, Results
  <1>3. CASE HoldEvent(p, c)
    BY <1>3 DEF HoldEvent, L!Wait
  <1>4. CASE CloseEvent(c)
    BY <1>4 DEF CloseEvent, L!Drop, L!Recover, L!Wait, L!Become, TypeOK
  <1> QED BY <1>1, <1>2, <1>3, <1>4 DEF Judge

-----------------------------------------------------------------------------
(* Inv is inductive: one lemma for each action.                             *)

LEMMA InitInv == Init => Inv
  <1> SUFFICES ASSUME Init PROVE Inv
    OBVIOUS
  <1>1. phase = [e \in Class |-> "closed"]
    BY DEF Init, L!Init
  <1>2. TypeOK
    <2>1. latest \in Snapshot /\ taken \in Snapshot /\ merged \in [Class -> Snapshot]
      BY DEF Init, Snapshot, Empty
    <2>2. pc \in [Class -> Steps] /\ alerts \in [Class -> 0 .. MaxAlerts]
      BY DEF Init, Steps, MaxAlerts
    <2>3. batch \in [Class -> SUBSET Events] /\ recent \in [Class -> SUBSET Class]
      BY DEF Init
    <2> QED BY <1>1, <2>1, <2>2, <2>3 DEF Init, TypeOK, Events
  <1>3. CyclesInv /\ ReturnedInv /\ IntervalInv /\ HandedInv
    BY <1>1 DEF Init, CyclesInv, ReturnedInv, IntervalInv, HandedInv, Class, LoneSteps
  <1> QED BY <1>2, <1>3 DEF Inv

\* A cycle goes from one step to another.  It runs, so it is not off and
\* RunWithIntervals has not returned.
LEMMA GotoCycles ==
    ASSUME Inv, NEW c \in Class, NEW step \in Steps \ {"off"}, Goto(c, step),
           pc[c] \notin {"off", "done"}, UNCHANGED <<httpEnabled, returned>>,
           step \in LoneSteps \/ httpEnabled,
           \A d \in Class \ {c} : batch'[d] = batch[d],
           batch'[c] = {} \/ step \in Loaded
    PROVE  pc' \in [Class -> Steps] /\ CyclesInv' /\ ReturnedInv'
  <1>1. /\ pc' = [pc EXCEPT ![c] = step]
        /\ pc \in [Class -> Steps]
    BY DEF Goto, Inv, TypeOK
  <1>2. pc' \in [Class -> Steps] /\ pc'[c] = step
        /\ \A d \in Class \ {c} : pc'[d] = pc[d]
    BY <1>1
  <1>3. ReturnedInv'
    BY DEF Inv, ReturnedInv
  <1>4. CyclesInv'
    <2>1. \A d \in Class : batch'[d] # {} => pc'[d] \in Loaded
      BY <1>2 DEF Inv, CyclesInv
    <2>2. /\ pc'["http"] = "off" <=> ~httpEnabled
          /\ pc'["base"] # "off"
          /\ ~httpEnabled => pc'["base"] \in LoneSteps
      BY <1>2 DEF Inv, CyclesInv, Class
    <2> QED BY <2>1, <2>2 DEF CyclesInv
  <1> QED BY <1>2, <1>3, <1>4

\* A cycle that is not at one of the lone steps runs with HTTP monitoring on.
LEMMA NotAlone ==
    ASSUME Inv, NEW c \in Class, pc[c] \notin LoneSteps, pc[c] # "off"
    PROVE  httpEnabled
  BY DEF Inv, CyclesInv, Class

\* A step that calls no policy and notifies nothing leaves the events alone.
LEMMA NoCallEvents ==
    ASSUME Inv, NoCall, UNCHANGED <<httpEnabled, handed>>, batch'["base"] = batch["base"]
    PROVE  IntervalInv' /\ HandedInv'
  BY DEF Inv, NoCall, events, IntervalInv, HandedInv

LEMMA NoCallType ==
    ASSUME TypeOK, NoCall
    PROVE  /\ phase' \in [Class -> {"closed", "open", "notified"}]
           /\ recent' \in [Class -> SUBSET Class] /\ alerts' \in [Class -> 0 .. MaxAlerts]
  BY DEF NoCall, events, TypeOK

LEMMA CollectInv ==
    ASSUME Inv, NEW c \in Class, Collect(c) \/ CollectCross(c) PROVE Inv'
  <1>1. taken' \in Snapshot
    BY DEF Collect, CollectCross, Inv, TypeOK, Snapshot
  <1>2. PICK step \in {"publish", "publishCross"} :
          /\ Goto(c, step)
          /\ step \in LoneSteps \/ httpEnabled
          /\ pc[c] \notin {"off", "done"} /\ pc[c] \notin Loaded
    BY NotAlone DEF Collect, CollectCross, LoneSteps, Loaded
  <1>3. /\ NoCall
        /\ UNCHANGED <<httpEnabled, latest, merged, batch, stopped, returned, handed>>
    BY DEF Collect, CollectCross
  <1>4. batch'[c] = {}
    BY <1>2, <1>3 DEF Inv, CyclesInv
  <1>5. pc' \in [Class -> Steps] /\ CyclesInv' /\ ReturnedInv'
    <2>1. step \in Steps \ {"off"}
      BY DEF Steps
    <2>2. \A d \in Class \ {c} : batch'[d] = batch[d]
      BY <1>3
    <2> QED BY <1>2, <1>3, <1>4, <2>1, <2>2, GotoCycles
  <1>6. TypeOK'
    BY <1>1, <1>3, <1>5, NoCallType DEF Inv, TypeOK
  <1> QED BY <1>3, <1>5, <1>6, NoCallEvents DEF Inv

LEMMA StoreInv ==
    ASSUME Inv, NEW c \in Class, NEW d \in Class, NEW used \in SUBSET Class, Store(c, d, used),
           NEW step \in {"peek", "applySingle", "applyOwn"}, Goto(c, step),
           step \in LoneSteps \/ httpEnabled,
           pc[c] \in {"publish", "publishCross"}
    PROVE  Inv'
  <1>1. latest' \in Snapshot /\ taken' \in Snapshot
    BY DEF Store, Inv, TypeOK, Snapshot
  <1>2. merged' \in [Class -> Snapshot]
    BY <1>1 DEF Store, Inv, TypeOK, Snapshot
  <1>3. NoCall /\ UNCHANGED <<httpEnabled, batch, stopped, returned, handed>>
    BY DEF Store
  <1>4. batch'[c] = {}
    BY <1>3 DEF Inv, CyclesInv, Loaded
  <1>5. pc' \in [Class -> Steps] /\ CyclesInv' /\ ReturnedInv'
    BY <1>3, <1>4, GotoCycles DEF Steps
  <1>6. TypeOK'
    BY <1>1, <1>2, <1>3, <1>5, NoCallType DEF Inv, TypeOK
  <1> QED BY <1>3, <1>5, <1>6, NoCallEvents DEF Inv

LEMMA PublishInv ==
    ASSUME Inv, NEW c \in Class, Publish(c) \/ PublishCross(c) PROVE Inv'
  <1>1. CASE Publish(c)
    BY <1>1, StoreInv DEF Publish, AfterPublish, LoneSteps
  <1>2. CASE PublishCross(c)
    BY <1>2, StoreInv, NotAlone, OtherClass DEF PublishCross, LoneSteps
  <1> QED BY <1>1, <1>2

LEMMA PeekInv ==
    ASSUME Inv, NEW c \in Class, Peek(c) PROVE Inv'
  <1>1. Judge(c, c, merged[c][c]) /\ UNCHANGED <<httpEnabled, latest, taken, batch, stopped, returned>>
    BY DEF Peek, PolicyOf
  <1>2. httpEnabled /\ batch'[c] = {}
    BY <1>1, NotAlone DEF Peek, LoneSteps, Inv, CyclesInv, Loaded
  <1>3. PICK step \in {"applySingle", "collectCross"} : Goto(c, step)
    BY DEF Peek
  <1>4. pc' \in [Class -> Steps] /\ CyclesInv' /\ ReturnedInv'
    BY <1>1, <1>2, <1>3, GotoCycles DEF Steps, Peek
  <1>5. merged' \in [Class -> Snapshot]
    BY DEF Peek, Inv, TypeOK, Snapshot, Empty
  <1>6. TypeOK'
    BY <1>1, <1>4, <1>5, JudgeType DEF Inv, TypeOK
  <1>7. IntervalInv'
    BY <1>1, JudgeInterval DEF Inv
  <1>8. HandedInv'
    BY <1>1, <1>2 DEF HandedInv
  <1> QED BY <1>4, <1>6, <1>7, <1>8 DEF Inv

LEMMA ApplyInv ==
    ASSUME Inv, NEW c \in Class, NEW d \in Class, Apply(c, d), pc[c] \notin {"off", "done"},
           NEW step \in Loaded, Goto(c, step), step \in LoneSteps \/ httpEnabled
    PROVE  Inv'
  <1>1. /\ Judge(d, d, merged[c][d])
        /\ UNCHANGED <<httpEnabled, latest, taken, stopped, returned>>
        /\ batch' = [batch EXCEPT ![c] = @ \cup Results]
    BY DEF Apply, PolicyOf
  <1>2. batch \in [Class -> SUBSET Events]
    BY DEF Inv, TypeOK, Events
  <1>3. /\ batch'[c] = batch[c] \cup Results
        /\ \A e \in Class \ {c} : batch'[e] = batch[e]
    BY <1>1, <1>2
  <1>4. batch' \in [Class -> SUBSET Events]
    BY <1>1, <1>2, JudgeType DEF Inv
  <1>5. pc' \in [Class -> Steps] /\ CyclesInv' /\ ReturnedInv'
    BY <1>1, <1>3, GotoCycles DEF Steps, Loaded
  <1>6. merged' \in [Class -> Snapshot]
    BY DEF Apply, Inv, TypeOK, Snapshot
  <1>7. TypeOK'
    BY <1>1, <1>4, <1>5, <1>6, JudgeType DEF Inv, TypeOK, Events
  <1>8. IntervalInv'
    BY <1>1, JudgeInterval DEF Inv
  <1>9. HandedInv'
    <2> SUFFICES ASSUME ~httpEnabled, NEW e \in Class, phase'[e] = "notified"
                 PROVE  e \in handed' \/ [kind |-> "alert", ev |-> e] \in batch'["base"]
      BY <1>1 DEF HandedInv
    <2>1. c = "base"
      BY DEF Inv, CyclesInv, Class
    <2> QED BY <1>1, <1>3, <2>1, JudgeHanded DEF Inv, HandedInv
  <1> QED BY <1>5, <1>7, <1>8, <1>9 DEF Inv

LEMMA ApplyStepInv ==
    ASSUME Inv, NEW c \in Class, ApplyOwn(c) \/ ApplyOther(c) \/ ApplySingle(c) PROVE Inv'
  <1>1. CASE ApplyOwn(c)
    BY <1>1, ApplyInv, NotAlone DEF ApplyOwn, Loaded, LoneSteps
  <1>2. CASE ApplyOther(c)
    BY <1>2, ApplyInv, OtherClass DEF ApplyOther, Loaded, LoneSteps
  <1>3. CASE ApplySingle(c)
    BY <1>3, ApplyInv DEF ApplySingle, Loaded, LoneSteps
  <1> QED BY <1>1, <1>2, <1>3

LEMMA NotifyInv ==
    ASSUME Inv, NEW c \in Class, Notify(c) PROVE Inv'
  <1>1. /\ NoCall /\ UNCHANGED <<httpEnabled, latest, taken, merged, stopped, returned>>
        /\ batch' = [batch EXCEPT ![c] = {}]
        /\ handed' = handed \cup {r.ev : r \in {x \in batch[c] : x.kind = "alert"}}
    BY DEF Notify, metrics
  <1>2. batch \in [Class -> SUBSET Events]
    BY DEF Inv, TypeOK, Events
  <1>3. /\ batch' \in [Class -> SUBSET Events] /\ batch'[c] = {}
        /\ \A e \in Class \ {c} : batch'[e] = batch[e]
    BY <1>1, <1>2
  <1>4. pc' \in [Class -> Steps] /\ CyclesInv' /\ ReturnedInv'
    BY <1>1, <1>3, GotoCycles DEF Notify, Steps, LoneSteps
  <1>5. handed' \subseteq Class
    BY <1>1, <1>2 DEF Inv, TypeOK, Events
  <1>6. TypeOK'
    BY <1>1, <1>3, <1>4, <1>5, NoCallType DEF Inv, TypeOK, Events
  <1>7. IntervalInv'
    BY <1>1 DEF Inv, IntervalInv, NoCall, events
  <1>8. HandedInv'
    <2> SUFFICES ASSUME ~httpEnabled, NEW e \in Class, phase'[e] = "notified" PROVE e \in handed'
      BY <1>1 DEF HandedInv
    <2>1. c = "base"
      BY DEF Inv, CyclesInv, Notify, Class
    <2>2. e \in handed \/ [kind |-> "alert", ev |-> e] \in batch[c]
      BY <1>1, <2>1 DEF Inv, HandedInv, NoCall, events
    <2> QED BY <1>1, <2>2
  <1> QED BY <1>4, <1>6, <1>7, <1>8 DEF Inv

LEMMA QuitInv ==
    ASSUME Inv, NEW c \in Class, Quit(c) PROVE Inv'
  <1>1. /\ NoCall
        /\ UNCHANGED <<httpEnabled, latest, taken, merged, batch, stopped, returned, handed>>
    BY DEF Quit, metrics
  <1>2. pc[c] = "wait" /\ batch'[c] = {}
    BY <1>1 DEF Quit, AtRest, Inv, CyclesInv, Loaded
  <1>3. pc' \in [Class -> Steps] /\ CyclesInv' /\ ReturnedInv'
    BY <1>1, <1>2, GotoCycles DEF Quit, Steps, LoneSteps
  <1>4. TypeOK'
    BY <1>1, <1>3, NoCallType DEF Inv, TypeOK
  <1> QED BY <1>1, <1>3, <1>4, NoCallEvents DEF Inv

LEMMA StopReturnInv ==
    ASSUME Inv, Stop \/ Return PROVE Inv'
  <1>1. /\ NoCall
        /\ UNCHANGED <<httpEnabled, latest, taken, merged, pc, batch, handed>>
        /\ stopped' \in BOOLEAN /\ returned' \in BOOLEAN
    BY DEF Stop, Return, metrics, Inv, TypeOK
  <1>2. CyclesInv' /\ TypeOK'
    BY <1>1, NoCallType DEF Inv, CyclesInv, TypeOK
  <1>3. ReturnedInv'
    BY <1>1 DEF Stop, Return, Started, Inv, ReturnedInv, CyclesInv, Class
  <1> QED BY <1>1, <1>2, <1>3, NoCallEvents DEF Inv

LEMMA IntervalPassesInv ==
    ASSUME Inv, NEW c \in Class, IntervalPasses(c) PROVE Inv'
  <1>1. /\ UNCHANGED <<httpEnabled, latest, taken, merged, pc, batch, stopped, returned, phase, handed>>
        /\ recent' = [p \in Class |-> recent[p] \ {c}]
        /\ alerts' = [alerts EXCEPT ![c] = 0]
    BY DEF IntervalPasses, metrics, control
  <1>2. TypeOK'
    BY <1>1 DEF Inv, TypeOK, MaxAlerts
  <1>3. IntervalInv'
    BY <1>1 DEF Inv, IntervalInv, TypeOK
  <1> QED BY <1>1, <1>2, <1>3 DEF Inv, CyclesInv, ReturnedInv, HandedInv

LEMMA StepInv == Inv /\ [Next]_vars => Inv'
  <1> SUFFICES ASSUME Inv, [Next]_vars PROVE Inv'
    OBVIOUS
  <1>1. ASSUME NEW c \in Class, Work(c) \/ Quit(c) \/ IntervalPasses(c) PROVE Inv'
    BY <1>1, CollectInv, PublishInv, PeekInv, ApplyStepInv, NotifyInv, QuitInv, IntervalPassesInv
       DEF Work
  <1>2. CASE Stop \/ Return
    BY <1>2, StopReturnInv
  <1>3. CASE Finished \/ UNCHANGED vars
    BY <1>3 DEF Finished, vars, Inv, TypeOK, CyclesInv, ReturnedInv, IntervalInv, HandedInv
  <1> QED BY <1>1, <1>2, <1>3 DEF Next

LEMMA InvHolds == Spec => []Inv
  BY InitInv, StepInv, PTL DEF Spec

-----------------------------------------------------------------------------
(* The theorems.                                                            *)

\* Every reachable state is well typed: the metrics a cycle judges, the events
\* and the batches of results.
THEOREM TypeCorrect == Spec => []TypeOK
  <1>1. Inv => TypeOK
    BY DEF Inv
  <1> QED BY <1>1, InvHolds, PTL

\* Within alert_interval an event is alerted once, whichever cycle judges it,
\* peeking or applying.
THEOREM AlertedOncePerInterval == Spec => []OneAlertPerInterval
  <1>1. Inv => OneAlertPerInterval
    BY DEF Inv, IntervalInv, OneAlertPerInterval, TypeOK, MaxAlerts
  <1> QED BY <1>1, InvHolds, PTL

\* Without HTTP monitoring whatever is marked as sent has been handed to the
\* notifier when the cycle rests.
THEOREM SentIsHandedWithoutHTTP == Spec => []HandedWithoutHTTP
  <1>1. Inv => HandedWithoutHTTP
    <2> SUFFICES ASSUME Inv, ~httpEnabled, \A c \in Class : pc[c] \in {"off", "wait", "done"},
                        NEW c \in Class, phase[c] = "notified"
                 PROVE  c \in handed
      BY DEF HandedWithoutHTTP, SentIsHanded
    <2>1. batch["base"] = {}
      BY DEF Inv, CyclesInv, Loaded, Class
    <2> QED BY <2>1 DEF Inv, HandedInv
  <1> QED BY <1>1, InvHolds, PTL

\* RunWithIntervals returns when all cycles have ended and all results of an
\* Apply have been notified, so that closing the storage disturbs nobody.
THEOREM ReturnsClean == Spec => []ReturnIsClean
  <1>1. Inv => ReturnIsClean
    BY DEF Inv, ReturnedInv, CyclesInv, Loaded, ReturnIsClean
  <1> QED BY <1>1, InvHolds, PTL
=============================================================================
