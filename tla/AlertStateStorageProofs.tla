------------------------ MODULE AlertStateStorageProofs ------------------------
(***************************************************************************)
(* What AlertStateStorage guarantees for every number of events and of     *)
(* goroutines that share the storage, and every sequence of outages and    *)
(* crashes.                                                                *)
(***************************************************************************)
EXTENDS AlertStateStorage, FiniteSetTheorems, TLAPS

Waits == {"lock", "dial", "verify"}

\* The command a call is about to send, or waits to send.
Due(c) == IF c.at \in Waits THEN c.then ELSE c.at

CommandsOf(op) ==
    CASE op = "Get" -> {"get"} [] op = "Exists" -> {"exists"} [] op = "Set" -> {"set", "sadd"}
      [] op = "Delete" -> {"inner", "get", "del", "srem"}
      [] op \in {"ByType", "All"} -> {"members", "get"}

CallRecord ==
    [op : Ops \cup {"none"}, ev : Event \cup {None}, val : State \cup {None, Failed},
     at : Commands \cup Waits \cup {"none", "returned"},
     then : Commands \cup {"none", "inner"}, ids : SUBSET Event]

\* What a call may look like, whoever makes it.
Shaped(c) ==
    /\ c.op = "none" <=> c.at \in {"none", "returned"}
    /\ c.at = "none" => c = NoCall
    /\ c.op # "none" =>
        /\ Due(c) \in CommandsOf(c.op)
        /\ Due(c) # "members" => c.ev \in Event
        /\ c.op = "Set" => c.val \in State
        /\ c.at \in Waits => c.then \notin {"sadd", "del", "srem"}
    /\ c.at = "returned" /\ c.val \in State => c.ev \in Event

PolicyJob == {"idle", "find", "recover", "name", "create", "hold", "emit", "forget"}
OtherJob  == {"idle", "scan", "read", "write"}

\* The calls of a job.
OpsOf(t, st) ==
    CASE st = "idle" -> IF t = Policy THEN {} ELSE ReaderOps
      [] st = "scan" -> {}
      [] st \in {"find", "recover"} -> {"ByType"}
      [] st = "name" -> {"Exists"}
      [] st = "read" -> {"Get"}
      [] st \in {"create", "hold", "emit", "write"} -> {"Set"}
      [] st = "forget" -> {"Delete"}

\* A call serves the job of its goroutine.
Serves(t, j, c) ==
    /\ j.st \in (IF t = Policy THEN PolicyJob ELSE OtherJob)
    /\ c.op \in OpsOf(t, j.st) \cup {"none"}
    /\ c.at = "none" => j.st \in {"idle", "scan"}
    /\ c.at = "returned" => j.st \notin {"idle", "scan"}
    /\ j.st = "idle" => j = Idle
    /\ j.st \in {"find", "recover"} => j.ev = None
    /\ j.st \notin {"idle", "find", "recover"} =>
        j.ev \in Event /\ (c.op # "none" => c.ev = j.ev)

CallInv ==
    /\ call \in [Thread -> CallRecord]
    /\ job \in [Thread -> [st : PolicyJob \cup OtherJob, ev : Event \cup {None}]]
    /\ \A t \in Thread : Shaped(call[t]) /\ Serves(t, job[t], call[t])

Calm == outages = 0

\* Without an outage a client that answered once is there until Close.
LinkInv ==
    Calm => /\ reachable
            /\ process = "runs" =>
                \A t \in Thread : call[t].at \in Commands \cup {"verify"} => client = "open"

\* The goroutine of the policy has written the state of its event, or its entry
\* in the index too.
Writes == {"create", "hold", "emit"}
Wrote   == job[Policy].st \in Writes /\ call[Policy].at \in {"sadd", "returned"}
Indexed == job[Policy].st \in Writes /\ call[Policy].at = "returned"

\* Only the policy deletes, and what it deletes is not open any more.
StoredInv ==
    Calm => /\ OpenIsIndexed
            /\ job[Policy].st = "forget" => job[Policy].ev \notin open
            /\ Wrote => db[job[Policy].ev] # None
            /\ Indexed => job[Policy].ev \in index

\* The events a lookup may find, now or after a write that is under way.
Findable == {e \in Event : db[e] # None /\ (e \in index \/ \E t \in Thread : job[t].ev = e)}

AtMostOne == \A e, f \in Findable : e = f

\* A lookup of the policy finds it, if there is one.
LookupFinds ==
    LET c == call[Policy]
    IN job[Policy].st \in {"find", "recover"} =>
        /\ c.at = "returned" => \A e \in Findable : c.val \in State /\ e = c.ev
        /\ Due(c) = "get" => Findable \subseteq c.ids \cup {c.ev} /\ c.ids \cup {c.ev} \subseteq index

\* It is the one the policy works on.
WorksOnIt == job[Policy].st \notin {"idle", "find", "recover"} => Findable \subseteq {job[Policy].ev}

\* What others scan for has its entry in the index, or the policy is at it.
ScannedIsIndexed ==
    \A t \in Other : job[t].ev \in Event /\ db[job[t].ev] # None =>
        \/ job[t].ev \in index
        \/ job[Policy].st \in Writes \cup {"forget"} /\ job[Policy].ev = job[t].ev

DeletedIsGone ==
    job[Policy].st = "forget" /\ call[Policy].at \in {"srem", "returned"} => db[job[Policy].ev] = None

OneInv == Calm /\ ~revived =>
    AtMostOne /\ LookupFinds /\ WorksOnIt /\ ScannedIsIndexed /\ DeletedIsGone

\* An alert nobody overwrote is on record, and the policy holds no older state.
Kept(e) == e \in alerted \ overwritten

KeptIsSent == \A e \in Event : Kept(e) => db[e] = "sent"

UnsentIsNotKept ==
    LET c == call[Policy]
    IN (c.at = "returned" \/ c.op = "Set") /\ c.val = "unsent" => ~Kept(c.ev)

BeginsOrEnds == job[Policy].st \in {"name", "create", "forget"} => ~Kept(job[Policy].ev)

EmitIsSent == job[Policy].st = "emit" =>
    /\ call[Policy].op = "Set" => call[Policy].val = "sent"
    /\ Wrote => db[job[Policy].ev] = "sent" \/ job[Policy].ev \in overwritten

SentInv == Calm => KeptIsSent /\ UnsentIsNotKept /\ BeginsOrEnds /\ EmitIsSent /\ NoSilentDrop

-----------------------------------------------------------------------------
(* How a call goes on.                                                      *)

\* Only the call of t changes, to c.
Becomes(t, c) == c \in CallRecord /\ call' = [call EXCEPT ![t] = c]

LEMMA ThreadFacts == Policy \in Thread /\ None \notin Thread /\ \A t \in Other : t # Policy /\ t \in Thread
  BY StorageConstants DEF Thread

LEMMA NoCallFacts ==
    /\ NoCall \in CallRecord /\ NoCall.at = "none" /\ NoCall.op = "none"
    /\ NoCall.ev = None /\ NoCall.val = None
  BY DEF NoCall, CallRecord

LEMMA BecomesFacts ==
    ASSUME CallInv, NEW t \in Thread, NEW c, Becomes(t, c)
    PROVE  /\ call' \in [Thread -> CallRecord] /\ call'[t] = c
           /\ \A u \in Thread \ {t} : call'[u] = call[u]
  BY DEF Becomes, CallInv

LEMMA GotoBecomes ==
    ASSUME CallInv, NEW t \in Thread, NEW at \in Commands \cup Waits \cup {"none"}, Goto(t, at)
    PROVE  \E c : /\ Becomes(t, c) /\ c.at = at
                  /\ c.op = call[t].op /\ c.ev = call[t].ev /\ c.val = call[t].val
                  /\ c.then = call[t].then /\ c.ids = call[t].ids
  <1> DEFINE c == [call[t] EXCEPT !.at = at]
  <1>1. call[t] \in CallRecord
    BY DEF CallInv
  <1>2. /\ c \in CallRecord /\ c.at = at
        /\ c.op = call[t].op /\ c.ev = call[t].ev /\ c.val = call[t].val
        /\ c.then = call[t].then /\ c.ids = call[t].ids
    BY <1>1 DEF CallRecord
  <1>3. call' = [call EXCEPT ![t] = c]
    BY DEF Goto
  <1> HIDE DEF c
  <1> QED BY <1>2, <1>3 DEF Becomes

LEMMA CallingBecomes ==
    ASSUME NEW t \in Thread, NEW op \in Ops, NEW e \in Event \cup {None},
           NEW v \in State \cup {None, Failed}, Calling(t, op, e, v)
    PROVE  \E c : /\ Becomes(t, c) /\ c.at = "lock" /\ c.then = First(op)
                  /\ c.op = op /\ c.ev = e /\ c.val = v /\ c.ids = {}
  <1> DEFINE c == [op |-> op, ev |-> e, val |-> v, at |-> "lock", then |-> First(op), ids |-> {}]
  <1>1. First(op) \in Commands \cup {"inner"}
    BY DEF First, Ops, Commands
  <1>2. /\ c \in CallRecord /\ c.at = "lock" /\ c.then = First(op)
        /\ c.op = op /\ c.ev = e /\ c.val = v /\ c.ids = {}
    BY <1>1 DEF CallRecord, Waits
  <1>3. call' = [call EXCEPT ![t] = c]
    BY DEF Calling
  <1> HIDE DEF c
  <1> QED BY <1>2, <1>3 DEF Becomes

LEMMA ReturnBecomes ==
    ASSUME CallInv, NEW t \in Thread, NEW v \in State \cup {None, Failed}, Return(t, v)
    PROVE  \E c : /\ Becomes(t, c)
                  /\ \/ job[t].st = "idle" /\ c = NoCall
                     \/ /\ job[t].st # "idle" /\ c.at = "returned" /\ c.op = "none" /\ c.val = v
                        /\ c.ev = IF v \in State THEN call[t].ev ELSE None
  <1> DEFINE e == IF v \in State THEN call[t].ev ELSE None
             c == [NoCall EXCEPT !.at = "returned", !.val = v, !.ev = e]
  <1>1. CASE job[t].st = "idle"
    BY <1>1, NoCallFacts DEF Return, Becomes
  <1>2. CASE job[t].st # "idle"
    <2>1. e \in Event \cup {None}
      BY DEF CallInv, CallRecord
    <2> HIDE DEF e
    <2>2. c \in CallRecord /\ c.at = "returned" /\ c.op = "none" /\ c.val = v /\ c.ev = e
      BY <2>1 DEF CallRecord, NoCall
    <2>3. call' = [call EXCEPT ![t] = c]
      BY <1>2 DEF Return, e
    <2> HIDE DEF c
    <2>4. Becomes(t, c)
      BY <2>2, <2>3 DEF Becomes
    <2> QED BY <1>2, <2>2, <2>4 DEF e
  <1> QED BY <1>1, <1>2

LEMMA NextIdBecomes ==
    ASSUME CallInv, NEW t \in Thread, NEW ids \in SUBSET Event, NextId(t, ids)
    PROVE  \/ ids = {} /\ Return(t, None)
           \/ \E c : \E e \in ids :
                /\ Becomes(t, c) /\ c.at = "lock" /\ c.then = "get"
                /\ c.op = call[t].op /\ c.ev = e /\ c.val = call[t].val /\ c.ids = ids \ {e}
  <1>1. CASE ids = {}
    BY <1>1 DEF NextId
  <1>2. CASE ids # {}
    <2>1. PICK e \in ids : call' = [call EXCEPT ![t].ev = e, ![t].ids = ids \ {e},
                                                ![t].at = "lock", ![t].then = "get"]
      BY <1>2 DEF NextId
    <2> DEFINE c == [call[t] EXCEPT !.ev = e, !.ids = ids \ {e}, !.at = "lock", !.then = "get"]
    <2>2. call[t] \in CallRecord /\ call \in [Thread -> CallRecord]
      BY DEF CallInv
    <2>3. /\ c \in CallRecord /\ c.at = "lock" /\ c.then = "get"
          /\ c.op = call[t].op /\ c.ev = e /\ c.val = call[t].val /\ c.ids = ids \ {e}
      BY <2>2 DEF CallRecord, Commands, Waits
    <2>4. call' = [call EXCEPT ![t] = c]
      BY <2>1, <2>2
    <2> HIDE DEF c
    <2> QED BY <2>3, <2>4 DEF Becomes
  <1> QED BY <1>1, <1>2

-----------------------------------------------------------------------------
(* Every call keeps its shape.                                              *)

\* A call that is under way.
LEMMA UnderWay ==
    ASSUME CallInv, NEW t \in Thread, call[t].at \in Commands \cup Waits
    PROVE  /\ call[t].op \in Ops /\ Due(call[t]) \in CommandsOf(call[t].op)
           /\ Due(call[t]) # "members" => call[t].ev \in Event
           /\ call[t].op = "Set" => call[t].val \in State
           /\ call[t].op \in OpsOf(t, job[t].st) /\ job[t].st # "scan"
           /\ call[t].then \in Commands \cup {"none", "inner"}
           /\ call[t].ids \in SUBSET Event
  <1>1. Shaped(call[t]) /\ Serves(t, job[t], call[t]) /\ call[t] \in CallRecord
    BY DEF CallInv
  <1>2. call[t].op # "none" /\ call[t].op \in Ops
    BY <1>1 DEF Shaped, CallRecord, Commands, Waits
  <1>3. call[t].op \in OpsOf(t, job[t].st)
    BY <1>1, <1>2 DEF Serves
  <1>4. job[t].st # "scan"
    BY <1>3 DEF OpsOf
  <1> QED BY <1>1, <1>2, <1>3, <1>4 DEF Shaped, CallRecord

LEMMA CommandsOfFacts ==
    ASSUME NEW op \in Ops
    PROVE  /\ CommandsOf(op) \subseteq Commands \cup {"inner"}
           /\ "inner" \in CommandsOf(op) \/ "del" \in CommandsOf(op) \/ "srem" \in CommandsOf(op)
                => op = "Delete"
           /\ "set" \in CommandsOf(op) \/ "sadd" \in CommandsOf(op) => op = "Set"
           /\ "exists" \in CommandsOf(op) => op = "Exists"
           /\ "members" \in CommandsOf(op) => op \in {"ByType", "All"}
           /\ "get" \in CommandsOf(op) => op \in {"Get", "Delete", "ByType", "All"}
           /\ op = "Delete" => CommandsOf(op) = {"inner", "get", "del", "srem"}
           /\ op = "Set" => CommandsOf(op) = {"set", "sadd"}
           /\ op \in {"ByType", "All"} => CommandsOf(op) = {"members", "get"}
           /\ op = "Get" => CommandsOf(op) = {"get"}
           /\ op = "Exists" => CommandsOf(op) = {"exists"}
  BY DEF CommandsOf, Commands, Ops

\* The call of t changes, and no job does.
LEMMA CallChanges ==
    ASSUME CallInv, NEW t \in Thread, NEW c, Becomes(t, c), UNCHANGED job,
           Shaped(c), Serves(t, job[t], c)
    PROVE  CallInv'
  BY BecomesFacts DEF CallInv

\* A call goes on with another command.
LEMMA AdvanceKeeps ==
    ASSUME CallInv, NEW t \in Thread, NEW c, Becomes(t, c), UNCHANGED job,
           call[t].at \in Commands \cup Waits, c.at \in Commands \cup Waits,
           c.op = call[t].op, c.op = "Set" => c.val = call[t].val,
           Due(c) \in CommandsOf(c.op), Due(c) # "members" => c.ev \in Event,
           job[t].st \notin {"idle", "find", "recover"} => c.ev = call[t].ev,
           c.at \in Waits => c.then \in {call[t].then, "get"} /\ (c.then = "get" \/ call[t].at \in Waits)
    PROVE  CallInv'
  <1>1. /\ call[t].op \in Ops /\ call[t].op \in OpsOf(t, job[t].st) /\ job[t].st # "scan"
        /\ call[t].op = "Set" => call[t].val \in State
    BY UnderWay
  <1>2. c.op # "none" /\ c.at \notin {"none", "returned"}
    BY <1>1 DEF Ops, Commands, Waits
  <1>3. Shaped(call[t]) /\ Serves(t, job[t], call[t])
    BY DEF CallInv
  <1>4. Shaped(c)
    BY <1>1, <1>2, <1>3 DEF Shaped
  <1>5. Serves(t, job[t], c)
    BY <1>1, <1>2, <1>3 DEF Serves, Ops
  <1> QED BY <1>4, <1>5, CallChanges

LEMMA ReturnKeeps ==
    ASSUME CallInv, NEW t \in Thread, NEW v \in State \cup {None, Failed}, Return(t, v), UNCHANGED job,
           call[t].at \in Commands \cup Waits, v \in State => call[t].ev \in Event
    PROVE  CallInv'
  <1>1. PICK c : /\ Becomes(t, c)
                 /\ \/ job[t].st = "idle" /\ c = NoCall
                    \/ /\ job[t].st # "idle" /\ c.at = "returned" /\ c.op = "none" /\ c.val = v
                       /\ c.ev = IF v \in State THEN call[t].ev ELSE None
    BY ReturnBecomes
  <1>2. Serves(t, job[t], call[t]) /\ job[t].st # "scan"
    BY UnderWay DEF CallInv
  <1>3. CASE job[t].st = "idle" /\ c = NoCall
    <2>1. Shaped(c) /\ Serves(t, job[t], c)
      BY <1>2, <1>3, NoCallFacts, NoneAndFailedAreNoStates DEF Shaped, Serves
    <2> QED BY <1>1, <2>1, CallChanges
  <1>4. CASE job[t].st # "idle" /\ c.at = "returned"
    <2>1. c.op = "none" /\ c.val = v /\ v \in State => c.ev = call[t].ev
      BY <1>1, <1>4, NoCallFacts
    <2>2. Shaped(c)
      BY <1>1, <1>4, <2>1, NoCallFacts DEF Shaped
    <2>3. Serves(t, job[t], c)
      BY <1>1, <1>2, <1>4, <2>1, NoCallFacts DEF Serves
    <2> QED BY <1>1, <2>2, <2>3, CallChanges
  <1> QED BY <1>1, <1>3, <1>4

LEMMA NextIdKeeps ==
    ASSUME CallInv, NEW t \in Thread, NEW ids \in SUBSET Event, NextId(t, ids), UNCHANGED job,
           call[t].at \in Commands \cup Waits, call[t].op \in {"ByType", "All"}
    PROVE  CallInv'
  <1>1. CASE ids = {} /\ Return(t, None)
    BY <1>1, ReturnKeeps, NoneAndFailedAreNoStates
  <1>2. ASSUME NEW c, NEW e \in ids,
               /\ Becomes(t, c) /\ c.at = "lock" /\ c.then = "get"
               /\ c.op = call[t].op /\ c.ev = e /\ c.val = call[t].val /\ c.ids = ids \ {e}
        PROVE  CallInv'
    <2>1. Due(c) = "get" /\ c.at \in Waits /\ c.ev \in Event
      BY <1>2 DEF Due, Waits
    <2>2. Due(c) \in CommandsOf(c.op)
      BY <1>2, <2>1, CommandsOfFacts DEF Ops
    <2>3. job[t].st \in {"idle", "find", "recover"}
      BY UnderWay DEF OpsOf, CallInv, PolicyJob, OtherJob
    <2> QED BY <1>2, <2>1, <2>2, <2>3, AdvanceKeeps
  <1> QED BY <1>1, <1>2, NextIdBecomes

\* A lookup by id is answered.
LEMMA GotBecomes ==
    ASSUME CallInv, NEW t \in Thread, NEW s \in State \cup {None, Failed}, Got(t, s),
           call[t].at \in Commands \cup Waits, Due(call[t]) = "get"
    PROVE  \/ /\ call[t].op = "Get" \/ (call[t].op = "ByType" /\ s \in State)
              /\ Return(t, s)
           \/ /\ call[t].op = "Delete"
              /\ \E c : /\ Becomes(t, c) /\ c.at = "del" /\ c.then = "none"
                        /\ c.op = call[t].op /\ c.ev = call[t].ev /\ c.ids = call[t].ids
                        /\ c.val = IF s = Failed THEN None ELSE s
           \/ /\ call[t].op = "All" \/ (call[t].op = "ByType" /\ s \notin State)
              /\ NextId(t, call[t].ids)
  <1>1. call[t].op \in {"Get", "Delete", "ByType", "All"}
    BY UnderWay, CommandsOfFacts
  <1>2. CASE call[t].op = "Delete"
    <2>1. call' = [call EXCEPT ![t].at = "del", ![t].then = "none",
                               ![t].val = IF s = Failed THEN None ELSE s]
      BY <1>2 DEF Got
    <2> DEFINE v == IF s = Failed THEN None ELSE s
               c == [call[t] EXCEPT !.at = "del", !.then = "none", !.val = v]
    <2>2. call[t] \in CallRecord /\ call \in [Thread -> CallRecord] /\ v \in State \cup {None, Failed}
      BY DEF CallInv
    <2>3. call' = [call EXCEPT ![t] = c]
      BY <2>1, <2>2
    <2> HIDE DEF v
    <2>4. /\ c \in CallRecord /\ c.at = "del" /\ c.then = "none"
          /\ c.op = call[t].op /\ c.ev = call[t].ev /\ c.ids = call[t].ids /\ c.val = v
      BY <2>2 DEF CallRecord, Commands
    <2> HIDE DEF c
    <2> QED BY <1>2, <2>3, <2>4 DEF Becomes, v
  <1>3. CASE call[t].op = "Get"
    BY <1>3 DEF Got
  <1>4. CASE call[t].op = "ByType" /\ s \in State
    BY <1>4 DEF Got
  <1>5. CASE call[t].op = "All" \/ (call[t].op = "ByType" /\ s \notin State)
    BY <1>5 DEF Got
  <1> QED BY <1>1, <1>2, <1>3, <1>4, <1>5

LEMMA GotKeeps ==
    ASSUME CallInv, NEW t \in Thread, NEW s \in State \cup {None, Failed}, Got(t, s), UNCHANGED job,
           call[t].at \in Commands \cup Waits, Due(call[t]) = "get"
    PROVE  CallInv'
  <1>1. call[t].ev \in Event /\ call[t].ids \in SUBSET Event /\ call[t].op \in Ops
    BY UnderWay
  <1>2. ASSUME NEW c, call[t].op = "Delete", Becomes(t, c), c.at = "del",
               c.op = call[t].op, c.ev = call[t].ev
        PROVE  CallInv'
    <2>1. Due(c) = "del" /\ c.at \in Commands /\ c.at \notin Waits
      BY <1>2 DEF Due, Waits, Commands
    <2>2. Due(c) \in CommandsOf(c.op)
      BY <1>1, <1>2, <2>1, CommandsOfFacts
    <2> QED BY <1>1, <1>2, <2>1, <2>2, AdvanceKeeps
  <1> QED BY <1>1, <1>2, GotBecomes, ReturnKeeps, NextIdKeeps

LEMMA ConnectedBecomes ==
    ASSUME CallInv, NEW t \in Thread, Connected(t), call[t].at \in Waits
    PROVE  \E c : /\ Becomes(t, c) /\ c.op = call[t].op /\ c.ev = call[t].ev
                  /\ c.val = call[t].val /\ c.ids = call[t].ids
                  /\ \/ call[t].then = "inner" /\ c.at = "lock" /\ c.then = "get"
                     \/ call[t].then # "inner" /\ c.at = call[t].then /\ c.then = call[t].then
  <1>1. call[t].then \in Commands \cup {"inner"}
    BY UnderWay, CommandsOfFacts DEF Due, Waits
  <1>2. CASE call[t].then = "inner"
    <2> DEFINE c == [call[t] EXCEPT !.at = "lock", !.then = "get"]
    <2>1. call[t] \in CallRecord /\ call \in [Thread -> CallRecord]
      BY DEF CallInv
    <2>2. /\ c \in CallRecord /\ c.at = "lock" /\ c.then = "get" /\ c.op = call[t].op
          /\ c.ev = call[t].ev /\ c.val = call[t].val /\ c.ids = call[t].ids
      BY <2>1 DEF CallRecord, Waits, Commands
    <2>3. call' = [call EXCEPT ![t] = c]
      BY <1>2, <2>1 DEF Connected
    <2> HIDE DEF c
    <2> QED BY <1>2, <2>2, <2>3 DEF Becomes
  <1>3. CASE call[t].then # "inner"
    BY <1>1, <1>3, GotoBecomes DEF Connected
  <1> QED BY <1>2, <1>3

LEMMA ConnectedKeeps ==
    ASSUME CallInv, NEW t \in Thread, Connected(t), call[t].at \in Waits, UNCHANGED job
    PROVE  CallInv'
  <1>1. PICK c : /\ Becomes(t, c) /\ c.op = call[t].op /\ c.ev = call[t].ev
                 /\ c.val = call[t].val /\ c.ids = call[t].ids
                 /\ \/ call[t].then = "inner" /\ c.at = "lock" /\ c.then = "get"
                    \/ call[t].then # "inner" /\ c.at = call[t].then /\ c.then = call[t].then
    BY ConnectedBecomes
  <1>2. /\ call[t].op \in Ops /\ call[t].then \in CommandsOf(call[t].op)
        /\ call[t].then # "members" => call[t].ev \in Event
    BY UnderWay DEF Due
  <1>3. CASE call[t].then = "inner" /\ c.at = "lock" /\ c.then = "get"
    <2>1. Due(c) = "get" /\ c.at \in Waits /\ c.ev \in Event
      BY <1>1, <1>2, <1>3 DEF Due, Waits
    <2>2. Due(c) \in CommandsOf(c.op)
      BY <1>1, <1>2, <1>3, <2>1, CommandsOfFacts
    <2> QED BY <1>1, <2>1, <2>2, AdvanceKeeps
  <1>4. CASE call[t].then # "inner" /\ c.at = call[t].then
    <2>1. c.at \in Commands
      BY <1>2, <1>4, CommandsOfFacts
    <2>2. Due(c) = c.at
      BY <2>1 DEF Due, Waits, Commands
    <2> QED BY <1>1, <1>2, <1>4, <2>1, <2>2, AdvanceKeeps
  <1> QED BY <1>1, <1>3, <1>4
RedisInv == db \in [Event -> State \cup {None}] /\ index \in SUBSET Event

\* Every command and every section of ensureConnected.
LEMMA StorageKeeps ==
    ASSUME CallInv, RedisInv, NEW t \in Thread, Storage(t)
    PROVE  CallInv' /\ RedisInv' /\ UNCHANGED job
  <1>1. UNCHANGED job
    BY DEF Storage, Lock, Dial, Verify, Read, Set, AddIndexes, Del, RemoveIndexes, Rest
  <1>2. CASE Lock(t)
    <2>1. call[t].at = "lock" /\ UNCHANGED <<db, index>>
      BY <1>2 DEF Lock, At, redis
    <2>2. Connected(t) \/ Goto(t, "dial") \/ Goto(t, "verify")
      BY <1>2 DEF Lock
    <2>3. CASE Connected(t)
      BY <1>1, <2>1, <2>3, ConnectedKeeps DEF Waits, RedisInv
    <2>4. ASSUME NEW at \in {"dial", "verify"}, Goto(t, at)
          PROVE  CallInv'
      <3>1. PICK c : /\ Becomes(t, c) /\ c.at = at
                     /\ c.op = call[t].op /\ c.ev = call[t].ev /\ c.val = call[t].val
                     /\ c.then = call[t].then /\ c.ids = call[t].ids
        BY <2>4, GotoBecomes DEF Waits
      <3>2. Due(c) = Due(call[t]) /\ call[t].at \in Waits /\ c.at \in Waits
        BY <2>1, <3>1 DEF Due, Waits
      <3> QED BY <1>1, <3>1, <3>2, UnderWay, AdvanceKeeps
    <2> QED BY <1>1, <2>1, <2>2, <2>3, <2>4 DEF RedisInv
  <1>3. CASE Dial(t)
    <2>1. call[t].at = "dial" /\ UNCHANGED <<db, index>> /\ Goto(t, "verify")
      BY <1>3 DEF Dial, At, redis
    <2>2. PICK c : /\ Becomes(t, c) /\ c.at = "verify"
                   /\ c.op = call[t].op /\ c.ev = call[t].ev /\ c.val = call[t].val
                   /\ c.then = call[t].then /\ c.ids = call[t].ids
      BY <2>1, GotoBecomes DEF Waits
    <2>3. Due(c) = Due(call[t]) /\ call[t].at \in Waits /\ c.at \in Waits
      BY <2>1, <2>2 DEF Due, Waits
    <2> QED BY <1>1, <2>1, <2>2, <2>3, UnderWay, AdvanceKeeps DEF RedisInv
  <1>4. CASE Verify(t)
    <2>1. call[t].at = "verify" /\ UNCHANGED <<db, index>> /\ (Connected(t) \/ Unavailable(t))
      BY <1>4 DEF Verify, At, redis
    <2>2. CASE Connected(t)
      BY <1>1, <2>1, <2>2, ConnectedKeeps DEF Waits, RedisInv
    <2>3. CASE Unavailable(t) /\ call[t].then = "get"
      BY <1>1, <2>1, <2>3, GotKeeps DEF Waits, RedisInv, Unavailable, Due
    <2>4. CASE Unavailable(t) /\ call[t].then # "get"
      BY <1>1, <2>1, <2>4, ReturnKeeps, NoneAndFailedAreNoStates DEF Waits, RedisInv, Unavailable
    <2> QED BY <2>1, <2>2, <2>3, <2>4
  <1>5. CASE Read(t)
    <2>1. UNCHANGED <<db, index>>
      BY <1>5 DEF Read, redis
    <2>2. ASSUME call[t].at = "get", Got(t, IF reachable THEN db[call[t].ev] ELSE Failed)
          PROVE  CallInv'
      <3>1. Due(call[t]) = "get" /\ call[t].at \in Commands
        BY <2>2 DEF Due, Waits, Commands
      <3>2. call[t].ev \in Event
        BY <3>1, UnderWay
      <3>3. (IF reachable THEN db[call[t].ev] ELSE Failed) \in State \cup {None, Failed}
        BY <3>2 DEF RedisInv
      <3> QED BY <1>1, <2>2, <3>1, <3>3, GotKeeps
    <2>3. ASSUME NEW v \in {None, Failed}, call[t].at \in {"exists", "members"}, Return(t, v)
          PROVE  CallInv'
      BY <1>1, <2>3, ReturnKeeps, NoneAndFailedAreNoStates DEF Commands
    <2>4. ASSUME call[t].at = "members", NextId(t, index)
          PROVE  CallInv'
      <3>1. Due(call[t]) = "members" /\ call[t].at \in Commands
        BY <2>4 DEF Due, Waits, Commands
      <3>2. call[t].op \in {"ByType", "All"}
        BY <3>1, UnderWay, CommandsOfFacts
      <3> QED BY <1>1, <2>4, <3>1, <3>2, NextIdKeeps DEF RedisInv
    <2> QED BY <1>1, <1>5, <2>1, <2>2, <2>3, <2>4 DEF Read, Usable, At, RedisInv
  <1>6. CASE Set(t)
    <2>1. call[t].at = "set" /\ UNCHANGED index
      BY <1>6 DEF Set, Usable, At
    <2>2. /\ Due(call[t]) = "set" /\ call[t].at \in Commands /\ call[t].op = "Set"
          /\ call[t].ev \in Event /\ call[t].val \in State
      BY <2>1, UnderWay, CommandsOfFacts DEF Due, Waits, Commands
    <2>3. CASE Return(t, Failed) /\ UNCHANGED db
      BY <1>1, <2>1, <2>2, <2>3, ReturnKeeps, NoneAndFailedAreNoStates DEF RedisInv
    <2>4. CASE Goto(t, "sadd") /\ db' = [db EXCEPT ![call[t].ev] = call[t].val]
      <3>1. PICK c : /\ Becomes(t, c) /\ c.at = "sadd"
                     /\ c.op = call[t].op /\ c.ev = call[t].ev /\ c.val = call[t].val
        BY <2>4, GotoBecomes DEF Commands
      <3>2. Due(c) = "sadd" /\ c.at \in Commands /\ c.at \notin Waits
        BY <3>1 DEF Due, Waits, Commands
      <3>3. Due(c) \in CommandsOf(c.op)
        BY <2>2, <3>1, <3>2, CommandsOfFacts DEF Ops
      <3>4. CallInv'
        BY <1>1, <2>2, <3>1, <3>2, <3>3, AdvanceKeeps
      <3> QED BY <1>1, <2>1, <2>2, <2>4, <3>4 DEF RedisInv
    <2> QED BY <1>1, <1>6, <2>3, <2>4 DEF Set, scanned
  <1>7. CASE AddIndexes(t)
    <2>1. call[t].at = "sadd" /\ UNCHANGED db /\ Return(t, None)
          /\ index' = IF reachable THEN index \cup {call[t].ev} ELSE index
      BY <1>7 DEF AddIndexes, Usable, At
    <2>2. Due(call[t]) = "sadd" /\ call[t].at \in Commands
      BY <2>1 DEF Due, Waits, Commands
    <2>3. call[t].ev \in Event
      BY <2>2, UnderWay
    <2> QED BY <1>1, <2>1, <2>2, <2>3, ReturnKeeps, NoneAndFailedAreNoStates DEF RedisInv
  <1>8. CASE Del(t)
    <2>1. call[t].at = "del" /\ UNCHANGED index
      BY <1>8 DEF Del, Usable, At
    <2>2. /\ Due(call[t]) = "del" /\ call[t].at \in Commands /\ call[t].op = "Delete"
          /\ call[t].ev \in Event
      BY <2>1, UnderWay, CommandsOfFacts DEF Due, Waits, Commands
    <2>3. db' = [db EXCEPT ![call[t].ev] = None] \/ UNCHANGED db
      BY <1>8 DEF Del
    <2>4. RedisInv'
      BY <2>1, <2>2, <2>3 DEF RedisInv
    <2>5. ASSUME NEW v \in {None, Failed}, Return(t, v)
          PROVE  CallInv'
      BY <1>1, <2>1, <2>2, <2>5, ReturnKeeps, NoneAndFailedAreNoStates
    <2>6. ASSUME Goto(t, "srem")
          PROVE  CallInv'
      <3>1. PICK c : /\ Becomes(t, c) /\ c.at = "srem"
                     /\ c.op = call[t].op /\ c.ev = call[t].ev /\ c.val = call[t].val
        BY <2>6, GotoBecomes DEF Commands
      <3>2. Due(c) = "srem" /\ c.at \in Commands /\ c.at \notin Waits
        BY <3>1 DEF Due, Waits, Commands
      <3>3. Due(c) \in CommandsOf(c.op)
        BY <2>2, <3>1, <3>2, CommandsOfFacts DEF Ops
      <3> QED BY <1>1, <2>2, <3>1, <3>2, <3>3, AdvanceKeeps
    <2> QED BY <1>1, <1>8, <2>4, <2>5, <2>6 DEF Del
  <1>9. CASE RemoveIndexes(t)
    <2>1. call[t].at = "srem" /\ UNCHANGED db /\ Return(t, None)
          /\ index' = IF reachable THEN index \ {call[t].ev} ELSE index
      BY <1>9 DEF RemoveIndexes, Usable, At
    <2> QED BY <1>1, <2>1, ReturnKeeps, NoneAndFailedAreNoStates DEF RedisInv, Commands
  <1> QED BY <1>2, <1>3, <1>4, <1>5, <1>6, <1>7, <1>8, <1>9 DEF Storage
-----------------------------------------------------------------------------
(* How the goroutines go on.                                                *)

\* t turns to j.
Turns(t, j) == job' = [job EXCEPT ![t] = j]

JobRecord == [st : PolicyJob \cup OtherJob, ev : Event \cup {None}]

LEMMA IdleFacts == Idle \in JobRecord /\ Idle.st = "idle" /\ Idle.ev = None
  BY DEF Idle, JobRecord, PolicyJob, OtherJob

LEMMA TurnsKeeps ==
    ASSUME CallInv, NEW t \in Thread, NEW c, Becomes(t, c), NEW j \in JobRecord, Turns(t, j),
           Shaped(c), Serves(t, j, c)
    PROVE  CallInv'
  BY BecomesFacts DEF CallInv, Turns, JobRecord

LEMMA DoneTurns ==
    ASSUME CallInv, NEW t \in Thread, Done(t)
    PROVE  Becomes(t, NoCall) /\ Turns(t, Idle) /\ CallInv'
  <1>1. Becomes(t, NoCall) /\ Turns(t, Idle)
    BY NoCallFacts DEF Done, Becomes, Turns
  <1>2. Shaped(NoCall) /\ Serves(t, Idle, NoCall)
    BY NoCallFacts, IdleFacts DEF Shaped, Serves, PolicyJob, OtherJob
  <1> QED BY <1>1, <1>2, IdleFacts, TurnsKeeps

\* The policy turns to e, and may start a goroutine that scans for it.
Takes(st, e) ==
    /\ job' \in [Thread -> JobRecord]
    /\ job'[Policy] = [st |-> st, ev |-> e]
    /\ \A t \in Other : \/ job'[t] = job[t]
                        \/ /\ job[t].st = "idle" /\ call[t] = NoCall
                           /\ job'[t] = [st |-> "scan", ev |-> e] /\ e \in Event

LEMMA JobTakes ==
    ASSUME CallInv, NEW st \in PolicyJob, NEW e \in Event \cup {None}, Job(Policy, st, e)
    PROVE  Takes(st, e)
  <1>1. [st |-> st, ev |-> e] \in JobRecord
    BY DEF JobRecord
  <1> QED BY <1>1, ThreadFacts DEF Takes, Job, CallInv, JobRecord

LEMMA SpawningTakes ==
    ASSUME CallInv, NEW st \in PolicyJob, NEW e \in Event, NEW w \in BOOLEAN, Spawning(w, st, e)
    PROVE  Takes(st, e)
  <1>1. CASE ~w
    BY <1>1, JobTakes DEF Spawning
  <1>2. CASE w
    <2>1. PICK x \in Other : /\ job[x].st = "idle" /\ call[x].at = "none"
                             /\ job' = [job EXCEPT ![x] = [st |-> "scan", ev |-> e],
                                                   ![Policy] = [st |-> st, ev |-> e]]
      BY <1>2 DEF Spawning
    <2>2. [st |-> st, ev |-> e] \in JobRecord /\ [st |-> "scan", ev |-> e] \in JobRecord
      BY DEF JobRecord, OtherJob
    <2>3. call[x] = NoCall
      BY <2>1, ThreadFacts DEF CallInv, Shaped
    <2>4. job \in [Thread -> JobRecord]
      BY DEF CallInv, JobRecord
    <2> QED BY <2>1, <2>2, <2>3, <2>4, ThreadFacts DEF Takes
  <1> QED BY <1>1, <1>2

\* A lookup is for no event, the other jobs call for theirs.
For(st, e, f) == /\ st \in {"find", "recover"} => e = None
                 /\ st \notin {"find", "recover"} => e \in Event /\ f = e

\* The policy turns to a job that calls the storage.
LEMMA TakesKeeps ==
    ASSUME CallInv, NEW st \in PolicyJob, NEW e \in Event \cup {None}, Takes(st, e),
           NEW op \in Ops, NEW f \in Event \cup {None}, NEW v \in State \cup {None, Failed},
           Calling(Policy, op, f, v), op \in OpsOf(Policy, st), st # "idle",
           op \in {"ByType", "All"} \/ f \in Event, op = "Set" => v \in State,
           For(st, e, f)
    PROVE  CallInv'
  <1>1. PICK c : /\ Becomes(Policy, c) /\ c.at = "lock" /\ c.then = First(op)
                 /\ c.op = op /\ c.ev = f /\ c.val = v /\ c.ids = {}
    BY CallingBecomes, ThreadFacts
  <1>2. Due(c) = First(op)
    BY <1>1 DEF Due, Waits
  <1>3. /\ First(op) \in CommandsOf(op) /\ (First(op) = "members" <=> op \in {"ByType", "All"})
        /\ First(op) \notin {"sadd", "del", "srem"}
    BY CommandsOfFacts DEF First, Ops
  <1>4. Shaped(c)
    BY <1>1, <1>2, <1>3 DEF Shaped, Ops
  <1>5. Serves(Policy, [st |-> st, ev |-> e], c)
    BY <1>1 DEF Serves, Ops, For
  <1>6. /\ call' \in [Thread -> CallRecord] /\ call'[Policy] = c
        /\ \A u \in Thread \ {Policy} : call'[u] = call[u]
    BY <1>1, BecomesFacts, ThreadFacts
  <1>7. ASSUME NEW t \in Other
        PROVE  Shaped(call'[t]) /\ Serves(t, job'[t], call'[t])
    <2>1. call'[t] = call[t] /\ Shaped(call[t]) /\ Serves(t, job[t], call[t])
      BY <1>6, ThreadFacts DEF CallInv
    <2>2. CASE job'[t] = job[t]
      BY <2>1, <2>2
    <2>3. CASE call[t] = NoCall /\ job'[t] = [st |-> "scan", ev |-> e] /\ e \in Event
      <3>1. Serves(t, [st |-> "scan", ev |-> e], NoCall)
        BY <2>3, NoCallFacts, ThreadFacts DEF Serves, OtherJob
      <3> QED BY <2>1, <2>3, <3>1
    <2> QED BY <2>2, <2>3 DEF Takes
  <1> QED BY <1>4, <1>5, <1>6, <1>7 DEF CallInv, Takes, JobRecord, Thread
\* The policy turns to a job and calls the storage for it.
Asks(st, e, op, f, v) == Takes(st, e) /\ Calling(Policy, op, f, v)

LEMMA EvaluatedAsks ==
    ASSUME CallInv, NEW e \in Event, NEW s \in State, NEW scan \in BOOLEAN, Evaluated(e, s, scan)
    PROVE  Asks("hold", e, "Set", e, s) \/ Asks("emit", e, "Set", e, "sent")
  BY SpawningTakes DEF Evaluated, Asks, PolicyJob

LEMMA EvaluatedTakes ==
    ASSUME CallInv, NEW e \in Event, NEW s \in State, NEW scan \in BOOLEAN, Evaluated(e, s, scan)
    PROVE  \E st \in {"hold", "emit"} : Takes(st, e) /\ job'[Policy] = [st |-> st, ev |-> e]
  BY EvaluatedAsks DEF Asks, Takes

\* The answer a job of the policy waited for.
LEMMA PolicyAnswered ==
    ASSUME CallInv, NEW st, Answered(Policy, st)
    PROVE  /\ job[Policy].st = st /\ call[Policy].at = "returned" /\ call[Policy].op = "none"
           /\ call[Policy].val \in State => call[Policy].ev \in Event
           /\ st \notin {"idle", "find", "recover"} => job[Policy].ev \in Event
  BY ThreadFacts DEF CallInv, Answered, Is, Shaped, Serves

LEMMA AsksKeeps ==
    ASSUME CallInv, NEW st \in PolicyJob, NEW e \in Event \cup {None},
           NEW op \in Ops, NEW f \in Event \cup {None}, NEW v \in State \cup {None, Failed},
           Asks(st, e, op, f, v), op \in OpsOf(Policy, st), st # "idle",
           op \in {"ByType", "All"} \/ f \in Event, op = "Set" => v \in State,
           For(st, e, f)
    PROVE  CallInv'
  BY TakesKeeps DEF Asks

\* What the policy does after an answer, or at a reading.
EvaluatedNow(e, s) == Asks("hold", e, "Set", e, s) \/ Asks("emit", e, "Set", e, "sent")

LEMMA EvaluatedKeeps ==
    ASSUME CallInv, NEW e \in Event, NEW s \in State, EvaluatedNow(e, s)
    PROVE  CallInv'
  BY AsksKeeps DEF EvaluatedNow, OpsOf, Ops, PolicyJob, State, For

LEMMA PolicyKeeps ==
    ASSUME CallInv, PolicyStep
    PROVE  CallInv' /\ UNCHANGED <<db, index>>
  <1>1. UNCHANGED <<db, index>>
    BY DEF PolicyStep, ReadDisk, UpdateExisting, NameEvent, CreateEvent, Created, Persisted,
           Recover, Forgotten, Away, redis
  <1>2. CASE ReadDisk
    <2>1. PICK st \in {"recover", "find"} : Job(Policy, st, None)
      BY <1>2 DEF ReadDisk
    <2>2. Asks(st, None, "ByType", None, None)
      BY <1>2, <2>1, JobTakes DEF ReadDisk, Asks, PolicyJob
    <2> QED BY <1>1, <2>2, AsksKeeps DEF OpsOf, Ops, PolicyJob, For
  <1>3. CASE UpdateExisting
    <2>1. call[Policy].ev \in Event /\ call[Policy].val \in State
      BY <1>3, PolicyAnswered DEF UpdateExisting, Answer
    <2>2. EvaluatedNow(call[Policy].ev, call[Policy].val)
      BY <1>3, <2>1, EvaluatedAsks DEF UpdateExisting, Answer, EvaluatedNow
    <2> QED BY <1>1, <2>1, <2>2, EvaluatedKeeps
  <1>4. CASE NameEvent
    <2>1. PICK e \in Event : Job(Policy, "name", e) /\ Calling(Policy, "Exists", e, None)
      BY <1>4 DEF NameEvent
    <2>2. Asks("name", e, "Exists", e, None)
      BY <2>1, JobTakes DEF Asks, PolicyJob
    <2> QED BY <1>1, <2>2, AsksKeeps DEF OpsOf, Ops, PolicyJob, For
  <1>5. CASE CreateEvent
    <2>1. job[Policy].ev \in Event
      BY <1>5, PolicyAnswered DEF CreateEvent
    <2>2. CASE Job(Policy, "create", job[Policy].ev)
               /\ Calling(Policy, "Set", job[Policy].ev, "unsent")
      <3>1. Asks("create", job[Policy].ev, "Set", job[Policy].ev, "unsent")
        BY <2>1, <2>2, JobTakes DEF Asks, PolicyJob
      <3> QED BY <1>1, <2>1, <3>1, AsksKeeps DEF OpsOf, Ops, PolicyJob, For, State
    <2>3. CASE Evaluated(job[Policy].ev, "unsent", TRUE)
      <3>1. EvaluatedNow(job[Policy].ev, "unsent")
        BY <2>1, <2>3, EvaluatedAsks DEF EvaluatedNow, State
      <3> QED BY <1>1, <2>1, <3>1, EvaluatedKeeps DEF State
    <2> QED BY <1>5, <2>2, <2>3 DEF CreateEvent, Subject
  <1>6. CASE Created
    <2>1. job[Policy].ev \in Event
      BY <1>6, PolicyAnswered DEF Created
    <2>2. CASE Done(Policy)
      BY <1>1, <2>2, DoneTurns, ThreadFacts
    <2>3. CASE Evaluated(job[Policy].ev, "unsent", TRUE)
      <3>1. EvaluatedNow(job[Policy].ev, "unsent")
        BY <2>1, <2>3, EvaluatedAsks DEF EvaluatedNow, State
      <3> QED BY <1>1, <2>1, <3>1, EvaluatedKeeps DEF State
    <2> QED BY <1>6, <2>2, <2>3 DEF Created, Subject
  <1>7. CASE Persisted \/ Forgotten
    BY <1>1, <1>7, DoneTurns, ThreadFacts DEF Persisted, Forgotten
  <1>8. CASE Recover
    <2>1. CASE Done(Policy)
      BY <1>1, <2>1, DoneTurns, ThreadFacts
    <2>2. CASE /\ Answer(Policy) \in State
               /\ Job(Policy, "forget", call[Policy].ev)
               /\ Calling(Policy, "Delete", call[Policy].ev, None)
      <3>1. call[Policy].ev \in Event
        BY <1>8, <2>2, PolicyAnswered DEF Recover, Answer
      <3>2. Asks("forget", call[Policy].ev, "Delete", call[Policy].ev, None)
        BY <2>2, <3>1, JobTakes DEF Asks, PolicyJob
      <3> QED BY <1>1, <3>1, <3>2, AsksKeeps DEF OpsOf, Ops, PolicyJob, For
    <2> QED BY <1>8, <2>1, <2>2 DEF Recover
  <1> QED BY <1>2, <1>3, <1>4, <1>5, <1>6, <1>7, <1>8 DEF PolicyStep
\* A scan turns to j and calls op for its event.
LEMMA ScanKeeps ==
    ASSUME CallInv, NEW t \in Other, NEW st \in {"read", "write"}, NEW e \in Event,
           NEW op \in OpsOf(t, st), NEW v \in State \cup {None}, op = "Set" => v \in State,
           Job(t, st, e), Calling(t, op, e, v)
    PROVE  CallInv'
  <1>1. op \in Ops /\ op \in {"Get", "Set"} /\ t \in Thread /\ t # Policy
    BY ThreadFacts DEF OpsOf, Ops
  <1>2. PICK c : /\ Becomes(t, c) /\ c.at = "lock" /\ c.then = First(op)
                 /\ c.op = op /\ c.ev = e /\ c.val = v /\ c.ids = {}
    BY <1>1, CallingBecomes
  <1> DEFINE j == [st |-> st, ev |-> e]
  <1>3. j \in JobRecord /\ j.st = st /\ j.ev = e /\ Turns(t, j)
    BY DEF JobRecord, OtherJob, Job, Turns
  <1> HIDE DEF j
  <1>4. /\ Due(c) = First(op) /\ First(op) \in CommandsOf(op)
        /\ First(op) \notin {"sadd", "del", "srem"}
    BY <1>1, <1>2 DEF Due, Waits, First, CommandsOf
  <1>5. Shaped(c)
    BY <1>1, <1>2, <1>4 DEF Shaped, Ops
  <1>6. Serves(t, j, c)
    BY <1>1, <1>2, <1>3 DEF Serves, OtherJob
  <1> QED BY <1>1, <1>2, <1>3, <1>5, <1>6, TurnsKeeps

\* A scan that ends, one that goes on, and a reader that asks.
OtherStep(t) == Scanned(t) \/ UpdateAlertState(t) \/ Updated(t) \/ Ask(t)

LEMMA OtherKeeps ==
    ASSUME CallInv, NEW t \in Other, OtherStep(t)
    PROVE  CallInv' /\ UNCHANGED <<db, index>>
  <1>1. UNCHANGED <<db, index>>
    BY DEF OtherStep, Scanned, UpdateAlertState, Updated, Ask, Away, redis
  <1>2. t \in Thread /\ t # Policy /\ Shaped(call[t]) /\ Serves(t, job[t], call[t])
    BY ThreadFacts DEF CallInv
  <1>3. CASE Done(t)
    BY <1>1, <1>2, <1>3, DoneTurns
  <1>4. CASE /\ job[t].st = "scan" /\ Job(t, "read", job[t].ev)
             /\ Calling(t, "Get", job[t].ev, None)
    <2>1. job[t].ev \in Event /\ "Get" \in OpsOf(t, "read")
      BY <1>2, <1>4 DEF Serves, OpsOf
    <2> QED BY <1>1, <1>4, <2>1, ScanKeeps
  <1>5. CASE /\ job[t].st = "read" /\ Answer(t) \in State
             /\ Job(t, "write", job[t].ev) /\ Calling(t, "Set", job[t].ev, Answer(t))
    <2>1. job[t].ev \in Event /\ "Set" \in OpsOf(t, "write")
      BY <1>2, <1>5 DEF Serves, OpsOf
    <2> QED BY <1>1, <1>5, <2>1, ScanKeeps
  <1>6. CASE Ask(t)
    <2>1. job[t].st = "idle" /\ UNCHANGED job
      BY <1>6 DEF Ask, Is
    <2>2. PICK op \in ReaderOps : \E e \in (IF op \in {"Get", "Exists"} THEN Event ELSE {None}) :
                                      Calling(t, op, e, None)
      BY <1>6 DEF Ask
    <2>3. PICK e \in (IF op \in {"Get", "Exists"} THEN Event ELSE {None}) : Calling(t, op, e, None)
      BY <2>2
    <2>4. op \in {"ByType", "All", "Get", "Exists"} /\ op \in Ops /\ e \in Event \cup {None}
      BY StorageConstants DEF Ops
    <2>5. PICK c : /\ Becomes(t, c) /\ c.at = "lock" /\ c.then = First(op)
                   /\ c.op = op /\ c.ev = e /\ c.val = None /\ c.ids = {}
      BY <1>2, <2>3, <2>4, CallingBecomes
    <2>6. /\ Due(c) = First(op) /\ First(op) \in CommandsOf(op)
          /\ First(op) = "members" <=> op \in {"ByType", "All"}
          /\ First(op) \notin {"sadd", "del", "srem"}
      BY <2>4, <2>5 DEF Due, Waits, First, CommandsOf
    <2>7. Shaped(c)
      BY <2>3, <2>4, <2>5, <2>6 DEF Shaped
    <2>8. op \in OpsOf(t, "idle")
      BY <1>2 DEF OpsOf
    <2>9. Serves(t, job[t], c)
      BY <1>2, <2>1, <2>4, <2>5, <2>8 DEF Serves
    <2> QED BY <1>1, <1>2, <2>1, <2>5, <2>7, <2>9, CallChanges
  <1> QED BY <1>3, <1>4, <1>5, <1>6
          DEF OtherStep, Scanned, UpdateAlertState, Updated, Answered, Is, Subject

-----------------------------------------------------------------------------
(* TypeOK: the calls and Redis, and who holds the mutex.                    *)

MutexInv ==
    /\ client \in {"nil", "open"} /\ mutex \in Thread \cup {None}
    /\ \A t \in Thread : mutex = t <=> call[t].at \in {"dial", "verify"}

HistoryInv ==
    /\ process \in {"runs", "closed", "gone"} /\ panicked \in {None, "runs", "closed"}
    /\ lastAlert \subseteq used /\ open \cup alerted \subseteq used
    /\ used \subseteq Event /\ dropped \subseteq used
    /\ revived \in BOOLEAN /\ overwritten \subseteq used
    /\ reachable \in BOOLEAN /\ outages \in Nat /\ crashes \in Nat
    /\ outages + crashes <= MaxFaults

\* Everything in Redis has an id that was given out, and so has what a
\* goroutine works on.
UsedInv ==
    /\ \A e \in Event : db[e] # None => e \in used
    /\ \A t \in Thread : job[t].ev # None => job[t].ev \in used
    /\ call[Policy].at = "returned" /\ call[Policy].val \in State => call[Policy].ev \in used

TypeInv == CallInv /\ RedisInv /\ MutexInv /\ HistoryInv /\ UsedInv
LEMMA ReturnLeaves ==
    ASSUME CallInv, NEW t \in Thread, NEW v \in State \cup {None, Failed}, Return(t, v)
    PROVE  \E c : Becomes(t, c) /\ c.at \in {"none", "returned"}
  BY ReturnBecomes, NoCallFacts

LEMMA NextIdLeaves ==
    ASSUME CallInv, NEW t \in Thread, NEW ids \in SUBSET Event, NextId(t, ids)
    PROVE  \E c : Becomes(t, c) /\ c.at \in {"none", "returned", "lock"}
  BY NextIdBecomes, ReturnLeaves, NoneAndFailedAreNoStates

LEMMA GotLeaves ==
    ASSUME CallInv, NEW t \in Thread, NEW s \in State \cup {None, Failed}, Got(t, s),
           call[t].at \in Commands \cup Waits, Due(call[t]) = "get"
    PROVE  \E c : Becomes(t, c) /\ c.at \in {"none", "returned", "lock", "del"}
  BY GotBecomes, ReturnLeaves, NextIdLeaves, UnderWay

LEMMA ConnectedLeaves ==
    ASSUME CallInv, NEW t \in Thread, Connected(t), call[t].at \in Waits
    PROVE  \E c : Becomes(t, c) /\ c.at \in Commands \cup {"lock"}
  BY ConnectedBecomes, UnderWay, CommandsOfFacts DEF Due

\* A command whose call goes on with another step, or ends.
LEMMA CommandLeaves ==
    ASSUME CallInv, RedisInv, NEW t \in Thread,
           Read(t) \/ Set(t) \/ AddIndexes(t) \/ Del(t) \/ RemoveIndexes(t)
    PROVE  /\ call[t].at \in Commands /\ client = "open" /\ UNCHANGED link
           /\ \E c : Becomes(t, c) /\ c.at \in Commands \cup {"none", "returned", "lock"}
  <1>1. call[t].at \in Commands /\ client = "open" /\ UNCHANGED link
    BY DEF Read, Set, AddIndexes, Del, RemoveIndexes, Usable, At, Commands
  <1>2. CASE \E v \in {None, Failed} : Return(t, v)
    BY <1>1, <1>2, ReturnLeaves
  <1>3. CASE Goto(t, "sadd") \/ Goto(t, "srem")
    <2>1. PICK at \in {"sadd", "srem"} : Goto(t, at)
      BY <1>3
    <2>2. at \in Commands
      BY DEF Commands
    <2> QED BY <1>1, <2>1, <2>2, GotoBecomes
  <1>4. CASE Read(t)
    <2>1. CASE call[t].at = "get" /\ Got(t, IF reachable THEN db[call[t].ev] ELSE Failed)
      <3>1. Due(call[t]) = "get"
        BY <2>1 DEF Due, Waits
      <3>2. (IF reachable THEN db[call[t].ev] ELSE Failed) \in State \cup {None, Failed}
        BY <1>1, <3>1, UnderWay DEF RedisInv
      <3>3. "del" \in Commands
        BY DEF Commands
      <3> QED BY <1>1, <2>1, <3>1, <3>2, <3>3, GotLeaves
    <2>2. CASE NextId(t, index)
      BY <1>1, <2>2, NextIdLeaves DEF RedisInv
    <2> QED BY <1>2, <1>4, <2>1, <2>2 DEF Read, Usable, At
  <1> QED BY <1>1, <1>2, <1>3, <1>4 DEF Set, AddIndexes, Del, RemoveIndexes

LEMMA StorageKeepsLink ==
    ASSUME TypeInv, LinkInv, NEW t \in Thread, Storage(t)
    PROVE  MutexInv' /\ LinkInv'
  <1>1. UNCHANGED <<process, reachable, outages>> /\ CallInv /\ RedisInv /\ MutexInv
    BY DEF Storage, Lock, Dial, Verify, Read, Set, AddIndexes, Del, RemoveIndexes, Rest, faults, TypeInv
  \* t goes on with c, and the link to Redis with what it leaves.
  <1>2. ASSUME NEW c, Becomes(t, c), client' \in {"nil", "open"},
               \/ mutex \in {None, t} /\ mutex' = t /\ c.at \in {"dial", "verify"}
               \/ mutex = t /\ mutex' = None /\ c.at \notin {"dial", "verify"}
               \/ mutex # t /\ mutex' = mutex /\ c.at \notin {"dial", "verify"},
               Calm /\ process = "runs" =>
                   /\ client = "open" => client' = "open"
                   /\ c.at \in Commands \cup {"verify"} => client' = "open"
        PROVE  MutexInv' /\ LinkInv'
    <2>1. /\ call' \in [Thread -> CallRecord] /\ call'[t] = c
          /\ \A u \in Thread \ {t} : call'[u] = call[u]
      BY <1>1, <1>2, BecomesFacts
    <2>2. MutexInv'
      BY <1>1, <1>2, <2>1, ThreadFacts DEF MutexInv
    <2>3. LinkInv'
      BY <1>1, <1>2, <2>1 DEF LinkInv, Calm
    <2> QED BY <2>2, <2>3
  <1>3. CASE Lock(t)
    <2>1. call[t].at = "lock" /\ call[t].at \in Waits /\ mutex = None /\ mutex # t
      BY <1>3, ThreadFacts DEF Lock, At, Waits
    <2>2. CASE client = "open" /\ Connected(t) /\ UNCHANGED link
      <3>1. PICK c : Becomes(t, c) /\ c.at \in Commands \cup {"lock"}
        BY <1>1, <2>1, <2>2, ConnectedLeaves
      <3>2. c.at \notin {"dial", "verify"}
        BY <3>1 DEF Commands
      <3> QED BY <1>2, <2>1, <2>2, <3>1, <3>2 DEF link
    <2>3. CASE ~reachable /\ client' = "nil" /\ mutex' = t /\ Goto(t, "dial")
      <3>1. PICK c : Becomes(t, c) /\ c.at = "dial"
        BY <1>1, <2>3, GotoBecomes DEF Waits
      <3> QED BY <1>2, <2>1, <2>3, <3>1 DEF LinkInv
    <2>4. CASE client' = "open" /\ mutex' = t /\ Goto(t, "verify")
      <3>1. PICK c : Becomes(t, c) /\ c.at = "verify"
        BY <1>1, <2>4, GotoBecomes DEF Waits
      <3> QED BY <1>2, <2>1, <2>4, <3>1
    <2> QED BY <1>3, <2>2, <2>3, <2>4 DEF Lock
  <1>4. CASE Dial(t)
    <2>1. call[t].at = "dial" /\ mutex = t
      BY <1>1, <1>4 DEF Dial, At, MutexInv
    <2>2. client' = "open" /\ mutex' = mutex
      BY <1>4 DEF Dial
    <2>3. PICK c : Becomes(t, c) /\ c.at = "verify"
      BY <1>1, <1>4, GotoBecomes DEF Dial, Waits
    <2> QED BY <1>2, <2>1, <2>2, <2>3
  <1>5. CASE Verify(t)
    <2>1. call[t].at = "verify" /\ call[t].at \in Waits /\ mutex = t /\ mutex' = None
      BY <1>1, <1>5 DEF Verify, At, MutexInv, Waits
    <2>2. CASE Connected(t) /\ UNCHANGED client
      <3>1. PICK c : Becomes(t, c) /\ c.at \in Commands \cup {"lock"}
        BY <1>1, <2>1, <2>2, ConnectedLeaves
      <3>2. c.at \notin {"dial", "verify"}
        BY <3>1 DEF Commands
      <3>3. Calm /\ process = "runs" => client' = "open"
        BY <2>1, <2>2 DEF LinkInv
      <3>4. client' \in {"nil", "open"}
        BY <1>1, <2>2 DEF MutexInv
      <3> QED BY <1>2, <2>1, <3>1, <3>2, <3>3, <3>4
    <2>3. CASE ~reachable /\ client' = "nil" /\ Unavailable(t)
      <3>1. PICK c : Becomes(t, c) /\ c.at \in {"none", "returned", "lock", "del"}
        BY <1>1, <2>1, <2>3, GotLeaves, ReturnLeaves DEF Unavailable, Due
      <3> QED BY <1>2, <2>1, <2>3, <3>1 DEF LinkInv
    <2> QED BY <1>5, <2>2, <2>3 DEF Verify
  <1>6. CASE Read(t) \/ Set(t) \/ AddIndexes(t) \/ Del(t) \/ RemoveIndexes(t)
    <2>1. /\ call[t].at \in Commands /\ client = "open" /\ UNCHANGED link
          /\ \E c : Becomes(t, c) /\ c.at \in Commands \cup {"none", "returned", "lock"}
      BY <1>1, <1>6, CommandLeaves
    <2>2. PICK c : Becomes(t, c) /\ c.at \in Commands \cup {"none", "returned", "lock"}
      BY <2>1
    <2>3. c.at \notin {"dial", "verify"} /\ mutex # t
      BY <1>1, <2>1, <2>2 DEF Commands, MutexInv
    <2> QED BY <1>2, <2>1, <2>2, <2>3 DEF link
  <1> QED BY <1>3, <1>4, <1>5, <1>6 DEF Storage
\* A step of a call changes that call only.
LEMMA StorageBecomes ==
    ASSUME CallInv, RedisInv, NEW t \in Thread, Storage(t)
    PROVE  \E c : Becomes(t, c)
  <1>1. CASE Lock(t) \/ Dial(t)
    <2>1. call[t].at \in Waits /\ (Connected(t) \/ Goto(t, "dial") \/ Goto(t, "verify"))
      BY <1>1 DEF Lock, Dial, At, Waits
    <2> QED BY <2>1, ConnectedLeaves, GotoBecomes DEF Waits
  <1>2. CASE Verify(t)
    BY <1>2, ConnectedLeaves, GotLeaves, ReturnLeaves DEF Verify, At, Waits, Unavailable, Due
  <1> QED BY <1>1, <1>2, CommandLeaves DEF Storage

\* An answer of a state is what a lookup has read.
LEMMA AnswerIsRead ==
    ASSUME TypeInv, NEW t \in Thread, Storage(t), call'[Policy].at = "returned",
           call'[Policy].val \in State
    PROVE  \/ call'[Policy] = call[Policy]
           \/ /\ t = Policy /\ call[Policy].at = "get" /\ call'[Policy].ev = call[Policy].ev
              /\ call[Policy].ev \in Event /\ db[call[Policy].ev] = call'[Policy].val
              /\ UNCHANGED <<db, index>>
  <1> DEFINE Reads == /\ t = Policy /\ call[Policy].at = "get" /\ call'[Policy].ev = call[Policy].ev
                      /\ call[Policy].ev \in Event /\ db[call[Policy].ev] = call'[Policy].val
                      /\ UNCHANGED <<db, index>>
  <1>1. CallInv /\ RedisInv
    BY DEF TypeInv
  <1>2. ASSUME t = Policy, NEW v \in State \cup {None, Failed}, Return(t, v)
        PROVE  v \in State /\ call'[Policy].ev = call[Policy].ev /\ call'[Policy].val = v
    <2>1. PICK c : /\ Becomes(t, c)
                   /\ \/ job[t].st = "idle" /\ c = NoCall
                      \/ /\ job[t].st # "idle" /\ c.at = "returned" /\ c.op = "none" /\ c.val = v
                         /\ c.ev = IF v \in State THEN call[t].ev ELSE None
      BY <1>1, <1>2, ReturnBecomes
    <2>2. call'[Policy] = c
      BY <1>1, <1>2, <2>1, BecomesFacts
    <2>3. c.val \in State
      BY <2>2
    <2> QED BY <1>2, <2>1, <2>2, <2>3, NoCallFacts
  <1>3. ASSUME t = Policy, NEW c, Becomes(t, c), c.at # "returned"
        PROVE  FALSE
    BY <1>1, <1>3, BecomesFacts
  <1>4. ASSUME t = Policy, \E v \in {None, Failed} : Return(t, v)
        PROVE  FALSE
    BY <1>2, <1>4, NoneAndFailedAreNoStates
  <1>5. ASSUME t = Policy, NEW ids \in SUBSET Event, NextId(t, ids)
        PROVE  FALSE
    BY <1>1, <1>3, <1>4, <1>5, NextIdBecomes
  <1>6. ASSUME t = Policy, NEW s \in State \cup {None, Failed}, Got(t, s), Due(call[t]) = "get",
               call[t].at \in Commands \cup Waits
        PROVE  s \in State /\ call'[Policy].ev = call[Policy].ev /\ call'[Policy].val = s
    BY <1>1, <1>2, <1>3, <1>5, <1>6, GotBecomes, UnderWay
  <1>7. CASE t = Policy
    <2>1. CASE Lock(t) \/ Dial(t)
      <3>1. call[t].at \in Waits /\ (Connected(t) \/ Goto(t, "dial") \/ Goto(t, "verify"))
        BY <2>1 DEF Lock, Dial, At, Waits
      <3>2. \E c : Becomes(t, c) /\ c.at # "returned"
        BY <1>1, <3>1, ConnectedLeaves, GotoBecomes DEF Commands, Waits
      <3> QED BY <1>3, <1>7, <3>2
    <2>2. CASE Verify(t)
      <3>1. call[t].at \in Waits /\ (Connected(t) \/ Unavailable(t))
        BY <2>2 DEF Verify, At, Waits
      <3>2. CASE Connected(t)
        <4>1. \E c : Becomes(t, c) /\ c.at # "returned"
          BY <1>1, <3>1, <3>2, ConnectedLeaves DEF Commands
        <4> QED BY <1>3, <1>7, <4>1
      <3> QED BY <1>4, <1>6, <1>7, <3>1, <3>2, NoneAndFailedAreNoStates DEF Unavailable, Due
    <2>3. CASE Read(t)
      <3>1. CASE call[t].at = "get" /\ Got(t, IF reachable THEN db[call[t].ev] ELSE Failed)
        <4> DEFINE s == IF reachable THEN db[call[t].ev] ELSE Failed
        <4>1. Due(call[t]) = "get" /\ call[t].at \in Commands
          BY <3>1 DEF Due, Waits, Commands
        <4>2. call[t].ev \in Event
          BY <1>1, <4>1, UnderWay
        <4>3. s \in State \cup {None, Failed} /\ (s \in State => db[call[t].ev] = s)
          BY <1>1, <4>2, NoneAndFailedAreNoStates DEF RedisInv
        <4>4. Got(t, s) /\ UNCHANGED <<db, index>>
          BY <2>3, <3>1 DEF Read, redis
        <4> HIDE DEF s
        <4>5. s \in State /\ call'[Policy].ev = call[Policy].ev /\ call'[Policy].val = s
          BY <1>6, <1>7, <4>1, <4>3, <4>4
        <4> QED BY <1>7, <3>1, <4>2, <4>3, <4>4, <4>5
      <3>2. CASE \E v \in {None, Failed} : Return(t, v)
        BY <1>4, <1>7, <3>2
      <3> QED BY <1>1, <1>5, <1>7, <2>3, <3>1, <3>2 DEF Read, Usable, At, RedisInv
    <2>4. CASE Set(t) \/ AddIndexes(t) \/ Del(t) \/ RemoveIndexes(t)
      <3>1. CASE Goto(t, "sadd") \/ Goto(t, "srem")
        <4>1. \E c : Becomes(t, c) /\ c.at # "returned"
          BY <1>1, <3>1, GotoBecomes DEF Commands
        <4> QED BY <1>3, <1>7, <4>1
      <3>2. CASE \E v \in {None, Failed} : Return(t, v)
        BY <1>4, <1>7, <3>2
      <3> QED BY <2>4, <3>1, <3>2 DEF Set, AddIndexes, Del, RemoveIndexes
    <2> QED BY <2>1, <2>2, <2>3, <2>4 DEF Storage
  <1>8. CASE t # Policy
    BY <1>1, <1>8, StorageBecomes, BecomesFacts, ThreadFacts
  <1> QED BY <1>7, <1>8

LEMMA StorageKeepsTypes ==
    ASSUME TypeInv, LinkInv, NEW t \in Thread, Storage(t)
    PROVE  TypeInv' /\ LinkInv' /\ UNCHANGED panicked
  <1>1. /\ UNCHANGED <<lastAlert, process, used, open, told, faults, panicked>>
        /\ CallInv /\ RedisInv /\ UsedInv /\ HistoryInv
    BY DEF Storage, Lock, Dial, Verify, Read, Set, AddIndexes, Del, RemoveIndexes, Rest, TypeInv
  <1>2. CallInv' /\ RedisInv' /\ UNCHANGED job
    BY <1>1, StorageKeeps
  <1>3. ASSUME Set(t)
        PROVE  (\A e \in Event : db'[e] # None => e \in used) /\ HistoryInv'
    <2>1. Due(call[t]) = "set" /\ call[t].at \in Commands /\ call[t].at # "none" /\ call[t].at # "returned"
      BY <1>3 DEF Set, Usable, At, Due, Waits, Commands
    <2>2. call[t].ev \in Event /\ call[t].op = "Set" /\ call[t].op \in OpsOf(t, job[t].st)
      BY <1>1, <2>1, UnderWay, CommandsOfFacts
    <2>3. job[t].st \notin {"idle", "find", "recover", "scan"} /\ Serves(t, job[t], call[t])
      BY <1>1, <2>2, StorageConstants DEF OpsOf, CallInv
    <2>4. call[t].ev \in used
      BY <1>1, <2>2, <2>3, NoneAndFailedAreNoStates, StorageConstants DEF Serves, UsedInv
    <2>5. \A e \in Event : db'[e] # None => e \in used
      BY <1>1, <1>3, <2>4 DEF Set, UsedInv, RedisInv
    <2>6. revived' \in BOOLEAN /\ overwritten' \subseteq used
      BY <1>1, <1>3, <2>4 DEF Set, HistoryInv, scanned
    <2> QED BY <1>1, <2>5, <2>6 DEF HistoryInv, told, faults
  <1>4. ASSUME ~Set(t)
        PROVE  (\A e \in Event : db'[e] # None => e \in used) /\ HistoryInv'
    <2>1. UNCHANGED scanned
      BY <1>4 DEF Storage, Lock, Dial, Verify, Read, AddIndexes, Del, RemoveIndexes
    <2>2. \A e \in Event : db'[e] # None => db[e] # None
      BY <1>1, <1>4 DEF Storage, Lock, Dial, Verify, Read, AddIndexes, Del, RemoveIndexes, redis, RedisInv
    <2> QED BY <1>1, <2>1, <2>2 DEF HistoryInv, UsedInv, told, faults, scanned
  <1>5. (\A e \in Event : db'[e] # None => e \in used) /\ HistoryInv'
    BY <1>1, <1>3, <1>4 DEF UsedInv
  <1>6. ASSUME call'[Policy].at = "returned", call'[Policy].val \in State
        PROVE  call'[Policy].ev \in used
    BY <1>1, <1>6, AnswerIsRead, NoneAndFailedAreNoStates DEF UsedInv
  <1>7. UsedInv'
    BY <1>1, <1>2, <1>5, <1>6 DEF UsedInv
  <1> QED BY <1>1, <1>2, <1>5, <1>7, StorageKeepsLink DEF TypeInv
\* Outside of a call, t starts one or forgets its answer.
Quiet(t) ==
    /\ call[t].at \notin {"dial", "verify"}
    /\ \E c : call' = [call EXCEPT ![t] = c] /\ c.at \in {"lock", "none"}

LEMMA QuietKeepsLink ==
    ASSUME TypeInv, LinkInv, NEW t \in Thread, Quiet(t), UNCHANGED <<link, process, faults>>
    PROVE  MutexInv' /\ LinkInv'
  <1>1. PICK c : call' = [call EXCEPT ![t] = c] /\ c.at \in {"lock", "none"}
    BY DEF Quiet
  <1>2. call'[t] = c /\ \A u \in Thread \ {t} : call'[u] = call[u]
    BY <1>1 DEF TypeInv, CallInv
  <1>3. c.at \notin {"dial", "verify"} /\ c.at \notin Commands
    BY <1>1 DEF Commands
  <1>4. MutexInv'
    BY <1>2, <1>3 DEF Quiet, TypeInv, MutexInv, link
  <1>5. LinkInv'
    BY <1>2, <1>3 DEF LinkInv, Calm, link, faults
  <1> QED BY <1>4, <1>5

LEMMA DoneOrCalling ==
    ASSUME NEW t, Done(t) \/ \E op, e, v : Calling(t, op, e, v)
    PROVE  \E c : call' = [call EXCEPT ![t] = c] /\ c.at \in {"lock", "none"}
  BY NoCallFacts DEF Done, Calling

LEMMA PolicyIsQuiet ==
    ASSUME CallInv, PolicyStep
    PROVE  Quiet(Policy) /\ call'[Policy].at \in {"lock", "none"}
  <1>1. call[Policy].at \notin {"dial", "verify"}
    <2>1. CASE ReadDisk
      <3>1. job[Policy].st = "idle" /\ call[Policy].op \in OpsOf(Policy, "idle") \cup {"none"}
        BY <2>1, ThreadFacts DEF ReadDisk, Is, CallInv, Serves
      <3>2. call[Policy].op = "none"
        BY <3>1 DEF OpsOf
      <3> QED BY <3>2, ThreadFacts DEF CallInv, Shaped
    <2> QED BY <2>1 DEF PolicyStep, UpdateExisting, NameEvent, CreateEvent,
                        Created, Persisted, Recover, Forgotten, Answered
  <1>2. Done(Policy) \/ \E op, e, v : Calling(Policy, op, e, v)
    BY DEF PolicyStep, ReadDisk, UpdateExisting, NameEvent, CreateEvent,
           Created, Persisted, Recover, Forgotten, Evaluated
  <1>3. PICK c : call' = [call EXCEPT ![Policy] = c] /\ c.at \in {"lock", "none"}
    BY <1>2, DoneOrCalling
  <1> QED BY <1>1, <1>3, ThreadFacts DEF Quiet, CallInv

\* What the policy turns to was given out before, or now.
LEMMA TakesUsed ==
    ASSUME UsedInv, NEW st, NEW e, Takes(st, e), used \subseteq used', e # None => e \in used'
    PROVE  \A t \in Thread : job'[t].ev # None => job'[t].ev \in used'
  BY DEF Takes, UsedInv, Thread

LEMMA DoneUsed ==
    ASSUME UsedInv, CallInv, NEW t \in Thread, Done(t), UNCHANGED used
    PROVE  \A u \in Thread : job'[u].ev # None => job'[u].ev \in used'
  BY IdleFacts, StorageConstants DEF Done, UsedInv, CallInv

LEMMA PolicyKeepsTypes ==
    ASSUME TypeInv, LinkInv, PolicyStep
    PROVE  TypeInv' /\ LinkInv' /\ UNCHANGED panicked
  <1>1. CallInv /\ RedisInv /\ HistoryInv /\ UsedInv
    BY DEF TypeInv
  <1>2. CallInv' /\ RedisInv' /\ UNCHANGED <<db, panicked, scanned, faults, process, link>>
    BY <1>1, PolicyKeeps DEF RedisInv, PolicyStep, ReadDisk, UpdateExisting, NameEvent, CreateEvent,
             Created, Persisted, Recover, Forgotten, Away
  <1>3. MutexInv' /\ LinkInv' /\ call'[Policy].at # "returned"
    BY <1>1, <1>2, PolicyIsQuiet, QuietKeepsLink, ThreadFacts
  <1>4. job[Policy].ev \in Event => job[Policy].ev \in used
    BY <1>1, ThreadFacts, StorageConstants DEF UsedInv
  <1> DEFINE JobsUsed == \A t \in Thread : job'[t].ev # None => job'[t].ev \in used'
             Told == /\ lastAlert' \subseteq used' /\ open' \cup alerted' \subseteq used'
                     /\ used \subseteq used' /\ used' \subseteq Event /\ dropped' \subseteq used'
  <1>5. JobsUsed /\ Told
    <2>1. CASE ReadDisk
      <3>1. PICK st \in {"recover", "find"} : Job(Policy, st, None)
        BY <2>1 DEF ReadDisk
      <3>2. Takes(st, None)
        BY <1>1, <3>1, JobTakes DEF PolicyJob
      <3> QED BY <1>1, <2>1, <3>2, TakesUsed DEF ReadDisk, HistoryInv, told
    <2>2. CASE UpdateExisting
      <3>1. /\ call[Policy].ev \in Event /\ call[Policy].val \in State
            /\ call[Policy].at = "returned"
        BY <1>1, <2>2, PolicyAnswered DEF UpdateExisting, Answer
      <3>2. \E st : Takes(st, call[Policy].ev)
        BY <1>1, <2>2, <3>1, EvaluatedAsks DEF UpdateExisting, Answer, Asks
      <3>3. call[Policy].ev \in used
        BY <1>1, <3>1 DEF UsedInv
      <3> QED BY <1>1, <2>2, <3>2, <3>3, TakesUsed DEF UpdateExisting, HistoryInv, told
    <2>3. CASE NameEvent
      <3>1. PICK e \in Event : used' = used \cup {e} /\ Job(Policy, "name", e)
        BY <2>3 DEF NameEvent
      <3>2. Takes("name", e)
        BY <1>1, <3>1, JobTakes DEF PolicyJob
      <3> QED BY <1>1, <2>3, <3>1, <3>2, TakesUsed DEF NameEvent, HistoryInv, told
    <2>4. CASE CreateEvent
      <3>1. job[Policy].ev \in Event
        BY <1>1, <2>4, PolicyAnswered DEF CreateEvent
      <3>2. \E st : Takes(st, job[Policy].ev)
        BY <1>1, <2>4, <3>1, JobTakes, EvaluatedAsks DEF CreateEvent, Subject, Asks, PolicyJob, State
      <3> QED BY <1>1, <1>4, <2>4, <3>1, <3>2, TakesUsed DEF CreateEvent, HistoryInv, told
    <2>5. CASE Created
      <3>1. job[Policy].ev \in Event
        BY <1>1, <2>5, PolicyAnswered DEF Created
      <3>2. UNCHANGED <<used, lastAlert, told>> /\ open' \subseteq open \cup {job[Policy].ev}
        BY <2>5 DEF Created, Subject
      <3>3. Done(Policy) \/ \E st : Takes(st, job[Policy].ev)
        BY <1>1, <2>5, <3>1, EvaluatedAsks DEF Created, Subject, Asks, State
      <3>4. JobsUsed
        BY <1>1, <1>4, <3>1, <3>2, <3>3, TakesUsed, DoneUsed, ThreadFacts
      <3> QED BY <1>1, <1>4, <3>1, <3>2, <3>4 DEF HistoryInv, told
    <2>6. CASE Persisted
      <3>1. Answered(Policy, "hold") \/ Answered(Policy, "emit")
        BY <2>6 DEF Persisted
      <3>2. job[Policy].ev \in used
        BY <1>1, <1>4, <3>1, PolicyAnswered
      <3> QED BY <1>1, <2>6, <3>2, DoneUsed, ThreadFacts DEF Persisted, Subject, HistoryInv
    <2>7. CASE Recover
      <3>1. CASE Done(Policy) /\ UNCHANGED <<open, told>>
        BY <1>1, <2>7, <3>1, DoneUsed, ThreadFacts DEF Recover, HistoryInv, told
      <3>2. CASE /\ Answer(Policy) \in State
                 /\ dropped' \subseteq dropped \cup ({call[Policy].ev} \cap alerted)
                 /\ alerted' \subseteq alerted /\ open' \subseteq open
                 /\ Job(Policy, "forget", call[Policy].ev)
        <4>1. call[Policy].ev \in Event /\ call[Policy].at = "returned" /\ call[Policy].val \in State
          BY <1>1, <2>7, <3>2, PolicyAnswered DEF Recover, Answer
        <4>2. call[Policy].ev \in used
          BY <1>1, <4>1 DEF UsedInv
        <4>3. Takes("forget", call[Policy].ev)
          BY <1>1, <3>2, <4>1, JobTakes DEF PolicyJob
        <4> QED BY <1>1, <2>7, <3>2, <4>2, <4>3, TakesUsed DEF Recover, HistoryInv
      <3> QED BY <2>7, <3>1, <3>2 DEF Recover
    <2>8. CASE Forgotten
      BY <1>1, <2>8, DoneUsed, ThreadFacts DEF Forgotten, HistoryInv, told
    <2> QED BY <2>1, <2>2, <2>3, <2>4, <2>5, <2>6, <2>7, <2>8 DEF PolicyStep
  <1>6. HistoryInv' /\ UsedInv'
    BY <1>1, <1>2, <1>3, <1>5 DEF HistoryInv, UsedInv, scanned, faults
  <1> QED BY <1>2, <1>3, <1>6 DEF TypeInv
LEMMA OtherIsQuiet ==
    ASSUME CallInv, NEW t \in Other, OtherStep(t)
    PROVE  /\ Quiet(t) /\ \A u \in Thread \ {t} : job'[u] = job[u] /\ call'[u] = call[u]
           /\ job'[t].ev \in {job[t].ev, None} /\ (job'[t] = job[t] \/ job'[t].st # "scan")
  <1>1. t \in Thread /\ t # Policy /\ Shaped(call[t]) /\ Serves(t, job[t], call[t])
    BY ThreadFacts DEF CallInv
  <1>2. call[t].at \notin {"dial", "verify"}
    <2>1. CASE job[t].st = "scan"
      BY <1>1, <2>1 DEF Serves, OpsOf, Shaped
    <2> QED BY <2>1 DEF OtherStep, Scanned, UpdateAlertState, Updated, Ask, Answered, Is, At
  <1>3. Done(t) \/ \E op, e, v : Calling(t, op, e, v)
    BY DEF OtherStep, Scanned, UpdateAlertState, Updated, Ask
  <1>4. PICK c : call' = [call EXCEPT ![t] = c] /\ c.at \in {"lock", "none"}
    BY <1>3, DoneOrCalling
  <1>5. Done(t) \/ Job(t, "read", Subject(t)) \/ Job(t, "write", Subject(t)) \/ UNCHANGED job
    BY DEF OtherStep, Scanned, UpdateAlertState, Updated, Ask
  <1>6. /\ \A u \in Thread \ {t} : job'[u] = job[u]
        /\ job'[t].ev \in {job[t].ev, None} /\ (job'[t] = job[t] \/ job'[t].st # "scan")
    BY <1>1, <1>5, IdleFacts DEF Done, Job, Subject, CallInv
  <1> QED BY <1>1, <1>2, <1>4, <1>6 DEF Quiet, CallInv

LEMMA OtherKeepsTypes ==
    ASSUME TypeInv, LinkInv, NEW t \in Other, OtherStep(t)
    PROVE  TypeInv' /\ LinkInv' /\ UNCHANGED panicked
  <1>1. /\ UNCHANGED <<lastAlert, process, used, open, told, link, panicked, scanned, faults>>
        /\ CallInv /\ RedisInv /\ UsedInv /\ HistoryInv /\ t \in Thread /\ t # Policy
    BY ThreadFacts DEF OtherStep, Scanned, UpdateAlertState, Updated, Ask, Away, TypeInv
  <1>2. CallInv' /\ RedisInv' /\ UNCHANGED db
    BY <1>1, OtherKeeps DEF RedisInv
  <1>3. MutexInv' /\ LinkInv'
    BY <1>1, OtherIsQuiet, QuietKeepsLink
  <1>4. UsedInv' /\ HistoryInv'
    BY <1>1, <1>2, OtherIsQuiet, ThreadFacts DEF UsedInv, HistoryInv, told, scanned, faults
  <1> QED BY <1>1, <1>2, <1>3, <1>4 DEF TypeInv

\* The end of the process, and the environment.
LEMMA FreshKeeps ==
    ASSUME Fresh
    PROVE  /\ CallInv' /\ MutexInv'
           /\ \A t \in Thread : job'[t] = Idle /\ call'[t] = NoCall
  <1>1. \A t \in Thread : Shaped(NoCall) /\ Serves(t, Idle, NoCall)
    BY NoCallFacts, IdleFacts DEF Shaped, Serves, PolicyJob, OtherJob
  <1>2. /\ call' = [t \in Thread |-> NoCall] /\ job' = [t \in Thread |-> Idle]
        /\ client' = "nil" /\ mutex' = None
    BY DEF Fresh
  <1>3. CallInv'
    BY <1>1, <1>2, NoCallFacts, IdleFacts DEF CallInv, JobRecord
  <1>4. MutexInv'
    BY <1>2, NoCallFacts, ThreadFacts DEF MutexInv
  <1> QED BY <1>2, <1>3, <1>4

LEMMA RestKeepsTypes ==
    ASSUME TypeInv, LinkInv, Close \/ Exit \/ Outage \/ Back \/ Restart \/ Over
    PROVE  TypeInv' /\ LinkInv' /\ UNCHANGED panicked
  <1>1. CallInv /\ RedisInv /\ MutexInv /\ HistoryInv /\ UsedInv /\ MaxFaults \in Nat
    BY StorageConstants DEF TypeInv
  <1>2. CASE Close \/ Exit
    BY <1>1, <1>2, ThreadFacts
       DEF Close, Exit, TypeInv, CallInv, RedisInv, MutexInv, HistoryInv, UsedInv, LinkInv, Calm,
           redis, link, told, scanned, faults, Is
  <1>3. CASE Outage \/ Back
    <2>1. UNCHANGED <<db, index, client, mutex, call, job, lastAlert, process, used, open, alerted,
                      dropped, revived, overwritten, panicked, crashes>>
      BY <1>3 DEF Outage, Back, redis, link, told, scanned
    <2>2. /\ outages' \in Nat /\ reachable' \in BOOLEAN /\ outages' + crashes <= MaxFaults
          /\ Calm' => Calm /\ reachable'
      <3>1. outages \in Nat /\ crashes \in Nat /\ outages + crashes <= MaxFaults
            /\ (outages = 0 => reachable)
        BY <1>1 DEF HistoryInv, LinkInv, Calm
      <3>2. CASE Outage
        <4>1. outages' = outages + 1 /\ reachable' \in BOOLEAN /\ outages + crashes < MaxFaults
          BY <3>2 DEF Outage
        <4>2. outages' \in Nat /\ outages' + crashes <= MaxFaults /\ ~Calm'
          BY <1>1, <3>1, <4>1 DEF Calm
        <4> QED BY <4>1, <4>2
      <3>3. CASE Back
        <4>1. outages' = outages /\ reachable' /\ reachable' \in BOOLEAN /\ ~reachable
          BY <3>3 DEF Back
        <4> QED BY <3>1, <4>1 DEF Calm
      <3> QED BY <1>3, <3>2, <3>3
    <2>3. CallInv' /\ RedisInv' /\ MutexInv' /\ UsedInv'
      BY <1>1, <2>1 DEF CallInv, RedisInv, MutexInv, UsedInv
    <2>4. HistoryInv'
      BY <1>1, <2>1, <2>2 DEF HistoryInv
    <2>5. LinkInv'
      BY <2>1, <2>2 DEF LinkInv
    <2> QED BY <2>1, <2>3, <2>4, <2>5 DEF TypeInv
  <1>4. CASE Restart
    <2>1. /\ UNCHANGED <<db, index, reachable, process, used, open, alerted, dropped, revived,
                         overwritten, panicked, outages>>
          /\ crashes' = crashes + 1 /\ outages + crashes < MaxFaults /\ Fresh /\ lastAlert' = {}
      BY <1>4 DEF Restart, redis, told, scanned, Fresh
    <2>2. /\ CallInv' /\ MutexInv'
          /\ \A t \in Thread : job'[t] = Idle /\ call'[t] = NoCall
      BY <2>1, FreshKeeps
    <2>3. RedisInv' /\ UsedInv'
      BY <1>1, <2>1, <2>2, NoCallFacts, IdleFacts, ThreadFacts DEF RedisInv, UsedInv
    <2>4. HistoryInv'
      BY <1>1, <2>1 DEF HistoryInv
    <2>5. LinkInv'
      BY <2>1, <2>2, NoCallFacts DEF LinkInv, Calm, Commands
    <2> QED BY <2>1, <2>2, <2>3, <2>4, <2>5 DEF TypeInv
  <1>5. CASE Over
    BY <1>5 DEF Over, vars, TypeInv, CallInv, RedisInv, MutexInv, HistoryInv, UsedInv, LinkInv, Calm
  <1> QED BY <1>2, <1>3, <1>4, <1>5

LEMMA PanicKeepsTypes ==
    ASSUME TypeInv, LinkInv, NoNilClient, NEW t \in Thread, Panic(t)
    PROVE  TypeInv' /\ LinkInv' /\ NoNilClient'
  <1>1. CallInv /\ RedisInv /\ MutexInv /\ HistoryInv /\ UsedInv
    BY DEF TypeInv
  <1>2. /\ UNCHANGED <<db, index, client, mutex, call, job, lastAlert, used, open, alerted, dropped,
                       revived, overwritten, reachable, outages, crashes>>
        /\ process # "gone" /\ call[t].at \in Commands /\ client = "nil"
        /\ panicked' = process /\ process' = "gone"
    BY DEF Panic, redis, link, told, scanned, faults
  <1>3. panicked' = "runs" => ~Calm
    BY <1>2 DEF LinkInv
  <1>4. NoNilClient'
    BY <1>1, <1>2, <1>3 DEF NoNilClient, Calm, HistoryInv
  <1>5. TypeInv'
    BY <1>1, <1>2 DEF TypeInv, CallInv, RedisInv, MutexInv, HistoryInv, UsedInv
  <1>6. LinkInv'
    BY <1>2 DEF LinkInv, Calm
  <1> QED BY <1>4, <1>5, <1>6

LinkedInv == TypeInv /\ LinkInv /\ NoNilClient

LEMMA LinkedInit == Init => LinkedInv
  <1> SUFFICES ASSUME Init PROVE LinkedInv
    OBVIOUS
  <1>1. \A t \in Thread : Shaped(NoCall) /\ Serves(t, Idle, NoCall)
    BY NoCallFacts, IdleFacts DEF Shaped, Serves, PolicyJob, OtherJob
  <1>2. CallInv
    BY <1>1, NoCallFacts, IdleFacts DEF Init, CallInv, JobRecord
  <1>3. RedisInv /\ MutexInv
    BY NoCallFacts, ThreadFacts DEF Init, RedisInv, MutexInv
  <1>4. HistoryInv
    <2>1. outages \in Nat /\ crashes \in Nat /\ outages + crashes <= MaxFaults
      BY StorageConstants DEF Init
    <2>2. reachable \in BOOLEAN /\ revived \in BOOLEAN
      BY DEF Init
    <2> QED BY <2>1, <2>2 DEF Init, HistoryInv
  <1>5. UsedInv
    BY NoCallFacts, IdleFacts, ThreadFacts, NoneAndFailedAreNoStates DEF Init, UsedInv
  <1>6. LinkInv
    BY NoCallFacts DEF Init, LinkInv, Commands
  <1>7. NoNilClient
    BY StorageConstants DEF Init, NoNilClient
  <1> QED BY <1>2, <1>3, <1>4, <1>5, <1>6, <1>7 DEF LinkedInv, TypeInv

LEMMA LinkedStep == LinkedInv /\ [Next]_vars => LinkedInv'
  <1> SUFFICES ASSUME LinkedInv, [Next]_vars PROVE LinkedInv'
    OBVIOUS
  <1>1. TypeInv /\ LinkInv /\ NoNilClient
    BY DEF LinkedInv
  <1>2. ASSUME TypeInv' /\ LinkInv' /\ UNCHANGED panicked, outages' \in {outages, outages + 1}
        PROVE  LinkedInv'
    BY <1>1, <1>2 DEF LinkedInv, NoNilClient, TypeInv, HistoryInv
  <1>3. ASSUME NEW t \in Thread, Storage(t)
        PROVE  LinkedInv'
    BY <1>1, <1>2, <1>3, StorageKeepsTypes
       DEF Storage, Lock, Dial, Verify, Read, Set, AddIndexes, Del, RemoveIndexes, Rest, faults
  <1>4. ASSUME NEW t \in Thread, Panic(t)
        PROVE  LinkedInv'
    BY <1>1, <1>4, PanicKeepsTypes DEF LinkedInv
  <1>5. CASE PolicyStep
    <2>1. UNCHANGED outages
      BY <1>5 DEF PolicyStep, ReadDisk, UpdateExisting, NameEvent, CreateEvent,
                  Created, Persisted, Recover, Forgotten, Away, faults
    <2> QED BY <1>1, <1>2, <1>5, <2>1, PolicyKeepsTypes
  <1>6. ASSUME NEW t \in Other, OtherStep(t)
        PROVE  LinkedInv'
    <2>1. UNCHANGED outages
      BY <1>6 DEF OtherStep, Scanned, UpdateAlertState, Updated, Ask, Away, faults
    <2> QED BY <1>1, <1>2, <1>6, <2>1, OtherKeepsTypes
  <1>7. CASE Close \/ Exit \/ Outage \/ Back \/ Restart \/ Over
    <2>1. outages' \in {outages, outages + 1}
      BY <1>7 DEF Close, Exit, Outage, Back, Restart, Over, faults, vars
    <2> QED BY <1>1, <1>2, <1>7, <2>1, RestKeepsTypes
  <1>8. CASE UNCHANGED vars
    BY <1>1, <1>8 DEF vars, LinkedInv, TypeInv, CallInv, RedisInv, MutexInv, HistoryInv, UsedInv,
                      LinkInv, Calm, NoNilClient
  <1>9. ASSUME NEW t \in Thread, Work(t)
        PROVE  LinkedInv'
    <2>1. Storage(t) \/ Panic(t) \/ PolicyStep \/ (t \in Other /\ OtherStep(t))
      BY <1>9 DEF Work, OtherStep, Thread
    <2> QED BY <1>3, <1>4, <1>5, <1>6, <1>9, <2>1
  <1> QED BY <1>7, <1>8, <1>9 DEF Next

LEMMA LinkedHolds == Spec => []LinkedInv
  BY LinkedInit, LinkedStep, PTL DEF Spec

\* Every call and every goroutine has the shape its place in the code gives it,
\* and whoever is between Lock and Unlock of ensureConnected, and nobody else,
\* holds s.mu.
THEOREM TypeCorrect == Spec => []TypeOK
  <1>1. LinkedInv => TypeOK
    BY DEF LinkedInv, TypeInv, CallInv, RedisInv, MutexInv, HistoryInv, TypeOK, CallRecord, Waits
  <1> QED BY <1>1, LinkedHolds, PTL

\* A goroutine that has passed ensureConnected and lost the lock still finds a
\* client for its command, unless Redis was away once or Close came between.
THEOREM ClientIsThere == Spec => []NoNilClient
  <1>1. LinkedInv => NoNilClient
    BY DEF LinkedInv
  <1> QED BY <1>1, LinkedHolds, PTL
-----------------------------------------------------------------------------
(* What is stored, as long as calls work.                                   *)

\* ensureConnected does not change what a call is about.
LEMMA WaitMoves ==
    ASSUME TypeInv, LinkInv, Calm, NEW t \in Thread, Lock(t) \/ Dial(t) \/ Verify(t)
    PROVE  /\ UNCHANGED <<db, index, revived, overwritten>> /\ call[t].at \in Waits
           /\ \E c : /\ Becomes(t, c) /\ c.at \in Waits \cup Commands
                     /\ c.op = call[t].op /\ c.ev = call[t].ev /\ c.val = call[t].val
                     /\ c.ids = call[t].ids
                     /\ Due(c) = Due(call[t]) \/ (Due(call[t]) = "inner" /\ Due(c) = "get")
  <1>1. UNCHANGED <<db, index, revived, overwritten>> /\ call[t].at \in Waits /\ CallInv /\ reachable
    BY DEF Lock, Dial, Verify, At, Waits, redis, scanned, TypeInv, LinkInv
  <1>2. ASSUME NEW at \in Waits, Goto(t, at)
        PROVE  \E c : /\ Becomes(t, c) /\ c.at \in Waits \cup Commands
                      /\ c.op = call[t].op /\ c.ev = call[t].ev /\ c.val = call[t].val
                      /\ c.ids = call[t].ids /\ Due(c) = Due(call[t])
    BY <1>1, <1>2, GotoBecomes DEF Due
  <1>3. CASE Connected(t)
    <2>1. PICK c : /\ Becomes(t, c) /\ c.op = call[t].op /\ c.ev = call[t].ev
                   /\ c.val = call[t].val /\ c.ids = call[t].ids
                   /\ \/ call[t].then = "inner" /\ c.at = "lock" /\ c.then = "get"
                      \/ call[t].then # "inner" /\ c.at = call[t].then /\ c.then = call[t].then
      BY <1>1, <1>3, ConnectedBecomes
    <2>2. call[t].then \in Commands \cup {"inner"} /\ Due(call[t]) = call[t].then
      BY <1>1, UnderWay, CommandsOfFacts DEF Due
    <2>3. c.at \in Waits \cup Commands
      BY <2>1, <2>2 DEF Waits
    <2>4. Due(c) = call[t].then \/ (call[t].then = "inner" /\ Due(c) = "get")
      BY <2>1, <2>2 DEF Due, Waits
    <2> QED BY <1>1, <2>1, <2>2, <2>3, <2>4
  <1> QED BY <1>1, <1>2, <1>3 DEF Lock, Dial, Verify, Waits

\* A call deletes only for the policy that forgets an event, and only that.
LEMMA Deletes ==
    ASSUME TypeInv, NEW t \in Thread, Storage(t)
    PROVE  \/ (\A e \in Event : db[e] # None => db'[e] # None) /\ index \subseteq index'
           \/ /\ t = Policy /\ job[Policy].st = "forget"
              /\ \A e \in Event \ {job[Policy].ev} :
                    db'[e] = db[e] /\ (e \in index => e \in index')
  <1>1. CallInv /\ RedisInv
    BY DEF TypeInv
  <1>2. CASE Del(t) \/ RemoveIndexes(t)
    <2>1. /\ call[t].at \in Commands /\ Due(call[t]) \in {"del", "srem"}
      BY <1>2 DEF Del, RemoveIndexes, Usable, At, Due, Waits, Commands
    <2>2. call[t].op = "Delete" /\ call[t].op \in OpsOf(t, job[t].st) /\ Serves(t, job[t], call[t])
      BY <1>1, <2>1, UnderWay, CommandsOfFacts DEF CallInv
    <2>3. job[t].st = "forget" /\ t = Policy
      BY <2>2, StorageConstants DEF OpsOf, Serves, OtherJob, PolicyJob
    <2>4. call[t].ev = job[Policy].ev
      BY <2>2, <2>3 DEF Serves
    <2>5. \A e \in Event \ {job[Policy].ev} : db'[e] = db[e] /\ (e \in index => e \in index')
      BY <1>1, <1>2, <2>4 DEF Del, RemoveIndexes, RedisInv
    <2> QED BY <2>3, <2>5
  <1>3. CASE Set(t)
    <2>1. call[t].at \in Commands /\ Due(call[t]) = "set"
      BY <1>3 DEF Set, Usable, At, Due, Waits, Commands
    <2>2. call[t].val \in State
      BY <1>1, <2>1, UnderWay, CommandsOfFacts
    <2> QED BY <1>1, <1>3, <2>2, NoneAndFailedAreNoStates DEF Set, RedisInv
  <1>4. CASE Lock(t) \/ Dial(t) \/ Verify(t) \/ Read(t) \/ AddIndexes(t)
    BY <1>4 DEF Lock, Dial, Verify, Read, AddIndexes, redis
  <1> QED BY <1>2, <1>3, <1>4 DEF Storage

\* A write of the policy ends with SET and the index.
LEMMA PolicyWrites ==
    ASSUME TypeInv, LinkInv, Calm, Storage(Policy), job[Policy].st \in Writes,
           call'[Policy].at \in {"sadd", "returned"}
    PROVE  \/ Set(Policy) /\ reachable /\ call'[Policy].at = "sadd"
           \/ AddIndexes(Policy) /\ reachable /\ call[Policy].at = "sadd"
  <1>1. CallInv /\ RedisInv /\ reachable /\ Policy \in Thread
    BY ThreadFacts DEF TypeInv, LinkInv
  <1>2. call[Policy].at \in Waits \cup Commands
    BY DEF Storage, Lock, Dial, Verify, Read, Set, AddIndexes, Del, RemoveIndexes, Usable, At,
           Waits, Commands
  <1>3. call[Policy].op = "Set" /\ Due(call[Policy]) \in {"set", "sadd"}
    <2>1. call[Policy].op \in OpsOf(Policy, job[Policy].st) /\ Due(call[Policy]) \in CommandsOf(call[Policy].op)
      BY <1>1, <1>2, UnderWay
    <2>2. call[Policy].op = "Set"
      BY <2>1 DEF OpsOf, Writes
    <2> QED BY <2>1, <2>2, CommandsOfFacts DEF Ops
  <1>4. CASE Lock(Policy) \/ Dial(Policy) \/ Verify(Policy)
    <2>1. PICK c : /\ Becomes(Policy, c) /\ c.at \in Waits \cup Commands
                   /\ Due(c) = Due(call[Policy]) \/ (Due(call[Policy]) = "inner" /\ Due(c) = "get")
      BY <1>1, <1>4, WaitMoves
    <2>2. c.at = "sadd" /\ Due(c) = "sadd"
      BY <1>1, <2>1, BecomesFacts DEF Waits, Commands, Due
    <2>3. call[Policy].at \in Waits
      BY <1>1, <1>4, WaitMoves
    <2>4. call[Policy].then # "sadd"
      BY <1>1, <1>3, <2>3 DEF CallInv, Shaped
    <2> QED BY <1>3, <2>1, <2>2, <2>3, <2>4 DEF Due
  <1>5. CASE Read(Policy) \/ Del(Policy) \/ RemoveIndexes(Policy)
    BY <1>3, <1>5 DEF Read, Del, RemoveIndexes, Usable, At, Due, Waits
  <1>6. CASE Set(Policy)
    <2>1. Goto(Policy, "sadd") \/ (~reachable /\ Return(Policy, Failed))
      BY <1>6 DEF Set
    <2>2. call'[Policy].at = "sadd"
      BY <1>1, <2>1 DEF Goto, CallInv, CallRecord
    <2> QED BY <1>1, <1>6, <2>2
  <1>7. CASE AddIndexes(Policy)
    BY <1>1, <1>7 DEF AddIndexes, Usable, At
  <1> QED BY <1>4, <1>5, <1>6, <1>7 DEF Storage
LEMMA StorageKeepsStored ==
    ASSUME TypeInv, LinkInv, Calm, StoredInv, NEW t \in Thread, Storage(t)
    PROVE  StoredInv'
  <1>1. /\ CallInv /\ RedisInv /\ HistoryInv /\ UNCHANGED <<job, open, outages>> /\ Policy \in Thread
        /\ OpenIsIndexed /\ (job[Policy].st = "forget" => job[Policy].ev \notin open)
        /\ (Wrote => db[job[Policy].ev] # None) /\ (Indexed => job[Policy].ev \in index)
        /\ \A e \in open : db[e] # None /\ e \in index /\ e \in Event
    BY ThreadFacts DEF Storage, Lock, Dial, Verify, Read, Set, AddIndexes, Del, RemoveIndexes, Rest,
          faults, TypeInv, StoredInv, OpenIsIndexed, Calm, HistoryInv
  <1>2. \A e \in open : db'[e] # None /\ e \in index'
    BY <1>1, Deletes
  <1>3. ASSUME job[Policy].st \in Writes
        PROVE  job[Policy].ev \in Event /\ job[Policy].st # "forget"
    BY <1>1, <1>3 DEF Writes, CallInv, Serves
  <1>4. ASSUME job[Policy].st \in Writes, call'[Policy].at \in {"sadd", "returned"}
        PROVE  /\ db'[job[Policy].ev] # None
               /\ call'[Policy].at = "returned" => job[Policy].ev \in index'
    <2>1. CASE call'[Policy] = call[Policy]
      BY <1>1, <1>3, <1>4, <2>1, Deletes DEF Wrote, Indexed
    <2>2. CASE t # Policy
      BY <1>1, <2>1, <2>2, StorageBecomes, BecomesFacts
    <2>3. CASE Set(Policy) /\ reachable /\ call'[Policy].at = "sadd"
      <3>1. call[Policy].at = "set" /\ call[Policy].at \in Commands /\ Due(call[Policy]) = "set"
        BY <2>3 DEF Set, Usable, At, Due, Waits, Commands
      <3>2. call[Policy].val \in State /\ call[Policy].op # "none" /\ Serves(Policy, job[Policy], call[Policy])
        BY <1>1, <3>1, UnderWay, CommandsOfFacts DEF Ops, CallInv
      <3>3. call[Policy].ev = job[Policy].ev
        BY <1>3, <1>4, <3>2 DEF Serves, Writes
      <3> QED BY <1>1, <1>3, <1>4, <2>3, <3>2, <3>3, NoneAndFailedAreNoStates DEF Set, RedisInv
    <2>4. CASE AddIndexes(Policy) /\ reachable /\ call[Policy].at = "sadd"
      <3>1. call[Policy].at \in Commands /\ Due(call[Policy]) = "sadd"
        BY <2>4 DEF Due, Waits, Commands
      <3>2. call[Policy].op # "none" /\ Serves(Policy, job[Policy], call[Policy])
        BY <1>1, <3>1, UnderWay DEF Ops, CallInv
      <3>3. call[Policy].ev = job[Policy].ev
        BY <1>3, <1>4, <3>2 DEF Serves, Writes
      <3>4. db[job[Policy].ev] # None
        BY <1>1, <1>4, <2>4 DEF Wrote
      <3> QED BY <2>4, <3>3, <3>4 DEF AddIndexes
    <2> QED BY <1>1, <1>4, <2>2, <2>3, <2>4, PolicyWrites
  <1>5. Wrote' => db'[job[Policy].ev] # None
    BY <1>1, <1>4 DEF Wrote
  <1>6. Indexed' => job[Policy].ev \in index'
    BY <1>1, <1>4 DEF Indexed
  <1>7. OpenIsIndexed'
    BY <1>1, <1>2 DEF OpenIsIndexed
  <1> QED BY <1>1, <1>5, <1>6, <1>7 DEF StoredInv, Calm

LEMMA PolicyKeepsStored ==
    ASSUME TypeInv, LinkInv, Calm, StoredInv, PolicyStep
    PROVE  StoredInv'
  <1>1. /\ CallInv /\ RedisInv /\ Policy \in Thread /\ UNCHANGED <<db, index>>
        /\ OpenIsIndexed /\ (job[Policy].st = "forget" => job[Policy].ev \notin open)
        /\ (Wrote => db[job[Policy].ev] # None) /\ (Indexed => job[Policy].ev \in index)
        /\ \A e \in open : db[e] # None /\ e \in index
    BY PolicyKeeps, ThreadFacts DEF TypeInv, StoredInv, OpenIsIndexed, Calm
  <1>2. call'[Policy].at \in {"lock", "none"}
    BY <1>1, PolicyIsQuiet
  <1>3. ~Wrote' /\ ~Indexed'
    BY <1>2 DEF Wrote, Indexed
  <1>4. ASSUME NEW st \in Writes, Answered(Policy, st)
        PROVE  db[job[Policy].ev] # None /\ job[Policy].ev \in index
    BY <1>1, <1>4, PolicyAnswered DEF Wrote, Indexed
  <1>5. /\ \A e \in open' : db[e] # None /\ e \in index
        /\ job'[Policy].st = "forget" => job'[Policy].ev \notin open'
    <2>1. CASE ReadDisk
      BY <1>1, <2>1 DEF ReadDisk, Job, CallInv
    <2>2. CASE UpdateExisting \/ CreateEvent
      <3>1. \E st \in {"hold", "emit", "create"} : \E e : job'[Policy] = [st |-> st, ev |-> e]
        <4>1. CASE UpdateExisting
          <5>1. call[Policy].ev \in Event /\ call[Policy].val \in State
            BY <1>1, <4>1, PolicyAnswered DEF UpdateExisting, Answer
          <5> QED BY <1>1, <4>1, <5>1, EvaluatedAsks DEF UpdateExisting, Answer, Asks, Takes
        <4>2. CASE CreateEvent
          <5>1. job[Policy].ev \in Event
            BY <1>1, <4>2, PolicyAnswered DEF CreateEvent
          <5>2. "unsent" \in State
            BY DEF State
          <5>3. CASE Job(Policy, "create", job[Policy].ev)
            BY <1>1, <5>3 DEF Job, CallInv
          <5> QED BY <1>1, <4>2, <5>1, <5>2, <5>3, EvaluatedTakes DEF CreateEvent, Subject
        <4> QED BY <2>2, <4>1, <4>2
      <3>2. UNCHANGED open
        BY <2>2 DEF UpdateExisting, CreateEvent
      <3> QED BY <1>1, <3>1, <3>2
    <2>3. CASE NameEvent
      <3>1. PICK e \in Event : Job(Policy, "name", e)
        BY <2>3 DEF NameEvent
      <3>2. UNCHANGED open /\ job'[Policy].st # "forget"
        BY <1>1, <2>3, <3>1 DEF NameEvent, Job, CallInv
      <3> QED BY <1>1, <3>2
    <2>4. CASE Created
      <3>1. Answered(Policy, "create") /\ "create" \in Writes /\ job[Policy].ev \in Event
        BY <1>1, <2>4, PolicyAnswered DEF Created, Writes
      <3>2. open' \subseteq open \cup {job[Policy].ev}
        BY <2>4 DEF Created, Subject
      <3>3. job'[Policy].st # "forget"
        <4>1. CASE Done(Policy)
          BY <1>1, <4>1, IdleFacts DEF Done, CallInv
        <4>2. CASE Evaluated(job[Policy].ev, "unsent", TRUE)
          <5>1. "unsent" \in State
            BY DEF State
          <5>2. PICK st \in {"hold", "emit"} : job'[Policy] = [st |-> st, ev |-> job[Policy].ev]
            BY <1>1, <3>1, <4>2, <5>1, EvaluatedTakes
          <5> QED BY <5>2
        <4> QED BY <2>4, <4>1, <4>2 DEF Created, Subject
      <3> QED BY <1>1, <1>4, <3>1, <3>2, <3>3
    <2>5. CASE Persisted
      <3>1. PICK st \in Writes : Answered(Policy, st)
        BY <2>5 DEF Persisted, Writes
      <3>2. open' \subseteq open \cup {job[Policy].ev} /\ Done(Policy)
        BY <2>5 DEF Persisted, Subject
      <3>3. job'[Policy].st # "forget"
        BY <1>1, <3>2, IdleFacts DEF Done, CallInv
      <3> QED BY <1>1, <1>4, <3>1, <3>2, <3>3
    <2>6. CASE Recover
      <3>1. CASE Done(Policy) /\ UNCHANGED open
        BY <1>1, <3>1, IdleFacts DEF Done, CallInv
      <3>2. CASE open' = open \ {call[Policy].ev} /\ Job(Policy, "forget", call[Policy].ev)
        BY <1>1, <3>2 DEF Job, CallInv
      <3> QED BY <2>6, <3>1, <3>2 DEF Recover
    <2>7. CASE Forgotten
      BY <1>1, <2>7, IdleFacts DEF Forgotten, Done, CallInv
    <2> QED BY <2>1, <2>2, <2>3, <2>4, <2>5, <2>6, <2>7 DEF PolicyStep
  <1>6. OpenIsIndexed'
    BY <1>1, <1>5 DEF OpenIsIndexed
  <1> QED BY <1>3, <1>5, <1>6 DEF StoredInv

LEMMA StoredStep ==
    ASSUME LinkedInv, StoredInv, [Next]_vars
    PROVE  StoredInv'
  <1> SUFFICES ASSUME Calm' PROVE StoredInv'
    BY DEF StoredInv
  <1>1. TypeInv /\ LinkInv /\ CallInv /\ Policy \in Thread /\ outages \in Nat
    BY ThreadFacts DEF LinkedInv, TypeInv, HistoryInv
  <1>2. ASSUME UNCHANGED <<db, index, open, outages>>, UNCHANGED call[Policy], UNCHANGED job[Policy]
        PROVE  StoredInv'
    BY <1>2 DEF StoredInv, OpenIsIndexed, Wrote, Indexed, Calm
  <1>3. ASSUME NEW t \in Thread, Storage(t)
        PROVE  StoredInv'
    <2>1. Calm
      BY <1>3 DEF Storage, Lock, Dial, Verify, Read, Set, AddIndexes, Del, RemoveIndexes, Rest, faults, Calm
    <2> QED BY <1>1, <1>3, <2>1, StorageKeepsStored
  <1>4. CASE PolicyStep
    <2>1. Calm
      BY <1>4 DEF PolicyStep, ReadDisk, UpdateExisting, NameEvent, CreateEvent,
                  Created, Persisted, Recover, Forgotten, Away, faults, Calm
    <2> QED BY <1>1, <1>4, <2>1, PolicyKeepsStored
  <1>5. ASSUME NEW t \in Other, OtherStep(t)
        PROVE  StoredInv'
    <2>1. UNCHANGED <<db, index, open, outages>>
      BY <1>5 DEF OtherStep, Scanned, UpdateAlertState, Updated, Ask, Away, faults, redis
    <2>2. UNCHANGED call[Policy] /\ UNCHANGED job[Policy]
      BY <1>1, <1>5, OtherIsQuiet, ThreadFacts
    <2> QED BY <1>2, <2>1, <2>2
  <1>6. CASE Restart
    <2>1. /\ UNCHANGED <<db, index, open, outages>> /\ job'[Policy] = Idle /\ call'[Policy] = NoCall
      BY <1>1, <1>6, FreshKeeps DEF Restart, redis
    <2> QED BY <2>1, NoCallFacts, IdleFacts DEF StoredInv, OpenIsIndexed, Wrote, Indexed, Calm, Writes
  <1>7. CASE Close \/ Exit \/ Back \/ Over \/ UNCHANGED vars
    BY <1>2, <1>7 DEF Close, Exit, Back, Over, vars, redis, faults
  <1>8. CASE Outage
    BY <1>1, <1>8 DEF Outage, Calm
  <1>9. ASSUME NEW t \in Thread, Panic(t)
        PROVE  StoredInv'
    BY <1>2, <1>9 DEF Panic, redis, faults
  <1>10. ASSUME NEW t \in Thread, Work(t)
         PROVE  StoredInv'
    <2>1. Storage(t) \/ Panic(t) \/ PolicyStep \/ (t \in Other /\ OtherStep(t))
      BY <1>10 DEF Work, OtherStep, Thread
    <2> QED BY <1>3, <1>4, <1>5, <1>9, <1>10, <2>1
  <1> QED BY <1>6, <1>7, <1>8, <1>10 DEF Next

LEMMA StoredInit == Init => StoredInv
  BY NoCallFacts, IdleFacts, ThreadFacts DEF Init, StoredInv, OpenIsIndexed, Wrote, Indexed, Writes

LEMMA StoredHolds == Spec => [](LinkedInv /\ StoredInv)
  <1>1. LinkedInv /\ StoredInv /\ [Next]_vars => (LinkedInv /\ StoredInv)'
    BY LinkedStep, StoredStep
  <1> QED BY LinkedInit, StoredInit, <1>1, PTL DEF Spec

\* While calls work, the state of an event the policy stored and its entry in
\* the index are there until the policy deletes them: no scan, reader or restart
\* takes them away.
THEOREM StoredIsFound == Spec => []OpenIsIndexed
  <1>1. Calm /\ StoredInv => OpenIsIndexed
    BY DEF StoredInv
  <1>2. StoredInv => OpenIsIndexed
    BY <1>1 DEF OpenIsIndexed, Calm
  <1> QED BY <1>2, StoredHolds, PTL

-----------------------------------------------------------------------------
(* No alert is forgotten, as long as calls work.                            *)

LEMMA SetFacts ==
    ASSUME CallInv, NEW t \in Thread, Set(t)
    PROVE  /\ call[t].at = "set" /\ call[t].op = "Set" /\ call[t].val \in State
           /\ call[t].ev \in Event /\ call[t].ev = job[t].ev
           /\ t = Policy => job[t].st \in Writes
  <1>1. call[t].at = "set" /\ call[t].at \in Commands /\ Due(call[t]) = "set"
    BY DEF Set, Usable, At, Due, Waits, Commands
  <1>2. /\ call[t].op = "Set" /\ call[t].val \in State /\ call[t].ev \in Event
        /\ call[t].op \in OpsOf(t, job[t].st) /\ Serves(t, job[t], call[t])
    BY <1>1, UnderWay, CommandsOfFacts DEF CallInv
  <1>3. job[t].st \in {"create", "hold", "emit", "write"}
    <2>1. "Set" \notin ReaderOps
      BY StorageConstants
    <2> QED BY <1>2, <2>1 DEF OpsOf, Serves, PolicyJob, OtherJob
  <1> QED BY <1>1, <1>2, <1>3 DEF Serves, PolicyJob, Writes

\* A write of the policy keeps its event and its value.
LEMMA WriteGoesOn ==
    ASSUME TypeInv, LinkInv, Calm, Storage(Policy), call'[Policy].op = "Set"
    PROVE  /\ call[Policy].op = "Set" /\ job[Policy].st \in Writes
           /\ call'[Policy].ev = call[Policy].ev /\ call'[Policy].val = call[Policy].val
  <1>1. CallInv /\ RedisInv /\ Policy \in Thread /\ CallInv' /\ UNCHANGED job
    BY StorageKeeps, ThreadFacts DEF TypeInv
  <1>2. job[Policy].st \in Writes
    <2>1. "Set" \in OpsOf(Policy, job[Policy].st) /\ job[Policy].st \in PolicyJob
      BY <1>1 DEF CallInv, Serves
    <2> QED BY <2>1 DEF OpsOf, PolicyJob, Writes
  <1>3. call[Policy].at \in Waits \cup Commands
    BY DEF Storage, Lock, Dial, Verify, Read, Set, AddIndexes, Del, RemoveIndexes, Usable, At,
           Waits, Commands
  <1>4. call[Policy].op = "Set" /\ Due(call[Policy]) \in {"set", "sadd"}
    <2>1. /\ call[Policy].op \in OpsOf(Policy, job[Policy].st)
          /\ Due(call[Policy]) \in CommandsOf(call[Policy].op)
      BY <1>1, <1>3, UnderWay
    <2>2. call[Policy].op = "Set"
      BY <1>2, <2>1 DEF OpsOf, Writes
    <2> QED BY <2>1, <2>2, CommandsOfFacts DEF Ops
  <1>5. CASE Lock(Policy) \/ Dial(Policy) \/ Verify(Policy)
    BY <1>1, <1>2, <1>4, <1>5, WaitMoves, BecomesFacts
  <1>6. CASE Read(Policy) \/ Del(Policy) \/ RemoveIndexes(Policy)
    BY <1>4, <1>6 DEF Read, Del, RemoveIndexes, Usable, At, Due, Waits
  <1>7. ASSUME NEW v \in {None, Failed}, Return(Policy, v)
        PROVE  FALSE
    <2>1. PICK c : Becomes(Policy, c) /\ c.op = "none"
      BY <1>1, <1>7, ReturnBecomes, NoCallFacts
    <2> QED BY <1>1, <2>1, BecomesFacts
  <1>8. CASE Goto(Policy, "sadd")
    <2>1. PICK c : /\ Becomes(Policy, c) /\ c.ev = call[Policy].ev /\ c.val = call[Policy].val
      BY <1>1, <1>8, GotoBecomes DEF Commands
    <2> QED BY <1>1, <1>2, <1>4, <2>1, BecomesFacts
  <1> QED BY <1>5, <1>6, <1>7, <1>8 DEF Storage, Set, AddIndexes

LEMMA StorageKeepsSent ==
    ASSUME TypeInv, LinkInv, Calm, SentInv, NEW t \in Thread, Storage(t)
    PROVE  SentInv'
  <1>1. /\ CallInv /\ RedisInv /\ HistoryInv /\ Policy \in Thread /\ reachable
        /\ UNCHANGED <<job, alerted, dropped, outages>> /\ CallInv' /\ RedisInv'
        /\ KeptIsSent /\ UnsentIsNotKept /\ BeginsOrEnds /\ EmitIsSent /\ NoSilentDrop
    BY StorageKeeps, ThreadFacts
       DEF Storage, Lock, Dial, Verify, Read, Set, AddIndexes, Del, RemoveIndexes, Rest, told,
           faults, TypeInv, SentInv, LinkInv
  \* SET is the one step that may change what is kept, and DEL the one that may lose it.
  <1>2. /\ overwritten \subseteq overwritten'
        /\ \A e \in Event : Kept(e)' => Kept(e) /\ db'[e] = "sent"
        /\ \A e \in Event : db[e] = "sent" /\ db'[e] # "sent" =>
              e \in overwritten' \/ (t = Policy /\ (~Set(t) \/ call[t].val = "unsent") /\ e = job[t].ev)
    <2>1. CASE Set(t)
      <3>1. /\ call[t].val \in State /\ call[t].ev \in Event /\ call[t].ev = job[t].ev
            /\ call[t].op = "Set"
        BY <1>1, <2>1, SetFacts
      <3>2. \/ UNCHANGED <<db, revived, overwritten>>
            \/ /\ db' = [db EXCEPT ![call[t].ev] = call[t].val]
               /\ overwritten' = IF t # Policy /\ db[call[t].ev] = "sent" /\ call[t].val = "unsent"
                                 THEN overwritten \cup {call[t].ev} ELSE overwritten
        BY <2>1 DEF Set, scanned
      <3>3. overwritten \subseteq overwritten'
        BY <3>2
      <3>4. ASSUME NEW e \in Event, Kept(e)'
            PROVE  Kept(e) /\ db'[e] = "sent"
        <4>1. Kept(e) /\ db[e] = "sent" /\ e \notin overwritten'
          BY <1>1, <3>3, <3>4 DEF Kept, KeptIsSent
        <4>2. CASE t = Policy
          BY <1>1, <3>1, <3>2, <4>1, <4>2 DEF UnsentIsNotKept, State, RedisInv
        <4>3. CASE t # Policy
          BY <1>1, <3>1, <3>2, <4>1, <4>3 DEF State, RedisInv
        <4> QED BY <4>1, <4>2, <4>3
      <3>5. ASSUME NEW e \in Event, db[e] = "sent", db'[e] # "sent"
            PROVE  e \in overwritten' \/ (t = Policy /\ call[t].val = "unsent" /\ e = job[t].ev)
        BY <1>1, <3>1, <3>2, <3>5 DEF State, RedisInv
      <3> QED BY <3>3, <3>4, <3>5
    <2>2. CASE Del(t) \/ RemoveIndexes(t)
      <3>1. UNCHANGED overwritten /\ ~Set(t)
        BY <2>2 DEF Del, RemoveIndexes, scanned, Set, Usable, At
      <3>2. (\A e \in Event : db[e] # None => db'[e] # None) =>
                \A e \in Event : db[e] # None => db'[e] = db[e]
        BY <1>1, <2>2 DEF Del, RemoveIndexes, RedisInv
      <3>3. \/ \A e \in Event : db[e] # None => db'[e] = db[e]
            \/ /\ t = Policy /\ job[Policy].st = "forget"
               /\ \A e \in Event \ {job[Policy].ev} : db'[e] = db[e]
        BY <3>2, Deletes
      <3> QED BY <1>1, <3>1, <3>3, NoneAndFailedAreNoStates DEF Kept, KeptIsSent, BeginsOrEnds, State
    <2>3. CASE Lock(t) \/ Dial(t) \/ Verify(t) \/ Read(t) \/ AddIndexes(t)
      <3>1. UNCHANGED <<db, overwritten>>
        BY <2>3 DEF Lock, Dial, Verify, Read, AddIndexes, redis, scanned
      <3> QED BY <1>1, <3>1 DEF Kept, KeptIsSent
    <2> QED BY <2>1, <2>2, <2>3 DEF Storage
  <1>3. KeptIsSent' /\ BeginsOrEnds' /\ NoSilentDrop'
    <2>1. KeptIsSent'
      BY <1>2 DEF KeptIsSent
    <2>2. NoSilentDrop'
      BY <1>1, <1>2 DEF NoSilentDrop
    <2>3. BeginsOrEnds'
      BY <1>1, <1>2 DEF BeginsOrEnds, Kept
    <2> QED BY <2>1, <2>2, <2>3
  <1>4. ASSUME call'[Policy].at = "returned" \/ call'[Policy].op = "Set", call'[Policy].val = "unsent"
        PROVE  call'[Policy].ev \notin alerted' \ overwritten'
    <2>1. CASE t # Policy
      <3>1. call'[Policy] = call[Policy]
        BY <1>1, <2>1, StorageBecomes, BecomesFacts
      <3> QED BY <1>1, <1>2, <1>4, <3>1 DEF UnsentIsNotKept, Kept
    <2>2. CASE t = Policy /\ call'[Policy].op = "Set"
      BY <1>1, <1>2, <1>4, <2>2, WriteGoesOn DEF UnsentIsNotKept, Kept
    <2>3. CASE t = Policy /\ call'[Policy].at = "returned"
      <3>1. CASE call'[Policy] = call[Policy]
        BY <1>1, <1>2, <1>4, <3>1 DEF UnsentIsNotKept, Kept
      <3>2. CASE /\ call'[Policy].ev = call[Policy].ev /\ call[Policy].ev \in Event
                 /\ db[call[Policy].ev] = call'[Policy].val /\ UNCHANGED db
        BY <1>1, <1>2, <1>4, <3>2 DEF Kept
      <3> QED BY <1>4, <2>3, <3>1, <3>2, AnswerIsRead DEF State
    <2> QED BY <1>4, <2>1, <2>2, <2>3
  <1>5. UnsentIsNotKept'
    BY <1>4 DEF UnsentIsNotKept, Kept
  <1>6. EmitIsSent'
    <2> SUFFICES ASSUME job[Policy].st = "emit"
                 PROVE  /\ call'[Policy].op = "Set" => call'[Policy].val = "sent"
                        /\ call'[Policy].at \in {"sadd", "returned"} =>
                              db'[job[Policy].ev] = "sent" \/ job[Policy].ev \in overwritten'
      BY <1>1 DEF EmitIsSent, Wrote
    <2>1. job[Policy].st \in Writes /\ job[Policy].ev \in Event
      BY <1>1 DEF Writes, CallInv, Serves
    <2>2. CASE t # Policy
      <3>1. call'[Policy] = call[Policy]
        BY <1>1, <2>2, StorageBecomes, BecomesFacts
      <3> QED BY <1>1, <1>2, <2>1, <2>2, <3>1 DEF EmitIsSent, Wrote
    <2>3. CASE t = Policy
      <3>1. call'[Policy].op = "Set" => call'[Policy].val = "sent"
        BY <1>1, <2>3, WriteGoesOn DEF EmitIsSent
      <3>2. CASE Set(Policy) /\ call'[Policy].at = "sadd"
        <4>1. /\ call[Policy].op = "Set" /\ call[Policy].ev = job[Policy].ev
              /\ call[Policy].val = "sent"
          BY <1>1, <3>2, SetFacts DEF EmitIsSent
        <4>2. db' = [db EXCEPT ![call[Policy].ev] = call[Policy].val]
          BY <1>1, <3>2 DEF Set
        <4> QED BY <1>1, <2>1, <3>1, <4>1, <4>2 DEF RedisInv
      <3>3. CASE AddIndexes(Policy) /\ call[Policy].at = "sadd"
        <4>1. UNCHANGED <<db, overwritten>>
          BY <3>3 DEF AddIndexes, scanned
        <4> QED BY <1>1, <2>1, <3>1, <3>3, <4>1 DEF EmitIsSent, Wrote
      <3> QED BY <1>1, <2>1, <2>3, <3>1, <3>2, <3>3, PolicyWrites
    <2> QED BY <2>2, <2>3
  <1> QED BY <1>3, <1>5, <1>6 DEF SentInv
LEMMA AsksFacts ==
    ASSUME CallInv, NEW st, NEW e, NEW op \in Ops, NEW f \in Event \cup {None},
           NEW v \in State \cup {None, Failed}, Asks(st, e, op, f, v)
    PROVE  /\ job'[Policy] = [st |-> st, ev |-> e]
           /\ call'[Policy].at = "lock" /\ call'[Policy].op = op /\ call'[Policy].ev = f
           /\ call'[Policy].val = v
  BY CallingBecomes, BecomesFacts, ThreadFacts DEF Asks, Takes

\* The state of an event that an evaluation writes is no older than its alert.
LEMMA EvaluatedKeepsSent ==
    ASSUME CallInv, NEW e \in Event, NEW s \in State, EvaluatedNow(e, s),
           s = "unsent" => ~Kept(e), UNCHANGED <<alerted, overwritten>>
    PROVE  UnsentIsNotKept' /\ BeginsOrEnds' /\ EmitIsSent'
  <1>1. PICK st \in {"hold", "emit"} : \E v \in State :
            Asks(st, e, "Set", e, v) /\ (st = "hold" => v = s) /\ (st = "emit" => v = "sent")
    BY DEF EvaluatedNow, State
  <1>2. PICK v \in State :
            Asks(st, e, "Set", e, v) /\ (st = "hold" => v = s) /\ (st = "emit" => v = "sent")
    BY <1>1
  <1>3. /\ job'[Policy] = [st |-> st, ev |-> e] /\ call'[Policy].at = "lock"
        /\ call'[Policy].ev = e /\ call'[Policy].val = v
    BY <1>2, AsksFacts DEF Ops
  <1> QED BY <1>1, <1>2, <1>3 DEF UnsentIsNotKept, BeginsOrEnds, EmitIsSent, Wrote, Kept

LEMMA DoneKeepsSent ==
    ASSUME CallInv, Done(Policy)
    PROVE  UnsentIsNotKept' /\ BeginsOrEnds' /\ EmitIsSent'
  <1>1. call'[Policy] = NoCall /\ job'[Policy] = Idle
    BY ThreadFacts DEF Done, CallInv
  <1>2. NoCall.val # "unsent"
    BY NoCallFacts, NoneAndFailedAreNoStates DEF State
  <1> QED BY <1>1, <1>2, NoCallFacts, IdleFacts DEF UnsentIsNotKept, BeginsOrEnds, EmitIsSent

LEMMA PolicyKeepsSent ==
    ASSUME TypeInv, Calm, SentInv, PolicyStep
    PROVE  SentInv'
  <1>1. /\ CallInv /\ RedisInv /\ HistoryInv /\ Policy \in Thread
        /\ UNCHANGED <<db, overwritten, outages>>
        /\ KeptIsSent /\ UnsentIsNotKept /\ BeginsOrEnds /\ EmitIsSent /\ NoSilentDrop
    BY PolicyKeeps, ThreadFacts
       DEF TypeInv, SentInv, PolicyStep, ReadDisk, UpdateExisting, NameEvent, CreateEvent,
           Created, Persisted, Recover, Forgotten, Away, scanned, faults
  <1>2. ASSUME UNCHANGED told, UnsentIsNotKept' /\ BeginsOrEnds' /\ EmitIsSent'
        PROVE  SentInv'
    BY <1>1, <1>2 DEF SentInv, KeptIsSent, Kept, NoSilentDrop, told
  <1>3. NoCall.val # "unsent" /\ None # "unsent" /\ "unsent" \in State
    BY NoCallFacts, NoneAndFailedAreNoStates DEF State
  \* A call that carries no state.
  <1>4. ASSUME NEW st \in PolicyJob \ Writes, NEW e \in Event \cup {None}, NEW op \in Ops \ {"Set"},
               NEW f \in Event \cup {None}, Asks(st, e, op, f, None),
               st \in {"name", "forget"} => e \notin alerted' \ overwritten'
        PROVE  UnsentIsNotKept' /\ BeginsOrEnds' /\ EmitIsSent'
    <2>1. /\ job'[Policy] = [st |-> st, ev |-> e] /\ call'[Policy].at = "lock"
          /\ call'[Policy].op = op /\ call'[Policy].val = None
      BY <1>1, <1>4, AsksFacts
    <2> QED BY <1>3, <1>4, <2>1 DEF UnsentIsNotKept, BeginsOrEnds, EmitIsSent, Writes, Kept
  <1>5. CASE ReadDisk
    <2>1. PICK st \in {"recover", "find"} : Job(Policy, st, None)
      BY <1>5 DEF ReadDisk
    <2>2. Asks(st, None, "ByType", None, None)
      BY <1>1, <1>5, <2>1, JobTakes DEF ReadDisk, Asks, PolicyJob
    <2> QED BY <1>2, <1>4, <1>5, <2>2 DEF ReadDisk, PolicyJob, Writes, Ops
  <1>6. CASE UpdateExisting
    <2>1. /\ call[Policy].ev \in Event /\ call[Policy].val \in State
          /\ call[Policy].at = "returned"
      BY <1>1, <1>6, PolicyAnswered DEF UpdateExisting, Answer
    <2>2. EvaluatedNow(call[Policy].ev, call[Policy].val)
      BY <1>1, <1>6, <2>1, EvaluatedAsks DEF UpdateExisting, Answer, EvaluatedNow
    <2>3. UnsentIsNotKept' /\ BeginsOrEnds' /\ EmitIsSent'
      BY <1>1, <1>6, <2>1, <2>2, EvaluatedKeepsSent DEF UpdateExisting, UnsentIsNotKept, told
    <2> QED BY <1>2, <1>6, <2>3 DEF UpdateExisting
  <1>7. CASE NameEvent
    <2>1. PICK e \in Event \ used : Job(Policy, "name", e) /\ Calling(Policy, "Exists", e, None)
      BY <1>7 DEF NameEvent
    <2>2. Asks("name", e, "Exists", e, None)
      BY <1>1, <2>1, JobTakes DEF Asks, PolicyJob
    <2>3. UNCHANGED told /\ e \notin alerted'
      BY <1>1, <1>7, <2>1 DEF NameEvent, told, HistoryInv
    <2>4. UnsentIsNotKept' /\ BeginsOrEnds' /\ EmitIsSent'
      BY <1>4, <2>2, <2>3 DEF PolicyJob, Writes, Ops
    <2> QED BY <1>2, <2>3, <2>4
  <1>8. CASE CreateEvent
    <2>1. job[Policy].ev \in Event /\ ~Kept(job[Policy].ev)
      BY <1>1, <1>8, PolicyAnswered DEF CreateEvent, BeginsOrEnds
    <2>2. UNCHANGED told /\ UNCHANGED <<alerted, overwritten>>
      BY <1>1, <1>8 DEF CreateEvent, told
    <2>3. CASE Job(Policy, "create", job[Policy].ev)
               /\ Calling(Policy, "Set", job[Policy].ev, "unsent")
      <3>1. Asks("create", job[Policy].ev, "Set", job[Policy].ev, "unsent")
        BY <1>1, <2>1, <2>3, JobTakes DEF Asks, PolicyJob
      <3>2. /\ job'[Policy] = [st |-> "create", ev |-> job[Policy].ev]
            /\ call'[Policy].ev = job[Policy].ev
        BY <1>1, <1>3, <2>1, <3>1, AsksFacts DEF Ops
      <3> QED BY <1>2, <2>1, <2>2, <3>2 DEF UnsentIsNotKept, BeginsOrEnds, EmitIsSent, Kept
    <2>4. CASE Evaluated(job[Policy].ev, "unsent", TRUE)
      <3>1. EvaluatedNow(job[Policy].ev, "unsent")
        BY <1>1, <1>3, <2>1, <2>4, EvaluatedAsks DEF EvaluatedNow
      <3> QED BY <1>1, <1>2, <1>3, <2>1, <2>2, <3>1, EvaluatedKeepsSent
    <2> QED BY <1>8, <2>3, <2>4 DEF CreateEvent, Subject
  <1>9. CASE Created
    <2>1. job[Policy].ev \in Event /\ ~Kept(job[Policy].ev)
      BY <1>1, <1>9, PolicyAnswered DEF Created, BeginsOrEnds
    <2>2. UNCHANGED told /\ UNCHANGED <<alerted, overwritten>>
      BY <1>1, <1>9 DEF Created, told
    <2>3. CASE Done(Policy)
      BY <1>1, <1>2, <2>2, <2>3, DoneKeepsSent
    <2>4. CASE Evaluated(job[Policy].ev, "unsent", TRUE)
      <3>1. EvaluatedNow(job[Policy].ev, "unsent")
        BY <1>1, <1>3, <2>1, <2>4, EvaluatedAsks DEF EvaluatedNow
      <3> QED BY <1>1, <1>2, <1>3, <2>1, <2>2, <3>1, EvaluatedKeepsSent
    <2> QED BY <1>9, <2>3, <2>4 DEF Created, Subject
  <1>10. CASE Persisted
    <2>1. UnsentIsNotKept' /\ BeginsOrEnds' /\ EmitIsSent' /\ UNCHANGED dropped
      BY <1>1, <1>10, DoneKeepsSent DEF Persisted
    <2>2. CASE Answered(Policy, "emit") /\ alerted' = alerted \cup {job[Policy].ev}
      <3>1. /\ job[Policy].st = "emit" /\ call[Policy].at = "returned"
        BY <1>1, <2>2, PolicyAnswered
      <3>2. db[job[Policy].ev] = "sent" \/ job[Policy].ev \in overwritten
        BY <1>1, <3>1 DEF EmitIsSent, Wrote, Writes
      <3>3. KeptIsSent'
        BY <1>1, <2>2, <3>2 DEF KeptIsSent, Kept
      <3> QED BY <1>1, <2>1, <3>3 DEF SentInv, NoSilentDrop
    <2>3. CASE UNCHANGED alerted
      BY <1>2, <2>1, <2>3 DEF told
    <2> QED BY <1>10, <2>2, <2>3 DEF Persisted, Subject
  <1>11. CASE Recover
    <2>1. CASE Done(Policy) /\ UNCHANGED told
      BY <1>1, <1>2, <2>1, DoneKeepsSent
    <2> DEFINE e == call[Policy].ev
               s == call[Policy].val
    <2>2. CASE /\ s \in State
               /\ dropped' = IF Notified(e, s) THEN dropped ELSE dropped \cup ({e} \cap alerted)
               /\ alerted' = IF Notified(e, s) THEN alerted \ {e} ELSE alerted
               /\ Job(Policy, "forget", e) /\ Calling(Policy, "Delete", e, None)
      <3>1. e \in Event /\ call[Policy].at = "returned"
        BY <1>1, <1>11, <2>2, PolicyAnswered DEF Recover
      <3>2. Asks("forget", e, "Delete", e, None)
        BY <1>1, <2>2, <3>1, JobTakes DEF Asks, PolicyJob
      <3>3. ~Notified(e, s) => ~Kept(e)
        BY <1>1, <2>2, <3>1 DEF Notified, State, UnsentIsNotKept
      <3>4. /\ alerted' \subseteq alerted /\ e \notin alerted' \ overwritten'
            /\ dropped' \subseteq overwritten'
        BY <1>1, <2>2, <3>3 DEF Kept, NoSilentDrop, Calm
      <3> HIDE DEF e, s
      <3>5. UnsentIsNotKept' /\ BeginsOrEnds' /\ EmitIsSent'
        BY <1>4, <3>1, <3>2, <3>4 DEF PolicyJob, Writes, Ops
      <3>6. KeptIsSent' /\ NoSilentDrop'
        BY <1>1, <3>4 DEF KeptIsSent, Kept, NoSilentDrop
      <3> QED BY <3>5, <3>6 DEF SentInv
    <2> QED BY <1>11, <2>1, <2>2 DEF Recover, Answer
  <1>12. CASE Forgotten
    BY <1>1, <1>2, <1>12, DoneKeepsSent DEF Forgotten
  <1> QED BY <1>5, <1>6, <1>7, <1>8, <1>9, <1>10, <1>11, <1>12 DEF PolicyStep
LEMMA SentStep ==
    ASSUME LinkedInv, SentInv, [Next]_vars
    PROVE  SentInv'
  <1> SUFFICES ASSUME Calm' PROVE SentInv'
    BY DEF SentInv
  <1>1. TypeInv /\ LinkInv /\ CallInv /\ Policy \in Thread /\ outages \in Nat
    BY ThreadFacts DEF LinkedInv, TypeInv, HistoryInv
  <1>2. ASSUME UNCHANGED <<db, told, overwritten, outages>>, UNCHANGED call[Policy], UNCHANGED job[Policy]
        PROVE  SentInv'
    BY <1>2 DEF SentInv, KeptIsSent, UnsentIsNotKept, BeginsOrEnds, EmitIsSent, NoSilentDrop,
                Kept, Wrote, Calm, told
  <1>3. ASSUME NEW t \in Thread, Storage(t)
        PROVE  SentInv'
    <2>1. Calm
      BY <1>3 DEF Storage, Lock, Dial, Verify, Read, Set, AddIndexes, Del, RemoveIndexes, Rest, faults, Calm
    <2> QED BY <1>1, <1>3, <2>1, StorageKeepsSent
  <1>4. CASE PolicyStep
    <2>1. Calm
      BY <1>4 DEF PolicyStep, ReadDisk, UpdateExisting, NameEvent, CreateEvent,
                  Created, Persisted, Recover, Forgotten, Away, faults, Calm
    <2> QED BY <1>1, <1>4, <2>1, PolicyKeepsSent
  <1>5. ASSUME NEW t \in Other, OtherStep(t)
        PROVE  SentInv'
    <2>1. UNCHANGED <<db, told, overwritten, outages>>
      BY <1>5 DEF OtherStep, Scanned, UpdateAlertState, Updated, Ask, Away, faults, redis, scanned
    <2>2. UNCHANGED call[Policy] /\ UNCHANGED job[Policy]
      BY <1>1, <1>5, OtherIsQuiet, ThreadFacts
    <2> QED BY <1>2, <2>1, <2>2
  <1>6. CASE Restart
    <2>1. /\ UNCHANGED <<db, told, overwritten, outages>>
          /\ job'[Policy] = Idle /\ call'[Policy] = NoCall
      BY <1>1, <1>6, FreshKeeps DEF Restart, redis, scanned
    <2>2. NoCall.val # "unsent"
      BY NoCallFacts, NoneAndFailedAreNoStates DEF State
    <2> QED BY <2>1, <2>2, NoCallFacts, IdleFacts
            DEF SentInv, KeptIsSent, UnsentIsNotKept, BeginsOrEnds, EmitIsSent, NoSilentDrop,
                Kept, Calm, told
  <1>7. CASE Close \/ Exit \/ Back \/ Over \/ UNCHANGED vars
    BY <1>2, <1>7 DEF Close, Exit, Back, Over, vars, redis, faults, told, scanned
  <1>8. CASE Outage
    BY <1>1, <1>8 DEF Outage, Calm
  <1>9. ASSUME NEW t \in Thread, Panic(t)
        PROVE  SentInv'
    BY <1>2, <1>9 DEF Panic, redis, faults, scanned
  <1>10. ASSUME NEW t \in Thread, Work(t)
         PROVE  SentInv'
    <2>1. Storage(t) \/ Panic(t) \/ PolicyStep \/ (t \in Other /\ OtherStep(t))
      BY <1>10 DEF Work, OtherStep, Thread
    <2> QED BY <1>3, <1>4, <1>5, <1>9, <1>10, <2>1
  <1> QED BY <1>6, <1>7, <1>8, <1>10 DEF Next

LEMMA SentInit == Init => SentInv
  BY NoCallFacts, IdleFacts, ThreadFacts, NoneAndFailedAreNoStates
     DEF Init, SentInv, KeptIsSent, UnsentIsNotKept, BeginsOrEnds, EmitIsSent, NoSilentDrop, Kept, State

\* While calls work, handleRecovery takes no alerted event for one nobody was
\* told of, not even after a restart that lost lastAlertTimes: every alert not
\* recovered is on record in Redis, unless a scan wrote its old state over it.
THEOREM AlertsAreRemembered == Spec => []NoSilentDrop
  <1>1. LinkedInv /\ SentInv /\ [Next]_vars => (LinkedInv /\ SentInv)'
    BY LinkedStep, SentStep
  <1>2. SentInv => NoSilentDrop
    BY DEF SentInv, NoSilentDrop, Calm
  <1> QED BY LinkedInit, SentInit, <1>1, <1>2, PTL DEF Spec
-----------------------------------------------------------------------------
(* One event at a time, as long as calls work and no scan revives one.      *)

\* Only a write of the policy stores an event that was not there.
LEMMA NewlyStored ==
    ASSUME TypeInv, Calm, StoredInv, NEW t \in Thread, Storage(t), ~revived',
           NEW e \in Event, db'[e] # None
    PROVE  db[e] # None \/ (t = Policy /\ job[Policy].st \in Writes /\ e = job[Policy].ev)
  <1>1. CallInv /\ RedisInv
    BY DEF TypeInv
  <1>2. CASE Set(t)
    <2>1. /\ call[t].val \in State /\ call[t].ev \in Event /\ call[t].ev = job[t].ev
          /\ t = Policy => job[t].st \in Writes
      BY <1>1, <1>2, SetFacts
    <2>2. CASE UNCHANGED db
      BY <2>2
    <2>3. CASE /\ db' = [db EXCEPT ![call[t].ev] = call[t].val]
               /\ revived' = (revived \/ (t # Policy /\ call[t].ev \notin open /\ db[call[t].ev] = None))
      <3>1. e # call[t].ev => db[e] # None
        BY <1>1, <2>3 DEF RedisInv
      <3>2. t # Policy => db[call[t].ev] # None
        BY <2>3 DEF StoredInv, OpenIsIndexed, Calm
      <3> QED BY <2>1, <3>1, <3>2
    <2> QED BY <1>2, <2>2, <2>3 DEF Set
  <1>3. CASE Del(t)
    BY <1>1, <1>3 DEF Del, RedisInv
  <1>4. CASE Lock(t) \/ Dial(t) \/ Verify(t) \/ Read(t) \/ AddIndexes(t) \/ RemoveIndexes(t)
    BY <1>4 DEF Lock, Dial, Verify, Read, AddIndexes, RemoveIndexes, redis
  <1> QED BY <1>2, <1>3, <1>4 DEF Storage

LEMMA FindableGrows ==
    ASSUME TypeInv, Calm, StoredInv, NEW t \in Thread, Storage(t), ~revived', NEW e \in Findable'
    PROVE  e \in Findable \/ (t = Policy /\ job[Policy].st \in Writes /\ e = job[Policy].ev)
  <1>1. CallInv /\ RedisInv /\ UNCHANGED job /\ e \in Event /\ db'[e] # None
    BY StorageKeeps DEF TypeInv, Findable
  <1>2. db[e] # None \/ (t = Policy /\ job[Policy].st \in Writes /\ e = job[Policy].ev)
    BY <1>1, NewlyStored
  <1>3. \/ index' \subseteq index
        \/ /\ call[t].at = "sadd" /\ index' \subseteq index \cup {call[t].ev}
    BY DEF Storage, Lock, Dial, Verify, Read, Set, AddIndexes, Del, RemoveIndexes, redis, Usable, At
  <1>4. ASSUME call[t].at = "sadd"
        PROVE  call[t].ev = job[t].ev
    <2>1. call[t].at \in Commands /\ Due(call[t]) = "sadd"
      BY <1>4 DEF Due, Waits, Commands
    <2>2. /\ call[t].op = "Set" /\ call[t].op \in OpsOf(t, job[t].st) /\ Serves(t, job[t], call[t])
      BY <1>1, <2>1, UnderWay, CommandsOfFacts DEF CallInv
    <2>3. job[t].st \notin {"idle", "find", "recover"}
      <3>1. "Set" \notin ReaderOps
        BY StorageConstants
      <3> QED BY <2>2, <3>1 DEF OpsOf
    <2> QED BY <2>2, <2>3 DEF Serves
  <1>5. e \in index' \/ \E u \in Thread : job[u].ev = e
    BY <1>1 DEF Findable
  <1>6. e \in index \/ \E u \in Thread : job[u].ev = e
    BY <1>3, <1>4, <1>5
  <1> QED BY <1>1, <1>2, <1>6 DEF Findable

\* What a deletion of the policy has done.
LEMMA PolicyDeletes ==
    ASSUME TypeInv, LinkInv, Calm, Storage(Policy), job[Policy].st = "forget",
           call'[Policy].at \in {"srem", "returned"}
    PROVE  \/ db'[job[Policy].ev] = None
           \/ call[Policy].at = "srem" /\ UNCHANGED db
  <1>1. CallInv /\ RedisInv /\ reachable /\ Policy \in Thread
    BY ThreadFacts DEF TypeInv, LinkInv
  <1>2. call[Policy].at \in Waits \cup Commands
    BY DEF Storage, Lock, Dial, Verify, Read, Set, AddIndexes, Del, RemoveIndexes, Usable, At,
           Waits, Commands
  <1>3. /\ call[Policy].op = "Delete" /\ Due(call[Policy]) \in {"inner", "get", "del", "srem"}
        /\ call[Policy].ev = job[Policy].ev /\ job[Policy].ev \in Event
    <2>1. /\ call[Policy].op \in OpsOf(Policy, job[Policy].st)
          /\ Due(call[Policy]) \in CommandsOf(call[Policy].op) /\ Serves(Policy, job[Policy], call[Policy])
      BY <1>1, <1>2, UnderWay DEF CallInv
    <2>2. call[Policy].op = "Delete"
      BY <2>1 DEF OpsOf
    <2>3. Due(call[Policy]) \in {"inner", "get", "del", "srem"}
      BY <2>1, <2>2, CommandsOfFacts DEF Ops
    <2> QED BY <2>1, <2>2, <2>3 DEF Serves
  <1>4. CASE Lock(Policy) \/ Dial(Policy) \/ Verify(Policy)
    <2>1. PICK c : /\ Becomes(Policy, c) /\ c.at \in Waits \cup Commands
                   /\ Due(c) = Due(call[Policy]) \/ (Due(call[Policy]) = "inner" /\ Due(c) = "get")
      BY <1>1, <1>4, WaitMoves
    <2>2. c.at = "srem" /\ Due(c) = "srem"
      BY <1>1, <2>1, BecomesFacts DEF Waits, Commands, Due
    <2>3. call[Policy].at \in Waits
      BY <1>1, <1>4, WaitMoves
    <2>4. call[Policy].then # "srem"
      BY <1>1, <1>3, <2>3 DEF CallInv, Shaped
    <2> QED BY <1>3, <2>1, <2>2, <2>3, <2>4 DEF Due
  <1>5. CASE Read(Policy)
    <2>1. call[Policy].at = "get" /\ Got(Policy, db[call[Policy].ev])
      BY <1>1, <1>3, <1>5 DEF Read, Usable, At, Due, Waits
    <2>2. call[Policy].at \in Commands /\ Due(call[Policy]) = "get"
      BY <2>1 DEF Due, Waits, Commands
    <2>3. PICK c : Becomes(Policy, c) /\ c.at = "del"
      BY <1>1, <1>3, <2>1, <2>2, GotBecomes DEF RedisInv
    <2> QED BY <1>1, <2>3, BecomesFacts
  <1>6. CASE Set(Policy) \/ AddIndexes(Policy)
    BY <1>3, <1>6 DEF Set, AddIndexes, Usable, At, Due, Waits
  <1>7. CASE Del(Policy)
    BY <1>1, <1>3, <1>7 DEF Del, RedisInv
  <1>8. CASE RemoveIndexes(Policy)
    BY <1>8 DEF RemoveIndexes, Usable, At
  <1> QED BY <1>4, <1>5, <1>6, <1>7, <1>8 DEF Storage

\* How a lookup of the policy goes on: with the first of ids, if there is one.
GoesOnWith(ids) ==
    LET c == call'[Policy]
    IN \/ ids = {} /\ c.at = "returned"
       \/ \E e \in ids : c.at = "lock" /\ Due(c) = "get" /\ c.ev = e /\ c.ids = ids \ {e}

LEMMA LookupGoesOn ==
    ASSUME TypeInv, LinkInv, Calm, Storage(Policy), job[Policy].st \in {"find", "recover"}
    PROVE  /\ UNCHANGED <<db, index>>
           /\ \/ /\ call'[Policy].at # "returned" /\ Due(call'[Policy]) = Due(call[Policy])
                 /\ call'[Policy].ev = call[Policy].ev /\ call'[Policy].ids = call[Policy].ids
              \/ /\ Due(call[Policy]) = "get" /\ db[call[Policy].ev] # None
                 /\ call'[Policy].at = "returned" /\ call'[Policy].val \in State
                 /\ call'[Policy].ev = call[Policy].ev
              \/ /\ Due(call[Policy]) = "get" /\ db[call[Policy].ev] = None
                 /\ GoesOnWith(call[Policy].ids)
              \/ Due(call[Policy]) = "members" /\ GoesOnWith(index)
  <1>1. CallInv /\ RedisInv /\ reachable /\ Policy \in Thread
    BY ThreadFacts DEF TypeInv, LinkInv
  <1>2. call[Policy].at \in Waits \cup Commands
    BY DEF Storage, Lock, Dial, Verify, Read, Set, AddIndexes, Del, RemoveIndexes, Usable, At,
           Waits, Commands
  <1>3. /\ call[Policy].op = "ByType" /\ Due(call[Policy]) \in {"members", "get"}
        /\ Due(call[Policy]) = "get" => call[Policy].ev \in Event
        /\ call[Policy].ids \in SUBSET Event
    <2>1. /\ call[Policy].op \in OpsOf(Policy, job[Policy].st)
          /\ Due(call[Policy]) \in CommandsOf(call[Policy].op)
          /\ Due(call[Policy]) # "members" => call[Policy].ev \in Event
          /\ call[Policy].ids \in SUBSET Event
      BY <1>1, <1>2, UnderWay
    <2>2. call[Policy].op = "ByType"
      BY <2>1 DEF OpsOf
    <2> QED BY <2>1, <2>2, CommandsOfFacts DEF Ops
  <1>4. ASSUME NEW v \in State \cup {None}, Return(Policy, v)
        PROVE  /\ call'[Policy].at = "returned" /\ call'[Policy].val = v
               /\ v \in State => call'[Policy].ev = call[Policy].ev
    <2>1. PICK c : /\ Becomes(Policy, c)
                   /\ \/ job[Policy].st = "idle" /\ c = NoCall
                      \/ /\ job[Policy].st # "idle" /\ c.at = "returned" /\ c.op = "none" /\ c.val = v
                         /\ c.ev = IF v \in State THEN call[Policy].ev ELSE None
      BY <1>1, <1>4, ReturnBecomes
    <2>2. c.at = "returned" /\ c.val = v /\ (v \in State => c.ev = call[Policy].ev)
      BY <2>1
    <2>3. call'[Policy] = c
      BY <1>1, <2>1, BecomesFacts
    <2> QED BY <2>2, <2>3
  <1>5. ASSUME NEW ids \in SUBSET Event, NextId(Policy, ids)
        PROVE  GoesOnWith(ids)
    <2>1. CASE ids = {} /\ Return(Policy, None)
      BY <1>4, <2>1 DEF GoesOnWith
    <2>2. ASSUME NEW c, NEW e \in ids,
                 Becomes(Policy, c) /\ c.at = "lock" /\ c.then = "get" /\ c.ev = e /\ c.ids = ids \ {e}
          PROVE  GoesOnWith(ids)
      BY <1>1, <2>2, BecomesFacts DEF GoesOnWith, Due, Waits
    <2> QED BY <1>1, <1>5, <2>1, <2>2, NextIdBecomes
  <1>6. CASE Lock(Policy) \/ Dial(Policy) \/ Verify(Policy)
    <2>1. PICK c : /\ Becomes(Policy, c) /\ c.at \in Waits \cup Commands
                   /\ c.ev = call[Policy].ev /\ c.ids = call[Policy].ids
                   /\ Due(c) = Due(call[Policy]) \/ (Due(call[Policy]) = "inner" /\ Due(c) = "get")
      BY <1>1, <1>6, WaitMoves
    <2>2. c.at # "returned" /\ Due(c) = Due(call[Policy])
      BY <1>3, <2>1 DEF Waits, Commands
    <2>3. call'[Policy] = c
      BY <1>1, <2>1, BecomesFacts
    <2>4. UNCHANGED <<db, index>>
      BY <1>1, <1>6, WaitMoves
    <2> QED BY <2>1, <2>2, <2>3, <2>4
  <1>7. CASE Read(Policy)
    <2>1. UNCHANGED <<db, index>>
      BY <1>7 DEF Read, redis
    <2>2. CASE call[Policy].at = "get" /\ Got(Policy, db[call[Policy].ev])
      <3>1. Due(call[Policy]) = "get" /\ call[Policy].at \in Commands
        BY <2>2 DEF Due, Waits, Commands
      <3>2. db[call[Policy].ev] \in State \cup {None} /\ call[Policy].ev \in Event
        BY <1>1, <1>3, <3>1 DEF RedisInv
      <3>3. CASE db[call[Policy].ev] \in State
        <4>1. Return(Policy, db[call[Policy].ev])
          BY <1>1, <1>3, <2>2, <3>1, <3>2, <3>3, GotBecomes
        <4> QED BY <1>4, <2>1, <3>1, <3>2, <3>3, <4>1, NoneAndFailedAreNoStates
      <3>4. CASE db[call[Policy].ev] = None
        <4>1. NextId(Policy, call[Policy].ids)
          BY <1>1, <1>3, <2>2, <3>1, <3>2, <3>4, GotBecomes, NoneAndFailedAreNoStates
        <4> QED BY <1>3, <1>5, <2>1, <3>1, <3>4, <4>1
      <3> QED BY <3>2, <3>3, <3>4
    <2>3. CASE call[Policy].at = "members" /\ NextId(Policy, index)
      <3>1. Due(call[Policy]) = "members"
        BY <2>3 DEF Due, Waits
      <3> QED BY <1>1, <1>5, <2>1, <2>3, <3>1 DEF RedisInv
    <2> QED BY <1>1, <1>3, <1>7, <2>2, <2>3 DEF Read, Usable, At, Due, Waits
  <1>8. CASE Set(Policy) \/ AddIndexes(Policy) \/ Del(Policy) \/ RemoveIndexes(Policy)
    BY <1>3, <1>8 DEF Set, AddIndexes, Del, RemoveIndexes, Usable, At, Due, Waits
  <1> QED BY <1>6, <1>7, <1>8 DEF Storage
LEMMA StorageKeepsOne ==
    ASSUME TypeInv, LinkInv, Calm, StoredInv, OneInv, NEW t \in Thread, Storage(t), ~revived'
    PROVE  OneInv'
  <1>1. /\ CallInv /\ RedisInv /\ Policy \in Thread /\ UNCHANGED job /\ CallInv'
        /\ AtMostOne /\ LookupFinds /\ WorksOnIt /\ ScannedIsIndexed /\ DeletedIsGone
    <2>1. ~revived
      BY DEF Storage, Lock, Dial, Verify, Read, Set, AddIndexes, Del, RemoveIndexes, scanned
    <2> QED BY <2>1, StorageKeeps, ThreadFacts DEF TypeInv, OneInv
  <1>2. t # Policy => call'[Policy] = call[Policy]
    BY <1>1, StorageBecomes, BecomesFacts
  <1>3. \A e \in Findable' : e \in Findable \/ (job[Policy].st \in Writes /\ e = job[Policy].ev)
    BY FindableGrows
  <1>4. job[Policy].st \in Writes => job[Policy].st \notin {"idle", "find", "recover", "forget"}
    BY DEF Writes
  <1>5. AtMostOne' /\ WorksOnIt'
    BY <1>1, <1>3, <1>4 DEF AtMostOne, WorksOnIt
  <1>6. LookupFinds'
    <2> SUFFICES ASSUME job[Policy].st \in {"find", "recover"}
                 PROVE  LookupFinds'
      BY <1>1 DEF LookupFinds
    <2>1. Findable' \subseteq Findable
      BY <1>3, <1>4
    <2>2. CASE t # Policy
      <3>1. index \subseteq index'
        BY <2>2, Deletes
      <3> QED BY <1>1, <1>2, <2>1, <2>2, <3>1 DEF LookupFinds
    <2>3. CASE t = Policy
      <3>1. UNCHANGED <<db, index>> /\ Findable' = Findable
        BY <1>1, <2>3, LookupGoesOn DEF Findable
      <3>2. CASE /\ call'[Policy].at # "returned" /\ Due(call'[Policy]) = Due(call[Policy])
                 /\ call'[Policy].ev = call[Policy].ev /\ call'[Policy].ids = call[Policy].ids
        BY <1>1, <3>1, <3>2 DEF LookupFinds
      \* The answer is a state of the index, so it is the one.
      <3>3. CASE /\ Due(call[Policy]) = "get" /\ db[call[Policy].ev] # None
                 /\ call'[Policy].at = "returned" /\ call'[Policy].val \in State
                 /\ call'[Policy].ev = call[Policy].ev
        <4>1. call[Policy].ev \in index
          BY <1>1, <3>3 DEF LookupFinds
        <4>2. call[Policy].ev \in Findable
          BY <1>1, <3>3, <4>1 DEF Findable, RedisInv
        <4>3. Due(call'[Policy]) # "get"
          BY <3>3 DEF Due, Waits
        <4> QED BY <1>1, <3>1, <3>3, <4>2, <4>3 DEF LookupFinds, AtMostOne
      <3>4. ASSUME NEW ids \in SUBSET index, Findable \subseteq ids, GoesOnWith(ids)
            PROVE  LookupFinds'
        <4>1. CASE ids = {} /\ call'[Policy].at = "returned"
          <5>1. Due(call'[Policy]) # "get" /\ Findable' = {}
            BY <3>1, <3>4, <4>1 DEF Due, Waits
          <5> QED BY <5>1 DEF LookupFinds
        <4>2. ASSUME NEW e \in ids, call'[Policy].at = "lock", call'[Policy].ev = e,
                     call'[Policy].ids = ids \ {e}
              PROVE  LookupFinds'
          <5>1. call'[Policy].ids \cup {call'[Policy].ev} = ids
            BY <4>2
          <5> QED BY <3>1, <3>4, <4>2, <5>1 DEF LookupFinds
        <4> QED BY <3>4, <4>1, <4>2 DEF GoesOnWith
      <3>5. CASE /\ Due(call[Policy]) = "get" /\ db[call[Policy].ev] = None
                 /\ GoesOnWith(call[Policy].ids)
        <4>1. call[Policy].ev \notin Findable
          BY <3>5 DEF Findable
        <4>2. Findable \subseteq call[Policy].ids /\ call[Policy].ids \subseteq index
          BY <1>1, <3>5, <4>1 DEF LookupFinds
        <4> QED BY <3>4, <3>5, <4>2
      <3>6. CASE Due(call[Policy]) = "members" /\ GoesOnWith(index)
        <4>1. Findable \subseteq index
          <5>1. job[Policy].ev = None /\ job[Policy].st \notin Writes \cup {"forget"}
            BY <1>1, <1>4 DEF CallInv, Serves
          <5>2. ASSUME NEW e \in Event, db[e] # None, NEW u \in Thread, job[u].ev = e
                PROVE  e \in index
            <6>1. u # Policy
              BY <5>1, <5>2, StorageConstants
            <6> QED BY <1>1, <5>1, <5>2, <6>1 DEF ScannedIsIndexed, Thread
          <5> QED BY <5>2 DEF Findable
        <4> QED BY <3>4, <3>6, <4>1
      <3> QED BY <1>1, <2>3, <3>2, <3>3, <3>5, <3>6, LookupGoesOn
    <2> QED BY <2>2, <2>3
  <1>7. ScannedIsIndexed'
    <2> SUFFICES ASSUME NEW u \in Other, job[u].ev \in Event, db'[job[u].ev] # None
                 PROVE  \/ job[u].ev \in index'
                        \/ job[Policy].st \in Writes \cup {"forget"} /\ job[Policy].ev = job[u].ev
      BY <1>1 DEF ScannedIsIndexed
    <2>1. CASE db[job[u].ev] = None
      BY <2>1, NewlyStored
    <2>2. CASE db[job[u].ev] # None
      BY <1>1, <2>2, Deletes DEF ScannedIsIndexed
    <2> QED BY <2>1, <2>2
  <1>8. DeletedIsGone'
    <2> SUFFICES ASSUME job[Policy].st = "forget", call'[Policy].at \in {"srem", "returned"},
                        db'[job[Policy].ev] # None
                 PROVE  FALSE
      BY <1>1 DEF DeletedIsGone
    <2>1. job[Policy].ev \in Event
      BY <1>1 DEF CallInv, Serves
    <2>2. db[job[Policy].ev] # None
      BY <1>4, <2>1, NewlyStored
    <2>3. CASE t # Policy
      BY <1>1, <1>2, <2>2, <2>3 DEF DeletedIsGone
    <2>4. CASE t = Policy
      BY <1>1, <2>2, <2>4, PolicyDeletes DEF DeletedIsGone
    <2> QED BY <2>3, <2>4
  <1> QED BY <1>5, <1>6, <1>7, <1>8 DEF OneInv
\* The policy is done with its event.
LEMMA DoneKeepsOne ==
    ASSUME CallInv, OneInv, Calm, ~revived, Done(Policy), UNCHANGED <<db, index>>,
           job[Policy].st \in Writes \cup {"forget"} =>
               job[Policy].ev \in index \/ db[job[Policy].ev] = None
    PROVE  OneInv'
  <1>1. AtMostOne /\ ScannedIsIndexed
    BY DEF OneInv
  <1>2. /\ job'[Policy].st = "idle" /\ job'[Policy].ev = None
        /\ \A u \in Other : job'[u] = job[u]
    BY IdleFacts, ThreadFacts DEF Done, CallInv
  <1>3. Findable' \subseteq Findable
    BY <1>2, StorageConstants DEF Findable, Thread
  <1>4. ScannedIsIndexed'
    BY <1>1, <1>2 DEF ScannedIsIndexed
  <1>5. AtMostOne'
    BY <1>1, <1>3 DEF AtMostOne
  <1> QED BY <1>2, <1>4, <1>5 DEF OneInv, LookupFinds, WorksOnIt, DeletedIsGone

\* The policy turns to the one event there may be.
LEMMA TakesKeepsOne ==
    ASSUME CallInv, OneInv, Calm, ~revived, UNCHANGED <<db, index>>,
           NEW e \in Event, NEW st \in PolicyJob \ {"idle", "find", "recover"}, Takes(st, e),
           call'[Policy].at = "lock", Findable \subseteq {e},
           st \in Writes \cup {"forget"} \/ db[e] = None,
           job[Policy].st \in Writes \cup {"forget"} => job[Policy].ev = e
    PROVE  OneInv'
  <1>1. ScannedIsIndexed
    BY DEF OneInv
  <1>2. /\ job'[Policy].st = st /\ job'[Policy].ev = e
        /\ \A u \in Other : job'[u] = job[u] \/ job'[u].ev = e
    BY DEF Takes
  <1>3. Findable' \subseteq {e}
    BY <1>2, StorageConstants DEF Findable, Thread
  <1>4. ScannedIsIndexed'
    BY <1>1, <1>2 DEF ScannedIsIndexed
  <1>5. AtMostOne' /\ WorksOnIt'
    BY <1>2, <1>3 DEF AtMostOne, WorksOnIt
  <1>6. LookupFinds' /\ DeletedIsGone'
    BY <1>2 DEF LookupFinds, DeletedIsGone
  <1> QED BY <1>4, <1>5, <1>6 DEF OneInv

LEMMA PolicyKeepsOne ==
    ASSUME TypeInv, Calm, StoredInv, OneInv, PolicyStep, ~revived
    PROVE  OneInv'
  <1>1. /\ CallInv /\ RedisInv /\ UsedInv /\ HistoryInv /\ Policy \in Thread
        /\ UNCHANGED <<db, index>> /\ call'[Policy].at \in {"lock", "none"}
        /\ AtMostOne /\ LookupFinds /\ WorksOnIt /\ ScannedIsIndexed /\ DeletedIsGone
    BY PolicyKeeps, PolicyIsQuiet, ThreadFacts DEF TypeInv, OneInv
  <1>2. ASSUME NEW e \in Event, NEW s \in State, EvaluatedNow(e, s), Findable \subseteq {e},
               job[Policy].st \in Writes \cup {"forget"} => job[Policy].ev = e
        PROVE  OneInv'
    <2>1. PICK st \in {"hold", "emit"} : \E v \in State : Asks(st, e, "Set", e, v)
      BY <1>2 DEF EvaluatedNow, State
    <2>2. Takes(st, e) /\ call'[Policy].at = "lock"
      BY <1>1, <2>1, AsksFacts DEF Asks, Ops
    <2>3. st \in PolicyJob \ {"idle", "find", "recover"} /\ st \in Writes
      BY DEF PolicyJob, Writes
    <2> QED BY <1>1, <1>2, <2>2, <2>3, TakesKeepsOne
  <1>3. "unsent" \in State
    BY DEF State
  <1>4. CASE ReadDisk
    <2>1. PICK st \in {"recover", "find"} : Job(Policy, st, None)
      BY <1>4 DEF ReadDisk
    <2>2. Asks(st, None, "ByType", None, None) /\ UNCHANGED <<open>>
      BY <1>1, <1>4, <2>1, JobTakes DEF ReadDisk, Asks, PolicyJob
    <2>3. /\ job'[Policy].st = st /\ job'[Policy].ev = None
          /\ \A u \in Other : job'[u] = job[u]
      BY <1>1, <2>1, ThreadFacts DEF Job, CallInv
    <2>4. Findable' \subseteq Findable
      BY <1>1, <2>3, StorageConstants DEF Findable, Thread
    <2>5. Due(call'[Policy]) = "members" /\ call'[Policy].at = "lock"
      <3>1. PICK c : Becomes(Policy, c) /\ c.at = "lock" /\ c.then = First("ByType")
        BY <1>1, <2>2, CallingBecomes DEF Asks, Ops
      <3> QED BY <1>1, <3>1, BecomesFacts DEF Due, Waits, First
    <2>6. job[Policy].st = "idle"
      BY <1>4 DEF ReadDisk, Is
    <2>7. ScannedIsIndexed'
      BY <1>1, <2>3, <2>6 DEF ScannedIsIndexed, Writes
    <2>8. AtMostOne'
      BY <1>1, <2>4 DEF AtMostOne
    <2> QED BY <2>3, <2>5, <2>7, <2>8 DEF OneInv, LookupFinds, WorksOnIt, DeletedIsGone
  <1>5. CASE UpdateExisting
    <2>1. /\ call[Policy].ev \in Event /\ call[Policy].val \in State
          /\ call[Policy].at = "returned" /\ job[Policy].st = "find"
      BY <1>1, <1>5, PolicyAnswered DEF UpdateExisting, Answer
    <2>2. EvaluatedNow(call[Policy].ev, call[Policy].val)
      BY <1>1, <1>5, <2>1, EvaluatedAsks DEF UpdateExisting, Answer, EvaluatedNow
    <2>3. Findable \subseteq {call[Policy].ev}
      BY <1>1, <2>1 DEF LookupFinds
    <2> QED BY <1>2, <2>1, <2>2, <2>3 DEF Writes
  <1>6. CASE NameEvent
    <2>1. PICK e \in Event \ used : Job(Policy, "name", e) /\ Calling(Policy, "Exists", e, None)
      BY <1>6 DEF NameEvent
    <2>2. /\ call[Policy].val \notin State /\ call[Policy].at = "returned" /\ job[Policy].st = "find"
      BY <1>1, <1>6, PolicyAnswered DEF NameEvent, Answer
    <2>3. Findable = {}
      BY <1>1, <2>2 DEF LookupFinds
    <2>4. Asks("name", e, "Exists", e, None)
      BY <1>1, <2>1, JobTakes DEF Asks, PolicyJob
    <2>5. Takes("name", e) /\ call'[Policy].at = "lock"
      BY <1>1, <2>4, AsksFacts DEF Asks, Ops
    <2>6. db[e] = None
      BY <1>1, <2>1 DEF UsedInv
    <2> QED BY <1>1, <2>2, <2>3, <2>5, <2>6, TakesKeepsOne DEF PolicyJob, Writes
  <1>7. CASE CreateEvent
    <2>1. /\ job[Policy].ev \in Event /\ job[Policy].st = "name"
      BY <1>1, <1>7, PolicyAnswered DEF CreateEvent
    <2>2. Findable \subseteq {job[Policy].ev}
      BY <1>1, <2>1 DEF WorksOnIt
    <2>3. CASE Job(Policy, "create", job[Policy].ev)
               /\ Calling(Policy, "Set", job[Policy].ev, "unsent")
      <3>1. Asks("create", job[Policy].ev, "Set", job[Policy].ev, "unsent")
        BY <1>1, <2>1, <2>3, JobTakes DEF Asks, PolicyJob
      <3>2. Takes("create", job[Policy].ev) /\ call'[Policy].at = "lock"
        BY <1>1, <1>3, <2>1, <3>1, AsksFacts DEF Asks, Ops
      <3>3. "create" \in PolicyJob \ {"idle", "find", "recover"} /\ "create" \in Writes
        BY DEF PolicyJob, Writes
      <3> QED BY <1>1, <2>1, <2>2, <3>2, <3>3, TakesKeepsOne
    <2>4. CASE Evaluated(job[Policy].ev, "unsent", TRUE)
      <3>1. EvaluatedNow(job[Policy].ev, "unsent")
        BY <1>1, <1>3, <2>1, <2>4, EvaluatedAsks DEF EvaluatedNow
      <3> QED BY <1>2, <1>3, <2>1, <2>2, <3>1
    <2> QED BY <1>7, <2>3, <2>4 DEF CreateEvent, Subject
  <1>8. CASE Created
    <2>1. /\ job[Policy].ev \in Event /\ job[Policy].st = "create" /\ call[Policy].at = "returned"
      BY <1>1, <1>8, PolicyAnswered DEF Created
    <2>2. Findable \subseteq {job[Policy].ev} /\ job[Policy].ev \in index
      BY <1>1, <2>1 DEF WorksOnIt, StoredInv, Indexed, Writes
    <2>3. CASE Done(Policy)
      BY <1>1, <2>2, <2>3, DoneKeepsOne
    <2>4. CASE Evaluated(job[Policy].ev, "unsent", TRUE)
      <3>1. EvaluatedNow(job[Policy].ev, "unsent")
        BY <1>1, <1>3, <2>1, <2>4, EvaluatedAsks DEF EvaluatedNow
      <3> QED BY <1>2, <1>3, <2>1, <2>2, <3>1
    <2> QED BY <1>8, <2>3, <2>4 DEF Created, Subject
  <1>9. CASE Persisted
    <2>1. PICK st \in Writes : Answered(Policy, st)
      BY <1>9 DEF Persisted, Writes
    <2>2. job[Policy].ev \in index
      BY <1>1, <2>1, PolicyAnswered DEF StoredInv, Indexed
    <2> QED BY <1>1, <1>9, <2>2, DoneKeepsOne DEF Persisted
  <1>10. CASE Recover
    <2>1. call[Policy].at = "returned" /\ job[Policy].st = "recover"
      BY <1>1, <1>10, PolicyAnswered DEF Recover
    <2>2. CASE Done(Policy)
      BY <1>1, <2>1, <2>2, DoneKeepsOne DEF Writes
    <2>3. CASE /\ call[Policy].val \in State
               /\ Job(Policy, "forget", call[Policy].ev) /\ Calling(Policy, "Delete", call[Policy].ev, None)
      <3>1. call[Policy].ev \in Event /\ Findable \subseteq {call[Policy].ev}
        BY <1>1, <1>10, <2>1, <2>3, PolicyAnswered DEF Recover, LookupFinds
      <3>2. Asks("forget", call[Policy].ev, "Delete", call[Policy].ev, None)
        BY <1>1, <2>3, <3>1, JobTakes DEF Asks, PolicyJob
      <3>3. Takes("forget", call[Policy].ev) /\ call'[Policy].at = "lock"
        BY <1>1, <3>1, <3>2, AsksFacts DEF Asks, Ops
      <3> QED BY <1>1, <2>1, <3>1, <3>3, TakesKeepsOne DEF PolicyJob, Writes
    <2> QED BY <1>10, <2>2, <2>3 DEF Recover, Answer
  <1>11. CASE Forgotten
    <2>1. call[Policy].at = "returned" /\ job[Policy].st = "forget"
      BY <1>1, <1>11, PolicyAnswered DEF Forgotten
    <2> QED BY <1>1, <1>11, <2>1, DoneKeepsOne DEF Forgotten, DeletedIsGone
  <1> QED BY <1>4, <1>5, <1>6, <1>7, <1>8, <1>9, <1>10, <1>11 DEF PolicyStep
LEMMA OneStep ==
    ASSUME LinkedInv, StoredInv, OneInv, [Next]_vars
    PROVE  OneInv'
  <1> SUFFICES ASSUME Calm', ~revived' PROVE OneInv'
    BY DEF OneInv
  <1>1. TypeInv /\ LinkInv /\ CallInv /\ Policy \in Thread /\ outages \in Nat
    BY ThreadFacts DEF LinkedInv, TypeInv, HistoryInv
  <1>2. ASSUME UNCHANGED <<db, index, job, outages, revived>>, UNCHANGED call[Policy]
        PROVE  OneInv'
    BY <1>2 DEF OneInv, AtMostOne, LookupFinds, WorksOnIt, ScannedIsIndexed, DeletedIsGone,
                Findable, Calm
  <1>3. ASSUME NEW t \in Thread, Storage(t)
        PROVE  OneInv'
    <2>1. Calm
      BY <1>3 DEF Storage, Lock, Dial, Verify, Read, Set, AddIndexes, Del, RemoveIndexes, Rest, faults, Calm
    <2> QED BY <1>1, <1>3, <2>1, StorageKeepsOne
  <1>4. CASE PolicyStep
    <2>1. UNCHANGED <<faults, scanned>>
      BY <1>4 DEF PolicyStep, ReadDisk, UpdateExisting, NameEvent, CreateEvent,
                  Created, Persisted, Recover, Forgotten, Away
    <2>2. Calm /\ ~revived
      BY <2>1 DEF faults, scanned, Calm
    <2> QED BY <1>1, <1>4, <2>2, PolicyKeepsOne
  <1>5. ASSUME NEW t \in Other, OtherStep(t)
        PROVE  OneInv'
    <2>1. UNCHANGED <<db, index, outages, revived>>
      BY <1>5 DEF OtherStep, Scanned, UpdateAlertState, Updated, Ask, Away, faults, redis, scanned
    <2>2. /\ t \in Thread /\ t # Policy /\ call'[Policy] = call[Policy] /\ job'[Policy] = job[Policy]
          /\ \A u \in Thread : job'[u].ev \in {job[u].ev, None}
      BY <1>1, <1>5, OtherIsQuiet, ThreadFacts
    <2>3. AtMostOne /\ LookupFinds /\ WorksOnIt /\ ScannedIsIndexed /\ DeletedIsGone
      BY <2>1 DEF OneInv, Calm
    <2>4. Findable' \subseteq Findable
      BY <2>1, <2>2, StorageConstants DEF Findable
    <2>5. AtMostOne' /\ LookupFinds' /\ WorksOnIt' /\ DeletedIsGone'
      BY <2>1, <2>2, <2>3, <2>4 DEF AtMostOne, LookupFinds, WorksOnIt, DeletedIsGone
    <2>6. ScannedIsIndexed'
      BY <2>1, <2>2, <2>3, StorageConstants DEF ScannedIsIndexed, Thread
    <2> QED BY <2>5, <2>6 DEF OneInv
  <1>6. CASE Restart
    <2>1. /\ UNCHANGED <<db, index, outages, revived>>
          /\ \A u \in Thread : job'[u] = Idle
      BY <1>1, <1>6, FreshKeeps DEF Restart, redis, scanned
    <2>2. AtMostOne
      BY <2>1 DEF OneInv, Calm
    <2>3. Findable' \subseteq Findable
      BY <2>1, IdleFacts, StorageConstants DEF Findable
    <2>4. ScannedIsIndexed'
      BY <2>1, IdleFacts, StorageConstants DEF ScannedIsIndexed, Thread
    <2>5. AtMostOne'
      BY <2>2, <2>3 DEF AtMostOne
    <2> QED BY <1>1, <2>1, <2>4, <2>5, IdleFacts DEF OneInv, LookupFinds, WorksOnIt, DeletedIsGone
  <1>7. CASE Close \/ Exit \/ Back \/ Over \/ UNCHANGED vars
    BY <1>2, <1>7 DEF Close, Exit, Back, Over, vars, redis, faults, scanned
  <1>8. CASE Outage
    BY <1>1, <1>8 DEF Outage, Calm
  <1>9. ASSUME NEW t \in Thread, Panic(t)
        PROVE  OneInv'
    BY <1>2, <1>9 DEF Panic, redis, faults, scanned
  <1>10. ASSUME NEW t \in Thread, Work(t)
         PROVE  OneInv'
    <2>1. Storage(t) \/ Panic(t) \/ PolicyStep \/ (t \in Other /\ OtherStep(t))
      BY <1>10 DEF Work, OtherStep, Thread
    <2> QED BY <1>3, <1>4, <1>5, <1>9, <1>10, <2>1
  <1> QED BY <1>6, <1>7, <1>8, <1>10 DEF Next

LEMMA OneInit == Init => OneInv
  <1> SUFFICES ASSUME Init PROVE OneInv
    OBVIOUS
  <1>1. Findable = {} /\ \A t \in Thread : job[t] = Idle
    BY DEF Init, Findable
  <1>2. AtMostOne /\ ScannedIsIndexed
    BY <1>1, IdleFacts, ThreadFacts, StorageConstants DEF AtMostOne, ScannedIsIndexed
  <1> QED BY <1>1, <1>2, IdleFacts, ThreadFacts DEF OneInv, LookupFinds, WorksOnIt, DeletedIsGone

\* A set of which all members are the same has at most one.
LEMMA AllTheSame ==
    ASSUME NEW S, \A e, f \in S : e = f
    PROVE  Cardinality(S) <= 1
  <1>1. CASE S = {}
    BY <1>1, FS_EmptySet
  <1>2. CASE S # {}
    <2>1. PICK e \in S : TRUE
      BY <1>2
    <2>2. S = {e}
      BY <2>1
    <2> QED BY <2>2, FS_Singleton
  <1> QED BY <1>1, <1>2

\* While calls work, the policy opens no event next to an open one, for any
\* number of scans, readers and restarts, as long as no scan writes back an
\* event that was deleted meanwhile.
THEOREM OneAtATime == Spec => []OneOpenEvent
  <1>1. LinkedInv /\ StoredInv /\ OneInv /\ [Next]_vars => (LinkedInv /\ StoredInv /\ OneInv)'
    BY LinkedStep, StoredStep, OneStep
  <1>2. LinkedInv /\ StoredInv /\ OneInv => OneOpenEvent
    <2> SUFFICES ASSUME LinkedInv, StoredInv, OneInv, Calm, ~revived PROVE Cardinality(open) <= 1
      BY DEF OneOpenEvent, Calm
    <2>1. open \subseteq Findable
      BY DEF LinkedInv, TypeInv, HistoryInv, StoredInv, OpenIsIndexed, Findable, Calm
    <2>2. \A e, f \in open : e = f
      BY <2>1 DEF OneInv, AtMostOne
    <2> QED BY <2>2, AllTheSame
  <1> QED BY LinkedInit, StoredInit, OneInit, <1>1, <1>2, PTL DEF Spec
=============================================================================
