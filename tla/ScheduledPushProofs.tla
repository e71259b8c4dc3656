-------------------------- MODULE ScheduledPushProofs --------------------------
(***************************************************************************)
(* What the scheduled push guarantees for any number of clients, every     *)
(* list of push times, every delay and phase of the tickers.               *)
(***************************************************************************)
EXTENDS ScheduledPush, WellFoundedInduction, TLAPS

-----------------------------------------------------------------------------
(* Minutes.  Begin is the first second of the minute.                       *)

BeginOf(m) == m * Minute
Begin == BeginOf(ThisMinute)

LEMMA QuotientBounds ==
    ASSUME NEW k \in Nat \ {0}, NEW x \in Nat
    PROVE  x \div k \in Nat /\ (x \div k) * k <= x /\ x < ((x \div k) * k) + k
  OBVIOUS

LEMMA QuotientIs ==
    ASSUME NEW k \in Nat \ {0}, NEW x \in Nat, NEW q \in Nat, q * k <= x, x < (q * k) + k
    PROVE  x \div k = q
  OBVIOUS

LEMMA Residue ==
    ASSUME NEW k \in Nat \ {0}, NEW x \in Nat
    PROVE  x % k \in 0 .. k - 1 /\ x = ((x \div k) * k) + (x % k)
  OBVIOUS

LEMMA ResidueIs ==
    ASSUME NEW k \in Nat \ {0}, NEW q \in Nat, NEW r \in 0 .. k - 1
    PROVE  ((q * k) + r) % k = r
  OBVIOUS

\* Minutes do not overlap.
LEMMA MinutesApart ==
    ASSUME NEW m \in Nat, NEW n \in Nat, m < n
    PROVE  BeginOf(m) \in Nat /\ BeginOf(n) \in Nat /\ BeginOf(m) + Minute <= BeginOf(n)
  <1>1. Minute \in Nat
    BY PushConstants
  <1>2. PICK d \in Nat : n = (m + 1) + d
    <2>1. n - (m + 1) \in Nat
      OBVIOUS
    <2> QED BY <2>1
  <1>3. n * Minute = ((m * Minute) + Minute) + (d * Minute)
    BY <1>1, <1>2
  <1>4. m * Minute \in Nat /\ d * Minute \in Nat
    BY <1>1, <1>2
  <1> QED BY <1>1, <1>3, <1>4 DEF BeginOf

LEMMA ThisMinuteBounds ==
    ASSUME clock \in Time
    PROVE  /\ ThisMinute \in 0 .. MaxMinute /\ MaxMinute \in Nat
           /\ Begin \in Nat /\ Begin <= clock /\ clock < Begin + Minute
  <1>1. clock \in Nat /\ MaxClock \in Nat /\ clock <= MaxClock /\ Minute \in Nat \ {0}
    BY PushConstants DEF Time
  <1>2. ThisMinute \in Nat /\ ThisMinute * Minute <= clock /\ clock < (ThisMinute * Minute) + Minute
    BY <1>1, QuotientBounds DEF ThisMinute
  <1>3. MaxMinute \in Nat /\ MaxClock < (MaxMinute * Minute) + Minute
    BY <1>1, QuotientBounds DEF MaxMinute
  <1>4. ThisMinute <= MaxMinute
    <2> SUFFICES ASSUME MaxMinute < ThisMinute PROVE FALSE
      BY <1>2, <1>3
    <2>1. BeginOf(MaxMinute) + Minute <= BeginOf(ThisMinute)
      BY <1>2, <1>3, MinutesApart
    <2>2. BeginOf(MaxMinute) \in Nat /\ BeginOf(ThisMinute) \in Nat
      BY <1>2, <1>3, MinutesApart
    <2> HIDE DEF ThisMinute, MaxMinute
    <2> QED BY <1>1, <1>2, <1>3, <2>1, <2>2 DEF BeginOf
  <1>5. ThisMinute * Minute \in Nat
    BY <1>1, <1>2
  <1> HIDE DEF ThisMinute, MaxMinute
  <1> QED BY <1>2, <1>3, <1>4, <1>5 DEF Begin, BeginOf

\* A tick stays in the minute or begins the next.
LEMMA NextMinute ==
    ASSUME clock \in Time, clock' = clock + 1, clock' \in Time
    PROVE  IF clock' % Minute = 0
           THEN ThisMinute' = ThisMinute + 1 /\ Begin' = clock' /\ clock' = Begin + Minute
           ELSE ThisMinute' = ThisMinute /\ Begin' = Begin
  <1> DEFINE q == ThisMinute
             r == ThisMinute'
  <1>1. Minute \in Nat \ {0} /\ clock \in Nat /\ clock' \in Nat
    BY PushConstants DEF Time
  <1>2. q \in Nat /\ q * Minute \in Nat /\ q * Minute <= clock /\ clock < (q * Minute) + Minute
    BY <1>1, QuotientBounds DEF ThisMinute
  <1>3. /\ r \in Nat /\ r = clock' \div Minute
        /\ clock' = (r * Minute) + (clock' % Minute) /\ clock' % Minute \in 0 .. Minute - 1
    BY <1>1, QuotientBounds, Residue DEF ThisMinute
  <1>4. CASE clock' = (q * Minute) + Minute
    <2> HIDE DEF q
    <2>1. clock' = ((q + 1) * Minute) + 0 /\ q + 1 \in Nat /\ 0 \in 0 .. Minute - 1
      BY <1>1, <1>2, <1>4
    <2>2. clock' % Minute = 0
      <3>1. (((q + 1) * Minute) + 0) % Minute = 0
        BY <1>1, <2>1, ResidueIs
      <3> QED BY <2>1, <3>1
    <2>3. r = q + 1
      <3>1. (q + 1) * Minute <= clock' /\ clock' < ((q + 1) * Minute) + Minute
        BY <1>1, <1>2, <2>1
      <3> QED BY <1>1, <1>3, <2>1, <3>1, QuotientIs
    <2> HIDE DEF q, r
    <2>4. r * Minute = clock'
      BY <1>1, <1>2, <2>1, <2>3
    <2> QED BY <2>2, <2>3, <2>4, <1>4 DEF q, r, Begin, BeginOf
  <1>5. CASE clock' # (q * Minute) + Minute
    <2> HIDE DEF q
    <2>1. q * Minute <= clock' /\ clock' < (q * Minute) + Minute
      BY <1>1, <1>2, <1>5
    <2>2. r = q
      BY <1>1, <1>2, <1>3, <2>1, QuotientIs
    <2>3. clock' % Minute # 0
      <3> SUFFICES ASSUME clock' % Minute = 0 PROVE FALSE
        OBVIOUS
      <3>1. clock' = q * Minute
        BY <1>1, <1>2, <1>3, <2>2
      <3> QED BY <1>1, <1>2, <3>1
    <2> QED BY <2>2, <2>3 DEF q, r, Begin, BeginOf
  <1> QED BY <1>4, <1>5

\* A ticker fires in every Period.
LEMMA TickerFires ==
    ASSUME NEW a \in Nat, NEW f \in 0 .. Period - 1
    PROVE  \E x \in a .. a + Period - 1 : x % Period = f
  <1>1. Period \in Nat \ {0}
    BY PushConstants
  <1> DEFINE q == a \div Period
             r == a % Period
  <1>2. q \in Nat /\ r \in 0 .. Period - 1 /\ a = (q * Period) + r
    BY <1>1, QuotientBounds, Residue
  <1> HIDE DEF q, r
  <1>3. CASE r <= f
    <2> DEFINE x == (q * Period) + f
    <2>1. x % Period = f
      BY <1>1, <1>2, ResidueIs
    <2>2. x \in a .. a + Period - 1
      <3>1. q * Period \in Nat
        BY <1>1, <1>2
      <3> QED BY <1>1, <1>2, <1>3, <3>1
    <2> QED BY <2>1, <2>2
  <1>4. CASE f < r
    <2> DEFINE x == ((q + 1) * Period) + f
    <2>1. x % Period = f
      BY <1>1, <1>2, ResidueIs
    <2>2. x \in a .. a + Period - 1
      <3>1. q * Period \in Nat /\ (q + 1) * Period = (q * Period) + Period
        BY <1>1, <1>2
      <3> QED BY <1>1, <1>2, <1>4, <3>1
    <2> QED BY <2>1, <2>2
  <1> QED BY <1>1, <1>2, <1>3, <1>4

-----------------------------------------------------------------------------
(* Reports.                                                                 *)

LessNat == {p \in Nat \X Nat : p[1] < p[2]}

\* Of some times one is the latest.
LEMMA MaxOfTimes ==
    ASSUME NEW S, S \subseteq Time, S # {}
    PROVE  Max(S) \in S /\ \A x \in S : x <= Max(S)
  <1> MaxClock \in Nat
    BY PushConstants
  <1> DEFINE R == {n \in Time : MaxClock - n \in S}
  <1>1. R \subseteq Nat /\ R # {}
    <2>1. PICK x \in S : TRUE
      OBVIOUS
    <2>2. x \in Nat /\ x <= MaxClock
      BY DEF Time
    <2>3. MaxClock - x \in Time /\ MaxClock - (MaxClock - x) = x
      BY <2>2 DEF Time
    <2>4. MaxClock - x \in R
      BY <2>3
    <2>5. R \subseteq Nat
      BY DEF Time
    <2> QED BY <2>4, <2>5
  <1>2. IsWellFoundedOn(LessNat, Nat)
    BY NatLessThanWellFounded, Zenon DEF OpToRel, LessNat
  <1>3. PICK i \in R : \A j \in R : ~(<<j, i>> \in LessNat)
    BY <1>1, <1>2, WFMin
  <1>4. \A j \in R : i <= j
    <2> TAKE j \in R
    <2>1. i \in Nat /\ j \in Nat /\ ~(<<j, i>> \in LessNat)
      BY <1>1, <1>3
    <2>2. ~(j < i)
      BY <2>1 DEF LessNat
    <2> QED BY <2>1, <2>2
  <1> DEFINE m == MaxClock - i
  <1>5. m \in S
    OBVIOUS
  <1>6. \A x \in S : m >= x
    <2> TAKE x \in S
    <2>1. x \in Nat /\ x <= MaxClock
      BY DEF Time
    <2>2. MaxClock - x \in R
      BY <2>1 DEF Time
    <2>3. i <= MaxClock - x /\ i \in Nat
      BY <1>1, <1>4, <2>2
    <2> QED BY <2>1, <2>3
  <1> HIDE DEF m
  <1>7. Max(S) \in S /\ \A x \in S : Max(S) >= x
    BY <1>5, <1>6 DEF Max
  <1>8. \A x \in S : x \in Int
    BY DEF Time
  <1> QED BY <1>7, <1>8

\* The entries of the report of job t.
Entries(t) == IF EnableNotification THEN Report(job[t].got) ELSE {}

LEMMA EntriesAreRead == \A t \in PushTimes : Entries(t) \subseteq job[t].got
  BY DEF Entries, Report

\* What a report leaves in told: the newest so far.
LEMMA ToldIsNewest ==
    ASSUME TypeOK, NEW t \in PushTimes, NEW c \in Client,
           told' = [d \in Client |-> Max({told[d]} \cup {u.at : u \in By(d, Entries(t))})]
    PROVE  /\ told'[c] \in Time /\ told[c] <= told'[c]
           /\ \A u \in By(c, Entries(t)) : u.at <= told'[c]
           /\ \/ told'[c] = told[c]
              \/ \E u \in By(c, Entries(t)) : told'[c] = u.at
  <1> DEFINE S == {told[c]} \cup {u.at : u \in By(c, Entries(t))}
  <1>1. told'[c] = Max(S)
    OBVIOUS
  <1>2. S \subseteq Time
    <2>1. job[t].got \subseteq Upload
      BY DEF TypeOK, Job
    <2>2. By(c, Entries(t)) \subseteq Upload
      BY <2>1, EntriesAreRead DEF By
    <2>3. \A u \in By(c, Entries(t)) : u.at \in Time
      BY <2>2 DEF Upload
    <2>4. told[c] \in Time
      BY DEF TypeOK
    <2> QED BY <2>3, <2>4
  <1>3. Max(S) \in S /\ \A x \in S : x <= Max(S)
    BY <1>2, MaxOfTimes
  <1> QED BY <1>1, <1>2, <1>3

-----------------------------------------------------------------------------
(* Types.                                                                   *)

LEMMA UploadKey == \A u \in Upload : Key(u) \in Keys
  BY DEF Upload, Key, Keys

LEMMA FaultsType ==
    ASSUME TypeOK, crashes' = crashes, Works \/ Fails
    PROVE  crashes' \in Nat /\ fails' \in Nat /\ crashes' + fails' <= MaxFaults
  <1>1. crashes \in Nat /\ fails \in Nat /\ crashes + fails <= MaxFaults /\ MaxFaults \in Nat
    BY PushConstants DEF TypeOK
  <1>2. CASE Works
    BY <1>1, <1>2 DEF Works
  <1>3. CASE Fails
    BY <1>1, <1>3 DEF Fails
  <1> QED BY <1>2, <1>3

LEMMA CheckType == ASSUME TypeOK, NEW n \in Node, Check(n) PROVE TypeOK'
  <1>1. pending' \in [Node -> BOOLEAN]
    BY DEF Check, TypeOK
  <1>2. crashes' \in Nat /\ fails' \in Nat /\ crashes' + fails' <= MaxFaults
    BY FaultsType DEF Check, node
  <1>3. CASE ~IsTimeToPush(n)
    BY <1>1, <1>2, <1>3 DEF Check, node, TypeOK
  <1>4. CASE IsTimeToPush(n)
    <2>1. ThisMinute \in 0 .. MaxMinute /\ ThisTime \in PushTimes
      BY <1>4, ThisMinuteBounds DEF TypeOK, IsTimeToPush
    <2>2. last' \in [Node -> [PushTimes -> 0 .. MaxMinute \cup {None}]]
      <3>1. last' = [last EXCEPT ![n][ThisTime] = ThisMinute]
        BY <1>4 DEF Check
      <3> QED BY <2>1, <3>1 DEF TypeOK
    <2>3. pushed' \in [Node -> 0 .. 2]
      <3>1. pushed' = [pushed EXCEPT ![n] = IF @ = 2 THEN 2 ELSE @ + 1]
        BY <1>4 DEF Check
      <3> QED BY <3>1 DEF TypeOK
    <2>4. clock \in Time /\ clock \in Nat /\ clock <= MaxClock /\ Delay \in Nat /\ MaxClock \in Nat
      BY PushConstants DEF TypeOK, Time
    <2>5. run' \in [Client -> [st : {"idle", "busy"}, since : Time]]
      <3>1. \/ run' = run
            \/ n \in Client /\ run' = [run EXCEPT ![n] = [st |-> "busy", since |-> clock]]
        BY <1>4 DEF Check
      <3> QED BY <2>4, <3>1 DEF TypeOK
    <2>6. job' \in [PushTimes -> Job]
      <3> DEFINE j == [NoJob EXCEPT !.st = "sleep", !.minute = ThisMinute, !.wake = clock + AggregationDelay]
      <3>1. job' = job \/ job' = [job EXCEPT ![ThisTime] = j]
        BY <1>4 DEF Check
      <3>2. clock + Delay \in 0 .. MaxClock + Delay
        BY <2>4
      <3>3. j \in Job
        BY <2>1, <3>2 DEF Job, NoJob, AggregationDelay
      <3> HIDE DEF j
      <3> QED BY <2>1, <3>1, <3>3 DEF TypeOK
    <2> QED BY <1>1, <1>2, <1>4, <2>2, <2>3, <2>5, <2>6 DEF Check, node, TypeOK
  <1> QED BY <1>3, <1>4

LEMMA SaveType == ASSUME TypeOK, NEW c \in Client, Save(c) PROVE TypeOK'
  <1>1. crashes' \in Nat /\ fails' \in Nat /\ crashes' + fails' <= MaxFaults
    BY FaultsType DEF Save, node
  <1>2. run' \in [Client -> [st : {"idle", "busy"}, since : Time]]
    <2>1. Resting \in [st : {"idle", "busy"}, since : Time]
      BY PushConstants DEF Resting, Time
    <2> QED BY <2>1 DEF Save, TypeOK
  <1>3. redis' \subseteq Upload
    <2>1. CASE redis' = redis
      BY <2>1 DEF TypeOK
    <2>2. ASSUME NEW at \in run[c].since .. clock, redis' = Saved([by |-> c, at |-> at, exp |-> clock + TTL])
          PROVE  redis' \subseteq Upload
      <3>1. run[c].since \in Time /\ clock \in Time /\ MaxClock \in Nat /\ TTL \in Nat
        BY PushConstants DEF TypeOK
      <3>2. at \in Time /\ clock + TTL \in 0 .. MaxClock + TTL
        BY <3>1 DEF Time
      <3>3. [by |-> c, at |-> at, exp |-> clock + TTL] \in Upload
        BY <3>2 DEF Upload
      <3> QED BY <2>2, <3>3 DEF Saved, TypeOK
    <2> QED BY <2>1, <2>2 DEF Save
  <1> QED BY <1>1, <1>2, <1>3 DEF Save, node, history, TypeOK

LEMMA JobFields ==
    ASSUME TypeOK, NEW t \in PushTimes
    PROVE  /\ job[t] \in Job /\ NoJob \in Job
           /\ job[t].keys \subseteq Keys /\ job[t].got \subseteq Upload
           /\ AllKeys \subseteq Keys
  <1>1. job[t] \in Job
    BY DEF TypeOK
  <1>2. NoJob \in Job
    <2>1. 0 \in 0 .. MaxMinute
      BY ThisMinuteBounds DEF TypeOK
    <2>2. 0 \in 0 .. MaxClock + Delay
      BY PushConstants
    <2> QED BY <2>1, <2>2 DEF NoJob, Job
  <1>3. AllKeys \subseteq Keys
    BY UploadKey DEF AllKeys, TypeOK
  <1> QED BY <1>1, <1>2, <1>3 DEF Job

LEMMA WakeType == ASSUME TypeOK, NEW t \in PushTimes, Wake(t) PROVE TypeOK'
  <1>1. crashes' \in Nat /\ fails' \in Nat /\ crashes' + fails' <= MaxFaults
    BY FaultsType DEF Wake, node
  <1>2. clock \in 0 .. MaxClock + Delay
    BY PushConstants DEF TypeOK, Time
  <1>3. PICK j \in Job : job' = [job EXCEPT ![t] = j]
    <2>1. CASE job' = [job EXCEPT ![t] = NoJob]
      BY <2>1, JobFields
    <2>2. CASE job' = [job EXCEPT ![t].st = "read", ![t].wake = clock, ![t].keys = AllKeys]
      <3> DEFINE j == [job[t] EXCEPT !.st = "read", !.wake = clock, !.keys = AllKeys]
      <3>1. j \in Job
        BY <1>2, JobFields DEF Job
      <3>2. job' = [job EXCEPT ![t] = j]
        BY <2>2 DEF TypeOK
      <3> QED BY <3>1, <3>2
    <2>3. CASE job' = [job EXCEPT ![t].st = "read", ![t].wake = clock]
      <3> DEFINE j == [job[t] EXCEPT !.st = "read", !.wake = clock]
      <3>1. j \in Job
        BY <1>2, JobFields DEF Job
      <3>2. job' = [job EXCEPT ![t] = j]
        BY <2>3 DEF TypeOK
      <3> QED BY <3>1, <3>2
    <2> QED BY <2>1, <2>2, <2>3 DEF Wake
  <1>4. job' \in [PushTimes -> Job]
    BY <1>3 DEF TypeOK
  <1> QED BY <1>1, <1>4 DEF Wake, node, history, TypeOK

LEMMA ReadType == ASSUME TypeOK, NEW t \in PushTimes, Read(t) PROVE TypeOK'
  <1>1. crashes' \in Nat /\ fails' \in Nat /\ crashes' + fails' <= MaxFaults
    BY FaultsType DEF Read, node
  <1>2. PICK k \in job[t].keys : \/ job' = [job EXCEPT ![t].keys = @ \ {k}, ![t].got = @ \cup DataOf(k)]
                                 \/ job' = [job EXCEPT ![t].keys = @ \ {k}]
    BY DEF Read
  <1>3. PICK got \in {job[t].got, job[t].got \cup DataOf(k)} :
            job' = [job EXCEPT ![t] = [@ EXCEPT !.keys = job[t].keys \ {k}, !.got = got]]
    <2>1. CASE job' = [job EXCEPT ![t].keys = @ \ {k}, ![t].got = @ \cup DataOf(k)]
      BY <2>1 DEF TypeOK
    <2>2. CASE job' = [job EXCEPT ![t].keys = @ \ {k}]
      <3> [job[t] EXCEPT !.keys = job[t].keys \ {k}] =
              [job[t] EXCEPT !.keys = job[t].keys \ {k}, !.got = job[t].got]
        BY JobFields DEF Job
      <3> QED BY <2>2 DEF TypeOK
    <2> QED BY <1>2, <2>1, <2>2
  <1>4. got \subseteq Upload
    BY JobFields DEF DataOf, TypeOK
  <1>5. job' \in [PushTimes -> Job]
    BY <1>3, <1>4, JobFields DEF TypeOK, Job
  <1> QED BY <1>1, <1>5 DEF Read, node, history, TypeOK

LEMMA DeletingType ==
    ASSUME TypeOK, NEW t \in PushTimes, NEW keys, keys \subseteq Keys, Deleting(t, keys)
    PROVE  job' \in [PushTimes -> Job]
  <1>1. [job[t] EXCEPT !.st = "delete", !.keys = keys] \in Job
    BY JobFields DEF Job
  <1> QED BY <1>1, JobFields DEF Deleting, TypeOK

LEMMA SendType == ASSUME TypeOK, NEW t \in PushTimes, Send(t) PROVE TypeOK'
  <1>1. crashes' \in Nat /\ fails' \in Nat /\ crashes' + fails' <= MaxFaults
    BY FaultsType DEF Send, node, Sent, SendFails
  <1>2. job' \in [PushTimes -> Job]
    <2>1. CASE Sent(t)
      <3>1. KeysToDelete(t) \subseteq Keys
        BY JobFields, UploadKey DEF KeysToDelete
      <3> QED BY <2>1, <3>1, DeletingType DEF Sent
    <2>2. CASE SendFails(t)
      BY <2>2, JobFields DEF SendFails, TypeOK
    <2> QED BY <2>1, <2>2 DEF Send
  <1>3. told' \in [Client -> Time] /\ again' \subseteq Client /\ answered' \in 0 .. MaxMinute
    <2>1. CASE UNCHANGED <<told, again, answered>>
      BY <2>1 DEF TypeOK
    <2>2. CASE Sent(t)
               /\ told' = [c \in Client |-> Max({told[c]} \cup {u.at : u \in By(c, Entries(t))})]
               /\ again' = again \cup {u.by : u \in {v \in Entries(t) : v.at <= told[v.by]}}
               /\ answered' = job[t].minute
      <3>1. \A c \in Client : told'[c] \in Time
        BY <2>2, ToldIsNewest
      <3>2. told' \in [Client -> Time]
        BY <2>2, <3>1
      <3>3. Entries(t) \subseteq Upload
        BY EntriesAreRead, JobFields
      <3>4. again' \subseteq Client
        BY <2>2, <3>3 DEF Upload, TypeOK
      <3>5. answered' \in 0 .. MaxMinute
        BY <2>2, JobFields DEF Job
      <3> QED BY <3>2, <3>4, <3>5
    <2> QED BY <2>1, <2>2 DEF Send, Entries
  <1> QED BY <1>1, <1>2, <1>3 DEF Send, node, TypeOK

LEMMA DeleteType == ASSUME TypeOK, NEW t \in PushTimes, Delete(t) PROVE TypeOK'
  <1>1. crashes' \in Nat /\ fails' \in Nat /\ crashes' + fails' <= MaxFaults
    BY FaultsType DEF Delete, node
  <1>2. PICK k \in job[t].keys : Deleting(t, job[t].keys \ {k}) /\ redis' \subseteq redis
    BY DEF Delete, Deleted
  <1>3. job' \in [PushTimes -> Job]
    BY <1>2, JobFields, DeletingType
  <1> QED BY <1>1, <1>2, <1>3 DEF Delete, node, history, TypeOK

LEMMA TickType == ASSUME TypeOK, Tick PROVE TypeOK'
  <1>1. clock' \in Time
    BY PushConstants DEF Tick, TypeOK, Time
  <1>2. pending' \in [Node -> BOOLEAN]
    <2>1. \A n \in Node : up[n] \in BOOLEAN /\ pending[n] \in BOOLEAN
      BY DEF TypeOK
    <2> QED BY <2>1, Zenon DEF Tick
  <1>3. pushed' \in [Node -> 0 .. 2] /\ missed' \subseteq Node
    BY DEF Tick, Idle, TypeOK
  <1>4. redis' \subseteq Upload
    BY DEF Tick, TypeOK
  <1>5. UNCHANGED <<up, phase, since, crashes, last, run, job, told, again, answered, fails>>
    BY DEF Tick, node
  <1> QED BY <1>1, <1>2, <1>3, <1>4, <1>5 DEF TypeOK

LEMMA CrashType == ASSUME TypeOK, NEW n \in Node, Crash(n) PROVE TypeOK'
  <1>1. crashes' \in Nat /\ fails' \in Nat /\ crashes' + fails' <= MaxFaults
    BY PushConstants DEF Crash, TypeOK
  <1>2. run' \in [Client -> [st : {"idle", "busy"}, since : Time]]
    <2>1. Resting \in [st : {"idle", "busy"}, since : Time]
      BY PushConstants DEF Resting, Time
    <2> QED BY <2>1 DEF Crash, TypeOK
  <1>3. job' \in [PushTimes -> Job]
    <2>1. CASE n = Server
      BY <2>1, JobFields DEF Crash, TypeOK
    <2>2. CASE n # Server
      BY <2>2 DEF Crash, TypeOK
    <2> QED BY <2>1, <2>2
  <1>4. up' \in [Node -> BOOLEAN] /\ pending' \in [Node -> BOOLEAN]
    BY DEF Crash, TypeOK
  <1>5. UNCHANGED <<clock, phase, since, last, redis, pushed, missed, told, again, answered>>
    BY DEF Crash, history
  <1> QED BY <1>1, <1>2, <1>3, <1>4, <1>5 DEF TypeOK

LEMMA StartType == ASSUME TypeOK, NEW n \in Node, Start(n) PROVE TypeOK'
  <1>1. phase' \in [Node -> 0 .. Period - 1]
    <2>1. clock % Period \in 0 .. Period - 1
      BY PushConstants, Residue DEF TypeOK, Time
    <2> QED BY <2>1 DEF Start, TypeOK
  <1>2. up' \in [Node -> BOOLEAN] /\ pending' \in [Node -> BOOLEAN]
    BY DEF Start, TypeOK
  <1>3. /\ since' \in [Node -> Time] /\ pushed' \in [Node -> 0 .. 2]
        /\ last' \in [Node -> [PushTimes -> 0 .. MaxMinute \cup {None}]]
    BY DEF Start, TypeOK
  <1>4. UNCHANGED <<clock, crashes, run, job, redis, missed, told, again, answered, fails>>
    BY DEF Start
  <1> QED BY <1>1, <1>2, <1>3, <1>4 DEF TypeOK

LEMMA TypeInit == ASSUME Init PROVE TypeOK
  <1>1. clock \in Time /\ 0 \in Time
    BY PushConstants DEF Init, Time
  <1>2. 0 \in 0 .. MaxMinute
    BY <1>1, ThisMinuteBounds
  <1>3. Resting \in [st : {"idle", "busy"}, since : Time]
    BY <1>1 DEF Resting
  <1>4. NoJob \in Job
    <2>1. 0 \in 0 .. MaxClock + Delay
      BY PushConstants
    <2> QED BY <1>2, <2>1 DEF NoJob, Job
  <1>5. crashes \in Nat /\ fails \in Nat /\ crashes + fails <= MaxFaults
    BY PushConstants DEF Init
  <1>6. /\ up \in [Node -> BOOLEAN] /\ pending \in [Node -> BOOLEAN]
        /\ phase \in [Node -> 0 .. Period - 1] /\ since \in [Node -> Time]
        /\ last \in [Node -> [PushTimes -> 0 .. MaxMinute \cup {None}]]
        /\ pushed \in [Node -> 0 .. 2] /\ missed \subseteq Node
    BY <1>1 DEF Init
  <1>7. /\ run \in [Client -> [st : {"idle", "busy"}, since : Time]] /\ job \in [PushTimes -> Job]
        /\ redis \subseteq Upload /\ told \in [Client -> Time] /\ again \subseteq Client
        /\ answered \in 0 .. MaxMinute
    BY <1>1, <1>2, <1>3, <1>4 DEF Init
  <1> QED BY <1>1, <1>5, <1>6, <1>7 DEF TypeOK

LEMMA TypeStep == ASSUME TypeOK, [Next]_vars PROVE TypeOK'
  <1>1. CASE UNCHANGED vars
    BY <1>1 DEF vars, TypeOK
  <1>2. CASE Next
    BY <1>2, CheckType, SaveType, WakeType, ReadType, SendType, DeleteType, TickType, CrashType,
       StartType DEF Next
  <1> QED BY <1>1, <1>2

\* Every reachable state is well typed: the goroutines of the server hold keys
\* and uploads, and no time leaves the run.
THEOREM TypeCorrect == Spec => []TypeOK
  BY TypeInit, TypeStep, PTL DEF Spec

-----------------------------------------------------------------------------
(* What the server deletes was reported.                                    *)

\* The key of an upload names its client, and the report shows it next to the
\* server.
OneClientPerHost ==
    /\ \A c, d \in Client : HostOf[c] = HostOf[d] => c = d
    /\ \A c \in Client : InstanceOf(c) # InstanceOf(Server)

LEMMA KeyIsUnique ==
    ASSUME OneClientPerHost, NEW u \in Upload, NEW v \in Upload, Key(u) = Key(v)
    PROVE  u.by = v.by /\ u.at = v.at
  <1>1. HostOf[u.by] = HostOf[v.by] /\ u.at = v.at
    BY DEF Key
  <1>2. u.by \in Client /\ v.by \in Client
    BY DEF Upload
  <1> QED BY <1>1, <1>2 DEF OneClientPerHost

\* What was read is in the report, or something newer of the same client.
LEMMA ReportHasNewest ==
    ASSUME OneClientPerHost, NEW got, got \subseteq Upload, NEW u \in got
    PROVE  \E v \in Report(got) : v.by = u.by /\ u.at <= v.at
  <1> DEFINE S == {v.at : v \in By(u.by, got)}
  <1>1. \A v \in got : v.by \in Client /\ v.at \in Time
    BY DEF Upload
  <1>2. S \subseteq Time /\ u.at \in S
    BY <1>1 DEF By
  <1>3. Max(S) \in S /\ \A x \in S : x <= Max(S)
    BY <1>2, MaxOfTimes
  <1>4. PICK v \in By(u.by, got) : v.at = Max(S)
    BY <1>3
  <1>5. v \in got /\ v.by = u.by /\ v.at \in Time
    BY <1>1, <1>4 DEF By
  <1>6. InstanceOf(v.by) # InstanceOf(Server)
    BY <1>1, <1>5 DEF OneClientPerHost
  <1>7. ASSUME NEW w \in got, InstanceOf(w.by) = InstanceOf(v.by)
        PROVE  w.at <= v.at
    <2>1. HostOf[w.by] = HostOf[v.by]
      BY <1>7 DEF InstanceOf
    <2>2. w.by = u.by
      BY <1>1, <1>5, <2>1 DEF OneClientPerHost
    <2>3. w.at \in S
      BY <2>2 DEF By
    <2> QED BY <1>3, <1>4, <2>3
  <1>8. v \in Report(got)
    BY <1>5, <1>6, <1>7 DEF Report
  <1> QED BY <1>2, <1>3, <1>4, <1>5, <1>8

\* A key is deleted after a report had what the key may hold.
DeletedWasTold ==
    EnableNotification => \A t \in PushTimes : job[t].st = "delete" =>
        \A u \in Upload : Key(u) \in job[t].keys => u.at <= told[u.by]

\* Reports only move forward.
LEMMA ToldGrows ==
    ASSUME TypeOK, [Next]_vars, NEW c \in Client
    PROVE  told[c] <= told'[c]
  <1>1. told[c] \in Time /\ MaxClock \in Nat
    BY PushConstants DEF TypeOK
  <1>2. CASE UNCHANGED told
    BY <1>1, <1>2 DEF Time
  <1>3. ASSUME NEW t \in PushTimes, Send(t) PROVE told[c] <= told'[c]
    <2>1. \/ UNCHANGED told
          \/ told' = [d \in Client |-> Max({told[d]} \cup {u.at : u \in By(d, Entries(t))})]
      BY <1>3 DEF Send, Entries
    <2> QED BY <1>2, <2>1, ToldIsNewest
  <1> QED BY <1>2, <1>3 DEF Next, vars, Check, Save, Wake, Read, Delete, Tick, Crash, Start, history

\* No other job than t goes to delete keys.
LEMMA DeletedStep ==
    ASSUME TypeOK, [Next]_vars, DeletedWasTold,
           \A t \in PushTimes : job'[t].st = "delete" =>
               job[t].st = "delete" /\ job'[t].keys \subseteq job[t].keys
    PROVE  DeletedWasTold'
  <1> SUFFICES ASSUME EnableNotification, NEW t \in PushTimes, job'[t].st = "delete",
                      NEW u \in Upload, Key(u) \in job'[t].keys
               PROVE  u.at <= told'[u.by]
    BY DEF DeletedWasTold, Key
  <1>1. u.at <= told[u.by]
    BY DEF DeletedWasTold
  <1>2. u.by \in Client /\ u.at \in Nat /\ told[u.by] \in Nat /\ told'[u.by] \in Nat
    BY TypeStep DEF TypeOK, Upload, Time
  <1> QED BY <1>1, <1>2, ToldGrows

\* Who is sent may be deleted.
LEMMA SendDeletes ==
    ASSUME OneClientPerHost, TypeOK, DeletedWasTold, NEW t \in PushTimes, Send(t)
    PROVE  DeletedWasTold'
  <1>0. Next
    BY DEF Next
  <1>1. CASE SendFails(t)
    <2>1. \A r \in PushTimes : job'[r] = IF r = t THEN NoJob ELSE job[r]
      BY <1>1 DEF SendFails, TypeOK
    <2>2. \A r \in PushTimes : job'[r].st = "delete" =>
              job[r].st = "delete" /\ job'[r].keys \subseteq job[r].keys
      BY <2>1 DEF NoJob
    <2> QED BY <1>0, <2>2, DeletedStep
  <1>2. CASE Sent(t)
            /\ told' = [c \in Client |-> Max({told[c]} \cup {u.at : u \in By(c, Entries(t))})]
    <2> SUFFICES ASSUME EnableNotification, NEW r \in PushTimes, job'[r].st = "delete",
                        NEW u \in Upload, Key(u) \in job'[r].keys
                 PROVE  u.at <= told'[u.by]
      BY DEF DeletedWasTold, Key
    <2>1. \A q \in PushTimes \ {t} : job'[q] = job[q]
      BY <1>2 DEF Sent, Deleting, TypeOK
    <2>2. u.by \in Client /\ u.at \in Nat /\ told[u.by] \in Nat /\ told'[u.by] \in Nat
      BY <1>0, TypeStep DEF TypeOK, Upload, Time
    <2>3. CASE r # t
      <3>1. u.at <= told[u.by]
        BY <2>1, <2>3 DEF DeletedWasTold
      <3> QED BY <1>0, <2>2, <3>1, ToldGrows
    <2>4. CASE r = t
      <3>1. KeysToDelete(t) # {} /\ job'[t].keys = KeysToDelete(t)
        BY <1>2, <2>4, JobFields DEF Sent, Deleting, TypeOK, NoJob, Job
      <3>2. PICK v \in job[t].got : Key(v) = Key(u)
        BY <2>4, <3>1 DEF KeysToDelete
      <3>3. v \in Upload /\ v.by = u.by /\ v.at = u.at
        BY <3>2, JobFields, KeyIsUnique
      <3>4. PICK w \in Report(job[t].got) : w.by = u.by /\ u.at <= w.at
        BY <3>3, JobFields, ReportHasNewest
      <3>5. w \in By(u.by, Entries(t)) /\ w \in Upload
        BY <3>4, JobFields DEF By, Entries, Report
      <3>6. w.at <= told'[u.by]
        BY <1>2, <2>2, <3>5, ToldIsNewest
      <3>7. w.at \in Nat
        BY <3>5 DEF Upload, Time
      <3> QED BY <2>2, <3>4, <3>6, <3>7
    <2> QED BY <2>3, <2>4
  <1> QED BY <1>1, <1>2 DEF Send, Entries

LEMMA DeletedWasToldStep ==
    ASSUME OneClientPerHost, TypeOK, DeletedWasTold, [Next]_vars
    PROVE  DeletedWasTold'
  <1> DEFINE Fewer == \A t \in PushTimes : job'[t].st = "delete" =>
                          job[t].st = "delete" /\ job'[t].keys \subseteq job[t].keys
  <1>1. CASE UNCHANGED vars
    <2>1. Fewer
      BY <1>1 DEF vars
    <2> QED BY <2>1, DeletedStep
  <1>2. ASSUME NEW n \in Node, Check(n) PROVE Fewer
    <2>1. \/ job' = job
          \/ job' = [job EXCEPT ![ThisTime] =
                [NoJob EXCEPT !.st = "sleep", !.minute = ThisMinute, !.wake = clock + AggregationDelay]]
      BY <1>2 DEF Check
    <2> QED BY <2>1 DEF TypeOK, NoJob
  <1>3. ASSUME NEW c \in Client, Save(c) PROVE Fewer
    BY <1>3 DEF Save
  <1>4. ASSUME NEW t \in PushTimes, Wake(t) PROVE Fewer
    <2>1. \A r \in PushTimes : job'[r].st = "delete" => job'[r] = job[r]
      BY <1>4, JobFields DEF Wake, TypeOK, NoJob, Job
    <2> QED BY <2>1
  <1>5. ASSUME NEW t \in PushTimes, Read(t) PROVE Fewer
    <2>1. PICK k \in job[t].keys : \/ job' = [job EXCEPT ![t].keys = @ \ {k}, ![t].got = @ \cup DataOf(k)]
                                   \/ job' = [job EXCEPT ![t].keys = @ \ {k}]
      BY <1>5 DEF Read
    <2>2. \A r \in PushTimes \ {t} : job'[r] = job[r]
      BY <2>1 DEF TypeOK
    <2>3. job'[t].st = "read"
      BY <1>5, <2>1, JobFields DEF Read, TypeOK, Job
    <2> QED BY <2>2, <2>3
  <1>6. ASSUME NEW t \in PushTimes, Delete(t) PROVE Fewer
    <2>1. PICK k \in job[t].keys : Deleting(t, job[t].keys \ {k})
      BY <1>6 DEF Delete
    <2>2. job[t].st = "delete"
      BY <1>6 DEF Delete
    <2>3. \A r \in PushTimes \ {t} : job'[r] = job[r]
      BY <2>1 DEF Deleting, TypeOK
    <2>4. job'[t] = NoJob \/ job'[t].keys = job[t].keys \ {k}
      BY <2>1, JobFields DEF Deleting, TypeOK, Job
    <2> QED BY <2>2, <2>3, <2>4 DEF NoJob
  <1>7. ASSUME Tick PROVE Fewer
    BY <1>7 DEF Tick
  <1>8. ASSUME NEW n \in Node, Crash(n) PROVE Fewer
    BY <1>8 DEF Crash, NoJob
  <1>9. ASSUME NEW n \in Node, Start(n) PROVE Fewer
    BY <1>9 DEF Start
  <1>10. Next => Fewer \/ \E t \in PushTimes : Send(t)
    <2> HIDE DEF Fewer
    <2> QED BY <1>2, <1>3, <1>4, <1>5, <1>6, <1>7, <1>8, <1>9 DEF Next
  <1> QED BY <1>1, <1>10, DeletedStep, SendDeletes

\* What leaves Redis had its time, or a report, or gave way to a newer upload,
\* which has its key.
Expires(u) == clock' >= u.exp
Reported(u) == ~EnableNotification \/ told'[u.by] >= u.at
Replaced(u) == \E v \in redis' : v.by = u.by /\ v.at = u.at /\ Key(v) = Key(u)

LEMMA LeavingStep ==
    ASSUME OneClientPerHost, TypeOK, DeletedWasTold, [Next]_vars, NEW u \in redis, u \notin redis'
    PROVE  Expires(u) \/ Reported(u) \/ Replaced(u)
  <1>1. redis # redis'
    OBVIOUS
  <1>2. ASSUME NEW c \in Client, Save(c) PROVE Replaced(u)
    <2>1. PICK at \in run[c].since .. clock : redis' = Saved([by |-> c, at |-> at, exp |-> clock + TTL])
      BY <1>2 DEF Save
    <2> DEFINE v == [by |-> c, at |-> at, exp |-> clock + TTL]
    <2>2. v \in redis' /\ Key(u) = Key(v)
      BY <2>1 DEF Saved
    <2>3. v \in Upload /\ u \in Upload
      <3>1. redis' \subseteq Upload
        BY <1>2, TypeStep DEF Next, TypeOK
      <3> QED BY <2>2, <3>1 DEF TypeOK
    <2>4. u.by = v.by /\ u.at = v.at
      BY <2>2, <2>3, KeyIsUnique
    <2> HIDE DEF v
    <2> QED BY <2>2, <2>4 DEF Replaced
  <1>3. ASSUME NEW t \in PushTimes, Delete(t) PROVE Reported(u)
    <2> SUFFICES ASSUME EnableNotification PROVE told'[u.by] >= u.at
      BY DEF Reported
    <2>1. PICK k \in job[t].keys : redis' = redis \/ redis' = Deleted(k)
      BY <1>3 DEF Delete
    <2>2. Key(u) = k /\ u \in Upload
      BY <2>1 DEF Deleted, TypeOK
    <2>3. u.at <= told[u.by] /\ told' = told
      BY <1>3, <2>2 DEF DeletedWasTold, Delete, history
    <2>4. u.at \in Nat /\ told[u.by] \in Nat
      BY <2>2 DEF Upload, Time, TypeOK
    <2> QED BY <2>3, <2>4
  <1>4. ASSUME Tick PROVE Expires(u)
    <2>1. ~(clock' < u.exp) /\ u \in Upload /\ clock' \in Nat
      BY <1>4 DEF Tick, TypeOK, Time
    <2>2. u.exp \in Nat
      BY <2>1, PushConstants DEF Upload
    <2> QED BY <2>1, <2>2 DEF Expires
  <1> QED BY <1>1, <1>2, <1>3, <1>4
          DEF Next, vars, Check, Wake, Read, Send, Crash, Start, history

LeavesWhenReported ==
    \A u \in redis \ redis' :
        \/ clock' >= u.exp \/ ~EnableNotification
        \/ told'[u.by] >= u.at
        \/ \E v \in By(u.by, redis') : v.at >= u.at

LEMMA LeavingIsAllowed ==
    ASSUME OneClientPerHost, TypeOK, DeletedWasTold, [Next]_vars
    PROVE  [LeavesWhenReported]_vars
  <1> SUFFICES ASSUME NEW u \in redis \ redis'
               PROVE  \/ clock' >= u.exp \/ ~EnableNotification
                      \/ told'[u.by] >= u.at
                      \/ \E v \in By(u.by, redis') : v.at >= u.at
    BY DEF LeavesWhenReported
  <1>1. u.at \in Nat
    BY DEF TypeOK, Upload, Time
  <1> QED BY <1>1, LeavingStep DEF Expires, Reported, Replaced, By

\* With one client on a host, no upload is lost before a report: whatever
\* fails, crashes or comes between the steps of the server.
THEOREM UploadsAreKept == OneClientPerHost /\ Spec => KeptUntilReported
  <1> SUFFICES ASSUME OneClientPerHost PROVE Spec => KeptUntilReported
    OBVIOUS
  <1>1. Init => DeletedWasTold
    BY DEF Init, DeletedWasTold, NoJob
  <1>2. TypeOK /\ DeletedWasTold /\ [Next]_vars => DeletedWasTold'
    BY DeletedWasToldStep
  <1>3. TypeOK /\ DeletedWasTold /\ [Next]_vars => [LeavesWhenReported]_vars
    BY LeavingIsAllowed
  <1> QED BY <1>1, <1>2, <1>3, TypeCorrect, PTL DEF Spec, KeptUntilReported, LeavesWhenReported

-----------------------------------------------------------------------------
(* Each push time is served once.                                           *)

Larger == IF Period >= MaxRun THEN Period ELSE MaxRun

\* How long after the start of a minute a process checks at the latest: when
\* its ticker fires, or when the Run of the minute before is over.
Latest(n) == IF n = Server THEN Period ELSE Larger

PushMinute == ThisTime \in PushTimes

\* Has the ticker of n fired in this minute?
Ticked(n) == \E x \in Begin .. clock : x % Period = phase[n]

\* A Run has its time, and one that began in this minute is the push of it.
RunInv ==
    \A c \in Client : run[c].st = "busy" =>
        /\ up[c] /\ run[c].since <= clock /\ clock <= run[c].since + MaxRun
        /\ run[c].since >= Begin => pushed[c] = 1

\* lastReported has this minute if and only if the process has pushed in it.
LastInv ==
    \A n \in Node :
        /\ pushed[n] \in {0, 1} /\ since[n] <= clock
        /\ \A t \in PushTimes : last[n][t] # None => last[n][t] <= ThisMinute
        /\ \A t \in PushTimes : last[n][t] = ThisMinute => pushed[n] = 1
        /\ pushed[n] = 1 => PushMinute /\ last[n][ThisTime] = ThisMinute

\* A process that has a push to do and whose ticker has fired will check.
TickInv ==
    \A n \in Node : up[n] /\ PushMinute /\ pushed[n] = 0 /\ Ticked(n) => pending[n]

\* And it checks before the minute is over.
DueInv ==
    \A n \in Node : up[n] /\ PushMinute /\ pushed[n] = 0 /\ since[n] <= Begin
        => clock <= Begin + Latest(n) - 1

PushedInv == RunInv /\ LastInv /\ TickInv /\ DueInv /\ missed = {}

LEMMA SameMinute ==
    ASSUME clock' = clock
    PROVE  ThisMinute' = ThisMinute /\ Begin' = Begin /\ ThisTime' = ThisTime
  BY DEF ThisMinute, Begin, BeginOf, ThisTime

LEMMA LatestBounds ==
    ASSUME NEW n \in Node
    PROVE  /\ Latest(n) \in Nat /\ Period <= Latest(n) /\ Latest(n) < Minute
           /\ Larger \in Nat /\ Period <= Larger /\ MaxRun <= Larger /\ Larger < Minute
           /\ n # Server => Latest(n) = Larger
  BY PushConstants DEF Latest, Larger

LEMMA IsTimeIffNotPushed ==
    ASSUME LastInv, NEW n \in Node
    PROVE  IsTimeToPush(n) <=> PushMinute /\ pushed[n] = 0
  BY DEF LastInv, IsTimeToPush, PushMinute

LEMMA PushedInit == ASSUME Init PROVE PushedInv
  <1>1. clock = Minute - 1 /\ clock \in Nat /\ clock \in Time /\ Minute \in Nat \ {0}
    BY PushConstants DEF Init, Time
  <1>2. ThisMinute = 0
    BY <1>1 DEF ThisMinute
  <1>3. ~PushMinute
    BY <1>2, PushConstants DEF PushMinute, ThisTime
  <1>4. RunInv
    BY DEF Init, RunInv, Resting
  <1>5. LastInv
    <2> SUFFICES ASSUME NEW n \in Node
                 PROVE  /\ pushed[n] = 0 /\ since[n] <= clock
                        /\ \A t \in PushTimes : last[n][t] = None
      BY <1>2, NoneIsNoMinute DEF LastInv
    <2> QED BY <1>1 DEF Init
  <1> QED BY <1>3, <1>4, <1>5 DEF PushedInv, TickInv, DueInv, Init

\* Steps that leave the schedulers alone.
LEMMA PushedQuiet ==
    ASSUME TypeOK, PushedInv,
           UNCHANGED <<clock, up, phase, since, pending, last, pushed, missed>>,
           \A c \in Client : run'[c].st = "busy" => run'[c] = run[c]
    PROVE  PushedInv'
  <1>1. ThisMinute' = ThisMinute /\ Begin' = Begin /\ ThisTime' = ThisTime
    BY SameMinute
  <1>2. PushMinute' = PushMinute /\ \A n \in Node : Ticked(n)' = Ticked(n)
    BY <1>1 DEF PushMinute, Ticked
  <1>3. RunInv'
    BY <1>1 DEF PushedInv, RunInv
  <1>4. LastInv'
    BY <1>1, <1>2 DEF PushedInv, LastInv
  <1>5. TickInv'
    BY <1>2 DEF PushedInv, TickInv
  <1>6. DueInv'
    BY <1>1, <1>2 DEF PushedInv, DueInv, Latest
  <1> QED BY <1>3, <1>4, <1>5, <1>6 DEF PushedInv

LEMMA PushedCheck == ASSUME TypeOK, PushedInv, NEW n \in Node, Check(n) PROVE PushedInv'
  <1>1. ThisMinute' = ThisMinute /\ Begin' = Begin /\ ThisTime' = ThisTime
    BY SameMinute DEF Check
  <1>2. PushMinute' = PushMinute /\ \A m \in Node : Ticked(m)' = Ticked(m)
    BY <1>1 DEF PushMinute, Ticked, Check, node
  <1>3. UNCHANGED <<clock, up, phase, since, missed>>
    BY DEF Check, node
  <1>4. clock \in Nat /\ Begin \in Nat /\ Begin <= clock /\ ThisMinute \in Nat
    BY ThisMinuteBounds DEF TypeOK, Time
  <1>5. \A m \in Node : pending'[m] = (pending[m] /\ m # n)
    BY DEF Check, TypeOK
  <1>6. CASE ~IsTimeToPush(n)
    <2>1. UNCHANGED <<last, run, pushed>>
      BY <1>6 DEF Check
    <2>2. ~(PushMinute /\ pushed[n] = 0)
      BY <1>6, IsTimeIffNotPushed DEF PushedInv
    <2>3. RunInv'
      BY <1>1, <1>3, <2>1 DEF PushedInv, RunInv
    <2>4. LastInv'
      BY <1>1, <1>2, <1>3, <2>1 DEF PushedInv, LastInv
    <2>5. TickInv'
      <3> SUFFICES ASSUME NEW m \in Node, up[m], PushMinute, pushed[m] = 0, Ticked(m) PROVE pending'[m]
        BY <1>2, <1>3, <2>1 DEF TickInv
      <3>1. pending[m] /\ m # n
        BY <2>2 DEF PushedInv, TickInv
      <3> QED BY <1>5, <3>1
    <2>6. DueInv'
      BY <1>1, <1>2, <1>3, <2>1 DEF PushedInv, DueInv, Latest
    <2> QED BY <1>3, <2>3, <2>4, <2>5, <2>6 DEF PushedInv
  <1>7. CASE IsTimeToPush(n)
    <2>1. PushMinute /\ pushed[n] = 0
      BY <1>7, IsTimeIffNotPushed DEF PushedInv
    <2>2. /\ last' = [last EXCEPT ![n][ThisTime] = ThisMinute]
          /\ pushed' = [pushed EXCEPT ![n] = IF @ = 2 THEN 2 ELSE @ + 1]
      BY <1>7 DEF Check
    <2>3. pushed'[n] = 1 /\ \A m \in Node \ {n} : pushed'[m] = pushed[m] /\ last'[m] = last[m]
      BY <2>1, <2>2 DEF TypeOK
    <2>4. \A t \in PushTimes : last'[n][t] = IF t = ThisTime THEN ThisMinute ELSE last[n][t]
      BY <2>2 DEF TypeOK
    <2>5. \A c \in Client : \/ run'[c] = run[c]
                            \/ c = n /\ run'[c] = [st |-> "busy", since |-> clock]
      BY <1>7 DEF Check, TypeOK
    <2>6. RunInv'
      <3> SUFFICES ASSUME NEW c \in Client, run'[c].st = "busy"
                   PROVE  /\ up[c] /\ run'[c].since <= clock /\ clock <= run'[c].since + MaxRun
                          /\ run'[c].since >= Begin => pushed'[c] = 1
        BY <1>1, <1>3 DEF RunInv
      <3>1. CASE c = n /\ run'[c] = [st |-> "busy", since |-> clock]
        BY <1>4, <2>3, <3>1, PushConstants DEF Check
      <3>2. CASE run'[c] = run[c]
        <4>1. c \in Node /\ (c = n => pushed'[c] = 1) /\ (c # n => pushed'[c] = pushed[c])
          BY <2>3 DEF Node
        <4> QED BY <3>2, <4>1 DEF PushedInv, RunInv
      <3> QED BY <2>5, <3>1, <3>2
    <2>7. LastInv'
      <3>1. \A t \in PushTimes : last'[n][t] # None => last'[n][t] <= ThisMinute
        BY <1>4, <2>4 DEF PushedInv, LastInv
      <3>2. last'[n][ThisTime] = ThisMinute
        BY <2>1, <2>4 DEF PushMinute
      <3>3. since[n] <= clock
        BY DEF PushedInv, LastInv
      <3>4. \A m \in Node \ {n} :
                /\ pushed'[m] \in {0, 1} /\ since[m] <= clock
                /\ \A t \in PushTimes : last'[m][t] # None => last'[m][t] <= ThisMinute
                /\ \A t \in PushTimes : last'[m][t] = ThisMinute => pushed'[m] = 1
                /\ pushed'[m] = 1 => PushMinute /\ last'[m][ThisTime] = ThisMinute
        BY <2>3 DEF PushedInv, LastInv
      <3> QED BY <1>1, <1>2, <1>3, <2>1, <2>3, <3>1, <3>2, <3>3, <3>4 DEF LastInv
    <2>8. TickInv'
      <3> SUFFICES ASSUME NEW m \in Node, up[m], PushMinute, pushed'[m] = 0, Ticked(m) PROVE pending'[m]
        BY <1>2, <1>3 DEF TickInv
      <3>1. m # n /\ pushed[m] = 0
        BY <2>3
      <3> QED BY <1>5, <3>1 DEF PushedInv, TickInv
    <2>9. DueInv'
      <3> SUFFICES ASSUME NEW m \in Node, up[m], PushMinute, pushed'[m] = 0, since[m] <= Begin
                   PROVE  clock <= Begin + Latest(m) - 1
        BY <1>1, <1>2, <1>3 DEF DueInv, Latest
      <3>1. m # n /\ pushed[m] = 0
        BY <2>3
      <3> QED BY <3>1 DEF PushedInv, DueInv
    <2> QED BY <1>3, <2>6, <2>7, <2>8, <2>9 DEF PushedInv
  <1> QED BY <1>6, <1>7

\* When the second of the last possible check is over, there was one.
LEMMA PushedInTime ==
    ASSUME TypeOK, PushedInv, Prompt, NEW n \in Node, up[n], PushMinute, pushed[n] = 0,
           since[n] <= Begin
    PROVE  clock + 1 <= Begin + Latest(n) - 1
  <1>1. clock \in Nat /\ Begin \in Nat /\ Begin <= clock /\ clock \in Time
    BY ThisMinuteBounds DEF TypeOK, Time
  <1>2. /\ Latest(n) \in Nat /\ Period <= Latest(n) /\ Period \in Nat \ {0} /\ MaxRun \in Nat
        /\ n # Server => MaxRun <= Latest(n)
    BY LatestBounds, PushConstants
  <1>3. clock <= Begin + Latest(n) - 1
    BY DEF PushedInv, DueInv
  <1> SUFFICES ASSUME clock = Begin + Latest(n) - 1 PROVE FALSE
    BY <1>1, <1>2, <1>3
  <1>4. Ticked(n)
    <2>1. phase[n] \in 0 .. Period - 1
      BY DEF TypeOK
    <2>2. PICK x \in Begin .. Begin + Period - 1 : x % Period = phase[n]
      BY <1>1, <2>1, TickerFires
    <2>3. x \in Begin .. clock
      BY <1>1, <1>2
    <2> QED BY <2>2, <2>3 DEF Ticked
  <1>5. n \in Blocked
    BY <1>4 DEF PushedInv, TickInv, Prompt
  <1>6. n \in Client /\ n # Server /\ run[n].st = "busy" /\ run[n].since \in Nat
    BY <1>5, PushConstants DEF Blocked, TypeOK, Time
  <1>7. clock < run[n].since + MaxRun
    BY <1>6 DEF Prompt
  <1>8. ~(run[n].since >= Begin)
    BY <1>6 DEF PushedInv, RunInv
  <1> QED BY <1>1, <1>2, <1>6, <1>7, <1>8

LEMMA PushedTick == ASSUME TypeOK, PushedInv, Tick PROVE PushedInv'
  <1>1. /\ clock' = clock + 1 /\ Prompt
        /\ UNCHANGED <<up, phase, since, last, run>>
    BY DEF Tick, node
  <1>2. /\ clock \in Time /\ clock' \in Time /\ clock \in Nat /\ clock' \in Nat
        /\ Begin \in Nat /\ Begin <= clock /\ clock < Begin + Minute
        /\ ThisMinute \in Nat
    BY ThisMinuteBounds, TickType DEF TypeOK, Time
  <1>3. \A n \in Node : pending'[n] = (pending[n] \/ (up[n] /\ clock' % Period = phase[n]))
    BY DEF Tick
  <1>4. \A c \in Client : run[c].st = "busy" =>
            /\ up[c] /\ run[c].since <= clock /\ clock + 1 <= run[c].since + MaxRun
            /\ run[c].since >= Begin => pushed[c] = 1
    <2> SUFFICES ASSUME NEW c \in Client, run[c].st = "busy" PROVE clock + 1 <= run[c].since + MaxRun
      BY DEF PushedInv, RunInv
    <2>1. clock < run[c].since + MaxRun
      BY <1>1 DEF Prompt
    <2>2. run[c].since \in Nat /\ MaxRun \in Nat
      BY PushConstants DEF TypeOK, Time
    <2> QED BY <1>2, <2>1, <2>2
  <1>5. \A n \in Node : since[n] \in Nat /\ since[n] <= clock + 1
    BY <1>2 DEF PushedInv, LastInv, TypeOK, Time
  <1>6. CASE clock' % Minute = 0
    <2>1. ThisMinute' = ThisMinute + 1 /\ Begin' = clock' /\ clock' = Begin + Minute
      BY <1>1, <1>2, <1>6, NextMinute
    <2>2. missed' = missed \cup Idle /\ pushed' = [n \in Node |-> 0]
      BY <1>6 DEF Tick
    <2>3. Idle = {}
      <3> SUFFICES ASSUME NEW n \in Idle PROVE FALSE
        OBVIOUS
      <3>1. n \in Node /\ PushMinute /\ up[n] /\ pushed[n] = 0 /\ since[n] <= Begin
        BY DEF Idle, PushMinute, Begin, BeginOf
      <3>2. clock + 1 <= Begin + Latest(n) - 1
        BY <1>1, <3>1, PushedInTime
      <3>3. Latest(n) \in Nat /\ Latest(n) < Minute /\ Minute \in Nat
        BY <3>1, LatestBounds, PushConstants
      <3> QED BY <1>1, <1>2, <2>1, <3>2, <3>3
    <2>4. RunInv'
      <3> SUFFICES ASSUME NEW c \in Client, run[c].st = "busy"
                   PROVE  /\ up[c] /\ run[c].since <= clock' /\ clock' <= run[c].since + MaxRun
                          /\ ~(run[c].since >= clock')
        BY <1>1, <2>1 DEF RunInv
      <3>1. run[c].since \in Nat
        BY DEF TypeOK, Time
      <3> QED BY <1>1, <1>2, <1>4, <3>1
    <2>5. LastInv'
      <3> SUFFICES ASSUME NEW n \in Node
                   PROVE  /\ pushed'[n] = 0 /\ since[n] <= clock'
                          /\ \A t \in PushTimes : last[n][t] # None => last[n][t] <= ThisMinute'
                          /\ \A t \in PushTimes : last[n][t] # ThisMinute'
        BY <1>1 DEF LastInv
      <3>1. \A t \in PushTimes : last[n][t] # None => last[n][t] \in Nat /\ last[n][t] <= ThisMinute
        BY DEF PushedInv, LastInv, TypeOK
      <3>2. ThisMinute + 1 # None
        BY <1>2, NoneIsNoMinute
      <3>3. \A t \in PushTimes : last[n][t] # None => last[n][t] <= ThisMinute'
        BY <1>2, <2>1, <3>1
      <3>4. \A t \in PushTimes : last[n][t] # ThisMinute'
        BY <1>2, <2>1, <3>1, <3>2
      <3> QED BY <1>1, <1>5, <2>2, <3>3, <3>4
    <2>6. TickInv'
      <3> SUFFICES ASSUME NEW n \in Node, up[n], Ticked(n)' PROVE pending'[n]
        BY <1>1 DEF TickInv
      <3>1. PICK x \in Begin' .. clock' : x % Period = phase[n]
        BY <1>1 DEF Ticked
      <3>2. x = clock'
        BY <1>2, <2>1
      <3> QED BY <1>3, <3>1, <3>2
    <2>7. DueInv'
      <3> SUFFICES ASSUME NEW n \in Node PROVE clock' <= Begin' + Latest(n) - 1
        BY <1>1 DEF DueInv, Latest
      <3>1. Latest(n) \in Nat /\ Period <= Latest(n) /\ Period \in Nat \ {0}
        BY LatestBounds, PushConstants
      <3> QED BY <1>2, <2>1, <3>1
    <2>8. missed' = {}
      BY <2>2, <2>3 DEF PushedInv
    <2> QED BY <2>4, <2>5, <2>6, <2>7, <2>8 DEF PushedInv
  <1>7. CASE clock' % Minute # 0
    <2>1. ThisMinute' = ThisMinute /\ Begin' = Begin
      BY <1>1, <1>2, <1>7, NextMinute
    <2>2. PushMinute' = PushMinute /\ ThisTime' = ThisTime
      BY <2>1 DEF PushMinute, ThisTime
    <2>3. UNCHANGED <<missed, pushed>>
      BY <1>7 DEF Tick
    <2>4. RunInv'
      <3> SUFFICES ASSUME NEW c \in Client, run[c].st = "busy"
                   PROVE  /\ up[c] /\ run[c].since <= clock' /\ clock' <= run[c].since + MaxRun
                          /\ run[c].since >= Begin => pushed[c] = 1
        BY <1>1, <2>1, <2>3 DEF RunInv
      <3>1. run[c].since \in Nat
        BY DEF TypeOK, Time
      <3> QED BY <1>1, <1>2, <1>4, <3>1
    <2>5. LastInv'
      <3>1. \A n \in Node : since[n] <= clock'
        BY <1>1, <1>5
      <3> QED BY <1>1, <2>1, <2>2, <2>3, <3>1 DEF PushedInv, LastInv
    <2>6. TickInv'
      <3> SUFFICES ASSUME NEW n \in Node, up[n], PushMinute, pushed[n] = 0, Ticked(n)' PROVE pending'[n]
        BY <1>1, <2>2, <2>3 DEF TickInv
      <3>1. PICK x \in Begin .. clock' : x % Period = phase[n]
        BY <1>1, <2>1 DEF Ticked
      <3>2. CASE x = clock'
        BY <1>3, <3>1, <3>2
      <3>3. CASE x # clock'
        <4>1. x \in Begin .. clock
          BY <1>1, <1>2, <3>3
        <4>2. Ticked(n)
          BY <3>1, <4>1 DEF Ticked
        <4> QED BY <1>3, <4>2 DEF PushedInv, TickInv
      <3> QED BY <3>2, <3>3
    <2>7. DueInv'
      <3> SUFFICES ASSUME NEW n \in Node, up[n], PushMinute, pushed[n] = 0, since[n] <= Begin
                   PROVE  clock' <= Begin + Latest(n) - 1
        BY <1>1, <2>1, <2>2, <2>3 DEF DueInv, Latest
      <3> QED BY <1>1, PushedInTime
    <2> QED BY <2>3, <2>4, <2>5, <2>6, <2>7 DEF PushedInv
  <1> QED BY <1>6, <1>7

LEMMA PushedCrash == ASSUME TypeOK, PushedInv, NEW n \in Node, Crash(n) PROVE PushedInv'
  <1>1. ThisMinute' = ThisMinute /\ Begin' = Begin /\ ThisTime' = ThisTime
    BY SameMinute DEF Crash
  <1>2. UNCHANGED <<clock, phase, since, last, pushed, missed>>
    BY DEF Crash, history
  <1>3. PushMinute' = PushMinute /\ \A m \in Node : Ticked(m)' = Ticked(m)
    BY <1>1, <1>2 DEF PushMinute, Ticked
  <1>4. \A m \in Node : up'[m] = (up[m] /\ m # n) /\ (m # n => pending'[m] = pending[m])
    BY DEF Crash, TypeOK
  <1>5. \A c \in Client : c # n => run'[c] = run[c]
    BY DEF Crash
  <1>6. \A c \in Client : run'[c].st = "busy" => c # n /\ run'[c] = run[c] /\ up'[c] = up[c]
    <2>1. Client \subseteq Node
      BY DEF Node
    <2>2. n \in Client => run'[n].st = "idle"
      BY DEF Crash, Resting
    <2> SUFFICES ASSUME NEW c \in Client, run'[c].st = "busy"
                 PROVE  c # n /\ run'[c] = run[c] /\ up'[c] = up[c]
      OBVIOUS
    <2>3. c # n /\ c \in Node
      BY <2>1, <2>2
    <2>4. up[c] \in BOOLEAN
      BY <2>3 DEF TypeOK
    <2>5. up'[c] = up[c]
      BY <1>4, <2>3, <2>4, Zenon
    <2> QED BY <1>5, <2>3, <2>5
  <1>7. RunInv'
    BY <1>1, <1>2, <1>6 DEF PushedInv, RunInv
  <1>8. LastInv'
    BY <1>1, <1>2, <1>3 DEF PushedInv, LastInv
  <1>9. TickInv'
    BY <1>2, <1>3, <1>4 DEF PushedInv, TickInv
  <1>10. DueInv'
    BY <1>1, <1>2, <1>3, <1>4 DEF PushedInv, DueInv, Latest
  <1> QED BY <1>2, <1>7, <1>8, <1>9, <1>10 DEF PushedInv

LEMMA PushedStart == ASSUME TypeOK, PushedInv, NEW n \in Node, Start(n) PROVE PushedInv'
  <1>1. ThisMinute' = ThisMinute /\ Begin' = Begin /\ ThisTime' = ThisTime
    BY SameMinute DEF Start
  <1>2. UNCHANGED <<clock, run, missed>>
    BY DEF Start
  <1>3. PushMinute' = PushMinute
    BY <1>1 DEF PushMinute
  <1>4. \A m \in Node : m # n =>
            /\ up'[m] = up[m] /\ pending'[m] = pending[m] /\ phase'[m] = phase[m]
            /\ since'[m] = since[m] /\ last'[m] = last[m] /\ pushed'[m] = pushed[m]
    BY DEF Start, TypeOK
  <1>5. /\ ~up[n] /\ up'[n] /\ pending'[n] /\ since'[n] = clock
        /\ last'[n] = [t \in PushTimes |-> None] /\ pushed'[n] = 0
    BY DEF Start, TypeOK
  <1>6. \A m \in Node : m # n => Ticked(m)' = Ticked(m)
    BY <1>1, <1>2, <1>4 DEF Ticked
  <1>7. clock \in Nat /\ Begin \in Nat /\ Begin <= clock /\ ThisMinute \in Nat
    BY ThisMinuteBounds DEF TypeOK, Time
  <1>8. RunInv'
    <2> SUFFICES ASSUME NEW c \in Client, run[c].st = "busy"
                 PROVE  /\ up'[c] /\ run[c].since <= clock /\ clock <= run[c].since + MaxRun
                        /\ run[c].since >= Begin => pushed'[c] = 1
      BY <1>1, <1>2 DEF RunInv
    <2>1. c \in Node /\ c # n
      BY <1>5 DEF PushedInv, RunInv, Node
    <2> QED BY <1>4, <2>1 DEF PushedInv, RunInv
  <1>9. LastInv'
    <2>1. \A t \in PushTimes : last'[n][t] = None /\ last'[n][t] # ThisMinute
      BY <1>5, <1>7, NoneIsNoMinute
    <2>2. \A m \in Node \ {n} :
                /\ pushed'[m] \in {0, 1} /\ since'[m] <= clock
                /\ \A t \in PushTimes : last'[m][t] # None => last'[m][t] <= ThisMinute
                /\ \A t \in PushTimes : last'[m][t] = ThisMinute => pushed'[m] = 1
                /\ pushed'[m] = 1 => PushMinute /\ last'[m][ThisTime] = ThisMinute
      BY <1>4 DEF PushedInv, LastInv
    <2>3. since'[n] <= clock
      BY <1>5, <1>7
    <2> QED BY <1>1, <1>2, <1>3, <1>5, <2>1, <2>2, <2>3 DEF LastInv
  <1>10. TickInv'
    BY <1>3, <1>4, <1>5, <1>6 DEF PushedInv, TickInv
  <1>11. DueInv'
    <2> SUFFICES ASSUME NEW m \in Node, up'[m], PushMinute, pushed'[m] = 0, since'[m] <= Begin
                 PROVE  clock <= Begin + Latest(m) - 1
      BY <1>1, <1>2, <1>3 DEF DueInv, Latest
    <2>1. CASE m = n
      <3>1. clock = Begin
        BY <1>5, <1>7, <2>1
      <3>2. Latest(m) \in Nat /\ Period <= Latest(m) /\ Period \in Nat \ {0}
        BY LatestBounds, PushConstants
      <3> QED BY <1>7, <3>1, <3>2
    <2>2. CASE m # n
      BY <1>4, <2>2 DEF PushedInv, DueInv
    <2> QED BY <2>1, <2>2
  <1> QED BY <1>2, <1>8, <1>9, <1>10, <1>11 DEF PushedInv

LEMMA PushedStep == ASSUME TypeOK, PushedInv, [Next]_vars PROVE PushedInv'
  <1>1. CASE UNCHANGED vars
    BY <1>1, PushedQuiet DEF vars
  <1>2. ASSUME NEW c \in Client, Save(c) PROVE PushedInv'
    <2>1. UNCHANGED <<clock, up, phase, since, pending, last, pushed, missed>>
      BY <1>2 DEF Save, node, history
    <2>2. \A d \in Client : run'[d].st = "busy" => run'[d] = run[d]
      BY <1>2 DEF Save, Resting, TypeOK
    <2> QED BY <2>1, <2>2, PushedQuiet
  <1>3. ASSUME NEW t \in PushTimes, Wake(t) \/ Read(t) \/ Send(t) \/ Delete(t) PROVE PushedInv'
    <2>1. UNCHANGED <<clock, up, phase, since, pending, last, pushed, missed, run>>
      BY <1>3 DEF Wake, Read, Send, Delete, node, history
    <2> QED BY <2>1, PushedQuiet
  <1> QED BY <1>1, <1>2, <1>3, PushedCheck, PushedTick, PushedCrash, PushedStart DEF Next

\* A process that runs through a push time pushes once in it: whatever the
\* phase of its ticker, however its own Runs delay it, after any crash.
THEOREM PushedOncePerTime == Spec => []EachPushTimeOnce
  <1>1. TypeOK /\ PushedInv => EachPushTimeOnce
    BY DEF PushedInv, LastInv, EachPushTimeOnce
  <1>2. TypeOK /\ PushedInv /\ [Next]_vars => PushedInv'
    BY PushedStep
  <1> QED BY <1>1, <1>2, PushedInit, TypeCorrect, PTL DEF Spec

-----------------------------------------------------------------------------
(* The goroutines of the server.                                            *)

\* A job wakes a delay after its check, works for MaxRun at most, and is that
\* of the push time of its minute.
JobInv ==
    \A t \in PushTimes : job[t].st # "idle" =>
        /\ job[t].minute % Day = t /\ job[t].minute <= ThisMinute
        /\ BeginOf(job[t].minute) + Delay <= job[t].wake
        /\ job[t].wake < BeginOf(job[t].minute) + Minute + Delay
        /\ IF job[t].st = "sleep" THEN clock <= job[t].wake
           ELSE job[t].wake <= clock /\ clock <= job[t].wake + MaxRun

\* What a step makes of a job.
Begun(t) ==
    /\ Check(Server) /\ t = ThisTime
    /\ job'[t].st = "sleep" /\ job'[t].minute = ThisMinute /\ job'[t].wake = clock + Delay
Woken(t) ==
    /\ Wake(t) /\ job'[t].st = "read" /\ job[t].st = "sleep" /\ job[t].wake <= clock
    /\ job'[t].minute = job[t].minute /\ job'[t].wake = clock
Continued(t) ==
    /\ Read(t) \/ Send(t) \/ Delete(t)
    /\ job[t].st \in {"read", "delete"} /\ job'[t].st \in {"read", "delete"}
    /\ job'[t].minute = job[t].minute /\ job'[t].wake = job[t].wake

LEMMA JobChanges ==
    ASSUME TypeOK, [Next]_vars, NEW t \in PushTimes
    PROVE  \/ job'[t] = job[t] \/ job'[t].st = "idle"
           \/ Begun(t) \/ Woken(t) \/ Continued(t)
  <1>1. CASE UNCHANGED job
    BY <1>1
  <1>2. ASSUME NEW n \in Node, Check(n), job' # job PROVE job'[t] = job[t] \/ Begun(t)
    <2>1. /\ n = Server
          /\ job' = [job EXCEPT ![ThisTime] =
                [NoJob EXCEPT !.st = "sleep", !.minute = ThisMinute, !.wake = clock + AggregationDelay]]
      BY <1>2 DEF Check
    <2> QED BY <1>2, <2>1 DEF Begun, TypeOK, NoJob, AggregationDelay
  <1>3. ASSUME NEW r \in PushTimes, Wake(r) PROVE job'[t] = job[t] \/ job'[t].st = "idle" \/ Woken(t)
    <2>1. CASE r # t
      BY <1>3, <2>1 DEF Wake, TypeOK
    <2>2. CASE r = t
      <3>1. CASE job' = [job EXCEPT ![t] = NoJob]
        BY <3>1 DEF TypeOK, NoJob
      <3>2. CASE job' = [job EXCEPT ![t].st = "read", ![t].wake = clock, ![t].keys = AllKeys]
        BY <1>3, <2>2, <3>2, JobFields DEF Wake, Woken, TypeOK, Job
      <3>3. CASE job' = [job EXCEPT ![t].st = "read", ![t].wake = clock]
        BY <1>3, <2>2, <3>3, JobFields DEF Wake, Woken, TypeOK, Job
      <3> QED BY <1>3, <2>2, <3>1, <3>2, <3>3 DEF Wake
    <2> QED BY <2>1, <2>2
  <1>4. ASSUME NEW r \in PushTimes, Read(r) PROVE job'[t] = job[t] \/ Continued(t)
    <2>1. PICK k \in job[r].keys : \/ job' = [job EXCEPT ![r].keys = @ \ {k}, ![r].got = @ \cup DataOf(k)]
                                   \/ job' = [job EXCEPT ![r].keys = @ \ {k}]
      BY <1>4 DEF Read
    <2>2. r # t => job'[t] = job[t]
      BY <2>1 DEF TypeOK
    <2>3. /\ job'[r].st = "read" /\ job[r].st = "read"
          /\ job'[r].minute = job[r].minute /\ job'[r].wake = job[r].wake
      BY <1>4, <2>1, JobFields DEF Read, TypeOK, Job
    <2> QED BY <1>4, <2>2, <2>3 DEF Continued
  <1>5. ASSUME NEW r \in PushTimes, NEW keys, Deleting(r, keys)
        PROVE  /\ r # t => job'[t] = job[t]
               /\ \/ job'[r].st = "idle"
                  \/ /\ job'[r].st = "delete" /\ job'[r].minute = job[r].minute
                     /\ job'[r].wake = job[r].wake
    <2>1. r # t => job'[t] = job[t]
      BY <1>5 DEF Deleting, TypeOK
    <2>2. job'[r] = NoJob \/ job'[r] = [job[r] EXCEPT !.st = "delete", !.keys = keys]
      BY <1>5 DEF Deleting, TypeOK
    <2> QED BY <2>1, <2>2, JobFields DEF NoJob, Job
  <1>6. ASSUME NEW r \in PushTimes, Send(r) PROVE job'[t] = job[t] \/ job'[t].st = "idle" \/ Continued(t)
    <2>1. job[r].st = "read"
      BY <1>6 DEF Send
    <2>2. CASE Sent(r)
      <3>1. Deleting(r, KeysToDelete(r))
        BY <2>2 DEF Sent
      <3> QED BY <1>5, <1>6, <2>1, <3>1 DEF Continued
    <2>3. CASE SendFails(r)
      BY <2>3 DEF SendFails, TypeOK, NoJob
    <2> QED BY <1>6, <2>2, <2>3 DEF Send
  <1>7. ASSUME NEW r \in PushTimes, Delete(r) PROVE job'[t] = job[t] \/ job'[t].st = "idle" \/ Continued(t)
    <2>1. job[r].st = "delete" /\ \E keys : Deleting(r, keys)
      BY <1>7 DEF Delete
    <2> QED BY <1>5, <1>7, <2>1 DEF Continued
  <1>8. ASSUME NEW n \in Node, Crash(n) PROVE job'[t] = job[t] \/ job'[t].st = "idle"
    BY <1>8 DEF Crash, NoJob
  <1> QED BY <1>1, <1>2, <1>3, <1>4, <1>6, <1>7, <1>8 DEF Next, vars, Save, Tick, Start

LEMMA JobStep == ASSUME TypeOK, JobInv, [Next]_vars PROVE JobInv'
  <1> SUFFICES ASSUME NEW t \in PushTimes, job'[t].st # "idle"
               PROVE  /\ job'[t].minute % Day = t /\ job'[t].minute <= ThisMinute'
                      /\ BeginOf(job'[t].minute) + Delay <= job'[t].wake
                      /\ job'[t].wake < BeginOf(job'[t].minute) + Minute + Delay
                      /\ IF job'[t].st = "sleep" THEN clock' <= job'[t].wake
                         ELSE job'[t].wake <= clock' /\ clock' <= job'[t].wake + MaxRun
    BY DEF JobInv, BeginOf
  <1>1. /\ clock \in Nat /\ clock \in Time /\ ThisMinute \in Nat /\ Begin \in Nat
        /\ Begin <= clock /\ clock < Begin + Minute
        /\ MaxRun \in Nat /\ Delay \in Nat /\ Minute \in Nat /\ job[t].wake \in Nat
        /\ job[t].minute \in Nat
    BY PushConstants, ThisMinuteBounds, JobFields DEF TypeOK, Time, Job
  <1>2. CASE job'[t] = job[t]
    <2>1. CASE clock' = clock
      BY <1>2, <2>1, SameMinute DEF JobInv
    <2>2. CASE Tick
      <3>1. clock' = clock + 1 /\ Prompt /\ clock' \in Time
        BY <2>2, TickType DEF Tick, TypeOK
      <3>2. ThisMinute' = ThisMinute \/ ThisMinute' = ThisMinute + 1
        BY <1>1, <3>1, NextMinute
      <3>3. job[t].minute <= ThisMinute
        BY <1>2 DEF JobInv
      <3>4. job[t].minute <= ThisMinute'
        BY <1>1, <3>2, <3>3
      <3>5. job[t].st \in {"idle", "sleep", "read", "delete"}
        BY JobFields DEF Job
      <3>6. CASE job[t].st = "sleep"
        <4>1. clock < job[t].wake
          BY <3>1, <3>6 DEF Prompt
        <4>2. clock' <= job[t].wake
          BY <1>1, <3>1, <4>1
        <4> QED BY <1>2, <3>4, <3>6, <4>2 DEF JobInv
      <3>7. CASE job[t].st # "sleep"
        <4>1. clock < job[t].wake + MaxRun /\ job[t].wake <= clock
          BY <1>2, <3>1, <3>5, <3>7 DEF Prompt, JobInv
        <4>2. job[t].wake <= clock' /\ clock' <= job[t].wake + MaxRun
          BY <1>1, <3>1, <4>1
        <4> QED BY <1>2, <3>4, <3>7, <4>2 DEF JobInv
      <3> QED BY <3>6, <3>7
    <2> QED BY <2>1, <2>2
            DEF Next, vars, Check, Save, Wake, Read, Send, Delete, Crash, Start
  <1>3. CASE Begun(t)
    <2>1. clock' = clock /\ ThisMinute' = ThisMinute
      BY <1>3, SameMinute DEF Begun, Check
    <2>2. ThisMinute % Day = t
      BY <1>3 DEF Begun, ThisTime
    <2> QED BY <1>1, <1>3, <2>1, <2>2 DEF Begun, Begin
  <1>4. CASE Woken(t)
    <2>1. clock' = clock /\ ThisMinute' = ThisMinute
      BY <1>4, SameMinute DEF Woken, Wake
    <2>2. job[t].wake = clock
      BY <1>1, <1>4 DEF Woken, JobInv
    <2> QED BY <1>1, <1>4, <2>1, <2>2 DEF Woken, JobInv
  <1>5. CASE Continued(t)
    <2>1. clock' = clock /\ ThisMinute' = ThisMinute
      BY <1>5, SameMinute DEF Continued, Read, Send, Delete
    <2> QED BY <1>5, <2>1 DEF Continued, JobInv
  <1> QED BY <1>2, <1>3, <1>4, <1>5, JobChanges

-----------------------------------------------------------------------------
(* The report of a minute has all clients.                                  *)

\* The delay outlasts two Runs, since the first may be that of a minute before,
\* and an upload outlives the last report that may need it.
Roomy == Delay >= 2 * MaxRun /\ TTL >= Delay + Minute + MaxRun

UploadsLast == \A u \in redis : u.at + TTL <= u.exp

\* The upload of minute m, or a newer one, was in a report, is in Redis, is
\* being made, or will be made when the scheduler checks.
ToldFor(c, m) == BeginOf(m) <= told[c]
KeptFor(c, m) == \E u \in redis : u.by = c /\ BeginOf(m) <= u.at
RunsFor(c, m) ==
    run[c].st = "busy" /\ BeginOf(m) <= run[c].since /\ run[c].since < BeginOf(m) + Larger
DueFor(c, m) == ThisMinute = m /\ pushed[c] = 0

Serving(c, m) == ToldFor(c, m) \/ KeptFor(c, m) \/ RunsFor(c, m) \/ DueFor(c, m)

\* Is c running, and was it when minute m began?
Here(c, m) == up[c] /\ since[c] <= BeginOf(m)

NowServed ==
    \A c \in Client, m \in Nat : ThisMinute = m /\ PushMinute /\ Here(c, m) => Serving(c, m)
JobServed ==
    \A c \in Client, t \in PushTimes, m \in Nat :
        job[t].st = "sleep" /\ job[t].minute = m /\ Here(c, m) => Serving(c, m)

\* The job has read the upload of c, or has its key.
Collected(c, t, m) ==
    \/ ToldFor(c, m)
    \/ \E u \in job[t].got : u.by = c /\ BeginOf(m) <= u.at
    \/ \E u \in redis : u.by = c /\ BeginOf(m) <= u.at /\ Key(u) \in job[t].keys

JobCollects ==
    \A c \in Client, t \in PushTimes, m \in Nat :
        job[t].st = "read" /\ job[t].minute = m /\ Here(c, m) => Collected(c, t, m)

AnsweredIsTold ==
    \A c \in Client, m \in Nat : answered = m /\ Here(c, m) => ToldFor(c, m)

\* Reports go out after the minute began, but for minute 0, which has none.
AnsweredIsPast == BeginOf(answered) = 0 \/ BeginOf(answered) < clock

ServedInv ==
    /\ UploadsLast /\ AnsweredIsPast
    /\ fails = 0 => NowServed /\ JobServed /\ JobCollects /\ AnsweredIsTold

LEMMA NoFailure ==
    ASSUME TypeOK, [Next]_vars, fails' = 0
    PROVE  fails = 0 /\ ~Fails
  <1>1. fails \in Nat
    BY DEF TypeOK
  <1>2. ~Fails
    BY <1>1 DEF Fails
  <1>3. Works
    BY <1>2 DEF Next, vars, Check, Save, Wake, Read, Send, Sent, SendFails, Delete, Tick, Crash,
                Start, Works
  <1> QED BY <1>2, <1>3 DEF Works

LEMMA BeginsInOrder ==
    ASSUME NEW m \in Nat, NEW n \in Nat
    PROVE  /\ BeginOf(m) \in Nat /\ BeginOf(m)' = BeginOf(m)
           /\ m <= n => BeginOf(m) <= BeginOf(n)
           /\ BeginOf(n) < BeginOf(m) + Minute => n <= m
  <1>1. Minute \in Nat /\ BeginOf(m) \in Nat /\ BeginOf(n) \in Nat
    BY PushConstants DEF BeginOf
  <1>2. m < n => BeginOf(m) + Minute <= BeginOf(n)
    BY MinutesApart
  <1>3. m = n => BeginOf(m) = BeginOf(n)
    OBVIOUS
  <1>4. BeginOf(m)' = BeginOf(m)
    BY DEF BeginOf
  <1> QED BY <1>1, <1>2, <1>3, <1>4

\* What a step makes of the Run of a client, of its pushes, of the minute.
LEMMA RunChanges ==
    ASSUME TypeOK, [Next]_vars, NEW c \in Client
    PROVE  \/ run'[c] = run[c] \/ Save(c) \/ Crash(c)
           \/ /\ Check(c) /\ IsTimeToPush(c) /\ run[c].st = "idle"
              /\ run'[c] \in {[st |-> "busy", since |-> clock], run[c]}
  <1>1. CASE UNCHANGED run
    BY <1>1
  <1>2. ASSUME NEW n \in Node, Check(n), run' # run, run'[c] # run[c]
        PROVE  /\ n = c /\ IsTimeToPush(c) /\ run[c].st = "idle"
               /\ run'[c] = [st |-> "busy", since |-> clock]
    <2>1. /\ n \in Client /\ n \notin Blocked /\ IsTimeToPush(n)
          /\ run' = [run EXCEPT ![n] = [st |-> "busy", since |-> clock]]
      BY <1>2 DEF Check
    <2>2. n = c
      BY <1>2, <2>1 DEF TypeOK
    <2> QED BY <2>1, <2>2 DEF Blocked, TypeOK
  <1>3. ASSUME NEW d \in Client, Save(d), d # c PROVE run'[c] = run[c]
    BY <1>3 DEF Save, TypeOK
  <1>4. ASSUME NEW n \in Node, Crash(n), n # c PROVE run'[c] = run[c]
    BY <1>4 DEF Crash
  <1> QED BY <1>1, <1>2, <1>3, <1>4
          DEF Next, vars, Wake, Read, Send, Delete, Tick, Start

LEMMA SchedulerChanges ==
    ASSUME TypeOK, [Next]_vars, NEW c \in Client
    PROVE  \/ /\ clock' = clock /\ pushed'[c] = pushed[c] /\ up'[c] = up[c] /\ since'[c] = since[c]
           \/ /\ Check(c) /\ IsTimeToPush(c) /\ clock' = clock /\ up'[c] = up[c]
              /\ since'[c] = since[c]
           \/ Tick /\ up'[c] = up[c] /\ since'[c] = since[c]
           \/ Crash(c) /\ ~up'[c] /\ clock' = clock
           \/ Start(c) /\ pushed'[c] = 0 /\ since'[c] = clock /\ clock' = clock
  <1>1. c \in Node
    BY DEF Node
  <1>2. CASE UNCHANGED <<clock, up, since, pushed>>
    BY <1>2
  <1>3. ASSUME NEW n \in Node, Check(n) PROVE
           /\ clock' = clock /\ up' = up /\ since' = since
           /\ pushed'[c] = pushed[c] \/ (n = c /\ IsTimeToPush(c))
    BY <1>1, <1>3 DEF Check, node, TypeOK
  <1>4. ASSUME Tick PROVE up' = up /\ since' = since
    BY <1>4 DEF Tick, node
  <1>5. ASSUME NEW n \in Node, Crash(n) PROVE
           /\ clock' = clock /\ since' = since /\ pushed' = pushed
           /\ IF n = c THEN ~up'[c] ELSE up'[c] = up[c]
    BY <1>1, <1>5 DEF Crash, history, TypeOK
  <1>6. ASSUME NEW n \in Node, Start(n) PROVE
           /\ clock' = clock
           /\ IF n = c THEN pushed'[c] = 0 /\ since'[c] = clock
              ELSE pushed'[c] = pushed[c] /\ since'[c] = since[c] /\ up'[c] = up[c]
    BY <1>1, <1>6 DEF Start, TypeOK
  <1> QED BY <1>2, <1>3, <1>4, <1>5, <1>6
          DEF Next, vars, Save, Wake, Read, Send, Delete, node, history

\* An upload that is needed stays until a report has it.
LEMMA KeptStays ==
    ASSUME OneClientPerHost, EnableNotification, TypeOK, DeletedWasTold, UploadsLast, [Next]_vars,
           NEW m \in Nat, clock' < BeginOf(m) + TTL, NEW u \in redis, BeginOf(m) <= u.at
    PROVE  ToldFor(u.by, m)' \/ \E v \in redis' : v.by = u.by /\ v.at = u.at /\ Key(v) = Key(u)
  <1>1. u \in Upload /\ u.by \in Client /\ u.at \in Nat /\ u.exp \in Nat
    BY PushConstants DEF TypeOK, Upload, Time
  <1>2. BeginOf(m) \in Nat /\ BeginOf(m)' = BeginOf(m) /\ TTL \in Nat /\ clock' \in Nat
    BY BeginsInOrder, PushConstants, TypeStep DEF TypeOK, Time
  <1>3. u.at + TTL <= u.exp
    BY DEF UploadsLast
  <1>4. ~Expires(u)
    BY <1>1, <1>2, <1>3 DEF Expires
  <1>5. CASE u \in redis'
    BY <1>5
  <1>6. CASE Reported(u)
    <2>1. told'[u.by] >= u.at /\ told'[u.by] \in Nat
      BY <1>1, <1>6, TypeStep DEF Reported, TypeOK, Time
    <2> QED BY <1>1, <1>2, <2>1 DEF ToldFor, BeginOf
  <1>7. CASE Replaced(u)
    BY <1>7 DEF Replaced
  <1> QED BY <1>4, <1>5, <1>6, <1>7, LeavingStep

LEMMA ServingStep ==
    ASSUME OneClientPerHost, EnableNotification, TypeOK, PushedInv, DeletedWasTold, UploadsLast,
           [Next]_vars, fails' = 0, NEW c \in Client, NEW m \in Nat, m % Day \in PushTimes,
           up'[c], Here(c, m), clock' < BeginOf(m) + TTL, Serving(c, m)
    PROVE  Serving(c, m)'
  <1>1. /\ BeginOf(m) \in Nat /\ BeginOf(m)' = BeginOf(m) /\ Larger \in Nat
        /\ Larger < Minute /\ Minute \in Nat /\ c \in Node /\ c # Server /\ Latest(c) = Larger
    BY BeginsInOrder, LatestBounds, PushConstants DEF Node
  <1>2. ~Fails
    BY NoFailure
  <1>3. CASE ToldFor(c, m)
    <2>1. told[c] <= told'[c] /\ told[c] \in Nat /\ told'[c] \in Nat
      BY ToldGrows, TypeStep DEF TypeOK, Time
    <2> QED BY <1>1, <1>3, <2>1 DEF Serving, ToldFor
  <1>4. CASE KeptFor(c, m)
    <2>1. PICK u \in redis : u.by = c /\ BeginOf(m) <= u.at
      BY <1>4 DEF KeptFor
    <2> QED BY <1>1, <2>1, KeptStays DEF Serving, KeptFor
  <1>5. CASE RunsFor(c, m)
    <2>1. CASE run'[c] = run[c]
      BY <1>1, <1>5, <2>1 DEF Serving, RunsFor
    <2>2. CASE Save(c)
      <3>1. PICK at \in run[c].since .. clock :
                redis' = Saved([by |-> c, at |-> at, exp |-> clock + TTL])
        BY <1>2, <2>2 DEF Save
      <3>2. [by |-> c, at |-> at, exp |-> clock + TTL] \in redis'
        BY <3>1 DEF Saved
      <3>3. run[c].since \in Nat /\ clock \in Nat /\ BeginOf(m) <= run[c].since
        BY <1>5 DEF RunsFor, TypeOK, Time
      <3>4. BeginOf(m) <= at
        BY <1>1, <3>3
      <3>5. KeptFor(c, m)'
        BY <1>1, <3>2, <3>4 DEF KeptFor
      <3> QED BY <3>5 DEF Serving
    <2>3. CASE Crash(c)
      BY <1>1, <2>3 DEF Crash, TypeOK
    <2> QED BY <1>5, <2>1, <2>2, <2>3, RunChanges DEF RunsFor
  <1>6. CASE DueFor(c, m)
    <2>1. PushMinute /\ ThisMinute = m /\ pushed[c] = 0
      BY <1>6 DEF DueFor, PushMinute, ThisTime
    <2>2. CASE clock' = clock /\ pushed'[c] = 0
      BY <2>1, <2>2, SameMinute DEF Serving, DueFor
    <2>3. CASE Check(c) /\ IsTimeToPush(c)
      <3>1. run' = [run EXCEPT ![c] = [st |-> "busy", since |-> clock]]
        BY <1>1, <1>2, <2>3 DEF Check
      <3>2. run'[c] = [st |-> "busy", since |-> clock]
        BY <3>1 DEF TypeOK
      <3>3. up[c] /\ since[c] <= Begin /\ Begin = BeginOf(m)
        BY <2>1 DEF Here, Begin
      <3>4. clock <= Begin + Larger - 1
        BY <1>1, <2>1, <3>3 DEF PushedInv, DueInv
      <3>5. Begin <= clock /\ clock \in Nat
        BY ThisMinuteBounds DEF TypeOK, Time
      <3>6. RunsFor(c, m)'
        BY <1>1, <3>2, <3>3, <3>4, <3>5 DEF RunsFor, Larger
      <3> QED BY <3>6 DEF Serving
    <2>4. CASE Tick /\ up'[c] = up[c] /\ since'[c] = since[c]
      <3>1. up[c] /\ since[c] <= Begin /\ Begin = BeginOf(m)
        BY <2>1 DEF Here, Begin
      <3>2. clock + 1 <= Begin + Larger - 1
        BY <1>1, <2>1, <2>4, <3>1, PushedInTime DEF Tick
      <3>3. clock' = clock + 1 /\ clock \in Time /\ clock' \in Time /\ clock \in Nat
        BY <2>4, TypeStep DEF Tick, TypeOK, Time
      <3>4. clock' # Begin + Minute
        BY <1>1, <3>1, <3>2, <3>3
      <3>5. ThisMinute' = ThisMinute /\ clock' % Minute # 0
        BY <3>3, <3>4, NextMinute
      <3>6. pushed' = pushed
        BY <2>4, <3>5 DEF Tick
      <3> QED BY <2>1, <3>5, <3>6 DEF Serving, DueFor
    <2>5. up[c]
      BY DEF Here
    <2> QED BY <2>1, <2>2, <2>3, <2>4, <2>5, SchedulerChanges
  <1> QED BY <1>3, <1>4, <1>5, <1>6 DEF Serving

LEMMA UploadsLastStep == ASSUME TypeOK, UploadsLast, [Next]_vars PROVE UploadsLast'
  <1> SUFFICES ASSUME NEW u \in redis' PROVE u.at + TTL <= u.exp
    BY DEF UploadsLast
  <1>1. CASE u \in redis
    BY <1>1 DEF UploadsLast
  <1>2. ASSUME NEW c \in Client, NEW at \in run[c].since .. clock,
               u = [by |-> c, at |-> at, exp |-> clock + TTL]
        PROVE  u.at + TTL <= u.exp
    <2>1. at \in Int /\ at <= clock /\ clock \in Nat /\ TTL \in Nat
      BY PushConstants DEF TypeOK, Time
    <2> QED BY <1>2, <2>1
  <1>3. u \in redis \/ \E c \in Client : \E at \in run[c].since .. clock :
            u = [by |-> c, at |-> at, exp |-> clock + TTL]
    BY DEF Next, vars, Check, Save, Saved, Wake, Read, Send, Delete, Deleted, Tick, Crash, Start
  <1> QED BY <1>1, <1>2, <1>3

\* When the report of a job goes out.
LEMMA AnswerChanges ==
    ASSUME TypeOK, [Next]_vars
    PROVE  \/ answered' = answered
           \/ \E t \in PushTimes :
                  /\ Send(t) /\ answered' = job[t].minute /\ job[t].st = "read" /\ job[t].keys = {}
                  /\ told' = [c \in Client |-> Max({told[c]} \cup {u.at : u \in By(c, Entries(t))})]
  <1>1. ASSUME NEW t \in PushTimes, Send(t)
        PROVE  \/ answered' = answered
               \/ /\ answered' = job[t].minute /\ job[t].st = "read" /\ job[t].keys = {}
                  /\ told' = [c \in Client |-> Max({told[c]} \cup {u.at : u \in By(c, Entries(t))})]
    BY <1>1 DEF Send, Entries
  <1> QED BY <1>1 DEF Next, vars, Check, Save, Wake, Read, Delete, Tick, Crash, Start, history

LEMMA AnsweredIsPastStep ==
    ASSUME TypeOK, JobInv, AnsweredIsPast, [Next]_vars
    PROVE  AnsweredIsPast'
  <1>1. clock \in Nat /\ clock' \in Nat /\ clock <= clock' /\ answered \in Nat
    <2>1. clock \in Nat /\ clock' \in Nat /\ answered \in 0 .. MaxMinute /\ MaxMinute \in Nat
      BY TypeStep, ThisMinuteBounds DEF TypeOK, Time
    <2>2. clock' = clock \/ clock' = clock + 1
      BY DEF Next, vars, Check, Save, Wake, Read, Send, Delete, Tick, Crash, Start
    <2> QED BY <2>1, <2>2
  <1>2. CASE answered' = answered
    <2>1. BeginOf(answered) \in Nat /\ BeginOf(answered)' = BeginOf(answered')
      BY <1>1, BeginsInOrder DEF BeginOf
    <2> QED BY <1>1, <1>2, <2>1 DEF AnsweredIsPast
  <1>3. ASSUME NEW t \in PushTimes, answered' = job[t].minute, job[t].st = "read"
        PROVE  AnsweredIsPast'
    <2>1. /\ BeginOf(job[t].minute) + Delay <= job[t].wake /\ job[t].wake <= clock
          /\ job[t].wake \in Nat /\ job[t].minute \in Nat
      BY <1>3, PushConstants, ThisMinuteBounds, JobFields DEF JobInv, Job, TypeOK
    <2>2. BeginOf(job[t].minute) \in Nat /\ Delay \in Nat \ {0}
      BY <2>1, BeginsInOrder, PushConstants
    <2>3. BeginOf(job[t].minute) < clock'
      BY <1>1, <2>1, <2>2
    <2> QED BY <1>3, <2>3 DEF AnsweredIsPast, BeginOf
  <1> QED BY <1>2, <1>3, AnswerChanges

\* Who is there after a step was there before, but for one that starts.
LEMMA WasHere ==
    ASSUME TypeOK, [Next]_vars, NEW c \in Client, NEW m \in Nat, Here(c, m)'
    PROVE  \/ Here(c, m)
           \/ Start(c) /\ pushed'[c] = 0 /\ clock' = clock /\ clock <= BeginOf(m)
  <1>1. BeginOf(m)' = BeginOf(m)
    BY BeginsInOrder
  <1> QED BY <1>1, SchedulerChanges DEF Here

LEMMA NowServedStep ==
    ASSUME OneClientPerHost, EnableNotification, Roomy, TypeOK, PushedInv, DeletedWasTold,
           UploadsLast, [Next]_vars, fails' = 0, NowServed
    PROVE  NowServed'
  <1> SUFFICES ASSUME NEW c \in Client, NEW m \in Nat, ThisMinute' = m, PushMinute', Here(c, m)'
               PROVE  Serving(c, m)'
    BY DEF NowServed
  <1>1. CASE pushed'[c] = 0
    BY <1>1 DEF Serving, DueFor
  <1>2. CASE pushed'[c] # 0
    <2>1. Here(c, m)
      BY <1>2, WasHere
    <2>2. ThisMinute = m
      <3>1. CASE clock' = clock
        BY <3>1, SameMinute
      <3>2. CASE Tick
        <4>1. clock' = clock + 1 /\ clock \in Time /\ clock' \in Time
          BY <3>2, TypeStep DEF Tick, TypeOK
        <4>2. clock' % Minute # 0
          BY <1>2, <3>2 DEF Tick, Node
        <4> QED BY <4>1, <4>2, NextMinute
      <3> QED BY <1>2, <3>1, <3>2, SchedulerChanges
    <2>3. PushMinute /\ m % Day \in PushTimes
      BY <2>2 DEF PushMinute, ThisTime
    <2>4. clock' < BeginOf(m) + TTL
      <3>1. clock' \in Time
        BY TypeStep DEF TypeOK
      <3>2. clock' < BeginOf(m) + Minute /\ clock' \in Nat
        <4>1. clock' \in Nat /\ Minute \in Nat \ {0}
          BY <3>1, PushConstants DEF Time
        <4>2. ThisMinute' = clock' \div Minute
          BY DEF ThisMinute
        <4>3. clock' < ((clock' \div Minute) * Minute) + Minute
          BY <4>1, QuotientBounds
        <4>4. clock' < (m * Minute) + Minute
          BY <4>2, <4>3
        <4> QED BY <4>1, <4>4 DEF BeginOf
      <3>3. Minute \in Nat /\ TTL \in Nat /\ Delay \in Nat /\ MaxRun \in Nat /\ BeginOf(m) \in Nat
        BY BeginsInOrder, PushConstants
      <3> QED BY <3>2, <3>3 DEF Roomy
    <2>5. Serving(c, m) /\ up'[c]
      BY <2>1, <2>2, <2>3 DEF NowServed, Here
    <2> QED BY <2>1, <2>3, <2>4, <2>5, ServingStep
  <1> QED BY <1>1, <1>2

LEMMA JobTimes ==
    ASSUME TypeOK, JobInv, Roomy, [Next]_vars, NEW t \in PushTimes, NEW m \in Nat,
           job'[t].minute = m, job'[t].st # "idle"
    PROVE  /\ m % Day = t /\ m <= ThisMinute' /\ clock' < BeginOf(m) + TTL
           /\ job'[t].st # "sleep" => BeginOf(m) + Delay <= clock'
  <1>1. TypeOK' /\ JobInv'
    BY TypeStep, JobStep
  <1>2. /\ clock' \in Nat /\ job'[t].wake \in Nat /\ BeginOf(m) \in Nat
        /\ Minute \in Nat /\ TTL \in Nat /\ Delay \in Nat /\ MaxRun \in Nat \ {0}
    BY <1>1, BeginsInOrder, PushConstants DEF TypeOK, Time, Job
  <1>3. m % Day = t /\ m <= ThisMinute'
    BY <1>1 DEF JobInv
  <1>4. BeginOf(m) + Delay <= job'[t].wake /\ job'[t].wake < BeginOf(m) + Minute + Delay
    BY <1>1 DEF JobInv, BeginOf
  <1>5. IF job'[t].st = "sleep" THEN clock' <= job'[t].wake
        ELSE job'[t].wake <= clock' /\ clock' <= job'[t].wake + MaxRun
    BY <1>1 DEF JobInv
  <1>6. CASE job'[t].st = "sleep"
    <2>1. clock' < BeginOf(m) + TTL
      BY <1>2, <1>4, <1>5, <1>6 DEF Roomy
    <2> QED BY <1>3, <1>6, <2>1
  <1>7. CASE job'[t].st # "sleep"
    <2>1. clock' < BeginOf(m) + TTL /\ BeginOf(m) + Delay <= clock'
      BY <1>2, <1>4, <1>5, <1>7 DEF Roomy
    <2> QED BY <1>3, <2>1
  <1> QED BY <1>6, <1>7

LEMMA JobServedStep ==
    ASSUME OneClientPerHost, EnableNotification, Roomy, TypeOK, PushedInv, DeletedWasTold,
           UploadsLast, JobInv, [Next]_vars, fails' = 0, JobServed, NowServed'
    PROVE  JobServed'
  <1> SUFFICES ASSUME NEW c \in Client, NEW t \in PushTimes, NEW m \in Nat,
                      job'[t].st = "sleep", job'[t].minute = m, Here(c, m)'
               PROVE  Serving(c, m)'
    BY DEF JobServed
  <1>1. m % Day = t /\ m <= ThisMinute' /\ clock' < BeginOf(m) + TTL
    BY JobTimes
  <1>2. CASE Begun(t)
    <2>1. ThisMinute' = m /\ t = ThisTime /\ clock' = clock
      BY <1>2, SameMinute DEF Begun, Check
    <2>2. PushMinute'
      BY <1>1, <2>1 DEF PushMinute, ThisTime
    <2> QED BY <2>1, <2>2 DEF NowServed
  <1>3. CASE job'[t] = job[t]
    <2>1. CASE Here(c, m)
      <3>1. Serving(c, m) /\ up'[c]
        BY <1>3, <2>1 DEF JobServed, Here
      <3> QED BY <1>1, <2>1, <3>1, ServingStep
    <2>2. CASE Start(c) /\ pushed'[c] = 0 /\ clock' = clock /\ clock <= BeginOf(m)
      <3>1. ThisMinute' = ThisMinute /\ ThisMinute \in Nat
        BY <2>2, SameMinute, ThisMinuteBounds DEF TypeOK
      <3>2. Begin <= BeginOf(m) /\ Minute \in Nat \ {0} /\ Begin \in Nat /\ BeginOf(m) \in Nat
        BY <2>2, ThisMinuteBounds, BeginsInOrder, PushConstants DEF TypeOK, Time
      <3>3. ThisMinute <= m
        <4>1. BeginOf(ThisMinute) < BeginOf(m) + Minute
          BY <3>2 DEF Begin
        <4> QED BY <3>1, <4>1, BeginsInOrder
      <3>4. ThisMinute' = m
        BY <1>1, <3>1, <3>3
      <3> QED BY <2>2, <3>4 DEF Serving, DueFor
    <2> QED BY <2>1, <2>2, WasHere
  <1> QED BY <1>2, <1>3, JobChanges DEF Woken, Continued

\* After the delay no client is still to come: what serves it is in Redis.
LEMMA DelayIsEnough ==
    ASSUME TypeOK, PushedInv, Roomy, NEW c \in Client, NEW m \in Nat, m % Day \in PushTimes,
           Here(c, m), Serving(c, m), BeginOf(m) + Delay <= clock
    PROVE  ToldFor(c, m) \/ KeptFor(c, m)
  <1>1. /\ BeginOf(m) \in Nat /\ clock \in Nat /\ Delay \in Nat /\ MaxRun \in Nat \ {0}
        /\ Larger \in Nat /\ Larger + MaxRun <= Delay
        /\ c \in Node /\ Latest(c) = Larger
    BY BeginsInOrder, LatestBounds, PushConstants DEF TypeOK, Time, Roomy, Larger, Node
  <1>2. ASSUME RunsFor(c, m) PROVE FALSE
    <2>1. clock <= run[c].since + MaxRun /\ run[c].since < BeginOf(m) + Larger
      BY <1>2 DEF RunsFor, PushedInv, RunInv
    <2>2. run[c].since \in Nat
      BY DEF TypeOK, Time
    <2> QED BY <1>1, <2>1, <2>2
  <1>3. ASSUME DueFor(c, m) PROVE FALSE
    <2>1. PushMinute /\ pushed[c] = 0 /\ up[c] /\ since[c] <= Begin /\ Begin = BeginOf(m)
      BY <1>3 DEF DueFor, PushMinute, ThisTime, Here, Begin
    <2>2. clock <= BeginOf(m) + Larger - 1
      BY <1>1, <2>1 DEF PushedInv, DueInv
    <2> QED BY <1>1, <2>2
  <1> QED BY <1>2, <1>3 DEF Serving

LEMMA JobCollectsStep ==
    ASSUME OneClientPerHost, EnableNotification, Roomy, TypeOK, PushedInv, DeletedWasTold,
           UploadsLast, JobInv, [Next]_vars, fails' = 0, JobServed, JobCollects
    PROVE  JobCollects'
  <1> SUFFICES ASSUME NEW c \in Client, NEW t \in PushTimes, NEW m \in Nat,
                      job'[t].st = "read", job'[t].minute = m, Here(c, m)'
               PROVE  Collected(c, t, m)'
    BY DEF JobCollects
  <1>1. m % Day = t /\ clock' < BeginOf(m) + TTL /\ BeginOf(m) + Delay <= clock'
    BY JobTimes
  <1>2. /\ BeginOf(m) \in Nat /\ BeginOf(m)' = BeginOf(m) /\ clock \in Nat /\ clock' \in Nat
        /\ Delay \in Nat \ {0}
    BY BeginsInOrder, PushConstants, TypeStep DEF TypeOK, Time
  <1>3. Here(c, m)
    BY <1>1, <1>2, WasHere
  <1>4. ~Fails
    BY NoFailure
  <1>5. told[c] <= told'[c] /\ told[c] \in Nat /\ told'[c] \in Nat
    BY ToldGrows, TypeStep DEF TypeOK, Time
  <1>6. ASSUME ToldFor(c, m) PROVE Collected(c, t, m)'
    <2>1. ToldFor(c, m)'
      BY <1>2, <1>5, <1>6 DEF ToldFor
    <2> QED BY <2>1 DEF Collected
  <1>7. ASSUME NEW u \in redis, u.by = c, BeginOf(m) <= u.at, Key(u) \in job'[t].keys
        PROVE  Collected(c, t, m)'
    <2>1. CASE ToldFor(u.by, m)'
      BY <1>7, <2>1 DEF Collected
    <2>2. CASE \E v \in redis' : v.by = u.by /\ v.at = u.at /\ Key(v) = Key(u)
      <3>1. PICK v \in redis' : v.by = u.by /\ v.at = u.at /\ Key(v) = Key(u)
        BY <2>2
      <3>2. v.by = c /\ BeginOf(m)' <= v.at /\ Key(v) \in job'[t].keys
        BY <1>2, <1>7, <3>1
      <3> QED BY <3>1, <3>2 DEF Collected, Key
    <2> QED BY <1>1, <1>7, <2>1, <2>2, KeptStays
  <1>8. CASE job'[t] = job[t]
    <2>1. Collected(c, t, m)
      BY <1>3, <1>8 DEF JobCollects
    <2>2. ASSUME NEW u \in job[t].got, u.by = c, BeginOf(m) <= u.at PROVE Collected(c, t, m)'
      BY <1>2, <1>8, <2>2 DEF Collected
    <2> QED BY <1>6, <1>7, <1>8, <2>1, <2>2 DEF Collected
  <1>9. CASE Woken(t)
    <2>1. Serving(c, m) /\ clock' = clock
      BY <1>3, <1>9 DEF Woken, JobServed, Wake
    <2>2. ToldFor(c, m) \/ KeptFor(c, m)
      BY <1>1, <1>3, <2>1, DelayIsEnough
    <2>3. job'[t].keys = AllKeys
      <3>1. job' = [job EXCEPT ![t].st = "read", ![t].wake = clock, ![t].keys = AllKeys]
        BY <1>4, <1>9 DEF Woken, Wake
      <3> QED BY <3>1, JobFields DEF TypeOK, Job
    <2>4. ASSUME NEW u \in redis, u.by = c, BeginOf(m) <= u.at PROVE Collected(c, t, m)'
      <3>1. Key(u) \in job'[t].keys
        BY <2>3 DEF AllKeys
      <3> QED BY <1>7, <2>4, <3>1
    <2> QED BY <1>6, <2>2, <2>4 DEF KeptFor
  <1>10. CASE Continued(t)
    <2>1. Read(t)
      <3>1. ASSUME Send(t) PROVE FALSE
        <4>1. Deleting(t, KeysToDelete(t))
          BY <1>4, <3>1 DEF Send, Sent, SendFails
        <4> QED BY <4>1, JobFields DEF Deleting, TypeOK, NoJob, Job
      <3>2. ASSUME Delete(t) PROVE FALSE
        BY <3>2, JobFields DEF Delete, Deleting, TypeOK, NoJob, Job
      <3> QED BY <1>10, <3>1, <3>2 DEF Continued
    <2>2. PICK k \in job[t].keys :
              job' = [job EXCEPT ![t].keys = @ \ {k}, ![t].got = @ \cup DataOf(k)]
      BY <1>4, <2>1 DEF Read
    <2>3. /\ job'[t].keys = job[t].keys \ {k} /\ job'[t].got = job[t].got \cup DataOf(k)
          /\ job'[t].minute = job[t].minute /\ job[t].st = "read"
      BY <2>1, <2>2, JobFields DEF Read, TypeOK, Job
    <2>4. Collected(c, t, m)
      BY <1>3, <2>3 DEF JobCollects
    <2>5. ASSUME NEW u, u \in job[t].got \/ u \in DataOf(k), u.by = c, BeginOf(m) <= u.at
          PROVE  Collected(c, t, m)'
      BY <1>2, <2>3, <2>5 DEF Collected
    <2>6. ASSUME NEW u \in redis, u.by = c, BeginOf(m) <= u.at, Key(u) \in job[t].keys
          PROVE  Collected(c, t, m)'
      <3>1. CASE Key(u) = k
        <4>1. u \in DataOf(k)
          BY <3>1 DEF DataOf
        <4> QED BY <2>5, <2>6, <4>1
      <3>2. CASE Key(u) # k
        BY <1>7, <2>3, <2>6, <3>2
      <3> QED BY <3>1, <3>2
    <2> QED BY <1>6, <2>4, <2>5, <2>6 DEF Collected
  <1> QED BY <1>8, <1>9, <1>10, JobChanges DEF Begun

LEMMA AnsweredIsToldStep ==
    ASSUME OneClientPerHost, EnableNotification, TypeOK, AnsweredIsPast, [Next]_vars, fails' = 0,
           JobCollects, AnsweredIsTold
    PROVE  AnsweredIsTold'
  <1> SUFFICES ASSUME NEW c \in Client, NEW m \in Nat, answered' = m, Here(c, m)'
               PROVE  ToldFor(c, m)'
    BY DEF AnsweredIsTold
  <1>1. BeginOf(m) \in Nat /\ BeginOf(m)' = BeginOf(m) /\ clock \in Nat
    BY BeginsInOrder DEF TypeOK, Time
  <1>2. told[c] <= told'[c] /\ told[c] \in Nat /\ told'[c] \in Nat
    BY ToldGrows, TypeStep DEF TypeOK, Time
  <1>3. CASE answered' = answered
    <2>1. CASE Here(c, m)
      <3>1. ToldFor(c, m)
        BY <1>3, <2>1 DEF AnsweredIsTold
      <3> QED BY <1>1, <1>2, <3>1 DEF ToldFor
    <2>2. CASE clock <= BeginOf(m)
      <3>1. BeginOf(m) = 0
        BY <1>1, <1>3, <2>2 DEF AnsweredIsPast
      <3> QED BY <1>1, <1>2, <3>1 DEF ToldFor
    <2> QED BY <2>1, <2>2, WasHere
  <1>4. ASSUME NEW t \in PushTimes, Send(t), answered' = job[t].minute, job[t].st = "read",
               job[t].keys = {},
               told' = [d \in Client |-> Max({told[d]} \cup {u.at : u \in By(d, Entries(t))})]
        PROVE  ToldFor(c, m)'
    <2>1. Here(c, m)
      BY <1>1, <1>4 DEF Here, Send, node
    <2>2. Collected(c, t, m)
      BY <1>4, <2>1 DEF JobCollects
    <2>3. CASE ToldFor(c, m)
      BY <1>1, <1>2, <2>3 DEF ToldFor
    <2>4. ASSUME NEW u \in job[t].got, u.by = c, BeginOf(m) <= u.at PROVE ToldFor(c, m)'
      <3>1. PICK v \in Report(job[t].got) : v.by = u.by /\ u.at <= v.at
        BY JobFields, ReportHasNewest
      <3>2. v \in By(c, Entries(t)) /\ v \in Upload /\ u \in Upload
        BY <2>4, <3>1, JobFields DEF By, Entries, Report
      <3>3. \A w \in By(c, Entries(t)) : w.at <= told'[c]
        BY <1>4, ToldIsNewest
      <3>4. v.at <= told'[c] /\ v.at \in Nat /\ u.at \in Nat
        BY <3>2, <3>3 DEF Upload, Time
      <3> QED BY <1>1, <1>2, <2>4, <3>1, <3>4 DEF ToldFor
    <2> QED BY <1>4, <2>2, <2>3, <2>4 DEF Collected
  <1> QED BY <1>3, <1>4, AnswerChanges

LEMMA ServedStep ==
    ASSUME OneClientPerHost, EnableNotification, Roomy, TypeOK, PushedInv, DeletedWasTold, JobInv,
           ServedInv, [Next]_vars
    PROVE  ServedInv'
  <1>1. UploadsLast' /\ AnsweredIsPast'
    BY UploadsLastStep, AnsweredIsPastStep DEF ServedInv
  <1>2. ASSUME fails' = 0 PROVE NowServed' /\ JobServed' /\ JobCollects' /\ AnsweredIsTold'
    <2>1. NowServed /\ JobServed /\ JobCollects /\ AnsweredIsTold /\ UploadsLast /\ AnsweredIsPast
      BY <1>2, NoFailure DEF ServedInv
    <2>2. NowServed'
      BY <1>2, <2>1, NowServedStep
    <2> QED BY <1>2, <2>1, <2>2, JobServedStep, JobCollectsStep, AnsweredIsToldStep
  <1> QED BY <1>1, <1>2 DEF ServedInv

LEMMA ServedInit == ASSUME Init PROVE JobInv /\ ServedInv
  <1>1. TypeOK /\ PushedInv /\ clock = Minute - 1 /\ Minute \in Nat \ {0}
    BY TypeInit, PushedInit, PushConstants DEF Init
  <1>2. ThisMinute = 0 /\ ~PushMinute
    BY <1>1, PushConstants DEF ThisMinute, ThisTime, PushMinute
  <1>3. JobInv /\ JobServed /\ JobCollects
    BY DEF Init, JobInv, JobServed, JobCollects, NoJob
  <1>4. BeginOf(answered) = 0 /\ AnsweredIsPast
    BY <1>1 DEF Init, BeginOf, AnsweredIsPast
  <1>5. AnsweredIsTold
    BY <1>4 DEF Init, AnsweredIsTold, ToldFor
  <1> QED BY <1>2, <1>3, <1>4, <1>5 DEF Init, ServedInv, UploadsLast, NowServed

\* While calls work, the report of a minute has an upload of that minute, or a
\* newer one, of each client that was running when the minute began: for any
\* number of clients, push times and crashes, however late their tickers are.
THEOREM ReportsAreComplete ==
    OneClientPerHost /\ EnableNotification /\ Roomy /\ Spec => []ReportIsComplete
  <1> SUFFICES ASSUME OneClientPerHost, EnableNotification, Roomy
               PROVE  Spec => []ReportIsComplete
    OBVIOUS
  <1> DEFINE Inv == PushedInv /\ DeletedWasTold /\ JobInv /\ ServedInv
  <1>1. Init => Inv
    <2>1. Init => DeletedWasTold
      BY DEF Init, DeletedWasTold, NoJob
    <2> QED BY <2>1, PushedInit, ServedInit
  <1>2. TypeOK /\ Inv /\ [Next]_vars => Inv'
    BY PushedStep, DeletedWasToldStep, JobStep, ServedStep
  <1>3. TypeOK /\ Inv => ReportIsComplete
    <2> SUFFICES ASSUME TypeOK, Inv, fails = 0, NEW c \in Client, up[c],
                        since[c] <= answered * Minute
                 PROVE  told[c] >= answered * Minute
      BY DEF ReportIsComplete
    <2>1. answered \in Nat /\ answered * Minute \in Nat
      BY ThisMinuteBounds, PushConstants DEF TypeOK
    <2>2. ToldFor(c, answered)
      BY <2>1 DEF ServedInv, AnsweredIsTold, Here, BeginOf
    <2>3. told[c] \in Nat
      BY DEF TypeOK, Time
    <2> QED BY <2>1, <2>2, <2>3 DEF ToldFor, BeginOf
  <1> HIDE DEF Inv
  <1> QED BY <1>1, <1>2, <1>3, TypeCorrect, PTL DEF Spec
-----------------------------------------------------------------------------
(* Nothing is reported twice.                                               *)

Untroubled == crashes = 0 /\ fails = 0

UpInv == \A n \in Node : up[n] /\ since[n] = Minute - 1

\* While nothing crashes no Run is carried over into the next minute, and all
\* schedulers check within a Period.
RunsInMinute ==
    \A c \in Client : run[c].st = "busy" =>
        pushed[c] = 1 /\ Begin <= run[c].since /\ run[c].since < Begin + Period
ChecksInPeriod ==
    \A c \in Client : PushMinute /\ pushed[c] = 0 => clock < Begin + Period
WakesInPeriod ==
    \A t \in PushTimes : job[t].st # "idle" => job[t].wake < BeginOf(job[t].minute) + Delay + Period

\* The next upload of c may be of time x.
MayUploadAt(c, x) ==
    \/ run[c].st = "busy" /\ x = run[c].since
    \/ PushMinute /\ pushed[c] = 0 /\ x = Begin
    \/ x = clock + 1

\* All that Redis, the server and the reports know of c is older than x.
Known(u) == u \in redis \/ \E t \in PushTimes : u \in job[t].got
OlderThan(c, x) ==
    /\ told[c] < x
    /\ \A u \in Upload : Known(u) /\ u.by = c => u.at < x

InOrder == \A c \in Client, x \in Nat : MayUploadAt(c, x) => OlderThan(c, x)

OrderInv == UpInv /\ RunsInMinute /\ ChecksInPeriod /\ WakesInPeriod /\ InOrder

\* An upload in Redis is newer than what was told of its client, or is about to
\* be deleted, and what the server has read was not told.
NotTold(u) == told[u.by] < u.at
ToDelete(u) == \E t \in PushTimes : job[t].st = "delete" /\ Key(u) \in job[t].keys
KeptIsNew == \A u \in redis : NotTold(u) \/ ToDelete(u)
ReadIsNew == \A t \in PushTimes : job[t].st = "read" => \A u \in job[t].got : NotTold(u)

\* An upload that came after the keys were listed is the newest of its client
\* and stays so while the job reads.
ListedBefore ==
    \A t \in PushTimes : job[t].st = "read" => \A k \in job[t].keys : k[2] <= job[t].wake
ToRead(t, v) == v \in redis /\ Key(v) \in job[t].keys
NotListed(t, u) == Key(u) \notin job[t].keys /\ \A v \in job[t].got : Key(v) # Key(u)
LaterIsNewer ==
    \A t \in PushTimes, u \in redis : job[t].st = "read" /\ NotListed(t, u) =>
        /\ \A v \in Upload : v.by = u.by /\ (v \in job[t].got \/ ToRead(t, v)) => v.at < u.at
        /\ \A x \in Nat : MayUploadAt(u.by, x) => job[t].wake < x
SleepsEmpty == \A t \in PushTimes : job[t].st = "sleep" => job[t].got = {}

FreshInv == KeptIsNew /\ ReadIsNew /\ ListedBefore /\ LaterIsNewer /\ SleepsEmpty /\ again = {}

LEMMA StaysUntroubled ==
    ASSUME TypeOK, [Next]_vars, Untroubled'
    PROVE  Untroubled /\ ~Fails /\ \A n \in Node : ~Crash(n)
  <1>1. crashes \in Nat /\ fails = 0 /\ ~Fails
    BY NoFailure DEF Untroubled, TypeOK
  <1>2. ASSUME NEW n \in Node, Crash(n) PROVE FALSE
    BY <1>1, <1>2 DEF Crash, Untroubled
  <1>3. crashes' = crashes
    BY <1>2 DEF Next, vars, node, Check, Save, Wake, Read, Send, Delete, Tick, Start
  <1> QED BY <1>1, <1>2, <1>3 DEF Untroubled

\* The steps of a scheduler that neither crashes nor starts.
LEMMA CalmChanges ==
    ASSUME TypeOK, LastInv, UpInv, [Next]_vars, Untroubled', NEW c \in Client
    PROVE  /\ UpInv'
           /\ \/ clock' = clock /\ pushed'[c] = pushed[c] /\ (run'[c] = run[c] \/ Save(c))
              \/ /\ clock' = clock /\ PushMinute /\ pushed[c] = 0 /\ pushed'[c] = 1
                 /\ run[c].st = "idle" /\ run'[c] = [st |-> "busy", since |-> clock]
              \/ Tick /\ run'[c] = run[c]
  <1>1. ~Fails /\ \A n \in Node : ~Crash(n) /\ ~Start(n)
    BY StaysUntroubled DEF UpInv, Start
  <1>2. UpInv'
    BY <1>1 DEF UpInv, Next, vars, node, Check, Save, Wake, Read, Send, Delete, Tick
  <1>3. c \in Node /\ c # Server
    BY PushConstants DEF Node
  <1>4. CASE UNCHANGED vars
    BY <1>2, <1>4 DEF vars
  <1>5. ASSUME NEW n \in Node, Check(n)
        PROVE  \/ pushed'[c] = pushed[c] /\ run'[c] = run[c]
               \/ /\ PushMinute /\ pushed[c] = 0 /\ pushed'[c] = 1
                  /\ run[c].st = "idle" /\ run'[c] = [st |-> "busy", since |-> clock]
    <2>1. CASE n # c
      BY <1>3, <1>5, <2>1 DEF Check, TypeOK
    <2>2. CASE n = c /\ ~IsTimeToPush(c)
      BY <1>5, <2>2 DEF Check
    <2>3. CASE n = c /\ IsTimeToPush(c)
      <3>1. PushMinute /\ pushed[c] = 0
        BY <1>3, <2>3, IsTimeIffNotPushed
      <3>2. pushed'[c] = 1
        BY <1>3, <1>5, <2>3, <3>1 DEF Check, TypeOK
      <3>3. run[c].st = "idle"
        BY <1>5, <2>3 DEF Check, Blocked
      <3>4. run' = [run EXCEPT ![c] = [st |-> "busy", since |-> clock]]
        BY <1>1, <1>3, <1>5, <2>3 DEF Check
      <3> QED BY <3>1, <3>2, <3>3, <3>4 DEF TypeOK
    <2> QED BY <2>1, <2>2, <2>3
  <1>6. ASSUME NEW n \in Node, Check(n) PROVE clock' = clock
    BY <1>6 DEF Check
  <1>7. ASSUME NEW d \in Client, Save(d)
        PROVE  clock' = clock /\ pushed'[c] = pushed[c] /\ (run'[c] = run[c] \/ Save(c))
    <2>1. clock' = clock /\ pushed' = pushed /\ run' = [run EXCEPT ![d] = Resting]
      BY <1>7 DEF Save, history
    <2> QED BY <1>7, <2>1 DEF TypeOK
  <1>8. ASSUME NEW t \in PushTimes, Wake(t) \/ Read(t) \/ Send(t) \/ Delete(t)
        PROVE  clock' = clock /\ pushed' = pushed /\ run' = run
    BY <1>8 DEF Wake, Read, Send, Delete, history
  <1>9. Tick => run' = run
    BY DEF Tick
  <1> QED BY <1>1, <1>2, <1>4, <1>5, <1>6, <1>7, <1>8, <1>9 DEF Next

\* What the steps of Redis and of the reports make known.
LEMMA RedisChanges ==
    ASSUME TypeOK, [Next]_vars, NEW u \in redis'
    PROVE  \/ u \in redis
           \/ \E c \in Client : /\ Save(c) /\ u \in Upload /\ u.by = c
                                /\ run[c].since <= u.at /\ u.at <= clock
  <1>1. u \in redis \/ \E c \in Client : Save(c) /\ \E at \in run[c].since .. clock :
            u = [by |-> c, at |-> at, exp |-> clock + TTL]
    BY DEF Next, vars, Check, Save, Saved, Wake, Read, Send, Delete, Deleted, Tick, Crash, Start
  <1>2. ASSUME NEW c \in Client, NEW at \in run[c].since .. clock,
               u = [by |-> c, at |-> at, exp |-> clock + TTL]
        PROVE  u.by = c /\ run[c].since <= u.at /\ u.at <= clock
    BY <1>2
  <1>3. u \in Upload
    BY TypeStep DEF TypeOK
  <1> QED BY <1>1, <1>2, <1>3

LEMMA GotChanges ==
    ASSUME TypeOK, [Next]_vars, NEW t \in PushTimes, NEW u \in job'[t].got
    PROVE  u \in job[t].got \/ u \in redis
  <1>1. CASE UNCHANGED job
    BY <1>1
  <1>2. ASSUME NEW n \in Node, Check(n) PROVE u \in job[t].got
    <2>1. \/ job' = job
          \/ job' = [job EXCEPT ![ThisTime] =
                [NoJob EXCEPT !.st = "sleep", !.minute = ThisMinute, !.wake = clock + AggregationDelay]]
      BY <1>2 DEF Check
    <2> QED BY <2>1 DEF TypeOK, NoJob
  <1>3. ASSUME NEW r \in PushTimes, Wake(r) PROVE u \in job[t].got
    <2>1. \/ job' = [job EXCEPT ![r].st = "read", ![r].wake = clock, ![r].keys = AllKeys]
          \/ job' = [job EXCEPT ![r].st = "read", ![r].wake = clock]
          \/ job' = [job EXCEPT ![r] = NoJob]
      BY <1>3 DEF Wake
    <2>2. CASE r # t
      BY <2>1, <2>2 DEF TypeOK
    <2>3. CASE r = t
      <3>1. CASE job' = [job EXCEPT ![t].st = "read", ![t].wake = clock, ![t].keys = AllKeys]
        BY <3>1, JobFields DEF TypeOK, Job
      <3>2. CASE job' = [job EXCEPT ![t].st = "read", ![t].wake = clock]
        BY <3>2, JobFields DEF TypeOK, Job
      <3>3. CASE job' = [job EXCEPT ![t] = NoJob]
        BY <3>3 DEF TypeOK, NoJob
      <3> QED BY <2>1, <2>3, <3>1, <3>2, <3>3
    <2> QED BY <2>2, <2>3
  <1>4. ASSUME NEW r \in PushTimes, Read(r) PROVE u \in job[t].got \/ u \in redis
    <2>1. PICK k \in job[r].keys : \/ job' = [job EXCEPT ![r].keys = @ \ {k}, ![r].got = @ \cup DataOf(k)]
                                   \/ job' = [job EXCEPT ![r].keys = @ \ {k}]
      BY <1>4 DEF Read
    <2>2. CASE r # t
      BY <2>1, <2>2 DEF TypeOK
    <2>3. CASE r = t
      <3>1. job'[t].got \in {job[t].got, job[t].got \cup DataOf(k)}
        BY <2>1, <2>3, JobFields DEF TypeOK, Job
      <3> QED BY <3>1 DEF DataOf
    <2> QED BY <2>2, <2>3
  <1>5. ASSUME NEW r \in PushTimes, NEW keys, Deleting(r, keys) PROVE u \in job[t].got
    <2>1. job' = [job EXCEPT ![r] = NoJob] \/ job' = [job EXCEPT ![r] = [@ EXCEPT !.st = "delete", !.keys = keys]]
      BY <1>5 DEF Deleting
    <2>2. CASE r # t
      BY <2>1, <2>2 DEF TypeOK
    <2>3. CASE r = t
      <3>1. CASE job' = [job EXCEPT ![t] = NoJob]
        BY <3>1 DEF TypeOK, NoJob
      <3>2. CASE job' = [job EXCEPT ![t] = [@ EXCEPT !.st = "delete", !.keys = keys]]
        BY <3>2, JobFields DEF TypeOK, Job
      <3> QED BY <2>1, <2>3, <3>1, <3>2
    <2> QED BY <2>2, <2>3
  <1>6. ASSUME NEW r \in PushTimes, Send(r) \/ Delete(r) PROVE u \in job[t].got
    <2>1. CASE \E keys : Deleting(r, keys)
      BY <1>5, <2>1
    <2>2. CASE SendFails(r)
      BY <2>2 DEF SendFails, TypeOK, NoJob
    <2> QED BY <1>6, <2>1, <2>2 DEF Send, Sent, Delete
  <1>7. ASSUME NEW n \in Node, Crash(n) PROVE u \in job[t].got
    BY <1>7 DEF Crash, NoJob
  <1> QED BY <1>1, <1>2, <1>3, <1>4, <1>6, <1>7 DEF Next, vars, Save, Tick, Start

LEMMA ToldChanges ==
    ASSUME TypeOK, [Next]_vars, NEW c \in Client
    PROVE  \/ told'[c] = told[c]
           \/ \E t \in PushTimes : /\ Send(t) /\ job[t].st = "read"
                                   /\ \E u \in job[t].got : u.by = c /\ told'[c] = u.at
  <1>1. ASSUME NEW t \in PushTimes, Send(t)
        PROVE  \/ told'[c] = told[c]
               \/ job[t].st = "read" /\ \E u \in job[t].got : u.by = c /\ told'[c] = u.at
    <2>1. \/ told' = told
          \/ told' = [d \in Client |-> Max({told[d]} \cup {u.at : u \in By(d, Entries(t))})]
      BY <1>1 DEF Send, Entries
    <2>2. job[t].st = "read"
      BY <1>1 DEF Send
    <2>3. CASE told' = [d \in Client |-> Max({told[d]} \cup {u.at : u \in By(d, Entries(t))})]
      <3>1. told'[c] = told[c] \/ \E u \in By(c, Entries(t)) : told'[c] = u.at
        BY <2>3, ToldIsNewest
      <3>2. \A u \in By(c, Entries(t)) : u \in job[t].got /\ u.by = c
        BY EntriesAreRead DEF By
      <3> QED BY <2>2, <3>1, <3>2
    <2> QED BY <2>1, <2>3
  <1> QED BY <1>1 DEF Next, vars, Check, Save, Wake, Read, Delete, Tick, Crash, Start, history

LEMMA KnownChanges ==
    ASSUME TypeOK, [Next]_vars, NEW u \in Upload, Known(u)'
    PROVE  Known(u) \/ (Save(u.by) /\ run[u.by].since <= u.at /\ u.at <= clock)
  <1>1. u \in redis' \/ \E t \in PushTimes : u \in job'[t].got
    BY DEF Known
  <1>2. CASE u \in redis'
    BY <1>2, RedisChanges DEF Known
  <1>3. ASSUME NEW t \in PushTimes, u \in job'[t].got PROVE Known(u)
    BY <1>3, GotChanges DEF Known
  <1> QED BY <1>1, <1>2, <1>3

-----------------------------------------------------------------------------
(* The order of the uploads, while nothing crashes or fails.                *)

LEMMA RunsInMinuteStep ==
    ASSUME TypeOK, PushedInv, OrderInv, [Next]_vars, Untroubled'
    PROVE  RunsInMinute' /\ ChecksInPeriod'
  <1>1. /\ clock \in Nat /\ clock \in Time /\ Begin \in Nat /\ Begin <= clock
        /\ Period \in Nat \ {0} /\ MaxRun \in Nat \ {0} /\ MaxRun + Period <= Minute /\ Minute \in Nat
    BY ThisMinuteBounds, PushConstants DEF TypeOK, Time
  <1>2. ASSUME clock' = clock PROVE Begin' = Begin /\ PushMinute' = PushMinute
    BY <1>2, SameMinute DEF PushMinute
  <1>3. UpInv /\ LastInv
    BY DEF OrderInv, PushedInv
  <1> SUFFICES ASSUME NEW c \in Client
               PROVE  /\ run'[c].st = "busy" =>
                            pushed'[c] = 1 /\ Begin' <= run'[c].since /\ run'[c].since < Begin' + Period
                      /\ PushMinute' /\ pushed'[c] = 0 => clock' < Begin' + Period
    BY DEF RunsInMinute, ChecksInPeriod
  <1>4. /\ run[c].st = "busy" =>
              /\ pushed[c] = 1 /\ Begin <= run[c].since /\ run[c].since < Begin + Period
              /\ clock <= run[c].since + MaxRun
        /\ PushMinute /\ pushed[c] = 0 => clock < Begin + Period
    BY DEF OrderInv, RunsInMinute, ChecksInPeriod, PushedInv, RunInv
  <1>5. c \in Node /\ c # Server /\ phase[c] \in 0 .. Period - 1 /\ up[c] /\ run[c].since \in Nat
    BY <1>3, PushConstants DEF Node, TypeOK, UpInv, Time
  <1>6. CASE clock' = clock /\ pushed'[c] = pushed[c] /\ run'[c] = run[c]
    BY <1>2, <1>4, <1>6
  <1>7. CASE clock' = clock /\ pushed'[c] = pushed[c] /\ Save(c)
    <2>1. run'[c].st = "idle"
      BY <1>7 DEF Save, TypeOK, Resting
    <2> QED BY <1>2, <1>4, <1>7, <2>1
  <1>8. CASE /\ clock' = clock /\ PushMinute /\ pushed[c] = 0 /\ pushed'[c] = 1
             /\ run'[c] = [st |-> "busy", since |-> clock]
    BY <1>1, <1>2, <1>4, <1>8
  <1>9. CASE Tick /\ run'[c] = run[c]
    <2>1. clock' = clock + 1 /\ Prompt /\ clock' \in Time /\ clock' \in Nat
      BY <1>9, TypeStep DEF Tick, TypeOK, Time
    <2>2. run[c].st = "busy" => clock < run[c].since + MaxRun
      BY <2>1 DEF Prompt
    <2>3. CASE clock' % Minute = 0
      <3>1. Begin' = clock' /\ clock' = Begin + Minute
        BY <1>1, <2>1, <2>3, NextMinute
      <3>2. run[c].st # "busy"
        BY <1>1, <1>4, <1>5, <2>1, <2>2, <3>1
      <3> QED BY <1>1, <1>9, <2>1, <3>1, <3>2
    <2>4. CASE clock' % Minute # 0
      <3>1. Begin' = Begin /\ PushMinute' = PushMinute /\ pushed' = pushed
        BY <1>1, <1>9, <2>1, <2>4, NextMinute DEF Tick, PushMinute, ThisTime
      <3>2. ASSUME PushMinute, pushed[c] = 0 PROVE clock' < Begin + Period
        <4>1. clock < Begin + Period
          BY <1>4, <3>2
        <4> SUFFICES ASSUME clock + 1 = Begin + Period PROVE FALSE
          BY <1>1, <2>1, <4>1
        <4>2. PICK x \in Begin .. Begin + Period - 1 : x % Period = phase[c]
          BY <1>1, <1>5, TickerFires
        <4>3. x \in Begin .. clock
          BY <1>1, <4>2
        <4>4. Ticked(c)
          BY <4>2, <4>3 DEF Ticked
        <4>5. c \in Blocked
          BY <1>5, <2>1, <3>2, <4>4 DEF PushedInv, TickInv, Prompt
        <4>6. run[c].st = "busy"
          BY <4>5 DEF Blocked, TypeOK
        <4> QED BY <1>4, <3>2, <4>6
      <3> QED BY <1>4, <1>9, <3>1, <3>2
    <2> QED BY <2>3, <2>4
  <1> QED BY <1>3, <1>6, <1>7, <1>8, <1>9, CalmChanges

LEMMA WakesInPeriodStep ==
    ASSUME TypeOK, PushedInv, JobInv, OrderInv, [Next]_vars, Untroubled'
    PROVE  WakesInPeriod'
  <1> SUFFICES ASSUME NEW t \in PushTimes, job'[t].st # "idle"
               PROVE  job'[t].wake < BeginOf(job'[t].minute) + Delay + Period
    BY DEF WakesInPeriod, BeginOf
  <1>1. job[t].st # "idle" => job[t].wake < BeginOf(job[t].minute) + Delay + Period
    BY DEF OrderInv, WakesInPeriod
  <1>2. CASE job'[t] = job[t]
    BY <1>1, <1>2
  <1>3. CASE Begun(t) /\ job'[t] # job[t]
    <2>1. /\ clock \in Nat /\ Begin \in Nat /\ ThisMinute \in Nat /\ Begin <= clock
          /\ clock \in Time
          /\ Minute \in Nat \ {0} /\ Delay \in Nat /\ Period \in Nat /\ Server \in Node
      BY ThisMinuteBounds, PushConstants DEF TypeOK, Time, Node
    <2>2. IsTimeToPush(Server)
      BY <1>3 DEF Begun, Check
    <2>3. PushMinute /\ pushed[Server] = 0
      BY <2>1, <2>2, IsTimeIffNotPushed DEF PushedInv
    <2>4. ThisMinute # 0
      <3> SUFFICES ASSUME ThisMinute = 0 PROVE FALSE
        OBVIOUS
      <3>1. ThisTime = 0
        BY PushConstants DEF ThisTime
      <3> QED BY <2>3, <3>1, PushConstants DEF PushMinute
    <2>5. Minute <= Begin
      <3>1. BeginOf(0) + Minute <= BeginOf(ThisMinute) /\ BeginOf(0) \in Nat
        BY <2>1, <2>4, MinutesApart
      <3>2. Begin = BeginOf(ThisMinute)
        BY DEF Begin
      <3> HIDE DEF ThisMinute
      <3> QED BY <2>1, <3>1, <3>2
    <2>6. up[Server] /\ since[Server] = Minute - 1
      BY <2>1 DEF OrderInv, UpInv
    <2>7. since[Server] <= Begin
      BY <2>1, <2>5, <2>6
    <2>8. clock <= Begin + Latest(Server) - 1 /\ Latest(Server) = Period
      BY <2>1, <2>3, <2>6, <2>7 DEF PushedInv, DueInv, Latest
    <2>9. job'[t].wake = clock + Delay /\ BeginOf(job'[t].minute) = Begin
      BY <1>3 DEF Begun, Begin
    <2> QED BY <2>1, <2>8, <2>9
  <1>4. CASE Woken(t)
    <2>1. job[t].wake = clock
      <3>1. clock \in Nat /\ job[t].wake \in Nat
        BY PushConstants, JobFields DEF TypeOK, Time, Job
      <3> QED BY <1>4, <3>1 DEF Woken, JobInv
    <2> QED BY <1>1, <1>4, <2>1 DEF Woken
  <1>5. CASE Continued(t)
    BY <1>1, <1>5 DEF Continued
  <1> QED BY <1>2, <1>3, <1>4, <1>5, JobChanges

\* Before a step c could upload no later than after it.
LEMMA MayUploadBefore ==
    ASSUME TypeOK, PushedInv, OrderInv, [Next]_vars, Untroubled', NEW c \in Client, NEW x \in Nat,
           MayUploadAt(c, x)'
    PROVE  \E y \in Nat : y <= x /\ MayUploadAt(c, y)
  <1>1. /\ clock \in Nat /\ clock \in Time /\ Begin \in Nat /\ Begin <= clock
    BY ThisMinuteBounds DEF TypeOK, Time
  <1>2. clock' = clock => Begin' = Begin /\ PushMinute' = PushMinute
    BY SameMinute DEF PushMinute
  <1>3. UpInv /\ LastInv
    BY DEF OrderInv, PushedInv
  <1>4. \/ run'[c].st = "busy" /\ x = run'[c].since
        \/ PushMinute' /\ pushed'[c] = 0 /\ x = Begin'
        \/ x = clock' + 1
    BY DEF MayUploadAt
  <1>5. MayUploadAt(c, clock + 1) /\ clock + 1 \in Nat
    BY <1>1 DEF MayUploadAt
  <1>6. CASE clock' = clock /\ pushed'[c] = pushed[c] /\ (run'[c] = run[c] \/ Save(c))
    <2>1. Save(c) => run'[c].st # "busy"
      BY DEF Save, Resting, TypeOK
    <2> QED BY <1>1, <1>2, <1>4, <1>5, <1>6, <2>1 DEF MayUploadAt
  <1>7. CASE /\ clock' = clock /\ PushMinute /\ pushed[c] = 0 /\ pushed'[c] = 1
             /\ run'[c] = [st |-> "busy", since |-> clock]
    <2>1. MayUploadAt(c, Begin)
      BY <1>7 DEF MayUploadAt
    <2>2. x = clock \/ x = clock + 1
      BY <1>4, <1>7
    <2> QED BY <1>1, <2>1, <2>2
  <1>8. CASE Tick /\ run'[c] = run[c]
    <2>1. clock' = clock + 1 /\ clock' \in Time
      BY <1>8, TypeStep DEF Tick, TypeOK
    <2>2. CASE clock' % Minute = 0
      <3>1. Begin' = clock'
        BY <1>1, <2>1, <2>2, NextMinute
      <3> QED BY <1>1, <1>4, <1>5, <1>8, <2>1, <3>1 DEF MayUploadAt
    <2>3. CASE clock' % Minute # 0
      <3>1. Begin' = Begin /\ PushMinute' = PushMinute /\ pushed' = pushed
        BY <1>1, <1>8, <2>1, <2>3, NextMinute DEF Tick, PushMinute, ThisTime
      <3> QED BY <1>1, <1>4, <1>5, <1>8, <2>1, <3>1 DEF MayUploadAt
    <2> QED BY <2>2, <2>3
  <1> QED BY <1>3, <1>6, <1>7, <1>8, CalmChanges

LEMMA InOrderStep ==
    ASSUME TypeOK, PushedInv, OrderInv, [Next]_vars, Untroubled'
    PROVE  InOrder'
  <1> SUFFICES ASSUME NEW c \in Client, NEW x \in Nat, MayUploadAt(c, x)'
               PROVE  told'[c] < x /\ \A u \in Upload : Known(u)' /\ u.by = c => u.at < x
    BY DEF InOrder, OlderThan
  <1>1. PICK y \in Nat : y <= x /\ MayUploadAt(c, y)
    BY MayUploadBefore
  <1>2. told[c] < y /\ \A u \in Upload : Known(u) /\ u.by = c => u.at < y
    BY <1>1 DEF OrderInv, InOrder, OlderThan
  <1>3. told'[c] < x
    <2>1. told[c] \in Nat
      BY DEF TypeOK, Time
    <2>2. CASE told'[c] = told[c]
      BY <1>1, <1>2, <2>1, <2>2
    <2>3. ASSUME NEW t \in PushTimes, NEW u \in job[t].got, u.by = c, told'[c] = u.at
          PROVE  told'[c] < x
      <3>1. u \in Upload /\ Known(u) /\ u.at \in Nat
        BY JobFields DEF Known, Upload, Time
      <3> QED BY <1>1, <1>2, <2>3, <3>1
    <2> QED BY <2>2, <2>3, ToldChanges
  <1>4. ASSUME NEW u \in Upload, Known(u)', u.by = c PROVE u.at < x
    <2>1. u.at \in Nat
      BY DEF Upload, Time
    <2>2. CASE Known(u)
      BY <1>1, <1>2, <1>4, <2>1, <2>2
    <2>3. CASE Save(c) /\ run[c].since <= u.at /\ u.at <= clock
      <3>1. run[c].st = "busy" /\ clock' = clock /\ pushed' = pushed /\ run'[c].st # "busy"
        BY <2>3 DEF Save, history, Resting, TypeOK
      <3>2. pushed'[c] = 1
        BY <3>1 DEF OrderInv, RunsInMinute
      <3>3. x = clock + 1 /\ clock \in Nat
        BY <3>1, <3>2 DEF MayUploadAt, TypeOK, Time
      <3> QED BY <2>1, <2>3, <3>3
    <2> QED BY <1>4, <2>2, <2>3, KnownChanges
  <1> QED BY <1>3, <1>4

LEMMA OrderStep ==
    ASSUME TypeOK, PushedInv, JobInv, OrderInv, [Next]_vars, Untroubled'
    PROVE  OrderInv'
  <1>1. UpInv'
    <2>1. ~Fails /\ \A n \in Node : ~Crash(n) /\ ~Start(n)
      BY StaysUntroubled DEF OrderInv, UpInv, Start
    <2>2. UpInv
      BY DEF OrderInv
    <2> QED BY <2>1, <2>2 DEF UpInv, Next, vars, node, Check, Save, Wake, Read, Send, Delete, Tick
  <1> QED BY <1>1, RunsInMinuteStep, WakesInPeriodStep, InOrderStep DEF OrderInv

-----------------------------------------------------------------------------
(* What has been read, and what is left.                                    *)

Active(t) == job[t].st \in {"read", "delete"}

\* Two push times are a minute apart or more: their jobs do not overlap.
LEMMA OneActive ==
    ASSUME TypeOK, JobInv, WakesInPeriod, NEW r \in PushTimes, NEW t \in PushTimes,
           Active(r), Active(t)
    PROVE  r = t
  <1>1. ASSUME NEW q \in PushTimes, Active(q)
        PROVE  /\ job[q].minute \in Nat /\ job[q].wake \in Nat /\ job[q].minute % Day = q
               /\ BeginOf(job[q].minute) \in Nat
               /\ BeginOf(job[q].minute) + Delay <= job[q].wake
               /\ job[q].wake < BeginOf(job[q].minute) + Delay + Period
               /\ job[q].wake <= clock /\ clock <= job[q].wake + MaxRun
    <2>1. job[q].minute \in Nat /\ job[q].wake \in Nat
      BY PushConstants, ThisMinuteBounds, JobFields DEF TypeOK, Job
    <2>2. BeginOf(job[q].minute) \in Nat
      BY <2>1, BeginsInOrder
    <2> QED BY <1>1, <2>1, <2>2 DEF Active, JobInv, WakesInPeriod
  <1>2. /\ clock \in Nat /\ Minute \in Nat /\ Delay \in Nat /\ Period \in Nat /\ MaxRun \in Nat
        /\ MaxRun + Period <= Minute
    BY PushConstants DEF TypeOK, Time
  <1>3. ASSUME NEW p \in PushTimes, NEW q \in PushTimes, Active(p), Active(q),
               job[p].minute < job[q].minute
        PROVE  FALSE
    <2>1. BeginOf(job[p].minute) + Minute <= BeginOf(job[q].minute)
      BY <1>1, <1>3, MinutesApart
    <2> QED BY <1>1, <1>2, <1>3, <2>1
  <1>4. job[r].minute = job[t].minute
    BY <1>1, <1>3
  <1> QED BY <1>1, <1>4

LEMMA SendNewest ==
    ASSUME TypeOK, NEW t \in PushTimes, Send(t), ~Fails
    PROVE  /\ job[t].st = "read" /\ job[t].keys = {} /\ redis' = redis
           /\ Deleting(t, KeysToDelete(t))
           /\ told' = [c \in Client |-> Max({told[c]} \cup {u.at : u \in By(c, Entries(t))})]
           /\ again' = again \cup {u.by : u \in {v \in Entries(t) : v.at <= told[v.by]}}
  BY DEF Send, Sent, SendFails, Entries

LEMMA DeletingIs ==
    ASSUME TypeOK, NEW t \in PushTimes, NEW keys, Deleting(t, keys)
    PROVE  /\ keys = {} => job'[t].st = "idle"
           /\ keys # {} => job'[t].st = "delete" /\ job'[t].keys = keys
           /\ \A r \in PushTimes : r # t => job'[r] = job[r]
  <1>1. keys = {} => job' = [job EXCEPT ![t] = NoJob]
    BY DEF Deleting
  <1>2. keys # {} => job' = [job EXCEPT ![t] = [@ EXCEPT !.st = "delete", !.keys = keys]]
    BY DEF Deleting
  <1>3. keys = {} => job'[t].st = "idle" /\ \A r \in PushTimes : r # t => job'[r] = job[r]
    BY <1>1 DEF TypeOK, NoJob
  <1>4. keys # {} => /\ job'[t].st = "delete" /\ job'[t].keys = keys
                     /\ \A r \in PushTimes : r # t => job'[r] = job[r]
    <2> SUFFICES ASSUME keys # {}
                 PROVE  /\ job'[t].st = "delete" /\ job'[t].keys = keys
                        /\ \A r \in PushTimes : r # t => job'[r] = job[r]
      OBVIOUS
    <2>1. job'[t] = [job[t] EXCEPT !.st = "delete", !.keys = keys]
      BY <1>2 DEF TypeOK
    <2>2. job'[t].st = "delete" /\ job'[t].keys = keys
      BY <2>1, JobFields DEF Job
    <2> QED BY <1>2, <2>2 DEF TypeOK
  <1> QED BY <1>3, <1>4

\* How a job comes to be reading, and how the reading goes on.
Lists(t) ==
    /\ Wake(t) /\ job'[t].wake = clock /\ job'[t].keys = AllKeys /\ job[t].st = "sleep"
    /\ job'[t].got = job[t].got
ReadsOne(t) ==
    \E k \in job[t].keys :
        /\ Read(t) /\ job[t].st = "read" /\ job'[t].wake = job[t].wake
        /\ job'[t].keys = job[t].keys \ {k} /\ job'[t].got = job[t].got \cup DataOf(k)

LEMMA ReadingChanges ==
    ASSUME TypeOK, [Next]_vars, Untroubled', NEW t \in PushTimes, job'[t].st = "read"
    PROVE  job'[t] = job[t] \/ Lists(t) \/ ReadsOne(t)
  <1>1. ~Fails
    BY StaysUntroubled
  <1>2. ASSUME Wake(t) PROVE Lists(t)
    <2>1. CASE job' = [job EXCEPT ![t].st = "read", ![t].wake = clock, ![t].keys = AllKeys]
      BY <1>2, <2>1, JobFields DEF Lists, Wake, TypeOK, Job
    <2> QED BY <1>1, <1>2, <2>1 DEF Wake
  <1>3. ASSUME Read(t) PROVE ReadsOne(t)
    <2>1. PICK k \in job[t].keys :
              job' = [job EXCEPT ![t].keys = @ \ {k}, ![t].got = @ \cup DataOf(k)]
      BY <1>1, <1>3 DEF Read
    <2>2. /\ job'[t].wake = job[t].wake /\ job'[t].keys = job[t].keys \ {k}
          /\ job'[t].got = job[t].got \cup DataOf(k)
      BY <2>1, JobFields DEF TypeOK, Job
    <2>3. job[t].st = "read"
      BY <1>3 DEF Read
    <2> QED BY <1>3, <2>2, <2>3 DEF ReadsOne
  <1>4. ASSUME Send(t) PROVE FALSE
    BY <1>1, <1>4, SendNewest, DeletingIs
  <1>5. ASSUME Delete(t) PROVE FALSE
    BY <1>5, DeletingIs DEF Delete
  <1>6. CASE job'[t].st = "idle"
    BY <1>6
  <1>7. CASE Begun(t)
    BY <1>7 DEF Begun
  <1> QED BY <1>2, <1>3, <1>4, <1>5, <1>6, <1>7, JobChanges DEF Woken, Continued

LEMMA AtOf == \A u \in Upload : u.by \in Client /\ u.at \in Nat /\ Key(u)[2] = u.at
  BY DEF Upload, Time, Key

LEMMA ListedBeforeStep ==
    ASSUME TypeOK, OrderInv, FreshInv, [Next]_vars, Untroubled'
    PROVE  ListedBefore'
  <1> SUFFICES ASSUME NEW t \in PushTimes, job'[t].st = "read", NEW k \in job'[t].keys
               PROVE  k[2] <= job'[t].wake
    BY DEF ListedBefore
  <1>1. CASE job'[t] = job[t]
    BY <1>1 DEF FreshInv, ListedBefore
  <1>2. CASE Lists(t)
    <2>1. PICK u \in redis : k = Key(u)
      BY <1>2 DEF Lists, AllKeys
    <2>2. u \in Upload /\ Known(u) /\ clock \in Nat
      BY DEF Known, TypeOK, Time
    <2>3. u.at < clock + 1
      BY <2>2, AtOf DEF OrderInv, InOrder, OlderThan, MayUploadAt
    <2> QED BY <1>2, <2>1, <2>2, <2>3, AtOf DEF Lists
  <1>3. CASE ReadsOne(t)
    BY <1>3 DEF ReadsOne, FreshInv, ListedBefore
  <1> QED BY <1>1, <1>2, <1>3, ReadingChanges

LEMMA SleepsEmptyStep ==
    ASSUME TypeOK, FreshInv, [Next]_vars, Untroubled'
    PROVE  SleepsEmpty'
  <1> SUFFICES ASSUME NEW t \in PushTimes, job'[t].st = "sleep" PROVE job'[t].got = {}
    BY DEF SleepsEmpty
  <1>1. CASE job'[t] = job[t]
    BY <1>1 DEF FreshInv, SleepsEmpty
  <1>2. CASE Begun(t) /\ job'[t] # job[t]
    <2>1. job' = [job EXCEPT ![ThisTime] =
              [NoJob EXCEPT !.st = "sleep", !.minute = ThisMinute, !.wake = clock + AggregationDelay]]
      BY <1>2 DEF Begun, Check
    <2> QED BY <1>2, <2>1 DEF Begun, TypeOK, NoJob
  <1> QED BY <1>1, <1>2, JobChanges DEF Woken, Continued

\* While a job reads, no report goes out and nothing is deleted.
LEMMA ReadingIsAlone ==
    ASSUME TypeOK, JobInv, OrderInv, [Next]_vars, Untroubled', NEW t \in PushTimes,
           job'[t].st = "read"
    PROVE  told' = told /\ (job[t].st = "read" => \A u : ~ToDelete(u))
  <1>1. \A r \in PushTimes : Active(r) /\ job[t].st = "read" => r = t
    BY OneActive DEF OrderInv, Active
  <1>2. \A u : job[t].st = "read" => ~ToDelete(u)
    BY <1>1 DEF ToDelete, Active
  <1>3. ASSUME NEW r \in PushTimes, Send(r) PROVE FALSE
    <2>1. Deleting(r, KeysToDelete(r)) /\ job[r].st = "read"
      BY <1>3, StaysUntroubled, SendNewest
    <2>2. r # t /\ job'[t] = job[t]
      BY <2>1, DeletingIs
    <2> QED BY <1>1, <2>1, <2>2 DEF Active
  <1>4. told' = told
    BY <1>3 DEF Next, vars, Check, Save, Wake, Read, Delete, Tick, Crash, Start, history
  <1> QED BY <1>2, <1>4

LEMMA ReadIsNewStep ==
    ASSUME TypeOK, JobInv, OrderInv, FreshInv, [Next]_vars, Untroubled'
    PROVE  ReadIsNew'
  <1> SUFFICES ASSUME NEW t \in PushTimes, job'[t].st = "read", NEW u \in job'[t].got
               PROVE  told'[u.by] < u.at
    BY DEF ReadIsNew, NotTold
  <1>1. told' = told
    BY ReadingIsAlone
  <1>2. CASE job'[t] = job[t]
    BY <1>1, <1>2 DEF FreshInv, ReadIsNew, NotTold
  <1>3. CASE Lists(t)
    BY <1>3 DEF Lists, FreshInv, SleepsEmpty
  <1>4. CASE ReadsOne(t)
    <2>1. job[t].st = "read" /\ (u \in job[t].got \/ u \in redis)
      BY <1>4 DEF ReadsOne, DataOf
    <2>2. ~ToDelete(u)
      BY <2>1, ReadingIsAlone
    <2> QED BY <1>1, <2>1, <2>2 DEF FreshInv, ReadIsNew, KeptIsNew, NotTold
  <1> QED BY <1>2, <1>3, <1>4, ReadingChanges

LEMMA LaterIsNewerStep ==
    ASSUME TypeOK, PushedInv, JobInv, OrderInv, FreshInv, [Next]_vars, Untroubled'
    PROVE  LaterIsNewer'
  <1> SUFFICES ASSUME NEW t \in PushTimes, NEW u \in redis', job'[t].st = "read",
                      Key(u) \notin job'[t].keys, \A v \in job'[t].got : Key(v) # Key(u)
               PROVE  /\ \A v \in Upload :
                            v.by = u.by /\ (v \in job'[t].got \/ (v \in redis' /\ Key(v) \in job'[t].keys))
                            => v.at < u.at
                      /\ \A x \in Nat : MayUploadAt(u.by, x)' => job'[t].wake < x
    BY DEF LaterIsNewer, NotListed, ToRead, Key
  <1>1. u \in Upload /\ u.by \in Client /\ u.at \in Nat
    BY TypeStep, AtOf DEF TypeOK
  <1>2. ASSUME u \in redis, job[t].st = "read", job'[t].wake = job[t].wake,
               Key(u) \notin job[t].keys, \A v \in job[t].got : Key(v) # Key(u)
        PROVE  /\ \A v \in Upload : v.by = u.by /\ (v \in job[t].got \/ ToRead(t, v)) => v.at < u.at
               /\ \A x \in Nat : MayUploadAt(u.by, x) => job[t].wake < x
               /\ \A x \in Nat : MayUploadAt(u.by, x)' => job'[t].wake < x
    <2>1. /\ \A v \in Upload : v.by = u.by /\ (v \in job[t].got \/ ToRead(t, v)) => v.at < u.at
          /\ \A x \in Nat : MayUploadAt(u.by, x) => job[t].wake < x
      BY <1>2 DEF FreshInv, LaterIsNewer, NotListed
    <2>2. ASSUME NEW x \in Nat, MayUploadAt(u.by, x)' PROVE job'[t].wake < x
      <3>1. PICK y \in Nat : y <= x /\ MayUploadAt(u.by, y)
        BY <1>1, <2>2, MayUploadBefore
      <3>2. job[t].wake < y /\ job[t].wake \in Nat
        BY <2>1, <3>1, PushConstants, JobFields DEF Job
      <3> QED BY <1>2, <3>1, <3>2
    <2> QED BY <2>1, <2>2
  <1>3. CASE Lists(t)
    <2>1. redis' = redis
      BY <1>3 DEF Lists, Wake
    <2> QED BY <1>3, <2>1 DEF Lists, AllKeys
  <1>4. CASE ReadsOne(t)
    <2>1. PICK k \in job[t].keys :
              /\ Read(t) /\ job[t].st = "read" /\ job'[t].wake = job[t].wake
              /\ job'[t].keys = job[t].keys \ {k} /\ job'[t].got = job[t].got \cup DataOf(k)
      BY <1>4 DEF ReadsOne
    <2>2. redis' = redis
      BY <2>1 DEF Read
    <2>3. Key(u) # k
      BY <2>1, <2>2 DEF DataOf
    <2>4. Key(u) \notin job[t].keys /\ \A v \in job[t].got : Key(v) # Key(u)
      BY <2>1, <2>3
    <2>5. \A v \in Upload : v \in job'[t].got \/ (v \in redis' /\ Key(v) \in job'[t].keys)
                           => v \in job[t].got \/ ToRead(t, v)
      BY <2>1, <2>2 DEF DataOf, ToRead
    <2> QED BY <1>2, <2>1, <2>2, <2>4, <2>5
  <1>5. CASE job'[t] = job[t]
    <2>1. ASSUME NEW v \in redis', v \notin redis
          PROVE  /\ v \in Upload /\ v.at \in Nat /\ Save(v.by) /\ v.at <= clock
                 /\ \A w \in Upload : w.by = v.by /\ Known(w) => w.at < v.at
                 /\ MayUploadAt(v.by, run[v.by].since) /\ run[v.by].since \in Nat
                 /\ run[v.by].since <= v.at
                 /\ \A x \in Nat : MayUploadAt(v.by, x)' => x = clock + 1
      <3>1. v \in Upload /\ Save(v.by) /\ run[v.by].since <= v.at /\ v.at <= clock
        BY <2>1, RedisChanges
      <3>2. v.at \in Nat /\ v.by \in Client
        BY <3>1, AtOf
      <3>3. run[v.by].st = "busy" /\ run[v.by].since \in Nat
        BY <3>1, <3>2 DEF Save, TypeOK, Time
      <3>4. MayUploadAt(v.by, run[v.by].since)
        BY <3>3 DEF MayUploadAt
      <3>5. ASSUME NEW w \in Upload, w.by = v.by, Known(w) PROVE w.at < v.at
        <4>1. w.at < run[v.by].since /\ w.at \in Nat
          BY <3>2, <3>3, <3>4, <3>5, AtOf DEF OrderInv, InOrder, OlderThan
        <4> QED BY <3>1, <3>2, <3>3, <4>1
      <3>6. pushed'[v.by] = 1 /\ clock' = clock /\ run'[v.by].st # "busy"
        <4>1. pushed[v.by] = 1
          BY <3>2, <3>3 DEF OrderInv, RunsInMinute
        <4> QED BY <3>1, <3>2, <4>1 DEF Save, history, Resting, TypeOK
      <3>7. \A x \in Nat : MayUploadAt(v.by, x)' => x = clock + 1
        BY <3>6 DEF MayUploadAt
      <3> QED BY <3>1, <3>2, <3>3, <3>4, <3>5, <3>7
    <2>2. job[t].wake \in Nat /\ clock \in Nat /\ job[t].wake <= clock
      BY <1>5, PushConstants, JobFields DEF Job, TypeOK, Time, JobInv
    <2>3. \A v \in job[t].got : Known(v)
      BY DEF Known
    <2>4. CASE u \in redis
      <3>1. /\ \A v \in Upload : v.by = u.by /\ (v \in job[t].got \/ ToRead(t, v)) => v.at < u.at
            /\ \A x \in Nat : MayUploadAt(u.by, x) => job[t].wake < x
            /\ \A x \in Nat : MayUploadAt(u.by, x)' => job'[t].wake < x
        BY <1>2, <1>5, <2>4
      <3>2. ASSUME NEW v \in redis', v.by = u.by, Key(v) \in job[t].keys PROVE v \in redis
        <4> SUFFICES ASSUME v \notin redis PROVE FALSE
          OBVIOUS
        <4>1. job[t].wake < run[v.by].since /\ run[v.by].since <= v.at /\ v \in Upload
              /\ run[v.by].since \in Nat /\ v.at \in Nat
          BY <2>1, <3>1, <3>2
        <4>2. v.at <= job[t].wake
          BY <1>5, <3>2, <4>1, AtOf DEF FreshInv, ListedBefore
        <4> QED BY <2>2, <4>1, <4>2
      <3> QED BY <1>5, <3>1, <3>2 DEF ToRead
    <2>5. CASE u \notin redis
      <3>1. \A w \in Upload : w.by = u.by /\ Known(w) => w.at < u.at
        BY <2>1, <2>5
      <3>2. \A x \in Nat : MayUploadAt(u.by, x)' => job'[t].wake < x
        BY <1>5, <2>1, <2>2, <2>5
      <3>3. ASSUME NEW v \in redis', v.by = u.by, Key(v) \in job[t].keys PROVE v \in redis
        <4> SUFFICES ASSUME v \notin redis PROVE FALSE
          OBVIOUS
        <4>1. PICK c \in Client : redis' \subseteq redis \cup {u}
          <5>1. Save(u.by)
            BY <2>1, <2>5
          <5>2. PICK w : redis' = Saved(w)
            BY <5>1, StaysUntroubled DEF Save
          <5> QED BY <1>1, <2>5, <5>2 DEF Saved
        <4> QED BY <1>5, <3>3, <4>1
      <3> QED BY <1>5, <2>3, <3>1, <3>2, <3>3 DEF Known
    <2> QED BY <2>4, <2>5
  <1> QED BY <1>3, <1>4, <1>5, ReadingChanges

\* Minutes with the same time of the day are a day apart.
LEMMA DaysApart ==
    ASSUME NEW m \in Nat, NEW n \in Nat, m < n, m % Day = n % Day
    PROVE  BeginOf(m) + (Minute * Day) <= BeginOf(n)
  <1> DEFINE a == m \div Day
             b == n \div Day
             r == n % Day
  <1>1. Day \in Nat \ {0} /\ Minute \in Nat
    BY PushConstants
  <1>2. a \in Nat /\ b \in Nat /\ r \in Nat /\ m = (a * Day) + r /\ n = (b * Day) + r
    <2>1. a \in Nat /\ b \in Nat
      BY <1>1, QuotientBounds
    <2>2. n = (b * Day) + r /\ r \in 0 .. Day - 1
      BY <1>1, Residue
    <2>3. m = (a * Day) + (m % Day)
      BY <1>1, Residue
    <2> QED BY <1>1, <2>1, <2>2, <2>3
  <1> HIDE DEF a, b, r
  <1>3. a < b
    <2> SUFFICES ASSUME b <= a PROVE FALSE
      BY <1>2
    <2>1. PICK d \in Nat : a = b + d
      <3>1. a - b \in Nat
        BY <1>2
      <3> QED BY <1>2, <3>1
    <2>2. (a * Day) = (b * Day) + (d * Day) /\ d * Day \in Nat /\ b * Day \in Nat
      BY <1>1, <1>2, <2>1
    <2> QED BY <1>2, <2>2
  <1>4. PICK e \in Nat : b = (a + 1) + e
    <2>1. b - (a + 1) \in Nat
      BY <1>2, <1>3
    <2> QED BY <1>2, <2>1
  <1>5. b * Day = (a * Day) + Day + (e * Day) /\ e * Day \in Nat /\ a * Day \in Nat
    BY <1>1, <1>2, <1>4
  <1> DEFINE f == e * Day
  <1>6. n = (m + Day) + f /\ f \in Nat
    <2> DEFINE x == a * Day
               y == b * Day
    <2>1. m = x + r /\ n = y + r
      BY <1>2
    <2>2. y = x + Day + f /\ x \in Nat /\ f \in Nat
      BY <1>5
    <2> HIDE DEF x, y, f
    <2> QED BY <1>1, <1>2, <2>1, <2>2
  <1> HIDE DEF f
  <1>7. n * Minute = (m * Minute) + (Minute * Day) + (f * Minute)
    BY <1>1, <1>6
  <1>8. f * Minute \in Nat /\ m * Minute \in Nat /\ Minute * Day \in Nat
    BY <1>1, <1>6
  <1> QED BY <1>7, <1>8 DEF BeginOf

LEMMA KeptIsNewStep ==
    ASSUME TypeOK, PushedInv, JobInv, OrderInv, FreshInv, [Next]_vars, Untroubled'
    PROVE  KeptIsNew' /\ again' = {}
  <1>1. ~Fails /\ \A n \in Node : ~Crash(n)
    BY StaysUntroubled
  <1>2. again = {} /\ KeptIsNew /\ ReadIsNew /\ LaterIsNewer
    BY DEF FreshInv
  <1>3. ASSUME NEW t \in PushTimes, Send(t) PROVE KeptIsNew' /\ again' = {}
    <2>1. /\ job[t].st = "read" /\ job[t].keys = {} /\ redis' = redis
          /\ Deleting(t, KeysToDelete(t))
          /\ told' = [c \in Client |-> Max({told[c]} \cup {u.at : u \in By(c, Entries(t))})]
          /\ again' = again \cup {u.by : u \in {v \in Entries(t) : v.at <= told[v.by]}}
      BY <1>1, <1>3, SendNewest
    <2>2. \A v \in job[t].got : v \in Upload /\ v.at \in Nat /\ told[v.by] < v.at /\ told[v.by] \in Nat
      <3>1. \A v \in job[t].got : v \in Upload
        BY JobFields
      <3>2. \A v \in job[t].got : told[v.by] < v.at
        BY <1>2, <2>1 DEF ReadIsNew, NotTold
      <3> QED BY <3>1, <3>2, AtOf DEF TypeOK, Time
    <2>3. again' = {}
      <3>1. \A v \in Entries(t) : ~(v.at <= told[v.by])
        BY <2>2, EntriesAreRead
      <3> QED BY <1>2, <2>1, <3>1
    <2>4. ASSUME NEW u \in redis PROVE told'[u.by] < u.at \/ ToDelete(u)'
      <3>1. u \in Upload /\ u.by \in Client /\ u.at \in Nat
        BY AtOf DEF TypeOK
      <3>2. told[u.by] < u.at
        <4>1. ~ToDelete(u)
          BY <2>1, OneActive DEF ToDelete, Active, OrderInv
        <4> QED BY <1>2, <4>1 DEF KeptIsNew, NotTold
      <3>3. CASE Key(u) \in KeysToDelete(t)
        <4>1. job'[t].st = "delete" /\ job'[t].keys = KeysToDelete(t)
          BY <2>1, <3>3, DeletingIs
        <4> QED BY <3>3, <4>1 DEF ToDelete, Key
      <3>4. CASE Key(u) \notin KeysToDelete(t)
        <4>1. NotListed(t, u)
          BY <2>1, <3>4 DEF NotListed, KeysToDelete
        <4>2. \A v \in job[t].got : v.by = u.by => v.at < u.at
          BY <1>2, <2>1, <2>2, <4>1 DEF LaterIsNewer
        <4>3. \/ told'[u.by] = told[u.by]
              \/ \E v \in By(u.by, Entries(t)) : told'[u.by] = v.at
          BY <2>1, <3>1, ToldIsNewest
        <4>4. \A v \in By(u.by, Entries(t)) : v \in job[t].got /\ v.by = u.by
          BY EntriesAreRead DEF By
        <4> QED BY <3>2, <4>2, <4>3, <4>4
      <3> QED BY <3>3, <3>4
    <2> QED BY <2>1, <2>3, <2>4 DEF KeptIsNew, NotTold
  <1>4. ASSUME NEW t \in PushTimes, Delete(t) PROVE KeptIsNew' /\ again' = {}
    <2>1. PICK k \in job[t].keys : /\ redis' = Deleted(k) /\ Deleting(t, job[t].keys \ {k})
                                   /\ told' = told /\ again' = again
      BY <1>1, <1>4 DEF Delete, history
    <2>2. ASSUME NEW u \in redis, Key(u) # k, ToDelete(u) PROVE ToDelete(u)'
      <3>1. PICK r \in PushTimes : job[r].st = "delete" /\ Key(u) \in job[r].keys
        BY <2>2 DEF ToDelete
      <3>2. job'[r].st = "delete" /\ Key(u) \in job'[r].keys
        <4>1. CASE r = t
          <5>1. Key(u) \in job[t].keys \ {k}
            BY <2>2, <3>1, <4>1
          <5>2. job'[t].st = "delete" /\ job'[t].keys = job[t].keys \ {k}
            BY <2>1, <5>1, DeletingIs
          <5> QED BY <4>1, <5>1, <5>2
        <4>2. CASE r # t
          BY <2>1, <3>1, <4>2, DeletingIs
        <4> QED BY <4>1, <4>2
      <3> QED BY <3>2 DEF ToDelete, Key
    <2> QED BY <1>2, <2>1, <2>2 DEF KeptIsNew, NotTold, Deleted
  <1>5. ASSUME told' = told, again' = again,
               \A u \in redis' : u \in redis => (ToDelete(u) => ToDelete(u)')
        PROVE  KeptIsNew' /\ again' = {}
    <2>1. ASSUME NEW u \in redis', u \notin redis PROVE told[u.by] < u.at
      <3>1. u \in Upload /\ Save(u.by) /\ run[u.by].since <= u.at
        BY <2>1, RedisChanges
      <3>2. u.by \in Client /\ u.at \in Nat /\ run[u.by].since \in Nat /\ told[u.by] \in Nat
        BY <3>1, AtOf DEF TypeOK, Time
      <3>3. told[u.by] < run[u.by].since
        BY <3>1, <3>2 DEF OrderInv, InOrder, OlderThan, MayUploadAt, Save
      <3> QED BY <3>1, <3>2, <3>3
    <2> QED BY <1>2, <1>5, <2>1 DEF KeptIsNew, NotTold
  <1>6. ASSUME NEW t \in PushTimes, job[t].st # "delete", \A r \in PushTimes : r # t => job'[r] = job[r]
        PROVE  \A u : ToDelete(u) => ToDelete(u)'
    BY <1>6 DEF ToDelete, Key
  <1>7. job' = job => \A u : ToDelete(u) => ToDelete(u)'
    BY DEF ToDelete, Key
  <1>8. CASE told' = told /\ again' = again /\ job' = job
    BY <1>5, <1>7, <1>8
  <1>9. ASSUME NEW n \in Node, Check(n) PROVE KeptIsNew' /\ again' = {}
    <2>1. told' = told /\ again' = again
      BY <1>9 DEF Check
    <2>2. CASE n = Server /\ IsTimeToPush(n)
      <3>1. job' = [job EXCEPT ![ThisTime] = [NoJob EXCEPT !.st = "sleep", !.minute = ThisMinute,
                                                           !.wake = clock + AggregationDelay]]
        BY <1>9, <2>2, PushConstants DEF Check
      <3>2. ThisTime \in PushTimes /\ \A r \in PushTimes : r # ThisTime => job'[r] = job[r]
        BY <2>2, <3>1 DEF TypeOK, IsTimeToPush
      <3>3. job[ThisTime].st # "delete"
        <4> SUFFICES ASSUME job[ThisTime].st = "delete" PROVE FALSE
          OBVIOUS
        <4>1. /\ BeginOf(job[ThisTime].minute) + Delay <= job[ThisTime].wake
              /\ job[ThisTime].wake <= clock /\ clock <= job[ThisTime].wake + MaxRun
              /\ job[ThisTime].wake < BeginOf(job[ThisTime].minute) + Delay + Period
              /\ job[ThisTime].minute % Day = ThisTime
              /\ job[ThisTime].minute <= ThisMinute
          BY <3>2 DEF JobInv, OrderInv, WakesInPeriod
        <4>2. /\ clock \in Nat /\ clock \in Time /\ ThisMinute \in Nat /\ Begin \in Nat
              /\ Begin <= clock /\ job[ThisTime].wake \in Nat /\ job[ThisTime].minute \in Nat
              /\ BeginOf(job[ThisTime].minute) \in Nat /\ Begin = BeginOf(ThisMinute)
          BY <3>2, ThisMinuteBounds, PushConstants, JobFields, BeginsInOrder
             DEF TypeOK, Time, Job, Begin
        <4>3. /\ Minute \in Nat \ {0} /\ Day \in Nat /\ Delay \in Nat /\ MaxRun \in Nat \ {0}
              /\ Period \in Nat /\ Delay >= Period + MaxRun /\ MaxRun + Period <= Minute
              /\ Minute + Delay + MaxRun <= Minute * Day /\ Server \in Node
          BY PushConstants DEF Node
        <4>4. clock <= Begin + Period - 1
          <5>1. PushMinute /\ pushed[Server] = 0
            BY <2>2, <4>3, IsTimeIffNotPushed DEF PushedInv
          <5>2. ThisMinute # 0
            BY <3>2, PushConstants DEF ThisTime
          <5>3. Minute <= Begin
            <6>1. BeginOf(0) + Minute <= BeginOf(ThisMinute) /\ BeginOf(0) \in Nat
              BY <4>2, <5>2, MinutesApart
            <6> HIDE DEF ThisMinute
            <6> QED BY <4>2, <4>3, <6>1
          <5>4. up[Server] /\ since[Server] = Minute - 1
            BY <4>3 DEF OrderInv, UpInv
          <5>5. since[Server] <= Begin
            BY <4>2, <4>3, <5>3, <5>4
          <5> QED BY <4>3, <5>1, <5>4, <5>5 DEF PushedInv, DueInv, Latest
        <4>5. CASE job[ThisTime].minute = ThisMinute
          BY <4>1, <4>2, <4>3, <4>4, <4>5
        <4>6. CASE job[ThisTime].minute # ThisMinute
          <5>1. job[ThisTime].minute < ThisMinute /\ job[ThisTime].minute % Day = ThisMinute % Day
            BY <4>1, <4>2, <4>6 DEF ThisTime
          <5>2. BeginOf(job[ThisTime].minute) + (Minute * Day) <= Begin
            BY <4>2, <5>1, DaysApart
          <5> HIDE DEF ThisMinute, ThisTime
          <5>3. Minute * Day \in Nat
            BY <4>3
          <5> DEFINE md == Minute * Day
          <5> HIDE DEF md
          <5> QED BY <4>1, <4>2, <4>3, <5>2, <5>3 DEF md
        <4> QED BY <4>5, <4>6
      <3> QED BY <1>5, <1>6, <2>1, <3>2, <3>3
    <2>3. CASE ~(n = Server /\ IsTimeToPush(n))
      BY <1>8, <1>9, <2>1, <2>3 DEF Check
    <2> QED BY <2>2, <2>3
  <1>10. ASSUME NEW t \in PushTimes, Wake(t) \/ Read(t) PROVE KeptIsNew' /\ again' = {}
    <2>1. told' = told /\ again' = again /\ job[t].st # "delete"
      BY <1>10 DEF Wake, Read, history
    <2>2. \A r \in PushTimes : r # t => job'[r] = job[r]
      BY <1>1, <1>10 DEF Wake, Read, TypeOK
    <2> QED BY <1>5, <1>6, <2>1, <2>2
  <1>11. \/ told' = told /\ again' = again /\ job' = job
         \/ \E n \in Node : Check(n)
         \/ \E t \in PushTimes : Wake(t) \/ Read(t) \/ Send(t) \/ Delete(t)
    BY <1>1 DEF Next, vars, Save, Tick, Start, history
  <1> QED BY <1>3, <1>4, <1>8, <1>9, <1>10, <1>11

LEMMA FreshStep ==
    ASSUME TypeOK, PushedInv, JobInv, OrderInv, FreshInv, [Next]_vars, Untroubled'
    PROVE  FreshInv'
  BY KeptIsNewStep, ReadIsNewStep, ListedBeforeStep, LaterIsNewerStep, SleepsEmptyStep DEF FreshInv

LEMMA OrderInit == ASSUME Init PROVE OrderInv /\ FreshInv
  <1>1. TypeOK /\ PushedInv /\ clock = Minute - 1 /\ Minute \in Nat \ {0} /\ 2 <= Minute
    BY TypeInit, PushedInit, PushConstants DEF Init
  <1>2. ThisMinute = 0 /\ ~PushMinute
    BY <1>1, PushConstants DEF ThisMinute, ThisTime, PushMinute
  <1>3. UpInv /\ RunsInMinute /\ ChecksInPeriod /\ WakesInPeriod
    BY <1>1, <1>2 DEF Init, UpInv, RunsInMinute, ChecksInPeriod, WakesInPeriod, Resting, NoJob
  <1>4. InOrder
    <2>1. ASSUME NEW c \in Client, NEW x \in Nat, MayUploadAt(c, x) PROVE x = Minute
      BY <1>1, <1>2, <2>1 DEF MayUploadAt, Init, Resting
    <2>2. \A u : ~Known(u)
      BY DEF Known, Init, NoJob
    <2>3. \A c \in Client : told[c] = 0
      BY DEF Init
    <2> QED BY <1>1, <2>1, <2>2, <2>3 DEF InOrder, OlderThan
  <1>5. FreshInv
    BY DEF Init, FreshInv, KeptIsNew, ReadIsNew, ListedBefore, LaterIsNewer, SleepsEmpty, NoJob
  <1> QED BY <1>3, <1>4, <1>5 DEF OrderInv

\* Unless something fails or crashes no upload is reported twice, and none
\* after a newer one, for any number of clients, some on one host, and for any
\* delay, although clients save while the server reads, sends and deletes.
THEOREM ReportedAtMostOnce == Spec => []ReportedOnce
  <1> DEFINE Inv == PushedInv /\ JobInv /\ (Untroubled => OrderInv /\ FreshInv)
  <1>1. Init => Inv
    BY PushedInit, ServedInit, OrderInit
  <1>2. TypeOK /\ Inv /\ [Next]_vars => Inv'
    <2> SUFFICES ASSUME TypeOK, Inv, [Next]_vars PROVE Inv'
      OBVIOUS
    <2>1. PushedInv' /\ JobInv'
      BY PushedStep, JobStep
    <2>2. ASSUME Untroubled' PROVE OrderInv' /\ FreshInv'
      <3>1. OrderInv /\ FreshInv
        BY <2>2, StaysUntroubled
      <3> QED BY <2>2, <3>1, OrderStep, FreshStep
    <2> QED BY <2>1, <2>2
  <1>3. Inv => ReportedOnce
    BY DEF Untroubled, FreshInv, ReportedOnce
  <1> HIDE DEF Inv
  <1> QED BY <1>1, <1>2, <1>3, TypeCorrect, PTL DEF Spec
=============================================================================
