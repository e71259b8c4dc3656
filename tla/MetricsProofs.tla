----------------------------- MODULE MetricsProofs -----------------------------
(***************************************************************************)
(* What the collectors and the evaluator guarantee for every width of the  *)
(* counters, every list of devices, every configuration and every reading. *)
(***************************************************************************)
EXTENDS Metrics, WellFoundedInduction, TLAPS

-----------------------------------------------------------------------------
(* Differences of unsigned counters.                                        *)

LEMMA ModRange == ASSUME NEW m \in Nat \ {0}, NEW x \in Int PROVE x % m \in 0 .. m - 1
  OBVIOUS

LEMMA ModDiv ==
    ASSUME NEW m \in Nat \ {0}, NEW x \in Int
    PROVE  x = ((x \div m) * m) + (x % m) /\ (x \div m) \in Int
  OBVIOUS

LEMMA ModRest ==
    ASSUME NEW m \in Nat \ {0}, NEW q \in Int, NEW r \in 0 .. m - 1
    PROVE  ((q * m) + r) % m = r
  OBVIOUS

LEMMA ModPeriod ==
    ASSUME NEW m \in Nat \ {0}, NEW x \in Int, NEW q \in Int
    PROVE  (x + (q * m)) % m = x % m
  <1>1. PICK d \in Int, r \in 0 .. m - 1 : x = (d * m) + r
    BY ModDiv, ModRange
  <1>2. x + (q * m) = ((d + q) * m) + r
    BY <1>1
  <1>3. x % m = r /\ (((d + q) * m) + r) % m = r
    BY <1>1, ModRest
  <1> QED BY <1>2, <1>3

LEMMA ModSum ==
    ASSUME NEW m \in Nat \ {0}, NEW x \in Int, NEW y \in Int
    PROVE  ((x % m) + y) % m = (x + y) % m
  <1> DEFINE r == x % m
  <1>1. PICK d \in Int : x = (d * m) + r
    BY ModDiv
  <1>2. x + y = (r + y) + (d * m)
    BY <1>1
  <1>3. ((r + y) + (d * m)) % m = (r + y) % m
    <2> r + y \in Int
      BY ModRange
    <2> HIDE DEF r
    <2> QED BY ModPeriod
  <1> QED BY <1>2, <1>3

LEMMA ModDifference ==
    ASSUME NEW m \in Nat \ {0}, NEW x \in Int, NEW y \in Int
    PROVE  ((x % m) - y) % m = (x - y) % m
  <1> DEFINE z == 0 - y
  <1>1. z \in Int /\ (x % m) - y = (x % m) + z /\ x - y = x + z
    BY ModRange
  <1> HIDE DEF z
  <1> QED BY <1>1, ModSum

LEMMA MinusType == \A a, b \in Counter : Minus(a, b) \in Nat
  BY HostConstants, ModRange DEF Minus, Counter

LEMMA MinusSelf == \A a \in Counter : Minus(a, a) = 0
  BY HostConstants DEF Minus, Counter

LEMMA AddedType == \A a \in Counter, n \in Nat : (a + n) % Modulus \in Counter
  BY HostConstants, ModRange DEF Counter

\* A counter that grows by n, around Modulus or not, is at most n further away
\* from any earlier reading.
LEMMA MinusGrows ==
    ASSUME NEW a \in Counter, NEW b \in Counter, NEW n \in Nat
    PROVE  /\ Minus((a + n) % Modulus, b) = (Minus(a, b) + n) % Modulus
           /\ Minus((a + n) % Modulus, b) <= Minus(a, b) + n
  <1>1. a \in Int /\ b \in Int /\ Modulus \in Nat \ {0}
    BY HostConstants DEF Counter
  <1> DEFINE c == (a + n) % Modulus
             k == Minus(a, b) + n
  <1>2. (c - b) % Modulus = ((a + n) - b) % Modulus
    <2> DEFINE sum == a + n
    <2>1. sum \in Int
      BY <1>1
    <2> HIDE DEF sum
    <2>2. ((sum % Modulus) - b) % Modulus = (sum - b) % Modulus
      BY <1>1, <2>1, ModDifference
    <2> QED BY <2>2 DEF sum
  <1>3. (a + n) - b = (a - b) + n
    BY <1>1
  <1>4. (((a - b) % Modulus) + n) % Modulus = ((a - b) + n) % Modulus
    <2> a - b \in Int /\ n \in Int
      BY <1>1
    <2> QED BY <1>1, ModSum
  <1>5. Minus(c, b) = k % Modulus
    BY <1>2, <1>3, <1>4 DEF Minus
  <1>6. Minus(a, b) \in Nat /\ k \in Nat
    BY MinusType
  <1> HIDE DEF c, k
  <1>7. k % Modulus <= k
    BY <1>1, <1>6
  <1> QED BY <1>5, <1>7 DEF c, k

-----------------------------------------------------------------------------
(* The device that is read.                                                 *)

LessNat == {p \in Nat \X Nat : p[1] < p[2]}

LEMMA MinIsMember == ASSUME NEW S, S \subseteq Nat, S # {} PROVE Min(S) \in S
  <1>1. IsWellFoundedOn(LessNat, Nat)
    BY NatLessThanWellFounded, Zenon DEF OpToRel, LessNat
  <1>2. PICK i \in S : \A j \in S : ~(<<j, i>> \in LessNat)
    BY <1>1, WFMin
  <1>3. \A j \in S : i <= j
    <2> TAKE j \in S
    <2>1. i \in Nat /\ j \in Nat /\ ~(<<j, i>> \in LessNat)
      BY <1>2
    <2>2. ~(j < i)
      BY <2>1 DEF LessNat
    <2> QED BY <2>1, <2>2
  <1> QED BY <1>2, <1>3 DEF Min

LEMMA PickedType == \A devices \in Lists : Picked(devices) \in Device \cup {Nothing}
  <1> SUFFICES ASSUME NEW devices \in Lists PROVE Picked(devices) \in Device \cup {Nothing}
    OBVIOUS
  <1>1. devices \in Seq(Device)
    BY HostConstants
  <1> DEFINE preferred == {i \in DOMAIN devices : devices[i] \in Preferred}
  <1>2. CASE preferred # {}
    <2>1. preferred \subseteq Nat /\ preferred \subseteq DOMAIN devices
      BY <1>1
    <2>2. Min(preferred) \in DOMAIN devices
      <3> HIDE DEF preferred
      <3> QED BY <1>2, <2>1, MinIsMember
    <2>3. devices[Min(preferred)] \in Device
      <3> HIDE DEF preferred
      <3> QED BY <1>1, <2>2
    <2> QED BY <1>2, <2>3 DEF Picked
  <1>3. CASE preferred = {} /\ devices # <<>>
    BY <1>1, <1>3 DEF Picked
  <1>4. CASE preferred = {} /\ devices = <<>>
    BY <1>4 DEF Picked
  <1> QED BY <1>2, <1>3, <1>4

-----------------------------------------------------------------------------
(* Type correctness.                                                        *)

LEMMA CounterFacts == 0 \in Counter /\ Counter \subseteq Nat /\ Nothing \notin Counter
  BY HostConstants DEF Counter

LEMMA NetworkType ==
    ASSUME HostTypeOK, GetNetworkRate
    PROVE  lastNet' \in Counter /\ netTold' \in Nat /\ netStart' \in 0 .. MaxTotal
  <1>1. lastNet' \in Counter
    BY DEF GetNetworkRate, HostTypeOK
  <1>2. lastNet # Nothing => Minus(rx, lastNet) \in Nat
    BY MinusType DEF HostTypeOK
  <1> QED BY <1>1, <1>2 DEF GetNetworkRate, HostTypeOK

LEMMA DiskType ==
    ASSUME HostTypeOK, GetDiskIORate
    PROVE  /\ lastDisk' \in Counter \cup {Nothing} /\ lastDiskTime' \in 0 .. MaxClock
           /\ device' \in Device \cup {Nothing} /\ diskTold' \in Nat
  <1>1. CASE UNCHANGED disk
    BY <1>1 DEF disk, HostTypeOK
  <1>2. CASE ~UNCHANGED disk
    <2> DEFINE d == Picked(listed)
    <2>1. /\ d # Nothing /\ lastDisk' = sectors[d] /\ device' = d /\ lastDiskTime' = clock
          /\ diskTold' = IF NewBase(d) THEN diskTold ELSE diskTold + Minus(sectors[d], lastDisk)
      BY <1>2 DEF GetDiskIORate
    <2>2. d \in Device
      BY <2>1, PickedType DEF HostTypeOK
    <2> HIDE DEF d
    <2>3. sectors[d] \in Counter
      BY <2>2 DEF HostTypeOK
    <2>4. ~NewBase(d) => Minus(sectors[d], lastDisk) \in Nat
      BY <2>3, MinusType DEF HostTypeOK, NewBase
    <2> QED BY <2>1, <2>2, <2>3, <2>4 DEF HostTypeOK
  <1> QED BY <1>1, <1>2

LEMMA CollectHostType == HostTypeOK /\ CollectHost => HostTypeOK'
  <1> SUFFICES ASSUME HostTypeOK, CollectHost PROVE HostTypeOK'
    OBVIOUS
  <1>1. UNCHANGED kernel /\ cpuInitialized' \in BOOLEAN
    BY DEF CollectHost, HostTypeOK
  <1>2. lastNet' \in Counter \cup {Nothing} /\ netTold' \in Nat /\ netStart' \in 0 .. MaxTotal
    BY NetworkType DEF CollectHost, net, HostTypeOK
  <1>3. /\ lastDisk' \in Counter \cup {Nothing} /\ lastDiskTime' \in 0 .. MaxClock
        /\ device' \in Device \cup {Nothing} /\ diskTold' \in Nat
    BY DiskType DEF CollectHost, disk, HostTypeOK
  <1> QED BY <1>1, <1>2, <1>3 DEF kernel, HostTypeOK

LEMMA TrafficType == HostTypeOK /\ Traffic => HostTypeOK'
  <1> SUFFICES ASSUME HostTypeOK, Traffic PROVE HostTypeOK'
    OBVIOUS
  <1>1. PICK n \in 0 .. MaxAmount, m \in 0 .. MaxAmount :
          /\ received + n <= MaxTotal /\ received' = received + n /\ rx' = (rx + n) % Modulus
          /\ moved + m <= MaxTotal /\ moved' = moved + m
          /\ \/ m = 0 /\ UNCHANGED sectors
             \/ m > 0 /\ \E d \in ToSet(listed) : sectors' = [sectors EXCEPT ![d] = (@ + m) % Modulus]
    BY DEF Traffic
  <1>2. n \in Nat /\ m \in Nat
    BY HostConstants
  <1>3. rx' \in Counter
    BY <1>1, <1>2, AddedType DEF HostTypeOK
  <1>4. sectors' \in [Device -> Counter]
    <2>1. \A d \in Device : (sectors[d] + m) % Modulus \in Counter
      BY <1>2, AddedType DEF HostTypeOK
    <2>2. sectors \in [Device -> Counter]
      BY DEF HostTypeOK
    <2>3. ASSUME NEW d, sectors' = [sectors EXCEPT ![d] = (@ + m) % Modulus]
          PROVE  sectors' \in [Device -> Counter]
      BY <2>1, <2>2, <2>3
    <2> QED BY <1>1, <2>2, <2>3
  <1>5. received' \in 0 .. MaxTotal /\ moved' \in 0 .. MaxTotal
    BY <1>1, <1>2, HostConstants DEF HostTypeOK
  <1>6. clock' \in 0 .. MaxClock
    BY HostConstants DEF Traffic, HostTypeOK
  <1>7. UNCHANGED <<listed, resets, net, disk, cpuInitialized>>
    BY DEF Traffic
  <1> QED BY <1>3, <1>4, <1>5, <1>6, <1>7 DEF net, disk, HostTypeOK

LEMMA KernelType == HostTypeOK /\ Kernel => HostTypeOK'
  <1>1. HostTypeOK /\ Reset => HostTypeOK'
    BY CounterFacts, HostConstants DEF Reset, net, disk, HostTypeOK
  <1>2. HostTypeOK /\ Plug => HostTypeOK'
    BY DEF Plug, net, disk, HostTypeOK
  <1> QED BY <1>1, <1>2, TrafficType DEF Kernel

LEMMA HostInitType == HostInit => HostTypeOK
  <1> SUFFICES ASSUME HostInit PROVE HostTypeOK
    OBVIOUS
  <1>1. sectors \in [Device -> Counter] /\ rx \in Counter /\ 0 \in Nat
    BY CounterFacts DEF HostInit
  <1>2. device \in Device \cup {Nothing}
    BY PickedType DEF HostInit
  <1>3. lastDisk \in Counter \cup {Nothing}
    BY <1>1, <1>2 DEF HostInit
  <1>4. 0 \in 0 .. MaxClock /\ 0 \in 0 .. MaxTotal /\ 0 \in 0 .. MaxResets
    BY HostConstants
  <1>5. lastNet \in Counter \cup {Nothing}
    BY <1>1 DEF HostInit
  <1>6. clock = 0 /\ lastDiskTime = 0
    BY DEF HostInit
  <1> QED BY <1>1, <1>2, <1>3, <1>4, <1>5, <1>6 DEF HostInit, HostTypeOK

LEMMA CollectBaseType == TypeOK /\ CollectBase => TypeOK'
  <1> SUFFICES ASSUME TypeOK, CollectBase PROVE TypeOK'
    OBVIOUS
  <1>1. HostTypeOK' /\ cfg' \in Configs /\ redisInited' \in BOOLEAN
    BY CollectHostType DEF CollectBase, TypeOK
  <1>2. PICK r \in BaseReadings :
          seen' = [part |-> "base", network |-> r.network, top |-> r.top,
                   host |-> [r.host EXCEPT !["CPUHigh"] = IF @ = Error THEN @ ELSE GetCPUInfo(@)],
                   clients |-> IF ~WithRedis THEN 0
                               ELSE IF ~redisInited' \/ r.total = Error THEN Error
                               ELSE ClientCount(r.total, r.others)]
    BY DEF CollectBase
  <1>3. /\ r.host \in [HostType -> Nat \cup {Error}]
        /\ r.total \in Nat \cup {Error} /\ r.others \in Nat \cup {Error}
    BY ReadingsAreReadings
  <1>4. seen'.clients \in Nat \cup {Error}
    BY <1>2, <1>3 DEF ClientCount
  <1>5. \A t \in HostType : seen'.host[t] \in Nat \cup {Error}
    BY <1>2, <1>3 DEF GetCPUInfo
  <1>6. seen'.part = "base"
    BY <1>2
  <1> QED BY <1>1, <1>4, <1>5, <1>6 DEF TypeOK

LEMMA CollectHTTPType == TypeOK /\ CollectHTTP => TypeOK'
  <1> SUFFICES ASSUME TypeOK, CollectHTTP PROVE TypeOK'
    OBVIOUS
  <1>1. HostTypeOK' /\ cfg' \in Configs /\ redisInited' \in BOOLEAN /\ cfg \in Configs
    BY CollectHostType DEF CollectHTTP, TypeOK
  <1>2. PICK r \in HTTPReadings :
          seen' = [part |-> "http", code |-> [i \in DOMAIN cfg.interfaces |-> FinalCode(r[i])]]
    BY DEF CollectHTTP
  <1>3. \A i \in DOMAIN cfg.interfaces : FinalCode(r[i]) \in Nat
    <2> SUFFICES ASSUME NEW i \in DOMAIN cfg.interfaces PROVE FinalCode(r[i]) \in Nat
      OBVIOUS
    <2>1. r[i] \in [status : Nat, body : Nat \cup {None}] \cup {Error}
      BY <1>1, ReadingsAreReadings
    <2> QED BY <2>1 DEF FinalCode
  <1>4. seen'.part = "http" /\ \A i \in DOMAIN seen'.code : seen'.code[i] \in Nat
    BY <1>2, <1>3
  <1> QED BY <1>1, <1>4 DEF TypeOK

\* Every reachable state is well typed, for every width of the counters, every
\* list of devices and every configuration: a reading that fails or repeats
\* leaves no base, rate or metric undefined.
THEOREM TypeCorrect == Spec => []TypeOK
  <1>1. Init => TypeOK
    BY HostInitType DEF Init, TypeOK
  <1>2. TypeOK /\ [Next]_vars => TypeOK'
    <2> SUFFICES ASSUME TypeOK, [Next]_vars PROVE TypeOK'
      OBVIOUS
    <2>1. CASE CollectBase \/ CollectHTTP
      BY <2>1, CollectBaseType, CollectHTTPType
    <2>2. CASE Rest \/ UNCHANGED vars
      BY <2>2 DEF Rest, vars, hostVars, kernel, net, disk, HostTypeOK, TypeOK
    <2>3. CASE Outside
      BY <2>3, KernelType DEF Outside, TypeOK
    <2> QED BY <2>1, <2>2, <2>3 DEF Next
  <1> QED BY <1>1, <1>2, PTL DEF Spec

-----------------------------------------------------------------------------
(* Rates.                                                                   *)

\* Nothing is told before there is a base.
NetInv == (lastNet = Nothing => netTold = 0) /\ NetworkAddsUp

\* The sectors of the device that was read last which no rate has told yet are
\* not among those told.
DiskInv ==
    /\ device = Nothing <=> lastDisk = Nothing
    /\ lastDisk = Nothing => diskTold = 0
    /\ resets = 0 /\ lastDisk # Nothing => diskTold + Minus(sectors[device], lastDisk) <= moved
    /\ DiskNotTwice

RateInv == NetInv /\ DiskInv

LEMMA NetworkKeepsNetInv ==
    ASSUME HostTypeOK, NetInv, GetNetworkRate, UNCHANGED kernel
    PROVE  NetInv'
  <1>1. lastNet' = rx /\ rx \in Counter /\ lastNet' # Nothing
    BY CounterFacts DEF GetNetworkRate, HostTypeOK
  <1>2. Minus(rx, lastNet)' = 0
    <2>1. Minus(rx', lastNet') = Minus(rx, rx)
      BY <1>1 DEF kernel
    <2> QED BY <1>1, <2>1, MinusSelf DEF Minus
  <1>3. resets = 0 => netTold' <= received - netStart'
                      /\ netTold' % Modulus = (received - netStart') % Modulus
    <2>1. CASE lastNet = Nothing
      <3>1. netTold' = 0 /\ received - netStart' = 0
        BY <2>1 DEF GetNetworkRate, NetInv, HostTypeOK
      <3> QED BY <3>1
    <2>2. CASE lastNet # Nothing
      BY <2>2 DEF GetNetworkRate, NetInv, NetworkAddsUp
    <2> QED BY <2>1, <2>2
  <1>4. netTold' \in Nat /\ netTold' + 0 = netTold'
    BY NetworkType
  <1> QED BY <1>1, <1>2, <1>3, <1>4 DEF NetInv, NetworkAddsUp, kernel

LEMMA DiskKeepsDiskInv ==
    ASSUME HostTypeOK, DiskInv, GetDiskIORate, UNCHANGED kernel
    PROVE  DiskInv'
  <1>1. CASE UNCHANGED disk
    BY <1>1 DEF disk, kernel, DiskInv, DiskNotTwice, Minus
  <1>2. CASE ~UNCHANGED disk
    <2> DEFINE d == Picked(listed)
    <2>1. /\ d # Nothing /\ lastDisk' = sectors[d] /\ device' = d
          /\ diskTold' = IF NewBase(d) THEN diskTold ELSE diskTold + Minus(sectors[d], lastDisk)
      BY <1>2 DEF GetDiskIORate
    <2>2. d \in Device /\ sectors[d] \in Counter
      BY <2>1, PickedType DEF HostTypeOK
    <2> HIDE DEF d
    <2>3. device' # Nothing /\ lastDisk' # Nothing
      BY <2>1, <2>2, CounterFacts
    <2>4. Minus(sectors[device], lastDisk)' = 0
      <3>1. Minus(sectors'[device'], lastDisk') = Minus(sectors[d], sectors[d])
        BY <2>1 DEF kernel
      <3> QED BY <2>2, <3>1, MinusSelf DEF Minus
    <2>5. resets = 0 => diskTold' <= moved
      <3>1. CASE NewBase(d)
        BY <2>1, <3>1 DEF DiskInv, DiskNotTwice
      <3>2. CASE ~NewBase(d)
        <4>1. lastDisk # Nothing /\ device = d
          BY <3>2 DEF NewBase, DiskInv
        <4> QED BY <2>1, <3>2, <4>1 DEF DiskInv
      <3> QED BY <3>1, <3>2
    <2>6. diskTold' \in Nat
      BY DiskType
    <2> QED BY <2>3, <2>4, <2>5, <2>6 DEF DiskInv, DiskNotTwice, kernel
  <1> QED BY <1>1, <1>2

LEMMA CollectKeepsRateInv ==
    ASSUME HostTypeOK, RateInv, CollectHost
    PROVE  RateInv'
  <1>1. NetInv'
    BY NetworkKeepsNetInv DEF CollectHost, RateInv, NetInv, NetworkAddsUp, Minus, net, kernel
  <1>2. DiskInv'
    BY DiskKeepsDiskInv DEF CollectHost, RateInv, DiskInv, DiskNotTwice, Minus, disk, kernel
  <1> QED BY <1>1, <1>2 DEF RateInv

LEMMA TrafficKeepsRateInv ==
    ASSUME HostTypeOK, RateInv, Traffic
    PROVE  RateInv'
  <1>1. PICK n \in 0 .. MaxAmount, m \in 0 .. MaxAmount :
          /\ received' = received + n /\ rx' = (rx + n) % Modulus
          /\ moved' = moved + m
          /\ \/ m = 0 /\ UNCHANGED sectors
             \/ m > 0 /\ \E d \in ToSet(listed) : sectors' = [sectors EXCEPT ![d] = (@ + m) % Modulus]
    BY DEF Traffic
  <1>2. n \in Nat /\ m \in Nat
    BY HostConstants
  <1>3. UNCHANGED <<lastNet, netTold, netStart, lastDisk, device, diskTold, resets>>
    BY DEF Traffic, net, disk
  <1>4. /\ received \in Nat /\ moved \in Nat /\ netTold \in Nat /\ diskTold \in Nat
        /\ rx \in Counter /\ sectors \in [Device -> Counter]
    BY HostConstants DEF HostTypeOK
  <1>5. NetInv'
    <2> DEFINE counted == netTold + Minus(rx, lastNet)
               counted2 == netTold + Minus(rx', lastNet)
               since == received - netStart
    <2> SUFFICES ASSUME resets = 0, lastNet # Nothing
                 PROVE  counted2 <= since + n /\ counted2 % Modulus = (since + n) % Modulus
      <3>1. netStart \in Nat /\ (received + n) - netStart = since + n
        BY <1>2, <1>4 DEF HostTypeOK
      <3> QED BY <1>1, <1>3, <3>1 DEF NetInv, NetworkAddsUp, Minus, RateInv
    <2>1. lastNet \in Counter /\ rx' \in Counter /\ netStart \in Nat /\ Modulus \in Nat \ {0}
      BY <1>1, <1>2, <1>4, AddedType, HostConstants DEF HostTypeOK
    <2>2. /\ Minus(rx', lastNet) = (Minus(rx, lastNet) + n) % Modulus
          /\ Minus(rx', lastNet) <= Minus(rx, lastNet) + n
      BY <1>1, <1>2, <1>4, <2>1, MinusGrows
    <2>3. Minus(rx', lastNet) \in Nat /\ Minus(rx, lastNet) \in Nat
      BY <1>4, <2>1, MinusType
    <2>4. counted <= since /\ counted % Modulus = since % Modulus
      BY DEF RateInv, NetInv, NetworkAddsUp
    <2>5. counted \in Int /\ counted2 \in Int /\ since \in Int /\ n \in Int
      BY <1>2, <1>4, <2>1, <2>3
    <2>6. counted2 % Modulus = (counted + n) % Modulus
      <3> DEFINE step == Minus(rx, lastNet) + n
      <3>1. step \in Int /\ netTold \in Int
        BY <1>2, <1>4, <2>3
      <3>2. counted2 = (step % Modulus) + netTold
        BY <1>4, <2>2, <2>3
      <3>3. counted + n = step + netTold
        BY <1>2, <1>4, <2>3
      <3> HIDE DEF step, counted, counted2
      <3> QED BY <2>1, <3>1, <3>2, <3>3, ModSum
    <2>7. (counted + n) % Modulus = (since + n) % Modulus
      <3> HIDE DEF counted, since
      <3>1. ((counted % Modulus) + n) % Modulus = (counted + n) % Modulus
        BY <2>1, <2>5, ModSum
      <3>2. ((since % Modulus) + n) % Modulus = (since + n) % Modulus
        BY <2>1, <2>5, ModSum
      <3> QED BY <2>4, <3>1, <3>2
    <2>8. counted2 <= since + n
      BY <1>2, <1>4, <2>1, <2>2, <2>3, <2>4
    <2> QED BY <2>6, <2>7, <2>8
  <1>6. DiskInv'
    <2>1. DiskNotTwice'
      BY <1>1, <1>2, <1>3, <1>4 DEF RateInv, DiskInv, DiskNotTwice
    <2>2. ASSUME resets = 0, lastDisk # Nothing
          PROVE  diskTold + Minus(sectors'[device], lastDisk) <= moved + m
      <3>1. device \in Device /\ lastDisk \in Counter /\ sectors[device] \in Counter
        BY <1>4, <2>2 DEF RateInv, DiskInv, HostTypeOK
      <3>2. \/ sectors'[device] = sectors[device]
            \/ sectors'[device] = (sectors[device] + m) % Modulus
        BY <1>1, <1>4, <3>1
      <3>3. Minus(sectors'[device], lastDisk) <= Minus(sectors[device], lastDisk) + m
        <4>1. Minus(sectors[device], lastDisk) \in Nat
          BY <3>1, MinusType
        <4>2. Minus((sectors[device] + m) % Modulus, lastDisk) <= Minus(sectors[device], lastDisk) + m
          BY <1>2, <3>1, MinusGrows
        <4> QED BY <1>2, <3>2, <4>1, <4>2
      <3>4. sectors'[device] \in Counter
        BY <1>2, <3>1, <3>2, AddedType
      <3>5. Minus(sectors'[device], lastDisk) \in Nat /\ Minus(sectors[device], lastDisk) \in Nat
        BY <3>1, <3>4, MinusType
      <3>6. diskTold + Minus(sectors[device], lastDisk) <= moved
        BY <2>2 DEF RateInv, DiskInv
      <3> QED BY <1>2, <1>4, <3>3, <3>5, <3>6
    <2> QED BY <1>1, <1>3, <2>1, <2>2 DEF RateInv, DiskInv, Minus
  <1> QED BY <1>5, <1>6 DEF RateInv

LEMMA KernelKeepsRateInv ==
    ASSUME HostTypeOK, RateInv, Kernel
    PROVE  RateInv'
  <1>1. CASE Reset
    BY <1>1 DEF Reset, net, disk, RateInv, NetInv, NetworkAddsUp, DiskInv, DiskNotTwice, HostTypeOK
  <1>2. CASE Plug
    BY <1>2 DEF Plug, net, disk, RateInv, NetInv, NetworkAddsUp, DiskInv, DiskNotTwice, Minus
  <1> QED BY <1>1, <1>2, TrafficKeepsRateInv DEF Kernel

LEMMA RateInvInit == Init => RateInv
  <1> SUFFICES ASSUME HostInit PROVE RateInv
    BY DEF Init
  <1>1. NetInv
    BY CounterFacts, MinusSelf DEF HostInit, NetInv, NetworkAddsUp
  <1>2. device = Nothing <=> lastDisk = Nothing
    BY PickedType, CounterFacts DEF HostInit
  <1>3. lastDisk # Nothing => Minus(sectors[device], lastDisk) = 0
    BY PickedType, CounterFacts, MinusSelf DEF HostInit
  <1>4. DiskInv
    BY <1>2, <1>3 DEF HostInit, DiskInv, DiskNotTwice
  <1> QED BY <1>1, <1>4 DEF RateInv

LEMMA RateInvStep == TypeOK /\ RateInv /\ [Next]_vars => RateInv'
  <1> SUFFICES ASSUME TypeOK, RateInv, [Next]_vars PROVE RateInv'
    OBVIOUS
  <1>1. HostTypeOK
    BY DEF TypeOK
  <1>2. CASE CollectBase \/ CollectHTTP
    BY <1>1, <1>2, CollectKeepsRateInv DEF CollectBase, CollectHTTP
  <1>3. CASE Rest \/ UNCHANGED vars
    BY <1>3 DEF Rest, vars, hostVars, kernel, net, disk, RateInv, NetInv, NetworkAddsUp,
                DiskInv, DiskNotTwice, Minus
  <1>4. CASE Outside
    BY <1>1, <1>4, KernelKeepsRateInv DEF Outside
  <1> QED BY <1>2, <1>3, <1>4 DEF Next

\* While no counter starts again, all rates together tell what was received
\* between the first reading and the last: not a byte more, and not one less but
\* for whole turns of the counter between two readings, whichever cycle asks and
\* whichever reads fail.
THEOREM NetworkRatesAddUp == Spec => []NetworkAddsUp
  <1>1. RateInv => NetworkAddsUp
    BY DEF RateInv, NetInv
  <1> QED BY <1>1, RateInvInit, RateInvStep, TypeCorrect, PTL DEF Spec

\* Nor is a sector, whatever devices come and go.
THEOREM DiskRatesAddUp == Spec => []DiskNotTwice
  <1>1. RateInv => DiskNotTwice
    BY DEF RateInv, DiskInv
  <1> QED BY <1>1, RateInvInit, RateInvStep, TypeCorrect, PTL DEF Spec

-----------------------------------------------------------------------------
(* Judgements.                                                              *)

\* HTTP metrics are only judged where they are collected.
HTTPIsEnabled == Base("http") => cfg.http /\ DOMAIN seen.code = DOMAIN cfg.interfaces

LEMMA ConfigTypes ==
    ASSUME TypeOK
    PROVE  /\ cfg.thr \in [HostType -> Thresholds \cup {None}]
           /\ cfg.clients \in [on : BOOLEAN, min : Int, max : Int] \cup {None}
  BY ConfigsAreConfigurations DEF TypeOK

LEMMA BaseMetrics ==
    ASSUME TypeOK, Base("base")
    PROVE  /\ \A t \in HostType : seen.host[t] \in Nat \cup {Error}
           /\ seen.clients \in Nat \cup {Error}
           /\ Decisions = BaseDecisions(cfg, seen)
  BY DEF TypeOK, Base, Decisions

LEMMA HTTPMetrics ==
    ASSUME TypeOK, Base("http")
    PROVE  /\ \A i \in DOMAIN seen.code : seen.code[i] \in Nat
           /\ Decisions = HTTPDecisions(cfg, seen)
  BY DEF TypeOK, Base, Decisions

LEMMA ErrorTypes ==
    /\ \A t \in HostType : /\ ErrorType(t) \notin HostType \cup RedisType \cup {"HTTPErr", "NetworkErr", "RedisErr"}
                           /\ \A u \in HostType : ErrorType(t) = ErrorType(u) => t = u
    /\ HostType \cap (RedisType \cup {"HTTPErr", "NetworkErr", "RedisErr"}) = {}
    /\ RedisType \cap {"HTTPErr", "NetworkErr", "RedisErr"} = {}
  BY DEF ErrorType, HostType, RedisType

\* What is decided on a host metric, and only on it.
LEMMA HostDecisions ==
    ASSUME TypeOK, Base("base"), cfg.host, NEW t \in HostType
    PROVE  /\ HostDecision(cfg, seen, t) \subseteq Decisions
           /\ \A d \in Decisions : d.type \in {t, ErrorType(t)} => d \in HostDecision(cfg, seen, t)
  <1>1. Decisions = (UNION {HostDecision(cfg, seen, u) : u \in HostType}) \cup NetworkDecision(seen)
                    \cup (IF cfg.app /\ cfg.redis THEN RedisDecisions(cfg, seen) ELSE {})
    BY BaseMetrics DEF BaseDecisions
  <1>2. ASSUME NEW u \in HostType, NEW d \in HostDecision(cfg, seen, u)
        PROVE  d.type \in {u, ErrorType(u)}
    BY <1>2 DEF HostDecision, Decision
  <1>3. \A d \in NetworkDecision(seen) : d.type = "NetworkErr"
    BY DEF NetworkDecision, Decision
  <1>4. \A d \in RedisDecisions(cfg, seen) : d.type \in RedisType \cup {"RedisErr"}
    BY DEF RedisDecisions, Decision, RedisType
  <1>5. ASSUME NEW u \in HostType, NEW type, type \in {t, ErrorType(t)}, type \in {u, ErrorType(u)}
        PROVE  u = t
    BY <1>5, ErrorTypes
  <1>6. ASSUME NEW d \in Decisions, d.type \in {t, ErrorType(t)}
        PROVE  d \in HostDecision(cfg, seen, t)
    <2>1. d.type \notin RedisType \cup {"NetworkErr", "RedisErr"}
      BY <1>6, ErrorTypes
    <2>2. PICK u \in HostType : d \in HostDecision(cfg, seen, u)
      BY <1>1, <1>3, <1>4, <2>1
    <2> QED BY <1>2, <1>5, <1>6, <2>2
  <1> QED BY <1>1, <1>6

LEMMA HostFaultIsAlerted ==
    ASSUME TypeOK, Base("base"), NEW t \in HostType
    PROVE  /\ Fails(t) => Says(ErrorType(t), None) = {"error"}
           /\ IsHigh(t) => Says(t, None) # {} /\ Says(t, None) \subseteq Levels
  <1>1. ASSUME NEW type, type \in {t, ErrorType(t)}, cfg.host
        PROVE  Says(type, None)
                = {Judgement(cfg, d) : d \in {e \in HostDecision(cfg, seen, t) : e.type = type}}
    BY <1>1, HostDecisions DEF Says
  <1>2. ASSUME cfg.host, seen.host[t] = Error PROVE Says(ErrorType(t), None) = {"error"}
    <2> DEFINE d == Decision(ErrorType(t), 0, Default)
    <2>1. HostDecision(cfg, seen, t) = {d} /\ d.type = ErrorType(t)
      BY <1>2 DEF HostDecision, Decision
    <2>2. Judgement(cfg, d) = "error"
      BY <2>1, ErrorTypes DEF Judgement, HasConfig
    <2> HIDE DEF d
    <2> QED BY <1>1, <1>2, <2>1, <2>2
  <1>3. ASSUME cfg.host, seen.host[t] # Error, cfg.thr[t] # None, cfg.thr[t].on,
               seen.host[t] >= cfg.thr[t].base
        PROVE  Says(t, None) # {} /\ Says(t, None) \subseteq Levels
    <2> DEFINE d == Decision(t, seen.host[t], IF t = "DiskHigh" THEN Default ELSE TopProcess(seen.top[t]))
    <2>1. HostDecision(cfg, seen, t) = {d} /\ d.type = t /\ d.value = seen.host[t]
      BY <1>3 DEF HostDecision, Decision
    <2> HIDE DEF d
    <2>2. seen.host[t] \in Nat /\ cfg.thr[t] \in Thresholds
      BY <1>3, BaseMetrics, ConfigTypes
    <2>3. HasConfig(cfg, t) /\ t \notin RedisType /\ t # "HTTPErr"
      BY <1>3, ErrorTypes DEF HasConfig
    <2>4. ~Recovered(cfg, d)
      BY <1>3, <2>1, <2>2, <2>3 DEF Recovered, Thresholds, RedisType
    <2>5. Level(cfg, d) \in {"p1", "p2", "p3", "reminder"}
      <3>1. Level(cfg, d) = DetermineSeverity(d.value, cfg.thr[t])
        BY <2>1, <2>3 DEF Level, RedisType
      <3> QED BY <1>3, <2>1, <3>1 DEF DetermineSeverity
    <2>6. Judgement(cfg, d) \in Levels
      BY <2>1, <2>3, <2>4, <2>5 DEF Judgement, Levels
    <2> QED BY <1>1, <1>3, <2>1, <2>6
  <1> QED BY <1>2, <1>3 DEF Fails, IsHigh

LEMMA NetworkFaultIsAlerted ==
    ASSUME TypeOK, Base("base"), NetworkFails
    PROVE  Says("NetworkErr", None) = {"error"}
  <1> DEFINE d == Decision("NetworkErr", 0, Default)
  <1>1. NetworkDecision(seen) = {d} /\ d.type = "NetworkErr"
    BY DEF NetworkFails, NetworkDecision, Decision
  <1>2. d \in Decisions
    BY <1>1, BaseMetrics DEF BaseDecisions, NetworkFails
  <1>3. ASSUME NEW e \in Decisions, e.type = "NetworkErr" PROVE e = d
    <2>1. \A u \in HostType : \A f \in HostDecision(cfg, seen, u) : f.type \in {u, ErrorType(u)}
      BY DEF HostDecision, Decision
    <2>2. \A f \in RedisDecisions(cfg, seen) : f.type \in RedisType \cup {"RedisErr"}
      BY DEF RedisDecisions, Decision, RedisType
    <2>3. e \in NetworkDecision(seen)
      BY <1>3, <2>1, <2>2, BaseMetrics, ErrorTypes DEF BaseDecisions
    <2> QED BY <1>1, <2>3
  <1>4. Judgement(cfg, d) = "error"
    BY <1>1, ErrorTypes DEF Judgement, HasConfig
  <1> HIDE DEF d
  <1> QED BY <1>1, <1>2, <1>3, <1>4 DEF Says

LEMMA RedisFaultIsAlerted ==
    ASSUME TypeOK, Base("base")
    PROVE  /\ RedisFails => Says("RedisErr", None) = {"error"}
           /\ TooFew \/ TooMany
                => (Says("RedisLow", None) \cup Says("RedisHigh", None)) \cap Levels = {"p2"}
  <1> SUFFICES ASSUME cfg.app, cfg.redis
               PROVE  /\ seen.clients = Error => Says("RedisErr", None) = {"error"}
                      /\ TooFew \/ TooMany
                          => (Says("RedisLow", None) \cup Says("RedisHigh", None)) \cap Levels = {"p2"}
    BY DEF RedisFails, TooFew, TooMany, ClientsCount
  <1>1. \A d \in Decisions : d.type \in RedisType \cup {"RedisErr"} <=> d \in RedisDecisions(cfg, seen)
    <2>1. Decisions = (IF cfg.host THEN (UNION {HostDecision(cfg, seen, u) : u \in HostType})
                                        \cup NetworkDecision(seen) ELSE {})
                      \cup RedisDecisions(cfg, seen)
      BY BaseMetrics DEF BaseDecisions
    <2>2. \A u \in HostType : \A d \in HostDecision(cfg, seen, u) : d.type \in {u, ErrorType(u)}
      BY DEF HostDecision, Decision
    <2>3. \A d \in NetworkDecision(seen) : d.type = "NetworkErr"
      BY DEF NetworkDecision, Decision
    <2>4. \A d \in RedisDecisions(cfg, seen) : d.type \in RedisType \cup {"RedisErr"}
      BY DEF RedisDecisions, Decision, RedisType
    <2> QED BY <2>1, <2>2, <2>3, <2>4, ErrorTypes
  <1>2. RedisDecisions(cfg, seen) \subseteq Decisions
    BY BaseMetrics DEF BaseDecisions
  <1>3. ASSUME NEW type \in RedisType \cup {"RedisErr"}
        PROVE  Says(type, None)
                = {Judgement(cfg, d) : d \in {e \in RedisDecisions(cfg, seen) : e.type = type}}
    BY <1>1, <1>2 DEF Says
  <1>4. ASSUME seen.clients = Error PROVE Says("RedisErr", None) = {"error"}
    <2> DEFINE d == Decision("RedisErr", 0, Default)
    <2>1. RedisDecisions(cfg, seen) = {d} /\ d.type = "RedisErr"
      BY <1>4 DEF RedisDecisions, Decision
    <2>2. Judgement(cfg, d) = "error"
      BY <2>1, ErrorTypes DEF Judgement, HasConfig
    <2> HIDE DEF d
    <2> QED BY <1>3, <2>1, <2>2
  <1>5. ASSUME TooFew \/ TooMany
        PROVE  (Says("RedisLow", None) \cup Says("RedisHigh", None)) \cap Levels = {"p2"}
    <2>0. seen.clients # Error /\ cfg.clients # None /\ cfg.clients.on
      BY <1>5 DEF TooFew, TooMany, ClientsCount
    <2>1. /\ seen.clients \in Nat /\ cfg.clients \in [on : BOOLEAN, min : Int, max : Int]
          /\ seen.clients < cfg.clients.min \/ seen.clients > cfg.clients.max
      BY <1>5, <2>0, BaseMetrics, ConfigTypes DEF TooFew, TooMany
    <2> DEFINE type == IF seen.clients < cfg.clients.min THEN "RedisLow" ELSE "RedisHigh"
               d == Decision(type, seen.clients, Default)
    <2>2. RedisDecisions(cfg, seen) = {d}
      <3> DEFINE types == IF seen.clients < cfg.clients.min THEN {"RedisLow"}
                          ELSE IF seen.clients > cfg.clients.max THEN {"RedisHigh"}
                          ELSE RedisType
      <3>1. RedisDecisions(cfg, seen) = {Decision(u, seen.clients, Default) : u \in types}
        BY <2>0 DEF RedisDecisions
      <3>2. types = {type}
        BY <2>1
      <3> HIDE DEF types, type
      <3> QED BY <3>1, <3>2
    <2>3. /\ d.type = type /\ d.value = seen.clients /\ type \in RedisType
          /\ type = "RedisLow" <=> seen.clients < cfg.clients.min
          /\ type = "RedisLow" \/ type = "RedisHigh"
      BY DEF Decision, RedisType
    <2> HIDE DEF d, type
    <2>4. Judgement(cfg, d) = "p2"
      <3>1. HasConfig(cfg, d.type)
        BY <2>0, <2>3 DEF HasConfig
      <3>2. ~Recovered(cfg, d)
        BY <2>1, <2>3, ErrorTypes DEF Recovered
      <3>3. Level(cfg, d) = "p2"
        BY <2>1, <2>3 DEF Level
      <3> QED BY <3>1, <3>2, <3>3 DEF Judgement
    <2>5. Says("RedisLow", None) \cup Says("RedisHigh", None) = {"p2"}
      BY <1>3, <2>2, <2>3, <2>4 DEF RedisType
    <2> QED BY <2>5 DEF Levels
  <1> QED BY <1>4, <1>5

LEMMA HTTPFaultIsAlerted ==
    ASSUME TypeOK, HTTPIsEnabled, Base("http"), NEW i \in DOMAIN seen.code,
           IsWatched(i), ~Allows(i, seen.code[i])
    PROVE  Says("HTTPErr", i) = {"p2"}
  <1> USE DEF IsWatched, Allows
  <1> DEFINE d == Decision("HTTPErr", seen.code[i], i)
  <1>1. d \in Decisions
    BY HTTPMetrics DEF HTTPDecisions, DecidedCode, HTTPIsEnabled
  <1>2. \A e \in Decisions : e.pid = i => e = d
    BY HTTPMetrics DEF HTTPDecisions, DecidedCode, HTTPIsEnabled, Decision
  <1>3. d.type = "HTTPErr" /\ d.pid = i /\ d.value = seen.code[i]
    BY DEF Decision
  <1> HIDE DEF d
  <1>4. Judgement(cfg, d) = "p2"
    <2>1. HasConfig(cfg, d.type) /\ ~Recovered(cfg, d)
      BY <1>3, ErrorTypes DEF HasConfig, Recovered
    <2>2. Level(cfg, d) = "p2"
      BY <1>3 DEF Level
    <2> QED BY <2>1, <2>2 DEF Judgement
  <1>5. i # None
    BY ConfigsAreConfigurations DEF HTTPIsEnabled, TypeOK
  <1> QED BY <1>1, <1>2, <1>3, <1>4, <1>5 DEF Says

LEMMA HTTPIsEnabledInit == Init => HTTPIsEnabled
  BY DEF Init, HTTPIsEnabled, Base

LEMMA HTTPIsEnabledStep == HTTPIsEnabled /\ [Next]_vars => HTTPIsEnabled'
  <1> SUFFICES ASSUME HTTPIsEnabled, [Next]_vars PROVE HTTPIsEnabled'
    OBVIOUS
  <1>1. CASE CollectBase
    BY <1>1 DEF CollectBase, HTTPIsEnabled, Base
  <1>2. CASE CollectHTTP
    <2>1. UNCHANGED cfg /\ cfg.http
      BY <1>2 DEF CollectHTTP
    <2>2. PICK r : seen' = [part |-> "http", code |-> [i \in DOMAIN cfg.interfaces |-> FinalCode(r[i])]]
      BY <1>2 DEF CollectHTTP
    <2> QED BY <2>1, <2>2 DEF HTTPIsEnabled
  <1>3. CASE Rest
    BY <1>3 DEF Rest, HTTPIsEnabled, Base
  <1>4. CASE Outside \/ UNCHANGED vars
    <2>1. UNCHANGED <<cfg, seen>>
      BY <1>4 DEF Outside, vars
    <2> QED BY <2>1 DEF HTTPIsEnabled, Base
  <1> QED BY <1>1, <1>2, <1>3, <1>4 DEF Next

LEMMA JudgedFaultIsAlerted == TypeOK /\ HTTPIsEnabled => FaultIsAlerted
  BY HostFaultIsAlerted, NetworkFaultIsAlerted, RedisFaultIsAlerted, HTTPFaultIsAlerted
  DEF FaultIsAlerted

\* Whatever levels, ranges and lists of codes a configuration sets, and whatever
\* is measured, no fault that monitoring is enabled for goes without an alert:
\* neither a value out of bounds nor a metric that cannot be collected.
THEOREM FaultsAreAlerted == Spec => []FaultIsAlerted
  BY HTTPIsEnabledInit, HTTPIsEnabledStep, JudgedFaultIsAlerted, TypeCorrect, PTL DEF Spec

LEMMA BaseHealthyIsQuiet ==
    ASSUME TypeOK, Base("base"), NEW d \in Decisions, Judgement(cfg, d) \in Levels
    PROVE  \/ \E t \in HostType : (d.type = ErrorType(t) /\ Fails(t)) \/ (d.type = t /\ IsHigh(t))
           \/ d.type = "NetworkErr" /\ NetworkFails
           \/ d.type = "RedisErr" /\ RedisFails
           \/ d.type = "RedisLow" /\ TooFew
           \/ d.type = "RedisHigh" /\ TooMany
  <1>1. \/ cfg.host /\ \E t \in HostType : d \in HostDecision(cfg, seen, t)
        \/ cfg.host /\ d \in NetworkDecision(seen)
        \/ cfg.app /\ cfg.redis /\ d \in RedisDecisions(cfg, seen)
    <2>1. CASE d \in (IF cfg.host THEN (UNION {HostDecision(cfg, seen, t) : t \in HostType})
                                        \cup NetworkDecision(seen) ELSE {})
      <3>1. cfg.host
        BY <2>1
      <3> QED BY <2>1, <3>1
    <2>2. CASE d \in (IF cfg.app /\ cfg.redis THEN RedisDecisions(cfg, seen) ELSE {})
      <3>1. cfg.app /\ cfg.redis
        BY <2>2
      <3> QED BY <2>2, <3>1
    <2> QED BY <2>1, <2>2, BaseMetrics DEF BaseDecisions
  <1>2. ASSUME cfg.host, NEW t \in HostType, d \in HostDecision(cfg, seen, t)
        PROVE  (d.type = ErrorType(t) /\ Fails(t)) \/ (d.type = t /\ IsHigh(t))
    <2>1. CASE seen.host[t] = Error
      BY <1>2, <2>1 DEF HostDecision, Decision, Fails
    <2>2. CASE seen.host[t] # Error
      <3>1. cfg.thr[t] # None /\ cfg.thr[t].on /\ d.type = t /\ d.value = seen.host[t]
        BY <1>2, <2>2 DEF HostDecision, Decision
      <3>2. seen.host[t] \in Nat /\ cfg.thr[t] \in Thresholds
        BY <2>2, <3>1, BaseMetrics, ConfigTypes
      <3>3. t \notin RedisType /\ t # "HTTPErr"
        BY ErrorTypes
      <3>4. ~Recovered(cfg, d)
        BY <3>1, <3>3 DEF Judgement, HasConfig, Levels
      <3>5. ~(seen.host[t] < cfg.thr[t].base)
        BY <3>1, <3>3, <3>4 DEF Recovered, RedisType
      <3>6. seen.host[t] >= cfg.thr[t].base
        BY <3>2, <3>5 DEF Thresholds
      <3> QED BY <1>2, <2>2, <3>1, <3>6 DEF IsHigh
    <2> QED BY <2>1, <2>2
  <1>3. ASSUME cfg.host, d \in NetworkDecision(seen) PROVE d.type = "NetworkErr" /\ NetworkFails
    BY <1>3 DEF NetworkDecision, Decision, NetworkFails
  <1>4. ASSUME cfg.app, cfg.redis, d \in RedisDecisions(cfg, seen)
        PROVE  \/ d.type = "RedisErr" /\ RedisFails
               \/ d.type = "RedisLow" /\ TooFew
               \/ d.type = "RedisHigh" /\ TooMany
    <2>1. CASE seen.clients = Error
      BY <1>4, <2>1 DEF RedisDecisions, Decision, RedisFails
    <2>2. CASE seen.clients # Error
      <3>1. /\ cfg.clients # None /\ cfg.clients.on
            /\ d.type \in RedisType /\ d.value = seen.clients
        BY <1>4, <2>2 DEF RedisDecisions, Decision, RedisType
      <3>2. HasConfig(cfg, d.type) /\ Judgement(cfg, d) = Level(cfg, d)
        BY <3>1 DEF Judgement, HasConfig, Levels
      <3>3. Level(cfg, d) # "none"
        BY <3>2 DEF Levels
      <3>4. ClientsCount
        BY <1>4, <2>2, <3>1 DEF ClientsCount
      <3>5. CASE d.type = "RedisLow"
        BY <3>1, <3>3, <3>4, <3>5 DEF Level, TooFew
      <3>6. CASE d.type = "RedisHigh"
        BY <3>1, <3>3, <3>4, <3>6 DEF Level, TooMany
      <3> QED BY <3>1, <3>5, <3>6 DEF RedisType
    <2> QED BY <2>1, <2>2
  <1> QED BY <1>1, <1>2, <1>3, <1>4

LEMMA HTTPHealthyIsQuiet ==
    ASSUME TypeOK, Base("http"), NEW d \in Decisions, Judgement(cfg, d) \in Levels
    PROVE  /\ d.type = "HTTPErr" /\ d.pid \in DOMAIN seen.code /\ IsWatched(d.pid)
           /\ ~Allows(d.pid, seen.code[d.pid]) \/ ~Allows(d.pid, 200)
  <1>1. cfg.app /\ cfg.http
    BY HTTPMetrics DEF HTTPDecisions
  <1>2. PICK i \in DOMAIN seen.code :
          /\ cfg.interfaces[i].alert
          /\ d = Decision("HTTPErr", DecidedCode(seen.code[i], cfg.interfaces[i].allowed), i)
    BY HTTPMetrics DEF HTTPDecisions
  <1> DEFINE allowed == cfg.interfaces[i].allowed
  <1>3. d.type = "HTTPErr" /\ d.pid = i /\ d.value = DecidedCode(seen.code[i], allowed)
    BY <1>2 DEF Decision
  <1>4. ~ValidCode(DecidedCode(seen.code[i], allowed), allowed)
    <2>1. HasConfig(cfg, d.type)
      BY <1>3 DEF HasConfig
    <2>2. ~Recovered(cfg, d)
      BY <2>1 DEF Judgement, Levels
    <2> QED BY <1>3, <2>2, ErrorTypes DEF Recovered
  <1>5. ~ValidCode(seen.code[i], allowed) \/ ~ValidCode(200, allowed)
    BY <1>4 DEF DecidedCode
  <1> QED BY <1>1, <1>2, <1>3, <1>5 DEF IsWatched, Allows

LEMMA JudgedHealthIsQuiet == TypeOK => HealthyIsQuiet
  <1> SUFFICES ASSUME TypeOK PROVE HealthyIsQuiet
    OBVIOUS
  <1>1. \A d \in Decisions : Base("base") \/ Base("http")
    <2>1. CASE seen = None
      BY <2>1 DEF Decisions
    <2>2. CASE seen # None
      <3>1. seen.part = "base" \/ seen.part = "http"
        BY <2>2 DEF TypeOK
      <3> QED BY <2>2, <3>1 DEF Base
    <2> QED BY <2>1, <2>2
  <1> QED BY <1>1, BaseHealthyIsQuiet, HTTPHealthyIsQuiet DEF HealthyIsQuiet

\* And no alert is without its fault, in a part that is enabled, but for the
\* interfaces whose list of allowed codes lacks 200.
THEOREM HealthIsQuiet == Spec => []HealthyIsQuiet
  BY JudgedHealthIsQuiet, TypeCorrect, PTL
=============================================================================
