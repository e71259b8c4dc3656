----------------------------- MODULE HostCollector -----------------------------
(***************************************************************************)
(* The host collector (infra/collector/host/host_collector.go): rates come *)
(* from the difference of two readings of a counter of the kernel.  All    *)
(* cycles share one collector, under c.mu: the reading of one is the base  *)
(* of the next, whoever asks.                                              *)
(*                                                                         *)
(* Received and sent bytes are treated alike, and so are read and written  *)
(* sectors: one of each is modelled.  A rate is kept as the amount it      *)
(* stands for, rate times elapsed time.                                    *)
(***************************************************************************)
EXTENDS Integers, Sequences, SequencesExt

CONSTANTS
    Modulus,     \* counters are uint64
    Preferred,   \* preferredDevices
    Lists,       \* what /proc/diskstats may list, in order, without loop, ram
                 \* and device mapper disks
    MaxAmount,   \* bound on the traffic of one unit of time
    MaxTotal,    \* bound on all traffic of a counter
    MaxResets,   \* bound on the times a counter starts again
    MaxClock,    \* bound on the clock, in minIntervalSeconds
    Nothing      \* a nil pointer

MinInterval == 1
Device == UNION {ToSet(devices) : devices \in Lists}

ASSUME HostConstants ==
    /\ Modulus \in Nat \ {0}
    /\ MaxAmount \in Nat /\ MaxTotal \in Nat /\ MaxResets \in Nat /\ MaxClock \in Nat
    /\ \A devices \in Lists : devices \in Seq(Device)
    /\ Nothing \notin Nat /\ Nothing \notin Device

VARIABLES
    clock,
    rx,          \* counter of the network interfaces
    sectors,     \* counters of the devices
    listed,      \* the devices in /proc/diskstats
    lastNet,     \* lastNetIO
    lastDisk,    \* lastDiskStats
    lastDiskTime,
    device,      \* diskDeviceName
    cpuInitialized,
    \* history, and the count behind the bound
    received, moved, \* all that went through the network and a disk
    netTold, diskTold, \* the amounts of all rates
    netStart,          \* received at the first reading of the network
    resets

kernel == <<clock, rx, sectors, listed, received, moved, resets>>
net    == <<lastNet, netTold, netStart>>
disk   == <<lastDisk, lastDiskTime, device, diskTold>>
hostVars == <<kernel, net, disk, cpuInitialized>>

Counter == 0 .. Modulus - 1

HostTypeOK ==
    /\ clock \in 0 .. MaxClock /\ rx \in Counter /\ sectors \in [Device -> Counter]
    /\ listed \in Lists
    /\ lastNet \in Counter \cup {Nothing} /\ lastDisk \in Counter \cup {Nothing}
    /\ lastDiskTime \in 0 .. MaxClock /\ device \in Device \cup {Nothing}
    /\ cpuInitialized \in BOOLEAN
    /\ received \in 0 .. MaxTotal /\ moved \in 0 .. MaxTotal
    /\ netTold \in Nat /\ diskTold \in Nat /\ netStart \in 0 .. MaxTotal /\ resets \in 0 .. MaxResets

-----------------------------------------------------------------------------

\* readDiskStatsFromProc: the first preferred device of the file, or else the
\* first that is no loop, ram or device mapper disk.
Picked(devices) ==
    LET preferred == {i \in DOMAIN devices : devices[i] \in Preferred}
    IN IF preferred # {} THEN devices[Min(preferred)]
       ELSE IF devices # <<>> THEN Head(devices) ELSE Nothing

\* Fault of Minus: the difference is signed.
Minus_Signed(a, b) == a - b

\* A difference of two uint64.
Minus(a, b) == (a - b) % Modulus

\* New: both counters are read, unless a read fails.
HostInit ==
    /\ clock = 0 /\ rx = 0 /\ sectors = [d \in Device |-> 0]
    /\ listed \in Lists
    /\ lastNet \in {rx, Nothing}
    /\ device \in {Picked(listed), Nothing}
    /\ lastDisk = IF device = Nothing THEN Nothing ELSE sectors[device]
    /\ lastDiskTime = clock
    /\ cpuInitialized = FALSE
    /\ received = 0 /\ moved = 0 /\ netTold = 0 /\ diskTold = 0 /\ netStart = 0 /\ resets = 0

\* GetCPUInfo: the first call that works measures nothing and says 0.
GetCPUInfo(measured) == IF cpuInitialized THEN measured ELSE 0

\* Fault of GetNetworkRate: the base stays what it was at the start.
GetNetworkRate_SameBase ==
    /\ lastNet' = IF lastNet = Nothing THEN rx ELSE lastNet
    /\ netTold' = IF lastNet = Nothing THEN netTold ELSE netTold + Minus(rx, lastNet)
    /\ netStart' = IF lastNet = Nothing THEN received ELSE netStart

\* GetNetworkRate, when the counters can be read.
GetNetworkRate ==
    /\ lastNet' = rx
    /\ netTold' = IF lastNet = Nothing THEN netTold ELSE netTold + Minus(rx, lastNet)
    /\ netStart' = IF lastNet = Nothing THEN received ELSE netStart

\* Fault of NewBase: a change of the device is not noticed.
NewBase_Ignored(d) == clock - lastDiskTime < MinInterval \/ lastDisk = Nothing

\* No rate is told: another device than last time, too soon, or no base.
NewBase(d) ==
    \/ device # Nothing /\ d # device
    \/ clock - lastDiskTime < MinInterval
    \/ lastDisk = Nothing

\* GetDiskIORate.  The check for a negative difference comes after the unsigned
\* subtraction and never finds one.
GetDiskIORate ==
    LET d == Picked(listed)
    IN \/ d = Nothing /\ UNCHANGED disk
       \/ /\ d # Nothing
          /\ lastDisk' = sectors[d] /\ device' = d /\ lastDiskTime' = clock
          /\ diskTold' = IF NewBase(d) THEN diskTold ELSE diskTold + Minus(sectors[d], lastDisk)

\* CollectBasicMetrics as far as the collector's state is concerned: any of the
\* reads may fail and then leaves its part as it is.
CollectHost ==
    /\ cpuInitialized' \in {cpuInitialized, TRUE}
    /\ GetDiskIORate \/ UNCHANGED disk
    /\ GetNetworkRate \/ UNCHANGED net
    /\ UNCHANGED kernel

-----------------------------------------------------------------------------
(* The kernel.                                                             *)

Traffic ==
    /\ clock < MaxClock
    /\ clock' = clock + 1
    /\ \E n \in 0 .. MaxAmount, m \in 0 .. MaxAmount :
        /\ received + n <= MaxTotal /\ received' = received + n /\ rx' = (rx + n) % Modulus
        /\ moved + m <= MaxTotal /\ moved' = moved + m
        /\ \/ m = 0 /\ UNCHANGED sectors
           \/ m > 0 /\ \E d \in ToSet(listed) : sectors' = [sectors EXCEPT ![d] = (@ + m) % Modulus]
    /\ UNCHANGED <<listed, resets, net, disk, cpuInitialized>>

\* A counter starts again from a smaller value: an interface goes and its bytes
\* leave the sum, a device is attached again.
Reset ==
    /\ resets < MaxResets /\ resets' = resets + 1
    /\ \/ rx > 0 /\ rx' = 0 /\ UNCHANGED sectors
       \/ \E d \in Device : sectors[d] > 0 /\ sectors' = [sectors EXCEPT ![d] = 0] /\ UNCHANGED rx
    /\ UNCHANGED <<clock, listed, received, moved, net, disk, cpuInitialized>>

\* A device appears or disappears.
Plug ==
    /\ \E devices \in Lists : devices # listed /\ listed' = devices
    /\ UNCHANGED <<clock, rx, sectors, received, moved, resets, net, disk, cpuInitialized>>

Kernel == Traffic \/ Reset \/ Plug

-----------------------------------------------------------------------------
(* Properties.                                                             *)

\* Whoever asks, and whichever reads fail: what all rates told, with what came
\* since the last reading, is what was received since the first one.  No byte is
\* in two rates, and none is lost but whole turns of the counter between two
\* readings, as long as no counter started again.  (After a reset the unsigned
\* difference is almost Modulus.)
NetworkAddsUp ==
    resets = 0 /\ lastNet # Nothing =>
        LET counted == netTold + Minus(rx, lastNet)
            since == received - netStart
        IN counted <= since /\ counted % Modulus = since % Modulus

\* No sector is told twice, whatever devices come and go.
DiskNotTwice == resets = 0 => diskTold <= moved
=============================================================================
