------------------------------ MODULE DiskScanner ------------------------------
(***************************************************************************)
(* The search for what fills the disk (infra/filesystem): scans that open  *)
(* the largest directories level by level, stop at a deadline or when the  *)
(* process uses too much memory, and share one ResourceMonitor, the one    *)
(* utils/disk_usage_adapter.go makes.  The disk does not change.           *)
(*                                                                         *)
(* The recursion of scanRecursively is a stack of frames.  Of the          *)
(* statistics it returns and merges only TimeoutOccurred is kept.  A step  *)
(* ends where checkLimits is asked.                                        *)
(***************************************************************************)
EXTENDS FiniteSetsExt, Integers, SequencesExt

CONSTANTS
    Scan,        \* scans: each is one call of Scan, at any time
    Root,
    EntriesOf,   \* the entries of a directory, as ReadDir lists them
    SizeOf,      \* the size of a file, estimateDirectorySize of a directory
    Skipped,     \* paths that ShouldSkip
    Unreadable,  \* directories without read permission
    Important,   \* importantDirs of getFallbackResults with a size
    MaxDepth, MaxResults, MinSize, \* ScanConfig
    MaxFiles,    \* 1000: no more entries of one directory are looked at
    TopN,        \* 3 unless given
    DeepDepth, DeepItems, \* below depth 2 no more than 3 entries are opened
    None

Dir == DOMAIN EntriesOf
Path == DOMAIN SizeOf

ASSUME ScannerConstants ==
    /\ Root \in Dir /\ Dir \subseteq Path /\ EntriesOf \in [Dir -> Seq(Path)]
    /\ SizeOf \in [Path -> Nat] /\ Important \in Seq(Path)
    /\ MaxDepth \in Nat /\ MaxResults \in Nat /\ MinSize \in Nat
    /\ TopN \in Nat \ {0} /\ DeepDepth \in Nat /\ DeepItems \in Nat
    /\ MaxFiles \in Nat \ {0}
    /\ None \notin Path /\ IsFiniteSet(Path) /\ IsFiniteSet(Scan)

\* All that is below a directory: what every set has that has its entries and
\* those of its own directories.
Closed == {S \in SUBSET Path : \A d \in Dir \cap S : ToSet(EntriesOf[d]) \subseteq S}
Below ==
    [d \in Dir |-> {p \in Path : \A S \in Closed : ToSet(EntriesOf[d]) \subseteq S => p \in S}]

\* A path is in one directory, Root in none, and no directory below itself.
ASSUME DiskIsTree ==
    /\ \A d \in Dir : Root \notin ToSet(EntriesOf[d])
    /\ \A d, e \in Dir : ToSet(EntriesOf[d]) \cap ToSet(EntriesOf[e]) # {} => d = e
    /\ \A d \in Dir : d \notin Below[d]

VARIABLES
    scan,     \* scan[s]: the goroutine of a scan
    late,     \* scans whose deadline has passed
    heavy,    \* does the process use more than maxMemoryMB?
    exceeded, \* memoryExceeded of the monitor
    stopped,  \* stopped of the monitor
    watching, \* goroutines that Start of the monitor began
    \* history, and the count behind the bound
    closes,   \* how often stopChan was closed
    short,    \* scans that ran while memoryExceeded was set
    everHeavy

monitor == <<exceeded, stopped, watching, closes, short>>
vars == <<scan, late, heavy, everHeavy, monitor>>

\* A frame of scanRecursively.  cur is the entry whose subdirectory is open.
Frame == [dir : Dir, depth : 0 .. MaxDepth, items : SUBSET Path, todo : SUBSET Path,
          cur : Path \cup {None}, found : SUBSET Path]

\* at: "idle", "enter" or "list" the directory dir, "loop" over the entries of
\* the frame on top, "merge" what came back into it, "finish", "done".
Waiting == [at |-> "idle", dir |-> Root, stack |-> <<>>, back |-> {}, timedOut |-> FALSE,
            found |-> {}, out |-> {}]

Goroutine ==
    [at : {"idle", "enter", "list", "loop", "merge", "finish", "done"}, dir : Dir,
     stack : Seq(Frame), back : SUBSET Path, timedOut : BOOLEAN,
     found : SUBSET Path, out : SUBSET Path]

TypeOK ==
    /\ scan \in [Scan -> Goroutine]
    /\ \A s \in Scan : /\ Len(scan[s].stack) <= MaxDepth + 1
                       /\ scan[s].timedOut => s \in late
                       /\ Cardinality(scan[s].out) <= TopN
    /\ late \subseteq Scan /\ heavy \in BOOLEAN /\ exceeded \in BOOLEAN
    /\ stopped \in BOOLEAN /\ watching \in 0 .. Cardinality(Scan)
    /\ closes \in Nat /\ short \subseteq Scan /\ everHeavy \in BOOLEAN

Init ==
    /\ scan = [s \in Scan |-> Waiting] /\ late = {}
    /\ heavy = FALSE /\ exceeded = FALSE /\ stopped = FALSE /\ watching = 0
    /\ closes = 0 /\ short = {} /\ everHeavy = FALSE

-----------------------------------------------------------------------------
(* What a level keeps, and what is opened.                                  *)

\* The n largest paths: sort.Slice puts equals in any order.
Largest(items, n) ==
    {S \in kSubset(Min({n, Cardinality(items)}), items) :
        \A p \in S, q \in items \ S : SizeOf[q] <= SizeOf[p]}
Biggest(items) == {p \in items : \A q \in items : SizeOf[q] <= SizeOf[p]}

\* The first n entries but for those that are skipped, MaxFiles of them at most:
\* the rest is left out without a word, whatever its size.
Shown(d, n) == {k \in 1 .. n : EntriesOf[d][k] \notin Skipped}
Visible(d, n) ==
    {EntriesOf[d][k] : k \in {j \in Shown(d, n) : Cardinality(Shown(d, j - 1)) < MaxFiles}}

\* The entries scanRecursively looks at, one after the other from the largest.
Chosen(items, depth) ==
    Largest(items, IF depth > DeepDepth THEN Min({MaxResults, DeepItems}) ELSE MaxResults)

\* Fault of ShouldRecurse: the depth is not looked at.
ShouldRecurse_Deep(p, items, depth) == p \in Dir /\ SizeOf[p] >= MinSize

\* Above a tenth of a typical hot spot, or with a third of its level.
ShouldRecurse(p, items, depth) ==
    /\ p \in Dir /\ depth < MaxDepth /\ SizeOf[p] >= MinSize
    /\ \/ depth = 0
       \/ SizeOf[p] >= 10 * MinSize
       \/ LET total == MapThenSumSet(LAMBDA q : SizeOf[q], items \cap Dir)
          IN total # 0 /\ 10 * SizeOf[p] >= 3 * total

-----------------------------------------------------------------------------
(* scanRecursively.                                                         *)

At(s, a) == scan[s].at = a
Goes(s, goroutine) == scan' = [scan EXCEPT ![s] = goroutine]
Top(s) == Last(scan[s].stack)
Depth(s) == Len(scan[s].stack)
Rest(s) == UNCHANGED <<late, heavy, everHeavy>>

\* checkLimits
Limited(s) == s \in late \/ exceeded
TimedOut(s) == scan[s].timedOut \/ s \in late

\* Returning results to the frame below, or to Scan.
Back(s, stack, results) ==
    IF stack = <<>>
    THEN [scan[s] EXCEPT !.at = "finish", !.stack = stack, !.found = results]
    ELSE [scan[s] EXCEPT !.at = "merge", !.stack = stack, !.back = results]

\* A call: the limits, then what may keep a directory from being read.
Enter(s) ==
    /\ At(s, "enter")
    /\ LET none == Back(s, scan[s].stack, {})
       IN \/ Limited(s) /\ Goes(s, [none EXCEPT !.timedOut = TimedOut(s)])
          \/ ~Limited(s) /\ scan[s].dir \in Skipped \cup Unreadable /\ Goes(s, none)
          \/ ~Limited(s) /\ scan[s].dir \notin Skipped \cup Unreadable
             /\ Goes(s, [scan[s] EXCEPT !.at = "list"])
    /\ UNCHANGED monitor /\ Rest(s)

Opens(s, items, chosen) ==
    [scan[s] EXCEPT !.at = "loop", !.stack = Append(@,
        [dir |-> scan[s].dir, depth |-> Depth(s), items |-> items,
         todo |-> chosen, cur |-> None, found |-> {}])]

\* scanCurrentLevel: what Visible has of all entries, or of the first of them
\* when a limit is met on the way.
List(s) ==
    /\ At(s, "list")
    /\ LET d == scan[s].dir
           all == Len(EntriesOf[d])
       IN \E n \in IF Limited(s) THEN 0 .. all ELSE {all} :
            LET items == Visible(d, n)
            IN \/ items = {} /\ Goes(s, Back(s, scan[s].stack, {}))
               \/ items # {} /\ \E chosen \in Chosen(items, Depth(s)) :
                    Goes(s, Opens(s, items, chosen))
    /\ UNCHANGED monitor /\ Rest(s)

\* checkLimits after an entry: the loop goes on with frame f, or ends with what
\* it has.
\* Fault of AfterEntry: it ends without saying why.
AfterEntry_Silent(s, f) ==
    LET below == Front(scan[s].stack)
    IN IF Limited(s) THEN Back(s, below, f.found)
       ELSE [scan[s] EXCEPT !.at = "loop", !.stack = Append(below, f), !.back = {}]

AfterEntry(s, f) ==
    LET below == Front(scan[s].stack)
    IN IF Limited(s) THEN [Back(s, below, f.found) EXCEPT !.timedOut = TimedOut(s)]
       ELSE [scan[s] EXCEPT !.at = "loop", !.stack = Append(below, f), !.back = {}]

\* Fault of OpenEntry: a directory is a result although it is opened.
OpenEntry_Both(s, f, p) ==
    [scan[s] EXCEPT !.at = "enter", !.dir = p,
     !.stack = Append(Front(@), [f EXCEPT !.cur = p, !.found = @ \cup {p}])]

OpenEntry(s, f, p) ==
    [scan[s] EXCEPT !.at = "enter", !.dir = p,
                    !.stack = Append(Front(@), [f EXCEPT !.cur = p])]

\* The next entry: a directory to open, or a result.
Loop(s) ==
    /\ At(s, "loop")
    /\ LET f == Top(s)
       IN \/ f.todo = {} /\ Goes(s, Back(s, Front(scan[s].stack), f.found))
          \/ \E p \in Biggest(f.todo) :
                LET g == [f EXCEPT !.todo = @ \ {p}]
                IN \/ /\ ShouldRecurse(p, f.items, f.depth)
                      /\ Goes(s, OpenEntry(s, g, p))
                   \/ /\ ~ShouldRecurse(p, f.items, f.depth)
                      /\ Goes(s, AfterEntry(s, [g EXCEPT !.found = @ \cup {p}]))
    /\ UNCHANGED monitor /\ Rest(s)

\* Back from a directory: one without results of its own is the result.
Merge(s) ==
    /\ At(s, "merge")
    /\ LET f == Top(s)
           results == IF scan[s].back = {} THEN {f.cur} ELSE scan[s].back
       IN Goes(s, AfterEntry(s, [f EXCEPT !.cur = None, !.found = @ \cup results]))
    /\ UNCHANGED monitor /\ Rest(s)

-----------------------------------------------------------------------------
(* Scan, around it, and the monitor.                                        *)

FirstN(seq) == ToSet(SubSeq(seq, 1, Min({TopN, Len(seq)})))
Sized(found) == {p \in found : SizeOf[p] >= MinSize}
TopItems(found) ==
    IF Sized(found) = {} THEN {FirstN(Important)}
    ELSE Largest(Sized(found), TopN)

\* The monitor's goroutine lives until stopChan is closed.
Start(s) ==
    /\ At(s, "idle")
    /\ Goes(s, [scan[s] EXCEPT !.at = "enter"])
    /\ watching' = watching + 1
    /\ short' = IF exceeded THEN short \cup {s} ELSE short
    /\ UNCHANGED <<exceeded, stopped, closes>> /\ Rest(s)

\* Fault of Stopped: it does not look whether the channel is closed already.
Stopped_Again == stopped' = TRUE /\ closes' = closes + 1

\* Stop of the monitor.  Nothing takes stopped back: the monitor is over for
\* all other scans, those that run and those to come.
Stopped == stopped' = TRUE /\ closes' = IF stopped THEN closes ELSE closes + 1

\* convertToItems, and the largest TopN of them or getFallbackResults; then the
\* deferred Stop.
Finish(s) ==
    /\ At(s, "finish")
    /\ \E top \in TopItems(scan[s].found) :
            Goes(s, [scan[s] EXCEPT !.at = "done", !.out = top, !.back = {}])
    /\ Stopped
    /\ UNCHANGED <<exceeded, watching, short>> /\ Rest(s)

Runs(s) == scan[s].at \notin {"idle", "done"}

CheckMemoryUsage ==
    /\ watching > 0
    /\ exceeded' = heavy
    /\ short' = IF heavy THEN short \cup {s \in Scan : Runs(s)} ELSE short
    /\ UNCHANGED <<scan, late, heavy, stopped, watching, closes, everHeavy>>

WatchEnds ==
    /\ watching > 0 /\ stopped
    /\ watching' = watching - 1
    /\ UNCHANGED <<scan, late, heavy, exceeded, stopped, closes, short, everHeavy>>

Deadline(s) ==
    /\ Runs(s) /\ s \notin late
    /\ late' = late \cup {s}
    /\ UNCHANGED <<scan, heavy, everHeavy, monitor>>

\* Bound: memory is short once at most.
MemoryChanges ==
    /\ everHeavy => heavy
    /\ heavy' = ~heavy /\ everHeavy' = TRUE
    /\ UNCHANGED <<scan, late, monitor>>

Work(s) ==
    \/ Start(s) \/ Enter(s) \/ List(s) \/ Loop(s) \/ Merge(s) \/ Finish(s)

Next ==
    \/ \E s \in Scan : Work(s) \/ Deadline(s)
    \/ CheckMemoryUsage \/ WatchEnds \/ MemoryChanges

Spec == Init /\ [][Next]_vars

-----------------------------------------------------------------------------
(* Properties.                                                             *)

\* What a scan is to look at in a directory: all that is not skipped, or, where
\* that is more than MaxFiles, the first of it.  And how deep the directory is.
IsWide(d) == Cardinality(Shown(d, Len(EntriesOf[d]))) > MaxFiles
In(d) == IF IsWide(d) THEN Visible(d, Len(EntriesOf[d])) ELSE ToSet(EntriesOf[d]) \ Skipped
Level(d) == Cardinality({e \in Dir : d \in Below[e]})

\* A scan without limits that opened these directories and found these results
\* saw of directory d what it was to look at, opened what is to be opened, and
\* took for a result what was not opened, or in vain.
Seen(d, found, opened) == ToSet(EntriesOf[d]) \cap (found \cup opened)
IsOpened(d, p) == ShouldRecurse(p, In(d), Level(d)) /\ p \notin Unreadable
Judged(d, p, found, opened) ==
    /\ p \in opened <=> IsOpened(d, p)
    /\ p \in found <=> p \notin opened \/ Seen(p, found, opened) = {}
Searched(d, found, opened) ==
    /\ Seen(d, found, opened) \in Chosen(In(d), Level(d))
    /\ \A p \in Seen(d, found, opened) : Judged(d, p, found, opened)

\* From Root on, and nothing else.
Complete(found) ==
    \E opened \in SUBSET Dir :
        /\ Root \in opened <=> Root \notin Skipped \cup Unreadable
        /\ \A p \in found \cup (opened \ {Root}) : \E d \in opened : p \in ToSet(EntriesOf[d])
        /\ \A d \in opened : Searched(d, found, opened)

\* A scan that met no limit, or found something and reports no timeout, found
\* what one with all the time of the world finds, however the scans share the
\* monitor, unless memoryExceeded was set while it ran: it cuts a scan without a
\* report, and the first scan that ends freezes it for all that come later.
\* So does a directory with more than MaxFiles entries: of the rest of such a
\* directory this says nothing.
ScanIsComplete ==
    \A s \in Scan : LET r == scan[s]
        IN r.at \in {"finish", "done"} /\ ~r.timedOut /\ s \notin short /\ r.found # {}
             => Complete(r.found)

\* disk_usage_enricher.go calls the results leaves: none contains another, also
\* when a limit cuts the scan.
ResultsAreLeaves ==
    \A s \in Scan : \A d \in Dir \cap scan[s].found : Below[d] \cap scan[s].found = {}

\* However scans overlap, the channel of the shared monitor is closed once: to
\* close it again would end the process.
ClosedOnce == closes <= 1
=============================================================================
