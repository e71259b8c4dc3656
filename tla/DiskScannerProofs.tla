--------------------------- MODULE DiskScannerProofs ---------------------------
(***************************************************************************)
(* What the disk scans guarantee on every disk, for any number of scans    *)
(* that share the monitor and are cut at any point.                        *)
(***************************************************************************)
EXTENDS DiskScanner, FiniteSetTheorems, SequenceTheorems, TLAPS

-----------------------------------------------------------------------------
(* The disk.                                                                *)

EntrySet(d) == ToSet(EntriesOf[d])

\* A path with all that is below it.
Tree(p) == {p} \cup (IF p \in Dir THEN Below[p] ELSE {})

\* Paths neither of which contains the other, nor anything of it.
Apart(p, q) == Tree(p) \cap Tree(q) = {}
Leaves(paths) == \A p, q \in paths : p # q => Apart(p, q)

LEMMA Entries ==
    ASSUME NEW d \in Dir
    PROVE  EntriesOf[d] \in Seq(Path) /\ EntrySet(d) \subseteq Path
  <1>1. EntriesOf[d] \in Seq(Path)
    BY ScannerConstants
  <1>2. \A i \in DOMAIN EntriesOf[d] : EntriesOf[d][i] \in Path
    BY <1>1
  <1> QED BY <1>1, <1>2 DEF EntrySet, ToSet

LEMMA BelowIs ==
    ASSUME NEW d \in Dir
    PROVE  /\ Below[d] \subseteq Path /\ EntrySet(d) \subseteq Below[d]
           /\ \A S \in Closed : EntrySet(d) \subseteq S => Below[d] \subseteq S
           /\ Below[d] \in Closed
           /\ d \notin Below[d]
  <1>1. Below[d] = {p \in Path : \A S \in Closed : EntrySet(d) \subseteq S => p \in S}
    BY DEF Below, EntrySet
  <1>2. EntrySet(d) \subseteq Below[d]
    BY <1>1, Entries
  <1>3. ASSUME NEW e \in Dir \cap Below[d] PROVE EntrySet(e) \subseteq Below[d]
    <2> SUFFICES ASSUME NEW x \in EntrySet(e), NEW S \in Closed, EntrySet(d) \subseteq S
                 PROVE  x \in S
      BY <1>1, Entries
    <2>1. e \in S
      BY <1>1
    <2> QED BY <2>1 DEF Closed, EntrySet
  <1>4. Below[d] \in Closed
    BY <1>1, <1>3 DEF Closed, EntrySet
  <1> QED BY <1>1, <1>2, <1>4, DiskIsTree

\* A directory has what is below its directories.
LEMMA BelowIsTransitive ==
    ASSUME NEW d \in Dir, NEW p \in Below[d]
    PROVE  Tree(p) \subseteq Below[d]
  <1>1. CASE p \in Dir
    <2>1. EntrySet(p) \subseteq Below[d]
      BY <1>1, BelowIs DEF Closed, EntrySet
    <2>2. Below[p] \subseteq Below[d]
      BY <1>1, <2>1, BelowIs
    <2> QED BY <1>1, <2>2 DEF Tree
  <1>2. CASE p \notin Dir
    BY <1>2 DEF Tree
  <1> QED BY <1>1, <1>2

\* What contains a path contains the directory it is in.
LEMMA ParentIsBelow ==
    ASSUME NEW q \in Dir, NEW e \in Dir, NEW x \in EntrySet(e), x \in Below[q]
    PROVE  e \in Tree(q)
  <1> DEFINE S == {y \in Below[q] : \E c \in Dir \cap Tree(q) : y \in EntrySet(c)}
  <1>1. S \in Closed
    <2>1. S \subseteq Path
      BY BelowIs
    <2>2. ASSUME NEW c \in Dir \cap S PROVE EntrySet(c) \subseteq S
      <3>1. c \in Below[q] /\ c \in Tree(q)
        BY DEF Tree
      <3>2. EntrySet(c) \subseteq Below[q]
        BY <3>1, BelowIs DEF Closed, EntrySet
      <3> QED BY <3>1, <3>2
    <2> QED BY <2>1, <2>2 DEF Closed, EntrySet
  <1>2. EntrySet(q) \subseteq S
    BY BelowIs DEF Tree
  <1>3. x \in S
    BY <1>1, <1>2, BelowIs
  <1>4. PICK c \in Dir \cap Tree(q) : x \in EntrySet(c)
    BY <1>3
  <1>5. c = e
    BY <1>4, DiskIsTree DEF EntrySet
  <1> QED BY <1>4, <1>5

\* The entries of a directory have nothing in common.
LEMMA EntriesApart ==
    ASSUME NEW d \in Dir, NEW p \in EntrySet(d), NEW q \in EntrySet(d), p # q
    PROVE  Apart(p, q)
  <1>1. ASSUME NEW r \in EntrySet(d), NEW t \in EntrySet(d), r # t PROVE r \notin Tree(t)
    <2> SUFFICES ASSUME t \in Dir, r \in Below[t] PROVE FALSE
      BY <1>1 DEF Tree
    <2>1. d \in Tree(t)
      BY ParentIsBelow
    <2>2. t \in Below[d]
      BY BelowIs
    <2>3. CASE d = t
      BY <2>2, <2>3, BelowIs
    <2>4. CASE d \in Below[t]
      <3>1. Below[d] \subseteq Below[t]
        BY <2>4, BelowIsTransitive DEF Tree
      <3> QED BY <2>2, <3>1, BelowIs
    <2> QED BY <2>1, <2>3, <2>4 DEF Tree
  <1>2. p \notin Tree(q) /\ q \notin Tree(p)
    BY <1>1
  <1>3. CASE p \notin Dir
    BY <1>2, <1>3 DEF Apart, Tree
  <1>4. CASE p \in Dir
    <2> DEFINE T == Below[p] \ Tree(q)
    <2>1. ASSUME NEW c \in Dir, c \in Tree(p), c \notin Tree(q), NEW x \in EntrySet(c)
          PROVE  x \notin Tree(q)
      <3> SUFFICES ASSUME x \in Tree(q) PROVE FALSE
        OBVIOUS
      <3>1. CASE q \in Dir /\ x \in Below[q]
        BY <2>1, <3>1, ParentIsBelow
      <3>2. CASE x = q
        <4>1. c = d
          BY <3>2, DiskIsTree DEF EntrySet
        <4>2. q \in Below[c]
          BY <3>2, BelowIs
        <4>3. Below[c] \subseteq Below[p]
          BY <1>4, <2>1, BelowIsTransitive DEF Tree
        <4> QED BY <1>2, <1>4, <4>2, <4>3 DEF Tree
      <3> QED BY <3>1, <3>2 DEF Tree
    <2>2. EntrySet(p) \subseteq T
      <3>1. EntrySet(p) \subseteq Below[p]
        BY <1>4, BelowIs
      <3>2. p \in Tree(p)
        BY DEF Tree
      <3> QED BY <1>2, <1>4, <2>1, <3>1, <3>2
    <2>3. T \in Closed
      <3>1. T \subseteq Path
        BY <1>4, BelowIs
      <3>2. ASSUME NEW c \in Dir \cap T PROVE EntrySet(c) \subseteq T
        <4>1. c \in Tree(p) /\ c \notin Tree(q)
          BY <1>4 DEF Tree
        <4>2. EntrySet(c) \subseteq Below[p]
          BY <1>4, BelowIs DEF Closed, EntrySet
        <4> QED BY <2>1, <4>1, <4>2
      <3> QED BY <3>1, <3>2 DEF Closed, EntrySet
    <2>4. Below[p] \subseteq T
      BY <1>4, <2>2, <2>3, BelowIs
    <2> QED BY <1>2, <1>4, <2>4 DEF Apart, Tree
  <1> QED BY <1>3, <1>4

-----------------------------------------------------------------------------
(* The frames of a scan.                                                    *)

\* What a frame has still to look at, and the directory it has open.
Ahead(f) == f.todo \cup ({f.cur} \ {None})

\* The results of a frame are leaves, and nothing ahead adds to them twice.
FrameOK(f) ==
    /\ f.todo \subseteq EntrySet(f.dir) /\ f.cur \notin f.todo
    /\ f.cur # None => f.cur \in Dir /\ f.cur \in EntrySet(f.dir)
    /\ f.found \subseteq Below[f.dir] /\ Leaves(f.found)
    /\ \A q \in f.found, p \in Ahead(f) : Apart(q, p)

\* A frame is for the directory that the frame below has open.
StackOK(stack) ==
    /\ stack \in Seq(Frame) /\ Len(stack) <= MaxDepth + 1
    /\ \A i \in 1 .. Len(stack) : stack[i].depth = i - 1 /\ FrameOK(stack[i])
    /\ \A i \in 1 .. Len(stack) - 1 : stack[i].cur = stack[i + 1].dir

LEMMA Pop ==
    ASSUME NEW stack, StackOK(stack), stack # <<>>
    PROVE  /\ StackOK(Front(stack)) /\ Len(Front(stack)) = Len(stack) - 1
           /\ Len(stack) \in Nat \ {0} /\ Last(stack) \in Frame /\ FrameOK(Last(stack))
           /\ Last(stack).depth = Len(stack) - 1
           /\ Front(stack) # <<>> => Last(Front(stack)).cur = Last(stack).dir
  <1>1. stack \in Seq(Frame) /\ Len(stack) \in Nat \ {0}
    BY EmptySeq, LenProperties DEF StackOK
  <1>2. \A i \in 1 .. Len(stack) : stack[i] \in Frame
    BY <1>1, ElementOfSeq
  <1>3. /\ Front(stack) \in Seq(Frame) /\ Len(Front(stack)) = Len(stack) - 1
        /\ \A i \in 1 .. Len(stack) - 1 : Front(stack)[i] = stack[i]
    <2> DEFINE n == Len(stack) - 1
    <2>1. n \in Int /\ \A i \in 1 .. n : stack[i] \in Frame
      BY <1>1, <1>2
    <2>2. /\ SubSeq(stack, 1, n) \in Seq(Frame)
          /\ Len(SubSeq(stack, 1, n)) = IF 1 <= n THEN n - 1 + 1 ELSE 0
          /\ \A i \in 1 .. n - 1 + 1 : SubSeq(stack, 1, n)[i] = stack[1 + i - 1]
      <3> HIDE DEF n
      <3> QED BY <2>1, SubSeqProperties
    <2>3. Front(stack) = SubSeq(stack, 1, n)
      BY DEF Front
    <2> HIDE DEF n
    <2>4. n \in Nat
      BY <1>1 DEF n
    <2>5. Len(Front(stack)) = n /\ Front(stack) \in Seq(Frame)
      BY <2>2, <2>3, <2>4
    <2>6. \A i \in 1 .. n : Front(stack)[i] = stack[i]
      <3> SUFFICES ASSUME NEW i \in 1 .. n PROVE Front(stack)[i] = stack[i]
        OBVIOUS
      <3>1. i \in 1 .. n - 1 + 1 /\ 1 + i - 1 = i
        BY <2>4
      <3> QED BY <2>2, <2>3, <3>1
    <2> QED BY <2>5, <2>6 DEF n
  <1>4. StackOK(Front(stack))
    <2> DEFINE t == Front(stack)
    <2>1. \A i \in 1 .. Len(t) : t[i].depth = i - 1 /\ FrameOK(t[i])
      BY <1>1, <1>3 DEF StackOK
    <2>2. ASSUME NEW i \in 1 .. Len(t) - 1 PROVE t[i].cur = t[i + 1].dir
      <3>1. i \in 1 .. Len(stack) - 1 /\ i + 1 \in 1 .. Len(stack) - 1
        BY <1>1, <1>3, <2>2
      <3> QED BY <1>3, <3>1 DEF StackOK
    <2>3. Len(t) <= MaxDepth + 1
      BY <1>1, <1>3, ScannerConstants DEF StackOK
    <2> QED BY <1>3, <2>1, <2>2, <2>3 DEF StackOK
  <1>5. Last(stack) \in Frame /\ FrameOK(Last(stack)) /\ Last(stack).depth = Len(stack) - 1
    BY <1>1, <1>2 DEF StackOK, Last
  <1>6. Front(stack) # <<>> => Last(Front(stack)).cur = Last(stack).dir
    <2> SUFFICES ASSUME Front(stack) # <<>> PROVE Last(Front(stack)).cur = Last(stack).dir
      OBVIOUS
    <2>1. Len(stack) - 1 \in 1 .. Len(stack) - 1
      BY <1>1, <1>3, EmptySeq
    <2>2. stack[Len(stack) - 1].cur = stack[(Len(stack) - 1) + 1].dir
      BY <2>1 DEF StackOK
    <2> QED BY <1>1, <1>3, <2>1, <2>2 DEF Last
  <1> QED BY <1>1, <1>3, <1>4, <1>5, <1>6

LEMMA Push ==
    ASSUME NEW stack, StackOK(stack), Len(stack) <= MaxDepth,
           NEW f \in Frame, FrameOK(f), f.depth = Len(stack),
           stack # <<>> => Last(stack).cur = f.dir
    PROVE  /\ StackOK(Append(stack, f)) /\ Append(stack, f) # <<>>
           /\ Last(Append(stack, f)) = f /\ Len(Append(stack, f)) = Len(stack) + 1
  <1>1. stack \in Seq(Frame) /\ Len(stack) \in Nat
    BY LenProperties DEF StackOK
  <1> DEFINE t == Append(stack, f)
  <1>2. /\ t \in Seq(Frame) /\ t # <<>> /\ Len(t) = Len(stack) + 1
        /\ \A i \in 1 .. Len(stack) : t[i] = stack[i]
        /\ t[Len(stack) + 1] = f
    BY <1>1, AppendProperties
  <1> HIDE DEF t
  <1>3. \A i \in 1 .. Len(t) : t[i].depth = i - 1 /\ FrameOK(t[i])
    <2> SUFFICES ASSUME NEW i \in 1 .. Len(t) PROVE t[i].depth = i - 1 /\ FrameOK(t[i])
      OBVIOUS
    <2>1. CASE i \in 1 .. Len(stack)
      BY <1>2, <2>1 DEF StackOK
    <2>2. CASE i = Len(stack) + 1
      BY <1>1, <1>2, <2>2
    <2> QED BY <1>1, <1>2, <2>1, <2>2
  <1>4. \A i \in 1 .. Len(t) - 1 : t[i].cur = t[i + 1].dir
    <2> SUFFICES ASSUME NEW i \in 1 .. Len(stack) PROVE t[i].cur = t[i + 1].dir
      BY <1>1, <1>2
    <2>1. CASE i = Len(stack)
      <3>1. stack # <<>>
        BY <1>1, <2>1, EmptySeq
      <3> QED BY <1>1, <1>2, <2>1, <3>1 DEF Last
    <2>2. CASE i # Len(stack)
      <3>1. i \in 1 .. Len(stack) - 1 /\ i + 1 \in 1 .. Len(stack)
        BY <1>1, <2>2
      <3> QED BY <1>2, <3>1 DEF StackOK
    <2> QED BY <2>1, <2>2
  <1>5. Len(t) <= MaxDepth + 1
    BY <1>1, <1>2, ScannerConstants
  <1> QED BY <1>2, <1>3, <1>4, <1>5 DEF StackOK, Last, t

\* The frame on top is replaced by one for the same directory.
LEMMA Swap ==
    ASSUME NEW stack, StackOK(stack), stack # <<>>,
           NEW f \in Frame, FrameOK(f), f.depth = Last(stack).depth, f.dir = Last(stack).dir
    PROVE  /\ StackOK(Append(Front(stack), f)) /\ Append(Front(stack), f) # <<>>
           /\ Last(Append(Front(stack), f)) = f
           /\ Len(Append(Front(stack), f)) = Len(stack)
  <1>1. /\ StackOK(Front(stack)) /\ Len(Front(stack)) = Len(stack) - 1
        /\ Len(stack) \in Nat \ {0} /\ f.depth = Len(stack) - 1
        /\ Front(stack) # <<>> => Last(Front(stack)).cur = f.dir
    BY Pop
  <1>2. Len(stack) - 1 <= MaxDepth
    BY <1>1, ScannerConstants DEF StackOK
  <1> QED BY <1>1, <1>2, Push

-----------------------------------------------------------------------------
(* A scan.                                                                  *)

\* The directory that a scan is about to open is the one its top frame has
\* open, and what comes back into a frame is below that directory.
ScanOK(g) ==
    /\ g \in Goroutine /\ StackOK(g.stack)
    /\ g.at = "idle" => g.stack = <<>>
    /\ g.at \in {"enter", "list"} =>
        Len(g.stack) <= MaxDepth /\ (g.stack # <<>> => Last(g.stack).cur = g.dir)
    /\ g.at \in {"loop", "merge"} => g.stack # <<>>
    /\ g.at = "merge" => /\ Last(g.stack).cur \in Dir
                         /\ g.back \subseteq Below[Last(g.stack).cur] /\ Leaves(g.back)
    /\ Leaves(g.found) /\ Cardinality(g.out) <= TopN

ScansOK == \A s \in Scan : ScanOK(scan[s])

LEMMA GoesTo ==
    ASSUME scan \in [Scan -> Goroutine], ScansOK, NEW s \in Scan, NEW g, ScanOK(g), Goes(s, g)
    PROVE  ScansOK' /\ scan'[s] = g /\ \A r \in Scan \ {s} : scan'[r] = scan[r]
  BY DEF Goes, ScansOK

LEMMA EmptyIsLeaves == Leaves({}) /\ \A d \in Dir : {} \subseteq Below[d]
  BY DEF Leaves

\* Returning results.
LEMMA BackOK ==
    ASSUME NEW s \in Scan, ScanOK(scan[s]), NEW stack, StackOK(stack),
           NEW results, results \subseteq Path, Leaves(results),
           stack # <<>> => /\ Last(stack).cur \in Dir
                           /\ results \subseteq Below[Last(stack).cur],
           NEW b \in BOOLEAN
    PROVE  /\ ScanOK(Back(s, stack, results))
           /\ ScanOK([Back(s, stack, results) EXCEPT !.timedOut = b])
           /\ Back(s, stack, results).at # "idle"
           /\ Back(s, stack, results).timedOut = scan[s].timedOut
           /\ [Back(s, stack, results) EXCEPT !.timedOut = b].at # "idle"
           /\ [Back(s, stack, results) EXCEPT !.timedOut = b].timedOut = b
  <1>1. scan[s] \in Goroutine /\ stack \in Seq(Frame)
    BY DEF ScanOK, StackOK
  <1>2. CASE stack = <<>>
    <2> DEFINE g == [scan[s] EXCEPT !.at = "finish", !.stack = stack, !.found = results]
               h == [g EXCEPT !.timedOut = b]
    <2>1. Back(s, stack, results) = g
      BY <1>2 DEF Back
    <2>2. /\ g \in Goroutine /\ g.at = "finish" /\ g.stack = stack /\ g.found = results
          /\ g.out = scan[s].out /\ g.timedOut = scan[s].timedOut
      BY <1>1 DEF Goroutine
    <2> HIDE DEF g
    <2>3. /\ h \in Goroutine /\ h.at = "finish" /\ h.stack = stack /\ h.found = results
          /\ h.out = scan[s].out /\ h.timedOut = b
      BY <2>2 DEF Goroutine
    <2> HIDE DEF h
    <2>4. ScanOK(g) /\ ScanOK(h)
      BY <2>2, <2>3 DEF ScanOK
    <2> QED BY <2>1, <2>2, <2>3, <2>4 DEF h
  <1>3. CASE stack # <<>>
    <2> DEFINE g == [scan[s] EXCEPT !.at = "merge", !.stack = stack, !.back = results]
               h == [g EXCEPT !.timedOut = b]
    <2>1. Back(s, stack, results) = g
      BY <1>3 DEF Back
    <2>2. /\ g \in Goroutine /\ g.at = "merge" /\ g.stack = stack /\ g.back = results
          /\ g.found = scan[s].found /\ g.out = scan[s].out /\ g.timedOut = scan[s].timedOut
      BY <1>1 DEF Goroutine
    <2> HIDE DEF g
    <2>3. /\ h \in Goroutine /\ h.at = "merge" /\ h.stack = stack /\ h.back = results
          /\ h.found = scan[s].found /\ h.out = scan[s].out /\ h.timedOut = b
      BY <2>2 DEF Goroutine
    <2> HIDE DEF h
    <2>4. ScanOK(g) /\ ScanOK(h)
      BY <1>3, <2>2, <2>3 DEF ScanOK
    <2> QED BY <2>1, <2>2, <2>3, <2>4 DEF h
  <1> QED BY <1>2, <1>3

-----------------------------------------------------------------------------
(* The steps of a scan.                                                     *)

\* What every step of scan s is to show.
Moved(s) ==
    /\ ScansOK' /\ scan'[s].at # "idle"
    /\ scan'[s].timedOut => scan[s].timedOut \/ s \in late
    /\ \A r \in Scan \ {s} : scan'[r] = scan[r]

ScanTypes == scan \in [Scan -> Goroutine] /\ ScansOK

LEMMA MovesTo ==
    ASSUME ScanTypes, NEW s \in Scan, NEW g, ScanOK(g), Goes(s, g), g.at # "idle",
           g.timedOut => TimedOut(s)
    PROVE  Moved(s)
  BY GoesTo DEF Moved, ScanTypes, TimedOut

\* With a limit or without.
LEMMA BackMoves ==
    ASSUME ScanTypes, NEW s \in Scan, NEW stack, StackOK(stack),
           NEW results, results \subseteq Path, Leaves(results),
           stack # <<>> => /\ Last(stack).cur \in Dir
                           /\ results \subseteq Below[Last(stack).cur],
           \/ Goes(s, Back(s, stack, results))
           \/ Goes(s, [Back(s, stack, results) EXCEPT !.timedOut = TimedOut(s)])
    PROVE  Moved(s)
  <1>1. ScanOK(scan[s]) /\ scan[s].timedOut \in BOOLEAN
    BY DEF ScanTypes, ScansOK, Goroutine
  <1>2. TimedOut(s) \in BOOLEAN /\ (scan[s].timedOut => TimedOut(s))
    BY DEF TimedOut
  <1> DEFINE g == Back(s, stack, results)
             h == [g EXCEPT !.timedOut = TimedOut(s)]
  <1>3. /\ ScanOK(g) /\ ScanOK(h) /\ g.at # "idle" /\ h.at # "idle"
        /\ g.timedOut = scan[s].timedOut /\ h.timedOut = TimedOut(s)
    BY <1>1, <1>2, BackOK
  <1>4. Goes(s, g) \/ Goes(s, h)
    OBVIOUS
  <1> HIDE DEF g, h
  <1> QED BY <1>2, <1>3, <1>4, MovesTo

LEMMA EnterMoves == ASSUME ScanTypes, NEW s \in Scan, Enter(s) PROVE Moved(s)
  <1>1. ScanOK(scan[s]) /\ scan[s].at = "enter" /\ scan[s] \in Goroutine
    BY DEF ScanTypes, ScansOK, Enter, At
  <1>2. /\ StackOK(scan[s].stack)
        /\ scan[s].stack # <<>> => Last(scan[s].stack).cur \in Dir
    BY <1>1 DEF ScanOK, Goroutine
  <1>3. CASE \/ Goes(s, Back(s, scan[s].stack, {}))
             \/ Goes(s, [Back(s, scan[s].stack, {}) EXCEPT !.timedOut = TimedOut(s)])
    <2>1. Leaves({}) /\ {} \subseteq Path
      BY EmptyIsLeaves
    <2> QED BY <1>2, <1>3, <2>1, EmptyIsLeaves, BackMoves
  <1>4. CASE Goes(s, [scan[s] EXCEPT !.at = "list"])
    <2> DEFINE g == [scan[s] EXCEPT !.at = "list"]
    <2>1. /\ g \in Goroutine /\ g.at = "list" /\ g.stack = scan[s].stack /\ g.dir = scan[s].dir
          /\ g.found = scan[s].found /\ g.out = scan[s].out /\ g.timedOut = scan[s].timedOut
      BY <1>1 DEF Goroutine
    <2>2. Goes(s, g)
      BY <1>4
    <2> HIDE DEF g
    <2>3. ScanOK(g)
      BY <1>1, <2>1 DEF ScanOK
    <2>4. g.timedOut => TimedOut(s)
      BY <2>1 DEF TimedOut
    <2> QED BY <2>1, <2>2, <2>3, <2>4, MovesTo
  <1> QED BY <1>3, <1>4 DEF Enter

\* The entries that are looked at are entries of the directory.
LEMMA VisibleAre ==
    ASSUME NEW d \in Dir, NEW n \in 0 .. Len(EntriesOf[d])
    PROVE  Visible(d, n) \subseteq EntrySet(d) \ Skipped
  <1>1. EntriesOf[d] \in Seq(Path) /\ Len(EntriesOf[d]) \in Nat
    BY Entries, LenProperties
  <1>2. \A i \in 1 .. n : EntriesOf[d][i] \in EntrySet(d)
    BY <1>1, LenProperties DEF EntrySet, ToSet
  <1> QED BY <1>2 DEF Visible, Shown

LEMMA ChosenAre ==
    ASSUME NEW d \in Dir, NEW n \in 0 .. Len(EntriesOf[d]), NEW k \in Nat,
           NEW chosen \in Chosen(Visible(d, n), k)
    PROVE  Visible(d, n) \subseteq EntrySet(d) /\ Visible(d, n) \subseteq Path
           /\ chosen \subseteq EntrySet(d) /\ chosen \subseteq Path
  <1>1. Visible(d, n) \subseteq EntrySet(d) /\ EntrySet(d) \subseteq Path
    BY Entries, VisibleAre
  <1>2. chosen \subseteq Visible(d, n)
    BY DEF Chosen, Largest, kSubset
  <1> QED BY <1>1, <1>2

\* The limit of a directory leaves nothing out where there are no more than
\* MaxFiles entries that are not skipped: a listing to the end is what a scan is
\* to look at.
LEMMA InIsVisible == ASSUME NEW d \in Dir PROVE In(d) = Visible(d, Len(EntriesOf[d]))
  <1> DEFINE n == Len(EntriesOf[d])
             all == Shown(d, n)
  <1>1. EntriesOf[d] \in Seq(Path) /\ n \in Nat /\ DOMAIN EntriesOf[d] = 1 .. n
    BY Entries, LenProperties
  <1>2. CASE IsWide(d)
    BY <1>2 DEF In
  <1>3. CASE ~IsWide(d)
    <2>1. Visible(d, n) \subseteq EntrySet(d) \ Skipped
      BY <1>1, VisibleAre
    <2>2. IsFiniteSet(all) /\ Cardinality(all) \in Nat /\ Cardinality(all) <= MaxFiles
      <3>1. IsFiniteSet(1 .. n) /\ all \in SUBSET (1 .. n)
        BY <1>1, FS_Interval DEF Shown
      <3>2. IsFiniteSet(all) /\ Cardinality(all) \in Nat
        BY <3>1, FS_Subset, FS_CardinalityType
      <3> QED BY <1>3, <3>2, ScannerConstants DEF IsWide
    <2>3. ASSUME NEW p \in EntrySet(d) \ Skipped PROVE p \in Visible(d, n)
      <3>1. PICK k \in 1 .. n : p = EntriesOf[d][k]
        BY <1>1 DEF EntrySet, ToSet
      <3> DEFINE before == Shown(d, k - 1)
      <3>2. k \in all /\ before \subseteq all /\ k \notin before
        BY <1>1, <3>1 DEF Shown
      <3> HIDE DEF before, all
      <3>3. IsFiniteSet(before) /\ Cardinality(before) \in Nat
        BY <2>2, <3>2, FS_Subset, FS_CardinalityType
      <3>4. Cardinality(before \cup {k}) = Cardinality(before) + 1
        BY <3>2, <3>3, FS_AddElement
      <3>5. Cardinality(before \cup {k}) <= Cardinality(all)
        BY <2>2, <3>2, FS_Subset
      <3>6. Cardinality(before) < MaxFiles
        BY <2>2, <3>3, <3>4, <3>5, ScannerConstants
      <3> QED BY <3>1, <3>2, <3>6 DEF Visible, before, all
    <2> QED BY <1>3, <2>1, <2>3 DEF In, EntrySet
  <1> QED BY <1>2, <1>3

LEMMA ListMoves == ASSUME ScanTypes, NEW s \in Scan, List(s) PROVE Moved(s)
  <1>1. ScanOK(scan[s]) /\ scan[s].at = "list" /\ scan[s] \in Goroutine
    BY DEF ScanTypes, ScansOK, List, At
  <1> DEFINE d == scan[s].dir
             stack == scan[s].stack
  <1>2. /\ d \in Dir /\ StackOK(stack) /\ Len(stack) <= MaxDepth /\ Len(stack) \in Nat
        /\ stack # <<>> => Last(stack).cur = d
    BY <1>1, LenProperties DEF ScanOK, StackOK, Goroutine
  <1>3. Len(EntriesOf[d]) \in Nat
    BY <1>2, Entries, LenProperties
  <1>4. PICK n \in 0 .. Len(EntriesOf[d]) :
            \/ Goes(s, Back(s, stack, {}))
            \/ \E chosen \in Chosen(Visible(d, n), Depth(s)) : Goes(s, Opens(s, Visible(d, n), chosen))
    <2>1. PICK n \in IF Limited(s) THEN 0 .. Len(EntriesOf[d]) ELSE {Len(EntriesOf[d])} :
              \/ Goes(s, Back(s, stack, {}))
              \/ \E chosen \in Chosen(Visible(d, n), Depth(s)) : Goes(s, Opens(s, Visible(d, n), chosen))
      BY DEF List
    <2> QED BY <1>3, <2>1
  <1>5. CASE Goes(s, Back(s, stack, {}))
    <2>1. Leaves({}) /\ {} \subseteq Path /\ (stack # <<>> => Last(stack).cur \in Dir)
      BY <1>2, EmptyIsLeaves
    <2> QED BY <1>2, <1>5, <2>1, EmptyIsLeaves, BackMoves
  <1>6. ASSUME NEW chosen \in Chosen(Visible(d, n), Depth(s)), Goes(s, Opens(s, Visible(d, n), chosen))
        PROVE  Moved(s)
    <2> DEFINE f == [dir |-> d, depth |-> Len(stack), items |-> Visible(d, n),
                     todo |-> chosen, cur |-> None, found |-> {}]
               g == Opens(s, Visible(d, n), chosen)
    <2>1. /\ Visible(d, n) \subseteq Path /\ chosen \subseteq EntrySet(d) /\ chosen \subseteq Path
      BY <1>2, <1>6, ChosenAre DEF Depth
    <2>2. f \in Frame
      BY <1>2, <2>1, ScannerConstants DEF Frame
    <2>3. FrameOK(f)
      <3>1. f.cur \notin f.todo /\ f.cur = None /\ f.found = {} /\ f.dir = d /\ f.todo = chosen
        BY <2>1, ScannerConstants
      <3> HIDE DEF f
      <3> QED BY <1>2, <2>1, <3>1, EmptyIsLeaves DEF FrameOK
    <2>4. f.depth = Len(stack) /\ f.dir = d
      OBVIOUS
    <2>5. g = [scan[s] EXCEPT !.at = "loop", !.stack = Append(stack, f)]
      BY DEF Opens, Depth
    <2> HIDE DEF f
    <2>6. StackOK(Append(stack, f)) /\ Append(stack, f) # <<>>
      BY <1>2, <2>2, <2>3, <2>4, Push
    <2>7. /\ g \in Goroutine /\ g.at = "loop" /\ g.stack = Append(stack, f)
          /\ g.found = scan[s].found /\ g.out = scan[s].out /\ g.timedOut = scan[s].timedOut
      BY <1>1, <2>5, <2>6 DEF Goroutine, StackOK
    <2> HIDE DEF g
    <2>8. ScanOK(g)
      BY <1>1, <2>6, <2>7 DEF ScanOK
    <2>9. Goes(s, g) /\ (g.timedOut => TimedOut(s))
      BY <1>6, <2>7 DEF TimedOut, g
    <2> QED BY <2>7, <2>8, <2>9, MovesTo
  <1> QED BY <1>4, <1>5, <1>6

\* After an entry, with the frame f in the place of the one on top.
LEMMA AfterEntryMoves ==
    ASSUME ScanTypes, NEW s \in Scan, scan[s].stack # <<>>,
           NEW f \in Frame, FrameOK(f), f.dir = Top(s).dir, f.depth = Top(s).depth,
           Goes(s, AfterEntry(s, f))
    PROVE  Moved(s)
  <1> DEFINE stack == scan[s].stack
             below == Front(stack)
  <1>1. ScanOK(scan[s]) /\ scan[s] \in Goroutine /\ StackOK(stack)
    BY DEF ScanTypes, ScansOK, ScanOK
  <1>2. CASE Limited(s)
    <2>1. /\ StackOK(below) /\ (below # <<>> => Last(below).cur = f.dir)
          /\ f.found \subseteq Path /\ Leaves(f.found) /\ f.found \subseteq Below[f.dir] /\ f.dir \in Dir
      BY <1>1, Pop DEF Top, FrameOK, Frame
    <2>2. Goes(s, [Back(s, below, f.found) EXCEPT !.timedOut = TimedOut(s)])
      BY <1>2 DEF AfterEntry
    <2> QED BY <2>1, <2>2, BackMoves
  <1>3. CASE ~Limited(s)
    <2> DEFINE g == AfterEntry(s, f)
    <2>1. StackOK(Append(below, f)) /\ Append(below, f) # <<>>
      BY <1>1, Swap DEF Top
    <2>2. g = [scan[s] EXCEPT !.at = "loop", !.stack = Append(below, f), !.back = {}]
      BY <1>3 DEF AfterEntry
    <2>3. /\ g \in Goroutine /\ g.at = "loop" /\ g.stack = Append(below, f)
          /\ g.found = scan[s].found /\ g.out = scan[s].out /\ g.timedOut = scan[s].timedOut
      BY <1>1, <2>1, <2>2 DEF Goroutine, StackOK
    <2>4. Goes(s, g)
      OBVIOUS
    <2> HIDE DEF g
    <2>5. ScanOK(g)
      BY <1>1, <2>1, <2>3 DEF ScanOK
    <2>6. g.timedOut => TimedOut(s)
      BY <2>3 DEF TimedOut
    <2> QED BY <2>3, <2>4, <2>5, <2>6, MovesTo
  <1> QED BY <1>2, <1>3

LEMMA LoopMoves == ASSUME ScanTypes, NEW s \in Scan, Loop(s) PROVE Moved(s)
  <1> DEFINE stack == scan[s].stack
             f == Top(s)
  <1>1. /\ ScanOK(scan[s]) /\ scan[s].at = "loop" /\ scan[s] \in Goroutine
        /\ StackOK(stack) /\ stack # <<>>
    BY DEF ScanTypes, ScansOK, ScanOK, Loop, At
  <1>2. /\ f \in Frame /\ FrameOK(f) /\ f = Last(stack) /\ f.depth = Len(stack) - 1
        /\ StackOK(Front(stack)) /\ Len(stack) \in Nat \ {0}
        /\ Front(stack) # <<>> => Last(Front(stack)).cur = f.dir
    BY <1>1, Pop DEF Top
  <1>3. /\ f.dir \in Dir /\ f.found \subseteq Below[f.dir] /\ f.found \subseteq Path /\ Leaves(f.found)
        /\ f.todo \subseteq EntrySet(f.dir) /\ f.todo \subseteq Path
    BY <1>2 DEF FrameOK, Frame
  <1>4. CASE Goes(s, Back(s, Front(stack), f.found))
    BY <1>2, <1>3, <1>4, BackMoves
  <1>5. ASSUME NEW p \in f.todo,
               \/ /\ ShouldRecurse(p, f.items, f.depth)
                  /\ Goes(s, OpenEntry(s, [f EXCEPT !.todo = @ \ {p}], p))
               \/ Goes(s, AfterEntry(s, [[f EXCEPT !.todo = @ \ {p}] EXCEPT !.found = @ \cup {p}]))
        PROVE  Moved(s)
    <2> DEFINE g == [f EXCEPT !.todo = @ \ {p}]
               h == [g EXCEPT !.found = @ \cup {p}]
               c == [g EXCEPT !.cur = p]
    <2>1. p \in EntrySet(f.dir) /\ p \in Path /\ p \in Below[f.dir] /\ p # None
      BY <1>3, BelowIs, ScannerConstants
    <2>2. /\ g \in Frame /\ g.dir = f.dir /\ g.depth = f.depth /\ g.todo = f.todo \ {p}
          /\ g.cur = f.cur /\ g.found = f.found
      BY <1>2 DEF Frame
    <2>3. \A q \in f.todo : q # p => Apart(p, q)
      BY <1>3, <2>1, EntriesApart
    <2>4. \A q \in f.found : Apart(q, p) /\ Apart(p, q)
      BY <1>2 DEF FrameOK, Ahead, Apart
    <2>5. CASE Goes(s, AfterEntry(s, h))
      <3>1. /\ h \in Frame /\ h.dir = f.dir /\ h.depth = f.depth /\ h.todo = f.todo \ {p}
            /\ h.cur = f.cur /\ h.found = f.found \cup {p}
        <4> HIDE DEF g
        <4> QED BY <2>1, <2>2 DEF Frame
      <3> HIDE DEF h
      <3>2. Leaves(h.found)
        BY <1>3, <2>4, <3>1 DEF Leaves
      <3>3. \A q \in h.found, r \in Ahead(h) : Apart(q, r)
        <4> SUFFICES ASSUME NEW r \in Ahead(h) PROVE Apart(p, r) /\ \A q \in f.found : Apart(q, r)
          BY <3>1
        <4>1. r \in Ahead(f) /\ r # p
          BY <1>2, <3>1 DEF Ahead, FrameOK
        <4>2. \A q \in f.found : Apart(q, r)
          BY <1>2, <4>1 DEF FrameOK
        <4>3. r \in EntrySet(f.dir)
          BY <1>2, <4>1 DEF FrameOK, Ahead
        <4> QED BY <1>3, <2>1, <4>1, <4>2, <4>3, EntriesApart
      <3>4. FrameOK(h)
        BY <1>2, <1>3, <2>1, <3>1, <3>2, <3>3 DEF FrameOK
      <3> QED BY <1>1, <2>5, <3>1, <3>4, AfterEntryMoves
    <2>6. CASE ShouldRecurse(p, f.items, f.depth) /\ Goes(s, OpenEntry(s, g, p))
      <3>1. p \in Dir /\ f.depth < MaxDepth
        BY <2>6 DEF ShouldRecurse
      <3>2. /\ c \in Frame /\ c.dir = f.dir /\ c.depth = f.depth /\ c.todo = f.todo \ {p}
            /\ c.cur = p /\ c.found = f.found
        <4> HIDE DEF g
        <4> QED BY <2>1, <2>2 DEF Frame
      <3> DEFINE o == OpenEntry(s, g, p)
                 stack2 == Append(Front(stack), c)
      <3>3. o = [scan[s] EXCEPT !.at = "enter", !.dir = p, !.stack = stack2]
        BY DEF OpenEntry
      <3> HIDE DEF c, g
      <3>4. FrameOK(c)
        <4>1. \A q \in c.found, r \in Ahead(c) : Apart(q, r)
          BY <1>2, <2>4, <3>2 DEF FrameOK, Ahead
        <4> QED BY <1>3, <2>1, <3>1, <3>2, <4>1 DEF FrameOK
      <3>5. StackOK(stack2) /\ stack2 # <<>> /\ Last(stack2) = c /\ Len(stack2) = Len(stack)
        BY <1>1, <1>2, <3>2, <3>4, Swap
      <3>6. Len(stack2) <= MaxDepth
        BY <1>2, <3>1, <3>5, ScannerConstants
      <3> HIDE DEF stack2, o
      <3>7. /\ o \in Goroutine /\ o.at = "enter" /\ o.stack = stack2 /\ o.dir = p
            /\ o.found = scan[s].found /\ o.out = scan[s].out /\ o.timedOut = scan[s].timedOut
        BY <1>1, <3>1, <3>3, <3>5 DEF Goroutine, StackOK
      <3>8. ScanOK(o)
        BY <1>1, <3>2, <3>5, <3>6, <3>7 DEF ScanOK
      <3>9. Goes(s, o) /\ (o.timedOut => TimedOut(s))
        BY <2>6, <3>7 DEF TimedOut, o
      <3> QED BY <3>7, <3>8, <3>9, MovesTo
    <2> QED BY <1>5, <2>5, <2>6
  <1>6. \/ Goes(s, Back(s, Front(stack), f.found))
        \/ \E p \in Biggest(f.todo) :
              \/ /\ ShouldRecurse(p, f.items, f.depth)
                 /\ Goes(s, OpenEntry(s, [f EXCEPT !.todo = @ \ {p}], p))
              \/ Goes(s, AfterEntry(s, [[f EXCEPT !.todo = @ \ {p}] EXCEPT !.found = @ \cup {p}]))
    BY DEF Loop
  <1>7. Biggest(f.todo) \subseteq f.todo
    BY DEF Biggest
  <1> HIDE DEF f, stack
  <1> QED BY <1>4, <1>5, <1>6, <1>7

LEMMA MergeMoves == ASSUME ScanTypes, NEW s \in Scan, Merge(s) PROVE Moved(s)
  <1> DEFINE stack == scan[s].stack
             f == Top(s)
             results == IF scan[s].back = {} THEN {f.cur} ELSE scan[s].back
             h == [f EXCEPT !.cur = None, !.found = @ \cup results]
  <1>1. /\ ScanOK(scan[s]) /\ scan[s].at = "merge" /\ stack # <<>> /\ StackOK(stack)
        /\ f = Last(stack)
    BY DEF ScanTypes, ScansOK, ScanOK, Merge, At, Top
  <1>2. /\ f.cur \in Dir /\ scan[s].back \subseteq Below[f.cur] /\ Leaves(scan[s].back)
        /\ f \in Frame /\ FrameOK(f)
    BY <1>1, Pop DEF ScanOK
  <1>3. f.cur # None /\ f.cur \in EntrySet(f.dir) /\ f.dir \in Dir /\ f.cur \in Path
    <2>1. f.cur \in Path \cup {None} /\ f.dir \in Dir
      BY <1>2 DEF Frame
    <2>2. f.cur # None
      <3> SUFFICES ASSUME f.cur = None PROVE FALSE
        OBVIOUS
      <3> QED BY <1>2, ScannerConstants
    <2> QED BY <1>2, <2>1, <2>2 DEF FrameOK
  <1>4. \A x \in results : Tree(x) \subseteq Tree(f.cur)
    <2>1. \A x \in scan[s].back : Tree(x) \subseteq Below[f.cur]
      BY <1>2, BelowIsTransitive
    <2> QED BY <1>2, <2>1 DEF Tree
  <1>5. Leaves(results)
    BY <1>2 DEF Leaves
  <1>6. results \subseteq Below[f.dir]
    <2>1. f.cur \in Below[f.dir]
      BY <1>3, BelowIs
    <2>2. Tree(f.cur) \subseteq Below[f.dir]
      BY <1>3, <2>1, BelowIsTransitive
    <2>3. \A x \in results : x \in Tree(x)
      BY DEF Tree
    <2> QED BY <1>4, <2>2, <2>3
  <1> HIDE DEF results
  <1>7. /\ h.dir = f.dir /\ h.depth = f.depth /\ h.todo = f.todo /\ h.cur = None
        /\ h.found = f.found \cup results /\ h \in Frame
    <2>1. results \subseteq Path
      BY <1>3, <1>6, BelowIs
    <2> QED BY <1>2, <2>1 DEF Frame
  <1>8. FrameOK(h)
    <2>1. \A x \in results, q \in f.found : Apart(q, x) /\ Apart(x, q)
      <3>1. \A q \in f.found : Apart(q, f.cur)
        BY <1>2, <1>3 DEF FrameOK, Ahead
      <3> QED BY <1>4, <3>1 DEF Apart
    <2>2. \A x \in results, p \in f.todo : Apart(x, p)
      <3>1. \A p \in f.todo : Apart(f.cur, p)
        BY <1>2, <1>3, EntriesApart DEF FrameOK
      <3> QED BY <1>4, <3>1 DEF Apart
    <2>3. \A q \in f.found, p \in f.todo : Apart(q, p)
      BY <1>2 DEF FrameOK, Ahead
    <2>4. Leaves(f.found \cup results)
      BY <1>2, <1>5, <2>1 DEF Leaves, FrameOK
    <2>5. h.cur \notin h.todo
      BY <1>2, <1>7, ScannerConstants DEF Frame
    <2> HIDE DEF h
    <2> QED BY <1>2, <1>6, <1>7, <2>2, <2>3, <2>4, <2>5 DEF FrameOK, Ahead
  <1>9. Goes(s, AfterEntry(s, h))
    BY DEF Merge, results
  <1> HIDE DEF h, f
  <1> QED BY <1>1, <1>7, <1>8, <1>9, AfterEntryMoves DEF f

LEMMA StartMoves == ASSUME ScanTypes, NEW s \in Scan, Start(s) PROVE Moved(s)
  <1> DEFINE g == [scan[s] EXCEPT !.at = "enter"]
  <1>1. ScanOK(scan[s]) /\ scan[s].at = "idle" /\ scan[s] \in Goroutine /\ Goes(s, g)
    BY DEF ScanTypes, ScansOK, Start, At
  <1>2. /\ g \in Goroutine /\ g.at = "enter" /\ g.stack = scan[s].stack
        /\ g.found = scan[s].found /\ g.out = scan[s].out /\ g.timedOut = scan[s].timedOut
    BY <1>1 DEF Goroutine
  <1> HIDE DEF g
  <1>3. g.stack = <<>> /\ Len(g.stack) = 0
    BY <1>1, <1>2, EmptySeq DEF ScanOK
  <1>4. ScanOK(g)
    BY <1>1, <1>2, <1>3, ScannerConstants DEF ScanOK
  <1> QED BY <1>1, <1>2, <1>4, MovesTo DEF TimedOut

LEMMA MinOfTwo ==
    ASSUME NEW a \in Nat, NEW b \in Nat
    PROVE  Min({a, b}) \in Nat /\ Min({a, b}) <= a /\ Min({a, b}) <= b
  <1>1. \E x \in {a, b} : \A y \in {a, b} : x =< y
    OBVIOUS
  <1> QED BY <1>1 DEF Min

\* No more than TopN results, whether they were found or are the fallback.
LEMMA TopItemsAre ==
    ASSUME NEW found \in SUBSET Path, NEW top \in TopItems(found)
    PROVE  top \subseteq Path /\ Cardinality(top) <= TopN
  <1>1. TopN \in Nat
    BY ScannerConstants
  <1>2. CASE Sized(found) # {}
    <2> DEFINE items == Sized(found)
    <2>1. top \in Largest(items, TopN)
      BY <1>2 DEF TopItems
    <2>2. items \subseteq Path
      BY DEF Sized
    <2> HIDE DEF items
    <2>3. Cardinality(items) \in Nat
      BY <2>2, ScannerConstants, FS_Subset, FS_CardinalityType
    <2>4. top \subseteq items /\ Cardinality(top) = Min({TopN, Cardinality(items)})
      BY <2>1 DEF Largest, kSubset
    <2> QED BY <1>1, <2>2, <2>3, <2>4, MinOfTwo
  <1>3. CASE Sized(found) = {}
    <2> DEFINE n == Min({TopN, Len(Important)})
               q == SubSeq(Important, 1, n)
    <2>1. top = ToSet(q)
      BY <1>3 DEF TopItems, FirstN
    <2>2. Important \in Seq(Path) /\ Len(Important) \in Nat
      BY ScannerConstants, LenProperties
    <2>3. n \in Nat /\ n <= TopN /\ n <= Len(Important)
      BY <1>1, <2>2, MinOfTwo
    <2> HIDE DEF n
    <2>4. \A i \in 1 .. n : Important[i] \in Path
      BY <2>2, <2>3, ElementOfSeq
    <2>5. q \in Seq(Path) /\ Len(q) = n
      BY <2>3, <2>4, SubSeqProperties
    <2> HIDE DEF q
    <2>6. DOMAIN q = 1 .. n /\ \A i \in 1 .. n : q[i] \in Path
      BY <2>5, LenProperties, ElementOfSeq
    <2>7. top = {q[i] : i \in 1 .. n}
      BY <2>1, <2>6 DEF ToSet
    <2>8. [i \in 1 .. n |-> q[i]] \in Surjection(1 .. n, top)
      BY <2>7 DEF Surjection
    <2>9. Cardinality(top) <= n
      BY <2>3, <2>8, FS_SurjCardinalityBound DEF ExistsSurjection
    <2>10. IsFiniteSet(top) /\ top \subseteq Path
      BY <2>6, <2>7, ScannerConstants, FS_Subset
    <2>11. Cardinality(top) \in Nat
      BY <2>10, FS_CardinalityType
    <2> QED BY <1>1, <2>3, <2>9, <2>10, <2>11
  <1> QED BY <1>2, <1>3

LEMMA FinishMoves == ASSUME ScanTypes, NEW s \in Scan, Finish(s) PROVE Moved(s)
  <1>1. ScanOK(scan[s]) /\ scan[s] \in Goroutine
    BY DEF ScanTypes, ScansOK
  <1>2. PICK top \in TopItems(scan[s].found) :
            Goes(s, [scan[s] EXCEPT !.at = "done", !.out = top, !.back = {}])
    BY DEF Finish
  <1> DEFINE g == [scan[s] EXCEPT !.at = "done", !.out = top, !.back = {}]
  <1>3. top \subseteq Path /\ Cardinality(top) <= TopN
    <2>1. scan[s].found \in SUBSET Path
      BY <1>1 DEF Goroutine
    <2> QED BY <2>1, TopItemsAre
  <1>4. /\ g \in Goroutine /\ g.at = "done" /\ g.stack = scan[s].stack
        /\ g.found = scan[s].found /\ g.out = top /\ g.timedOut = scan[s].timedOut
    BY <1>1, <1>3 DEF Goroutine
  <1>5. Goes(s, g)
    BY <1>2
  <1> HIDE DEF g
  <1>6. ScanOK(g)
    BY <1>1, <1>3, <1>4 DEF ScanOK
  <1> QED BY <1>4, <1>5, <1>6, MovesTo DEF TimedOut

-----------------------------------------------------------------------------
(* The invariant.                                                           *)

Begun == {s \in Scan : scan[s].at # "idle"}

LateInv == late \subseteq Scan /\ \A s \in Scan : scan[s].timedOut => s \in late
FlagsInv == heavy \in BOOLEAN /\ exceeded \in BOOLEAN /\ stopped \in BOOLEAN /\ everHeavy \in BOOLEAN
            /\ short \subseteq Scan
WatchInv == watching \in Nat /\ watching <= Cardinality(Begun)
ClosesInv == (stopped => closes = 1) /\ (~stopped => closes = 0)

DiskInv == ScanTypes /\ LateInv /\ FlagsInv /\ WatchInv /\ ClosesInv

LEMMA BegunIsFinite == IsFiniteSet(Begun) /\ Cardinality(Begun) \in Nat
                       /\ Cardinality(Begun) <= Cardinality(Scan) /\ Cardinality(Scan) \in Nat
  <1>1. IsFiniteSet(Scan) /\ Begun \in SUBSET Scan
    BY ScannerConstants DEF Begun
  <1> QED BY <1>1, FS_Subset, FS_CardinalityType

LEMMA DiskInit == Init => DiskInv
  <1> SUFFICES ASSUME Init PROVE DiskInv
    OBVIOUS
  <1>1. <<>> \in Seq(Frame) /\ Len(<<>>) = 0
    BY EmptySeq
  <1>2. /\ Waiting \in Goroutine /\ Waiting.at = "idle" /\ Waiting.stack = <<>>
        /\ Waiting.found = {} /\ Waiting.out = {} /\ Waiting.timedOut = FALSE
    BY <1>1, ScannerConstants DEF Waiting, Goroutine
  <1>3. StackOK(<<>>)
    BY <1>1, ScannerConstants DEF StackOK
  <1>4. Cardinality({}) <= TopN
    BY FS_EmptySet, ScannerConstants
  <1>5. ScanOK(Waiting)
    BY <1>2, <1>3, <1>4, EmptyIsLeaves DEF ScanOK
  <1>6. scan \in [Scan -> Goroutine] /\ \A s \in Scan : scan[s] = Waiting
    BY <1>2 DEF Init
  <1>7. ScanTypes /\ LateInv
    BY <1>2, <1>5, <1>6 DEF Init, ScanTypes, ScansOK, LateInv
  <1>8. WatchInv
    BY BegunIsFinite DEF Init, WatchInv
  <1>9. FlagsInv /\ ClosesInv
    BY DEF Init, FlagsInv, ClosesInv
  <1> QED BY <1>7, <1>8, <1>9 DEF DiskInv

LEMMA WorkMoves ==
    ASSUME ScanTypes, NEW s \in Scan, Work(s)
    PROVE  Moved(s) /\ UNCHANGED <<late, heavy, everHeavy>>
           /\ scan' \in [Scan -> Goroutine]
  <1>1. Moved(s)
    BY StartMoves, EnterMoves, ListMoves, LoopMoves, MergeMoves, FinishMoves DEF Work
  <1>2. UNCHANGED <<late, heavy, everHeavy>>
    BY DEF Work, Start, Enter, List, Loop, Merge, Finish, Rest
  <1>3. \E g : Goes(s, g)
    BY DEF Work, Start, Enter, List, Loop, Merge, Finish
  <1>4. scan' \in [Scan -> Goroutine]
    BY <1>1, <1>3 DEF Goes, ScanTypes, Moved, ScansOK, ScanOK
  <1> QED BY <1>1, <1>2, <1>4

LEMMA DiskStep == DiskInv /\ [Next]_vars => DiskInv'
  <1> SUFFICES ASSUME DiskInv, [Next]_vars PROVE DiskInv'
    OBVIOUS
  <1> USE DEF DiskInv
  <1>1. ASSUME UNCHANGED scan PROVE ScanTypes' /\ Begun' = Begun
    BY <1>1 DEF ScanTypes, ScansOK, Begun
  <1>2. ASSUME NEW s \in Scan, Work(s) PROVE DiskInv'
    <2>1. /\ Moved(s) /\ UNCHANGED <<late, heavy, everHeavy>>
          /\ scan' \in [Scan -> Goroutine]
      BY <1>2, WorkMoves
    <2>2. ScanTypes'
      BY <2>1 DEF ScanTypes, Moved
    <2>3. LateInv'
      BY <2>1 DEF LateInv, Moved
    <2>4. Begun' = Begun \cup {s}
      BY <2>1 DEF Begun, Moved
    <2>5. WatchInv'
      <3>1. CASE Start(s)
        <4>1. s \notin Begun /\ watching' = watching + 1
          BY <3>1 DEF Start, At, Begun
        <4>2. Cardinality(Begun') = Cardinality(Begun) + 1
          BY <2>4, <4>1, BegunIsFinite, FS_AddElement
        <4> QED BY <4>1, <4>2, BegunIsFinite DEF WatchInv
      <3>2. CASE ~Start(s)
        <4>1. watching' = watching
          BY <1>2, <3>2 DEF Work, Enter, List, Loop, Merge, Finish, monitor
        <4>2. Begun' = Begun
          BY <1>2, <2>4, <3>2 DEF Work, Enter, List, Loop, Merge, Finish, At, Begun
        <4> QED BY <4>1, <4>2 DEF WatchInv
      <3> QED BY <3>1, <3>2
    <2>6. FlagsInv' /\ ClosesInv'
      <3> HIDE DEF DiskInv
      <3>0. short' \subseteq Scan /\ FlagsInv /\ ClosesInv
        BY <1>2 DEF DiskInv, FlagsInv, Work, Start, Enter, List, Loop, Merge, Finish, monitor
      <3>1. CASE Finish(s)
        <4>1. stopped' = TRUE /\ exceeded' = exceeded
          BY <3>1 DEF Finish, Stopped
        <4>2. closes' = 1
          <5>1. CASE stopped
            BY <3>0, <3>1, <5>1 DEF Finish, Stopped, ClosesInv
          <5>2. CASE ~stopped
            BY <3>0, <3>1, <5>2 DEF Finish, Stopped, ClosesInv
          <5> QED BY <5>1, <5>2
        <4> QED BY <2>1, <3>0, <4>1, <4>2 DEF FlagsInv, ClosesInv
      <3>2. CASE ~Finish(s)
        <4>1. UNCHANGED <<exceeded, stopped, closes>>
          BY <1>2, <3>2 DEF Work, Start, Enter, List, Loop, Merge, monitor
        <4> QED BY <2>1, <3>0, <4>1 DEF FlagsInv, ClosesInv
      <3> QED BY <3>1, <3>2
    <2> QED BY <2>2, <2>3, <2>5, <2>6
  <1>3. ASSUME NEW s \in Scan, Deadline(s) PROVE DiskInv'
    <2>1. UNCHANGED <<scan, heavy, everHeavy, exceeded, stopped, watching, closes, short>>
          /\ late' = late \cup {s}
      BY <1>3 DEF Deadline, monitor
    <2> QED BY <1>1, <2>1 DEF LateInv, FlagsInv, WatchInv, ClosesInv
  <1>4. CASE CheckMemoryUsage
    <2>1. UNCHANGED <<scan, late, heavy, stopped, watching, closes, everHeavy>> /\ exceeded' = heavy
          /\ short' \subseteq short \cup Scan
      BY <1>4 DEF CheckMemoryUsage
    <2> QED BY <1>1, <2>1 DEF LateInv, FlagsInv, WatchInv, ClosesInv
  <1>5. CASE WatchEnds
    <2>1. UNCHANGED <<scan, late, heavy, exceeded, stopped, closes, short, everHeavy>>
          /\ watching' = watching - 1 /\ watching > 0
      BY <1>5 DEF WatchEnds
    <2>2. ScanTypes' /\ LateInv' /\ FlagsInv' /\ ClosesInv'
      BY <1>1, <2>1 DEF LateInv, FlagsInv, ClosesInv
    <2>3. WatchInv'
      BY <1>1, <2>1, BegunIsFinite DEF WatchInv
    <2> QED BY <2>2, <2>3
  <1>6. CASE MemoryChanges
    <2>1. UNCHANGED <<scan, late, exceeded, stopped, watching, closes, short>>
          /\ heavy' = ~heavy /\ everHeavy' = TRUE
      BY <1>6 DEF MemoryChanges, monitor
    <2> QED BY <1>1, <2>1 DEF LateInv, FlagsInv, WatchInv, ClosesInv
  <1>7. CASE UNCHANGED vars
    BY <1>1, <1>7 DEF vars, monitor, LateInv, FlagsInv, WatchInv, ClosesInv
  <1> QED BY <1>2, <1>3, <1>4, <1>5, <1>6, <1>7 DEF Next

\* The invariant of the theorems below: what a frame
\* has found is apart from what it has ahead, and the frames of a scan are for
\* directories one in the other.
LEMMA DiskInvHolds == Spec => []DiskInv
  BY DiskInit, DiskStep, PTL DEF Spec

-----------------------------------------------------------------------------
(* The theorems.                                                            *)

\* The state of all scans has its type: no scan is deeper than MaxDepth, reports
\* a timeout that was none, or more than TopN entries, and no more goroutines
\* watch the memory than scans were started.
THEOREM TypeCorrect == Spec => []TypeOK
  <1>1. DiskInv => TypeOK
    <2> SUFFICES ASSUME DiskInv PROVE TypeOK
      OBVIOUS
    <2>1. \A s \in Scan : Len(scan[s].stack) <= MaxDepth + 1 /\ Cardinality(scan[s].out) <= TopN
      BY DEF DiskInv, ScanTypes, ScansOK, ScanOK, StackOK
    <2>2. watching \in 0 .. Cardinality(Scan)
      BY BegunIsFinite DEF DiskInv, WatchInv
    <2>3. closes \in Nat
      BY DEF DiskInv, ClosesInv
    <2> QED BY <2>1, <2>2, <2>3 DEF DiskInv, ScanTypes, LateInv, FlagsInv, TypeOK
  <1> QED BY <1>1, DiskInvHolds, PTL

\* On every disk the results of a scan are leaves: none is in another, also when
\* the deadline or the memory cuts the scan at any point, and however the scans
\* share the monitor.
THEOREM ResultsStayLeaves == Spec => []ResultsAreLeaves
  <1>1. DiskInv => ResultsAreLeaves
    <2> SUFFICES ASSUME DiskInv, NEW s \in Scan, NEW d \in Dir \cap scan[s].found,
                        NEW x \in Below[d] \cap scan[s].found
                 PROVE  FALSE
      BY DEF ResultsAreLeaves
    <2>1. Leaves(scan[s].found)
      BY DEF DiskInv, ScanTypes, ScansOK, ScanOK
    <2>2. x # d
      BY BelowIs
    <2>3. x \in Tree(x) /\ x \in Tree(d)
      BY DEF Tree
    <2> QED BY <2>1, <2>2, <2>3 DEF Leaves, Apart
  <1> QED BY <1>1, DiskInvHolds, PTL

\* However many scans run and end together, stopChan of the shared monitor is
\* closed once.
THEOREM MonitorClosedOnce == Spec => []ClosedOnce
  <1>1. DiskInv => ClosedOnce
    BY DEF DiskInv, ClosesInv, ClosedOnce
  <1> QED BY <1>1, DiskInvHolds, PTL

-----------------------------------------------------------------------------
(* Scans without limits.                                                    *)

FoundIn(stack) == UNION {stack[i].found : i \in 1 .. Len(stack)}
Dirs(stack) == {stack[i].dir : i \in 1 .. Len(stack)}

\* All results of a scan so far.
AllFound(g) ==
    CASE g.at = "merge" -> FoundIn(g.stack) \cup g.back
      [] g.at \in {"finish", "done"} -> g.found
      [] OTHER -> FoundIn(g.stack)

\* A frame has seen what it is to look at, but for what is ahead, and what is
\* behind it is as it is to be.
Past(f, found, opened) == Seen(f.dir, found, opened) \ {f.cur}
FrameGoes(f, found, opened) ==
    /\ f.dir \in opened /\ f.items = In(f.dir) /\ f.depth = Level(f.dir)
    /\ Past(f, found, opened) \cup Ahead(f) \in Chosen(In(f.dir), Level(f.dir))
    /\ f.todo \cap (found \cup opened) = {} /\ f.cur \notin found
    /\ f.cur # None => ShouldRecurse(f.cur, f.items, f.depth)
    /\ \A p \in Past(f, found, opened) : Judged(f.dir, p, found, opened)
    /\ f.found = {} <=> Past(f, found, opened) = {}

\* The directories that were opened are in the stack, or done.
StackGoes(stack, found, opened) ==
    /\ found \subseteq Path /\ opened \subseteq Dir \ (Skipped \cup Unreadable)
    /\ \A p \in found \cup (opened \ {Root}) : \E d \in opened : p \in EntrySet(d)
    /\ \A i \in 1 .. Len(stack) : FrameGoes(stack[i], found, opened)
    /\ stack # <<>> => stack[1].dir = Root
    /\ \A d \in opened \ Dirs(stack) : Searched(d, found, opened)

\* What a scan has found is what one without limits finds, as far as it is.
Whole(g, found, opened) ==
    /\ StackGoes(g.stack, found, opened)
    /\ g.at \in {"idle", "enter", "list"} =>
        /\ g.dir \notin opened
        /\ g.stack = <<>> => g.dir = Root /\ opened = {}
    /\ g.at = "list" => g.dir \notin Skipped \cup Unreadable
    /\ g.at = "loop" => Last(g.stack).cur = None
    /\ g.at = "merge" => LET c == Last(g.stack).cur
                         IN /\ c \in opened <=> c \notin Unreadable
                            /\ g.back = {} <=> c \notin opened \/ Seen(c, found, opened) = {}
    /\ g.at \in {"finish", "done"} =>
        g.stack = <<>> /\ (Root \in opened <=> Root \notin Skipped \cup Unreadable)

\* A limit cut a listing: what is left of the scan finds nothing more, and the
\* next question for the limits reports it.
Cut(s, g) ==
    /\ s \in late
    /\ \/ g.at = "enter"
       \/ g.at = "loop" /\ Last(g.stack).found = {}
       \/ g.at = "merge" /\ g.back = {}
       \/ g.at \in {"finish", "done"} /\ g.found = {}

IsWhole(g) == \E opened \in SUBSET Dir : Whole(g, AllFound(g), opened)

WholeInv ==
    /\ \A s \in Scan : exceeded /\ Runs(s) => s \in short
    /\ \A s \in Scan : s \notin short /\ ~scan[s].timedOut => Cut(s, scan[s]) \/ IsWhole(scan[s])

\* Nothing contains Root.
LEMMA RootIsTop == \A d \in Dir : Root \notin Below[d]
  <1> SUFFICES ASSUME NEW d \in Dir PROVE Root \notin Below[d]
    OBVIOUS
  <1> DEFINE S == Below[d] \ {Root}
  <1>1. S \in Closed
    BY BelowIs, DiskIsTree DEF Closed
  <1>2. EntrySet(d) \subseteq S
    BY BelowIs, DiskIsTree DEF EntrySet
  <1> QED BY <1>1, <1>2, BelowIs

\* Root is at level 0, and an entry one level below its directory.
LEMMA Levels ==
    /\ \A d \in Dir : Level(d) \in Nat
    /\ Level(Root) = 0
    /\ \A d, p \in Dir : p \in EntrySet(d) => Level(p) = Level(d) + 1
  <1> DEFINE Above(p) == {e \in Dir : p \in Below[e]}
  <1>1. IsFiniteSet(Dir)
    BY ScannerConstants, FS_Subset
  <1>2. \A p : IsFiniteSet(Above(p)) /\ Cardinality(Above(p)) \in Nat /\ Level(p) = Cardinality(Above(p))
    <2> SUFFICES ASSUME NEW p
                 PROVE  IsFiniteSet(Above(p)) /\ Cardinality(Above(p)) \in Nat
                        /\ Level(p) = Cardinality(Above(p))
      OBVIOUS
    <2>1. Above(p) \in SUBSET Dir /\ Level(p) = Cardinality(Above(p))
      BY DEF Level
    <2> HIDE DEF Above
    <2> QED BY <1>1, <2>1, FS_Subset, FS_CardinalityType
  <1>3. Above(Root) = {}
    BY RootIsTop
  <1>4. ASSUME NEW d \in Dir, NEW p \in Dir, p \in EntrySet(d) PROVE Level(p) = Level(d) + 1
    <2>1. Above(p) = Above(d) \cup {d}
      <3>1. \A e \in Dir : p \in Below[e] => e = d \/ d \in Below[e]
        <4> SUFFICES ASSUME NEW e \in Dir, p \in Below[e] PROVE e = d \/ d \in Below[e]
          OBVIOUS
        <4>1. d \in Tree(e)
          BY <1>4, ParentIsBelow
        <4> QED BY <4>1 DEF Tree
      <3>2. \A e \in Dir : d \in Below[e] => p \in Below[e]
        <4> SUFFICES ASSUME NEW e \in Dir, d \in Below[e] PROVE p \in Below[e]
          OBVIOUS
        <4>1. Below[d] \subseteq Below[e]
          BY BelowIsTransitive DEF Tree
        <4> QED BY <1>4, <4>1, BelowIs
      <3>3. p \in Below[d]
        BY <1>4, BelowIs
      <3> QED BY <3>1, <3>2, <3>3
    <2>2. d \notin Above(d)
      BY BelowIs
    <2> HIDE DEF Above
    <2> QED BY <1>2, <2>1, <2>2, FS_AddElement
  <1>5. Level(Root) = 0
    BY <1>2, <1>3, FS_EmptySet
  <1> HIDE DEF Above
  <1> QED BY <1>2, <1>4, <1>5

\* What the stack has without its top, and with one more.
LEMMA Tops ==
    ASSUME NEW stack, StackOK(stack), stack # <<>>
    PROVE  /\ \A i \in 1 .. Len(stack) - 1 : Front(stack)[i] = stack[i]
           /\ Dirs(stack) = Dirs(Front(stack)) \cup {Last(stack).dir}
           /\ FoundIn(stack) = FoundIn(Front(stack)) \cup Last(stack).found
  <1>1. /\ stack \in Seq(Frame) /\ Len(stack) \in Nat \ {0} /\ Len(Front(stack)) = Len(stack) - 1
        /\ Last(stack) = stack[Len(stack)]
    BY Pop DEF StackOK, Last
  <1>2. \A i \in 1 .. Len(stack) - 1 : Front(stack)[i] = stack[i]
    <2> DEFINE n == Len(stack) - 1
    <2>1. \A i \in 1 .. n : stack[i] \in Frame
      BY <1>1, ElementOfSeq
    <2>2. n \in Nat
      BY <1>1
    <2>3. Front(stack) = SubSeq(stack, 1, n)
      BY DEF Front
    <2> HIDE DEF n
    <2>4. \A i \in 1 .. n - 1 + 1 : SubSeq(stack, 1, n)[i] = stack[1 + i - 1]
      BY <2>1, <2>2, SubSeqProperties
    <2>5. \A i \in 1 .. n : i \in 1 .. n - 1 + 1 /\ 1 + i - 1 = i
      BY <2>2
    <2> QED BY <2>3, <2>4, <2>5 DEF n
  <1>3. 1 .. Len(stack) = (1 .. Len(stack) - 1) \cup {Len(stack)}
    BY <1>1
  <1> QED BY <1>1, <1>2, <1>3 DEF Dirs, FoundIn

LEMMA Pushed ==
    ASSUME NEW stack, StackOK(stack), NEW f
    PROVE  /\ Len(Append(stack, f)) = Len(stack) + 1 /\ Len(stack) \in Nat
           /\ \A i \in 1 .. Len(stack) : Append(stack, f)[i] = stack[i]
           /\ Append(stack, f)[Len(stack) + 1] = f
           /\ Dirs(Append(stack, f)) = Dirs(stack) \cup {f.dir}
           /\ FoundIn(Append(stack, f)) = FoundIn(stack) \cup f.found
  <1> DEFINE t == Append(stack, f)
  <1>1. stack \in Seq(Frame) /\ Len(stack) \in Nat
    BY LenProperties DEF StackOK
  <1>2. /\ Len(t) = Len(stack) + 1 /\ t[Len(stack) + 1] = f
        /\ \A i \in 1 .. Len(stack) : t[i] = stack[i]
    BY <1>1
  <1> HIDE DEF t
  <1>3. 1 .. Len(stack) + 1 = (1 .. Len(stack)) \cup {Len(stack) + 1}
    BY <1>1
  <1> QED BY <1>1, <1>2, <1>3 DEF Dirs, FoundIn, t

-----------------------------------------------------------------------------
(* What the addition of a path changes.                                     *)

\* x, an entry of d if of any, is found or opened.
Adds(d, x, found, opened, found2, opened2) ==
    /\ \A e \in Dir : x \in EntrySet(e) => e = d
    /\ found \subseteq found2 /\ found2 \subseteq found \cup {x}
    /\ opened \subseteq opened2 /\ opened2 \subseteq opened \cup {x}

LEMMA SeenElsewhere ==
    ASSUME NEW d, NEW x, NEW found, NEW opened, NEW found2, NEW opened2,
           Adds(d, x, found, opened, found2, opened2), NEW e \in Dir, e # d
    PROVE  Seen(e, found2, opened2) = Seen(e, found, opened)
  BY DEF Seen, Adds, EntrySet

LEMMA JudgedElsewhere ==
    ASSUME NEW d, NEW x, NEW found, NEW opened, NEW found2, NEW opened2,
           Adds(d, x, found, opened, found2, opened2), opened \subseteq Dir,
           NEW e, NEW p, p # x, p # d, Judged(e, p, found, opened)
    PROVE  Judged(e, p, found2, opened2)
  <1>1. (p \in opened2 <=> p \in opened) /\ (p \in found2 <=> p \in found)
    BY DEF Adds
  <1>2. p \in opened => Seen(p, found2, opened2) = Seen(p, found, opened)
    BY SeenElsewhere
  <1> QED BY <1>1, <1>2 DEF Judged

LEMMA FrameKeeps ==
    ASSUME NEW d, NEW x, x # None, NEW found, NEW opened, NEW found2, NEW opened2,
           Adds(d, x, found, opened, found2, opened2), opened \subseteq Dir,
           NEW f \in Frame, FrameOK(f), FrameGoes(f, found, opened),
           d \notin Past(f, found, opened),
           f.dir # d \/ (x = f.cur /\ found2 = found)
    PROVE  FrameGoes(f, found2, opened2)
  <1>1. f.dir \in Dir /\ f.todo \subseteq EntrySet(f.dir) /\ f.cur \notin f.todo
    BY DEF FrameOK, Frame
  <1>2. Past(f, found2, opened2) = Past(f, found, opened) /\ x \notin Past(f, found, opened)
    <2>1. CASE f.dir # d
      BY <1>1, <2>1, SeenElsewhere DEF Past, Adds, Seen, EntrySet
    <2>2. CASE x = f.cur
      BY <2>2 DEF Past, Adds, Seen
    <2> QED BY <2>1, <2>2
  <1>3. x \notin f.todo
    BY <1>1 DEF Adds
  <1>4. f.cur \notin found2
    <2>1. CASE f.dir # d
      <3>1. f.cur # x
        BY <2>1 DEF FrameOK, Adds, Frame
      <3> QED BY <3>1 DEF FrameGoes, Adds
    <2>2. CASE found2 = found
      BY <2>2 DEF FrameGoes
    <2> QED BY <2>1, <2>2
  <1>5. \A p \in Past(f, found, opened) : Judged(f.dir, p, found2, opened2)
    BY <1>2, JudgedElsewhere DEF FrameGoes
  <1> QED BY <1>2, <1>3, <1>4, <1>5 DEF FrameGoes, Adds

LEMMA SearchedKeeps ==
    ASSUME NEW d, NEW x, NEW found, NEW opened, NEW found2, NEW opened2,
           Adds(d, x, found, opened, found2, opened2), opened \subseteq Dir,
           NEW e \in Dir, e # d, d \notin EntrySet(e), Searched(e, found, opened)
    PROVE  Searched(e, found2, opened2)
  <1>1. Seen(e, found2, opened2) = Seen(e, found, opened) /\ Seen(e, found, opened) \subseteq EntrySet(e)
    BY SeenElsewhere DEF Seen, EntrySet
  <1>2. \A p \in Seen(e, found, opened) : p # d
    BY <1>1
  <1>3. ASSUME NEW p \in Seen(e, found, opened) PROVE Judged(e, p, found2, opened2)
    <2>1. CASE p # x
      BY <1>2, <2>1, JudgedElsewhere DEF Searched
    <2>2. CASE p = x
      BY <1>1, <2>2 DEF Adds
    <2> QED BY <2>1, <2>2
  <1> QED BY <1>1, <1>3 DEF Searched

\* The directory of the frame on top is in that of the frame below, and is no
\* entry of another one that was opened.
LEMMA TopDir ==
    ASSUME NEW stack, StackOK(stack), stack # <<>>, NEW found, NEW opened,
           StackGoes(stack, found, opened)
    PROVE  /\ \A i \in 1 .. Len(stack) - 1 :
                /\ stack[i].dir # Last(stack).dir
                /\ Last(stack).dir \notin Past(stack[i], found, opened)
           /\ \A e \in opened \ Dirs(stack) : Last(stack).dir \notin EntrySet(e)
           /\ Last(stack).dir \notin EntrySet(Last(stack).dir)
           /\ Last(stack).dir \in Dir
  <1> DEFINE n == Len(stack)
             d == Last(stack).dir
  <1>1. n \in Nat \ {0} /\ Last(stack) = stack[n] /\ stack \in Seq(Frame)
    BY Pop DEF StackOK, Last
  <1>2. \A i \in 1 .. n : stack[i] \in Frame /\ stack[i].depth = i - 1
    BY <1>1, ElementOfSeq DEF StackOK
  <1>3. \A i \in 1 .. n : stack[i].dir \in Dir /\ Level(stack[i].dir) = i - 1
    BY <1>2 DEF StackGoes, FrameGoes, Frame
  <1>4. d \in Dir /\ Level(d) = n - 1
    BY <1>1, <1>3
  <1>5. d \notin EntrySet(d)
    BY <1>4, BelowIs
  <1>6. \A i \in 1 .. n - 1 : stack[i].cur = stack[i + 1].dir /\ stack[i].cur \in EntrySet(stack[i].dir)
    <2> SUFFICES ASSUME NEW i \in 1 .. n - 1
                 PROVE  stack[i].cur = stack[i + 1].dir /\ stack[i].cur \in EntrySet(stack[i].dir)
      OBVIOUS
    <2>1. i \in 1 .. n /\ i + 1 \in 1 .. n /\ stack[i].cur = stack[i + 1].dir
      BY <1>1 DEF StackOK
    <2>2. stack[i].cur # None
      BY <1>3, <2>1, ScannerConstants
    <2> QED BY <2>1, <2>2 DEF StackOK, FrameOK
  <1>7. ASSUME NEW i \in 1 .. n - 1
        PROVE  stack[i].dir # d /\ d \notin Past(stack[i], found, opened)
    <2>1. i \in 1 .. n /\ stack[i].dir \in Dir /\ Level(stack[i].dir) = i - 1
      BY <1>1, <1>3
    <2>2. stack[i].dir # d
      BY <1>1, <1>4, <2>1
    <2>3. d \notin Past(stack[i], found, opened)
      <3> SUFFICES ASSUME d \in EntrySet(stack[i].dir) PROVE d = stack[i].cur
        BY DEF Past, Seen, EntrySet
      <3>1. Level(d) = i
        BY <1>4, <2>1, Levels
      <3>2. i = n - 1
        BY <1>1, <1>4, <3>1
      <3> QED BY <1>1, <1>6, <3>2
    <2> QED BY <2>2, <2>3
  <1>8. ASSUME NEW e \in opened \ Dirs(stack) PROVE d \notin EntrySet(e)
    <2>1. e \in Dir
      BY DEF StackGoes
    <2>2. CASE n = 1
      <3>1. d = Root
        BY <1>1, <2>2 DEF StackGoes
      <3> QED BY <2>1, <3>1, DiskIsTree DEF EntrySet
    <2>3. CASE n # 1
      <3>1. n - 1 \in 1 .. n - 1 /\ (n - 1) + 1 = n /\ n - 1 \in 1 .. n
        <4> HIDE DEF n
        <4>1. n \in Nat \ {0}
          BY <1>1
        <4> QED BY <2>3, <4>1
      <3>2. d \in EntrySet(stack[n - 1].dir)
        BY <1>1, <1>6, <3>1
      <3>3. stack[n - 1].dir \in Dirs(stack) /\ stack[n - 1].dir \in Dir
        BY <1>3, <3>1 DEF Dirs
      <3> QED BY <2>1, <3>2, <3>3, DiskIsTree DEF EntrySet
    <2> QED BY <2>2, <2>3
  <1> QED BY <1>1, <1>4, <1>5, <1>7, <1>8

\* The frame on top goes on.
LEMMA TopGoes ==
    ASSUME NEW stack, StackOK(stack), stack # <<>>,
           NEW found, NEW opened, NEW found2, StackGoes(stack, found, opened),
           NEW x \in Path, x \in EntrySet(Last(stack).dir),
           Adds(Last(stack).dir, x, found, opened, found2, opened),
           NEW h \in Frame, h.dir = Last(stack).dir, FrameGoes(h, found2, opened)
    PROVE  StackGoes(Append(Front(stack), h), found2, opened)
  <1> DEFINE d == Last(stack).dir
             below == Front(stack)
             t == Append(below, h)
  <1>1. /\ StackOK(below) /\ Len(below) = Len(stack) - 1 /\ Len(stack) \in Nat \ {0}
        /\ \A i \in 1 .. Len(below) : below[i] = stack[i]
        /\ Dirs(stack) = Dirs(below) \cup {d}
    BY Pop, Tops
  <1>2. /\ Len(t) = Len(stack) /\ Dirs(t) = Dirs(stack)
        /\ \A i \in 1 .. Len(stack) - 1 : t[i] = stack[i]
        /\ t[Len(stack)] = h
    BY <1>1, Pushed
  <1>3. x # None /\ opened \subseteq Dir /\ d \in Dir
    BY TopDir, ScannerConstants DEF StackGoes
  <1>4. \A i \in 1 .. Len(stack) : FrameGoes(t[i], found2, opened)
    <2> SUFFICES ASSUME NEW i \in 1 .. Len(stack) - 1 PROVE FrameGoes(stack[i], found2, opened)
      BY <1>1, <1>2
    <2>1. i \in 1 .. Len(stack) /\ stack[i] \in Frame
      BY <1>1, ElementOfSeq DEF StackOK
    <2>2. FrameOK(stack[i]) /\ FrameGoes(stack[i], found, opened)
      BY <2>1 DEF StackOK, StackGoes
    <2>3. stack[i].dir # d /\ d \notin Past(stack[i], found, opened)
      BY TopDir
    <2> QED BY <1>3, <2>1, <2>2, <2>3, FrameKeeps
  <1>5. t # <<>> => t[1].dir = Root
    <2>1. CASE Len(stack) = 1
      BY <1>2, <2>1 DEF StackGoes, Last
    <2>2. CASE Len(stack) # 1
      BY <1>1, <1>2, <2>2 DEF StackGoes
    <2> QED BY <2>1, <2>2
  <1>6. ASSUME NEW e \in opened \ Dirs(t) PROVE Searched(e, found2, opened)
    <2>1. e \in opened \ Dirs(stack) /\ e # d /\ e \in Dir
      BY <1>1, <1>2, <1>3
    <2>2. d \notin EntrySet(e)
      BY <2>1, TopDir
    <2>3. Searched(e, found, opened)
      BY <2>1 DEF StackGoes
    <2> HIDE DEF t, d, below
    <2>4. Adds(d, x, found, opened, found2, opened)
      BY DEF d
    <2> QED BY <1>3, <2>1, <2>2, <2>3, <2>4, SearchedKeeps
  <1>7. found2 \subseteq Path
    BY DEF StackGoes, Adds
  <1>8. \A p \in found2 \cup (opened \ {Root}) : \E e \in opened : p \in EntrySet(e)
    <2>1. d \in opened
      BY DEF FrameGoes
    <2> QED BY <2>1 DEF StackGoes, Adds
  <1>9. \A i \in 1 .. Len(t) : FrameGoes(t[i], found2, opened)
    <2> HIDE DEF t
    <2> QED BY <1>2, <1>4
  <1> HIDE DEF t, d, below
  <1> QED BY <1>3, <1>5, <1>6, <1>7, <1>8, <1>9 DEF StackGoes, t, below

\* A frame with nothing ahead has searched its directory.
LEMMA PopGoes ==
    ASSUME NEW stack, StackOK(stack), stack # <<>>, NEW found, NEW opened,
           StackGoes(stack, found, opened), Last(stack).todo = {}, Last(stack).cur = None
    PROVE  /\ StackGoes(Front(stack), found, opened)
           /\ Searched(Last(stack).dir, found, opened)
           /\ Last(stack).dir \in opened
           /\ Last(stack).found = {} <=> Seen(Last(stack).dir, found, opened) = {}
           /\ Front(stack) # <<>> => Last(Front(stack)).dir \in Dir
           /\ Front(stack) = <<>> => Last(stack).dir = Root
  <1> DEFINE f == Last(stack)
             t == Front(stack)
  <1>1. /\ StackOK(t) /\ Len(t) = Len(stack) - 1 /\ Len(stack) \in Nat \ {0}
        /\ \A i \in 1 .. Len(t) : t[i] = stack[i]
        /\ Dirs(stack) = Dirs(t) \cup {f.dir} /\ f = stack[Len(stack)] /\ f \in Frame
    BY Pop, Tops DEF Last
  <1>2. FrameGoes(f, found, opened)
    BY <1>1 DEF StackGoes
  <1>3. Past(f, found, opened) = Seen(f.dir, found, opened) /\ Ahead(f) = {}
    <2>1. None \notin Seen(f.dir, found, opened)
      BY <1>1, Entries, ScannerConstants DEF Seen, EntrySet, Frame
    <2> QED BY <2>1 DEF Past, Ahead
  <1>4. Searched(f.dir, found, opened)
    BY <1>2, <1>3 DEF FrameGoes, Searched
  <1>5. StackGoes(t, found, opened)
    <2>1. \A i \in 1 .. Len(t) : FrameGoes(t[i], found, opened)
      BY <1>1 DEF StackGoes
    <2>2. t # <<>> => t[1].dir = Root
      <3>1. t # <<>> => 1 \in 1 .. Len(t)
        BY <1>1, EmptySeq DEF StackOK
      <3> QED BY <1>1, <3>1 DEF StackGoes
    <2>3. \A e \in opened \ Dirs(t) : Searched(e, found, opened)
      BY <1>1, <1>4 DEF StackGoes
    <2> HIDE DEF t
    <2> QED BY <2>1, <2>2, <2>3 DEF StackGoes
  <1>6. t # <<>> => Last(t).dir \in Dir
    BY <1>1, Pop DEF Frame
  <1>7. t = <<>> => f.dir = Root
    <2>1. t = <<>> => Len(stack) = 1
      BY <1>1, EmptySeq
    <2> QED BY <1>1, <2>1 DEF StackGoes
  <1> QED BY <1>2, <1>3, <1>4, <1>5, <1>6, <1>7 DEF FrameGoes

\* A directory is opened.
LEMMA PushGoes ==
    ASSUME NEW stack, StackOK(stack), NEW found, NEW opened, StackGoes(stack, found, opened),
           NEW d \in Dir \ (Skipped \cup Unreadable), d \notin opened, NEW chosen \in Chosen(In(d), Level(d)),
           IF stack = <<>> THEN d = Root /\ opened = {} ELSE Last(stack).cur = d,
           NEW f \in Frame, f.dir = d, f.items = In(d), f.todo = chosen, f.cur = None,
           f.found = {}, f.depth = Len(stack), f.todo \subseteq EntrySet(d)
    PROVE  StackGoes(Append(stack, f), found, opened \cup {d}) /\ Level(d) = Len(stack)
  <1> DEFINE t == Append(stack, f)
             opened2 == opened \cup {d}
  <1>1. /\ Len(t) = Len(stack) + 1 /\ Len(stack) \in Nat
        /\ \A i \in 1 .. Len(stack) : t[i] = stack[i]
        /\ t[Len(stack) + 1] = f /\ Dirs(t) = Dirs(stack) \cup {d}
    BY Pushed
  <1>2. found \subseteq Path /\ opened \subseteq Dir /\ d # None
    BY ScannerConstants DEF StackGoes
  <1>3. Seen(d, found, opened2) = {}
    <2> SUFFICES ASSUME NEW x \in EntrySet(d), x \in found \cup opened2 PROVE FALSE
      BY DEF Seen, EntrySet
    <2>1. x # Root
      BY DiskIsTree DEF EntrySet
    <2>2. x # d
      BY BelowIs
    <2>3. PICK e \in opened : x \in EntrySet(e)
      BY <2>1, <2>2 DEF StackGoes
    <2> QED BY <1>2, <2>3, DiskIsTree DEF EntrySet
  <1>4. CASE stack = <<>>
    <2>1. Len(stack) = 0 /\ Level(d) = 0 /\ found = {}
      BY <1>4, Levels, EmptySeq DEF StackGoes
    <2>2. FrameGoes(f, found, opened2)
      BY <1>2, <1>3, <1>4, <2>1 DEF FrameGoes, Past, Ahead, Seen, EntrySet
    <2>3. /\ opened2 \ Dirs(t) = {} /\ opened2 \ {Root} = {}
          /\ opened2 \subseteq Dir \ (Skipped \cup Unreadable)
      BY <1>1, <1>2, <1>4
    <2>4. t[1] = f /\ 1 .. Len(t) = {1}
      <3> HIDE DEF t
      <3> QED BY <1>1, <2>1
    <2> HIDE DEF t, opened2
    <2>5. \A i \in 1 .. Len(t) : FrameGoes(t[i], found, opened2)
      BY <2>2, <2>4
    <2>6. StackGoes(t, found, opened2)
      BY <1>2, <1>4, <2>1, <2>3, <2>4, <2>5 DEF StackGoes
    <2> QED BY <2>1, <2>6 DEF t, opened2
  <1>5. CASE stack # <<>>
    <2> DEFINE g == Last(stack)
    <2>1. /\ Len(stack) \in Nat \ {0} /\ g \in Frame /\ FrameOK(g) /\ g = stack[Len(stack)]
          /\ g.dir \in Dir /\ d \in EntrySet(g.dir) /\ g.depth = Len(stack) - 1 /\ g.cur = d
      BY <1>2, <1>5, Pop DEF Last, FrameOK, Frame
    <2>2. FrameGoes(g, found, opened) /\ g.dir \in opened
      <3> HIDE DEF g
      <3>1. Len(stack) \in 1 .. Len(stack)
        BY <2>1
      <3> QED BY <2>1, <3>1 DEF StackGoes, FrameGoes
    <2>3. Level(d) = Len(stack)
      BY <2>1, <2>2, Levels DEF FrameGoes
    <2>4. Adds(g.dir, d, found, opened, found, opened2)
      BY <2>1, DiskIsTree DEF Adds, EntrySet
    <2>5. ASSUME NEW i \in 1 .. Len(stack) PROVE FrameGoes(stack[i], found, opened2)
      <3>1. stack[i] \in Frame /\ FrameOK(stack[i]) /\ FrameGoes(stack[i], found, opened)
        BY ElementOfSeq DEF StackOK, StackGoes
      <3>2. g.dir \notin Past(stack[i], found, opened)
        <4>1. CASE i = Len(stack)
          BY <1>5, <2>1, <4>1, TopDir DEF Past, Seen, EntrySet
        <4>2. CASE i # Len(stack)
          <5>1. i \in 1 .. Len(stack) - 1
            BY <2>1, <4>2
          <5> QED BY <1>5, <5>1, TopDir
        <4> QED BY <4>1, <4>2
      <3>3. stack[i].dir # g.dir \/ stack[i].cur = d
        <4>1. CASE i = Len(stack)
          BY <2>1, <4>1
        <4>2. CASE i # Len(stack)
          <5>1. i \in 1 .. Len(stack) - 1
            BY <2>1, <4>2
          <5> QED BY <1>5, <5>1, TopDir
        <4> QED BY <4>1, <4>2
      <3> HIDE DEF opened2, g
      <3> QED BY <1>2, <2>4, <3>1, <3>2, <3>3, FrameKeeps
    <2>6. FrameGoes(f, found, opened2)
      <3>1. Past(f, found, opened2) = {} /\ Ahead(f) = chosen
        BY <1>3 DEF Past, Ahead
      <3>2. f.todo \cap (found \cup opened2) = {}
        BY <1>3 DEF Seen, EntrySet
      <3>3. f.cur \notin found
        BY <1>2, ScannerConstants
      <3> QED BY <2>3, <3>1, <3>2, <3>3 DEF FrameGoes
    <2>7. \A i \in 1 .. Len(t) : FrameGoes(t[i], found, opened2)
      <3> HIDE DEF t, opened2
      <3> QED BY <1>1, <2>5, <2>6
    <2>8. t[1].dir = Root
      BY <1>1, <1>5, <2>1 DEF StackGoes
    <2>9. ASSUME NEW e \in opened2 \ Dirs(t) PROVE Searched(e, found, opened2)
      <3>1. e \in opened \ Dirs(stack) /\ e \in Dir /\ g.dir \in Dirs(stack)
        BY <1>1, <1>2, <2>1 DEF Dirs
      <3>2. g.dir \notin EntrySet(e)
        BY <1>5, <3>1, TopDir
      <3>3. Searched(e, found, opened)
        BY <3>1 DEF StackGoes
      <3> HIDE DEF opened2, g
      <3> QED BY <1>2, <2>4, <3>1, <3>2, <3>3, SearchedKeeps
    <2>10. \A p \in found \cup (opened2 \ {Root}) : \E e \in opened2 : p \in EntrySet(e)
      BY <2>1, <2>2 DEF StackGoes
    <2>11. opened2 \subseteq Dir \ (Skipped \cup Unreadable)
      BY DEF StackGoes
    <2> HIDE DEF t, opened2
    <2>12. StackGoes(t, found, opened2)
      BY <1>2, <2>7, <2>8, <2>9, <2>10, <2>11 DEF StackGoes
    <2> QED BY <2>3, <2>12 DEF t, opened2
  <1> QED BY <1>4, <1>5

-----------------------------------------------------------------------------
(* The steps of a scan that meets no limit.                                 *)

LEMMA AllFoundIs ==
    ASSUME NEW g
    PROVE  /\ g.at = "merge" => AllFound(g) = FoundIn(g.stack) \cup g.back
           /\ g.at \in {"finish", "done"} => AllFound(g) = g.found
           /\ g.at \in {"idle", "enter", "list", "loop"} => AllFound(g) = FoundIn(g.stack)
  BY DEF AllFound

LEMMA NoFrames == FoundIn(<<>>) = {} /\ Dirs(<<>>) = {} /\ Len(<<>>) = 0
  <1>1. Len(<<>>) = 0 /\ 1 .. 0 = {}
    BY EmptySeq
  <1> QED BY <1>1 DEF FoundIn, Dirs

\* What is ahead is listed, and nothing that is listed is skipped.
LEMMA AheadIsListed ==
    ASSUME NEW f, NEW found, NEW opened, FrameGoes(f, found, opened)
    PROVE  Ahead(f) \subseteq In(f.dir) /\ In(f.dir) \cap Skipped = {}
  <1>1. Ahead(f) \subseteq In(f.dir)
    BY DEF FrameGoes, Chosen, Largest, kSubset
  <1>2. In(f.dir) \cap Skipped = {}
    BY DEF In, Visible, Shown
  <1> QED BY <1>1, <1>2

\* The level of the directory that is about to be opened.
LEMMA LevelIs ==
    ASSUME NEW stack, StackOK(stack), NEW found, NEW opened, StackGoes(stack, found, opened),
           NEW d \in Dir, IF stack = <<>> THEN d = Root ELSE Last(stack).cur = d
    PROVE  Level(d) = Len(stack)
  <1>1. CASE stack = <<>>
    BY <1>1, Levels, NoFrames
  <1>2. CASE stack # <<>>
    <2> DEFINE g == Last(stack)
    <2>1. /\ Len(stack) \in Nat \ {0} /\ g \in Frame /\ FrameOK(g) /\ g = stack[Len(stack)]
          /\ g.depth = Len(stack) - 1 /\ g.cur = d
      BY <1>2, Pop DEF Last
    <2> HIDE DEF g
    <2>2. d # None
      BY ScannerConstants
    <2>3. Len(stack) \in 1 .. Len(stack)
      BY <2>1
    <2>4. g.dir \in Dir /\ d \in EntrySet(g.dir) /\ Level(g.dir) = Len(stack) - 1
      BY <2>1, <2>2, <2>3 DEF FrameOK, Frame, StackGoes, FrameGoes
    <2> QED BY <2>1, <2>4, Levels
  <1> QED BY <1>1, <1>2

\* Returning results that are all there is.
LEMMA BackWhole ==
    ASSUME NEW s \in Scan, scan[s] \in Goroutine, NEW stack, NEW results, NEW opened \in SUBSET Dir,
           StackGoes(stack, FoundIn(stack) \cup results, opened),
           stack = <<>> => (Root \in opened <=> Root \notin Skipped \cup Unreadable),
           stack # <<>> => /\ Last(stack).cur \in opened <=> Last(stack).cur \notin Unreadable
                           /\ results = {} <=>
                                \/ Last(stack).cur \notin opened
                                \/ Seen(Last(stack).cur, FoundIn(stack) \cup results, opened) = {}
    PROVE  IsWhole(Back(s, stack, results))
  <1> DEFINE g == Back(s, stack, results)
  <1>1. CASE stack = <<>>
    <2>1. g.at = "finish" /\ g.stack = stack /\ g.found = results
      BY <1>1 DEF Back, Goroutine
    <2> HIDE DEF g
    <2>2. AllFound(g) = FoundIn(stack) \cup results
      BY <1>1, <2>1, AllFoundIs, NoFrames
    <2>3. Whole(g, AllFound(g), opened)
      BY <1>1, <2>1, <2>2 DEF Whole
    <2> QED BY <2>3 DEF IsWhole, g
  <1>2. CASE stack # <<>>
    <2>1. g.at = "merge" /\ g.stack = stack /\ g.back = results
      BY <1>2 DEF Back, Goroutine
    <2> HIDE DEF g
    <2>2. AllFound(g) = FoundIn(stack) \cup results
      BY <2>1, AllFoundIs
    <2>3. Whole(g, AllFound(g), opened)
      BY <1>2, <2>1, <2>2 DEF Whole
    <2> QED BY <2>3 DEF IsWhole, g
  <1> QED BY <1>1, <1>2

\* Returning nothing once the deadline has passed.
LEMMA BackCut ==
    ASSUME NEW s \in late, scan[s] \in Goroutine, NEW stack
    PROVE  Cut(s, Back(s, stack, {}))
  <1> DEFINE g == Back(s, stack, {})
  <1>1. \/ g.at = "finish" /\ g.found = {}
        \/ g.at = "merge" /\ g.back = {}
    BY DEF Back, Goroutine
  <1> HIDE DEF g
  <1>2. Cut(s, g)
    BY <1>1 DEF Cut
  <1> QED BY <1>2 DEF g

\* What every step of scan s is to show.
Keeps(s) == \E g : Goes(s, g) /\ (g.timedOut \/ Cut(s, g) \/ IsWhole(g))

\* Where it starts from: only the deadline may have passed.
Going(s) ==
    /\ ScanTypes /\ LateInv /\ ~exceeded
    /\ ~scan[s].timedOut /\ (Cut(s, scan[s]) \/ IsWhole(scan[s]))

\* A question for the limits after the deadline.
LEMMA BackLate ==
    ASSUME NEW s \in late, scan[s] \in Goroutine, NEW stack, NEW results,
           Goes(s, [Back(s, stack, results) EXCEPT !.timedOut = TimedOut(s)])
    PROVE  Keeps(s)
  <1> DEFINE b == Back(s, stack, results)
             g == [b EXCEPT !.timedOut = TimedOut(s)]
  <1>1. g.timedOut = TimedOut(s)
    BY DEF Back, Goroutine
  <1>2. g.timedOut
    BY <1>1 DEF TimedOut
  <1>3. Goes(s, g)
    OBVIOUS
  <1> HIDE DEF g
  <1> QED BY <1>2, <1>3 DEF Keeps

LEMMA StartKeeps == ASSUME NEW s \in Scan, Going(s), Start(s) PROVE Keeps(s)
  <1> DEFINE g == [scan[s] EXCEPT !.at = "enter"]
  <1>1. scan[s] \in Goroutine /\ scan[s].at = "idle" /\ Goes(s, g)
    BY DEF Going, ScanTypes, Start, At
  <1>2. IsWhole(scan[s])
    BY <1>1 DEF Going, Cut
  <1>3. PICK opened \in SUBSET Dir : Whole(scan[s], AllFound(scan[s]), opened)
    BY <1>2 DEF IsWhole
  <1>4. g.at = "enter" /\ g.stack = scan[s].stack /\ g.dir = scan[s].dir
    BY <1>1 DEF Goroutine
  <1> HIDE DEF g
  <1>5. AllFound(g) = AllFound(scan[s])
    BY <1>1, <1>4, AllFoundIs
  <1>6. Whole(g, AllFound(g), opened)
    BY <1>1, <1>3, <1>4, <1>5 DEF Whole
  <1> QED BY <1>1, <1>6 DEF Keeps, IsWhole

LEMMA FinishKeeps == ASSUME NEW s \in Scan, Going(s), Finish(s) PROVE Keeps(s)
  <1>1. scan[s] \in Goroutine /\ scan[s].at = "finish"
    BY DEF Going, ScanTypes, Finish, At
  <1>2. PICK top \in TopItems(scan[s].found) :
            Goes(s, [scan[s] EXCEPT !.at = "done", !.out = top, !.back = {}])
    BY DEF Finish
  <1> DEFINE g == [scan[s] EXCEPT !.at = "done", !.out = top, !.back = {}]
  <1>3. g.at = "done" /\ g.stack = scan[s].stack /\ g.found = scan[s].found
    BY <1>1 DEF Goroutine
  <1>4. Goes(s, g)
    BY <1>2
  <1> HIDE DEF g
  <1>5. CASE Cut(s, scan[s])
    BY <1>1, <1>3, <1>4, <1>5 DEF Cut, Keeps
  <1>6. CASE IsWhole(scan[s])
    <2>1. PICK opened \in SUBSET Dir : Whole(scan[s], AllFound(scan[s]), opened)
      BY <1>6 DEF IsWhole
    <2>2. AllFound(g) = AllFound(scan[s])
      BY <1>1, <1>3, AllFoundIs
    <2>3. Whole(g, AllFound(g), opened)
      BY <1>1, <1>3, <2>1, <2>2 DEF Whole
    <2> QED BY <1>4, <2>3 DEF Keeps, IsWhole
  <1> QED BY <1>5, <1>6 DEF Going

\* The directory that is about to be opened is below the frame on top.
LEMMA NextDir ==
    ASSUME NEW g, ScanOK(g), g.at \in {"enter", "list"}, NEW opened, Whole(g, AllFound(g), opened)
    PROVE  /\ g.dir \in Dir /\ g.dir \notin opened /\ StackOK(g.stack) /\ Len(g.stack) <= MaxDepth
           /\ StackGoes(g.stack, FoundIn(g.stack), opened)
           /\ IF g.stack = <<>> THEN g.dir = Root /\ opened = {} ELSE Last(g.stack).cur = g.dir
           /\ g.stack # <<>> => g.dir \notin Skipped
  <1>1. AllFound(g) = FoundIn(g.stack)
    BY AllFoundIs
  <1>2. /\ g.dir \in Dir /\ g.dir \notin opened /\ StackOK(g.stack) /\ Len(g.stack) <= MaxDepth
        /\ StackGoes(g.stack, FoundIn(g.stack), opened)
        /\ IF g.stack = <<>> THEN g.dir = Root /\ opened = {} ELSE Last(g.stack).cur = g.dir
    BY <1>1 DEF ScanOK, Goroutine, Whole
  <1>3. ASSUME g.stack # <<>> PROVE g.dir \notin Skipped
    <2> DEFINE f == Last(g.stack)
    <2>1. Len(g.stack) \in Nat \ {0} /\ f = g.stack[Len(g.stack)] /\ f.cur = g.dir
      BY <1>2, <1>3, Pop DEF Last
    <2> HIDE DEF f
    <2>2. Len(g.stack) \in 1 .. Len(g.stack)
      BY <2>1
    <2>3. FrameGoes(f, FoundIn(g.stack), opened)
      BY <1>2, <2>1, <2>2 DEF StackGoes
    <2>4. g.dir \in Ahead(f)
      BY <1>2, <2>1, ScannerConstants DEF Ahead
    <2> QED BY <2>3, <2>4, AheadIsListed
  <1> QED BY <1>2, <1>3

LEMMA EnterKeeps == ASSUME NEW s \in Scan, Going(s), Enter(s) PROVE Keeps(s)
  <1> DEFINE stack == scan[s].stack
             d == scan[s].dir
  <1>1. scan[s] \in Goroutine /\ scan[s].at = "enter" /\ ScanOK(scan[s])
    BY DEF Going, ScanTypes, ScansOK, Enter, At
  <1>2. CASE Limited(s)
    <2>1. s \in late
      BY <1>2 DEF Limited, Going
    <2>2. Goes(s, [Back(s, stack, {}) EXCEPT !.timedOut = TimedOut(s)])
      BY <1>2 DEF Enter
    <2> QED BY <1>1, <2>1, <2>2, BackLate
  <1>3. CASE ~Limited(s)
    <2>1. IsWhole(scan[s])
      BY <1>3 DEF Going, Cut, Limited
    <2>2. PICK opened \in SUBSET Dir : Whole(scan[s], AllFound(scan[s]), opened)
      BY <2>1 DEF IsWhole
    <2>3. /\ d \in Dir /\ d \notin opened /\ StackGoes(stack, FoundIn(stack), opened)
          /\ IF stack = <<>> THEN d = Root /\ opened = {} ELSE Last(stack).cur = d
          /\ stack # <<>> => d \notin Skipped
      BY <1>1, <2>2, NextDir
    <2>4. CASE d \in Skipped \cup Unreadable
      <3>1. Goes(s, Back(s, stack, {}))
        BY <1>3, <2>4 DEF Enter
      <3>2. StackGoes(stack, FoundIn(stack) \cup {}, opened)
        BY <2>3
      <3>3. IsWhole(Back(s, stack, {}))
        BY <1>1, <2>3, <2>4, <3>2, BackWhole
      <3> QED BY <3>1, <3>3 DEF Keeps
    <2>5. CASE d \notin Skipped \cup Unreadable
      <3> DEFINE g == [scan[s] EXCEPT !.at = "list"]
      <3>1. Goes(s, g)
        BY <1>3, <2>5 DEF Enter
      <3>2. g.at = "list" /\ g.stack = stack /\ g.dir = d
        BY <1>1 DEF Goroutine
      <3> HIDE DEF g
      <3>3. AllFound(g) = AllFound(scan[s])
        BY <1>1, <3>2, AllFoundIs
      <3>4. Whole(g, AllFound(g), opened)
        BY <1>1, <2>2, <2>5, <3>2, <3>3 DEF Whole
      <3> QED BY <3>1, <3>4 DEF Keeps, IsWhole
    <2> QED BY <2>4, <2>5
  <1> QED BY <1>2, <1>3

\* Of no entries, none is the choice.
LEMMA NoneIsChosen == \A k : {} \in Chosen({}, k)
  <1> SUFFICES ASSUME NEW k PROVE {} \in Chosen({}, k)
    OBVIOUS
  <1>1. Cardinality({}) = 0
    BY FS_EmptySet
  <1>2. ASSUME NEW n \in Nat PROVE {} \in Largest({}, n)
    <2>1. Min({n, 0}) = 0
      BY MinOfTwo
    <2> QED BY <1>1, <2>1 DEF Largest, kSubset
  <1>3. MaxResults \in Nat /\ Min({MaxResults, DeepItems}) \in Nat
    BY ScannerConstants, MinOfTwo
  <1> QED BY <1>2, <1>3 DEF Chosen

\* The frame of a directory that is listed to the end.
NewFrame(d, depth, chosen) ==
    [dir |-> d, depth |-> depth, items |-> In(d), todo |-> chosen, cur |-> None, found |-> {}]

LEMMA NewFrameOK ==
    ASSUME NEW stack, StackOK(stack), Len(stack) <= MaxDepth,
           NEW d \in Dir, stack # <<>> => Last(stack).cur = d,
           NEW chosen \in Chosen(In(d), Len(stack))
    PROVE  LET f == NewFrame(d, Len(stack), chosen)
           IN /\ StackOK(Append(stack, f)) /\ Append(stack, f) # <<>>
              /\ Last(Append(stack, f)) = f /\ f \in Frame /\ chosen \subseteq EntrySet(d)
              /\ f.dir = d /\ f.depth = Len(stack) /\ f.items = In(d)
              /\ f.todo = chosen /\ f.cur = None /\ f.found = {}
              /\ FoundIn(Append(stack, f)) = FoundIn(stack)
  <1> DEFINE f == NewFrame(d, Len(stack), chosen)
  <1>1. Len(stack) \in Nat
    BY LenProperties DEF StackOK
  <1>2. Len(EntriesOf[d]) \in 0 .. Len(EntriesOf[d])
    BY Entries, LenProperties
  <1>3. In(d) \subseteq Path /\ chosen \subseteq EntrySet(d) /\ chosen \subseteq Path
    BY <1>1, <1>2, ChosenAre, InIsVisible
  <1>4. /\ f \in Frame /\ f.dir = d /\ f.depth = Len(stack) /\ f.items = In(d)
        /\ f.todo = chosen /\ f.cur = None /\ f.found = {}
    BY <1>1, <1>3, ScannerConstants DEF Frame, NewFrame
  <1> HIDE DEF f
  <1>5. FrameOK(f)
    BY <1>3, <1>4, EmptyIsLeaves, ScannerConstants DEF FrameOK
  <1>6. /\ StackOK(Append(stack, f)) /\ Append(stack, f) # <<>> /\ Last(Append(stack, f)) = f
    BY <1>4, <1>5, Push
  <1>7. FoundIn(Append(stack, f)) = FoundIn(stack)
    <2>1. FoundIn(Append(stack, f)) = FoundIn(stack) \cup f.found
      BY Pushed
    <2> QED BY <1>4, <2>1
  <1> QED BY <1>3, <1>4, <1>6, <1>7 DEF f

LEMMA Listed ==
    ASSUME NEW stack, StackOK(stack), Len(stack) <= MaxDepth, NEW found, NEW opened,
           StackGoes(stack, found, opened),
           NEW d \in Dir \ (Skipped \cup Unreadable), d \notin opened,
           IF stack = <<>> THEN d = Root /\ opened = {} ELSE Last(stack).cur = d,
           NEW chosen \in Chosen(In(d), Len(stack))
    PROVE  StackGoes(Append(stack, NewFrame(d, Len(stack), chosen)), found, opened \cup {d})
  <1> DEFINE f == NewFrame(d, Len(stack), chosen)
  <1>1. Len(stack) \in Nat /\ Level(d) = Len(stack)
    BY LevelIs, LenProperties DEF StackOK
  <1>2. /\ f \in Frame /\ f.dir = d /\ f.depth = Len(stack) /\ f.items = In(d)
        /\ f.todo = chosen /\ f.cur = None /\ f.found = {} /\ chosen \subseteq EntrySet(d)
    BY NewFrameOK
  <1> HIDE DEF f
  <1> QED BY <1>1, <1>2, PushGoes DEF f

LEMMA FrontOfPush ==
    ASSUME NEW stack, StackOK(stack), NEW f \in Frame
    PROVE  Front(Append(stack, f)) = stack
  <1> DEFINE t == Append(stack, f)
  <1>1. stack \in Seq(Frame) /\ Len(stack) \in Nat
    BY LenProperties DEF StackOK
  <1>2. /\ t \in Seq(Frame) /\ Len(t) = Len(stack) + 1
        /\ \A i \in 1 .. Len(stack) : t[i] = stack[i] /\ t[i] \in Frame
    BY <1>1
  <1> HIDE DEF t
  <1>3. Front(t) = SubSeq(t, 1, Len(stack))
    BY <1>1, <1>2 DEF Front
  <1>4. /\ SubSeq(t, 1, Len(stack)) \in Seq(Frame)
        /\ Len(SubSeq(t, 1, Len(stack))) = Len(stack)
        /\ \A i \in 1 .. Len(stack) : SubSeq(t, 1, Len(stack))[i] = t[i]
    BY <1>1, <1>2, SubSeqProperties
  <1> QED BY <1>1, <1>2, <1>3, <1>4, SeqEqual DEF t

LEMMA ListKeeps == ASSUME NEW s \in Scan, Going(s), List(s) PROVE Keeps(s)
  <1> DEFINE stack == scan[s].stack
             d == scan[s].dir
  <1>1. scan[s] \in Goroutine /\ scan[s].at = "list" /\ ScanOK(scan[s])
    BY DEF Going, ScanTypes, ScansOK, List, At
  <1>2. CASE Limited(s)
    <2>1. s \in late
      BY <1>2 DEF Limited, Going
    <2>2. CASE Goes(s, Back(s, stack, {}))
      BY <1>1, <2>1, <2>2, BackCut DEF Keeps
    <2>3. ASSUME NEW items, NEW chosen, Goes(s, Opens(s, items, chosen)) PROVE Keeps(s)
      <3> DEFINE f == [dir |-> d, depth |-> Depth(s), items |-> items,
                       todo |-> chosen, cur |-> None, found |-> {}]
                 g == Opens(s, items, chosen)
      <3>1. g.at = "loop" /\ g.stack = Append(stack, f) /\ stack \in Seq(Frame)
        BY <1>1 DEF Opens, Goroutine
      <3>2. f.found = {}
        OBVIOUS
      <3>3. Goes(s, g)
        BY <2>3
      <3> HIDE DEF f, g
      <3>4. Last(Append(stack, f)) = f
        BY <3>1, AppendProperties DEF Last
      <3>5. Cut(s, g)
        BY <2>1, <3>1, <3>2, <3>4 DEF Cut
      <3> QED BY <3>3, <3>5 DEF Keeps
    <2>4. \/ Goes(s, Back(s, stack, {}))
          \/ \E items, chosen : Goes(s, Opens(s, items, chosen))
      BY DEF List
    <2> QED BY <2>2, <2>3, <2>4
  <1>3. CASE ~Limited(s)
    <2>1. IsWhole(scan[s])
      BY <1>1, <1>3 DEF Going, Cut, Limited
    <2>2. PICK opened \in SUBSET Dir : Whole(scan[s], AllFound(scan[s]), opened)
      BY <2>1 DEF IsWhole
    <2>3. /\ d \in Dir \ (Skipped \cup Unreadable) /\ d \notin opened
          /\ StackOK(stack) /\ Len(stack) <= MaxDepth /\ StackGoes(stack, FoundIn(stack), opened)
          /\ IF stack = <<>> THEN d = Root /\ opened = {} ELSE Last(stack).cur = d
      BY <1>1, <2>2, NextDir DEF Whole
    <2>4. \/ In(d) = {} /\ Goes(s, Back(s, stack, {}))
          \/ \E chosen \in Chosen(In(d), Depth(s)) : Goes(s, Opens(s, In(d), chosen))
      BY <1>3, <2>3, InIsVisible DEF List
    <2> DEFINE opened2 == opened \cup {d}
               F(chosen) == NewFrame(d, Len(stack), chosen)
    <2>5. opened2 \in SUBSET Dir
      BY <2>3
    <2>6. ASSUME NEW chosen \in Chosen(In(d), Len(stack))
          PROVE  /\ StackGoes(Append(stack, F(chosen)), FoundIn(stack), opened2)
                 /\ StackOK(Append(stack, F(chosen))) /\ Append(stack, F(chosen)) # <<>>
                 /\ Last(Append(stack, F(chosen))) = F(chosen)
                 /\ F(chosen).found = {} /\ F(chosen).cur = None
                 /\ F(chosen).dir = d /\ F(chosen).todo = chosen
                 /\ FoundIn(Append(stack, F(chosen))) = FoundIn(stack)
      <3>1. StackOK(stack) /\ Len(stack) <= MaxDepth /\ StackGoes(stack, FoundIn(stack), opened)
        BY <2>3
      <3>2. d \in Dir \ (Skipped \cup Unreadable) /\ d \notin opened
        BY <2>3
      <3>3. IF stack = <<>> THEN d = Root /\ opened = {} ELSE Last(stack).cur = d
        BY <2>3
      <3> HIDE DEF stack, d
      <3>4. stack # <<>> => Last(stack).cur = d
        BY <3>3
      <3> HIDE DEF F
      <3>5. StackGoes(Append(stack, F(chosen)), FoundIn(stack), opened2)
        BY <3>1, <3>2, <3>3, Listed DEF F
      <3> QED BY <3>1, <3>2, <3>4, <3>5, NewFrameOK DEF F
    <2>7. CASE In(d) = {} /\ Goes(s, Back(s, stack, {}))
      <3> DEFINE f == F({})
                 t == Append(stack, f)
      <3>1. {} \in Chosen(In(d), Len(stack))
        BY <2>7, NoneIsChosen
      <3>2. /\ StackGoes(t, FoundIn(stack), opened2) /\ StackOK(t) /\ t # <<>> /\ Last(t) = f
            /\ f.found = {} /\ f.cur = None /\ f.dir = d /\ f.todo = {}
        <4> HIDE DEF F, opened2
        <4> QED BY <2>6, <3>1
      <3> HIDE DEF f
      <3>3. Front(t) = stack
        <4>1. f \in Frame
          BY <3>2, Pop
        <4> QED BY <2>3, <4>1, FrontOfPush
      <3> HIDE DEF t
      <3>4. /\ StackGoes(stack, FoundIn(stack) \cup {}, opened2) /\ d \in opened2
            /\ Seen(d, FoundIn(stack) \cup {}, opened2) = {}
        <4>1. Last(t).todo = {} /\ Last(t).cur = None /\ Last(t).found = {} /\ Last(t).dir = d
          BY <3>2
        <4>2. FoundIn(stack) \cup {} = FoundIn(stack)
          OBVIOUS
        <4> HIDE DEF opened2, stack, d
        <4> QED BY <3>2, <3>3, <4>1, <4>2, PopGoes
      <3>5. IsWhole(Back(s, stack, {}))
        <4> HIDE DEF opened2
        <4> QED BY <1>1, <2>3, <2>5, <3>4, BackWhole
      <3> QED BY <2>7, <3>5 DEF Keeps
    <2>8. ASSUME NEW chosen \in Chosen(In(d), Depth(s)), Goes(s, Opens(s, In(d), chosen))
          PROVE  Keeps(s)
      <3> DEFINE f == F(chosen)
                 t == Append(stack, f)
                 g == Opens(s, In(d), chosen)
      <3>1. g.at = "loop" /\ g.stack = t
        BY <1>1 DEF Opens, Depth, Goroutine, NewFrame
      <3>2. chosen \in Chosen(In(d), Len(stack))
        BY DEF Depth
      <3>3. /\ StackGoes(t, FoundIn(stack), opened2) /\ Last(t) = f /\ f.cur = None
            /\ FoundIn(t) = FoundIn(stack)
        <4> HIDE DEF F, opened2
        <4> QED BY <2>6, <3>2
      <3>4. Goes(s, g)
        BY <2>8
      <3> HIDE DEF f, t, g, opened2
      <3>5. AllFound(g) = FoundIn(stack)
        BY <3>1, <3>3, AllFoundIs
      <3>6. Whole(g, AllFound(g), opened2)
        BY <3>1, <3>3, <3>5 DEF Whole
      <3> QED BY <2>5, <3>4, <3>6 DEF Keeps, IsWhole
    <2> QED BY <2>4, <2>7, <2>8
  <1> QED BY <1>2, <1>3

\* After an entry, with a frame h that goes on in the place of the one on top.
LEMMA AfterEntryKeeps ==
    ASSUME NEW s \in Scan, Going(s), scan[s].stack # <<>>, NEW found, NEW opened \in SUBSET Dir,
           StackGoes(scan[s].stack, found, opened),
           NEW x \in Path, x \in EntrySet(Top(s).dir), NEW found2,
           Adds(Top(s).dir, x, found, opened, found2, opened),
           NEW h \in Frame, h.dir = Top(s).dir, h.cur = None, FrameGoes(h, found2, opened),
           found2 = FoundIn(Front(scan[s].stack)) \cup h.found, ~Limited(s),
           Goes(s, AfterEntry(s, h))
    PROVE  Keeps(s)
  <1> DEFINE stack == scan[s].stack
             t == Append(Front(stack), h)
             g == AfterEntry(s, h)
  <1>1. scan[s] \in Goroutine /\ StackOK(stack)
    BY DEF Going, ScanTypes, ScansOK, ScanOK
  <1>2. StackOK(Front(stack)) /\ Front(stack) \in Seq(Frame)
    BY <1>1, Pop DEF StackOK
  <1>3. StackGoes(t, found2, opened)
    BY <1>1, TopGoes DEF Top
  <1>4. g.at = "loop" /\ g.stack = t
    BY <1>1 DEF AfterEntry, Goroutine
  <1>5. FoundIn(t) = found2
    BY <1>2, Pushed
  <1>6. Last(t) = h
    BY <1>2, AppendProperties DEF Last
  <1>7. Goes(s, g)
    OBVIOUS
  <1> HIDE DEF g, t
  <1>8. AllFound(g) = found2
    BY <1>4, <1>5, AllFoundIs
  <1>9. Whole(g, AllFound(g), opened)
    BY <1>3, <1>4, <1>6, <1>8 DEF Whole
  <1> QED BY <1>7, <1>9 DEF Keeps, IsWhole

\* The frame on top of a scan that goes on.
LEMMA TopIs ==
    ASSUME NEW s \in Scan, Going(s), scan[s].at \in {"loop", "merge"}
    PROVE  /\ scan[s] \in Goroutine /\ StackOK(scan[s].stack) /\ scan[s].stack # <<>>
           /\ Top(s) = Last(scan[s].stack) /\ Top(s) \in Frame /\ FrameOK(Top(s))
           /\ Top(s).dir \in Dir /\ Top(s).dir \in Path /\ StackOK(Front(scan[s].stack))
           /\ FoundIn(scan[s].stack) = FoundIn(Front(scan[s].stack)) \cup Top(s).found
           /\ \A found, opened : StackGoes(scan[s].stack, found, opened) =>
                /\ FrameGoes(Top(s), found, opened)
                /\ Top(s).dir \notin EntrySet(Top(s).dir)
                /\ found \subseteq Path /\ opened \subseteq Dir
  <1> DEFINE stack == scan[s].stack
  <1>1. scan[s] \in Goroutine /\ StackOK(stack) /\ stack # <<>>
    BY DEF Going, ScanTypes, ScansOK, ScanOK
  <1>2. /\ Top(s) = Last(stack) /\ Top(s) = stack[Len(stack)] /\ Len(stack) \in Nat \ {0}
        /\ Top(s) \in Frame /\ FrameOK(Top(s)) /\ StackOK(Front(stack))
    BY <1>1, Pop DEF Top, Last
  <1>3. Top(s).dir \in Dir /\ Top(s).dir \in Path
    BY <1>2, ScannerConstants DEF Frame
  <1>4. FoundIn(stack) = FoundIn(Front(stack)) \cup Top(s).found
    BY <1>1, <1>2, Tops
  <1>5. ASSUME NEW found, NEW opened, StackGoes(stack, found, opened)
        PROVE  /\ FrameGoes(Top(s), found, opened) /\ Top(s).dir \notin EntrySet(Top(s).dir)
               /\ found \subseteq Path /\ opened \subseteq Dir
    <2>1. Len(stack) \in 1 .. Len(stack)
      BY <1>2
    <2>2. FrameGoes(stack[Len(stack)], found, opened)
      BY <1>5, <2>1 DEF StackGoes
    <2>3. Top(s).dir \notin EntrySet(Top(s).dir)
      BY <1>3, BelowIs
    <2> QED BY <1>2, <1>5, <2>2, <2>3 DEF StackGoes
  <1> QED BY <1>1, <1>2, <1>3, <1>4, <1>5

LEMMA MergeKeeps == ASSUME NEW s \in Scan, Going(s), Merge(s) PROVE Keeps(s)
  <1> DEFINE stack == scan[s].stack
             back == scan[s].back
             f == Top(s)
             results == IF back = {} THEN {f.cur} ELSE back
             h == [f EXCEPT !.cur = None, !.found = @ \cup results]
  <1>1. scan[s].at = "merge" /\ Goes(s, AfterEntry(s, h)) /\ ScanOK(scan[s])
    BY DEF Merge, At, Going, ScanTypes, ScansOK
  <1>2. /\ scan[s] \in Goroutine /\ StackOK(stack) /\ stack # <<>> /\ f = Last(stack)
        /\ f \in Frame /\ FrameOK(f) /\ f.dir \in Dir
        /\ FoundIn(stack) = FoundIn(Front(stack)) \cup f.found
    BY <1>1, TopIs
  <1>3. /\ f.cur \in Dir /\ f.cur \in EntrySet(f.dir) /\ f.cur \in Path /\ f.cur # None
        /\ back \subseteq Path
    <2>1. f.cur \in Dir /\ back \subseteq Path
      BY <1>1, <1>2 DEF ScanOK, Goroutine
    <2>2. f.cur # None /\ f.cur \in Path
      BY <2>1, ScannerConstants
    <2> QED BY <1>2, <2>1, <2>2 DEF FrameOK
  <1>4. results \subseteq Path /\ results # {}
    BY <1>3
  <1>5. /\ h \in Frame /\ h.dir = f.dir /\ h.depth = f.depth /\ h.todo = f.todo /\ h.cur = None
        /\ h.found = f.found \cup results /\ h.items = f.items
    <2> HIDE DEF results
    <2> QED BY <1>2, <1>4 DEF Frame
  <1>6. CASE Limited(s)
    <2>1. s \in late
      BY <1>6 DEF Limited, Going
    <2>2. Goes(s, [Back(s, Front(stack), h.found) EXCEPT !.timedOut = TimedOut(s)])
      BY <1>1, <1>6 DEF AfterEntry
    <2> HIDE DEF h
    <2> QED BY <1>2, <2>1, <2>2, BackLate
  <1>7. CASE ~Limited(s)
    <2>1. IsWhole(scan[s])
      BY <1>7 DEF Going, Cut, Limited
    <2>2. PICK opened \in SUBSET Dir : Whole(scan[s], AllFound(scan[s]), opened)
      BY <2>1 DEF IsWhole
    <2> DEFINE found == FoundIn(stack) \cup back
               found2 == FoundIn(Front(stack)) \cup h.found
               d == f.dir
               c == f.cur
    <2>3. /\ StackGoes(stack, found, opened)
          /\ c \in opened <=> c \notin Unreadable
          /\ back = {} <=> c \notin opened \/ Seen(c, found, opened) = {}
      <3>1. AllFound(scan[s]) = found
        BY <1>1, AllFoundIs
      <3> QED BY <1>1, <1>2, <2>2, <3>1 DEF Whole
    <2>4. /\ FrameGoes(f, found, opened) /\ d \notin EntrySet(d)
          /\ found \subseteq Path /\ opened \subseteq Dir
      BY <1>1, <2>3, TopIs
    <2>5. found2 = IF back = {} THEN found \cup {c} ELSE found
      <3> HIDE DEF h
      <3> QED BY <1>2, <1>5
    <2> HIDE DEF h, found2, found, results
    <2>6. Adds(d, c, found, opened, found2, opened)
      <3>1. \A e \in Dir : c \in EntrySet(e) => e = d
        BY <1>2, <1>3, DiskIsTree DEF EntrySet
      <3> QED BY <2>5, <3>1 DEF Adds
    <2>7. c # d /\ c \notin found /\ c \in found2 \cup opened
      <3>1. c # d /\ c \notin found
        BY <1>3, <2>4 DEF FrameGoes
      <3> QED BY <2>3, <2>5, <3>1
    <2>8. Past(h, found2, opened) = Past(f, found, opened) \cup {c}
      <3>1. None \notin Seen(d, found2, opened)
        BY <1>2, Entries, ScannerConstants DEF Seen, EntrySet
      <3>2. Past(h, found2, opened) = Seen(d, found2, opened)
        BY <1>5, <3>1 DEF Past
      <3>3. Seen(d, found2, opened) = (Seen(d, found, opened) \ {c}) \cup {c}
        BY <1>3, <2>5, <2>7 DEF Seen, EntrySet
      <3> QED BY <3>2, <3>3 DEF Past
    <2>9. ASSUME NEW p \in Past(f, found, opened) PROVE Judged(d, p, found2, opened)
      <3>1. p # c /\ p # d
        BY <2>4 DEF Past, Seen, EntrySet
      <3>2. Judged(d, p, found, opened)
        BY <2>4 DEF FrameGoes
      <3> QED BY <2>4, <2>6, <3>1, <3>2, JudgedElsewhere
    <2>10. Judged(d, c, found2, opened)
      <3>1. c \in opened <=> IsOpened(d, c)
        BY <1>3, <2>3, <2>4 DEF FrameGoes, IsOpened
      <3>2. Seen(c, found2, opened) = Seen(c, found, opened)
        BY <1>3, <2>6, <2>7, SeenElsewhere
      <3>3. c \in found2 <=> back = {}
        BY <2>5, <2>7
      <3> QED BY <2>3, <3>1, <3>2, <3>3 DEF Judged
    <2>11. FrameGoes(h, found2, opened)
      <3>1. Ahead(h) = f.todo /\ Ahead(f) = f.todo \cup {c}
        BY <1>3, <1>5 DEF Ahead
      <3>2. Past(h, found2, opened) \cup Ahead(h) = Past(f, found, opened) \cup Ahead(f)
        BY <2>8, <3>1
      <3>3. h.todo \cap (found2 \cup opened) = {}
        BY <1>2, <1>5, <2>4, <2>5 DEF FrameGoes, FrameOK
      <3>4. h.cur \notin found2
        BY <1>3, <1>5, <2>4, <2>5, ScannerConstants
      <3>5. h.found # {} /\ Past(h, found2, opened) # {}
        BY <1>4, <1>5, <2>8
      <3>6. \A p \in Past(h, found2, opened) : Judged(d, p, found2, opened)
        BY <2>8, <2>9, <2>10
      <3> HIDE DEF f
      <3> QED BY <1>5, <2>4, <3>2, <3>3, <3>4, <3>5, <3>6 DEF FrameGoes
    <2>12. found2 = FoundIn(Front(stack)) \cup h.found
      BY DEF found2
    <2>13. Goes(s, AfterEntry(s, h))
      BY <1>1 DEF h, results
    <2> QED BY <1>2, <1>3, <1>5, <1>7, <2>3, <2>6, <2>11, <2>12, <2>13, AfterEntryKeeps
  <1> QED BY <1>6, <1>7

\* A directory with nothing ahead is returned.
LEMMA ReturnKeeps ==
    ASSUME NEW s \in Scan, Going(s), At(s, "loop"), Top(s).todo = {},
           Goes(s, Back(s, Front(scan[s].stack), Top(s).found))
    PROVE  Keeps(s)
  <1> DEFINE stack == scan[s].stack
             t == Front(stack)
             f == Top(s)
  <1>1. scan[s].at = "loop"
    BY DEF At
  <1>2. /\ scan[s] \in Goroutine /\ StackOK(stack) /\ stack # <<>> /\ f = Last(stack)
        /\ FoundIn(stack) = FoundIn(t) \cup f.found
    BY <1>1, TopIs
  <1>3. CASE Cut(s, scan[s])
    <2>1. s \in late /\ f.found = {}
      BY <1>1, <1>2, <1>3 DEF Cut
    <2> QED BY <1>2, <2>1, BackCut DEF Keeps
  <1>4. CASE IsWhole(scan[s])
    <2>1. PICK opened \in SUBSET Dir : Whole(scan[s], AllFound(scan[s]), opened)
      BY <1>4 DEF IsWhole
    <2> DEFINE found == FoundIn(t) \cup f.found
    <2>2. StackGoes(stack, found, opened) /\ f.cur = None
      <3>1. AllFound(scan[s]) = found
        BY <1>1, <1>2, AllFoundIs
      <3> QED BY <1>1, <1>2, <2>1, <3>1 DEF Whole
    <2> HIDE DEF found
    <2>3. /\ StackGoes(t, found, opened) /\ f.dir \in opened
          /\ f.found = {} <=> Seen(f.dir, found, opened) = {}
          /\ t = <<>> => f.dir = Root
      BY <1>2, <2>2, PopGoes
    <2>4. t # <<>> => Last(t).cur = f.dir
      BY <1>2, Pop
    <2>5. opened \cap (Skipped \cup Unreadable) = {}
      BY <2>3 DEF StackGoes
    <2> HIDE DEF t, f
    <2>6. IsWhole(Back(s, t, f.found))
      BY <1>2, <2>3, <2>4, <2>5, BackWhole DEF found
    <2> QED BY <2>6 DEF Keeps, t, f
  <1> QED BY <1>3, <1>4 DEF Going

\* A directory is opened.
LEMMA OpenKeeps ==
    ASSUME NEW s \in Scan, Going(s), At(s, "loop"), NEW p \in Top(s).todo,
           ShouldRecurse(p, Top(s).items, Top(s).depth),
           Goes(s, OpenEntry(s, [Top(s) EXCEPT !.todo = @ \ {p}], p))
    PROVE  Keeps(s)
  <1> DEFINE stack == scan[s].stack
             f == Top(s)
             b == [f EXCEPT !.todo = @ \ {p}]
             h == [b EXCEPT !.cur = p]
             t == Append(Front(stack), h)
             g == OpenEntry(s, b, p)
  <1>1. scan[s].at = "loop"
    BY DEF At
  <1>2. /\ scan[s] \in Goroutine /\ StackOK(stack) /\ stack # <<>> /\ f = Last(stack)
        /\ f \in Frame /\ FrameOK(f) /\ f.dir \in Dir /\ StackOK(Front(stack))
        /\ FoundIn(stack) = FoundIn(Front(stack)) \cup f.found
    BY <1>1, TopIs
  <1>3. p \in EntrySet(f.dir) /\ p \in Path /\ p # None
    BY <1>2, ScannerConstants DEF FrameOK, Frame
  <1>4. /\ h \in Frame /\ h.dir = f.dir /\ h.depth = f.depth /\ h.todo = f.todo \ {p}
        /\ h.items = f.items /\ h.cur = p /\ h.found = f.found
    <2>1. /\ b \in Frame /\ b.dir = f.dir /\ b.depth = f.depth /\ b.todo = f.todo \ {p}
          /\ b.items = f.items /\ b.found = f.found
      BY <1>2 DEF Frame
    <2> HIDE DEF b
    <2> QED BY <1>3, <2>1 DEF Frame
  <1>5. g.at = "enter" /\ g.dir = p /\ g.stack = t /\ Goes(s, g)
    BY <1>2 DEF OpenEntry, Goroutine
  <1> HIDE DEF g, h
  <1>6. t # <<>>
    <2>1. Front(stack) \in Seq(Frame)
      BY <1>2 DEF StackOK
    <2> QED BY <1>4, <2>1, AppendProperties
  <1>7. CASE Cut(s, scan[s])
    <2>1. Cut(s, g)
      BY <1>1, <1>5, <1>7 DEF Cut
    <2> QED BY <1>5, <2>1 DEF Keeps
  <1>8. CASE IsWhole(scan[s])
    <2>1. PICK opened \in SUBSET Dir : Whole(scan[s], AllFound(scan[s]), opened)
      BY <1>8 DEF IsWhole
    <2> DEFINE found == FoundIn(stack)
    <2>2. StackGoes(stack, found, opened) /\ f.cur = None
      BY <1>1, <1>2, <2>1, AllFoundIs DEF Whole
    <2>3. FrameGoes(f, found, opened) /\ found \subseteq Path /\ opened \subseteq Dir
      BY <1>1, <2>2, TopIs
    <2> HIDE DEF found
    <2>4. p \notin found \cup opened
      BY <2>3 DEF FrameGoes
    <2>5. Past(h, found, opened) = Past(f, found, opened) /\ Ahead(h) = Ahead(f)
      <3>1. None \notin found \cup opened
        BY <2>3, ScannerConstants
      <3> QED BY <1>3, <1>4, <2>2, <2>4, <3>1 DEF Past, Ahead, Seen
    <2>6. FrameGoes(h, found, opened)
      <3>1. ShouldRecurse(h.cur, h.items, h.depth)
        BY <1>4
      <3>2. h.todo \cap (found \cup opened) = {} /\ h.cur \notin found
        BY <1>4, <2>3, <2>4 DEF FrameGoes
      <3> HIDE DEF f
      <3> QED BY <1>4, <2>3, <2>5, <3>1, <3>2 DEF FrameGoes
    <2>7. Adds(f.dir, p, found, opened, found, opened)
      BY <1>2, <1>3, DiskIsTree DEF Adds, EntrySet
    <2>8. StackGoes(t, found, opened)
      BY <1>2, <1>3, <1>4, <2>2, <2>6, <2>7, TopGoes
    <2>9. AllFound(g) = found
      <3>1. FoundIn(t) = FoundIn(Front(stack)) \cup h.found
        BY <1>2, Pushed
      <3>2. AllFound(g) = FoundIn(t)
        BY <1>5, AllFoundIs
      <3> QED BY <1>2, <1>4, <3>1, <3>2 DEF found
    <2> HIDE DEF t
    <2>10. Whole(g, AllFound(g), opened)
      BY <1>5, <1>6, <2>4, <2>8, <2>9 DEF Whole
    <2> QED BY <1>5, <2>10 DEF Keeps, IsWhole
  <1> QED BY <1>7, <1>8 DEF Going

\* An entry is a result.
LEMMA ResultKeeps ==
    ASSUME NEW s \in Scan, Going(s), At(s, "loop"), NEW p \in Top(s).todo,
           ~ShouldRecurse(p, Top(s).items, Top(s).depth),
           Goes(s, AfterEntry(s, [[Top(s) EXCEPT !.todo = @ \ {p}] EXCEPT !.found = @ \cup {p}]))
    PROVE  Keeps(s)
  <1> DEFINE stack == scan[s].stack
             f == Top(s)
             d == f.dir
             b == [f EXCEPT !.todo = @ \ {p}]
             h == [b EXCEPT !.found = @ \cup {p}]
  <1>1. scan[s].at = "loop"
    BY DEF At
  <1>2. /\ scan[s] \in Goroutine /\ StackOK(stack) /\ stack # <<>> /\ f = Last(stack)
        /\ f \in Frame /\ FrameOK(f) /\ d \in Dir /\ StackOK(Front(stack))
        /\ FoundIn(stack) = FoundIn(Front(stack)) \cup f.found
    BY <1>1, TopIs
  <1>3. p \in EntrySet(d) /\ p \in Path /\ p # None
    BY <1>2, ScannerConstants DEF FrameOK, Frame
  <1>4. /\ h \in Frame /\ h.dir = d /\ h.depth = f.depth /\ h.todo = f.todo \ {p}
        /\ h.items = f.items /\ h.cur = f.cur /\ h.found = f.found \cup {p}
    <2>1. /\ b \in Frame /\ b.dir = f.dir /\ b.depth = f.depth /\ b.todo = f.todo \ {p}
          /\ b.items = f.items /\ b.found = f.found /\ b.cur = f.cur
      BY <1>2 DEF Frame
    <2> HIDE DEF b
    <2> QED BY <1>3, <2>1 DEF Frame
  <1>5. Goes(s, AfterEntry(s, h))
    OBVIOUS
  <1> HIDE DEF h
  <1>6. CASE Limited(s)
    <2>1. s \in late
      BY <1>6 DEF Limited, Going
    <2>2. Goes(s, [Back(s, Front(stack), h.found) EXCEPT !.timedOut = TimedOut(s)])
      BY <1>5, <1>6 DEF AfterEntry
    <2> QED BY <1>2, <2>1, <2>2, BackLate
  <1>7. CASE ~Limited(s)
    <2>1. IsWhole(scan[s])
      BY <1>7 DEF Going, Cut, Limited
    <2>2. PICK opened \in SUBSET Dir : Whole(scan[s], AllFound(scan[s]), opened)
      BY <2>1 DEF IsWhole
    <2> DEFINE found == FoundIn(stack)
               found2 == FoundIn(Front(stack)) \cup h.found
    <2>3. StackGoes(stack, found, opened) /\ f.cur = None
      BY <1>1, <1>2, <2>2, AllFoundIs DEF Whole
    <2>4. /\ FrameGoes(f, found, opened) /\ d \notin EntrySet(d)
          /\ found \subseteq Path /\ opened \subseteq Dir
      BY <1>1, <2>3, TopIs
    <2>5. found2 = found \cup {p}
      BY <1>2, <1>4
    <2> HIDE DEF found, found2
    <2>6. p \notin found \cup opened
      BY <2>4 DEF FrameGoes
    <2>7. Adds(d, p, found, opened, found2, opened)
      BY <1>2, <1>3, <2>5, DiskIsTree DEF Adds, EntrySet
    <2>8. Past(h, found2, opened) = Past(f, found, opened) \cup {p}
      <3>1. Seen(d, found2, opened) = Seen(d, found, opened) \cup {p}
        BY <1>3, <2>5 DEF Seen, EntrySet
      <3> QED BY <1>3, <1>4, <2>3, <3>1 DEF Past
    <2>9. ASSUME NEW q \in Past(f, found, opened) PROVE Judged(d, q, found2, opened)
      <3>1. q # p /\ q # d
        BY <2>4, <2>6 DEF Past, Seen, EntrySet
      <3>2. Judged(d, q, found, opened)
        BY <2>4 DEF FrameGoes
      <3> QED BY <2>4, <2>7, <3>1, <3>2, JudgedElsewhere
    <2>10. Judged(d, p, found2, opened)
      <3>1. ~IsOpened(d, p)
        BY <2>4 DEF FrameGoes, IsOpened
      <3> QED BY <2>5, <2>6, <3>1 DEF Judged
    <2>11. FrameGoes(h, found2, opened)
      <3>1. Past(h, found2, opened) \cup Ahead(h) = Past(f, found, opened) \cup Ahead(f)
        BY <1>4, <2>3, <2>8 DEF Ahead
      <3>2. h.todo \cap (found2 \cup opened) = {}
        BY <1>4, <2>4, <2>5 DEF FrameGoes
      <3>3. h.cur = None /\ h.cur \notin found2
        BY <1>3, <1>4, <2>3, <2>4, <2>5, ScannerConstants
      <3>4. h.found # {} /\ Past(h, found2, opened) # {}
        BY <1>4, <2>8
      <3>5. \A q \in Past(h, found2, opened) : Judged(d, q, found2, opened)
        BY <2>8, <2>9, <2>10
      <3> HIDE DEF f
      <3> QED BY <1>4, <2>4, <3>1, <3>2, <3>3, <3>4, <3>5 DEF FrameGoes
    <2>12. found2 = FoundIn(Front(stack)) \cup h.found /\ h.cur = None
      BY <1>4, <2>3 DEF found2
    <2> QED BY <1>2, <1>3, <1>4, <1>5, <1>7, <2>3, <2>7, <2>11, <2>12, AfterEntryKeeps
  <1> QED BY <1>6, <1>7

LEMMA LoopKeeps == ASSUME NEW s \in Scan, Going(s), Loop(s) PROVE Keeps(s)
  <1>1. At(s, "loop")
    BY DEF Loop
  <1>2. CASE Top(s).todo = {} /\ Goes(s, Back(s, Front(scan[s].stack), Top(s).found))
    BY <1>1, <1>2, ReturnKeeps
  <1>3. ASSUME NEW p \in Biggest(Top(s).todo), ShouldRecurse(p, Top(s).items, Top(s).depth),
               Goes(s, OpenEntry(s, [Top(s) EXCEPT !.todo = @ \ {p}], p))
        PROVE  Keeps(s)
    BY <1>1, <1>3, OpenKeeps DEF Biggest
  <1>4. ASSUME NEW p \in Biggest(Top(s).todo), ~ShouldRecurse(p, Top(s).items, Top(s).depth),
               Goes(s, AfterEntry(s, [[Top(s) EXCEPT !.todo = @ \ {p}] EXCEPT !.found = @ \cup {p}]))
        PROVE  Keeps(s)
    BY <1>1, <1>4, ResultKeeps DEF Biggest
  <1> QED BY <1>2, <1>3, <1>4 DEF Loop

-----------------------------------------------------------------------------
(* All scans.                                                               *)

LEMMA BackTimedOut ==
    ASSUME NEW s \in Scan, scan[s] \in Goroutine, NEW stack, NEW results
    PROVE  /\ Back(s, stack, results).timedOut = scan[s].timedOut
           /\ [Back(s, stack, results) EXCEPT !.timedOut = TimedOut(s)].timedOut = TimedOut(s)
  BY DEF Back, Goroutine

\* A scan that has met the deadline does not forget it.
LEMMA StaysTimedOut ==
    ASSUME NEW s \in Scan, ScanTypes, scan[s].timedOut, Work(s)
    PROVE  scan'[s].timedOut
  <1>1. scan[s] \in Goroutine /\ scan \in [Scan -> Goroutine]
    BY DEF ScanTypes
  <1> SUFFICES \E g : Goes(s, g) /\ g.timedOut
    BY <1>1 DEF Goes
  <1>2. ASSUME NEW stack, NEW results,
               \/ Goes(s, Back(s, stack, results))
               \/ Goes(s, [Back(s, stack, results) EXCEPT !.timedOut = TimedOut(s)])
        PROVE  \E g : Goes(s, g) /\ g.timedOut
    <2> DEFINE b == Back(s, stack, results)
               c == [b EXCEPT !.timedOut = TimedOut(s)]
    <2>1. b.timedOut /\ c.timedOut
      BY <1>1, BackTimedOut DEF TimedOut
    <2>2. Goes(s, b) \/ Goes(s, c)
      BY <1>2
    <2> HIDE DEF b, c
    <2> QED BY <2>1, <2>2
  <1>3. CASE Start(s)
    <2> DEFINE g == [scan[s] EXCEPT !.at = "enter"]
    <2>1. Goes(s, g) /\ g.timedOut
      BY <1>1, <1>3 DEF Start, Goroutine
    <2> QED BY <2>1
  <1>4. CASE Enter(s)
    <2>1. CASE Goes(s, [scan[s] EXCEPT !.at = "list"])
      <3> DEFINE g == [scan[s] EXCEPT !.at = "list"]
      <3>1. Goes(s, g) /\ g.timedOut
        BY <1>1, <2>1 DEF Goroutine
      <3> QED BY <3>1
    <2> QED BY <1>2, <1>4, <2>1 DEF Enter
  <1>5. CASE List(s)
    <2>1. ASSUME NEW items, NEW chosen, Goes(s, Opens(s, items, chosen))
          PROVE  \E g : Goes(s, g) /\ g.timedOut
      <3>1. Opens(s, items, chosen).timedOut
        BY <1>1 DEF Opens, Goroutine
      <3> QED BY <2>1, <3>1
    <2>2. \/ Goes(s, Back(s, scan[s].stack, {}))
          \/ \E items, chosen : Goes(s, Opens(s, items, chosen))
      BY <1>5 DEF List
    <2> QED BY <1>2, <2>1, <2>2
  <1>6. ASSUME NEW f, Goes(s, AfterEntry(s, f)) PROVE \E g : Goes(s, g) /\ g.timedOut
    <2>1. CASE Limited(s)
      BY <1>2, <1>6, <2>1 DEF AfterEntry
    <2>2. CASE ~Limited(s)
      <3>1. AfterEntry(s, f).timedOut
        BY <1>1, <2>2 DEF AfterEntry, Goroutine
      <3> QED BY <1>6, <3>1
    <2> QED BY <2>1, <2>2
  <1>7. CASE Loop(s)
    <2>1. ASSUME NEW f, NEW p, Goes(s, OpenEntry(s, f, p)) PROVE \E g : Goes(s, g) /\ g.timedOut
      <3>1. OpenEntry(s, f, p).timedOut
        BY <1>1 DEF OpenEntry, Goroutine
      <3> QED BY <2>1, <3>1
    <2>2. \/ \E stack, results : Goes(s, Back(s, stack, results))
          \/ \E f, p : Goes(s, OpenEntry(s, f, p))
          \/ \E f : Goes(s, AfterEntry(s, f))
      BY <1>7 DEF Loop
    <2> QED BY <1>2, <1>6, <2>1, <2>2
  <1>8. CASE Merge(s)
    BY <1>6, <1>8 DEF Merge
  <1>9. CASE Finish(s)
    <2>1. PICK top : Goes(s, [scan[s] EXCEPT !.at = "done", !.out = top, !.back = {}])
      BY <1>9 DEF Finish
    <2>2. [scan[s] EXCEPT !.at = "done", !.out = top, !.back = {}].timedOut
      BY <1>1 DEF Goroutine
    <2> QED BY <2>1, <2>2
  <1> QED BY <1>3, <1>4, <1>5, <1>7, <1>8, <1>9 DEF Work

LEMMA WholeInit == Init => WholeInv
  <1> SUFFICES ASSUME Init, NEW s \in Scan PROVE WholeInv
    BY DEF Init, WholeInv
  <1>1. \A r \in Scan : scan[r] = Waiting
    BY DEF Init
  <1>2. Waiting.at = "idle" /\ Waiting.stack = <<>> /\ Waiting.dir = Root
    BY DEF Waiting
  <1>3. AllFound(Waiting) = {}
    BY <1>2, AllFoundIs, NoFrames
  <1>4. StackGoes(<<>>, {}, {})
    BY NoFrames DEF StackGoes
  <1>5. Whole(Waiting, {}, {})
    BY <1>2, <1>4 DEF Whole
  <1>6. IsWhole(Waiting)
    BY <1>3, <1>5 DEF IsWhole
  <1> QED BY <1>1, <1>6 DEF Init, WholeInv

LEMMA WholeStep == DiskInv /\ WholeInv /\ [Next]_vars => WholeInv'
  <1> SUFFICES ASSUME DiskInv, WholeInv, [Next]_vars PROVE WholeInv'
    OBVIOUS
  <1>1. ScanTypes /\ LateInv /\ FlagsInv
    BY DEF DiskInv
  <1>2. ASSUME NEW r \in Scan, scan'[r] = scan[r], r \in late => r \in late', r \in short => r \in short'
        PROVE  r \notin short' /\ ~scan'[r].timedOut => Cut(r, scan[r])' \/ IsWhole(scan[r])'
    <2>1. ASSUME NEW g, g = scan[r]
          PROVE  r \notin short' /\ ~g.timedOut => (r \in late' /\ Cut(r, g)) \/ IsWhole(g)
      BY <1>2, <2>1 DEF WholeInv, Cut
    <2> QED BY <1>2, <2>1 DEF Cut, IsWhole, Whole
  <1>3. ASSUME UNCHANGED scan, late \subseteq late', short \subseteq short',
               \A r \in Scan : exceeded' /\ Runs(r) => r \in short'
        PROVE  WholeInv'
    BY <1>2, <1>3 DEF WholeInv, Runs
  <1>4. ASSUME NEW s \in Scan, Work(s) PROVE WholeInv'
    <2>1. /\ Moved(s) /\ UNCHANGED <<late, heavy, everHeavy>> /\ scan' \in [Scan -> Goroutine]
      BY <1>1, <1>4, WorkMoves
    <2>2. /\ exceeded' = exceeded /\ short \subseteq short'
          /\ exceeded => s \in short'
      <3>1. CASE Start(s)
        BY <3>1 DEF Start
      <3>2. CASE ~Start(s)
        <4>1. exceeded' = exceeded /\ short' = short /\ Runs(s)
          BY <1>4, <3>2 DEF Work, Enter, List, Loop, Merge, Finish, monitor, At, Runs
        <4> QED BY <4>1 DEF WholeInv
      <3> QED BY <3>1, <3>2
    <2>3. \A r \in Scan \ {s} : scan'[r] = scan[r]
      BY <2>1 DEF Moved
    <2>4. ASSUME s \notin short', ~scan'[s].timedOut PROVE Cut(s, scan[s])' \/ IsWhole(scan[s])'
      <3>1. ~scan[s].timedOut
        BY <1>1, <1>4, <2>4, StaysTimedOut
      <3>2. Going(s)
        BY <1>1, <2>2, <2>4, <3>1 DEF WholeInv, Going
      <3>3. Keeps(s)
        BY <1>4, <3>2, StartKeeps, EnterKeeps, ListKeeps, LoopKeeps, MergeKeeps, FinishKeeps
        DEF Work
      <3>4. PICK g : Goes(s, g) /\ (g.timedOut \/ Cut(s, g) \/ IsWhole(g))
        BY <3>3 DEF Keeps
      <3>5. scan'[s] = g
        BY <1>1, <3>4 DEF Goes, ScanTypes
      <3>6. Cut(s, g) \/ IsWhole(g)
        BY <2>4, <3>4, <3>5
      <3> QED BY <2>1, <3>5, <3>6 DEF Cut
    <2>5. ASSUME NEW r \in Scan, exceeded', Runs(r)' PROVE r \in short'
      BY <2>2, <2>3, <2>5 DEF WholeInv, Runs
    <2> QED BY <1>2, <2>1, <2>2, <2>3, <2>4, <2>5 DEF WholeInv
  <1>5. ASSUME NEW s \in Scan, Deadline(s) PROVE WholeInv'
    <2>1. UNCHANGED <<scan, short, exceeded>> /\ late' = late \cup {s}
      BY <1>5 DEF Deadline, monitor
    <2> QED BY <1>3, <2>1 DEF WholeInv
  <1>6. CASE CheckMemoryUsage
    <2>1. /\ UNCHANGED <<scan, late>> /\ exceeded' = heavy
          /\ short' = IF heavy THEN short \cup {s \in Scan : Runs(s)} ELSE short
      BY <1>6 DEF CheckMemoryUsage
    <2> QED BY <1>3, <2>1 DEF WholeInv
  <1>7. CASE WatchEnds
    <2>1. UNCHANGED <<scan, late, exceeded, short>>
      BY <1>7 DEF WatchEnds
    <2> QED BY <1>3, <2>1 DEF WholeInv
  <1>8. CASE MemoryChanges
    <2>1. UNCHANGED <<scan, late, exceeded, short>>
      BY <1>8 DEF MemoryChanges, monitor
    <2> QED BY <1>3, <2>1 DEF WholeInv
  <1>9. CASE UNCHANGED vars
    <2>1. UNCHANGED <<scan, late, exceeded, short>>
      BY <1>9 DEF vars, monitor
    <2> QED BY <1>3, <2>1 DEF WholeInv
  <1> QED BY <1>4, <1>5, <1>6, <1>7, <1>8, <1>9 DEF Next

\* On every disk, with any depths and sizes, a scan that never met a limit, or
\* found something and reports no timeout, found what a search without limits of
\* time and memory finds: of the directories with at most MaxFiles entries that
\* are not skipped nothing is forgotten (of a wider one, nothing among the first
\* MaxFiles), opened too much or reported beside its content, however many scans
\* share the monitor, unless memoryExceeded was set while it ran.
THEOREM WholeScans == Spec => []ScanIsComplete
  <1>1. DiskInv /\ WholeInv => ScanIsComplete
    <2> SUFFICES ASSUME WholeInv, NEW s \in Scan, scan[s].at \in {"finish", "done"},
                        ~scan[s].timedOut, s \notin short, scan[s].found # {}
                 PROVE  Complete(scan[s].found)
      BY DEF ScanIsComplete
    <2>1. IsWhole(scan[s])
      BY DEF WholeInv, Cut
    <2>2. AllFound(scan[s]) = scan[s].found
      BY AllFoundIs
    <2>3. PICK opened \in SUBSET Dir : Whole(scan[s], scan[s].found, opened)
      BY <2>1, <2>2 DEF IsWhole
    <2>4. /\ StackGoes(<<>>, scan[s].found, opened)
          /\ Root \in opened <=> Root \notin Skipped \cup Unreadable
      BY <2>3 DEF Whole
    <2> QED BY <2>4, NoFrames DEF StackGoes, EntrySet, Complete
  <1>2. Init => DiskInv /\ WholeInv
    BY DiskInit, WholeInit
  <1>3. DiskInv /\ WholeInv /\ [Next]_vars => (DiskInv /\ WholeInv)'
    BY DiskStep, WholeStep
  <1> QED BY <1>1, <1>2, <1>3, PTL DEF Spec
================================================================================
