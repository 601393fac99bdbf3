------------------------------- MODULE Hybrid -------------------------------
(***************************************************************************)
(* The streamed segment tree that reports overlaps of boxes (src/hyb.c).   *)
(*                                                                         *)
(* Two arrays hold pointers to the same boxes, once as intervals and once  *)
(* as points.  stream works in place: it reorders a range of each array    *)
(* and recurses into subranges, or scans them.  Compiled with OpenMP, a    *)
(* scan is a task which copies its ranges when it starts to run, while the *)
(* thread that spawned it goes on reordering the arrays.                   *)
(*                                                                         *)
(* A box is its sgp address, a number; Scenes are the extents tried.       *)
(***************************************************************************)
EXTENDS Integers, Sequences, FiniteSets

CONSTANTS
    Boxes,      \* sgp of the boxes
    Dim,        \* the highest dimension; hybrid passes 2
    Scenes,     \* functions of boxes to [lo, hi : 0 .. Dim -> 1 .. Far - 1]
    Far,        \* DBL_MAX; 0 is -DBL_MAX
    Builds,     \* [cutoff, omp]: CUTOFF, 1024 in the code; compiled with OpenMP
    AnyOrder    \* where the order of pointers does not matter: any, or as before

ASSUME HybridAssumption ==
    /\ Boxes \subseteq Nat /\ IsFiniteSet(Boxes) /\ Dim \in Nat /\ Far \in Nat
    /\ Builds \subseteq [cutoff : Nat, omp : BOOLEAN]
    /\ AnyOrder \in BOOLEAN
    /\ \A s \in Scenes : \A b \in Boxes :
          /\ s[b].lo \in [0 .. Dim -> 1 .. Far - 1] /\ s[b].hi \in [0 .. Dim -> 1 .. Far - 1]
          /\ \A n \in 0 .. Dim : s[b].lo[n] < s[b].hi[n]

VARIABLES
    build,      \* the build that runs
    ext,        \* extents of the boxes
    mem,        \* the arrays "boxes" and "copy"
    calls,      \* the stack of stream, the running call last
    tasks,      \* scans started so far, with what they have copied
    reported    \* <<task, one, two>>, for each call of create

vars == <<build, ext, mem, calls, tasks, reported>>

lo(b, n) == ext[b].lo[n]
hi(b, n) == ext[b].hi[n]

(* [b, e) of an array *)
Slice(a, b, e) == [arr |-> a, b |-> b, e |-> e]
Size(g) == g.e - g.b
Content(g) == {mem[g.arr][k] : k \in g.b .. g.e - 1}

Call(I, P, low, high, d) ==
    [I |-> I, P |-> P, lo |-> low, hi |-> high, d |-> d, pc |-> "enter", mi |-> 0, Pm |-> 0]

IndexSet == 1 .. Cardinality(Boxes)
Whole(a) == Slice(a, 1, Cardinality(Boxes) + 1)

Init ==
    /\ build \in Builds
    /\ ext \in Scenes
    /\ \E order \in [IndexSet -> Boxes] :
        /\ \A j, k \in IndexSet : j < k => order[j] < order[k]
        /\ mem = [boxes |-> order, copy |-> order]
    /\ calls = <<Call(Whole("boxes"), Whole("copy"), 0, Far, Dim)>>
    /\ tasks = <<>>
    /\ reported = {}

-----------------------------------------------------------------------------
(* PLT in dimension 0: equal extents are ordered by address *)
PLT(a, b) == lo(a, 0) < lo(b, 0) \/ (lo(a, 0) = lo(b, 0) /\ a < b)

(* Mutant: boxes that touch in a plane do not meet. *)
MeetStrict(a, b, d) == \A n \in 1 .. d : lo(a, n) < hi(b, n) /\ lo(b, n) < hi(a, n)

(* the check of the dimensions 1 .. d: closed intervals *)
Meet(a, b, d) == \A n \in 1 .. d : lo(a, n) <= hi(b, n) /\ lo(b, n) <= hi(a, n)

(* onewayscan: the points of P that begin within an interval of I *)
OneWay(I, P, d) ==
    {x \in I \X P : /\ x[1] # x[2] /\ ~ PLT(x[2], x[1])
                    /\ lo(x[2], 0) < hi(x[1], 0) /\ Meet(x[1], x[2], d)}

(* twowayscan: whichever begins first is the interval *)
TwoWay(I, P, d) ==
    {x \in (I \X P) \cup (P \X I) :
        /\ PLT(x[1], x[2]) /\ lo(x[2], 0) < hi(x[1], 0) /\ Meet(x[1], x[2], d)}

ScanOf(I, P, d) == IF d = 0 THEN OneWay(I, P, d) ELSE TwoWay(I, P, d)

(* The arrays that a becomes when pointers at K are exchanged until those at F
   are the ones at M.  Their order means nothing to the callers. *)
Exchanged(a, K, F, M) ==
    LET Orders == {p \in [K -> K] :
            /\ \A k \in K : k \in M <=> p[k] \in F
            /\ \A k \in K : \E j \in K : p[j] = k
            /\ AnyOrder \/ \A j, k \in K : j < k /\ (j \in M <=> k \in M) => p[j] < p[k]}
    IN  {[k \in IndexSet |-> a[IF k \in K THEN p[k] ELSE k]] : p \in Orders}

(* lo_hi_inside, split and overlaps exchange pointers of a range until those
   of a set S stand first, and return where the others begin *)
Members(g, S) == {k \in g.b .. g.e - 1 : mem[g.arr][k] \in S}
First(g, S) == Slice(g.arr, g.b, g.b + Cardinality(Members(g, S)))
Sifted(g, S) ==
    UNION {Exchanged(a, K, F, M) : a \in {mem[g.arr]}, K \in {g.b .. g.e - 1},
                                   F \in {Members(g, S)}, M \in {g.b .. First(g, S).e - 1}}

-----------------------------------------------------------------------------
Top == calls[Len(calls)]
Below == SubSeq(calls, 1, Len(calls) - 1)

IsEmpty(c) == Size(c.I) <= 0 \/ Size(c.P) <= 0
IsLeaf(c) == c.d = 0 \/ Size(c.I) < build.cutoff \/ Size(c.P) < build.cutoff

Return ==
    /\ calls # <<>> /\ Top.pc = "enter" /\ IsEmpty(Top)
    /\ calls' = Below
    /\ UNCHANGED <<build, ext, mem, tasks, reported>>

(* the scan of a leaf: done at once, its ranges sorted in place, or left to a
   task that holds pointers and sorts what it copies *)
Leaf ==
    /\ calls # <<>> /\ Top.pc = "enter" /\ ~ IsEmpty(Top) /\ IsLeaf(Top)
    /\ calls' = Below
    /\ tasks' = Append(tasks, [I |-> Top.I, P |-> Top.P, d |-> Top.d, copied |-> {},
                               pc |-> IF build.omp THEN "new" ELSE "done"])
    /\ \/ build.omp /\ UNCHANGED <<mem, reported>>
       \/ /\ ~ build.omp
          /\ \E P \in Sifted(Top.P, Boxes), I \in Sifted(Top.I, Boxes) :
                mem' = [mem EXCEPT ![Top.P.arr] = P, ![Top.I.arr] = I]
          /\ reported' = reported \cup {<<Len(tasks) + 1, x[1], x[2]>> :
                x \in ScanOf(Content(Top.I), Content(Top.P), Top.d)}
    /\ UNCHANGED <<build, ext>>

(* intervals that contain [lo, hi) go down a dimension, in both roles *)
Inside ==
    /\ calls # <<>> /\ Top.pc = "enter" /\ ~ IsEmpty(Top) /\ ~ IsLeaf(Top)
    /\ LET c == Top
           S == {b \in Boxes : lo(b, c.d) <= c.lo /\ hi(b, c.d) >= c.hi}
           Im == First(c.I, S)
       IN  /\ \E I \in Sifted(c.I, S) : mem' = [mem EXCEPT ![c.I.arr] = I]
           /\ calls' = Below \o <<[c EXCEPT !.pc = "lower"],
                                  Call(c.P, Im, 0, Far, c.d - 1),
                                  Call(Im, c.P, 0, Far, c.d - 1)>>
    /\ UNCHANGED <<build, ext, tasks, reported>>

(* the half of the points below the median, and the intervals that reach it;
   median may return any of the points *)
Lower ==
    /\ calls # <<>> /\ Top.pc = "lower"
    /\ \E p \in Content(Top.P) :
        LET c == Top
            mi == lo(p, c.d)
            Lesser == {b \in Boxes : lo(b, c.d) < mi}
            Reach == {b \in Boxes : ~ (lo(b, c.d) >= mi \/ hi(b, c.d) < c.lo)}
            Pm == First(c.P, Lesser)
            Im == First(c.I, Reach)
        IN  /\ \E P \in Sifted(c.P, Lesser), I \in Sifted(c.I, Reach) :
                mem' = [mem EXCEPT ![c.P.arr] = P, ![c.I.arr] = I]
            /\ calls' = Below \o <<[c EXCEPT !.pc = "upper", !.mi = mi, !.Pm = Pm.e],
                  IF Im # c.I \/ Pm # c.P THEN Call(Im, Pm, c.lo, mi, c.d)
                  ELSE Call(Im, Pm, 0, Far, c.d - 1)>>
    /\ UNCHANGED <<build, ext, tasks, reported>>

(* Mutant: an interval that ends at the median does not reach the upper half. *)
UpperClosed ==
    /\ calls # <<>> /\ Top.pc = "upper"
    /\ LET c == Top
           Reach == {b \in Boxes : ~ (lo(b, c.d) >= c.hi \/ hi(b, c.d) <= c.mi)}
           Pm == Slice(c.P.arr, c.Pm, c.P.e)
           Im == First(c.I, Reach)
       IN  /\ \E I \in Sifted(c.I, Reach) : mem' = [mem EXCEPT ![c.I.arr] = I]
           /\ calls' = Append(Below,
                  IF Im # c.I \/ Pm # c.P THEN Call(Im, Pm, c.mi, c.hi, c.d)
                  ELSE Call(Im, Pm, 0, Far, c.d - 1))
    /\ UNCHANGED <<build, ext, tasks, reported>>

(* Mutant: the dimension is kept although nothing has been split off. *)
UpperSameDimension ==
    /\ calls # <<>> /\ Top.pc = "upper"
    /\ LET c == Top
           Reach == {b \in Boxes : ~ (lo(b, c.d) >= c.hi \/ hi(b, c.d) < c.mi)}
           Pm == Slice(c.P.arr, c.Pm, c.P.e)
           Im == First(c.I, Reach)
       IN  /\ \E I \in Sifted(c.I, Reach) : mem' = [mem EXCEPT ![c.I.arr] = I]
           /\ calls' = Append(Below,
                  IF Im # c.I \/ Pm # c.P THEN Call(Im, Pm, c.mi, c.hi, c.d)
                  ELSE Call(Im, Pm, 0, Far, c.d))
    /\ UNCHANGED <<build, ext, tasks, reported>>

(* the half of the points from the median on *)
Upper ==
    /\ calls # <<>> /\ Top.pc = "upper"
    /\ LET c == Top
           Reach == {b \in Boxes : ~ (lo(b, c.d) >= c.hi \/ hi(b, c.d) < c.mi)}
           Pm == Slice(c.P.arr, c.Pm, c.P.e)
           Im == First(c.I, Reach)
       IN  /\ \E I \in Sifted(c.I, Reach) : mem' = [mem EXCEPT ![c.I.arr] = I]
           /\ calls' = Append(Below,
                  IF Im # c.I \/ Pm # c.P THEN Call(Im, Pm, c.mi, c.hi, c.d)
                  ELSE Call(Im, Pm, 0, Far, c.d - 1))
    /\ UNCHANGED <<build, ext, tasks, reported>>

(* a task copies the intervals, then the points, and scans the copies *)
CopyIntervals(t) ==
    /\ tasks[t].pc = "new"
    /\ tasks' = [tasks EXCEPT ![t].pc = "copied", ![t].copied = Content(tasks[t].I)]
    /\ UNCHANGED <<build, ext, mem, calls, reported>>

CopyPointsAndScan(t) ==
    /\ tasks[t].pc = "copied"
    /\ tasks' = [tasks EXCEPT ![t].pc = "done"]
    /\ reported' = reported \cup {<<t, x[1], x[2]>> :
          x \in ScanOf(tasks[t].copied, Content(tasks[t].P), tasks[t].d)}
    /\ UNCHANGED <<build, ext, mem, calls>>

Next ==
    \/ Return \/ Leaf \/ Inside \/ Lower \/ Upper
    \/ \E t \in DOMAIN tasks : CopyIntervals(t) \/ CopyPointsAndScan(t)

Spec == Init /\ [][Next]_vars /\ WF_vars(Next)

-----------------------------------------------------------------------------
Finished == calls = <<>> /\ \A t \in DOMAIN tasks : tasks[t].pc = "done"

(* boxes that intersect by more than a common face of dimension 0 *)
Overlap(a, b) ==
    /\ a # b
    /\ \A n \in 0 .. Dim : lo(a, n) <= hi(b, n) /\ lo(b, n) <= hi(a, n)
    /\ lo(a, 0) # hi(b, 0) /\ lo(b, 0) # hi(a, 0)

(* "report overlaps between n boxes" (hyb.h): when the recursion has returned
   and its tasks have ended, every overlap has been reported. *)
Complete == Finished =>
    \A a, b \in Boxes : Overlap(a, b) => \E r \in reported : {r[2], r[3]} = {a, b}

(* Below the cutoff it is so, and no more than the overlaps is reported, in
   whatever dimension boxes touch: the scan of dimension 0 is half-open, the
   tests of the others are closed, and a task reports what a call would. *)
ScanExact == Cardinality(Boxes) < build.cutoff /\ Finished =>
    \A a, b \in Boxes : Overlap(a, b) <=> \E r \in reported : {r[2], r[3]} = {a, b}

(* What the recursion does keep with every split, whatever median it picks: an
   overlap of two boxes is reported if the lower corner of one is in the other,
   in all dimensions and for boxes that only touch at a face. *)
Stabbed == Finished =>
    \A a, b \in Boxes :
        /\ Overlap(a, b) /\ PLT(a, b) /\ \A n \in 1 .. Dim : lo(a, n) <= lo(b, n)
        => \E r \in reported : {r[2], r[3]} = {a, b}

(* The recursion ends, also where all points share a coordinate and a split
   leaves both ranges as they are. *)
Termination == <>Finished
=============================================================================
