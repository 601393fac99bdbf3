---------------------------- MODULE HybridProofs ----------------------------
(***************************************************************************)
(* Proofs about Hybrid, for any boxes, cutoff, choice of medians and order *)
(* in which pointers are exchanged.                                        *)
(*                                                                         *)
(* A pair of boxes that is to be reported is with a call that has not      *)
(* returned, or with a task (Caught).  Calls work in place, on parts of    *)
(* ranges that their callers go on with afterwards: the ranges of a call   *)
(* lie in what its callers have lent it (Stacked), so those find the boxes *)
(* they have left, in another order.                                       *)
(***************************************************************************)
EXTENDS Hybrid, FiniteSetTheorems, SequenceTheorems, TLAPS

-----------------------------------------------------------------------------
Arrays == {"boxes", "copy"}
Count == Cardinality(Boxes)
Slices == [arr : Arrays, b : 1 .. Count + 1, e : 1 .. Count + 1]
Frames == [I : Slices, P : Slices, lo : Int, hi : Int, d : 0 .. Dim,
           pc : {"enter", "lower", "upper"}, mi : Int, Pm : Int]
Tasks == [I : Slices, P : Slices, d : 0 .. Dim, copied : SUBSET Boxes,
          pc : {"new", "copied", "done"}]
Memory == [Arrays -> [IndexSet -> Boxes]]

Typed ==
    /\ build \in Builds /\ ext \in Scenes
    /\ mem \in Memory
    /\ calls \in Seq(Frames) /\ tasks \in Seq(Tasks)

(* The points a call has not handled, or not passed on, yet. *)
Points(c) == IF c.pc = "upper" THEN Slice(c.P.arr, c.Pm, c.P.e) ELSE c.P

(* The ranges that the calls above it may reorder. *)
Lent(c) == {c.I, IF c.pc = "upper" THEN Slice(c.P.arr, c.P.b, c.Pm) ELSE c.P}

Within(g, h) == g.arr = h.arr /\ h.b <= g.b /\ g.e <= h.e
Apart(g, h) == g.arr # h.arr \/ g.e <= h.b \/ h.e <= g.b

Framed(c) ==
    /\ c.I.b <= c.I.e /\ c.P.b <= c.P.e /\ c.I.arr # c.P.arr
    /\ c.pc # "enter" => c.d > 0
    /\ c.pc = "upper" => c.Pm \in c.P.b .. c.P.e

Lends(c, f) == \A g \in {f.I, f.P} : \E h \in Lent(c) : Within(g, h)

Stacked == \A i, j \in DOMAIN calls : i < j => Lends(calls[i], calls[j])

(* The points of a call begin in its part of the axis. *)
Bounded(c) ==
    \A b \in Content(Points(c)) :
        (IF c.pc = "upper" THEN c.mi ELSE c.lo) <= lo(b, c.d) /\ lo(b, c.d) < c.hi

(* Pairs of which the lower corner of one is in the other, and who has them. *)
Stab(a, b) == Overlap(a, b) /\ PLT(a, b) /\ \A n \in 1 .. Dim : lo(a, n) <= lo(b, n)
Told(a, b) == \E r \in reported : {r[2], r[3]} = {a, b}
Covered(c, a, b) == a \in Content(c.I) /\ b \in Content(Points(c))
Pending(t, a, b) ==
    \/ t.pc = "new" /\ a \in Content(t.I) /\ b \in Content(t.P)
    \/ t.pc = "copied" /\ a \in t.copied /\ b \in Content(t.P)

Caught ==
    \A a, b \in Boxes : Stab(a, b) =>
        \/ Told(a, b)
        \/ \E i \in DOMAIN calls : Covered(calls[i], a, b)
        \/ \E t \in DOMAIN tasks : Pending(tasks[t], a, b)

(* Tasks are left to others with OpenMP only. *)
Serial ==
    IF build.omp THEN \A i \in DOMAIN calls : calls[i].pc = "enter"
    ELSE \A t \in DOMAIN tasks : tasks[t].pc = "done"

Each == \A i \in DOMAIN calls : Framed(calls[i]) /\ Bounded(calls[i])

(* The inductive invariant. *)
IInv == Typed /\ Each /\ Stacked /\ Serial /\ Caught

(* With OpenMP, no more boxes than one task scans; see README for why. *)
SmallTasks == \A b \in Builds : b.omp => Count < b.cutoff

-----------------------------------------------------------------------------
(* The number of boxes. *)
LEMMA Counting == Count \in Nat /\ IndexSet = 1 .. Count /\ IsFiniteSet(IndexSet)
<1> USE HybridAssumption
<1>1. Count \in Nat
  BY FS_CardinalityType DEF Count
<1>2. IsFiniteSet(1 .. Count)
  BY <1>1, FS_Interval
<1> QED
  BY <1>1, <1>2 DEF IndexSet, Count

(* Where boxes begin and end. *)
LEMMA Extents ==
    ASSUME ext \in Scenes, NEW b \in Boxes, NEW n \in 0 .. Dim
    PROVE  /\ lo(b, n) \in Int /\ hi(b, n) \in Int
           /\ 0 < lo(b, n) /\ lo(b, n) < hi(b, n) /\ hi(b, n) < Far
           /\ Far \in Int /\ b \in Int
<1>1. /\ ext[b].lo \in [0 .. Dim -> 1 .. Far - 1] /\ ext[b].hi \in [0 .. Dim -> 1 .. Far - 1]
      /\ \A k \in 0 .. Dim : ext[b].lo[k] < ext[b].hi[k]
  BY HybridAssumption
<1>2. ext[b].lo[n] \in 1 .. Far - 1 /\ ext[b].hi[n] \in 1 .. Far - 1 /\ ext[b].lo[n] < ext[b].hi[n]
  BY <1>1
<1>3. Boxes \subseteq Nat /\ Far \in Nat
  BY HybridAssumption
<1>4. b \in Int /\ Far \in Int
  BY <1>3
<1>5. /\ ext[b].lo[n] \in Int /\ ext[b].hi[n] \in Int /\ 0 < ext[b].lo[n] /\ ext[b].hi[n] < Far
      /\ ext[b].lo[n] < ext[b].hi[n]
  BY <1>2, <1>4
<1> QED
  BY <1>4, <1>5 DEF lo, hi

-----------------------------------------------------------------------------
(* What stands in a range of an array. *)
At(a, g) == {a[k] : k \in g.b .. g.e - 1}

(* The array a becomes f: in the range g, what is in S stands before p. *)
Parted(a, f, g, S, p) ==
    /\ f \in [IndexSet -> Boxes]
    /\ p \in g.b .. g.e
    /\ \A k \in IndexSet : k \notin g.b .. g.e - 1 => f[k] = a[k]
    /\ \A k \in g.b .. g.e - 1 : f[k] \in S <=> k < p
    /\ At(f, g) = At(a, g)

(* An exchange moves the members of S of a range to its front. *)
LEMMA SiftParts ==
    ASSUME Typed, NEW g \in Slices, g.b <= g.e, NEW S, NEW f \in Sifted(g, S)
    PROVE  /\ Parted(mem[g.arr], f, g, S, First(g, S).e)
           /\ First(g, S) = Slice(g.arr, g.b, First(g, S).e)
           /\ First(g, S) \in Slices
<1> DEFINE a == mem[g.arr]
<1> DEFINE K == g.b .. g.e - 1
<1> DEFINE F == Members(g, S)
<1> DEFINE p == First(g, S).e
<1>1. /\ a \in [IndexSet -> Boxes] /\ K \subseteq IndexSet /\ Count \in Nat
      /\ g.b \in 1 .. Count + 1 /\ g.e \in 1 .. Count + 1 /\ g.arr \in Arrays
  BY Counting DEF Typed, Memory, Slices
<1>2. /\ IsFiniteSet(K) /\ Cardinality(K) = g.e - g.b
  <2>1. g.b \in Int /\ g.e - 1 \in Int /\ g.e \in Int
    BY <1>1
  <2>2. IsFiniteSet(K) /\ Cardinality(K) = IF g.b > g.e - 1 THEN 0 ELSE (g.e - 1) - g.b + 1
    BY <2>1, FS_Interval
  <2> QED
    BY <2>1, <2>2
<1>3. /\ F \subseteq K /\ \A k \in K : k \in F <=> a[k] \in S
  BY DEF Members
<1>4. Cardinality(F) \in Nat /\ Cardinality(F) <= g.e - g.b
  <2> HIDE DEF F, K
  <2> QED
    BY <1>2, <1>3, FS_Subset, FS_CardinalityType
<1>5. /\ p = g.b + Cardinality(F) /\ p \in g.b .. g.e
      /\ First(g, S) = Slice(g.arr, g.b, p)
  <2>1. p = g.b + Cardinality(F) /\ First(g, S) = Slice(g.arr, g.b, p)
    BY DEF First, Slice
  <2> HIDE DEF p, F
  <2> QED
    BY <2>1, <1>1, <1>4
<1>6. PICK q \in [K -> K] :
          /\ \A k \in K : k \in g.b .. p - 1 <=> q[k] \in F
          /\ \A k \in K : \E j \in K : q[j] = k
          /\ f = [k \in IndexSet |-> a[IF k \in K THEN q[k] ELSE k]]
  <2> DEFINE M == g.b .. p - 1
  <2>1. f \in Exchanged(a, K, F, M)
    BY DEF Sifted
  <2> HIDE DEF a, K, F, M
  <2>2. \E q \in [K -> K] :
          /\ \A k \in K : k \in M <=> q[k] \in F
          /\ \A k \in K : \E j \in K : q[j] = k
          /\ f = [k \in IndexSet |-> a[IF k \in K THEN q[k] ELSE k]]
    <3> DEFINE Q == {q \in [K -> K] :
            /\ \A k \in K : k \in M <=> q[k] \in F
            /\ \A k \in K : \E j \in K : q[j] = k
            /\ AnyOrder \/ \A j, k \in K : j < k /\ (j \in M <=> k \in M) => q[j] < q[k]}
    <3>1. f \in {[k \in IndexSet |-> a[IF k \in K THEN q[k] ELSE k]] : q \in Q}
      BY <2>1 DEF Exchanged
    <3>2. \A q \in Q : /\ q \in [K -> K] /\ \A k \in K : k \in M <=> q[k] \in F
                      /\ \A k \in K : \E j \in K : q[j] = k
      OBVIOUS
    <3> HIDE DEF Q
    <3>3. PICK q \in Q : f = [k \in IndexSet |-> a[IF k \in K THEN q[k] ELSE k]]
      BY <3>1
    <3> QED
      BY <3>2, <3>3
  <2> QED
    BY <2>2 DEF M
<1> HIDE DEF a, K, F, p
<1>7. \A k \in IndexSet : f[k] = IF k \in K THEN a[q[k]] ELSE a[k]
  BY <1>6
<1>8. f \in [IndexSet -> Boxes]
  BY <1>1, <1>6
<1>9. \A k \in K : f[k] \in S <=> k < p
  <2>1. TAKE k \in K
  <2>2. k < p <=> k \in g.b .. p - 1
    BY <1>1, <1>5 DEF K
  <2>3. f[k] = a[q[k]] /\ q[k] \in K
    BY <1>1, <1>6, <1>7
  <2> QED
    BY <2>2, <2>3, <1>3, <1>6
<1>10. {f[k] : k \in K} = {a[k] : k \in K}
  <2>1. \A k \in K : f[k] = a[q[k]] /\ q[k] \in K
    BY <1>1, <1>6, <1>7
  <2>2. \A k \in K : \E j \in K : a[k] = f[j]
    BY <2>1, <1>6
  <2> QED
    BY <2>1, <2>2
<1>11. First(g, S) \in Slices
  BY <1>1, <1>5 DEF Slice, Slices
<1> QED
  BY <1>5, <1>7, <1>8, <1>9, <1>10, <1>11 DEF Parted, At, K, a, p

(* Ranges that hold g or nothing of it keep what stands in them; the parts of
   g have the members of S and the others. *)
LEMMA PartedKeeps ==
    ASSUME NEW a, NEW f, NEW S, NEW p, NEW g \in Slices, Parted(a, f, g, S, p)
    PROVE  /\ \A h \in Slices : h.arr = g.arr /\ (Within(g, h) \/ Apart(g, h)) => At(f, h) = At(a, h)
           /\ At(f, Slice(g.arr, g.b, p)) = At(a, g) \cap S
           /\ At(f, Slice(g.arr, p, g.e)) = At(a, g) \ S
<1> USE Counting
<1> DEFINE K == g.b .. g.e - 1
<1>1. /\ p \in g.b .. g.e /\ g.b \in 1 .. Count + 1 /\ g.e \in 1 .. Count + 1
      /\ \A k \in IndexSet : k \notin K => f[k] = a[k]
      /\ \A k \in K : f[k] \in S <=> k < p
      /\ At(f, g) = At(a, g)
  BY DEF Parted, Slices
<1>2. {f[k] : k \in K} = {a[k] : k \in K}
  BY <1>1 DEF At
<1>3. ASSUME NEW h \in Slices, h.arr = g.arr, Within(g, h) \/ Apart(g, h)
      PROVE  At(f, h) = At(a, h)
  <2> DEFINE H == h.b .. h.e - 1
  <2>1. H \subseteq IndexSet
    BY DEF Slices
  <2>2. K \subseteq H \/ K \cap H = {}
    BY <1>3, <1>1 DEF Within, Apart, Slices
  <2> HIDE DEF K, H
  <2>3. {f[k] : k \in H} = {a[k] : k \in H}
    <3>1. CASE K \cap H = {}
      <4>1. \A k \in H : f[k] = a[k]
        BY <3>1, <1>1, <2>1
      <4> QED
        BY <4>1
    <3>2. CASE K \subseteq H
      <4>1. ASSUME NEW k \in H PROVE (\E j \in H : a[j] = f[k]) /\ (\E j \in H : f[j] = a[k])
        <5>1. CASE k \in K
          <6>1. f[k] \in {a[j] : j \in K} /\ a[k] \in {f[j] : j \in K}
            BY <1>2, <5>1
          <6> QED
            BY <6>1, <3>2
        <5>2. CASE k \notin K
          BY <5>2, <1>1, <2>1
        <5> QED
          BY <5>1, <5>2
      <4> QED
        BY <4>1
    <3> QED
      BY <2>2, <3>1, <3>2
  <2> QED
    BY <2>3 DEF At, H
<1>4. At(f, Slice(g.arr, g.b, p)) = {f[k] : k \in K} \cap S
  <2>1. \A k : k \in g.b .. p - 1 <=> k \in K /\ k < p
    BY <1>1
  <2> HIDE DEF K
  <2> QED
    BY <2>1, <1>1 DEF At, Slice
<1>5. At(f, Slice(g.arr, p, g.e)) = {f[k] : k \in K} \ S
  <2>1. \A k : k \in p .. g.e - 1 <=> k \in K /\ ~ (k < p)
    BY <1>1
  <2> HIDE DEF K
  <2> QED
    BY <2>1, <1>1 DEF At, Slice
<1> QED
  BY <1>2, <1>3, <1>4, <1>5 DEF At

-----------------------------------------------------------------------------
(* The stack below the running call. *)
LEMMA Standing ==
    ASSUME Typed, calls # <<>>
    PROVE  /\ Len(calls) \in Nat \ {0} /\ DOMAIN calls = 1 .. Len(calls)
           /\ Top \in Frames /\ \A i \in DOMAIN calls : calls[i] \in Frames
           /\ Below \in Seq(Frames) /\ Len(Below) = Len(calls) - 1
           /\ \A i \in 1 .. Len(calls) - 1 : Below[i] = calls[i]
<1> DEFINE n == Len(calls)
<1>1. /\ calls \in Seq(Frames) /\ n \in Nat \ {0} /\ DOMAIN calls = 1 .. n
      /\ calls \in [1 .. n -> Frames]
  BY EmptySeq, LenProperties DEF Typed
<1>2. /\ Below \in Seq(Frames) /\ Len(Below) = n - 1
      /\ \A i \in 1 .. n - 1 : Below[i] = calls[i]
  <2>1. /\ Below = SubSeq(calls, 1, n - 1)
        /\ \A i \in 1 .. n - 1 : calls[i] \in Frames
    BY <1>1 DEF Below
  <2>2. /\ Below \in Seq(Frames)
        /\ Len(Below) = IF 1 <= n - 1 THEN (n - 1) - 1 + 1 ELSE 0
        /\ \A i \in 1 .. (n - 1) - 1 + 1 : Below[i] = calls[1 + i - 1]
    <3> HIDE DEF n
    <3>1. 1 \in Int /\ n - 1 \in Int
      BY <1>1
    <3> QED
      BY <3>1, <2>1, SubSeqProperties
  <2> HIDE DEF n
  <2>3. \A i \in 1 .. n - 1 : i \in 1 .. (n - 1) - 1 + 1 /\ 1 + i - 1 = i
    BY <1>1
  <2>4. Len(Below) = n - 1
    BY <1>1, <2>2
  <2> QED
    BY <2>2, <2>3, <2>4
<1>3. Top \in Frames /\ \A i \in DOMAIN calls : calls[i] \in Frames
  BY <1>1 DEF Top, n
<1> QED
  BY <1>1, <1>2, <1>3 DEF n

(* The stack, when the running call is replaced by others. *)
LEMMA Pushing ==
    ASSUME Typed, calls # <<>>, NEW new \in Seq(Frames), calls' = Below \o new
    PROVE  /\ Len(calls) \in Nat \ {0} /\ DOMAIN calls = 1 .. Len(calls)
           /\ Top \in Frames /\ \A i \in DOMAIN calls : calls[i] \in Frames
           /\ calls' \in Seq(Frames)
           /\ Len(new) \in Nat /\ DOMAIN calls' = 1 .. Len(calls) - 1 + Len(new)
           /\ \A i \in 1 .. Len(calls) - 1 : calls'[i] = calls[i]
           /\ \A j \in 1 .. Len(new) : calls'[Len(calls) - 1 + j] = new[j]
<1> DEFINE n == Len(calls)
<1>1. /\ calls \in Seq(Frames) /\ n \in Nat \ {0} /\ DOMAIN calls = 1 .. n
      /\ calls \in [1 .. n -> Frames] /\ Len(new) \in Nat
  BY EmptySeq, LenProperties DEF Typed
<1>2. /\ Below \in Seq(Frames) /\ Len(Below) = n - 1
      /\ \A i \in 1 .. n - 1 : Below[i] = calls[i]
  BY Standing
<1> HIDE DEF n
<1>3. /\ calls' \in Seq(Frames) /\ Len(calls') = n - 1 + Len(new)
      /\ \A i \in 1 .. n - 1 + Len(new) :
            calls'[i] = IF i <= n - 1 THEN Below[i] ELSE new[i - (n - 1)]
  <2>1. /\ Below \o new \in Seq(Frames) /\ Len(Below \o new) = Len(Below) + Len(new)
        /\ \A i \in 1 .. Len(Below) + Len(new) :
              (Below \o new)[i] = IF i <= Len(Below) THEN Below[i] ELSE new[i - Len(Below)]
    BY <1>2, ConcatProperties
  <2>2. Len(Below) = n - 1
    BY <1>2
  <2> QED
    BY <2>1, <2>2
<1>4. DOMAIN calls' = 1 .. n - 1 + Len(new)
  BY <1>3, LenProperties
<1>5. \A i \in 1 .. n - 1 : calls'[i] = calls[i]
  BY <1>1, <1>2, <1>3
<1>6. \A j \in 1 .. Len(new) : calls'[n - 1 + j] = new[j]
  <2>1. TAKE j \in 1 .. Len(new)
  <2>2. n - 1 + j \in 1 .. n - 1 + Len(new) /\ ~ (n - 1 + j <= n - 1) /\ (n - 1 + j) - (n - 1) = j
    BY <1>1
  <2> QED
    BY <2>2, <1>3
<1>7. Top \in Frames /\ \A i \in DOMAIN calls : calls[i] \in Frames
  BY <1>1 DEF Top, n
<1> QED
  BY <1>1, <1>3, <1>4, <1>5, <1>6, <1>7 DEF n

(* A range within a range within a third. *)
LEMMA WithinWithin ==
    ASSUME NEW f \in Slices, NEW g \in Slices, NEW h, h.b \in Int, h.e \in Int,
           Within(f, g), Within(g, h)
    PROVE  Within(f, h)
  BY Counting DEF Within, Slices

(* What a call lends, in integers. *)
LEMMA LentRanges ==
    ASSUME NEW c \in Frames, NEW h \in Lent(c)
    PROVE  h.b \in Int /\ h.e \in Int
  BY Counting DEF Lent, Frames, Slices, Slice

(* Replacing the running call by calls on parts of its ranges. *)
LEMMA StackGrows ==
    ASSUME Typed, Stacked, calls # <<>>, NEW new \in Seq(Frames), calls' = Below \o new,
           \A j \in 1 .. Len(new) : \A g \in {new[j].I, new[j].P} :
               \E h \in {Top.I, Top.P} : Within(g, h),
           \A i, j \in 1 .. Len(new) : i < j => Lends(new[i], new[j])
    PROVE  Stacked'
<1> DEFINE n == Len(calls)
<1>1. /\ n \in Nat \ {0} /\ DOMAIN calls = 1 .. n /\ Len(new) \in Nat
      /\ Top \in Frames /\ \A i \in 1 .. n : calls[i] \in Frames
      /\ DOMAIN calls' = 1 .. n - 1 + Len(new)
      /\ \A i \in 1 .. n - 1 : calls'[i] = calls[i]
      /\ \A j \in 1 .. Len(new) : calls'[n - 1 + j] = new[j] /\ new[j] \in Frames
  BY Pushing, ElementOfSeq
<1>2. SUFFICES ASSUME NEW i \in 1 .. n - 1 + Len(new), NEW j \in 1 .. n - 1 + Len(new), i < j
               PROVE  Lends(calls'[i], calls'[j])
  <2>1. Stacked' = \A i, j \in DOMAIN calls' : i < j => Lends(calls'[i], calls'[j])
    BY DEF Stacked, Lends, Lent, Within, Slice
  <2> QED
    BY <1>1, <2>1
<1> HIDE DEF n
<1>3. CASE j <= n - 1
  <2>1. i \in 1 .. n - 1 /\ j \in 1 .. n - 1 /\ i \in DOMAIN calls /\ j \in DOMAIN calls
    BY <1>1, <1>2, <1>3
  <2> QED
    BY <2>1, <1>1, <1>2 DEF Stacked
<1>4. CASE ~ (j <= n - 1) /\ i <= n - 1
  <2>1. PICK k \in 1 .. Len(new) : j = n - 1 + k
    <3>1. j - (n - 1) \in 1 .. Len(new) /\ j = n - 1 + (j - (n - 1))
      BY <1>1, <1>4
    <3> QED
      BY <3>1
  <2>2. i \in 1 .. n - 1 /\ i \in DOMAIN calls /\ n \in DOMAIN calls /\ i < n
    BY <1>1, <1>4
  <2>3. calls'[i] = calls[i] /\ calls'[j] = new[k] /\ new[k] \in Frames /\ calls[i] \in Frames
    BY <1>1, <2>1, <2>2
  <2>4. Lends(calls[i], Top)
    BY <2>2 DEF Stacked, Top, n
  <2>5. ASSUME NEW g \in {new[k].I, new[k].P} PROVE \E h \in Lent(calls[i]) : Within(g, h)
    <3>1. PICK h1 \in {Top.I, Top.P} : Within(g, h1)
      OBVIOUS
    <3>2. PICK h2 \in Lent(calls[i]) : Within(h1, h2)
      BY <2>4 DEF Lends
    <3>3. g \in Slices /\ h1 \in Slices
      BY <2>3, <1>1 DEF Frames
    <3>4. h2.b \in Int /\ h2.e \in Int
      BY <2>3, LentRanges
    <3>5. Within(g, h2)
      BY <3>1, <3>2, <3>3, <3>4, WithinWithin
    <3> QED
      BY <3>5
  <2> QED
    BY <2>3, <2>5 DEF Lends
<1>5. CASE ~ (i <= n - 1)
  <2>1. /\ i - (n - 1) \in 1 .. Len(new) /\ j - (n - 1) \in 1 .. Len(new)
        /\ i = n - 1 + (i - (n - 1)) /\ j = n - 1 + (j - (n - 1)) /\ i - (n - 1) < j - (n - 1)
    BY <1>1, <1>2, <1>5
  <2> QED
    BY <2>1, <1>1
<1> QED
  BY <1>1, <1>3, <1>4, <1>5

-----------------------------------------------------------------------------
(* A step leaves what the running call c does not own as it is, as far as it
   does not lie in the ranges of c, and as a set where it holds them. *)
Sparing(c) ==
    \A h \in Slices : (\A g \in {c.I, c.P} : Within(g, h) \/ Apart(g, h)) => Content(h)' = Content(h)

(* Content, by the array. *)
LEMMA ContentAt ==
    /\ \A g : Content(g) = At(mem[g.arr], g)
    /\ \A g : Content(g)' = At(mem'[g.arr], g)
  BY DEF Content, At

(* Ranges hold boxes. *)
LEMMA ContentBoxes ==
    ASSUME mem \in Memory, NEW g \in Slices
    PROVE  Content(g) \subseteq Boxes
<1>1. g.arr \in Arrays /\ g.b .. g.e - 1 \subseteq IndexSet
  <2>1. g.arr \in Arrays /\ g.b \in 1 .. Count + 1 /\ g.e \in 1 .. Count + 1
    BY DEF Slices
  <2> QED
    BY <2>1, Counting
<1>2. \A k \in IndexSet : mem[g.arr][k] \in Boxes
  BY <1>1 DEF Memory
<1> QED
  BY <1>1, <1>2 DEF Content

(* What an exchange in one array leaves. *)
LEMMA SiftFrame ==
    ASSUME Typed, NEW g \in Slices, g.b <= g.e, NEW S, NEW f \in Sifted(g, S),
           mem' = [mem EXCEPT ![g.arr] = f]
    PROVE  /\ mem' \in Memory /\ mem'[g.arr] \in Sifted(g, S)
           /\ \A x \in Arrays : x # g.arr => mem'[x] = mem[x]
<1>1. f \in [IndexSet -> Boxes]
  BY SiftParts DEF Parted
<1>2. mem \in Memory /\ g.arr \in Arrays
  BY DEF Typed, Slices
<1> QED
  BY <1>1, <1>2 DEF Memory

(* One range is sifted. *)
LEMMA SiftSpares ==
    ASSUME Typed, NEW g \in Slices, g.b <= g.e, NEW S,
           mem'[g.arr] \in Sifted(g, S),
           \A x \in Arrays : x # g.arr => mem'[x] = mem[x],
           NEW p, p = First(g, S).e
    PROVE  /\ \A h \in Slices : Within(g, h) \/ Apart(g, h) => Content(h)' = Content(h)
           /\ Content(Slice(g.arr, g.b, p))' = Content(g) \cap S
           /\ Content(Slice(g.arr, p, g.e))' = Content(g) \ S
           /\ p \in g.b .. g.e
<1>a. PICK f : f = mem'[g.arr]
  OBVIOUS
<1>1. Parted(mem[g.arr], f, g, S, p) /\ g.arr \in Arrays
  BY <1>a, SiftParts DEF Slices
<1>2. p \in g.b .. g.e
  BY <1>1 DEF Parted
<1>3. mem'[g.arr] = f /\ \A x \in Arrays : x # g.arr => mem'[x] = mem[x]
  BY <1>a
<1>4. \A h \in Slices : Within(g, h) \/ Apart(g, h) => At(mem'[h.arr], h) = At(mem[h.arr], h)
  <2>1. SUFFICES ASSUME NEW h \in Slices, Within(g, h) \/ Apart(g, h)
                 PROVE  At(mem'[h.arr], h) = At(mem[h.arr], h)
    OBVIOUS
  <2>2. CASE h.arr = g.arr
    BY <2>1, <2>2, <1>1, <1>3, PartedKeeps
  <2>3. CASE h.arr # g.arr
    <3>1. h.arr \in Arrays
      BY DEF Slices
    <3> QED
      BY <3>1, <2>3, <1>3
  <2> QED
    BY <2>2, <2>3
<1>5. /\ At(f, Slice(g.arr, g.b, p)) = At(mem[g.arr], g) \cap S
      /\ At(f, Slice(g.arr, p, g.e)) = At(mem[g.arr], g) \ S
  BY <1>1, PartedKeeps
<1>6. \A b, e : Slice(g.arr, b, e).arr = g.arr
  BY DEF Slice
<1> QED
  BY <1>2, <1>3, <1>4, <1>5, <1>6, ContentAt

(* One range of each array is sifted. *)
LEMMA SiftTwice ==
    ASSUME Typed, NEW g \in Slices, NEW S, NEW h \in Slices, NEW T,
           g.b <= g.e /\ h.b <= h.e /\ g.arr # h.arr,
           mem'[g.arr] \in Sifted(g, S), mem'[h.arr] \in Sifted(h, T),
           NEW p, p = First(g, S).e, NEW q, q = First(h, T).e
    PROVE  /\ \A x \in Slices : (\A y \in {g, h} : Within(y, x) \/ Apart(y, x)) => Content(x)' = Content(x)
           /\ Content(Slice(g.arr, g.b, p))' = Content(g) \cap S
           /\ Content(Slice(h.arr, h.b, q))' = Content(h) \cap T
           /\ Content(Slice(h.arr, q, h.e))' = Content(h) \ T
           /\ p \in g.b .. g.e /\ q \in h.b .. h.e
<1>a. PICK f : f = mem'[g.arr]
  OBVIOUS
<1>b. PICK k : k = mem'[h.arr]
  OBVIOUS
<1>1. /\ Parted(mem[g.arr], f, g, S, p) /\ g.arr \in Arrays /\ mem \in Memory
      /\ Parted(mem[h.arr], k, h, T, q) /\ h.arr \in Arrays
  BY <1>a, <1>b, SiftParts DEF Slices, Typed
<1>2. /\ f \in [IndexSet -> Boxes] /\ p \in g.b .. g.e
      /\ k \in [IndexSet -> Boxes] /\ q \in h.b .. h.e
  BY <1>1 DEF Parted
<1>3. /\ mem'[g.arr] = f /\ mem'[h.arr] = k
      /\ \A x \in Arrays : x = g.arr \/ x = h.arr
  BY <1>a, <1>b, <1>1, <1>2 DEF Arrays
<1>4. ASSUME NEW x \in Slices, \A y \in {g, h} : Within(y, x) \/ Apart(y, x)
      PROVE  At(mem'[x.arr], x) = At(mem[x.arr], x)
  <2>1. x.arr = g.arr \/ x.arr = h.arr
    BY <1>3 DEF Slices
  <2>2. CASE x.arr = g.arr
    BY <2>2, <1>1, <1>3, <1>4, PartedKeeps
  <2>3. CASE x.arr = h.arr
    BY <2>3, <1>1, <1>3, <1>4, PartedKeeps
  <2> QED
    BY <2>1, <2>2, <2>3
<1>5. /\ At(f, Slice(g.arr, g.b, p)) = At(mem[g.arr], g) \cap S
      /\ At(k, Slice(h.arr, h.b, q)) = At(mem[h.arr], h) \cap T
      /\ At(k, Slice(h.arr, q, h.e)) = At(mem[h.arr], h) \ T
  BY <1>1, PartedKeeps
<1>6. \A a, b, e : Slice(a, b, e).arr = a
  BY DEF Slice
<1>7. \A x \in Slices : (\A y \in {g, h} : Within(y, x) \/ Apart(y, x)) => Content(x)' = Content(x)
  BY <1>4, ContentAt
<1>8. Content(Slice(g.arr, g.b, p))' = Content(g) \cap S
  <2>1. \A s : s.arr = g.arr => Content(s)' = At(f, s)
    BY <1>3, ContentAt
  <2>2. \A s : Content(s) = At(mem[s.arr], s)
    BY ContentAt
  <2> QED
    BY <2>1, <2>2, <1>5, <1>6
<1>9. Content(Slice(h.arr, h.b, q))' = Content(h) \cap T
  <2>1. \A s : s.arr = h.arr => Content(s)' = At(k, s)
    BY <1>3, ContentAt
  <2>2. \A s : Content(s) = At(mem[s.arr], s)
    BY ContentAt
  <2> QED
    BY <2>1, <2>2, <1>5, <1>6
<1>10. Content(Slice(h.arr, q, h.e))' = Content(h) \ T
  <2>1. \A s : s.arr = h.arr => Content(s)' = At(k, s)
    BY <1>3, ContentAt
  <2>2. \A s : Content(s) = At(mem[s.arr], s)
    BY ContentAt
  <2> QED
    BY <2>1, <2>2, <1>5, <1>6
<1> QED
  BY <1>2, <1>3, <1>7, <1>8, <1>9, <1>10

(* What exchanges in both arrays leave. *)
LEMMA TwiceFrame ==
    ASSUME Typed, NEW g \in Slices, NEW S, NEW h \in Slices, NEW T,
           g.b <= g.e /\ h.b <= h.e /\ g.arr # h.arr,
           \E k \in Sifted(h, T), f \in Sifted(g, S) :
               mem' = [mem EXCEPT ![h.arr] = k, ![g.arr] = f]
    PROVE  mem' \in Memory /\ mem'[g.arr] \in Sifted(g, S) /\ mem'[h.arr] \in Sifted(h, T)
<1>1. PICK k \in Sifted(h, T), f \in Sifted(g, S) :
         mem' = [mem EXCEPT ![h.arr] = k, ![g.arr] = f]
  OBVIOUS
<1>2. f \in [IndexSet -> Boxes] /\ k \in [IndexSet -> Boxes]
  BY SiftParts DEF Parted
<1>3. mem \in Memory /\ g.arr \in Arrays /\ h.arr \in Arrays
  BY DEF Typed, Slices
<1>4. mem' \in Memory /\ mem'[g.arr] = f /\ mem'[h.arr] = k
  BY <1>1, <1>2, <1>3 DEF Memory
<1> QED
  BY <1>4

(* The points of a call are a range. *)
LEMMA PointsRange ==
    ASSUME NEW c \in Frames, Framed(c)
    PROVE  Points(c) \in Slices /\ c.I \in Slices /\ c.P \in Slices
<1>1. /\ c.I \in Slices /\ c.P \in Slices /\ c.Pm \in Int
      /\ c.P.arr \in Arrays /\ c.P.b \in 1 .. Count + 1 /\ c.P.e \in 1 .. Count + 1
      /\ c.pc = "upper" => c.Pm \in c.P.b .. c.P.e
  BY DEF Frames, Slices, Framed
<1>2. c.pc = "upper" => c.Pm \in 1 .. Count + 1
  BY <1>1, Counting
<1> QED
  BY <1>1, <1>2 DEF Points, Slice, Slices

(* The calls below the running one keep what they have. *)
LEMMA BelowKept ==
    ASSUME Typed, Each, Stacked, calls # <<>>, Sparing(Top),
           NEW i \in 1 .. Len(calls) - 1, NEW c, c = calls[i]
    PROVE  /\ c \in Frames
           /\ Content(c.I)' = Content(c.I) /\ Content(Points(c))' = Content(Points(c))
<1> DEFINE n == Len(calls)
<1>1. /\ n \in Nat \ {0} /\ DOMAIN calls = 1 .. n
      /\ \A j \in 1 .. n : calls[j] \in Frames
  BY EmptySeq, LenProperties, ElementOfSeq DEF Typed
<1>2. /\ i \in DOMAIN calls /\ n \in DOMAIN calls /\ i < n
      /\ c \in Frames /\ Top \in Frames /\ Framed(c) /\ Framed(Top)
  BY <1>1 DEF Each, Top
<1>3. Lends(c, Top)
  BY <1>2 DEF Stacked, Top
<1>4. /\ Points(c) \in Slices /\ c.I \in Slices /\ c.P \in Slices
      /\ Top.I \in Slices /\ Top.P \in Slices
  BY <1>2, PointsRange
<1>5. ASSUME NEW g \in {Top.I, Top.P}
      PROVE  /\ Within(g, c.I) \/ Apart(g, c.I)
             /\ Within(g, Points(c)) \/ Apart(g, Points(c))
  <2>1. PICK h \in Lent(c) : Within(g, h)
    BY <1>3 DEF Lends
  <2>2. c.I.arr # c.P.arr
    BY <1>2 DEF Framed
  <2>3. CASE h = c.I
    BY <2>1, <2>2, <2>3 DEF Within, Apart, Points, Slice
  <2>4. CASE h # c.I /\ c.pc # "upper"
    BY <2>1, <2>2, <2>4 DEF Within, Apart, Points, Lent
  <2>5. CASE h # c.I /\ c.pc = "upper"
    BY <2>1, <2>2, <2>5 DEF Within, Apart, Points, Lent, Slice
  <2> QED
    BY <2>3, <2>4, <2>5
<1>6. Content(c.I)' = Content(c.I) /\ Content(Points(c))' = Content(Points(c))
  BY <1>4, <1>5 DEF Sparing
<1> QED
  BY <1>2, <1>6

-----------------------------------------------------------------------------
(* A step of the running call c keeps the invariant if the calls it is
   replaced by work on parts of its ranges, and have, with what is reported
   and the tasks, the pairs that c had. *)
LEMMA CallStep ==
    ASSUME IInv, calls # <<>>, NEW c, c = Top, NEW new \in Seq(Frames),
           calls' = Below \o new, UNCHANGED <<build, ext>>,
           mem' \in Memory, Sparing(c),
           \A j \in 1 .. Len(new) : \A g \in {new[j].I, new[j].P} :
               \E h \in {c.I, c.P} : Within(g, h),
           \A i, j \in 1 .. Len(new) : i < j => Lends(new[i], new[j]),
           \A j \in 1 .. Len(new) : Framed(new[j]) /\ Bounded(new[j])',
           tasks' \in Seq(Tasks), reported \subseteq reported',
           build.omp => \A j \in 1 .. Len(new) : new[j].pc = "enter",
           ~ build.omp => \A t \in DOMAIN tasks' : tasks'[t].pc = "done",
           \A a, b \in Boxes : \A t \in DOMAIN tasks : Pending(tasks[t], a, b) =>
               \E u \in DOMAIN tasks' : Pending(tasks[u], a, b)',
           \A a, b \in Boxes : Stab(a, b) /\ Covered(c, a, b) =>
               \/ Told(a, b)'
               \/ \E j \in 1 .. Len(new) : Covered(new[j], a, b)'
               \/ \E u \in DOMAIN tasks' : Pending(tasks[u], a, b)'
    PROVE  IInv'
<1> DEFINE n == Len(calls)
<1>1. Typed /\ Each /\ Stacked /\ Serial /\ Caught
  BY DEF IInv
<1>2. /\ n \in Nat \ {0} /\ DOMAIN calls = 1 .. n
      /\ c \in Frames /\ \A i \in 1 .. n : calls[i] \in Frames
      /\ calls' \in Seq(Frames) /\ Len(new) \in Nat
      /\ DOMAIN calls' = 1 .. n - 1 + Len(new)
      /\ \A i \in 1 .. n - 1 : calls'[i] = calls[i]
      /\ \A j \in 1 .. Len(new) : calls'[n - 1 + j] = new[j]
  BY <1>1, Pushing
<1>3. Typed'
  BY <1>1, <1>2 DEF Typed
<1>4. Stacked'
  BY <1>1, StackGrows
<1>5. ASSUME NEW i \in 1 .. n - 1, NEW f, f = calls[i]
      PROVE  /\ f \in Frames /\ Framed(f) /\ Bounded(f)'
             /\ \A a, b : Covered(f, a, b) => Covered(f, a, b)'
  <2>1. /\ f \in Frames
        /\ Content(f.I)' = Content(f.I) /\ Content(Points(f))' = Content(Points(f))
    BY <1>1, <1>5, BelowKept
  <2>2. Framed(f) /\ Bounded(f)
    <3>1. i \in DOMAIN calls
      BY <1>2
    <3> QED
      BY <1>1, <1>5, <3>1 DEF Each
  <2>3. Bounded(f)'
    BY <2>1, <2>2 DEF Bounded, lo
  <2> QED
    BY <2>1, <2>2, <2>3 DEF Covered
<1> HIDE DEF n
<1>6. \A i \in 1 .. n - 1 + Len(new) : i \in 1 .. n - 1 \/ \E j \in 1 .. Len(new) : i = n - 1 + j
  <2>1. TAKE i \in 1 .. n - 1 + Len(new)
  <2>2. i \in 1 .. n - 1 \/ (i - (n - 1) \in 1 .. Len(new) /\ i = n - 1 + (i - (n - 1)))
    BY <1>2
  <2> QED
    BY <2>2
<1>7. Each'
  <2>1. ASSUME NEW i \in 1 .. n - 1 + Len(new), NEW f, f = calls'[i]
        PROVE  Framed(f) /\ Bounded(f)'
    <3>1. CASE i \in 1 .. n - 1
      BY <3>1, <2>1, <1>2, <1>5
    <3>2. ASSUME NEW j \in 1 .. Len(new), i = n - 1 + j
          PROVE  Framed(f) /\ Bounded(f)'
      <4>1. f = new[j]
        BY <3>2, <2>1, <1>2
      <4> QED
        BY <4>1
    <3> QED
      BY <3>1, <3>2, <1>6
  <2>2. \A i \in 1 .. n - 1 + Len(new) : Framed(calls'[i]) /\ Bounded(calls[i])'
    BY <2>1 DEF Framed, Bounded, Content, Points, Slice, lo
  <2> QED
    BY <2>2, <1>2 DEF Each, Framed
<1>8. Serial'
  <2>1. CASE build.omp
    <3>1. \A i \in 1 .. n - 1 : calls[i].pc = "enter"
      BY <1>1, <1>2, <2>1 DEF Serial
    <3>2. \A i \in 1 .. n - 1 + Len(new) : calls'[i].pc = "enter"
      BY <3>1, <1>2, <1>6, <2>1
    <3> QED
      BY <3>2, <1>2, <2>1 DEF Serial
  <2>2. CASE ~ build.omp
    BY <2>2 DEF Serial
  <2> QED
    BY <2>1, <2>2
<1>9. Caught'
  <2>1. SUFFICES ASSUME NEW a \in Boxes, NEW b \in Boxes, Stab(a, b)
                 PROVE  \/ Told(a, b)'
                        \/ \E i \in DOMAIN calls' : Covered(calls[i], a, b)'
                        \/ \E u \in DOMAIN tasks' : Pending(tasks[u], a, b)'
    <3>1. \A a, b : Stab(a, b)' = Stab(a, b)
      BY DEF Stab, Overlap, PLT, lo, hi
    <3> QED
      BY <3>1, ZenonT(60) DEF Caught, Covered, Pending, Content, Points, Slice
  <2>2. CASE Told(a, b)
    BY <2>2 DEF Told
  <2>3. CASE \E t \in DOMAIN tasks : Pending(tasks[t], a, b)
    BY <2>3
  <2>4. CASE \E i \in 1 .. n - 1 : Covered(calls[i], a, b)
    <3>1. PICK i \in 1 .. n - 1 : Covered(calls[i], a, b)
      BY <2>4
    <3>2. PICK f : f = calls[i]
      OBVIOUS
    <3>3. Covered(f, a, b)
      BY <3>1, <3>2
    <3>4. f = calls'[i] /\ i \in DOMAIN calls'
      BY <3>2, <1>2
    <3>5. \A x, y : Covered(f, x, y) => Covered(f, x, y)'
      BY <3>2, <1>5
    <3>6. Covered(f, a, b)'
      BY <3>3, <3>5
    <3>7. Covered(calls[i], a, b)'
      BY <3>4, <3>6, ZenonT(60) DEF Covered, Content, Points, Slice
    <3> QED
      BY <3>4, <3>7
  <2>5. CASE Covered(c, a, b)
    <3>1. ASSUME NEW j \in 1 .. Len(new), Covered(new[j], a, b)'
          PROVE  \E i \in DOMAIN calls' : Covered(calls[i], a, b)'
      <4>1. PICK i : i = n - 1 + j
        OBVIOUS
      <4>2. PICK f : f = new[j]
        OBVIOUS
      <4>3. i \in DOMAIN calls' /\ calls'[i] = f
        BY <4>1, <4>2, <1>2
      <4>4. Covered(f, a, b)'
        BY <3>1, <4>2
      <4>5. Covered(calls[i], a, b)'
        BY <4>3, <4>4 DEF Covered, Content, Points, Slice
      <4> QED
        BY <4>3, <4>5
    <3> QED
      BY <2>1, <2>5, <3>1
  <2>6. ASSUME NEW i \in DOMAIN calls, Covered(calls[i], a, b)
        PROVE  (\E k \in 1 .. n - 1 : Covered(calls[k], a, b)) \/ Covered(c, a, b)
    <3>1. i \in 1 .. n - 1 \/ i = n
      BY <1>2
    <3>2. i = n => Covered(c, a, b)
      BY <2>6 DEF Top, n
    <3> QED
      BY <2>6, <3>1, <3>2
  <2> QED
    BY <1>1, <2>1, <2>2, <2>3, <2>4, <2>5, <2>6 DEF Caught
<1> QED
  BY <1>3, <1>4, <1>7, <1>8, <1>9 DEF IInv

-----------------------------------------------------------------------------
(* The running call. *)
LEMMA Running ==
    ASSUME IInv, calls # <<>>, NEW c, c = Top
    PROVE  /\ c \in Frames /\ Framed(c) /\ Bounded(c)
           /\ c.I \in Slices /\ c.P \in Slices /\ Points(c) \in Slices
           /\ c.pc # "enter" => ~ build.omp
<1>1. /\ Len(calls) \in DOMAIN calls /\ c = calls[Len(calls)] /\ c \in Frames
  <2>1. Len(calls) \in Nat \ {0} /\ DOMAIN calls = 1 .. Len(calls) /\ Top \in Frames
    BY Standing DEF IInv
  <2>2. Len(calls) \in DOMAIN calls
    BY <2>1
  <2> QED
    BY <2>1, <2>2 DEF Top
<1>2. Framed(c) /\ Bounded(c)
  BY <1>1 DEF IInv, Each
<1>3. c.I \in Slices /\ c.P \in Slices /\ Points(c) \in Slices
  BY <1>1, <1>2, PointsRange
<1>4. c.pc # "enter" => ~ build.omp
  BY <1>1 DEF IInv, Serial
<1> QED
  BY <1>1, <1>2, <1>3, <1>4

(* A call at its start. *)
LEMMA NewCall ==
    ASSUME NEW I \in Slices, NEW P \in Slices, NEW l \in Int, NEW h \in Int, NEW d \in 0 .. Dim,
           NEW f, f = Call(I, P, l, h, d)
    PROVE  /\ f \in Frames
           /\ f.I = I /\ f.P = P /\ f.lo = l /\ f.hi = h /\ f.d = d /\ f.pc = "enter"
           /\ Points(f) = P /\ Lent(f) = {I, P}
           /\ I.b <= I.e /\ P.b <= P.e /\ I.arr # P.arr => Framed(f)
<1>1. /\ f.I = I /\ f.P = P /\ f.lo = l /\ f.hi = h /\ f.d = d /\ f.pc = "enter"
      /\ f.mi = 0 /\ f.Pm = 0
  BY DEF Call
<1>2. f \in Frames
  BY DEF Call, Frames
<1> HIDE DEF Call
<1> QED
  BY <1>1, <1>2 DEF Points, Lent, Framed

(* Without OpenMP there is nothing to say of the tasks. *)
LEMMA NoTasks ==
    ASSUME IInv, ~ build.omp, UNCHANGED tasks
    PROVE  /\ tasks' \in Seq(Tasks)
           /\ \A t \in DOMAIN tasks' : tasks'[t].pc = "done"
           /\ \A a, b \in Boxes : \A t \in DOMAIN tasks : ~ Pending(tasks[t], a, b)
  BY DEF IInv, Typed, Serial, Pending

(* An empty range has no boxes. *)
LEMMA NoContent ==
    ASSUME NEW g \in Slices, Size(g) <= 0
    PROVE  Content(g) = {}
<1>1. g.b \in Int /\ g.e \in Int
  BY Counting DEF Slices
<1>2. g.b .. g.e - 1 = {}
  BY <1>1 DEF Size
<1> QED
  BY <1>2 DEF Content

(* A call that returns has no pairs. *)
LEMMA ReturnInv == ASSUME IInv, Return PROVE IInv'
<1>1. PICK c : c = Top
  OBVIOUS
<1>2. /\ calls # <<>> /\ c.pc = "enter" /\ IsEmpty(c)
      /\ calls' = Below /\ UNCHANGED <<build, ext, mem, tasks, reported>>
  BY <1>1 DEF Return
<1>3. /\ Typed /\ Serial /\ mem \in Memory /\ tasks \in Seq(Tasks)
      /\ c \in Frames /\ c.I \in Slices /\ c.P \in Slices
  BY <1>1, <1>2, Running DEF IInv, Typed
<1>4. PICK new \in Seq(Frames) : new = <<>>
  BY EmptySeq
<1>5. calls' = Below \o new /\ Len(new) = 0
  <2>1. Below \in Seq(Frames)
    BY <1>2, <1>3, Standing
  <2> QED
    BY <2>1, <1>2, <1>4, ConcatEmptySeq, EmptySeq
<1>6. \A a, b : ~ Covered(c, a, b)
  <2>1. Content(c.I) = {} \/ Content(c.P) = {}
    BY <1>2, <1>3, NoContent DEF IsEmpty
  <2>2. Points(c) = c.P
    BY <1>2 DEF Points
  <2> QED
    BY <2>1, <2>2 DEF Covered
<1>7. Sparing(c)
  BY <1>2 DEF Sparing, Content
<1>8. \A a, b \in Boxes : \A t \in DOMAIN tasks : Pending(tasks[t], a, b) =>
               \E u \in DOMAIN tasks' : Pending(tasks[u], a, b)'
  BY <1>2 DEF Pending, Content
<1>9. ~ build.omp => \A t \in DOMAIN tasks' : tasks'[t].pc = "done"
  BY <1>2, <1>3 DEF Serial
<1>10. 1 .. Len(new) = {}
  BY <1>5
<1> QED
  BY <1>1, <1>2, <1>3, <1>4, <1>5, <1>6, <1>7, <1>8, <1>9, <1>10, CallStep

(* What a scan of a pair reports. *)
LEMMA ScanTells ==
    ASSUME ext \in Scenes, NEW d \in 0 .. Dim, NEW a \in Boxes, NEW b \in Boxes, Stab(a, b),
           NEW I, NEW P, a \in I, b \in P
    PROVE  <<a, b>> \in ScanOf(I, P, d)
<1>1. Dim \in Nat /\ 0 \in 0 .. Dim /\ 1 .. d \subseteq 0 .. Dim
  BY HybridAssumption
<1>2. /\ a # b /\ PLT(a, b)
      /\ \A n \in 0 .. Dim : lo(a, n) <= hi(b, n) /\ lo(b, n) <= hi(a, n)
      /\ lo(b, 0) # hi(a, 0)
  BY DEF Stab, Overlap
<1>3. /\ lo(a, 0) \in Int /\ lo(b, 0) \in Int /\ hi(a, 0) \in Int
      /\ a \in Int /\ b \in Int
  BY <1>1, Extents
<1>4. lo(b, 0) < hi(a, 0) /\ ~ PLT(b, a)
  <2>1. lo(b, 0) <= hi(a, 0)
    BY <1>1, <1>2
  <2> QED
    BY <2>1, <1>2, <1>3 DEF PLT
<1>5. Meet(a, b, d)
  BY <1>1, <1>2 DEF Meet
<1>6. <<a, b>> \in OneWay(I, P, d)
  BY <1>2, <1>4, <1>5 DEF OneWay
<1>7. <<a, b>> \in TwoWay(I, P, d)
  BY <1>2, <1>4, <1>5 DEF TwoWay
<1> QED
  BY <1>6, <1>7 DEF ScanOf

(* What a leaf has is reported, or with its task. *)
LEMMA LeafInv == ASSUME IInv, Leaf PROVE IInv'
<1>1. PICK c : c = Top
  OBVIOUS
<1> DEFINE T == [I |-> c.I, P |-> c.P, d |-> c.d, copied |-> {},
                 pc |-> IF build.omp THEN "new" ELSE "done"]
<1>2. /\ calls # <<>> /\ c.pc = "enter" /\ calls' = Below /\ tasks' = Append(tasks, T)
      /\ build.omp => UNCHANGED <<mem, reported>>
      /\ ~ build.omp =>
            /\ \E P \in Sifted(c.P, Boxes), I \in Sifted(c.I, Boxes) :
                  mem' = [mem EXCEPT ![c.P.arr] = P, ![c.I.arr] = I]
            /\ reported' = reported \cup {<<Len(tasks) + 1, x[1], x[2]>> :
                  x \in ScanOf(Content(c.I), Content(c.P), c.d)}
      /\ UNCHANGED <<build, ext>>
  BY <1>1 DEF Leaf
<1>3. /\ Typed /\ Serial /\ mem \in Memory /\ tasks \in Seq(Tasks) /\ ext \in Scenes
      /\ c \in Frames /\ c.I \in Slices /\ c.P \in Slices /\ c.d \in 0 .. Dim
      /\ c.I.b <= c.I.e /\ c.P.b <= c.P.e /\ c.I.arr # c.P.arr
  <2>1. c \in Frames /\ c.I \in Slices /\ c.P \in Slices /\ Framed(c)
    BY <1>1, <1>2, Running
  <2> QED
    BY <2>1 DEF IInv, Typed, Frames, Framed
<1>4. PICK new \in Seq(Frames) : new = <<>>
  BY EmptySeq
<1>5. calls' = Below \o new /\ Len(new) = 0
  <2>1. Below \in Seq(Frames)
    BY <1>2, <1>3, Standing
  <2> QED
    BY <2>1, <1>2, <1>4, ConcatEmptySeq, EmptySeq
<1>6. T \in Tasks /\ T.I = c.I /\ T.P = c.P /\ T.pc = IF build.omp THEN "new" ELSE "done"
  BY <1>3 DEF Tasks
<1> HIDE DEF T
<1> DEFINE m == Len(tasks)
<1>7. /\ tasks' \in Seq(Tasks) /\ m \in Nat /\ DOMAIN tasks = 1 .. m /\ DOMAIN tasks' = 1 .. m + 1
      /\ \A t \in 1 .. m : tasks'[t] = tasks[t]
      /\ tasks'[m + 1] = T
  BY <1>2, <1>3, <1>6, AppendProperties, LenProperties
<1>8. ASSUME NEW a \in Boxes, NEW b \in Boxes, NEW t \in DOMAIN tasks, Pending(tasks[t], a, b)
      PROVE  \E u \in DOMAIN tasks' : Pending(tasks[u], a, b)'
  <2>1. t \in DOMAIN tasks' /\ tasks'[t] = tasks[t] /\ build.omp
    BY <1>3, <1>7, <1>8 DEF Serial, Pending
  <2>2. Pending(tasks[t], a, b)'
    BY <2>1, <1>2, <1>8 DEF Pending, Content
  <2> QED
    BY <2>1, <2>2
<1>9. ASSUME ~ build.omp, NEW t \in DOMAIN tasks'
      PROVE  tasks'[t].pc = "done"
  <2>1. t \in 1 .. m \/ t = m + 1
    BY <1>7
  <2> QED
    BY <2>1, <1>3, <1>6, <1>7, <1>9 DEF Serial
<1>10. ASSUME NEW a \in Boxes, NEW b \in Boxes, Stab(a, b), Covered(c, a, b)
       PROVE  Told(a, b)' \/ \E u \in DOMAIN tasks' : Pending(tasks[u], a, b)'
  <2>1. a \in Content(c.I) /\ b \in Content(c.P)
    BY <1>2, <1>10 DEF Covered, Points
  <2>2. CASE build.omp
    <3>1. PICK u \in DOMAIN tasks' : u = m + 1
      BY <1>7
    <3>2. tasks'[u] = T
      BY <3>1, <1>7
    <3>3. Pending(tasks[u], a, b)'
      BY <2>1, <2>2, <3>2, <1>2, <1>6 DEF Pending, Content
    <3> QED
      BY <3>3
  <2>3. CASE ~ build.omp
    <3> DEFINE r == <<m + 1, a, b>>
    <3>1. <<a, b>> \in ScanOf(Content(c.I), Content(c.P), c.d)
      BY <1>3, <1>10, <2>1, ScanTells
    <3>2. r \in reported'
      <4>1. <<a, b>>[1] = a /\ <<a, b>>[2] = b
        OBVIOUS
      <4> QED
        BY <1>2, <2>3, <3>1, <4>1
    <3>3. {r[2], r[3]} = {a, b}
      OBVIOUS
    <3> HIDE DEF r
    <3> QED
      BY <3>2, <3>3 DEF Told
  <2> QED
    BY <2>2, <2>3
<1>11. mem' \in Memory /\ Sparing(c)
  <2>1. CASE build.omp
    BY <2>1, <1>2, <1>3 DEF Sparing, Content
  <2>2. CASE ~ build.omp
    <3>1. /\ Typed /\ c.I \in Slices /\ c.P \in Slices
          /\ c.I.b <= c.I.e /\ c.P.b <= c.P.e /\ c.I.arr # c.P.arr
      BY <1>3
    <3>2. \E P \in Sifted(c.P, Boxes), I \in Sifted(c.I, Boxes) :
             mem' = [mem EXCEPT ![c.P.arr] = P, ![c.I.arr] = I]
      BY <2>2, <1>2
    <3>3. /\ mem' \in Memory /\ mem'[c.I.arr] \in Sifted(c.I, Boxes)
          /\ mem'[c.P.arr] \in Sifted(c.P, Boxes)
      BY <3>1, <3>2, TwiceFrame
    <3>4. PICK p : p = First(c.I, Boxes).e
      OBVIOUS
    <3>5. PICK q : q = First(c.P, Boxes).e
      OBVIOUS
    <3>6. \A h \in Slices : (\A y \in {c.I, c.P} : Within(y, h) \/ Apart(y, h)) =>
             Content(h)' = Content(h)
      BY <3>1, <3>3, <3>4, <3>5, SiftTwice
    <3> QED
      BY <3>3, <3>6 DEF Sparing
  <2> QED
    BY <2>1, <2>2
<1>12. 1 .. Len(new) = {} /\ reported \subseteq reported'
  BY <1>2, <1>5
<1> QED
  BY <1>1, <1>2, <1>3, <1>4, <1>5, <1>7, <1>8, <1>9, <1>10, <1>11, <1>12, CallStep

(* No call is running or returns when a task goes on. *)
LEMMA TaskStep ==
    ASSUME IInv, UNCHANGED <<build, ext, mem, calls>>, NEW t \in DOMAIN tasks, NEW u \in Tasks,
           tasks' = [tasks EXCEPT ![t] = u],
           u.pc = "done" \/ tasks[t].pc # "done", reported \subseteq reported',
           \A a, b \in Boxes : Stab(a, b) /\ Pending(tasks[t], a, b) => Told(a, b)' \/ Pending(u, a, b)
    PROVE  IInv'
<1>1. Typed /\ Each /\ Stacked /\ Serial /\ Caught
  BY DEF IInv
<1>2. /\ tasks' \in Seq(Tasks) /\ DOMAIN tasks' = DOMAIN tasks /\ t \in DOMAIN tasks'
      /\ tasks'[t] = u /\ \A v \in DOMAIN tasks : v # t => tasks'[v] = tasks[v]
  <2>1. tasks \in Seq(Tasks) /\ DOMAIN tasks = 1 .. Len(tasks)
    BY <1>1, LenProperties DEF Typed
  <2> QED
    BY <2>1, ExceptSeq
<1>3. Typed' /\ Stacked'
  BY <1>1, <1>2 DEF Typed, Stacked, Lends, Lent, Within, Slice
<1>4. Each'
  BY <1>1 DEF Each, Framed, Bounded, Content, Points, Slice, lo
<1>5. Serial'
  BY <1>1, <1>2 DEF Serial
<1>6. Caught'
  <2>1. SUFFICES ASSUME NEW a \in Boxes, NEW b \in Boxes, Stab(a, b)
                 PROVE  \/ Told(a, b)'
                        \/ \E i \in DOMAIN calls : Covered(calls[i], a, b)
                        \/ \E v \in DOMAIN tasks' : Pending(tasks[v], a, b)'
    BY DEF Caught, Covered, Content, Points, Slice, Stab, Overlap, PLT, lo, hi
  <2>2. CASE Told(a, b)
    BY <2>2 DEF Told
  <2>3. ASSUME NEW v \in DOMAIN tasks, Pending(tasks[v], a, b)
        PROVE  Told(a, b)' \/ \E w \in DOMAIN tasks' : Pending(tasks[w], a, b)'
    <3>1. CASE v = t
      <4>1. Told(a, b)' \/ Pending(u, a, b)
        BY <2>1, <2>3, <3>1
      <4>2. Pending(u, a, b) => Pending(tasks[t], a, b)'
        BY <1>2 DEF Pending, Content
      <4> QED
        BY <4>1, <4>2, <1>2
    <3>2. CASE v # t
      <4>1. Pending(tasks[v], a, b)'
        BY <1>2, <2>3, <3>2 DEF Pending, Content
      <4> QED
        BY <4>1, <1>2
    <3> QED
      BY <3>1, <3>2
  <2> QED
    BY <1>1, <2>1, <2>2, <2>3 DEF Caught
<1> QED
  BY <1>3, <1>4, <1>5, <1>6 DEF IInv

(* A task keeps the ranges it was given, and scans what it has copied: what
   its call had, as nothing moves any more. *)
LEMMA TaskInv ==
    ASSUME IInv, NEW t \in DOMAIN tasks, CopyIntervals(t) \/ CopyPointsAndScan(t)
    PROVE  IInv'
<1>1. /\ tasks \in Seq(Tasks) /\ tasks[t] \in Tasks /\ mem \in Memory /\ ext \in Scenes
      /\ tasks[t].I \in Slices /\ tasks[t].P \in Slices /\ tasks[t].d \in 0 .. Dim
  <2>1. tasks[t] \in Tasks
    BY ElementOfSeq, LenProperties DEF IInv, Typed
  <2> QED
    BY <2>1 DEF IInv, Typed, Tasks
<1>2. \A g \in Slices : Content(g) \subseteq Boxes
  BY <1>1, ContentBoxes
<1>3. CASE CopyIntervals(t)
  <2> DEFINE u == [tasks[t] EXCEPT !.pc = "copied", !.copied = Content(tasks[t].I)]
  <2>1. tasks[t].pc = "new" /\ tasks' = [tasks EXCEPT ![t] = u]
        /\ UNCHANGED <<build, ext, mem, calls, reported>>
    BY <1>3 DEF CopyIntervals
  <2>2. /\ u \in Tasks /\ u.pc = "copied" /\ u.copied = Content(tasks[t].I) /\ u.P = tasks[t].P
    BY <1>1, <1>2 DEF Tasks
  <2> HIDE DEF u
  <2>3. \A a, b : Pending(tasks[t], a, b) => Pending(u, a, b)
    BY <2>1, <2>2 DEF Pending
  <2> QED
    BY <2>1, <2>2, <2>3, TaskStep
<1>4. CASE CopyPointsAndScan(t)
  <2> DEFINE u == [tasks[t] EXCEPT !.pc = "done"]
  <2>1. tasks[t].pc = "copied" /\ tasks' = [tasks EXCEPT ![t] = u]
        /\ reported' = reported \cup {<<t, x[1], x[2]>> :
              x \in ScanOf(tasks[t].copied, Content(tasks[t].P), tasks[t].d)}
        /\ UNCHANGED <<build, ext, mem, calls>>
    BY <1>4 DEF CopyPointsAndScan
  <2>2. u \in Tasks /\ u.pc = "done"
    BY <1>1 DEF Tasks
  <2>3. ASSUME NEW a \in Boxes, NEW b \in Boxes, Stab(a, b), Pending(tasks[t], a, b)
        PROVE  Told(a, b)'
    <3> DEFINE r == <<t, a, b>>
    <3>1. <<a, b>> \in ScanOf(tasks[t].copied, Content(tasks[t].P), tasks[t].d)
      BY <1>1, <2>1, <2>3, ScanTells DEF Pending
    <3>2. r \in reported'
      <4>1. <<a, b>>[1] = a /\ <<a, b>>[2] = b
        OBVIOUS
      <4> QED
        BY <2>1, <3>1, <4>1
    <3>3. {r[2], r[3]} = {a, b}
      OBVIOUS
    <3> HIDE DEF r
    <3> QED
      BY <3>2, <3>3 DEF Told
  <2> HIDE DEF u
  <2> QED
    BY <2>1, <2>2, <2>3, TaskStep
<1> QED
  BY <1>3, <1>4

-----------------------------------------------------------------------------
(* A call that begins anew in a lower dimension takes all of the axis. *)
LEMMA Unbounded ==
    ASSUME ext \in Scenes, UNCHANGED ext, mem' \in Memory,
           NEW f \in Frames, f.pc = "enter", f.lo = 0, f.hi = Far
    PROVE  Bounded(f)'
<1>1. Points(f) = f.P /\ f.P \in Slices /\ f.d \in 0 .. Dim
  BY DEF Points, Frames
<1>2. Content(f.P)' \subseteq Boxes
  BY <1>1, Counting DEF Content, Memory, Slices
<1>3. \A b \in Content(f.P)' : 0 <= lo(b, f.d) /\ lo(b, f.d) < Far
  BY <1>1, <1>2, Extents
<1> QED
  BY <1>1, <1>3 DEF Bounded, lo

(* A call that splits its ranges runs without OpenMP: more boxes than the
   cutoff are with it. *)
LEMMA Splitting ==
    ASSUME SmallTasks, IInv, calls # <<>>, NEW c, c = Top, ~ IsLeaf(c)
    PROVE  ~ build.omp /\ c.d \in 1 .. Dim
<1>1. /\ c.I \in Slices /\ c \in Frames /\ build \in Builds /\ Count \in Nat
  BY Running, Counting DEF IInv, Typed
<1>2. c.d \in 0 .. Dim /\ c.d # 0 /\ ~ (Size(c.I) < build.cutoff)
  BY <1>1 DEF IsLeaf, Frames
<1>3. Size(c.I) \in Int /\ Size(c.I) <= Count
  BY <1>1 DEF Size, Slices
<1>4. build.cutoff \in Nat /\ (build.omp => Count < build.cutoff)
  BY <1>1, HybridAssumption DEF SmallTasks
<1>5. c.d \in 1 .. Dim
  <2>1. Dim \in Nat
    BY HybridAssumption
  <2> QED
    BY <1>2, <2>1
<1>6. ~ (Count < build.cutoff)
  <2> DEFINE k == build.cutoff
  <2>1. k \in Nat /\ ~ (Size(c.I) < k)
    BY <1>2, <1>4
  <2> HIDE DEF k
  <2>2. ~ (Count < k)
    BY <2>1, <1>1, <1>3
  <2> QED
    BY <2>2 DEF k
<1> QED
  BY <1>4, <1>5, <1>6, Zenon

(* CallStep where the calls go on with all that the call had. *)
LEMMA SplitStep ==
    ASSUME IInv, calls # <<>>, NEW c, c = Top, NEW new \in Seq(Frames),
           calls' = Below \o new, UNCHANGED <<build, ext, tasks, reported>>, ~ build.omp,
           mem' \in Memory, Sparing(c),
           \A j \in 1 .. Len(new) : \A g \in {new[j].I, new[j].P} :
               \E h \in {c.I, c.P} : Within(g, h),
           \A i, j \in 1 .. Len(new) : i < j => Lends(new[i], new[j]),
           \A j \in 1 .. Len(new) : Framed(new[j]) /\ Bounded(new[j])',
           \A a, b \in Boxes : Stab(a, b) /\ Covered(c, a, b) =>
               \E j \in 1 .. Len(new) : Covered(new[j], a, b)'
    PROVE  IInv'
<1>1. /\ tasks' \in Seq(Tasks)
      /\ \A u \in DOMAIN tasks' : tasks'[u].pc = "done"
      /\ \A a, b \in Boxes : \A u \in DOMAIN tasks : ~ Pending(tasks[u], a, b)
  BY NoTasks
<1>2. UNCHANGED <<build, ext>> /\ reported \subseteq reported'
  OBVIOUS
<1>3. \A a, b \in Boxes : \A t \in DOMAIN tasks : Pending(tasks[t], a, b) =>
               \E u \in DOMAIN tasks' : Pending(tasks[u], a, b)'
  BY <1>1
<1>4. \A a, b \in Boxes : Stab(a, b) /\ Covered(c, a, b) =>
               \/ Told(a, b)'
               \/ \E j \in 1 .. Len(new) : Covered(new[j], a, b)'
               \/ \E u \in DOMAIN tasks' : Pending(tasks[u], a, b)'
  OBVIOUS
<1>5. build.omp => \A j \in 1 .. Len(new) : new[j].pc = "enter"
  OBVIOUS
<1>6. ~ build.omp => \A u \in DOMAIN tasks' : tasks'[u].pc = "done"
  BY <1>1
<1> QED
  BY <1>1, <1>2, <1>3, <1>4, <1>5, <1>6, CallStep

(* The calls in the lower dimension come on top of one that has everything. *)
LEMMA InsideInv == ASSUME SmallTasks, IInv, Inside PROVE IInv'
<1>1. PICK c : c = Top
  OBVIOUS
<1>2. PICK S : S = {b \in Boxes : lo(b, c.d) <= c.lo /\ hi(b, c.d) >= c.hi}
  OBVIOUS
<1>3. PICK Im : Im = First(c.I, S)
  OBVIOUS
<1>4. PICK p : p = Im.e
  OBVIOUS
<1>a. PICK c1 : c1 = [c EXCEPT !.pc = "lower"]
  OBVIOUS
<1>b. PICK s : s = Call(c.P, Im, 0, Far, c.d - 1)
  OBVIOUS
<1>c. PICK t : t = Call(Im, c.P, 0, Far, c.d - 1)
  OBVIOUS
<1>d. PICK new : new = <<c1, s, t>>
  OBVIOUS
<1>5. /\ calls # <<>> /\ c.pc = "enter" /\ ~ IsLeaf(c)
      /\ \E f \in Sifted(c.I, S) : mem' = [mem EXCEPT ![c.I.arr] = f]
      /\ calls' = Below \o new
      /\ UNCHANGED <<build, ext, tasks, reported>>
  BY <1>1, <1>2, <1>3, <1>a, <1>b, <1>c, <1>d DEF Inside
<1>6. /\ c \in Frames /\ Framed(c) /\ Bounded(c) /\ c.I \in Slices /\ c.P \in Slices
      /\ ~ build.omp /\ c.d \in 1 .. Dim /\ Typed /\ ext \in Scenes
      /\ c.I.b <= c.I.e /\ c.P.b <= c.P.e /\ c.I.arr # c.P.arr
  <2>1. c \in Frames /\ Framed(c) /\ Bounded(c) /\ c.I \in Slices /\ c.P \in Slices
    BY <1>1, <1>5, Running
  <2>2. ~ build.omp /\ c.d \in 1 .. Dim
    BY <1>1, <1>5, Splitting
  <2> QED
    BY <2>1, <2>2 DEF Framed, IInv, Typed
<1>7. PICK f \in Sifted(c.I, S) : mem' = [mem EXCEPT ![c.I.arr] = f]
  BY <1>5
<1>e. /\ mem' \in Memory /\ mem'[c.I.arr] \in Sifted(c.I, S)
      /\ \A x \in Arrays : x # c.I.arr => mem'[x] = mem[x]
  BY <1>6, <1>7, SiftFrame
<1>8. /\ mem' \in Memory /\ p \in c.I.b .. c.I.e
      /\ \A h \in Slices : Within(c.I, h) \/ Apart(c.I, h) => Content(h)' = Content(h)
  <2>1. p = First(c.I, S).e /\ Typed /\ c.I \in Slices /\ c.I.b <= c.I.e
    BY <1>3, <1>4, <1>6
  <2> QED
    BY <2>1, <1>e, SiftSpares
<1>9. Im \in Slices /\ Im = Slice(c.I.arr, c.I.b, p) /\ Im.arr = c.I.arr /\ Im.b = c.I.b
  BY <1>3, <1>4, <1>6, <1>7, SiftParts DEF Slice
<1>10. Within(c.I, c.I) /\ Within(c.P, c.P) /\ Within(Im, c.I) /\ Within(Im, Im) /\ Apart(c.I, c.P)
       /\ Im.b <= Im.e /\ Im.arr # c.P.arr
  BY <1>4, <1>6, <1>8, <1>9 DEF Within, Apart, Slices
<1>11. /\ c1 \in Frames /\ c1.I = c.I /\ c1.P = c.P /\ c1.lo = c.lo /\ c1.hi = c.hi /\ c1.d = c.d
       /\ c1.pc = "lower"
  BY <1>6, <1>a DEF Frames
<1>12. Points(c) = c.P /\ Points(c1) = c.P /\ Lent(c1) = {c.I, c.P}
  BY <1>5, <1>11 DEF Points, Lent
<1>13. 0 \in Int /\ Far \in Int /\ c.d - 1 \in 0 .. Dim
  BY <1>6, HybridAssumption
<1>14. /\ s \in Frames /\ s.I = c.P /\ s.P = Im /\ s.pc = "enter" /\ s.lo = 0 /\ s.hi = Far
       /\ Lent(s) = {c.P, Im} /\ Framed(s)
  BY <1>b, <1>6, <1>9, <1>10, <1>13, NewCall
<1>15. /\ t \in Frames /\ t.I = Im /\ t.P = c.P /\ t.pc = "enter" /\ t.lo = 0 /\ t.hi = Far
       /\ Framed(t)
  BY <1>c, <1>6, <1>9, <1>10, <1>13, NewCall
<1>16. /\ new \in Seq(Frames) /\ 1 .. Len(new) = {1, 2, 3}
       /\ new[1] = c1 /\ new[2] = s /\ new[3] = t
  BY <1>d, <1>11, <1>14, <1>15
<1>17. Bounded(s)' /\ Bounded(t)'
  BY <1>5, <1>6, <1>8, <1>14, <1>15, Unbounded
<1>18. /\ Content(c.P)' = Content(c.P) /\ Content(c.I)' = Content(c.I)
  BY <1>6, <1>8, <1>10
<1>19. Bounded(c1)'
  BY <1>5, <1>6, <1>11, <1>12, <1>18 DEF Bounded, lo
<1>20. Framed(c1)
  BY <1>6, <1>11 DEF Framed
<1>21. \A j \in 1 .. Len(new) : Framed(new[j]) /\ Bounded(new[j])'
  BY <1>14, <1>15, <1>16, <1>17, <1>19, <1>20
<1>22. \A j \in 1 .. Len(new) : \A g \in {new[j].I, new[j].P} : \E h \in {c.I, c.P} : Within(g, h)
  BY <1>10, <1>11, <1>14, <1>15, <1>16
<1>23. Lends(c1, s) /\ Lends(c1, t) /\ Lends(s, t)
  BY <1>10, <1>12, <1>14, <1>15 DEF Lends
<1>24. \A i, j \in 1 .. Len(new) : i < j => Lends(new[i], new[j])
  BY <1>16, <1>23
<1>25. \A a, b \in Boxes : Covered(c, a, b) => \E j \in 1 .. Len(new) : Covered(new[j], a, b)'
  <2>1. \A a, b \in Boxes : Covered(c, a, b) => Covered(c1, a, b)'
    BY <1>11, <1>12, <1>18 DEF Covered
  <2>2. 1 \in 1 .. Len(new) /\ new[1] = c1
    BY <1>16
  <2> QED
    BY <2>1, <2>2
<1>26. Sparing(c)
  BY <1>8 DEF Sparing
<1>27. \A a, b \in Boxes : Stab(a, b) /\ Covered(c, a, b) =>
          \E j \in 1 .. Len(new) : Covered(new[j], a, b)'
  BY <1>25
<1>28. UNCHANGED <<build, ext, tasks, reported>>
  BY <1>5
<1>29. calls # <<>> /\ calls' = Below \o new /\ ~ build.omp /\ mem' \in Memory /\ new \in Seq(Frames)
  BY <1>5, <1>6, <1>8, <1>16
<1> QED
  BY <1>1, <1>21, <1>22, <1>24, <1>26, <1>27, <1>28, <1>29, SplitStep

-----------------------------------------------------------------------------
(* What a call on parts I and P of ranges needs, for the half from l to h. *)
Half(I, P, l, h, d) ==
    /\ I \in Slices /\ P \in Slices /\ I.b <= I.e /\ P.b <= P.e /\ I.arr # P.arr
    /\ l \in Int /\ h \in Int /\ d \in 1 .. Dim
    /\ \A b \in Content(P) : l <= lo(b, d) /\ lo(b, d) < h

(* Such a call, or the one in a lower dimension where nothing was split off. *)
LEMMA PartCall ==
    ASSUME Typed, UNCHANGED ext, mem' \in Memory, NEW I, NEW P, NEW l, NEW h, NEW d, NEW f,
           Half(I, P, l, h, d)',
           f = Call(I, P, l, h, d) \/ f = Call(I, P, 0, Far, d - 1)
    PROVE  f \in Frames /\ f.I = I /\ f.P = P /\ f.pc = "enter" /\ Points(f) = P
           /\ Framed(f) /\ Bounded(f)'
<1>0. /\ I \in Slices /\ P \in Slices /\ I.b <= I.e /\ P.b <= P.e /\ I.arr # P.arr
      /\ l \in Int /\ h \in Int /\ d \in 1 .. Dim
      /\ \A b \in Content(P)' : l <= lo(b, d) /\ lo(b, d) < h
  BY DEF Half, Slices, lo
<1>1. /\ ext \in Scenes /\ 0 \in Int /\ Far \in Int /\ d - 1 \in 0 .. Dim /\ d \in 0 .. Dim
  BY <1>0, HybridAssumption DEF Typed
<1>2. CASE f = Call(I, P, l, h, d)
  <2>1. /\ f \in Frames /\ f.I = I /\ f.P = P /\ f.lo = l /\ f.hi = h /\ f.d = d /\ f.pc = "enter"
        /\ Points(f) = P /\ Framed(f)
    BY <1>0, <1>1, <1>2, NewCall
  <2>2. Bounded(f)'
    BY <1>0, <2>1 DEF Bounded, lo
  <2> QED
    BY <2>1, <2>2
<1>3. CASE f = Call(I, P, 0, Far, d - 1)
  <2>1. /\ f \in Frames /\ f.I = I /\ f.P = P /\ f.lo = 0 /\ f.hi = Far /\ f.pc = "enter"
        /\ Points(f) = P /\ Framed(f)
    BY <1>0, <1>1, <1>3, NewCall
  <2>2. Bounded(f)'
    BY <1>1, <2>1, Unbounded
  <2> QED
    BY <2>1, <2>2
<1> QED
  BY <1>2, <1>3

(* The points of the lower half: a point of the call is passed on or kept, and
   the intervals with it that it stabs are passed on too. *)
LEMMA LowerInv == ASSUME IInv, Lower PROVE IInv'
<1>1. PICK c : c = Top
  OBVIOUS
<1>2. PICK x \in Content(Top.P) :
        LET mi == lo(x, Top.d)
            Lesser == {b \in Boxes : lo(b, Top.d) < mi}
            Reach == {b \in Boxes : ~ (lo(b, Top.d) >= mi \/ hi(b, Top.d) < Top.lo)}
            Pm == First(Top.P, Lesser)
            Im == First(Top.I, Reach)
        IN  /\ \E P \in Sifted(Top.P, Lesser), I \in Sifted(Top.I, Reach) :
                mem' = [mem EXCEPT ![Top.P.arr] = P, ![Top.I.arr] = I]
            /\ calls' = Below \o <<[Top EXCEPT !.pc = "upper", !.mi = mi, !.Pm = Pm.e],
                  IF Im # Top.I \/ Pm # Top.P THEN Call(Im, Pm, Top.lo, mi, Top.d)
                  ELSE Call(Im, Pm, 0, Far, Top.d - 1)>>
  BY DEF Lower
<1>3. PICK mi : mi = lo(x, c.d)
  OBVIOUS
<1>4. PICK Lesser : Lesser = {b \in Boxes : lo(b, c.d) < mi}
  OBVIOUS
<1>5. PICK Reach : Reach = {b \in Boxes : ~ (lo(b, c.d) >= mi \/ hi(b, c.d) < c.lo)}
  OBVIOUS
<1>6. PICK Pm : Pm = First(c.P, Lesser)
  OBVIOUS
<1>7. PICK Im : Im = First(c.I, Reach)
  OBVIOUS
<1>8. PICK p : p = Im.e
  OBVIOUS
<1>9. PICK q : q = Pm.e
  OBVIOUS
<1>a. PICK c1 : c1 = [c EXCEPT !.pc = "upper", !.mi = mi, !.Pm = q]
  OBVIOUS
<1>b. PICK t : t = IF Im # c.I \/ Pm # c.P THEN Call(Im, Pm, c.lo, mi, c.d)
                   ELSE Call(Im, Pm, 0, Far, c.d - 1)
  OBVIOUS
<1>c. PICK new : new = <<c1, t>>
  OBVIOUS
<1>10. /\ \E P \in Sifted(c.P, Lesser), I \in Sifted(c.I, Reach) :
             mem' = [mem EXCEPT ![c.P.arr] = P, ![c.I.arr] = I]
       /\ calls' = Below \o new
  BY <1>1, <1>2, <1>3, <1>4, <1>5, <1>6, <1>7, <1>9, <1>a, <1>b, <1>c
<1>11. /\ calls # <<>> /\ c.pc = "lower" /\ UNCHANGED <<build, ext, tasks, reported>>
  BY <1>1 DEF Lower
<1>12. /\ c \in Frames /\ Framed(c) /\ Bounded(c) /\ c.I \in Slices /\ c.P \in Slices
       /\ ~ build.omp /\ Typed /\ ext \in Scenes /\ mem \in Memory
       /\ c.I.b <= c.I.e /\ c.P.b <= c.P.e /\ c.I.arr # c.P.arr
       /\ c.lo \in Int /\ c.hi \in Int /\ c.d \in 0 .. Dim /\ c.d > 0
  <2>1. c \in Frames /\ Framed(c) /\ Bounded(c) /\ c.I \in Slices /\ c.P \in Slices /\ ~ build.omp
    BY <1>1, <1>11, Running
  <2> QED
    BY <2>1, <1>11 DEF Framed, IInv, Typed, Frames
<1>13. c.d \in 1 .. Dim
  BY <1>12, HybridAssumption
<1>14. x \in Boxes /\ mi \in Int
  <2>1. Content(c.P) \subseteq Boxes
    BY <1>12, ContentBoxes
  <2> QED
    BY <2>1, <1>1, <1>2, <1>3, <1>12, Extents
<1>15. /\ mem' \in Memory /\ mem'[c.I.arr] \in Sifted(c.I, Reach)
       /\ mem'[c.P.arr] \in Sifted(c.P, Lesser)
  <2>1. /\ Typed /\ c.I \in Slices /\ c.P \in Slices
        /\ c.I.b <= c.I.e /\ c.P.b <= c.P.e /\ c.I.arr # c.P.arr
    BY <1>12
  <2> QED
    BY <2>1, <1>10, TwiceFrame
<1>16. /\ \A h \in Slices : (\A y \in {c.I, c.P} : Within(y, h) \/ Apart(y, h)) =>
             Content(h)' = Content(h)
       /\ Content(Slice(c.I.arr, c.I.b, p))' = Content(c.I) \cap Reach
       /\ Content(Slice(c.P.arr, c.P.b, q))' = Content(c.P) \cap Lesser
       /\ Content(Slice(c.P.arr, q, c.P.e))' = Content(c.P) \ Lesser
       /\ p \in c.I.b .. c.I.e /\ q \in c.P.b .. c.P.e
  <2>1. p = First(c.I, Reach).e /\ q = First(c.P, Lesser).e
    BY <1>6, <1>7, <1>8, <1>9
  <2>2. Typed /\ c.I \in Slices /\ c.P \in Slices /\ c.I.b <= c.I.e /\ c.P.b <= c.P.e
        /\ c.I.arr # c.P.arr
    BY <1>12
  <2> QED
    BY <2>1, <2>2, <1>15, SiftTwice
<1>17. Im \in Slices /\ Im = Slice(c.I.arr, c.I.b, p) /\ Im.arr = c.I.arr /\ Im.b = c.I.b
  BY <1>7, <1>8, <1>12, <1>15, SiftParts DEF Slice
<1>18. Pm \in Slices /\ Pm = Slice(c.P.arr, c.P.b, q) /\ Pm.arr = c.P.arr /\ Pm.b = c.P.b
  BY <1>6, <1>9, <1>12, <1>15, SiftParts DEF Slice
<1>19. /\ Within(c.I, c.I) /\ Within(c.P, c.P) /\ Within(Im, c.I) /\ Within(Pm, c.P)
       /\ Within(Im, Im) /\ Within(Pm, Pm) /\ Apart(c.I, c.P) /\ Apart(c.P, c.I)
       /\ Im.b <= Im.e /\ Pm.b <= Pm.e /\ Im.arr # Pm.arr
  <2>1. p \in c.I.b .. c.I.e /\ q \in c.P.b .. c.P.e /\ Im.e = p /\ Pm.e = q
    BY <1>8, <1>9, <1>16
  <2>2. /\ c.I.b \in Int /\ c.I.e \in Int /\ c.P.b \in Int /\ c.P.e \in Int
        /\ c.I.arr # c.P.arr
    BY <1>12, Counting DEF Slices
  <2>3. Im.arr = c.I.arr /\ Im.b = c.I.b /\ Pm.arr = c.P.arr /\ Pm.b = c.P.b
    BY <1>17, <1>18
  <2> QED
    BY <2>1, <2>2, <2>3 DEF Within, Apart
<1>20. q \in Int
  BY <1>16, <1>12, Counting DEF Slices
<1>21. /\ c1 \in Frames /\ c1.I = c.I /\ c1.P = c.P /\ c1.hi = c.hi /\ c1.d = c.d
       /\ c1.pc = "upper" /\ c1.mi = mi /\ c1.Pm = q
  BY <1>12, <1>14, <1>20, <1>a DEF Frames
<1>22. Points(c) = c.P /\ Points(c1) = Slice(c.P.arr, q, c.P.e) /\ Lent(c1) = {c.I, Pm}
  BY <1>11, <1>18, <1>21 DEF Points, Lent
<1>23. /\ Content(Im)' = Content(c.I) \cap Reach
       /\ Content(Pm)' = Content(c.P) \cap Lesser
       /\ Content(Points(c1))' = Content(c.P) \ Lesser
       /\ Content(c.I)' = Content(c.I)
  <2>1. Content(c.I)' = Content(c.I)
    BY <1>12, <1>16, <1>19
  <2>2. Content(Im)' = Content(Slice(c.I.arr, c.I.b, p))'
    BY <1>17
  <2>3. Content(Pm)' = Content(Slice(c.P.arr, c.P.b, q))'
    BY <1>18
  <2>4. Content(Points(c1))' = Content(Slice(c.P.arr, q, c.P.e))'
    BY <1>11, <1>21 DEF Points, Content, Slice
  <2> QED
    BY <2>1, <2>2, <2>3, <2>4, <1>16
<1>24. \A b \in Content(c.P) : b \in Boxes /\ c.lo <= lo(b, c.d) /\ lo(b, c.d) < c.hi /\ lo(b, c.d) \in Int
  <2>1. Content(c.P) \subseteq Boxes
    BY <1>12, ContentBoxes
  <2> QED
    BY <2>1, <1>11, <1>12, <1>22, Extents DEF Bounded
<1>25. \A b \in Content(Pm)' : c.lo <= lo(b, c.d) /\ lo(b, c.d) < mi
  BY <1>4, <1>23, <1>24
<1>26. t \in Frames /\ t.I = Im /\ t.P = Pm /\ Points(t) = Pm /\ Framed(t) /\ Bounded(t)'
  <2>1. UNCHANGED ext /\ Typed /\ mem' \in Memory
    BY <1>15, <1>11, <1>12
  <2>2. Half(Im, Pm, c.lo, mi, c.d)'
    <3>1. /\ Im \in Slices /\ Pm \in Slices /\ Im.b <= Im.e /\ Pm.b <= Pm.e /\ Im.arr # Pm.arr
          /\ c.lo \in Int /\ mi \in Int /\ c.d \in 1 .. Dim
      BY <1>12, <1>13, <1>14, <1>17, <1>18, <1>19
    <3> QED
      BY <3>1, <2>1, <1>25 DEF Half, Slices, lo
  <2>3. t = Call(Im, Pm, c.lo, mi, c.d) \/ t = Call(Im, Pm, 0, Far, c.d - 1)
    BY <1>b
  <2> QED
    BY <2>1, <2>2, <2>3, PartCall
<1>27. Framed(c1)
  BY <1>12, <1>16, <1>21 DEF Framed
<1>28. Bounded(c1)'
  <2>1. \A b \in Content(Points(c1))' : mi <= lo(b, c.d) /\ lo(b, c.d) < c.hi
    BY <1>4, <1>14, <1>23, <1>24
  <2> QED
    BY <2>1, <1>11, <1>21 DEF Bounded, lo
<1>29. /\ new \in Seq(Frames) /\ 1 .. Len(new) = {1, 2} /\ new[1] = c1 /\ new[2] = t
  BY <1>c, <1>21, <1>26
<1>30. \A j \in 1 .. Len(new) : Framed(new[j]) /\ Bounded(new[j])'
  BY <1>26, <1>27, <1>28, <1>29
<1>31. \A j \in 1 .. Len(new) : \A g \in {new[j].I, new[j].P} : \E h \in {c.I, c.P} : Within(g, h)
  BY <1>19, <1>21, <1>26, <1>29
<1>32. \A i, j \in 1 .. Len(new) : i < j => Lends(new[i], new[j])
  <2>1. Lends(c1, t)
    BY <1>19, <1>22, <1>26 DEF Lends
  <2> QED
    BY <2>1, <1>29
<1>33. \A a, b \in Boxes : Stab(a, b) /\ Covered(c, a, b) =>
          \E j \in 1 .. Len(new) : Covered(new[j], a, b)'
  <2>1. SUFFICES ASSUME NEW a \in Boxes, NEW b \in Boxes, Stab(a, b), Covered(c, a, b)
                 PROVE  Covered(c1, a, b)' \/ Covered(t, a, b)'
    BY <1>29
  <2>2. a \in Content(c.I) /\ b \in Content(c.P)
    BY <2>1, <1>22 DEF Covered
  <2>3. CASE b \in Lesser
    <3>1. lo(a, c.d) <= lo(b, c.d) /\ lo(b, c.d) <= hi(a, c.d)
      BY <2>1, <1>12, <1>13 DEF Stab, Overlap
    <3>2. c.lo <= lo(b, c.d) /\ lo(b, c.d) < mi
      BY <2>2, <2>3, <1>4, <1>24
    <3>3. lo(a, c.d) \in Int /\ hi(a, c.d) \in Int /\ lo(b, c.d) \in Int
      BY <1>12, Extents
    <3>4. ~ (lo(a, c.d) >= mi \/ hi(a, c.d) < c.lo)
      BY <3>1, <3>2, <3>3, <1>12, <1>14
    <3>5. a \in Reach
      BY <3>4, <1>5
    <3> QED
      BY <3>5, <2>2, <2>3, <1>23, <1>26 DEF Covered
  <2>4. CASE b \notin Lesser
    BY <2>2, <2>4, <1>21, <1>23 DEF Covered
  <2> QED
    BY <2>3, <2>4
<1>34. Sparing(c)
  BY <1>16 DEF Sparing
<1>35. UNCHANGED <<build, ext, tasks, reported>>
  BY <1>11
<1>36. calls # <<>> /\ calls' = Below \o new /\ ~ build.omp /\ mem' \in Memory /\ new \in Seq(Frames)
  BY <1>15, <1>10, <1>11, <1>12, <1>29
<1> QED
  BY <1>1, <1>30, <1>31, <1>32, <1>33, <1>34, <1>35, <1>36, SplitStep

(* The points of the upper half: all that were kept are passed on. *)
LEMMA UpperInv == ASSUME IInv, Upper PROVE IInv'
<1>1. PICK c : c = Top
  OBVIOUS
<1>2. PICK Reach : Reach = {b \in Boxes : ~ (lo(b, c.d) >= c.hi \/ hi(b, c.d) < c.mi)}
  OBVIOUS
<1>3. PICK Pm : Pm = Slice(c.P.arr, c.Pm, c.P.e)
  OBVIOUS
<1>4. PICK Im : Im = First(c.I, Reach)
  OBVIOUS
<1>5. PICK p : p = Im.e
  OBVIOUS
<1>6. PICK t : t = IF Im # c.I \/ Pm # c.P THEN Call(Im, Pm, c.mi, c.hi, c.d)
                   ELSE Call(Im, Pm, 0, Far, c.d - 1)
  OBVIOUS
<1>7. PICK new : new = <<t>>
  OBVIOUS
<1>8. /\ calls # <<>> /\ c.pc = "upper" /\ UNCHANGED <<build, ext, tasks, reported>>
      /\ \E I \in Sifted(c.I, Reach) : mem' = [mem EXCEPT ![c.I.arr] = I]
      /\ calls' = Append(Below, t)
  BY <1>1, <1>2, <1>3, <1>4, <1>6 DEF Upper
<1>9. /\ c \in Frames /\ Framed(c) /\ Bounded(c) /\ c.I \in Slices /\ c.P \in Slices
      /\ Points(c) \in Slices /\ ~ build.omp
  BY <1>1, <1>8, Running
<1>10. /\ Typed /\ ext \in Scenes /\ mem \in Memory
       /\ c.I.b <= c.I.e /\ c.P.b <= c.P.e /\ c.I.arr # c.P.arr /\ c.Pm \in c.P.b .. c.P.e
       /\ c.mi \in Int /\ c.hi \in Int /\ c.d \in 0 .. Dim /\ c.d > 0
  BY <1>8, <1>9 DEF Framed, IInv, Typed, Frames
<1>11. c.d \in 1 .. Dim
  BY <1>10, HybridAssumption
<1>12. PICK f \in Sifted(c.I, Reach) : mem' = [mem EXCEPT ![c.I.arr] = f]
  BY <1>8
<1>a. /\ mem' \in Memory /\ mem'[c.I.arr] \in Sifted(c.I, Reach)
      /\ \A x \in Arrays : x # c.I.arr => mem'[x] = mem[x]
  <2>1. Typed /\ c.I \in Slices /\ c.I.b <= c.I.e
    BY <1>9, <1>10
  <2> QED
    BY <2>1, <1>12, SiftFrame
<1>13. /\ mem' \in Memory
       /\ \A h \in Slices : Within(c.I, h) \/ Apart(c.I, h) => Content(h)' = Content(h)
       /\ Content(Slice(c.I.arr, c.I.b, p))' = Content(c.I) \cap Reach
       /\ p \in c.I.b .. c.I.e
  <2>1. p = First(c.I, Reach).e /\ Typed /\ c.I \in Slices /\ c.I.b <= c.I.e
    BY <1>4, <1>5, <1>9, <1>10
  <2> QED
    BY <2>1, <1>a, SiftSpares
<1>14. Im \in Slices /\ Im = Slice(c.I.arr, c.I.b, p) /\ Im.arr = c.I.arr /\ Im.b = c.I.b
  BY <1>4, <1>5, <1>9, <1>10, <1>12, SiftParts DEF Slice
<1>15. /\ Pm = Points(c) /\ Pm \in Slices /\ Pm.arr = c.P.arr /\ Pm.b = c.Pm /\ Pm.e = c.P.e
  BY <1>3, <1>8, <1>9 DEF Points, Slice
<1>16. /\ Within(Im, c.I) /\ Within(Pm, c.P) /\ Apart(c.I, Pm)
       /\ Im.b <= Im.e /\ Pm.b <= Pm.e /\ Im.arr # Pm.arr
  BY <1>5, <1>9, <1>10, <1>13, <1>14, <1>15 DEF Within, Apart, Slices
<1>17. Content(Im)' = Content(c.I) \cap Reach /\ Content(Pm)' = Content(Pm)
  <2>1. Content(Im)' = Content(Slice(c.I.arr, c.I.b, p))'
    BY <1>14
  <2> QED
    BY <2>1, <1>13, <1>15, <1>16
<1>18. \A b \in Content(Pm) : b \in Boxes /\ c.mi <= lo(b, c.d) /\ lo(b, c.d) < c.hi /\ lo(b, c.d) \in Int
  <2>1. Content(Pm) \subseteq Boxes
    BY <1>10, <1>15, ContentBoxes
  <2> QED
    BY <2>1, <1>8, <1>9, <1>10, <1>15, Extents DEF Bounded
<1>19. t \in Frames /\ t.I = Im /\ t.P = Pm /\ Points(t) = Pm /\ Framed(t) /\ Bounded(t)'
  <2>1. UNCHANGED ext /\ Typed /\ mem' \in Memory
    BY <1>a, <1>8, <1>10
  <2>2. Half(Im, Pm, c.mi, c.hi, c.d)'
    <3>1. /\ Im \in Slices /\ Pm \in Slices /\ Im.b <= Im.e /\ Pm.b <= Pm.e /\ Im.arr # Pm.arr
          /\ c.mi \in Int /\ c.hi \in Int /\ c.d \in 1 .. Dim
      BY <1>10, <1>11, <1>14, <1>15, <1>16
    <3>2. \A b \in Content(Pm)' : c.mi <= lo(b, c.d) /\ lo(b, c.d) < c.hi
      BY <1>17, <1>18
    <3> QED
      BY <3>1, <3>2, <2>1 DEF Half, Slices, lo
  <2>3. t = Call(Im, Pm, c.mi, c.hi, c.d) \/ t = Call(Im, Pm, 0, Far, c.d - 1)
    BY <1>6
  <2> QED
    BY <2>1, <2>2, <2>3, PartCall
<1>20. /\ new \in Seq(Frames) /\ 1 .. Len(new) = {1} /\ new[1] = t
  BY <1>7, <1>19
<1>21. calls' = Below \o new
  <2>1. Below \in Seq(Frames)
    BY <1>8, <1>10, Standing
  <2> QED
    BY <2>1, <1>7, <1>8, <1>19, AppendIsConcat
<1>22. \A j \in 1 .. Len(new) : Framed(new[j]) /\ Bounded(new[j])'
  BY <1>19, <1>20
<1>23. \A j \in 1 .. Len(new) : \A g \in {new[j].I, new[j].P} : \E h \in {c.I, c.P} : Within(g, h)
  BY <1>16, <1>19, <1>20
<1>24. \A i, j \in 1 .. Len(new) : i < j => Lends(new[i], new[j])
  BY <1>20
<1>25. \A a, b \in Boxes : Stab(a, b) /\ Covered(c, a, b) =>
          \E j \in 1 .. Len(new) : Covered(new[j], a, b)'
  <2>1. SUFFICES ASSUME NEW a \in Boxes, NEW b \in Boxes, Stab(a, b), Covered(c, a, b)
                 PROVE  Covered(t, a, b)'
    BY <1>20
  <2>2. a \in Content(c.I) /\ b \in Content(Pm)
    BY <2>1, <1>15 DEF Covered
  <2>3. lo(a, c.d) <= lo(b, c.d) /\ lo(b, c.d) <= hi(a, c.d)
    BY <2>1, <1>10, <1>11 DEF Stab, Overlap
  <2>4. lo(a, c.d) \in Int /\ hi(a, c.d) \in Int
    BY <1>10, Extents
  <2>5. c.mi <= lo(b, c.d) /\ lo(b, c.d) < c.hi /\ lo(b, c.d) \in Int
    BY <2>2, <1>18
  <2>6. ~ (lo(a, c.d) >= c.hi \/ hi(a, c.d) < c.mi)
    BY <2>3, <2>4, <2>5, <1>10
  <2>7. a \in Reach
    BY <2>6, <1>2
  <2> QED
    BY <2>2, <2>7, <1>17, <1>19 DEF Covered
<1>26. Sparing(c)
  BY <1>13 DEF Sparing
<1>27. UNCHANGED <<build, ext, tasks, reported>>
  BY <1>8
<1>28. calls # <<>> /\ calls' = Below \o new /\ ~ build.omp /\ mem' \in Memory /\ new \in Seq(Frames)
  BY <1>8, <1>9, <1>13, <1>20, <1>21
<1> QED
  BY <1>1, <1>22, <1>23, <1>24, <1>25, <1>26, <1>27, <1>28, SplitStep

-----------------------------------------------------------------------------
(* At first every box is in both arrays. *)
LEMMA InitWhole ==
    ASSUME Init
    PROVE  mem \in Memory /\ \A x \in Arrays : Whole(x) \in Slices /\ Content(Whole(x)) = Boxes
<1> USE Counting
<1>1. PICK order \in [IndexSet -> Boxes] :
          /\ \A j, k \in IndexSet : j < k => order[j] < order[k]
          /\ mem = [boxes |-> order, copy |-> order]
  BY DEF Init
<1>2. mem \in Memory /\ \A x \in Arrays : mem[x] = order
  BY <1>1 DEF Memory, Arrays
<1>3. order \in Injection(IndexSet, Boxes)
  <2>1. ASSUME NEW j \in IndexSet, NEW k \in IndexSet, order[j] = order[k] PROVE j = k
    <3>1. \A b \in Boxes : b \in Int
      <4>1. Boxes \subseteq Nat
        BY HybridAssumption
      <4>2. TAKE b \in Boxes
      <4>3. b \in Nat
        BY <4>1
      <4> QED
        BY <4>3
    <3>2. order[j] \in Int /\ order[k] \in Int
      <4>1. order[j] \in Boxes /\ order[k] \in Boxes
        OBVIOUS
      <4> HIDE Counting
      <4> QED
        BY <4>1, <3>1, Zenon
    <3>3. ~ (order[j] < order[k]) /\ ~ (order[k] < order[j])
      BY <2>1, <3>2
    <3>4. ~ (j < k) /\ ~ (k < j)
      BY <3>3, <1>1
    <3> QED
      BY <3>4
  <2> QED
    BY <2>1 DEF Injection, IsInjective
<1>4. \A b \in Boxes : \E k \in IndexSet : order[k] = b
  <2>1. IsFiniteSet(Boxes) /\ Cardinality(IndexSet) = Cardinality(Boxes)
    <3>1. Count \in Nat /\ IndexSet = 1 .. Count /\ IsFiniteSet(Boxes)
      BY HybridAssumption
    <3>2. Cardinality(1 .. Count) = IF 1 > Count THEN 0 ELSE Count - 1 + 1
      <4> HIDE DEF Count
      <4>1. 1 \in Int /\ Count \in Int
        BY <3>1
      <4> QED
        BY <4>1, FS_Interval
    <3>3. Cardinality(1 .. Count) = Count
      <4> HIDE DEF Count
      <4> QED
        BY <3>1, <3>2
    <3> QED
      BY <3>1, <3>3 DEF Count
  <2>2. order \in Surjection(IndexSet, Boxes)
    BY <1>3, <2>1, FS_Injection
  <2> QED
    BY <2>2 DEF Surjection
<1>5. ASSUME NEW x \in Arrays PROVE Whole(x) \in Slices /\ Content(Whole(x)) = Boxes
  <2>1. Whole(x) = Slice(x, 1, Count + 1) /\ Whole(x) \in Slices
    BY DEF Whole, Slice, Slices, Count
  <2>2. Content(Whole(x)) = {order[k] : k \in 1 .. Count + 1 - 1}
    BY <2>1, <1>2 DEF Content, Slice
  <2>3. 1 .. Count + 1 - 1 = IndexSet
    <3> HIDE DEF Count
    <3> QED
      BY Counting
  <2>4. {order[k] : k \in IndexSet} = Boxes
    BY <1>4
  <2> QED
    BY <2>1, <2>2, <2>3, <2>4
<1> QED
  BY <1>2, <1>5

(* The first call has all pairs. *)
LEMMA InitInv == ASSUME Init PROVE IInv
<1>1. /\ mem \in Memory
      /\ Whole("boxes") \in Slices /\ Content(Whole("boxes")) = Boxes
      /\ Whole("copy") \in Slices /\ Content(Whole("copy")) = Boxes
  BY InitWhole DEF Arrays
<1>2. PICK c : c = Call(Whole("boxes"), Whole("copy"), 0, Far, Dim)
  OBVIOUS
<1>3. /\ build \in Builds /\ ext \in Scenes /\ calls = <<c>> /\ tasks = <<>> /\ reported = {}
  BY <1>2 DEF Init
<1>4. Dim \in 0 .. Dim /\ 0 \in Int /\ Far \in Int
  BY HybridAssumption
<1>5. /\ Whole("boxes").b <= Whole("boxes").e /\ Whole("copy").b <= Whole("copy").e
      /\ Whole("boxes").arr # Whole("copy").arr
  <2>1. 1 <= Count + 1
    <3> HIDE DEF Count
    <3> QED
      BY Counting
  <2> QED
    BY <2>1 DEF Whole, Slice, Count
<1>6. /\ c \in Frames /\ c.I = Whole("boxes") /\ c.P = Whole("copy") /\ c.lo = 0 /\ c.hi = Far
      /\ c.d = Dim /\ c.pc = "enter" /\ Points(c) = Whole("copy") /\ Framed(c)
  BY <1>1, <1>2, <1>4, <1>5, NewCall
<1>7. Bounded(c)
  <2>1. \A b \in Boxes : 0 <= lo(b, Dim) /\ lo(b, Dim) < Far
    BY <1>3, <1>4, Extents
  <2> QED
    BY <2>1, <1>1, <1>6 DEF Bounded
<1>8. DOMAIN calls = {1} /\ calls[1] = c /\ DOMAIN tasks = {}
  BY <1>3
<1>9. Typed
  BY <1>1, <1>3, <1>6, EmptySeq DEF Typed
<1>10. Each /\ Stacked
  BY <1>6, <1>7, <1>8 DEF Each, Stacked
<1>11. Serial
  BY <1>6, <1>8 DEF Serial
<1>12. Caught
  BY <1>1, <1>6, <1>8 DEF Caught, Covered
<1> QED
  BY <1>9, <1>10, <1>11, <1>12 DEF IInv

(* A step that changes nothing. *)
LEMMA StutterInv == ASSUME IInv, UNCHANGED vars PROVE IInv'
<1>1. Typed' /\ Stacked'
  BY DEF IInv, vars, Typed, Stacked, Lends, Lent, Within, Slice
<1>2. Each' /\ Serial'
  BY DEF IInv, vars, Each, Serial, Framed, Bounded, Content, Points, Slice, lo
<1>3. Caught'
  <2>1. Caught /\ UNCHANGED <<build, ext, mem, calls, tasks, reported>>
    BY DEF IInv, vars
  <2>2. \A a, b : Stab(a, b)' = Stab(a, b)
    BY <2>1 DEF Stab, Overlap, PLT, lo, hi
  <2>3. \A a, b : Told(a, b)' = Told(a, b)
    BY <2>1 DEF Told
  <2>4. \A a, b : \A i \in DOMAIN calls : Covered(calls[i], a, b)' <=> Covered(calls[i], a, b)
    BY <2>1 DEF Covered, Content, Points, Slice
  <2>5. \A a, b : \A t \in DOMAIN tasks : Pending(tasks[t], a, b)' <=> Pending(tasks[t], a, b)
    BY <2>1 DEF Pending, Content
  <2> QED
    BY <2>1, <2>2, <2>3, <2>4, <2>5 DEF Caught
<1> QED
  BY <1>1, <1>2, <1>3 DEF IInv

(* The invariant is inductive. *)
LEMMA Inductive == ASSUME SmallTasks PROVE Spec => []IInv
<1>1. Init => IInv
  BY InitInv
<1>2. ASSUME IInv, [Next]_vars PROVE IInv'
  <2>1. CASE Return
    BY <1>2, <2>1, ReturnInv
  <2>2. CASE Leaf
    BY <1>2, <2>2, LeafInv
  <2>3. CASE Inside
    BY <1>2, <2>3, InsideInv
  <2>4. CASE Lower
    BY <1>2, <2>4, LowerInv
  <2>5. CASE Upper
    BY <1>2, <2>5, UpperInv
  <2>6. ASSUME NEW t \in DOMAIN tasks, CopyIntervals(t) \/ CopyPointsAndScan(t) PROVE IInv'
    BY <1>2, <2>6, TaskInv
  <2>7. CASE UNCHANGED vars
    BY <1>2, <2>7, StutterInv
  <2> QED
    BY <1>2, <2>1, <2>2, <2>3, <2>4, <2>5, <2>6, <2>7 DEF Next
<1>3. IInv /\ [Next]_vars => IInv'
  BY <1>2
<1> QED
  BY <1>1, <1>3, PTL DEF Spec

(* What the recursion does keep with every split (hyb.c: stream): whatever
   medians it picks and however it reorders the arrays it shares with its
   callers, when it has returned and the tasks have ended every overlap of two
   boxes of which one has its lower corner in the other is reported. *)
THEOREM StabbedReported == ASSUME SmallTasks PROVE Spec => []Stabbed
<1>1. IInv => Stabbed
  <2>1. SUFFICES ASSUME IInv, Finished, NEW a \in Boxes, NEW b \in Boxes, Stab(a, b)
                 PROVE  Told(a, b)
    BY DEF Stabbed, Stab, Told
  <2>2. calls = <<>> /\ \A t \in DOMAIN tasks : tasks[t].pc = "done"
    BY <2>1 DEF Finished
  <2>3. /\ ~ \E i \in DOMAIN calls : Covered(calls[i], a, b)
        /\ ~ \E t \in DOMAIN tasks : Pending(tasks[t], a, b)
    BY <2>2 DEF Pending
  <2> QED
    BY <2>1, <2>3 DEF IInv, Caught
<1> QED
  <2>1. Spec => []IInv
    BY Inductive
  <2> QED
    BY <1>1, <2>1, PTL

-----------------------------------------------------------------------------
(* What happens below the cutoff, with OpenMP or without: one scan. *)
Start == Call(Whole("boxes"), Whole("copy"), 0, Far, Dim)
Scanned == {<<1, x[1], x[2]>> : x \in ScanOf(Boxes, Boxes, Dim)}

OneTask(t) ==
    /\ t \in Tasks /\ tasks = <<t>> /\ t.I = Whole("boxes") /\ t.P = Whole("copy") /\ t.d = Dim
    /\ t.pc = "copied" => t.copied = Boxes
    /\ reported = IF t.pc = "done" THEN Scanned ELSE {}

OneScan ==
    /\ ext \in Scenes
    /\ Count < build.cutoff =>
        /\ Content(Whole("boxes")) = Boxes /\ Content(Whole("copy")) = Boxes
        /\ \/ Typed /\ calls = <<Start>> /\ tasks = <<>> /\ reported = {}
           \/ calls = <<>> /\ tasks = <<>> /\ reported = {} /\ Boxes = {}
           \/ calls = <<>> /\ \E t : OneTask(t)

(* The scan of all boxes finds the overlaps, each in the order of PLT. *)
LEMMA ScanPairs ==
    ASSUME ext \in Scenes, NEW a \in Boxes, NEW b \in Boxes
    PROVE  <<a, b>> \in ScanOf(Boxes, Boxes, Dim) <=> Overlap(a, b) /\ PLT(a, b)
<1>1. Dim \in Nat /\ 0 \in 0 .. Dim
  BY HybridAssumption
<1>2. \A n : n \in 0 .. Dim <=> n = 0 \/ n \in 1 .. Dim
  BY <1>1
<1>3. /\ lo(a, 0) \in Int /\ hi(a, 0) \in Int /\ lo(a, 0) < hi(a, 0)
      /\ lo(b, 0) \in Int /\ hi(b, 0) \in Int /\ lo(b, 0) < hi(b, 0)
      /\ a \in Int /\ b \in Int
  BY <1>1, Extents
<1>4. PLT(a, b) <=> a # b /\ ~ PLT(b, a)
  BY <1>3 DEF PLT
<1>5. <<a, b>> \in ScanOf(Boxes, Boxes, Dim) <=>
         PLT(a, b) /\ lo(b, 0) < hi(a, 0) /\ Meet(a, b, Dim)
  <2>1. <<a, b>>[1] = a /\ <<a, b>>[2] = b /\ <<a, b>> \in Boxes \X Boxes
    OBVIOUS
  <2>2. <<a, b>> \in OneWay(Boxes, Boxes, Dim) <=>
           a # b /\ ~ PLT(b, a) /\ lo(b, 0) < hi(a, 0) /\ Meet(a, b, Dim)
    BY <2>1 DEF OneWay
  <2>3. <<a, b>> \in TwoWay(Boxes, Boxes, Dim) <=>
           PLT(a, b) /\ lo(b, 0) < hi(a, 0) /\ Meet(a, b, Dim)
    BY <2>1 DEF TwoWay
  <2> QED
    BY <2>2, <2>3, <1>4 DEF ScanOf
<1>6. PLT(a, b) => lo(a, 0) <= lo(b, 0)
  BY <1>3 DEF PLT
<1>7. ASSUME PLT(a, b), lo(b, 0) < hi(a, 0), Meet(a, b, Dim) PROVE Overlap(a, b)
  <2>1. a # b
    BY <1>4, <1>7
  <2>2. lo(a, 0) <= hi(b, 0) /\ lo(b, 0) <= hi(a, 0) /\ lo(a, 0) # hi(b, 0) /\ lo(b, 0) # hi(a, 0)
    BY <1>3, <1>6, <1>7
  <2> QED
    BY <2>1, <2>2, <1>2, <1>7 DEF Overlap, Meet
<1>8. ASSUME PLT(a, b), Overlap(a, b) PROVE lo(b, 0) < hi(a, 0) /\ Meet(a, b, Dim)
  <2>1. lo(b, 0) <= hi(a, 0) /\ lo(b, 0) # hi(a, 0)
    BY <1>1, <1>8 DEF Overlap
  <2> QED
    BY <2>1, <1>2, <1>3, <1>8 DEF Overlap, Meet
<1> QED
  BY <1>5, <1>7, <1>8

(* So it reports a pair of boxes, one way round, if they overlap and only then. *)
LEMMA ScannedPairs ==
    ASSUME ext \in Scenes, NEW a \in Boxes, NEW b \in Boxes
    PROVE  Overlap(a, b) <=> \E r \in Scanned : {r[2], r[3]} = {a, b}
<1>1. ASSUME NEW x \in Boxes, NEW y \in Boxes, Overlap(x, y), PLT(x, y)
      PROVE  \E r \in Scanned : {r[2], r[3]} = {x, y}
  <2> DEFINE r == <<1, x, y>>
  <2>1. <<x, y>> \in ScanOf(Boxes, Boxes, Dim)
    BY <1>1, ScanPairs
  <2>2. r \in Scanned
    <3>1. <<x, y>>[1] = x /\ <<x, y>>[2] = y
      OBVIOUS
    <3> QED
      BY <2>1, <3>1 DEF Scanned
  <2>3. {r[2], r[3]} = {x, y}
    OBVIOUS
  <2> HIDE DEF r
  <2> QED
    BY <2>2, <2>3
<1>2. ASSUME Overlap(a, b) PROVE Overlap(b, a) /\ (PLT(a, b) \/ PLT(b, a))
  <2>1. 0 \in 0 .. Dim
    BY HybridAssumption
  <2>2. lo(a, 0) \in Int /\ lo(b, 0) \in Int /\ a \in Int /\ b \in Int
    BY <2>1, Extents
  <2> QED
    BY <1>2, <2>2 DEF Overlap, PLT
<1>3. ASSUME NEW r \in Scanned, {r[2], r[3]} = {a, b} PROVE Overlap(a, b)
  <2>1. PICK x \in ScanOf(Boxes, Boxes, Dim) : r = <<1, x[1], x[2]>>
    BY DEF Scanned
  <2>2. x \in Boxes \X Boxes
    BY DEF ScanOf, OneWay, TwoWay
  <2>3. x[1] \in Boxes /\ x[2] \in Boxes /\ x = <<x[1], x[2]>>
    BY <2>2
  <2>4. Overlap(x[1], x[2])
    BY <2>3, ScanPairs
  <2>5. {x[1], x[2]} = {a, b}
    BY <2>1, <1>3
  <2>6. (x[1] = a /\ x[2] = b) \/ (x[1] = b /\ x[2] = a)
    BY <2>4, <2>5 DEF Overlap
  <2> QED
    BY <2>4, <2>6 DEF Overlap
<1>4. CASE Overlap(a, b)
  <2>1. CASE PLT(a, b)
    BY <1>1, <1>4, <2>1
  <2>2. CASE PLT(b, a)
    <3>1. PICK r \in Scanned : {r[2], r[3]} = {b, a}
      BY <1>1, <1>2, <1>4, <2>2
    <3>2. {r[2], r[3]} = {a, b}
      BY <3>1
    <3>3. \E s \in Scanned : {s[2], s[3]} = {a, b}
      BY <3>2
    <3> QED
      BY <3>3, <1>4
  <2> QED
    BY <1>2, <1>4, <2>1, <2>2
<1> QED
  BY <1>3, <1>4

(* The only call is a leaf, or has no boxes. *)
LEMMA OneScanStep == ASSUME OneScan, [Next]_vars PROVE OneScan'
<1>1. /\ build' = build /\ ext' = ext
  BY DEF Next, vars, Return, Leaf, Inside, Lower, Upper, CopyIntervals, CopyPointsAndScan
<1>2. /\ ScanOf(Boxes, Boxes, Dim)' = ScanOf(Boxes, Boxes, Dim) /\ Scanned' = Scanned
      /\ ext' \in Scenes
  BY <1>1 DEF OneScan, Scanned, ScanOf, OneWay, TwoWay, Meet, PLT, lo, hi
<1>3. SUFFICES ASSUME Count < build.cutoff
               PROVE  /\ Content(Whole("boxes"))' = Boxes /\ Content(Whole("copy"))' = Boxes
                      /\ \/ Typed' /\ calls' = <<Start>> /\ tasks' = <<>> /\ reported' = {}
                         \/ calls' = <<>> /\ tasks' = <<>> /\ reported' = {} /\ Boxes = {}
                         \/ calls' = <<>> /\ \E t : OneTask(t)'
  BY <1>1, <1>2 DEF OneScan, Content, Start, Call, Whole, Slice, Typed
<1>4. Content(Whole("boxes")) = Boxes /\ Content(Whole("copy")) = Boxes
  BY <1>3 DEF OneScan
<1>5. \A t : mem' = mem => Content(t)' = Content(t)
  BY DEF Content
<1>6. /\ Start.I = Whole("boxes") /\ Start.P = Whole("copy") /\ Start.d = Dim /\ Start.pc = "enter"
      /\ Size(Start.I) = Count /\ Size(Start.P) = Count
  <2>1. /\ Start.I = Whole("boxes") /\ Start.P = Whole("copy") /\ Start.d = Dim /\ Start.pc = "enter"
    BY DEF Start, Call
  <2>2. Size(Whole("boxes")) = (Count + 1) - 1 /\ Size(Whole("copy")) = (Count + 1) - 1
    BY DEF Whole, Slice, Size, Count
  <2>3. (Count + 1) - 1 = Count
    <3> HIDE DEF Count
    <3> QED
      BY Counting
  <2> QED
    BY <2>1, <2>2, <2>3
<1>7. CASE Typed /\ calls = <<Start>> /\ tasks = <<>> /\ reported = {}
  <2>1. Top = Start /\ Below = <<>> /\ DOMAIN tasks = {}
    <3>1. Len(<<Start>>) = 1 /\ <<Start>>[1] = Start /\ SubSeq(<<Start>>, 1, 0) = <<>>
      OBVIOUS
    <3> QED
      BY <3>1, <1>7 DEF Top, Below
  <2>2. IsLeaf(Top)
    BY <1>3, <1>6, <2>1 DEF IsLeaf
  <2>3. CASE Return
    <3>1. Count <= 0
      BY <2>1, <2>3, <1>6 DEF Return, IsEmpty
    <3>2. Boxes = {}
      <4>1. IsFiniteSet(Boxes) /\ Count = 0
        <5> HIDE DEF Count
        <5> QED
          BY <3>1, Counting, HybridAssumption
      <4> QED
        BY <4>1, FS_EmptySet DEF Count
    <3> QED
      BY <3>2, <2>1, <2>3, <1>4, <1>5, <1>7 DEF Return
  <2>4. CASE Leaf
    <3>1. PICK t : t = [I |-> Start.I, P |-> Start.P, d |-> Start.d, copied |-> {},
                        pc |-> IF build.omp THEN "new" ELSE "done"]
      OBVIOUS
    <3>2. /\ calls' = <<>> /\ tasks' = Append(tasks, t)
          /\ build.omp => mem' = mem
          /\ ~ build.omp => \E P \in Sifted(Start.P, Boxes), I \in Sifted(Start.I, Boxes) :
                  mem' = [mem EXCEPT ![Start.P.arr] = P, ![Start.I.arr] = I]
          /\ reported' = IF build.omp THEN reported
                         ELSE reported \cup {<<Len(tasks) + 1, x[1], x[2]>> :
                                x \in ScanOf(Content(Start.I), Content(Start.P), Start.d)}
      BY <2>1, <2>4, <3>1 DEF Leaf
    <3>3. t.I = Whole("boxes") /\ t.P = Whole("copy") /\ t.d = Dim
          /\ t.pc = IF build.omp THEN "new" ELSE "done"
      BY <3>1, <1>6
    <3>4. tasks' = <<t>> /\ Len(tasks) + 1 = 1
      BY <3>2, <1>7
    <3>5. ScanOf(Content(Start.I), Content(Start.P), Start.d) = ScanOf(Boxes, Boxes, Dim)
      BY <1>4, <1>6
    <3>6. reported' = IF t.pc = "done" THEN Scanned ELSE {}
      BY <3>2, <3>3, <3>4, <3>5, <1>7 DEF Scanned
    <3>7. /\ Dim \in 0 .. Dim /\ Whole("boxes") \in Slices /\ Whole("copy") \in Slices
          /\ Whole("boxes").b <= Whole("boxes").e /\ Whole("copy").b <= Whole("copy").e
          /\ Whole("boxes").arr # Whole("copy").arr
      <4>1. Dim \in 0 .. Dim
        BY HybridAssumption
      <4>2. Whole("boxes") = Slice("boxes", 1, Count + 1) /\ Whole("copy") = Slice("copy", 1, Count + 1)
        BY DEF Whole, Count
      <4>3. 1 \in 1 .. Count + 1 /\ Count + 1 \in 1 .. Count + 1 /\ 1 <= Count + 1
        <5> HIDE DEF Count
        <5> QED
          BY Counting
      <4> QED
        BY <4>1, <4>2, <4>3 DEF Slice, Slices, Arrays
    <3>8. t \in Tasks
      BY <3>1, <3>7, <1>6 DEF Tasks
    <3>9. OneTask(t)'
      BY <3>3, <3>4, <3>6, <3>8, <1>2 DEF OneTask, Whole, Slice, Tasks, Slices
    <3>10. Content(Whole("boxes"))' = Boxes /\ Content(Whole("copy"))' = Boxes
      <4>1. CASE build.omp
        BY <4>1, <3>2, <1>4, <1>5
      <4>2. CASE ~ build.omp
        <5>1. PICK g \in Slices : g = Whole("boxes")
          BY <3>7
        <5>2. PICK h \in Slices : h = Whole("copy")
          BY <3>7
        <5>3. /\ Typed /\ g.b <= g.e /\ h.b <= h.e /\ g.arr # h.arr
          BY <5>1, <5>2, <3>7, <1>7
        <5>4. \E P \in Sifted(h, Boxes), I \in Sifted(g, Boxes) :
                 mem' = [mem EXCEPT ![h.arr] = P, ![g.arr] = I]
          BY <4>2, <5>1, <5>2, <3>2, <1>6
        <5>5. mem'[g.arr] \in Sifted(g, Boxes) /\ mem'[h.arr] \in Sifted(h, Boxes)
          BY <5>3, <5>4, TwiceFrame
        <5>6. PICK p : p = First(g, Boxes).e
          OBVIOUS
        <5>7. PICK q : q = First(h, Boxes).e
          OBVIOUS
        <5>8. \A x \in Slices : (\A y \in {g, h} : Within(y, x) \/ Apart(y, x)) =>
                 Content(x)' = Content(x)
          BY <5>3, <5>5, <5>6, <5>7, SiftTwice
        <5>9. Within(g, g) /\ Within(h, h) /\ Apart(g, h) /\ Apart(h, g)
          BY <5>3, Counting DEF Within, Apart, Slices
        <5>10. Content(g)' = Content(g) /\ Content(h)' = Content(h)
          BY <5>8, <5>9
        <5>11. Content(g) = Boxes /\ Content(h) = Boxes
          BY <5>1, <5>2, <1>4
        <5>12. Content(Whole("boxes"))' = Content(g)' /\ Content(Whole("copy"))' = Content(h)'
          BY <5>1, <5>2 DEF Content, Whole, Slice
        <5> QED
          BY <5>10, <5>11, <5>12
      <4> QED
        BY <4>1, <4>2
    <3> QED
      BY <3>2, <3>9, <3>10
  <2>5. CASE UNCHANGED vars
    BY <2>5, <1>4, <1>5, <1>7 DEF vars, Typed
  <2>6. ~ Inside /\ ~ Lower /\ ~ Upper
    BY <2>1, <2>2, <1>6 DEF Inside, Lower, Upper
  <2> QED
    BY <2>1, <2>3, <2>4, <2>5, <2>6 DEF Next
<1>8. CASE calls = <<>> /\ tasks = <<>> /\ reported = {} /\ Boxes = {}
  <2>1. UNCHANGED vars
    BY <1>8 DEF Next, Return, Leaf, Inside, Lower, Upper
  <2> QED
    BY <2>1, <1>4, <1>5, <1>8 DEF vars
<1>9. CASE calls = <<>> /\ \E t : OneTask(t)
  <2>1. PICK t : OneTask(t)
    BY <1>9
  <2>2. tasks = <<t>> /\ DOMAIN tasks = {1} /\ tasks[1] = t
    BY <2>1 DEF OneTask
  <2>3. CASE UNCHANGED vars
    <3>1. OneTask(t)'
      BY <2>1, <2>3, <1>2 DEF OneTask, vars, Whole, Slice
    <3> QED
      BY <3>1, <2>3, <1>4, <1>5, <1>9 DEF vars
  <2>4. CASE CopyIntervals(1)
    <3>1. PICK u : u = [t EXCEPT !.pc = "copied", !.copied = Content(t.I)]
      OBVIOUS
    <3>2. /\ t.pc = "new" /\ tasks' = [tasks EXCEPT ![1] = u]
          /\ UNCHANGED <<mem, calls, reported>>
      BY <2>2, <2>4, <3>1 DEF CopyIntervals
    <3>3. tasks' = <<u>>
      BY <2>2, <3>2
    <3>4. /\ u \in Tasks /\ u.I = t.I /\ u.P = t.P /\ u.d = t.d /\ u.pc = "copied"
          /\ u.copied = Boxes
      <4>1. t \in Tasks /\ Content(t.I) = Boxes
        BY <2>1, <1>4 DEF OneTask
      <4> QED
        BY <4>1, <3>1 DEF Tasks
    <3>5. OneTask(u)'
      BY <2>1, <3>2, <3>3, <3>4, <1>2 DEF OneTask, Whole, Slice, Tasks, Slices
    <3> QED
      BY <3>2, <3>5, <1>4, <1>5, <1>9
  <2>5. CASE CopyPointsAndScan(1)
    <3>1. PICK u : u = [t EXCEPT !.pc = "done"]
      OBVIOUS
    <3>2. /\ t.pc = "copied" /\ tasks' = [tasks EXCEPT ![1] = u]
          /\ reported' = reported \cup {<<1, x[1], x[2]>> : x \in ScanOf(t.copied, Content(t.P), t.d)}
          /\ UNCHANGED <<mem, calls>>
      BY <2>2, <2>5, <3>1 DEF CopyPointsAndScan
    <3>3. tasks' = <<u>>
      BY <2>2, <3>2
    <3>4. u \in Tasks /\ u.I = t.I /\ u.P = t.P /\ u.d = t.d /\ u.pc = "done"
      <4>1. t \in Tasks
        BY <2>1 DEF OneTask
      <4> QED
        BY <4>1, <3>1 DEF Tasks
    <3>5. reported' = Scanned
      <4>1. reported = {} /\ t.copied = Boxes /\ Content(t.P) = Boxes /\ t.d = Dim
        BY <2>1, <3>2, <1>4 DEF OneTask
      <4> QED
        BY <4>1, <3>2 DEF Scanned
    <3>6. OneTask(u)'
      BY <2>1, <3>3, <3>4, <3>5, <1>2 DEF OneTask, Whole, Slice, Tasks, Slices
    <3> QED
      BY <3>2, <3>6, <1>4, <1>5, <1>9
  <2>6. ~ Return /\ ~ Leaf /\ ~ Inside /\ ~ Lower /\ ~ Upper
    BY <1>9 DEF Return, Leaf, Inside, Lower, Upper
  <2> QED
    BY <2>2, <2>3, <2>4, <2>5, <2>6 DEF Next
<1> QED
  BY <1>3, <1>7, <1>8, <1>9 DEF OneScan

(* What hyb.h promises, "report overlaps between n boxes", where it is exact:
   with fewer boxes than the cutoff hybrid runs one scan, or one task, which
   reports the boxes that overlap and no others (hyb.c: onewayscan, twowayscan). *)
THEOREM ScanIsExact == Spec => []ScanExact
<1>1. Init => OneScan
  <2>1. SUFFICES ASSUME Init PROVE OneScan
    OBVIOUS
  <2>2. Content(Whole("boxes")) = Boxes /\ Content(Whole("copy")) = Boxes
    BY <2>1, InitWhole DEF Arrays
  <2>3. Typed
    BY <2>1, InitInv DEF IInv
  <2> QED
    BY <2>1, <2>2, <2>3 DEF Init, OneScan, Start
<1>2. OneScan /\ [Next]_vars => OneScan'
  BY OneScanStep
<1>3. OneScan => ScanExact
  <2>1. SUFFICES ASSUME OneScan, Count < build.cutoff, Finished, NEW a \in Boxes, NEW b \in Boxes
                 PROVE  Overlap(a, b) <=> \E r \in reported : {r[2], r[3]} = {a, b}
    BY DEF ScanExact, Count
  <2>2. PICK t : OneTask(t)
    <3>1. calls = <<>> /\ <<Start>> # <<>>
      BY <2>1 DEF Finished
    <3> QED
      BY <2>1, <3>1 DEF OneScan
  <2>3. t.pc = "done"
    <3>1. tasks = <<t>> /\ 1 \in DOMAIN tasks /\ tasks[1] = t
      BY <2>2 DEF OneTask
    <3> QED
      BY <2>1, <3>1 DEF Finished
  <2>4. reported = Scanned /\ ext \in Scenes
    BY <2>1, <2>2, <2>3 DEF OneTask, OneScan
  <2> QED
    BY <2>4, ScannedPairs
<1> QED
  BY <1>1, <1>2, <1>3, PTL DEF Spec

=============================================================================
