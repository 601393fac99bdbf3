------------------------------ MODULE MCHybrid ------------------------------
(***************************************************************************)
(* Three or four boxes; cutoff 2 makes a tree of so few, cutoff 4 leaves   *)
(* them to one scan, or one task.  In every dimension boxes may overlap,   *)
(* touch or lie apart, and share coordinates.                              *)
(***************************************************************************)
EXTENDS Hybrid

Tree == [cutoff |-> 2, omp |-> FALSE]
Task == [cutoff |-> 4, omp |-> TRUE]
TreeAndTask == {Tree, Task}
JustTree == {Tree}

Segments(n) == CASE n = 0 -> {<<1, 3>>, <<2, 4>>, <<3, 4>>}
                 [] n = 1 -> {<<1, 2>>, <<1, 3>>, <<3, 4>>}
                 [] OTHER -> {<<1, 2>>, <<2, 3>>, <<3, 4>>}
BoxOf(s) == [lo |-> [n \in 0 .. Dim |-> s[n][1]], hi |-> [n \in 0 .. Dim |-> s[n][2]]]
AllBoxes == {BoxOf(s) : s \in {t \in [0 .. Dim -> (1 .. 3) \X (2 .. 4)] : \A n \in 0 .. Dim : t[n] \in Segments(n)}}
AllScenes == [Boxes -> AllBoxes]

(* Two rows of bricks on a plane (dimension 2), the front row (1, 2) reaching
   into the back row (3, 4) along dimension 1 and set off along dimension 0. *)
Brick(x, y, w) == [lo |-> <<x, y, 1>>, hi |-> <<x + w, y + 2, 2>>]
Shifted(b) == [lo |-> [n \in 0 .. Dim |-> b.lo[n + 1]], hi |-> [n \in 0 .. Dim |-> b.hi[n + 1]]]
Rows == {[b \in Boxes |->
            Shifted(CASE b = 1 -> Brick(2, 1, 1) [] b = 2 -> Brick(3, 1, 1)
                      [] b = 3 -> Brick(1, 2, 2) [] b = 4 -> Brick(3, 2, 1))]}
=============================================================================
