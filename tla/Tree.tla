-------------------------------- MODULE Tree --------------------------------
(***************************************************************************)
(* Red-black trees: the sets and maps of the program (src/set.c, and       *)
(* src/map.c, which differs from it in carrying a value beside the key).   *)
(* Loops over a tree, and pointers to its items, rely on what insertions   *)
(* and deletions do to the items.                                          *)
(*                                                                         *)
(* An item is named by its datum.  Where a deletion copies the datum of    *)
(* one item into another and frees the first, the other takes its name:    *)
(* addresses matter only while an operation runs.                          *)
(***************************************************************************)
EXTENDS Integers, Sequences, FiniteSets

CONSTANT Size   \* data are 1 .. Size

ASSUME TreeAssumption == Size \in Nat

NIL == 0        \* the sentinel, one for all trees of the program
NULL == -1
Data == 1 .. Size
Items == Data \cup {NIL}

VARIABLES
    tree,       \* items linked by l, r and p; the red ones; the root
    last        \* the last operation, its datum and what it left in the sentinel

treeVars == <<tree, last>>

Empty == [root |-> NULL, red |-> {},
          l |-> [n \in Items |-> NIL], r |-> [n \in Items |-> NIL],
          p |-> [n \in Items |-> NULL]]

TreeInit ==
    /\ tree = Empty
    /\ last = [op |-> "none", datum |-> NULL, sentinel |-> NULL]

IsItem(n) == n \notin {NIL, NULL}
Other(d) == IF d = "l" THEN "r" ELSE "l"
Side(t, x) == IF x = t["l"][t.p[x]] THEN "l" ELSE "r"
Black(t, x) == x \notin t.red
Paint(t, reds, blacks) == [t EXCEPT !.red = (@ \cup reds) \ blacks]

RECURSIVE Outmost(_, _, _)
Outmost(t, d, n) == IF t[d][n] = NIL THEN n ELSE Outmost(t, d, t[d][n])

(* Mutant: the inner child learns its parent even if it is the sentinel. *)
RotateLoose(t, d, x) ==
    LET y == t[Other(d)][x]
        inner == t[d][y]
        up == t.p[x]
        rotated == [t EXCEPT ![Other(d)][x] = inner, ![d][y] = x,
                             !.p = [n \in Items |-> IF n = inner THEN x
                                                    ELSE IF n = y THEN up
                                                    ELSE IF n = x THEN y ELSE t.p[n]]]
    IN  IF up = NULL THEN [rotated EXCEPT !.root = y]
        ELSE [rotated EXCEPT ![Side(t, x)][up] = y]

(* set_rotate_l and set_rotate_r: x goes down to side d, its other child up *)
Rotate(t, d, x) ==
    LET y == t[Other(d)][x]
        inner == t[d][y]
        up == t.p[x]
        rotated == [t EXCEPT ![Other(d)][x] = inner, ![d][y] = x,
                             !.p = [n \in Items |-> IF n = inner /\ n # NIL THEN x
                                                    ELSE IF n = y THEN up
                                                    ELSE IF n = x THEN y ELSE t.p[n]]]
    IN  IF up = NULL THEN [rotated EXCEPT !.root = y]
        ELSE [rotated EXCEPT ![Side(t, x)][up] = y]

(* Mutant: the grandparent is not painted when the uncle is red. *)
RECURSIVE InsertFixupPale(_, _)
InsertFixupPale(t, x) ==
    IF x = t.root \/ Black(t, t.p[x]) THEN Paint(t, {}, {t.root})
    ELSE LET up == t.p[x]
             d == Side(t, up)
             uncle == t[Other(d)][t.p[up]]
             low == IF x = t[Other(d)][up] THEN up ELSE x
             t1 == IF low = up THEN Rotate(t, d, up) ELSE t
         IN  IF uncle \in t.red
             THEN InsertFixupPale(Paint(t, {}, {up, uncle}), t.p[up])
             ELSE InsertFixupPale(Rotate(Paint(t1, {t1.p[t1.p[low]]}, {t1.p[low]}),
                                         Other(d), t1.p[t1.p[low]]), low)

(* the loop of SET_Insert, from the new red item x upwards *)
RECURSIVE InsertFixup(_, _)
InsertFixup(t, x) ==
    IF x = t.root \/ Black(t, t.p[x]) THEN Paint(t, {}, {t.root})
    ELSE LET up == t.p[x]
             d == Side(t, up)
             uncle == t[Other(d)][t.p[up]]
             low == IF x = t[Other(d)][up] THEN up ELSE x
             t1 == IF low = up THEN Rotate(t, d, up) ELSE t
         IN  IF uncle \in t.red
             THEN InsertFixup(Paint(t, {t.p[up]}, {up, uncle}), t.p[up])
             ELSE InsertFixup(Rotate(Paint(t1, {t1.p[t1.p[low]]}, {t1.p[low]}),
                                     Other(d), t1.p[t1.p[low]]), low)

(* set_delete_fixup: x is one black item short *)
RECURSIVE DeleteFixup(_, _)
DeleteFixup(t, x) ==
    IF x = t.root \/ x \in t.red THEN Paint(t, {}, {x})
    ELSE LET d == Side(t, x)
             e == Other(d)
             up == t.p[x]
             red == t[e][up] \in t.red
             t1 == IF red THEN Rotate(Paint(t, {up}, {t[e][up]}), d, up) ELSE t
             y == t1[e][up]
             t2 == IF Black(t1, t1[e][y])
                   THEN Rotate(Paint(t1, {y}, {t1[d][y]}), e, y) ELSE t1
             z == t2[e][up]
             t3 == Paint(t2, IF up \in t2.red THEN {z} ELSE {},
                         {up, t2[e][z]} \cup (IF up \in t2.red THEN {} ELSE {z}))
             t4 == Rotate(t3, d, up)
         IN  IF Black(t1, t1["l"][y]) /\ Black(t1, t1["r"][y])
             THEN DeleteFixup(Paint(t1, {y}, {}), up)
             ELSE Paint(t4, {}, {t4.root})

-----------------------------------------------------------------------------
RECURSIVE Seek(_, _, _)
Seek(t, n, k) ==
    IF ~ IsItem(n) \/ n = k THEN n
    ELSE Seek(t, IF k < n THEN t["l"][n] ELSE t["r"][n], k)
SET_Contains(t, k) == Seek(t, t.root, k) = k

RECURSIVE Climb(_, _, _)
Climb(t, d, y) == IF t.p[y] # NULL /\ Side(t, y) = d THEN Climb(t, d, t.p[y]) ELSE t.p[y]

(* Mutant: there is no climbing from an item that hangs on the side of the loop. *)
NeighbourBelow(t, d, n) ==
    IF t[d][n] # NIL THEN Outmost(t, Other(d), t[d][n])
    ELSE IF t.p[n] = NULL \/ Side(t, n) = d THEN NULL
    ELSE t.p[n]

(* SET_First and SET_Last, SET_Next and SET_Prev *)
FirstOn(t, d) == IF ~ IsItem(t.root) THEN NULL ELSE Outmost(t, d, t.root)
Neighbour(t, d, n) ==
    IF t[d][n] # NIL THEN Outmost(t, Other(d), t[d][n])
    ELSE IF t.p[n] = NULL THEN NULL
    ELSE Climb(t, d, n)

RECURSIVE Walk(_, _, _)
Walk(t, d, n) == IF n = NULL THEN <<>> ELSE <<n>> \o Walk(t, d, Neighbour(t, d, n))

(* where SET_Insert hangs the item *)
RECURSIVE Place(_, _, _)
Place(t, n, k) ==
    LET d == IF k < n THEN "l" ELSE "r"
    IN  IF t[d][n] = NIL THEN [t EXCEPT ![d][n] = k, !.p[k] = n] ELSE Place(t, t[d][n], k)

Ended(t) == [t EXCEPT !.p[NIL] = NULL]

(* SET_Insert; a datum already there is not inserted *)
SET_Insert(k) ==
    LET new == [tree EXCEPT !["l"][k] = NIL, !["r"][k] = NIL, !.p[k] = NULL]
        placed == IF IsItem(tree.root) THEN Place(new, new.root, k) ELSE [new EXCEPT !.root = k]
        fixed == InsertFixup(Paint(placed, {k}, {}), k)
    IN  IF SET_Contains(tree, k)
        THEN /\ last' = [op |-> "insert", datum |-> k, sentinel |-> NULL]
             /\ UNCHANGED tree
        ELSE /\ last' = [op |-> "insert", datum |-> k, sentinel |-> fixed.p[NIL]]
             /\ tree' = Ended(fixed)

(* y, which lacks a child, is cut out; x takes its place *)
Unlink(t, y) ==
    LET x == IF t["l"][y] # NIL THEN t["l"][y] ELSE t["r"][y]
        up == t.p[y]
        t1 == [t EXCEPT !.p[x] = up]
        t2 == IF up = NULL THEN [t1 EXCEPT !.root = x] ELSE [t1 EXCEPT ![Side(t, y)][up] = x]
    IN  [t |-> t2, x |-> x]

(* Mutant: the datum of the spared item stays where it was. *)
NamedNot(t, node, y) == t

(* node->data = y->data: node becomes the item of the datum of y *)
Named(t, node, y) ==
    LET Of(n) == IF n = node THEN y ELSE n
        Moved(f) == [n \in Items |-> IF n = y THEN Of(f[node]) ELSE IF n = node THEN f[y] ELSE Of(f[n])]
    IN  [root |-> Of(t.root), red |-> {Of(n) : n \in t.red \ {y}},
         l |-> Moved(t.l), r |-> Moved(t.r), p |-> Moved(t.p)]

(* what SET_Delete makes of an item found *)
Spare(t, node) ==
    IF t["l"][node] = NIL \/ t["r"][node] = NIL THEN node ELSE Outmost(t, "l", t["r"][node])
Deleted(t, node) ==
    LET y == Spare(t, node)
        cut == Unlink(t, y)
        fixed == IF Black(t, y) THEN DeleteFixup(cut.t, cut.x) ELSE cut.t
        named == IF y = node THEN fixed ELSE Named(fixed, node, y)
        gone == [named EXCEPT !.red = @ \ {node}, !["l"][node] = NIL, !["r"][node] = NIL,
                              !.p[node] = NULL]
    IN  gone

SET_Delete(k) ==
    IF SET_Contains(tree, k)
    THEN /\ tree' = Ended(Deleted(tree, k))
         /\ last' = [op |-> "delete", datum |-> k, sentinel |-> Deleted(tree, k).p[NIL]]
    ELSE /\ last' = [op |-> "delete", datum |-> k, sentinel |-> NULL]
         /\ UNCHANGED tree

(* SET_Free, after which the tree may be filled again *)
SET_Free ==
    /\ IsItem(tree.root)
    /\ tree' = Empty
    /\ last' = [op |-> "free", datum |-> NULL, sentinel |-> NULL]

TreeNext == SET_Free \/ \E k \in Data : SET_Insert(k) \/ SET_Delete(k)

TreeSpec == TreeInit /\ [][TreeNext]_treeVars

-----------------------------------------------------------------------------
Content == {k \in Data : SET_Contains(tree, k)}

RECURSIVE Height(_, _)
Height(t, n) ==     \* black items on every path down, -1 if paths differ
    IF n = NIL THEN 0
    ELSE LET a == Height(t, t["l"][n])
             b == Height(t, t["r"][n])
         IN  IF a # b \/ a = -1 THEN -1 ELSE a + (IF Black(t, n) THEN 1 ELSE 0)

(* The items make a red-black tree: parents and children agree, no red item has
   a red child and all paths pass as many black items. *)
Balanced == IsItem(tree.root) =>
    /\ Black(tree, tree.root) /\ tree.p[tree.root] = NULL /\ NIL \notin tree.red
    /\ \A n \in Content : \A d \in {"l", "r"} : tree[d][n] # NIL =>
          /\ tree.p[tree[d][n]] = n
          /\ Black(tree, n) \/ Black(tree, tree[d][n])
    /\ Height(tree, tree.root) # -1

Ascending(S) == CHOOSE s \in [1 .. Cardinality(S) -> S] :
                    \A i \in 1 .. Cardinality(S) - 1 : s[i] < s[i + 1]

(* A loop from SET_First by SET_Next meets every datum that was inserted and not
   deleted, in ascending order and once; one from SET_Last by SET_Prev likewise. *)
LoopsMeetAll ==
    LET up == Ascending(Content)
    IN  /\ Walk(tree, "r", FirstOn(tree, "l")) = up
        /\ Walk(tree, "l", FirstOn(tree, "r")) =
               [i \in 1 .. Len(up) |-> up[Len(up) + 1 - i]]

(* The tree is a set: an operation changes the membership of its datum alone. *)
SetOfData ==
    [][Content' = CASE last'.op = "insert" -> Content \cup {last'.datum}
                    [] last'.op = "free" -> {}
                    [] OTHER -> Content \ {last'.datum}]_treeVars

(* Insertions never write to the sentinel, which all trees share: threads may
   insert into different sets at the same time. *)
InsertSparesSentinel == last.op = "insert" => last.sentinel = NULL
=============================================================================
