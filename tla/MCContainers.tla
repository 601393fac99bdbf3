---------------------------- MODULE MCContainers ----------------------------
(***************************************************************************)
(* What the domain stores its state in, one part at a time: a tree of up   *)
(* to Size data; a memory pool of two blocks of three chunks; the          *)
(* identifiers of constraints on three ranks, where UINT_MAX = 9 lets      *)
(* ranks 0 and 1 issue two and rank 2 one before the overflow assertion of *)
(* insert stops them, enough for an identifier to die, wander and be       *)
(* reused on a foreign rank.                                               *)
(***************************************************************************)
EXTENDS Tree, MemPool, ConstraintIds

VARIABLE part

ContainersInit == part \in {"tree", "pool", "ids"} /\ TreeInit /\ PoolInit /\ Init

ContainersNext ==
    /\ UNCHANGED part
    /\ \/ part = "tree" /\ TreeNext /\ UNCHANGED <<poolVars, vars>>
       \/ part = "pool" /\ PoolNext /\ UNCHANGED <<treeVars, vars>>
       \/ part = "ids" /\ Next /\ UNCHANGED <<treeVars, poolVars>>

ContainersSpec ==
    ContainersInit /\ [][ContainersNext]_<<part, treeVars, poolVars, vars>>
=============================================================================
