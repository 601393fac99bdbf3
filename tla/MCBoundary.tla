----------------------------- MODULE MCBoundary -----------------------------
(***************************************************************************)
(* Two or three bodies on two or three ranks.  Three ranks let a           *)
(* constraint, its body's parent and an image be in three places; UINT_MAX *)
(* leaves each rank one or two identifiers, so that they are reused.  The  *)
(* partitioner may put the bodies anywhere at every balancing, hence every *)
(* step of the simulation is as general as the first, and the state space  *)
(* closes without a bound on their number.                                 *)
(***************************************************************************)
EXTENDS Boundary

CONSTANTS a, b, c, d

TwoBodies == {a, b}
AndPart == {a, b, c, d}
ContactPair == {{a, b}}
LinkAside == {<<b, c>>}
Whole == [x \in {} |-> a]
Cracks == [x \in {a} |-> d]
=============================================================================
