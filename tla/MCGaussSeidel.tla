--------------------------- MODULE MCGaussSeidel ---------------------------
(***************************************************************************)
(* Four ranks, every two of which share constraints, so that they have     *)
(* four colors: only then do middle nodes of two ranks (colors 2 and 3)    *)
(* wait for each other.  One of these ranks has two nodes, whose order     *)
(* matters; the rest of the adjacency is arbitrary.                        *)
(***************************************************************************)
EXTENDS GaussSeidel

Owners == <<0, 1, 2, 2, 3>>
OwnersOf(e) == {Owners[n] : n \in e}
Across == {e \in SUBSET Nodes : Cardinality(e) = 2 /\ Cardinality(OwnersOf(e)) = 2}
AllMeet(E) == \A p, q \in Ranks : p # q => \E e \in E : OwnersOf(e) = {p, q}
FourColors == {[owner |-> Owners, edges |-> E] : E \in {F \in SUBSET Across : AllMeet(F)}}

AllVariants == {"FULL", "MIDDLE_JACOBI", "BOUNDARY_JACOBI"}
=============================================================================
