--------------------------- MODULE ConstraintIds ---------------------------
(***************************************************************************)
(* Life of a constraint identifier in the parallel domain (src/dom.c).     *)
(*                                                                         *)
(* No rank is in charge of identifiers.  Rank r starts at r + 1 and steps  *)
(* by the number of ranks, so fresh identifiers cannot meet; but a         *)
(* constraint keeps its identifier while it migrates, and when it dies the *)
(* identifier joins the spare set of the rank it died on.  Identifiers of  *)
(* any class may thus end up spare, and be reused, on any rank.  The       *)
(* module is the abstract promise that module Boundary is checked against. *)
(***************************************************************************)
EXTENDS Integers, FiniteSets

CONSTANTS
    NCpu,       \* dom->ncpu; 1 is the serial code, which counts by one
    UIntMax     \* UINT_MAX, the bound that insert asserts

ASSUME NCpuAssumption == NCpu \in Nat \ {0}
ASSUME UIntMaxAssumption == UIntMax \in Nat

Ranks == 0 .. NCpu - 1

Ids == 1 .. UIntMax

VARIABLES
    cid,        \* dom->cid: last free identifier, per rank
    sparecid,   \* dom->sparecid: freed identifiers, per rank
    idc,        \* keys of dom->idc: identifiers of constraints owned by a rank
    flight      \* identifiers of packed constraints not unpacked yet, by destination

vars == <<cid, sparecid, idc, flight>>

(* Mutant: the counter starts at the rank, so that rank 0 issues 0, the value
   that dom->noid reserves for "generate an identifier". *)
InitFromRank ==
    /\ cid = [r \in Ranks |-> r]
    /\ sparecid = [r \in Ranks |-> {}]
    /\ idc = [r \in Ranks |-> {}]
    /\ flight = [r \in Ranks |-> {}]

Init ==
    /\ cid = [r \in Ranks |-> r + 1]
    /\ sparecid = [r \in Ranks |-> {}]
    /\ idc = [r \in Ranks |-> {}]
    /\ flight = [r \in Ranks |-> {}]

-----------------------------------------------------------------------------
(* insert, taking the first of the spare identifiers (SET_First is the smallest) *)
ReuseId(r) ==
    \E i \in sparecid[r] :
        /\ \A j \in sparecid[r] : i <= j
        /\ sparecid' = [sparecid EXCEPT ![r] = @ \ {i}]
        /\ idc' = [idc EXCEPT ![r] = @ \cup {i}]
        /\ UNCHANGED <<cid, flight>>

(* insert, taking a fresh identifier; the code aborts at the bound *)
FreshId(r) ==
    /\ sparecid[r] = {}
    /\ cid[r] + NCpu < UIntMax
    /\ idc' = [idc EXCEPT ![r] = @ \cup {cid[r]}]
    /\ cid' = [cid EXCEPT ![r] = @ + NCpu]
    /\ UNCHANGED <<sparecid, flight>>

Insert(r) == ReuseId(r) \/ FreshId(r)

(* Mutant: the removal never frees the identifier. *)
RemoveLocked(r, S) ==
    /\ S # {}
    /\ S \subseteq idc[r]
    /\ idc' = [idc EXCEPT ![r] = @ \ S]
    /\ UNCHANGED <<cid, sparecid, flight>>

(* DOM_Remove_Constraint of owned constraints that are not id-locked *)
Remove(r, S) ==
    /\ S # {}
    /\ S \subseteq idc[r]
    /\ idc' = [idc EXCEPT ![r] = @ \ S]
    /\ sparecid' = [sparecid EXCEPT ![r] = @ \cup S]
    /\ UNCHANGED <<cid, flight>>

(* Mutant: pack_constraint forgets CON_IDLOCK. *)
PackUnlocked(r, S, dest) ==
    /\ S # {}
    /\ S \subseteq idc[r]
    /\ idc' = [idc EXCEPT ![r] = @ \ S]
    /\ flight' = [q \in Ranks |-> flight[q] \cup {i \in S : dest[i] = q}]
    /\ sparecid' = [sparecid EXCEPT ![r] = @ \cup S]
    /\ UNCHANGED cid

(* pack_constraint of the constraints S with export ranks dest: CON_IDLOCK
   keeps their identifiers out of the spare set when they are removed here *)
Pack(r, S, dest) ==
    /\ S # {}
    /\ S \subseteq idc[r]
    /\ idc' = [idc EXCEPT ![r] = @ \ S]
    /\ flight' = [q \in Ranks |-> flight[q] \cup {i \in S : dest[i] = q}]
    /\ UNCHANGED <<cid, sparecid>>

(* unpack_constraint: noid carries the imported identifier into insert *)
Unpack(r) ==
    /\ flight[r] # {}
    /\ idc' = [idc EXCEPT ![r] = @ \cup flight[r]]
    /\ flight' = [flight EXCEPT ![r] = {}]
    /\ UNCHANGED <<cid, sparecid>>

Next ==
    \E r \in Ranks :
        \/ Insert(r)
        \/ \E S \in SUBSET idc[r] : Remove(r, S)
        \/ \E S \in SUBSET idc[r] : \E dest \in [S -> Ranks \ {r}] : Pack(r, S, dest)
        \/ Unpack(r)

Spec == Init /\ [][Next]_vars

-----------------------------------------------------------------------------
(* Type invariant: counters are positive, and every identifier held anywhere  *)
(* lies between 1 and UINT_MAX, the range the assertion in insert keeps.      *)
TypeOK ==
    /\ cid \in [Ranks -> Nat \ {0}]
    /\ sparecid \in [Ranks -> SUBSET Ids]
    /\ idc \in [Ranks -> SUBSET Ids]
    /\ flight \in [Ranks -> SUBSET Ids]

(* An identifier has one place in the whole machine: it is live on one rank,
   or spare on one rank, or packed for one rank, and never two of these.
   Every lookup by identifier (MAP_Find in dom->idc and dom->conext, the
   global identifiers given to the partitioner) relies on it. *)
UniqueIds ==
    /\ \A r \in Ranks :
        /\ idc[r] \cap sparecid[r] = {}
        /\ idc[r] \cap flight[r] = {}
        /\ sparecid[r] \cap flight[r] = {}
    /\ \A r, q \in Ranks : r # q =>
        /\ (idc[r] \cup sparecid[r] \cup flight[r])
             \cap (idc[q] \cup sparecid[q] \cup flight[q]) = {}

(* The identifiers rank r has handed out so far. *)
Issued(r) == {i \in Ids : i < cid[r] /\ \E n \in 0 .. i : i = r + 1 + n * NCpu}

(* No identifier leaks: each one ever handed out by some rank is still live,
   spare or packed somewhere, although the rank that holds it may be another.
   A leak would bring cid to the UINT_MAX abort in a long run. *)
NoLostIds ==
    UNION {Issued(r) : r \in Ranks}
      = UNION {idc[r] \cup sparecid[r] \cup flight[r] : r \in Ranks}
=============================================================================
