------------------------ MODULE ConstraintIdsProofs ------------------------
(***************************************************************************)
(* Proofs about ConstraintIds, for any number of ranks and any UINT_MAX.   *)
(*                                                                         *)
(* UniqueIds is not inductive: that a fresh identifier is unused needs to  *)
(* know that every identifier in use was issued by somebody (NoLostIds)    *)
(* and that the counter of a rank stays in the class of that rank          *)
(* (CidClass).  IInv joins the four.                                       *)
(***************************************************************************)
EXTENDS ConstraintIds, TLAPS

(* The identifiers a rank holds in any form. *)
Held(r) == idc[r] \cup sparecid[r] \cup flight[r]

(* The counter of rank r is r + 1 plus a multiple of the number of ranks. *)
CidClass == \A r \in Ranks : \E n \in Nat : cid[r] = r + 1 + n * NCpu

IInv == TypeOK /\ UniqueIds /\ NoLostIds /\ CidClass

-----------------------------------------------------------------------------
(* Two numbers of one residue class are equal or at least NCpu apart. *)
LEMMA Stride ==
    ASSUME NEW n \in Int, NEW m \in Int, n < m
    PROVE  n * NCpu + NCpu <= m * NCpu
<1>1. NCpu \in Int /\ NCpu >= 1
  BY NCpuAssumption
<1>2. (m - n) * NCpu >= NCpu
  <2>1. (m - n - 1) * NCpu >= 0
    BY <1>1
  <2> QED
    BY <1>1, <2>1
<1> QED
  BY <1>1, <1>2

(* Counters of different ranks issue different identifiers. *)
LEMMA ClassesDisjoint ==
    ASSUME NEW r \in Ranks, NEW q \in Ranks, NEW n \in Int, NEW m \in Int,
           r + 1 + n * NCpu = q + 1 + m * NCpu
    PROVE  r = q /\ n = m
<1>1. NCpu \in Int /\ n * NCpu \in Int /\ m * NCpu \in Int
  BY NCpuAssumption
<1>2. r \in Int /\ q \in Int /\ r - q < NCpu /\ q - r < NCpu
  BY NCpuAssumption DEF Ranks
<1>3. CASE n < m
  BY <1>1, <1>2, <1>3, Stride
<1>4. CASE m < n
  BY <1>1, <1>2, <1>4, Stride
<1>5. CASE n = m
  BY <1>1, <1>2, <1>5
<1> QED
  BY <1>3, <1>4, <1>5

(* A fresh identifier is in nobody's hands. *)
LEMMA FreshUnused ==
    ASSUME IInv, NEW r \in Ranks, NEW q \in Ranks
    PROVE  cid[r] \notin Held(q)
<1> SUFFICES ASSUME cid[r] \in Held(q) PROVE FALSE
  OBVIOUS
<1>1. PICK p \in Ranks : cid[r] \in Issued(p)
  BY DEF IInv, NoLostIds, Held
<1>2. PICK n \in Nat : cid[r] = p + 1 + n * NCpu
  <2>1. PICK k \in 0 .. cid[r] : cid[r] = p + 1 + k * NCpu
    BY <1>1 DEF Issued
  <2> QED
    BY <2>1 DEF IInv, TypeOK
<1>3. PICK m \in Nat : cid[r] = r + 1 + m * NCpu
  BY DEF IInv, CidClass
<1>4. p = r
  BY <1>2, <1>3, ClassesDisjoint
<1>5. cid[r] < cid[r] /\ cid[r] \in Int
  BY <1>1, <1>4 DEF Issued, IInv, TypeOK
<1> QED
  BY <1>5

(* Handing out cid[r] adds exactly that identifier to the issued ones. *)
LEMMA IssuedGrows ==
    ASSUME IInv, NEW r \in Ranks, FreshId(r)
    PROVE  /\ Issued(r)' = Issued(r) \cup {cid[r]}
           /\ \A q \in Ranks \ {r} : Issued(q)' = Issued(q)
<1>1. cid[r] \in Nat \ {0} /\ cid'[r] = cid[r] + NCpu /\ cid[r] \in Ids
  BY NCpuAssumption, UIntMaxAssumption DEF FreshId, IInv, TypeOK, Ids
<1>2. PICK m \in Nat : cid[r] = r + 1 + m * NCpu
  BY DEF IInv, CidClass
<1>3. NCpu \in Nat \ {0} /\ r \in Nat /\ m * NCpu \in Nat /\ m * NCpu >= m
  <2>1. NCpu \in Nat \ {0} /\ r \in Nat /\ m * NCpu \in Nat
    BY NCpuAssumption DEF Ranks
  <2>2. m * (NCpu - 1) >= 0
    BY <2>1
  <2> QED
    BY <2>1, <2>2
<1>4. cid[r] \in Issued(r)'
  BY <1>1, <1>2, <1>3 DEF Issued
<1>5. Issued(r) \subseteq Issued(r)'
  BY <1>1, <1>3 DEF Issued, Ids
<1>6. ASSUME NEW i \in Issued(r)', i # cid[r]
      PROVE  i \in Issued(r)
  <2>1. PICK n \in 0 .. i : i = r + 1 + n * NCpu
    BY <1>6 DEF Issued
  <2>2. i \in Ids /\ i < cid[r] + NCpu /\ i \in Int /\ n \in Int /\ n * NCpu \in Int
    BY <1>1, <1>3, <1>6, <2>1 DEF Issued, Ids
  <2>3. ~ (m < n)
    BY <1>2, <1>3, <2>1, <2>2, Stride
  <2>4. n < m
    BY <1>2, <1>3, <1>6, <2>1, <2>2, <2>3
  <2>5. i < cid[r]
    BY <1>2, <1>3, <2>1, <2>2, <2>4, Stride
  <2> QED
    BY <2>1, <2>2, <2>5 DEF Issued
<1>7. \A q \in Ranks \ {r} : Issued(q)' = Issued(q)
  BY DEF FreshId, Issued, IInv, TypeOK
<1> QED
  BY <1>4, <1>5, <1>6, <1>7
-----------------------------------------------------------------------------
(* Initially nothing is issued and nothing is held. *)
LEMMA InitInv == Init => IInv
<1> SUFFICES ASSUME Init PROVE IInv
  OBVIOUS
<1>1. TypeOK
  BY NCpuAssumption DEF Init, TypeOK, Ranks
<1>2. UniqueIds
  BY DEF Init, UniqueIds
<1>3. CidClass
  <2> SUFFICES ASSUME NEW r \in Ranks PROVE cid[r] = r + 1 + 0 * NCpu
    BY DEF CidClass
  <2> QED
    BY NCpuAssumption DEF Init, Ranks
<1>4. NoLostIds
  <2>1. ASSUME NEW r \in Ranks, NEW i \in Issued(r) PROVE FALSE
    <3>1. PICK n \in 0 .. i : i = r + 1 + n * NCpu
      BY <2>1 DEF Issued
    <3>2. i \in Int /\ i < r + 1 /\ r \in Int /\ n \in Nat
      BY <2>1, <3>1 DEF Issued, Ids, Init, Ranks
    <3>3. n * NCpu >= 0
      BY <3>2, NCpuAssumption
    <3>4. NCpu \in Nat /\ n * NCpu \in Int
      BY <3>2, NCpuAssumption
    <3> QED
      BY <3>1, <3>2, <3>3, <3>4
  <2>2. \A r \in Ranks : Issued(r) = {}
    BY <2>1
  <2>3. \A r \in Ranks : idc[r] \cup sparecid[r] \cup flight[r] = {}
    BY DEF Init
  <2> QED
    BY <2>2, <2>3 DEF NoLostIds
<1> QED
  BY <1>1, <1>2, <1>3, <1>4 DEF IInv

(* ReuseId: the identifier moves from the spare set to the live set. *)
LEMMA ReuseIdInv ==
    ASSUME IInv, NEW r \in Ranks, ReuseId(r)
    PROVE  IInv'
<1> USE DEF IInv
<1>1. PICK i \in sparecid[r] :
        /\ sparecid' = [sparecid EXCEPT ![r] = @ \ {i}]
        /\ idc' = [idc EXCEPT ![r] = @ \cup {i}]
        /\ UNCHANGED <<cid, flight>>
  BY DEF ReuseId
<1>2. TypeOK'
  BY <1>1 DEF TypeOK
<1>3. \A q \in Ranks : Held(q)' = Held(q)
  BY <1>1 DEF Held, TypeOK
<1>4. UniqueIds'
  BY <1>1, <1>3 DEF UniqueIds, Held, TypeOK
<1>5. NoLostIds'
  BY <1>1, <1>3 DEF NoLostIds, Held, Issued
<1>6. CidClass'
  BY <1>1 DEF CidClass
<1> QED
  BY <1>2, <1>4, <1>5, <1>6

(* FreshId: the identifier is new to everybody (FreshUnused). *)
LEMMA FreshIdInv ==
    ASSUME IInv, NEW r \in Ranks, FreshId(r)
    PROVE  IInv'
<1>1. TypeOK'
  BY NCpuAssumption, UIntMaxAssumption DEF IInv, TypeOK, FreshId, Ids
<1>2. /\ Held(r)' = Held(r) \cup {cid[r]}
      /\ \A q \in Ranks \ {r} : Held(q)' = Held(q)
  BY DEF IInv, TypeOK, FreshId, Held
<1>3. \A q \in Ranks : cid[r] \notin Held(q)
  BY FreshUnused
<1>4. UniqueIds'
  <2>1. \A q \in Ranks : /\ idc[q]' \cap sparecid[q]' = {}
                         /\ idc[q]' \cap flight[q]' = {}
                         /\ sparecid[q]' \cap flight[q]' = {}
    BY <1>3 DEF IInv, TypeOK, FreshId, UniqueIds, Held
  <2>2. \A p, q \in Ranks : p # q => Held(p)' \cap Held(q)' = {}
    <3>1. \A p, q \in Ranks : p # q => Held(p) \cap Held(q) = {}
      BY DEF IInv, UniqueIds, Held
    <3> QED
      BY <1>2, <1>3, <3>1
  <2> QED
    BY <2>1, <2>2 DEF UniqueIds, Held
<1>5. NoLostIds'
  <2>1. /\ Issued(r)' = Issued(r) \cup {cid[r]}
        /\ \A q \in Ranks \ {r} : Issued(q)' = Issued(q)
    BY IssuedGrows
  <2>2. ASSUME NEW i
        PROVE  (\E q \in Ranks : i \in Issued(q)') <=> (\E q \in Ranks : i \in Held(q)')
    <3>1. (\E q \in Ranks : i \in Issued(q)') <=> (\E q \in Ranks : i \in Issued(q)) \/ i = cid[r]
      BY <2>1
    <3>2. (\E q \in Ranks : i \in Held(q)') <=> (\E q \in Ranks : i \in Held(q)) \/ i = cid[r]
      BY <1>2
    <3>3. (\E q \in Ranks : i \in Issued(q)) <=> (\E q \in Ranks : i \in Held(q))
      BY DEF IInv, NoLostIds, Held
    <3> QED
      BY <3>1, <3>2, <3>3
  <2> QED
    BY <2>2 DEF NoLostIds, Held
<1>6. CidClass'
  <2> SUFFICES ASSUME NEW q \in Ranks PROVE \E n \in Nat : cid'[q] = q + 1 + n * NCpu
    BY DEF CidClass
  <2>1. PICK n \in Nat : cid[q] = q + 1 + n * NCpu
    BY DEF IInv, CidClass
  <2>2. CASE q # r
    BY <2>1, <2>2 DEF FreshId, IInv, TypeOK
  <2>3. CASE q = r
    <3>1. cid'[q] = q + 1 + n * NCpu + NCpu
      BY <2>1, <2>3 DEF FreshId, IInv, TypeOK
    <3>2. q + 1 + n * NCpu + NCpu = q + 1 + (n + 1) * NCpu
      BY <2>1, NCpuAssumption DEF Ranks
    <3> QED
      BY <3>1, <3>2
  <2> QED
    BY <2>2, <2>3
<1> QED
  BY <1>1, <1>4, <1>5, <1>6 DEF IInv

(* Remove: identifiers move from the live set to the spare set of the rank. *)
LEMMA RemoveInv ==
    ASSUME IInv, NEW r \in Ranks, NEW S \in SUBSET idc[r], Remove(r, S)
    PROVE  IInv'
<1> USE DEF IInv
<1>1. TypeOK'
  BY DEF TypeOK, Remove
<1>2. \A q \in Ranks : Held(q)' = Held(q)
  BY DEF Remove, Held, TypeOK
<1>3. UniqueIds'
  BY <1>2 DEF UniqueIds, Held, TypeOK, Remove
<1>4. NoLostIds'
  BY <1>2 DEF NoLostIds, Held, Issued, Remove
<1>5. CidClass'
  BY DEF CidClass, Remove
<1> QED
  BY <1>1, <1>3, <1>4, <1>5
(* Pack: identifiers move from the live set of r into flight to dest. *)
LEMMA PackInv ==
    ASSUME IInv, NEW r \in Ranks, NEW S \in SUBSET idc[r],
           NEW dest \in [S -> Ranks \ {r}], Pack(r, S, dest)
    PROVE  IInv'
<1> DEFINE To(q) == {i \in S : dest[i] = q}
<1>1. /\ idc' = [idc EXCEPT ![r] = @ \ S]
      /\ flight' = [q \in Ranks |-> flight[q] \cup To(q)]
      /\ UNCHANGED <<cid, sparecid>>
  BY DEF Pack
<1>2. TypeOK'
  BY <1>1 DEF IInv, TypeOK
<1>3. /\ Held(r)' = Held(r) \ S
      /\ \A q \in Ranks \ {r} : Held(q)' = Held(q) \cup To(q)
  <2>1. To(r) = {}
    OBVIOUS
  <2>2. S \cap (sparecid[r] \cup flight[r]) = {}
    BY DEF IInv, UniqueIds
  <2>3. Held(r)' = Held(r) \ S
    BY <1>1, <2>1, <2>2 DEF Held, IInv, TypeOK
  <2>4. \A q \in Ranks \ {r} : Held(q)' = Held(q) \cup To(q)
    BY <1>1 DEF Held, IInv, TypeOK
  <2> QED
    BY <2>3, <2>4
<1>4. \A p, q \in Ranks : p # q => Held(p) \cap Held(q) = {}
  BY DEF IInv, UniqueIds, Held
<1>5. S \subseteq Held(r)
  BY DEF Held
<1>6. \A i \in S : dest[i] \in Ranks \ {r}
  OBVIOUS
<1>7. UniqueIds'
  <2>1. ASSUME NEW q \in Ranks
        PROVE  /\ idc'[q] \cap sparecid'[q] = {}
               /\ idc'[q] \cap flight'[q] = {}
               /\ sparecid'[q] \cap flight'[q] = {}
    <3>1. CASE q = r
      BY <1>1, <3>1 DEF IInv, UniqueIds, TypeOK
    <3>2. CASE q # r
      <4>1. To(q) \cap Held(q) = {}
        BY <1>4, <1>5, <3>2
      <4> QED
        BY <1>1, <3>2, <4>1 DEF IInv, UniqueIds, TypeOK, Held
    <3> QED
      BY <3>1, <3>2
  <2>2. ASSUME NEW p \in Ranks, NEW q \in Ranks, p # q
        PROVE  Held(p)' \cap Held(q)' = {}
    <3>1. ASSUME NEW u \in Ranks \ {r} PROVE Held(r)' \cap Held(u)' = {}
      BY <1>3, <1>4, <3>1
    <3>2. ASSUME NEW u \in Ranks \ {r}, NEW v \in Ranks \ {r}, u # v
          PROVE  Held(u)' \cap Held(v)' = {}
      <4>1. To(u) \cap To(v) = {}
        BY <3>2
      <4>2. To(u) \cap Held(v) = {} /\ To(v) \cap Held(u) = {}
        BY <1>4, <1>5, <3>2
      <4>3. Held(u) \cap Held(v) = {}
        BY <1>4, <3>2
      <4> HIDE DEF To
      <4> QED
        BY <1>3, <3>2, <4>1, <4>2, <4>3
    <3> QED
      BY <2>2, <3>1, <3>2
  <2> QED
    BY <2>1, <2>2 DEF UniqueIds, Held
<1>8. NoLostIds'
  <2>1. ASSUME NEW i
        PROVE  (\E q \in Ranks : i \in Issued(q)') <=> (\E q \in Ranks : i \in Held(q)')
    <3>1. (\E q \in Ranks : i \in Issued(q)') <=> (\E q \in Ranks : i \in Held(q))
      BY <1>1 DEF IInv, NoLostIds, Held, Issued
    <3>2. CASE i \in S
      <4>1. i \in Held(dest[i])'
        BY <1>3, <1>6, <3>2
      <4> QED
        BY <1>5, <1>6, <3>1, <3>2, <4>1
    <3>3. CASE i \notin S
      <4>1. \A q \in Ranks : i \in Held(q)' <=> i \in Held(q)
        BY <1>3, <3>3
      <4> QED
        BY <3>1, <4>1
    <3> QED
      BY <3>2, <3>3
  <2> QED
    BY <2>1 DEF NoLostIds, Held
<1>9. CidClass'
  BY <1>1 DEF IInv, CidClass
<1> QED
  BY <1>2, <1>7, <1>8, <1>9 DEF IInv

(* Unpack: identifiers land in the live set of the rank they flew to. *)
LEMMA UnpackInv ==
    ASSUME IInv, NEW r \in Ranks, Unpack(r)
    PROVE  IInv'
<1> USE DEF IInv
<1>1. TypeOK'
  BY DEF TypeOK, Unpack
<1>2. \A q \in Ranks : Held(q)' = Held(q)
  BY DEF Unpack, Held, TypeOK
<1>3. UniqueIds'
  BY <1>2 DEF UniqueIds, Held, TypeOK, Unpack
<1>4. NoLostIds'
  BY <1>2 DEF NoLostIds, Held, Issued, Unpack
<1>5. CidClass'
  BY DEF CidClass, Unpack
<1> QED
  BY <1>1, <1>3, <1>4, <1>5

LEMMA StepInv == IInv /\ [Next]_vars => IInv'
<1> SUFFICES ASSUME IInv, [Next]_vars PROVE IInv'
  OBVIOUS
<1>1. ASSUME NEW r \in Ranks, Insert(r) PROVE IInv'
  BY <1>1, ReuseIdInv, FreshIdInv DEF Insert
<1>2. ASSUME NEW r \in Ranks, NEW S \in SUBSET idc[r], Remove(r, S) PROVE IInv'
  BY <1>2, RemoveInv
<1>3. ASSUME NEW r \in Ranks, NEW S \in SUBSET idc[r],
             NEW dest \in [S -> Ranks \ {r}], Pack(r, S, dest)
      PROVE  IInv'
  BY <1>3, PackInv
<1>4. ASSUME NEW r \in Ranks, Unpack(r) PROVE IInv'
  BY <1>4, UnpackInv
<1>5. CASE UNCHANGED vars
  BY <1>5 DEF vars, IInv, TypeOK, UniqueIds, NoLostIds, Issued, CidClass
<1> QED
  BY <1>1, <1>2, <1>3, <1>4, <1>5 DEF Next

LEMMA Inductive == Spec => []IInv
<1>1. Init => IInv
  BY InitInv
<1>2. IInv /\ [Next]_vars => IInv'
  BY StepInv
<1> QED
  BY <1>1, <1>2, PTL DEF Spec

-----------------------------------------------------------------------------
(* The variables keep their types on any number of ranks. *)
THEOREM TypeCorrect == Spec => []TypeOK
<1>1. IInv => TypeOK
  BY DEF IInv
<1> QED
  BY <1>1, Inductive, PTL

(* No two constraints of the machine ever share an identifier, whatever the
   number of ranks: dom.c never checks this, every lookup depends on it. *)
THEOREM IdsStayUnique == Spec => []UniqueIds
<1>1. IInv => UniqueIds
  BY DEF IInv
<1> QED
  BY <1>1, Inductive, PTL

(* An identifier once issued never leaks: the spare sets of all ranks together
   give back everything that died. *)
THEOREM NoIdIsLost == Spec => []NoLostIds
<1>1. IInv => NoLostIds
  BY DEF IInv
<1> QED
  BY <1>1, Inductive, PTL
=============================================================================
