------------------------ MODULE BodyMigrationProofs ------------------------
(***************************************************************************)
(* Proofs about BodyMigration, for any number of ranks and bodies.         *)
(*                                                                         *)
(* Between migrations the copies of a body list each other (Listed).       *)
(* While bodies migrate that holds of none of them: the lists are those of *)
(* the parent's rank, and it is told what each message says and which      *)
(* copies the receivers still have (PackedFrom, UnpackedFrom).  While      *)
(* bodies are removed it holds of those that no rank has removed; the ids  *)
(* of the others are under way to all ranks (Finishing, Managing), and     *)
(* ranks that have taken the same counts number new bodies from the same   *)
(* base (Numbered).                                                        *)
(***************************************************************************)
EXTENDS BodyMigration, FiniteSetTheorems, NaturalsInduction, TLAPS

-----------------------------------------------------------------------------
Message == [id : Ids, parent : BOOLEAN, full : BOOLEAN, rank : Ranks, children : SUBSET Ranks]
Data == [bodies : SUBSET Message, spare : SUBSET Ids, count : Nat]
Phases == {"partition", "pack", "unpack", "tie", "finish", "manage", "output", "callback"}

Typed ==
    /\ phase \in Phases /\ done \subseteq Ranks
    /\ copy \in [Ranks -> [Ids -> Kinds]]
    /\ children \in [Ranks -> [Ids -> SUBSET Ranks]]
    /\ prank \in [Ranks -> [Ids -> Ranks]]
    /\ ties \in [Ranks -> SUBSET SUBSET Ids]
    /\ bid \in [Ranks -> Nat \ {0}] /\ pendingbods \in [Ranks -> Nat]
    /\ sparebid \in [Ranks -> SUBSET Ids]
    /\ pendingremovebods \in [Ranks -> SUBSET Ids]
    /\ newb \in [Ranks -> SUBSET Ids]
    /\ outbox \in [Ranks -> [Ranks -> Data]]
    /\ inbox \in [Ranks -> [Ranks -> Data]]
    /\ phase \in {"partition", "tie", "output"} => done = {}

(* Where the partitioner has put the bodies that are alive; while they migrate. *)
Places ==
    /\ phase \notin {"pack", "unpack", "tie"} => DOMAIN home = {}
    /\ DOMAIN home \subseteq Ids /\ DOMAIN box = DOMAIN home
    /\ \A b \in DOMAIN home : home[b] \in Ranks /\ box[b] \subseteq Ranks

(* What a copy that is neither parent nor child knows has been forgotten. *)
Forgotten ==
    \A r \in Ranks : \A b \in Ids : copy[r][b] \notin {"parent", "child"} =>
        prank[r][b] = r /\ children[r][b] = {}

-----------------------------------------------------------------------------
(* A body between migrations: one parent at most, copies that list each other,
   and none without a parent. *)
Single(b) == \A r, q \in Ranks : copy[r][b] = "parent" /\ copy[q][b] = "parent" => r = q
Listed(b) ==
    \A r \in Holders(b) :
        /\ copy[r][b] = "parent" <=> prank[r][b] = r
        /\ copy[prank[r][b]][b] = "parent"
        /\ children[r][b] = Holders(b) \ {r, prank[r][b]}
Rooted(b) == (\E r \in Ranks : copy[r][b] # "none") => \E r \in Ranks : copy[r][b] = "parent"
Absent(b) == \A r \in Ranks : copy[r][b] = "none"

(* The ranks a body that has been at rank o shall be packed for. *)
Targets(b, o) == NewChildren(b) \cup ({home[b]} \ {o})

(* While bodies are packed: only the rank o of its parent has messages of a
   body, one for each target, with all of it if the target has no child. *)
Letter(b, q, m) ==
    /\ m.parent = (q = home[b]) /\ m.rank = home[b] /\ m.children = NewChildren(b)

PackedFrom(b, o) ==
    /\ \A q \in Ranks : q # o => copy[q][b] # "parent"
    /\ o \notin done =>
        /\ copy[o][b] = "parent" /\ prank[o][b] = o /\ children[o][b] = Holders(b) \ {o}
        /\ \A p, q \in Ranks : \A m \in outbox[p][q].bodies : m.id # b
    /\ o \in done =>
        /\ copy[o][b] = IF home[b] = o THEN "parent" ELSE "left"
        /\ home[b] = o => prank[o][b] = o /\ children[o][b] = NewChildren(b)
        /\ \A p, q \in Ranks : \A m \in outbox[p][q].bodies : m.id = b =>
            /\ p = o /\ q \in Targets(b, o) /\ Letter(b, q, m)
            /\ m.full \/ copy[q][b] # "none"
        /\ \A q \in Targets(b, o) : \E m \in outbox[o][q].bodies : m.id = b

Packing ==
    phase = "pack" => \A b \in Ids :
        IF b \in DOMAIN home THEN \E o \in Ranks : PackedFrom(b, o)
        ELSE /\ Absent(b)
             /\ \A p, q \in Ranks : \A m \in outbox[p][q].bodies : m.id # b

(* While they are unpacked: what the targets have not taken is there. *)
UnpackedFrom(b, o) ==
    /\ \A p, q \in Ranks : \A m \in inbox[q][p].bodies : m.id = b =>
        /\ p = o /\ q \in Targets(b, o) /\ Letter(b, q, m)
        /\ q \notin done => m.full \/ copy[q][b] # "none"
    /\ \A q \in Targets(b, o) : \E m \in inbox[q][o].bodies : m.id = b
    /\ home[b] = o => prank[o][b] = o /\ children[o][b] = NewChildren(b) /\ copy[o][b] = "parent"
    /\ \A q \in Ranks : q \notin done => (copy[q][b] = "parent" <=> q = o /\ home[b] = o)
    /\ \A q \in Ranks : q \in done =>
        /\ copy[q][b] = "parent" <=> q = home[b]
        /\ copy[q][b] = "child" <=> q \in NewChildren(b)
        /\ q \in NewChildren(b) \cup {home[b]} =>
             prank[q][b] = home[b] /\ children[q][b] = NewChildren(b) \ {q}

Unpacking ==
    phase = "unpack" => \A b \in Ids :
        IF b \in DOMAIN home THEN \E o \in Ranks : UnpackedFrom(b, o)
        ELSE /\ Absent(b)
             /\ \A p, q \in Ranks : \A m \in inbox[q][p].bodies : m.id # b

(* Before and after: all bodies are in order. *)
Resting ==
    phase \in {"partition", "tie", "output", "callback"} =>
        \A b \in Ids : Single(b) /\ Listed(b) /\ Rooted(b)

-----------------------------------------------------------------------------
(* While bodies are removed: those that no rank has removed are in order, and
   there are no constraints of others; every rank is told what was removed. *)
Gone == UNION {sparebid[q] : q \in done}
Finishing ==
    phase = "finish" =>
    /\ \A b \in Ids : Single(b)
    /\ \A b \in Ids \ Gone : Listed(b) /\ Rooted(b)
    /\ \A r \in Ranks : \A b \in Tied(r) \ Gone : b \in Alive
    /\ \A r \in done : \A q \in Ranks :
        outbox[r][q].spare = sparebid[r] /\ outbox[r][q].count = pendingbods[r]

(* While spare ids are taken away and pending bodies are numbered, from base;
   all ranks have been told the same. *)
SameNews ==
    \A r, q \in Ranks : inbox[r][q].spare = inbox[0][q].spare /\ inbox[r][q].count = inbox[0][q].count

Slots(base, r) == base + Upto(Counts(0))[r] .. base + Upto(Counts(0))[r + 1] - 1

Numbered(base) ==
    /\ base + Total(Counts(0)) < MaxBody
    /\ \A r \in Ranks : bid[r] = IF r \in done THEN base + Total(Counts(0)) ELSE base
    /\ \A r \in Ranks : \A b \in Ids : b >= base =>
        /\ copy[r][b] = IF r \in done /\ b \in Slots(base, r) THEN "parent" ELSE "none"
        /\ prank[r][b] = r /\ children[r][b] = {}
    /\ \A b \in Ids : b < base => Single(b)
    /\ \A b \in Ids \ Spare(0) : b < base => Listed(b) /\ Rooted(b)
    /\ \A b \in Spare(0) : \A r \in done : b < base => copy[r][b] = "none"

Managing ==
    phase = "manage" =>
    /\ SameNews
    /\ \A r \in Ranks : pendingbods[r] = IF r \in done THEN 0 ELSE inbox[0][r].count
    /\ \E base \in Nat : Numbered(base)
    /\ \A r \in Ranks : \A b \in Tied(r) \ Spare(0) : b \in Alive
    /\ \A r \in done : Tied(r) \cap Spare(0) = {}

(* The ranks agree on the next id, and no body has it or one beyond. *)
Counted ==
    phase # "manage" =>
    /\ \A r \in Ranks : bid[r] = bid[0]
    /\ bid[0] + Total(pendingbods) < MaxBody
    /\ \A b \in Ids : b >= bid[0] => Absent(b)
    /\ \A b \in DOMAIN home : b < bid[0]

(* Messages are sent while bodies are packed or removed only. *)
Quiet == phase \notin {"pack", "finish"} => outbox = NoMail

Arrived == "body" \notin failed

Kept == \A r \in Ranks : \A b \in newb[r] : copy[r][b] \in {"parent", "child", "left"}

IInv == /\ Typed /\ Places /\ Forgotten /\ Packing /\ Unpacking /\ Resting
        /\ Finishing /\ Managing /\ Counted /\ Quiet /\ Arrived /\ Kept
-----------------------------------------------------------------------------
(* A set of natural numbers that is not empty has a least element. *)
LEMMA Least ==
    ASSUME NEW S \in SUBSET Nat, S # {}
    PROVE  \E x \in S : \A y \in S : x <= y
<1> DEFINE Q == OpToRel(<, Nat)
<1>1. IsWellFoundedOn(Q, Nat)
  BY NatLessThanWellFounded
<1>2. \A x, y \in Nat : <<y, x>> \in Q <=> y < x
  BY DEF OpToRel
<1> HIDE DEF Q
<1>3. PICK x \in S : \A y \in S : ~ (<<y, x>> \in Q)
  BY <1>1, WFMin
<1>4. \A y \in S : x \in Nat /\ y \in Nat /\ ~ (y < x)
  BY <1>2, <1>3
<1> QED
  BY <1>4

(* Induction up to n, of membership in a set. *)
LEMMA Induct ==
    ASSUME NEW n \in Nat, NEW S, 0 \in S, \A k \in 0 .. n - 1 : k \in S => k + 1 \in S
    PROVE  0 .. n \subseteq S
<1> DEFINE T == (0 .. n) \ S
<1>1. SUFFICES ASSUME T # {} PROVE FALSE
  OBVIOUS
<1>2. PICK x \in T : \A y \in T : x <= y
  <2>1. T \in SUBSET Nat
    OBVIOUS
  <2> HIDE DEF T
  <2> QED
    BY <1>1, <2>1, Least
<1>3. x # 0 /\ x - 1 \in 0 .. n - 1 /\ x - 1 \notin T /\ (x - 1) + 1 = x
  BY <1>2
<1> QED
  BY <1>2, <1>3

(* s is the sequence of sums of the first values of f. *)
Sums(s, f, k) ==
    /\ DOMAIN s = 0 .. k
    /\ s[0] = 0
    /\ \A i \in 1 .. k : s[i] = s[i - 1] + f[i - 1]

(* The sum of no values is 0; that of more adds the next. *)
LEMMA UptoDef ==
    ASSUME NEW f
    PROVE  /\ Upto(f)[0] = 0
           /\ \A i \in 1 .. NCpu : Upto(f)[i] = Upto(f)[i - 1] + f[i - 1]
<1> USE BodyMigrationAssumption
<1> DEFINE S == {k \in 0 .. NCpu : \E s : Sums(s, f, k)}
<1>1. 0 \in S
  <2> DEFINE s == [i \in 0 .. 0 |-> 0]
  <2>1. DOMAIN s = 0 .. 0 /\ s[0] = 0 /\ \A i \in 1 .. 0 : FALSE
    OBVIOUS
  <2> HIDE DEF s
  <2>2. Sums(s, f, 0)
    BY <2>1 DEF Sums
  <2> QED
    BY <2>2
<1>2. ASSUME NEW k \in 0 .. NCpu - 1, k \in S PROVE k + 1 \in S
  <2>1. PICK s : Sums(s, f, k)
    BY <1>2
  <2> DEFINE t == [i \in 0 .. k + 1 |-> IF i <= k THEN s[i] ELSE s[k] + f[k]]
  <2>2. DOMAIN t = 0 .. k + 1 /\ t[0] = s[0]
    OBVIOUS
  <2>3. \A i \in 1 .. k : t[i] = s[i] /\ t[i - 1] = s[i - 1]
    OBVIOUS
  <2>4. t[k + 1] = s[k] + f[k] /\ t[k] = s[k] /\ (k + 1) - 1 = k
    OBVIOUS
  <2> HIDE DEF t
  <2>5. \A i \in 1 .. k + 1 : t[i] = t[i - 1] + f[i - 1]
    <3>1. TAKE i \in 1 .. k + 1
    <3>2. CASE i = k + 1
      BY <2>4, <3>2
    <3>3. CASE i # k + 1
      <4>1. i \in 1 .. k
        BY <3>3
      <4> QED
        BY <2>1, <2>3, <4>1 DEF Sums
    <3> QED
      BY <3>2, <3>3
  <2>6. Sums(t, f, k + 1)
    BY <2>1, <2>2, <2>5 DEF Sums
  <2> QED
    BY <2>6
<1> DEFINE Eq(s) == s = [k \in 0 .. NCpu |-> IF k = 0 THEN 0 ELSE s[k - 1] + f[k - 1]]
<1>3. Upto(f) = CHOOSE s : Eq(s)
  BY DEF Upto
<1> HIDE DEF S
<1>4. NCpu \in S
  <2>1. NCpu \in Nat
    OBVIOUS
  <2>2. 0 .. NCpu \subseteq S
    BY <1>1, <1>2, <2>1, Induct
  <2> QED
    BY <2>1, <2>2
<1>5. PICK s : Sums(s, f, NCpu)
  BY <1>4 DEF S
<1> DEFINE t == [k \in 0 .. NCpu |-> s[k]]
<1>6. Eq(t)
  <2>1. \A k \in 0 .. NCpu : s[k] = IF k = 0 THEN 0 ELSE s[k - 1] + f[k - 1]
    BY <1>5 DEF Sums
  <2>2. \A k \in 0 .. NCpu : s[k] = IF k = 0 THEN 0 ELSE t[k - 1] + f[k - 1]
    BY <2>1
  <2> QED
    BY <2>2
<1> HIDE DEF Eq, t
<1>7. Eq(Upto(f))
  BY <1>3, <1>6
<1> QED
  BY <1>7 DEF Eq

(* Sums of natural numbers are natural numbers and grow. *)
LEMMA UptoGrows ==
    ASSUME NEW f, \A q \in Ranks : f[q] \in Nat
    PROVE  /\ \A k \in 0 .. NCpu : Upto(f)[k] \in Nat
           /\ \A i, j \in 0 .. NCpu : i <= j => Upto(f)[i] <= Upto(f)[j]
<1> USE BodyMigrationAssumption
<1> DEFINE u == Upto(f)
<1>1. u[0] = 0 /\ \A i \in 1 .. NCpu : u[i] = u[i - 1] + f[i - 1]
  BY UptoDef
<1> HIDE DEF u
<1>2. \A k \in 0 .. NCpu - 1 : u[k + 1] = u[k] + f[k] /\ f[k] \in Nat
  <2>1. TAKE k \in 0 .. NCpu - 1
  <2>2. k + 1 \in 1 .. NCpu /\ (k + 1) - 1 = k /\ k \in Ranks
    BY DEF Ranks
  <2> QED
    BY <1>1, <2>2
<1> DEFINE S == {k \in 0 .. NCpu : u[k] \in Nat /\ \A i \in 0 .. k : u[i] <= u[k] /\ u[i] \in Nat}
<1>3. 0 \in S
  BY <1>1
<1>4. \A k \in 0 .. NCpu - 1 : k \in S => k + 1 \in S
  BY <1>2
<1>5. 0 .. NCpu \subseteq S
  <2>1. NCpu \in Nat
    OBVIOUS
  <2> HIDE DEF S
  <2> QED
    BY <1>3, <1>4, <2>1, Induct
<1>6. /\ \A k \in 0 .. NCpu : u[k] \in Nat
      /\ \A i, j \in 0 .. NCpu : i <= j => u[i] <= u[j]
  BY <1>5
<1> QED
  BY <1>6 DEF u

(* One value more by n makes the sum more by n. *)
LEMMA TotalAdd ==
    ASSUME NEW f, NEW g, NEW n \in Nat, NEW r \in Ranks, \A q \in Ranks : f[q] \in Nat,
           g[r] = f[r] + n, \A q \in Ranks \ {r} : g[q] = f[q]
    PROVE  Total(g) = Total(f) + n
<1> USE BodyMigrationAssumption
<1> DEFINE u == Upto(f)
           v == Upto(g)
<1>1. u[0] = 0 /\ \A i \in 1 .. NCpu : u[i] = u[i - 1] + f[i - 1]
  BY UptoDef
<1>2. v[0] = 0 /\ \A i \in 1 .. NCpu : v[i] = v[i - 1] + g[i - 1]
  BY UptoDef
<1>3. \A k \in 0 .. NCpu : u[k] \in Nat
  BY UptoGrows
<1> HIDE DEF u, v
<1>4. \A k \in 0 .. NCpu - 1 : /\ u[k + 1] = u[k] + f[k] /\ v[k + 1] = v[k] + g[k]
                               /\ k \in Ranks /\ k + 1 \in 0 .. NCpu /\ k \in 0 .. NCpu
  <2>1. TAKE k \in 0 .. NCpu - 1
  <2>2. k + 1 \in 1 .. NCpu /\ (k + 1) - 1 = k /\ k \in Ranks
    BY DEF Ranks
  <2> QED
    BY <1>1, <1>2, <2>2
<1>5. r \in 0 .. NCpu - 1
  BY DEF Ranks
<1> DEFINE S == {k \in 0 .. NCpu : v[k] = IF k <= r THEN u[k] ELSE u[k] + n}
<1>6. 0 \in S
  BY <1>1, <1>2, <1>5
<1>7. ASSUME NEW k \in 0 .. NCpu - 1, k \in S PROVE k + 1 \in S
  <2>1. u[k] \in Nat /\ f[k] \in Nat /\ f[r] \in Nat
    BY <1>3, <1>4
  <2>2. CASE k = r
    BY <1>4, <1>7, <2>1, <2>2
  <2>3. CASE k # r
    <3>1. g[k] = f[k]
      BY <1>4, <2>3
    <3>2. (k + 1 <= r) <=> (k <= r)
      BY <1>5, <2>3
    <3> QED
      BY <1>4, <1>7, <2>1, <3>1, <3>2
  <2> QED
    BY <2>2, <2>3
<1>8. 0 .. NCpu \subseteq S
  <2>1. NCpu \in Nat
    OBVIOUS
  <2> HIDE DEF S
  <2> QED
    BY <1>6, <1>7, <2>1, Induct
<1>9. v[NCpu] = u[NCpu] + n
  BY <1>5, <1>8
<1> QED
  BY <1>9 DEF Total, u, v

(* No values but zeros: the sum is 0. *)
LEMMA TotalZero ==
    ASSUME NEW f, \A q \in Ranks : f[q] = 0
    PROVE  Total(f) = 0
<1> USE BodyMigrationAssumption
<1> DEFINE u == Upto(f)
<1>1. u[0] = 0 /\ \A i \in 1 .. NCpu : u[i] = u[i - 1] + f[i - 1]
  BY UptoDef
<1> HIDE DEF u
<1> DEFINE S == {k \in 0 .. NCpu : u[k] = 0}
<1>2. 0 \in S
  BY <1>1
<1>3. \A k \in 0 .. NCpu - 1 : k \in S => k + 1 \in S
  <2>1. TAKE k \in 0 .. NCpu - 1
  <2>2. k + 1 \in 1 .. NCpu /\ (k + 1) - 1 = k /\ k \in Ranks
    BY DEF Ranks
  <2> QED
    BY <1>1, <2>2
<1>4. 0 .. NCpu \subseteq S
  <2>1. NCpu \in Nat
    OBVIOUS
  <2> HIDE DEF S
  <2> QED
    BY <1>2, <1>3, <2>1, Induct
<1>5. u[NCpu] = 0
  BY <1>4
<1> QED
  BY <1>5 DEF Total, u
-----------------------------------------------------------------------------
(* There is a rank. *)
LEMMA RankZero == 0 \in Ranks /\ NCpu \in Nat /\ MaxBody \in Nat
BY BodyMigrationAssumption DEF Ranks

(* Before the run rank 0 has the bodies. *)
LEMMA InitInv == Init => IInv
<1> SUFFICES ASSUME Init PROVE IInv
  OBVIOUS
<1> USE BodyMigrationAssumption, RankZero
<1>1. /\ phase = "partition" /\ done = {}
      /\ copy = [r \in Ranks |-> [b \in Ids |-> IF r = 0 /\ b <= NBodies THEN "parent" ELSE "none"]]
      /\ children = [r \in Ranks |-> [b \in Ids |-> {}]]
      /\ prank = [r \in Ranks |-> [b \in Ids |-> r]]
      /\ home = NoPlaces /\ box = NoPlaces
      /\ ties = [r \in Ranks |-> {}]
      /\ bid = [r \in Ranks |-> NBodies + 1]
      /\ sparebid = [r \in Ranks |-> {}]
      /\ pendingbods = [r \in Ranks |-> 0]
      /\ pendingremovebods = [r \in Ranks |-> {}]
      /\ newb = [r \in Ranks |-> {}]
      /\ outbox = NoMail /\ inbox = NoMail
      /\ failed = {}
  BY DEF Init
<1>2. Typed
  <2>1. NoMail \in [Ranks -> [Ranks -> Data]]
    BY DEF NoMail, NoData, Data
  <2>2. copy \in [Ranks -> [Ids -> Kinds]]
    BY <1>1 DEF Kinds
  <2> QED
    BY <1>1, <2>1, <2>2 DEF Typed, Phases
<1>3. Places
  BY <1>1 DEF Places, NoPlaces
<1>4. Forgotten
  BY <1>1 DEF Forgotten
<1>5. Packing /\ Unpacking /\ Finishing /\ Managing
  BY <1>1 DEF Packing, Unpacking, Finishing, Managing
<1>6. Resting
  <2>1. SUFFICES ASSUME NEW b \in Ids PROVE Single(b) /\ Listed(b) /\ Rooted(b)
    BY DEF Resting
  <2>2. \A r \in Ranks : copy[r][b] = IF r = 0 /\ b <= NBodies THEN "parent" ELSE "none"
    BY <1>1
  <2>3. Holders(b) = IF b <= NBodies THEN {0} ELSE {}
    BY <2>2 DEF Holders
  <2>4. Single(b) /\ Rooted(b)
    BY <2>2 DEF Single, Rooted
  <2>5. \A r \in Ranks : prank[r][b] = r /\ children[r][b] = {}
    BY <1>1
  <2>6. Listed(b)
    BY <2>2, <2>3, <2>5 DEF Listed
  <2> QED
    BY <2>4, <2>6
<1>7. Counted
  <2>1. Total(pendingbods) = 0
    BY <1>1, TotalZero
  <2>2. \A b \in Ids : b >= NBodies + 1 => Absent(b)
    BY <1>1 DEF Absent, Ids
  <2> QED
    BY <1>1, <2>1, <2>2 DEF Counted, NoPlaces
<1>8. Quiet /\ Arrived /\ Kept
  BY <1>1 DEF Quiet, Arrived, Kept
<1> QED
  BY <1>2, <1>3, <1>4, <1>5, <1>6, <1>7, <1>8 DEF IInv

(* All bodies that are alive are given a place; nothing has been packed. *)
LEMMA PartitionStep ==
    ASSUME IInv, Partition
    PROVE  IInv'
<1> USE DEF IInv
<1>1. PICK h \in [Alive -> Ranks], x \in [Alive -> SUBSET Ranks] :
        /\ home' = h /\ box' = x
        /\ phase = "partition" /\ phase' = "pack"
        /\ UNCHANGED <<done, copy, children, prank, ties, bid, sparebid, pendingbods,
                       pendingremovebods, newb, outbox, inbox, failed>>
  BY DEF Partition, bodyVars, listVars
<1>2. Alive \subseteq Ids
  BY DEF Alive, Parents
<1>3. Typed'
  BY <1>1 DEF Typed, Phases
<1>4. Places'
  BY <1>1, <1>2 DEF Places
<1>5. done = {} /\ outbox = NoMail
  BY <1>1 DEF Typed, Quiet
<1>6. \A p, q \in Ranks : outbox'[p][q].bodies = {}
  BY <1>1, <1>5 DEF NoMail, NoData
<1>7. Packing'
  <2>1. SUFFICES ASSUME NEW b \in Ids
        PROVE  IF b \in DOMAIN home' THEN \E o \in Ranks : PackedFrom(b, o)'
               ELSE /\ Absent(b)'
                    /\ \A p, q \in Ranks : \A m \in outbox'[p][q].bodies : m.id # b
    BY DEF Packing
  <2>2. Single(b) /\ Listed(b) /\ Rooted(b)
    BY <1>1 DEF Resting
  <2>3. b \in DOMAIN home' <=> \E r \in Ranks : copy[r][b] = "parent"
    BY <1>1 DEF Alive, Parents
  <2>4. CASE b \in DOMAIN home'
    <3>1. PICK o \in Ranks : copy[o][b] = "parent"
      BY <2>3, <2>4
    <3>2. \A q \in Ranks : q # o => copy[q][b] # "parent"
      BY <2>2, <3>1 DEF Single
    <3>3. o \in Holders(b)
      BY <3>1 DEF Holders
    <3>4. prank[o][b] = o /\ children[o][b] = Holders(b) \ {o}
      BY <2>2, <3>1, <3>3 DEF Listed
    <3>5. Holders(b)' = Holders(b)
      BY <1>1 DEF Holders
    <3>6. PackedFrom(b, o)'
      BY <1>1, <1>5, <1>6, <3>1, <3>2, <3>4, <3>5 DEF PackedFrom
    <3> QED
      BY <2>4, <3>6
  <2>5. CASE b \notin DOMAIN home'
    BY <1>1, <1>6, <2>2, <2>3, <2>5 DEF Rooted, Absent
  <2> QED
    BY <2>4, <2>5
<1>8. Forgotten' /\ Arrived' /\ Kept' /\ Quiet'
  BY <1>1 DEF Forgotten, Arrived, Kept, Quiet
<1>9. Unpacking' /\ Resting' /\ Finishing' /\ Managing'
  BY <1>1 DEF Unpacking, Resting, Finishing, Managing
<1>10. Counted'
  <2>1. ASSUME NEW b \in Alive PROVE b < bid[0]
    <3>1. b \in Ids /\ ~ Absent(b)
      BY DEF Alive, Parents, Absent
    <3>2. b \in Nat /\ bid[0] \in Nat
      BY <3>1, RankZero DEF Ids, Typed
    <3> QED
      BY <1>1, <3>1, <3>2 DEF Counted
  <2> QED
    BY <1>1, <2>1 DEF Counted, Absent
<1> QED
  BY <1>3, <1>4, <1>7, <1>8, <1>9, <1>10
-----------------------------------------------------------------------------
(* The ranks a body is packed for. *)
LEMMA Placed ==
    ASSUME Places, NEW b \in DOMAIN home
    PROVE  /\ home[b] \in Ranks /\ NewChildren(b) \subseteq Ranks /\ home[b] \notin NewChildren(b)
           /\ \A o : Targets(b, o) \subseteq Ranks
BY DEF Places, NewChildren, Targets

(* A rank packs the bodies it is the parent of, for all targets. *)
LEMMA PackStep ==
    ASSUME IInv, NEW r \in Ranks, Pack(r)
    PROVE  IInv'
<1> USE DEF IInv
<1> DEFINE leaving == {b \in Parents(r) : home[b] # r}
           sent(q) == {Packed(r, b, q) : b \in {c \in Parents(r) :
                          q \in NewChildren(c) \/ (q = home[c] /\ c \in leaving)}}
<1>1. /\ phase = "pack" /\ phase' = "pack" /\ r \notin done /\ done' = done \cup {r}
      /\ outbox' = [outbox EXCEPT ![r] = [q \in Ranks |-> [NoData EXCEPT !.bodies = sent(q)]]]
      /\ copy' = [copy EXCEPT ![r] = [b \in Ids |-> IF b \in leaving THEN "left" ELSE copy[r][b]]]
      /\ children' = [children EXCEPT ![r] = [b \in Ids |->
            IF b \in Parents(r) \ leaving THEN NewChildren(b)
            ELSE IF b \in leaving THEN {} ELSE children[r][b]]]
      /\ UNCHANGED <<prank, home, box, ties, bid, sparebid, pendingbods, pendingremovebods,
                     newb, inbox, failed>>
  BY DEF Pack, Enter, Leave, Send, listVars
<1>2. \A b : NewChildren(b)' = NewChildren(b) /\ \A o : Targets(b, o)' = Targets(b, o)
  BY <1>1 DEF NewChildren, Targets, Partners
<1>3. ASSUME NEW b \in Parents(r)
      PROVE  b \in Ids /\ b \in DOMAIN home /\ PackedFrom(b, r) /\ copy[r][b] = "parent"
  <2>1. b \in Ids /\ copy[r][b] = "parent"
    BY DEF Parents
  <2>2. b \in DOMAIN home
    BY <1>1, <2>1 DEF Packing, Absent
  <2>3. PICK o \in Ranks : PackedFrom(b, o)
    BY <1>1, <2>1, <2>2 DEF Packing
  <2>4. o = r
    BY <2>1, <2>3 DEF PackedFrom
  <2> QED
    BY <2>1, <2>2, <2>3, <2>4
<1>4. ASSUME NEW q \in Ranks
      PROVE  /\ outbox'[r][q].bodies = sent(q)
             /\ sent(q) \subseteq Message
             /\ \A m \in sent(q) : /\ m.id \in Parents(r) /\ q \in Targets(m.id, r)
                                   /\ Letter(m.id, q, m)
                                   /\ (m.full \/ q \in children[r][m.id])
             /\ \A b \in Parents(r) : q \in Targets(b, r) => \E m \in sent(q) : m.id = b
  <2>1. outbox'[r][q].bodies = sent(q)
    <3> HIDE DEF sent
    <3> QED
      BY <1>1 DEF Typed, NoData
  <2>2. ASSUME NEW b \in Parents(r)
        PROVE  q \in Targets(b, r) <=> q \in NewChildren(b) \/ (q = home[b] /\ b \in leaving)
    BY DEF Targets
  <2>3. ASSUME NEW m \in sent(q)
        PROVE  /\ m \in Message /\ m.id \in Parents(r) /\ q \in Targets(m.id, r)
               /\ Letter(m.id, q, m) /\ (m.full \/ q \in children[r][m.id])
    <3>1. PICK b \in Parents(r) : m = Packed(r, b, q) /\ q \in Targets(b, r)
      BY <2>2
    <3>2. /\ m.id = b /\ m.parent = (q = home[b]) /\ m.full = (q \notin children[r][b])
          /\ m.rank = home[b] /\ m.children = NewChildren(b)
      BY <3>1 DEF Packed
    <3>3. b \in Ids /\ home[b] \in Ranks /\ NewChildren(b) \subseteq Ranks
      BY <1>3, Placed
    <3>4. m \in Message
      BY <3>1, <3>3 DEF Packed, Message
    <3> QED
      BY <3>1, <3>2, <3>4 DEF Letter
  <2>4. ASSUME NEW b \in Parents(r), q \in Targets(b, r)
        PROVE  \E m \in sent(q) : m.id = b
    <3>1. Packed(r, b, q) \in sent(q)
      BY <2>2, <2>4
    <3>2. Packed(r, b, q).id = b
      BY DEF Packed
    <3> QED
      BY <3>1, <3>2
  <2> HIDE DEF sent
  <2> QED
    BY <2>1, <2>3, <2>4
<1>5. /\ \A b \in Ids : copy'[r][b] = IF b \in leaving THEN "left" ELSE copy[r][b]
      /\ \A b \in Ids : children'[r][b] = IF b \in Parents(r) \ leaving THEN NewChildren(b)
                          ELSE IF b \in leaving THEN {} ELSE children[r][b]
      /\ \A p \in Ranks : p # r => copy'[p] = copy[p] /\ children'[p] = children[p]
                                   /\ outbox'[p] = outbox[p]
  BY <1>1 DEF Typed
<1> HIDE DEF sent
<1>12. \A q \in Ranks : \A m \in outbox'[r][q].bodies : m.id \in Parents(r)
  <2>1. TAKE q \in Ranks
  <2>2. outbox'[r][q].bodies = sent(q) /\ \A m \in sent(q) : m.id \in Parents(r)
    BY <1>4
  <2> QED
    BY <2>2
<1>6. Typed'
  <2>1. copy' \in [Ranks -> [Ids -> Kinds]]
    <3>1. [b \in Ids |-> IF b \in leaving THEN "left" ELSE copy[r][b]] \in [Ids -> Kinds]
      BY DEF Typed, Kinds
    <3> QED
      BY <1>1, <3>1 DEF Typed
  <2>2. children' \in [Ranks -> [Ids -> SUBSET Ranks]]
    <3>1. [b \in Ids |-> IF b \in Parents(r) \ leaving THEN NewChildren(b)
                         ELSE IF b \in leaving THEN {} ELSE children[r][b]] \in [Ids -> SUBSET Ranks]
      <4>1. \A b \in Parents(r) : NewChildren(b) \subseteq Ranks
        BY <1>3, Placed
      <4> HIDE DEF leaving
      <4> QED
        BY <4>1 DEF Typed
    <3> QED
      BY <1>1, <3>1 DEF Typed
  <2>3. outbox' \in [Ranks -> [Ranks -> Data]]
    <3>1. \A q \in Ranks : [NoData EXCEPT !.bodies = sent(q)] \in Data
      BY <1>4 DEF NoData, Data
    <3>2. [q \in Ranks |-> [NoData EXCEPT !.bodies = sent(q)]] \in [Ranks -> Data]
      BY <3>1
    <3> QED
      BY <1>1, <3>2 DEF Typed
  <2> QED
    BY <1>1, <2>1, <2>2, <2>3 DEF Typed
<1>7. Packing'
  <2>1. ASSUME NEW b \in Ids, b \in DOMAIN home
        PROVE  \E o \in Ranks : PackedFrom(b, o)'
    <3>1. PICK o \in Ranks : PackedFrom(b, o)
      BY <1>1, <2>1 DEF Packing
    <3>2. CASE o = r
      <4>1. b \in Parents(r) /\ prank[r][b] = r /\ children[r][b] = Holders(b) \ {r}
        BY <1>1, <3>1, <3>2 DEF PackedFrom, Parents
      <4>2. \A q \in Ranks : q # r => copy'[q][b] # "parent"
        BY <1>5, <3>1, <3>2 DEF PackedFrom
      <4>3. /\ copy'[r][b] = IF home[b] = r THEN "parent" ELSE "left"
            /\ home[b] = r => children'[r][b] = NewChildren(b)
        BY <1>3, <1>5, <4>1
      <4>4. ASSUME NEW p \in Ranks, NEW q \in Ranks, NEW m \in outbox'[p][q].bodies, m.id = b
            PROVE  p = r /\ q \in Targets(b, r) /\ Letter(b, q, m) /\ (m.full \/ copy'[q][b] # "none")
        <5>1. p = r
          BY <1>1, <1>5, <3>1, <3>2, <4>4 DEF PackedFrom
        <5>2. outbox'[r][q].bodies = sent(q)
          BY <1>4
        <5>5. m \in sent(q)
          BY <4>4, <5>1, <5>2
        <5>3. q \in Targets(b, r) /\ Letter(b, q, m) /\ (m.full \/ q \in children[r][b])
          BY <1>4, <4>4, <5>5
        <5>4. q \in children[r][b] => copy'[q][b] # "none"
          BY <1>5, <4>1 DEF Holders
        <5> QED
          BY <5>1, <5>3, <5>4
      <4>5. ASSUME NEW q \in Targets(b, r)
            PROVE  \E m \in outbox'[r][q].bodies : m.id = b
        <5>1. q \in Ranks
          BY <2>1, Placed
        <5>2. outbox'[r][q].bodies = sent(q)
          BY <1>4, <5>1
        <5> QED
          BY <1>4, <4>1, <5>1, <5>2
      <4>6. \A q, m : Letter(b, q, m)' <=> Letter(b, q, m)
        BY <1>1, <1>2 DEF Letter
      <4>7. PackedFrom(b, r)'
        BY <1>1, <1>2, <4>1, <4>2, <4>3, <4>4, <4>5, <4>6 DEF PackedFrom
      <4> QED
        BY <4>7
    <3>3. CASE o # r
      <4>1. b \notin Parents(r)
        BY <3>1, <3>3 DEF PackedFrom, Parents
      <4>2. \A p \in Ranks : copy'[p][b] = copy[p][b] /\ children'[p][b] = children[p][b]
        BY <1>5, <4>1
      <4>3. Holders(b)' = Holders(b)
        BY <4>2 DEF Holders
      <4>4. \A q \in Ranks : \A m \in outbox'[r][q].bodies : m.id # b
        BY <1>12, <4>1
      <4>5. \A q, m : Letter(b, q, m)' <=> Letter(b, q, m)
        BY <1>1, <1>2 DEF Letter
      <4>6. CASE o \notin done
        <5>1. /\ copy'[o][b] = "parent" /\ prank'[o][b] = o /\ children'[o][b] = Holders(b)' \ {o}
              /\ \A q \in Ranks : q # o => copy'[q][b] # "parent"
          BY <1>1, <3>1, <4>2, <4>3, <4>6 DEF PackedFrom
        <5>2. \A p, q \in Ranks : \A m \in outbox'[p][q].bodies : m.id # b
          BY <1>5, <3>1, <4>4, <4>6 DEF PackedFrom
        <5> QED
          BY <1>1, <3>3, <4>6, <5>1, <5>2 DEF PackedFrom
      <4>7. CASE o \in done
        <5>1. /\ copy'[o][b] = IF home[b] = o THEN "parent" ELSE "left"
              /\ home[b] = o => prank'[o][b] = o /\ children'[o][b] = NewChildren(b)
              /\ \A q \in Ranks : q # o => copy'[q][b] # "parent"
          BY <1>1, <3>1, <4>2, <4>7 DEF PackedFrom
        <5>2. ASSUME NEW p \in Ranks, NEW q \in Ranks, NEW m \in outbox'[p][q].bodies, m.id = b
              PROVE  p = o /\ q \in Targets(b, o) /\ Letter(b, q, m) /\ (m.full \/ copy'[q][b] # "none")
          <6>1. p # r /\ m \in outbox[p][q].bodies
            BY <1>5, <4>4, <5>2
          <6> QED
            BY <3>1, <4>2, <4>7, <5>2, <6>1 DEF PackedFrom
        <5>3. \A q \in Targets(b, o) : \E m \in outbox'[o][q].bodies : m.id = b
          BY <1>5, <3>1, <3>3, <4>7 DEF PackedFrom
        <5>4. \A p, q \in Ranks : \A m \in outbox'[p][q].bodies : m.id = b =>
                 /\ p = o /\ q \in Targets(b, o)' /\ Letter(b, q, m)'
                 /\ m.full \/ copy'[q][b] # "none"
          BY <1>2, <4>5, <5>2
        <5>5. \A q \in Targets(b, o)' : \E m \in outbox'[o][q].bodies : m.id = b
          BY <1>2, <5>3
        <5>6. o \in done' /\ home' = home /\ NewChildren(b)' = NewChildren(b)
          BY <1>1, <1>2, <4>7
        <5>7. PackedFrom(b, o)'
          BY <5>1, <5>4, <5>5, <5>6 DEF PackedFrom
        <5> QED
          BY <5>7
      <4> QED
        BY <4>6, <4>7
    <3> QED
      BY <3>2, <3>3
  <2>2. ASSUME NEW b \in Ids, b \notin DOMAIN home
        PROVE  /\ Absent(b)'
               /\ \A p, q \in Ranks : \A m \in outbox'[p][q].bodies : m.id # b
    <3>1. Absent(b) /\ b \notin Parents(r) /\ \A p, q \in Ranks : \A m \in outbox[p][q].bodies : m.id # b
      BY <1>1, <2>2, <1>3 DEF Packing
    <3>2. Absent(b)'
      BY <1>5, <3>1 DEF Absent
    <3>3. \A p, q \in Ranks : \A m \in outbox'[p][q].bodies : m.id # b
      BY <1>12, <1>5, <3>1
    <3> QED
      BY <3>2, <3>3
  <2> QED
    BY <1>1, <2>1, <2>2 DEF Packing
<1>8. Forgotten'
  <2>1. SUFFICES ASSUME NEW p \in Ranks, NEW b \in Ids, copy'[p][b] \notin {"parent", "child"}
        PROVE  prank[p][b] = p /\ children'[p][b] = {}
    BY <1>1 DEF Forgotten
  <2>2. CASE p = r /\ b \in leaving
    BY <1>1, <1>3, <1>5, <2>2 DEF PackedFrom
  <2>3. CASE ~ (p = r /\ b \in leaving)
    <3>1. copy[p][b] = copy'[p][b]
      BY <1>5, <2>3
    <3>2. p = r => b \notin Parents(r)
      BY <2>1, <3>1 DEF Parents
    <3> QED
      BY <1>5, <2>1, <2>3, <3>1, <3>2 DEF Forgotten
  <2> QED
    BY <2>2, <2>3
<1>9. Counted'
  <2>1. ASSUME NEW b \in Ids, b >= bid[0] PROVE Absent(b)'
    <3>1. Absent(b)
      BY <1>1, <2>1 DEF Counted
    <3>2. b \notin Parents(r)
      BY <3>1 DEF Absent, Parents
    <3> QED
      BY <1>5, <3>1, <3>2 DEF Absent
  <2> QED
    BY <1>1, <2>1 DEF Counted
<1>10. Kept'
  <2>1. \A p \in Ranks : \A b \in newb[p] : b \in Ids
    BY DEF Typed
  <2> QED
    BY <1>1, <1>5, <2>1 DEF Kept
<1>11. Places' /\ Quiet' /\ Arrived' /\ Unpacking' /\ Resting' /\ Finishing' /\ Managing'
  BY <1>1 DEF Places, Quiet, Arrived, Unpacking, Resting, Finishing, Managing
<1> QED
  BY <1>6, <1>7, <1>8, <1>9, <1>10, <1>11
-----------------------------------------------------------------------------
(* A rank takes what came: exactly the bodies it is a target of. *)
LEMMA UnpackStep ==
    ASSUME IInv, NEW r \in Ranks, Unpack(r)
    PROVE  IInv'
<1> USE DEF IInv
<1> DEFINE came == UNION {inbox[r][q].bodies : q \in Ranks}
           Msg(b) == CHOOSE m \in came : m.id = b
           Came(b) == \E m \in came : m.id = b
<1>1. /\ phase = "unpack" /\ phase' = "unpack" /\ r \notin done /\ done' = done \cup {r}
      /\ failed' = IF \A m \in came : /\ m.full \/ copy[r][m.id] # "none"
                                      /\ copy[r][m.id] # "parent"
                   THEN failed ELSE failed \cup {"body"}
      /\ copy' = [copy EXCEPT ![r] = [b \in Ids |->
                IF Came(b) THEN IF Msg(b).parent THEN "parent" ELSE "child"
                ELSE IF copy[r][b] = "child" THEN "left" ELSE copy[r][b]]]
      /\ children' = [children EXCEPT ![r] = Known(r, [b \in Ids |->
                IF Came(b) THEN Siblings(r, Msg(b)) ELSE children[r][b]], {})]
      /\ prank' = [prank EXCEPT ![r] = Known(r, [b \in Ids |->
                IF Came(b) THEN Msg(b).rank ELSE prank[r][b]], r)]
      /\ UNCHANGED <<home, box, ties, bid, sparebid, pendingbods, pendingremovebods,
                     newb, outbox, inbox>>
  BY DEF Unpack, Enter, Leave, Check, listVars
<1>2. \A b : NewChildren(b)' = NewChildren(b) /\ \A o : Targets(b, o)' = Targets(b, o)
  BY <1>1 DEF NewChildren, Targets, Partners
<1>3. came \subseteq Message
  BY DEF Typed, Data
<1>4. ASSUME NEW m \in came
      PROVE  m.id \in DOMAIN home /\ m.id \in Ids
  <2>1. m.id \in Ids
    BY <1>3 DEF Message
  <2>2. PICK q \in Ranks : m \in inbox[r][q].bodies
    OBVIOUS
  <2> QED
    BY <1>1, <2>1, <2>2 DEF Unpacking
<1>5. ASSUME NEW b \in DOMAIN home, NEW o \in Ranks, UnpackedFrom(b, o)
      PROVE  /\ Came(b) <=> r \in Targets(b, o)
             /\ \A m \in came : m.id = b => Letter(b, r, m) /\ (m.full \/ copy[r][b] # "none")
  <2>1. ASSUME NEW m \in came, m.id = b
        PROVE  r \in Targets(b, o) /\ Letter(b, r, m) /\ (m.full \/ copy[r][b] # "none")
    <3>1. PICK q \in Ranks : m \in inbox[r][q].bodies
      OBVIOUS
    <3> QED
      BY <1>1, <1>5, <2>1, <3>1 DEF UnpackedFrom
  <2>2. ASSUME r \in Targets(b, o) PROVE Came(b)
    <3>1. PICK m \in inbox[r][o].bodies : m.id = b
      BY <1>5, <2>2 DEF UnpackedFrom
    <3> QED
      BY <3>1
  <2> QED
    BY <2>1, <2>2
<1>6. \A b : Came(b) => Msg(b) \in came /\ Msg(b).id = b
  OBVIOUS
<1>7. \A b : Came(b) => /\ b \in DOMAIN home /\ b \in Ids
                        /\ Msg(b).parent = (r = home[b]) /\ Msg(b).rank = home[b]
                        /\ Msg(b).children = NewChildren(b)
  <2>1. SUFFICES ASSUME NEW b, Came(b)
        PROVE  /\ b \in DOMAIN home /\ b \in Ids
               /\ Msg(b).parent = (r = home[b]) /\ Msg(b).rank = home[b]
               /\ Msg(b).children = NewChildren(b)
    OBVIOUS
  <2>2. Msg(b) \in came /\ Msg(b).id = b
    BY <1>6, <2>1
  <2> HIDE DEF Msg, Came, came
  <2>3. b \in DOMAIN home /\ b \in Ids
    BY <1>4, <2>2
  <2>4. PICK o \in Ranks : UnpackedFrom(b, o)
    BY <1>1, <2>3 DEF Unpacking
  <2> QED
    BY <1>5, <2>2, <2>3, <2>4 DEF Letter
<1>8. \A p \in Ranks : p # r => copy'[p] = copy[p] /\ children'[p] = children[p] /\ prank'[p] = prank[p]
  BY <1>1 DEF Typed
<1> HIDE DEF Msg, Came, came
<1>9. \A b \in Ids : copy'[r][b] = IF Came(b) THEN IF r = home[b] THEN "parent" ELSE "child"
                                   ELSE IF copy[r][b] = "child" THEN "left" ELSE copy[r][b]
  BY <1>1, <1>7 DEF Typed
<1>10. \A b \in Ids : children'[r][b] = IF copy'[r][b] \notin {"parent", "child"} THEN {}
                                        ELSE IF Came(b) THEN NewChildren(b) \ {r} ELSE children[r][b]
  BY <1>1, <1>7 DEF Typed, Known, Siblings
<1>11. \A b \in Ids : prank'[r][b] = IF copy'[r][b] \notin {"parent", "child"} THEN r
                                     ELSE IF Came(b) THEN home[b] ELSE prank[r][b]
  BY <1>1, <1>7 DEF Typed, Known
<1>12. Typed'
  <2>1. copy' \in [Ranks -> [Ids -> Kinds]]
    <3>1. [b \in Ids |-> IF Came(b) THEN IF Msg(b).parent THEN "parent" ELSE "child"
                ELSE IF copy[r][b] = "child" THEN "left" ELSE copy[r][b]] \in [Ids -> Kinds]
      BY DEF Typed, Kinds
    <3> QED
      BY <1>1, <3>1 DEF Typed
  <2>2. children' \in [Ranks -> [Ids -> SUBSET Ranks]]
    <3>1. \A b \in Ids : Came(b) => Siblings(r, Msg(b)) \subseteq Ranks
      BY <1>7, Placed DEF Siblings
    <3>2. Known(r, [b \in Ids |-> IF Came(b) THEN Siblings(r, Msg(b)) ELSE children[r][b]], {})
            \in [Ids -> SUBSET Ranks]
      BY <3>1 DEF Known, Typed
    <3> QED
      BY <1>1, <3>2 DEF Typed
  <2>3. prank' \in [Ranks -> [Ids -> Ranks]]
    <3>1. \A b \in Ids : Came(b) => Msg(b).rank \in Ranks
      BY <1>7, Placed
    <3>2. Known(r, [b \in Ids |-> IF Came(b) THEN Msg(b).rank ELSE prank[r][b]], r) \in [Ids -> Ranks]
      BY <3>1 DEF Known, Typed
    <3> QED
      BY <1>1, <3>2 DEF Typed
  <2> QED
    BY <1>1, <2>1, <2>2, <2>3 DEF Typed
<1>13. Unpacking'
  <2>1. ASSUME NEW b \in Ids, b \in DOMAIN home
        PROVE  \E o \in Ranks : UnpackedFrom(b, o)'
    <3>1. PICK o \in Ranks : UnpackedFrom(b, o)
      BY <1>1, <2>1 DEF Unpacking
    <3>2. Came(b) <=> r \in Targets(b, o)
      BY <1>5, <2>1, <3>1
    <3>3. home[b] \notin NewChildren(b) /\ home[b] \in Ranks
      BY <2>1, Placed
    <3>4. \A q, m : Letter(b, q, m)' <=> Letter(b, q, m)
      BY <1>1, <1>2 DEF Letter
    <3>5. /\ \A p, q \in Ranks : \A m \in inbox[q][p].bodies : m.id = b =>
              /\ p = o /\ q \in Targets(b, o) /\ Letter(b, q, m)
              /\ q \notin done' => m.full \/ copy'[q][b] # "none"
          /\ \A q \in Targets(b, o) : \E m \in inbox[q][o].bodies : m.id = b
      BY <1>1, <1>8, <3>1 DEF UnpackedFrom
    <3>6. copy[r][b] = "parent" <=> r = o /\ home[b] = o
      BY <1>1, <3>1 DEF UnpackedFrom
    <3>7. /\ copy'[r][b] = "parent" <=> r = home[b]
          /\ copy'[r][b] = "child" <=> r \in NewChildren(b)
      BY <1>9, <3>2, <3>3, <3>6 DEF Targets
    <3>8. home[b] = o => prank'[o][b] = o /\ children'[o][b] = NewChildren(b) /\ copy'[o][b] = "parent"
      <4>1. home[b] = o => prank[o][b] = o /\ children[o][b] = NewChildren(b) /\ copy[o][b] = "parent"
        BY <3>1 DEF UnpackedFrom
      <4>2. home[b] = o /\ r = o => ~ Came(b)
        BY <3>2, <3>3 DEF Targets
      <4> QED
        BY <1>8, <1>9, <1>10, <1>11, <4>1, <4>2, ZenonT(60)
    <3>9. r \in NewChildren(b) \cup {home[b]} =>
             prank'[r][b] = home[b] /\ children'[r][b] = NewChildren(b) \ {r}
      <4>1. CASE Came(b)
        BY <1>10, <1>11, <3>7, <4>1
      <4>2. CASE ~ Came(b) /\ r \in NewChildren(b) \cup {home[b]}
        <5>1. r = o /\ home[b] = o
          BY <3>2, <4>2 DEF Targets
        <5> QED
          BY <3>3, <3>8, <5>1
      <4> QED
        BY <4>1, <4>2
    <3>10. \A q \in Ranks : q \notin done' => (copy'[q][b] = "parent" <=> q = o /\ home[b] = o)
      BY <1>1, <1>8, <3>1 DEF UnpackedFrom
    <3>11. ASSUME NEW q \in Ranks, q \in done'
           PROVE  /\ copy'[q][b] = "parent" <=> q = home[b]
                  /\ copy'[q][b] = "child" <=> q \in NewChildren(b)
                  /\ q \in NewChildren(b) \cup {home[b]} =>
                       prank'[q][b] = home[b] /\ children'[q][b] = NewChildren(b) \ {q}
      <4>1. CASE q = r
        BY <3>7, <3>9, <4>1
      <4>2. CASE q # r
        BY <1>1, <1>8, <3>1, <3>11, <4>2 DEF UnpackedFrom
      <4> QED
        BY <4>1, <4>2
    <3>12. \A p, q \in Ranks : \A m \in inbox'[q][p].bodies : m.id = b =>
              /\ p = o /\ q \in Targets(b, o)' /\ Letter(b, q, m)'
              /\ q \notin done' => m.full \/ copy'[q][b] # "none"
      BY <1>1, <1>2, <3>4, <3>5
    <3>13. \A q \in Targets(b, o)' : \E m \in inbox'[q][o].bodies : m.id = b
      BY <1>1, <1>2, <3>5
    <3>14. home' = home /\ NewChildren(b)' = NewChildren(b)
      BY <1>1, <1>2
    <3>15. UnpackedFrom(b, o)'
      BY <3>8, <3>10, <3>11, <3>12, <3>13, <3>14 DEF UnpackedFrom
    <3> QED
      BY <3>15
  <2>2. ASSUME NEW b \in Ids, b \notin DOMAIN home
        PROVE  /\ Absent(b)'
               /\ \A p, q \in Ranks : \A m \in inbox[q][p].bodies : m.id # b
    <3>1. Absent(b) /\ \A p, q \in Ranks : \A m \in inbox[q][p].bodies : m.id # b
      BY <1>1, <2>2 DEF Unpacking
    <3>2. ~ Came(b)
      BY <1>7, <2>2
    <3>3. Absent(b)'
      BY <1>8, <1>9, <3>1, <3>2 DEF Absent
    <3> QED
      BY <3>1, <3>3
  <2> QED
    BY <1>1, <2>1, <2>2 DEF Unpacking
<1>14. Arrived'
  <2>1. ASSUME NEW m \in came
        PROVE  (m.full \/ copy[r][m.id] # "none") /\ copy[r][m.id] # "parent"
    <3>1. m.id \in DOMAIN home /\ m.id \in Ids
      BY <1>4
    <3>2. PICK o \in Ranks : UnpackedFrom(m.id, o)
      BY <1>1, <3>1 DEF Unpacking
    <3>3. r \in Targets(m.id, o) /\ (m.full \/ copy[r][m.id] # "none")
      BY <1>5, <3>1, <3>2 DEF Came
    <3>4. copy[r][m.id] # "parent"
      BY <1>1, <3>1, <3>2, <3>3, Placed DEF UnpackedFrom, Targets
    <3> QED
      BY <3>3, <3>4
  <2> QED
    BY <1>1, <2>1 DEF Arrived
<1>15. Forgotten'
  <2>1. ASSUME NEW p \in Ranks, NEW b \in Ids, copy'[p][b] \notin {"parent", "child"}
        PROVE  prank'[p][b] = p /\ children'[p][b] = {}
    <3>1. CASE p = r
      BY <1>10, <1>11, <2>1, <3>1
    <3>2. CASE p # r
      BY <1>8, <2>1, <3>2 DEF Forgotten
    <3> QED
      BY <3>1, <3>2
  <2> QED
    BY <2>1 DEF Forgotten
<1>16. Counted'
  <2>1. ASSUME NEW b \in Ids, b >= bid[0] PROVE Absent(b)'
    <3>1. Absent(b)
      BY <1>1, <2>1 DEF Counted
    <3>2. ~ Came(b)
      <4>1. b \in Nat /\ bid[0] \in Nat
        BY RankZero DEF Ids, Typed
      <4> QED
        BY <1>1, <1>7, <2>1, <4>1 DEF Counted
    <3> QED
      BY <1>8, <1>9, <3>1, <3>2 DEF Absent
  <2> QED
    BY <1>1, <2>1 DEF Counted
<1>17. Kept'
  <2>1. \A p \in Ranks : \A b \in newb[p] : b \in Ids
    BY DEF Typed
  <2> QED
    BY <1>1, <1>8, <1>9, <2>1 DEF Kept
<1>18. Places' /\ Quiet' /\ Packing' /\ Resting' /\ Finishing' /\ Managing'
  BY <1>1 DEF Places, Quiet, Packing, Resting, Finishing, Managing
<1> QED
  BY <1>12, <1>13, <1>14, <1>15, <1>16, <1>17, <1>18
-----------------------------------------------------------------------------
(* Alive in one formula. *)
LEMMA AliveIs == \A b : b \in Alive <=> b \in Ids /\ \E r \in Ranks : copy[r][b] = "parent"
BY DEF Alive, Parents

(* Constraints are of bodies that are alive; dummies are made of those. *)
LEMMA TieStep ==
    ASSUME IInv, Tie
    PROVE  IInv'
<1> USE DEF IInv
<1>1. PICK T \in SUBSET {t \in Touching : t \subseteq Alive} :
        /\ phase = "tie" /\ phase' = "finish"
        /\ ties' = [r \in Ranks |-> {t \in T : t \cap Held(r) # {}}]
        /\ copy' = [r \in Ranks |-> [b \in Ids |->
            IF copy[r][b] = "none" /\ b \in UNION ties'[r] THEN "dummy" ELSE copy[r][b]]]
        /\ home' = NoPlaces /\ box' = NoPlaces
        /\ UNCHANGED <<done, children, prank, bid, sparebid, pendingbods, pendingremovebods,
                       newb, outbox, inbox, failed>>
  BY DEF Tie, listVars
<1>2. done = {}
  BY <1>1 DEF Typed
<1>3. \A r \in Ranks : \A b \in Tied(r)' : b \in Alive /\ b \in Ids
  BY <1>1, AliveIs DEF Tied
<1>4. /\ \A r \in Ranks : \A b \in Ids : copy'[r][b] =
            IF copy[r][b] = "none" /\ b \in Tied(r)' THEN "dummy" ELSE copy[r][b]
      /\ \A r \in Ranks : \A b \in Ids : copy[r][b] \in Kinds
  BY <1>1 DEF Tied, Typed
<1>5. /\ \A r \in Ranks : \A b \in Ids : copy'[r][b] = "parent" <=> copy[r][b] = "parent"
      /\ \A r \in Ranks : \A b \in Ids : copy'[r][b] \in {"parent", "child"} <=> copy[r][b] \in {"parent", "child"}
  BY <1>4
<1>6. Typed'
  <2>1. copy' \in [Ranks -> [Ids -> Kinds]]
    BY <1>1 DEF Typed, Kinds
  <2>2. ties' \in [Ranks -> SUBSET SUBSET Ids]
    BY <1>1, AliveIs
  <2> QED
    BY <1>1, <2>1, <2>2 DEF Typed, Phases
<1>7. Places'
  BY <1>1 DEF Places, NoPlaces
<1>8. Forgotten'
  BY <1>1, <1>5 DEF Forgotten
<1>9. Finishing'
  <2>1. ASSUME NEW b \in Ids PROVE Single(b)' /\ Listed(b)' /\ Rooted(b)'
    <3>1. Single(b) /\ Listed(b) /\ Rooted(b)
      BY <1>1 DEF Resting
    <3>2. Holders(b)' = Holders(b)
      BY <1>5 DEF Holders
    <3>3. Single(b)'
      BY <1>5, <3>1 DEF Single
    <3>4. \A r \in Holders(b) : r \in Ranks /\ prank[r][b] \in Ranks
      BY DEF Holders, Typed
    <3>5. Listed(b)'
      BY <1>1, <1>5, <3>1, <3>2, <3>4 DEF Listed
    <3>6. Rooted(b)'
      <4>1. SUFFICES ASSUME NEW r \in Ranks, copy'[r][b] # "none"
            PROVE  \E q \in Ranks : copy'[q][b] = "parent"
        BY DEF Rooted
      <4>2. copy[r][b] # "none" \/ b \in Alive
        BY <1>3, <1>4, <4>1
      <4> QED
        BY <1>5, <3>1, <4>2, AliveIs DEF Rooted
    <3> QED
      BY <3>3, <3>5, <3>6
  <2>2. \A b : b \in Alive => b \in Alive'
    <3>1. \A b : b \in Alive' <=> b \in Ids /\ \E r \in Ranks : copy'[r][b] = "parent"
      BY DEF Alive, Parents
    <3> QED
      BY <1>5, <3>1, AliveIs
  <2> QED
    BY <1>1, <1>2, <1>3, <2>1, <2>2 DEF Finishing
<1>10. Counted'
  <2>1. ASSUME NEW b \in Ids, b >= bid[0] PROVE Absent(b)'
    <3>1. Absent(b)
      BY <1>1, <2>1 DEF Counted
    <3>2. b \notin Alive
      BY <3>1, AliveIs DEF Absent
    <3> QED
      BY <1>3, <1>4, <3>1, <3>2 DEF Absent
  <2> QED
    BY <1>1, <2>1 DEF Counted, NoPlaces
<1>11. Kept'
  <2>1. \A p \in Ranks : \A b \in newb[p] : b \in Ids
    BY DEF Typed
  <2> QED
    BY <1>1, <1>4, <2>1 DEF Kept
<1>12. Quiet' /\ Arrived' /\ Packing' /\ Unpacking' /\ Resting' /\ Managing'
  BY <1>1 DEF Quiet, Arrived, Packing, Unpacking, Resting, Managing
<1> QED
  BY <1>6, <1>7, <1>8, <1>9, <1>10, <1>11, <1>12

(* What a rank removes is among the spare ids it sends to all. *)
LEMMA FinishStep ==
    ASSUME IInv, NEW r \in Ranks, Finish(r)
    PROVE  IInv'
<1> USE DEF IInv
<1>1. PICK out \in SUBSET (Lost \cap Parents(r)), cracked \in SUBSET (Cracking \cap Parents(r)) :
      \E n \in Cardinality(cracked) .. 2 * Cardinality(cracked) :
        LET gone == out \cup cracked \cup pendingremovebods[r]
        IN  /\ out \cap cracked = {}
            /\ n > 0 => Room(n)
            /\ Check(pendingremovebods[r] \cap (out \cup cracked) = {}, "destroyed")
            /\ copy' = [copy EXCEPT ![r] = Removed(r, gone)]
            /\ KnowsSame(r)
            /\ ties' = [ties EXCEPT ![r] = TiesWithout(r, gone)]
            /\ newb' = [newb EXCEPT ![r] = @ \ gone]
            /\ sparebid' = [sparebid EXCEPT ![r] = gone]
            /\ pendingbods' = [pendingbods EXCEPT ![r] = @ + n]
            /\ Send(r, [q \in Ranks |-> [NoData EXCEPT
                    !.spare = gone, !.count = pendingbods[r] + n]])
  BY DEF Finish
<1>18. PICK n \in Cardinality(cracked) .. 2 * Cardinality(cracked) :
        LET gone == out \cup cracked \cup pendingremovebods[r]
        IN  /\ out \cap cracked = {}
            /\ n > 0 => Room(n)
            /\ Check(pendingremovebods[r] \cap (out \cup cracked) = {}, "destroyed")
            /\ copy' = [copy EXCEPT ![r] = Removed(r, gone)]
            /\ KnowsSame(r)
            /\ ties' = [ties EXCEPT ![r] = TiesWithout(r, gone)]
            /\ newb' = [newb EXCEPT ![r] = @ \ gone]
            /\ sparebid' = [sparebid EXCEPT ![r] = gone]
            /\ pendingbods' = [pendingbods EXCEPT ![r] = @ + n]
            /\ Send(r, [q \in Ranks |-> [NoData EXCEPT
                    !.spare = gone, !.count = pendingbods[r] + n]])
  BY <1>1
<1>2. /\ phase = "finish" /\ phase' = "finish" /\ r \notin done /\ done' = done \cup {r}
      /\ pendingremovebods' = [pendingremovebods EXCEPT ![r] = {}]
      /\ UNCHANGED <<home, box, bid, inbox>>
  BY DEF Finish, Enter, Leave
<1> DEFINE gone == out \cup cracked \cup pendingremovebods[r]
           news == [q \in Ranks |-> [NoData EXCEPT !.spare = gone, !.count = pendingbods[r] + n]]
<1>16. /\ n > 0 => Room(n)
       /\ failed' \in {failed, failed \cup {"destroyed"}}
       /\ copy' = [copy EXCEPT ![r] = Removed(r, gone)]
       /\ KnowsSame(r)
       /\ ties' = [ties EXCEPT ![r] = TiesWithout(r, gone)]
       /\ newb' = [newb EXCEPT ![r] = newb[r] \ gone]
       /\ sparebid' = [sparebid EXCEPT ![r] = gone]
       /\ pendingbods' = [pendingbods EXCEPT ![r] = pendingbods[r] + n]
       /\ outbox' = [outbox EXCEPT ![r] = news]
  BY <1>18 DEF Send, Check
<1>3. gone \subseteq Ids
  BY DEF Parents, Typed
<1>4. n \in Nat
  <2>1. cracked \subseteq 1 .. MaxBody - 1
    BY DEF Parents, Ids
  <2>2. IsFiniteSet(1 .. MaxBody - 1)
    BY RankZero, FS_Interval
  <2>3. Cardinality(cracked) \in Nat
    BY <2>1, <2>2, FS_Subset, FS_CardinalityType
  <2> QED
    BY <2>3
<1>17. news = [q \in Ranks |-> [bodies |-> {}, spare |-> gone, count |-> pendingbods[r] + n]]
  <2>1. ASSUME NEW S, NEW c
        PROVE  [NoData EXCEPT !.spare = S, !.count = c] = [bodies |-> {}, spare |-> S, count |-> c]
    <3> DEFINE d == [NoData EXCEPT !.spare = S, !.count = c]
    <3>1. d.bodies = {} /\ d.spare = S /\ d.count = c
      BY DEF NoData
    <3>2. DOMAIN d = {"bodies", "spare", "count"} /\ d = [x \in DOMAIN d |-> d[x]]
      BY DEF NoData
    <3> HIDE DEF d
    <3>3. d = [bodies |-> {}, spare |-> S, count |-> c]
      BY <3>1, <3>2
    <3> QED
      BY <3>3 DEF d
  <2> DEFINE c == pendingbods[r] + n
  <2> HIDE DEF gone, c
  <2>2. [q \in Ranks |-> [NoData EXCEPT !.spare = gone, !.count = c]]
          = [q \in Ranks |-> [bodies |-> {}, spare |-> gone, count |-> c]]
    BY <2>1, Zenon
  <2> QED
    BY <2>2 DEF c
<1> HIDE DEF gone, news
<1>5. /\ \A b \in Ids : copy'[r][b] = IF b \in gone THEN "none" ELSE copy[r][b]
      /\ \A p \in Ranks : p # r => copy'[p] = copy[p]
  BY <1>2, <1>16 DEF Typed, Removed
<1>6. /\ \A b \in Ids : /\ children'[r][b] = IF copy'[r][b] \in {"parent", "child"} THEN children[r][b] ELSE {}
                        /\ prank'[r][b] = IF copy'[r][b] \in {"parent", "child"} THEN prank[r][b] ELSE r
      /\ \A p \in Ranks : p # r => children'[p] = children[p] /\ prank'[p] = prank[p]
  BY <1>2, <1>16 DEF Typed, KnowsSame, Known
<1>7. /\ outbox'[r] = news
      /\ \A p \in Ranks : p # r => outbox'[p] = outbox[p]
      /\ sparebid'[r] = gone /\ \A p \in Ranks : p # r => sparebid'[p] = sparebid[p]
      /\ pendingbods'[r] = pendingbods[r] + n /\ \A p \in Ranks : p # r => pendingbods'[p] = pendingbods[p]
      /\ ties'[r] = TiesWithout(r, gone) /\ \A p \in Ranks : p # r => ties'[p] = ties[p]
      /\ newb'[r] = newb[r] \ gone /\ \A p \in Ranks : p # r => newb'[p] = newb[p]
  <2>1. outbox'[r] = news /\ \A p \in Ranks : p # r => outbox'[p] = outbox[p]
    BY <1>16 DEF Typed
  <2>2. sparebid'[r] = gone /\ \A p \in Ranks : p # r => sparebid'[p] = sparebid[p]
    BY <1>16 DEF Typed
  <2>3. pendingbods'[r] = pendingbods[r] + n /\ \A p \in Ranks : p # r => pendingbods'[p] = pendingbods[p]
    BY <1>16 DEF Typed
  <2>4. ties'[r] = TiesWithout(r, gone) /\ \A p \in Ranks : p # r => ties'[p] = ties[p]
    BY <1>16 DEF Typed
  <2>5. newb'[r] = newb[r] \ gone /\ \A p \in Ranks : p # r => newb'[p] = newb[p]
    BY <1>16 DEF Typed
  <2> QED
    BY <2>1, <2>2, <2>3, <2>4, <2>5
<1>8. Gone' = Gone \cup gone
  <2>1. r \notin done /\ done' = done \cup {r} /\ done \subseteq Ranks
    BY <1>2, <1>16 DEF Typed
  <2> QED
    BY <1>7, <2>1 DEF Gone
<1>9. Typed'
  <2>1. Removed(r, gone) \in [Ids -> Kinds]
    BY DEF Removed, Typed, Kinds
  <2>2. Known(r, children[r], {}) \in [Ids -> SUBSET Ranks] /\ Known(r, prank[r], r) \in [Ids -> Ranks]
    BY DEF Known, Typed
  <2>3. TiesWithout(r, gone) \in SUBSET SUBSET Ids
    BY DEF TiesWithout, Typed
  <2>4. news \in [Ranks -> Data]
    BY <1>3, <1>4, <1>17 DEF Data, Typed
  <2>5. /\ copy' \in [Ranks -> [Ids -> Kinds]]
        /\ ties' \in [Ranks -> SUBSET SUBSET Ids]
    BY <1>2, <1>16, <2>1, <2>3 DEF Typed
  <2>6. /\ children' \in [Ranks -> [Ids -> SUBSET Ranks]]
        /\ prank' \in [Ranks -> [Ids -> Ranks]]
    BY <1>2, <1>16, <2>2 DEF Typed, KnowsSame
  <2>7. outbox' \in [Ranks -> [Ranks -> Data]]
    BY <1>2, <1>16, <2>4 DEF Typed
  <2>8. /\ pendingbods' \in [Ranks -> Nat] /\ sparebid' \in [Ranks -> SUBSET Ids]
        /\ pendingremovebods' \in [Ranks -> SUBSET Ids] /\ newb' \in [Ranks -> SUBSET Ids]
    BY <1>2, <1>16, <1>3, <1>4 DEF Typed
  <2> QED
    BY <1>2, <1>16, <2>5, <2>6, <2>7, <2>8 DEF Typed
<1>10. Forgotten'
  <2>1. ASSUME NEW p \in Ranks, NEW b \in Ids, copy'[p][b] \notin {"parent", "child"}
        PROVE  prank'[p][b] = p /\ children'[p][b] = {}
    <3>1. CASE p = r
      BY <1>6, <2>1, <3>1
    <3>2. CASE p # r
      BY <1>5, <1>6, <2>1, <3>2 DEF Forgotten
    <3> QED
      BY <3>1, <3>2
  <2> QED
    BY <2>1 DEF Forgotten
<1>11. Finishing'
  <2>1. ASSUME NEW b \in Ids PROVE Single(b)'
    BY <1>2, <1>16, <1>5 DEF Finishing, Single
  <2>2. ASSUME NEW b \in Ids \ Gone'
        PROVE  Listed(b)' /\ Rooted(b)'
    <3>1. b \in Ids /\ b \notin gone /\ Listed(b) /\ Rooted(b)
      BY <1>2, <1>16, <1>8, <2>2 DEF Finishing
    <3>2. \A p \in Ranks : copy'[p][b] = copy[p][b]
      BY <1>5, <3>1
    <3>3. Holders(b)' = Holders(b)
      BY <3>2 DEF Holders
    <3>4. \A p \in Holders(b) : /\ p \in Ranks /\ prank[p][b] \in Ranks
                                /\ children'[p][b] = children[p][b] /\ prank'[p][b] = prank[p][b]
      <4>1. TAKE p \in Holders(b)
      <4>2. p \in Ranks /\ copy'[p][b] \in {"parent", "child"} /\ prank[p][b] \in Ranks
        BY <3>1, <3>2 DEF Holders, Typed
      <4>3. children'[p][b] = children[p][b] /\ prank'[p][b] = prank[p][b]
        BY <1>6, <3>1, <4>2
      <4> QED
        BY <4>2, <4>3
    <3>5. Listed(b)'
      BY <3>1, <3>2, <3>3, <3>4 DEF Listed
    <3>6. Rooted(b)'
      BY <3>1, <3>2 DEF Rooted
    <3> QED
      BY <3>5, <3>6
  <2>3. ASSUME NEW p \in Ranks, NEW b \in Tied(p)' \ Gone'
        PROVE  b \in Alive'
    <3>1. b \in Tied(p) /\ b \notin gone /\ b \notin Gone
      BY <1>7, <1>8, <2>3 DEF Tied, TiesWithout
    <3>2. b \in Alive
      BY <1>2, <1>16, <3>1 DEF Finishing
    <3>3. PICK q \in Ranks : b \in Ids /\ copy[q][b] = "parent"
      BY <3>2, AliveIs
    <3>4. copy'[q][b] = "parent"
      BY <1>5, <3>1, <3>3
    <3> QED
      BY <3>3, <3>4 DEF Alive, Parents
  <2>4. ASSUME NEW p \in done', NEW q \in Ranks
        PROVE  outbox'[p][q].spare = sparebid'[p] /\ outbox'[p][q].count = pendingbods'[p]
    <3>1. CASE p = r
      BY <1>7, <1>17, <3>1
    <3>2. CASE p # r
      BY <1>2, <1>7, <2>4, <3>2 DEF Finishing, Typed
    <3> QED
      BY <3>1, <3>2
  <2> QED
    BY <2>1, <2>2, <2>3, <2>4 DEF Finishing
<1>12. Counted'
  <2>1. \A p \in Ranks : pendingbods[p] \in Nat
    BY DEF Typed
  <2>2. Total(pendingbods') = Total(pendingbods) + n
    BY <1>4, <1>7, <2>1, TotalAdd
  <2>3. bid[0] \in Nat /\ Total(pendingbods) \in Nat /\ MaxBody \in Nat
    <3>1. Upto(pendingbods)[NCpu] \in Nat
      BY <2>1, UptoGrows, RankZero
    <3> QED
      BY <3>1, RankZero DEF Typed, Total
  <2>4. bid[0] + Total(pendingbods') < MaxBody
    <3>1. CASE n = 0
      BY <1>2, <1>16, <2>2, <2>3, <3>1 DEF Counted
    <3>2. CASE n > 0
      BY <1>2, <1>16, <2>2, <2>3, <3>2 DEF Room
    <3> QED
      BY <1>4, <3>1, <3>2
  <2>5. ASSUME NEW b \in Ids, b >= bid[0] PROVE Absent(b)'
    BY <1>2, <1>16, <1>5, <2>5 DEF Counted, Absent
  <2>6. Total(pendingbods)' = Total(pendingbods')
    BY DEF Total, Upto
  <2> QED
    BY <1>2, <1>16, <2>4, <2>5, <2>6 DEF Counted
<1>13. Kept'
  <2>1. \A p \in Ranks : \A b \in newb[p] : b \in Ids
    BY DEF Typed
  <2> QED
    BY <1>5, <1>7, <2>1 DEF Kept
<1>14. Arrived'
  BY <1>2, <1>16 DEF Arrived
<1>15. Places' /\ Quiet' /\ Packing' /\ Unpacking' /\ Resting' /\ Managing'
  BY <1>2, <1>16 DEF Places, Quiet, Packing, Unpacking, Resting, Managing
<1> QED
  BY <1>9, <1>10, <1>11, <1>12, <1>13, <1>14, <1>15
(* Every rank has been told the same: it numbers its new bodies apart from
   those of others, and removes what the others removed. *)
LEMMA ManageStep ==
    ASSUME IInv, NEW r \in Ranks, Manage(r)
    PROVE  IInv'
<1> USE DEF IInv
<1> DEFINE I == Inserted(r)
           spare == Spare(r)
           U == Unused(r, UNION TiesWithout(r, spare))
           C == Counts(0)
           u == Upto(C)
<1>1. /\ phase = "manage" /\ phase' = "manage" /\ r \notin done /\ done' = done \cup {r}
      /\ copy' = [copy EXCEPT ![r] = [b \in Ids |->
            IF b \in I THEN "parent" ELSE Removed(r, spare \cup U)[b]]]
      /\ KnowsSame(r)
      /\ ties' = [ties EXCEPT ![r] = TiesWithout(r, spare)]
      /\ newb' = [newb EXCEPT ![r] = (newb[r] \ spare) \cup I]
      /\ bid' = [bid EXCEPT ![r] = bid[r] + Total(Counts(r))]
      /\ sparebid' = [sparebid EXCEPT ![r] = {}]
      /\ pendingbods' = [pendingbods EXCEPT ![r] = 0]
      /\ UNCHANGED <<home, box, pendingremovebods, outbox, inbox, failed>>
  BY DEF Manage, Enter, Leave
<1>2. /\ SameNews
      /\ \A p \in Ranks : pendingbods[p] = IF p \in done THEN 0 ELSE inbox[0][p].count
      /\ \A p \in Ranks : \A b \in Tied(p) \ Spare(0) : b \in Alive
      /\ \A p \in done : Tied(p) \cap Spare(0) = {}
  BY <1>1 DEF Managing
<1>3. PICK base \in Nat : Numbered(base)
  BY <1>1 DEF Managing
<1>4. spare = Spare(0) /\ Counts(r) = C
  BY <1>2, RankZero DEF SameNews, Spare, Counts
<1>5. \A q \in Ranks : C[q] = inbox[0][q].count /\ C[q] \in Nat
  BY RankZero DEF Counts, Typed, Data
<1>6. /\ Total(C) = u[NCpu]
      /\ u[r + 1] = u[r] + C[r] /\ u[r] \in Nat /\ u[r + 1] \in Nat /\ u[r + 1] <= u[NCpu]
      /\ u[NCpu] \in Nat
  <2>1. /\ \A k \in 0 .. NCpu : u[k] \in Nat
        /\ \A i, j \in 0 .. NCpu : i <= j => u[i] <= u[j]
    <3> HIDE DEF C
    <3> QED
      BY <1>5, UptoGrows
  <2>2. \A i \in 1 .. NCpu : u[i] = u[i - 1] + C[i - 1]
    <3> HIDE DEF C
    <3> QED
      BY UptoDef
  <2>3. r + 1 \in 1 .. NCpu /\ (r + 1) - 1 = r /\ r \in 0 .. NCpu /\ NCpu \in 0 .. NCpu
    BY RankZero DEF Ranks
  <2> HIDE DEF u, C
  <2>4. u[r + 1] = u[r] + C[r] /\ u[r] \in Nat /\ u[r + 1] \in Nat /\ u[r + 1] <= u[NCpu] /\ u[NCpu] \in Nat
    BY <2>1, <2>2, <2>3, RankZero
  <2> QED
    BY <2>4 DEF Total, u
<1>7. bid[r] = base /\ base >= 1 /\ base + Total(C) < MaxBody
  BY <1>1, <1>3 DEF Numbered, Typed
<1>8. I = Slots(base, r)
  <2>1. pendingbods[r] = C[r]
    BY <1>1, <1>2, <1>5
  <2> HIDE DEF C
  <2>2. I = base + u[r] .. base + u[r] + C[r] - 1
    BY <1>4, <1>7, <2>1 DEF Inserted
  <2>3. Slots(base, r) = base + u[r] .. base + u[r + 1] - 1
    BY DEF Slots, C
  <2> HIDE DEF u, I
  <2>4. base + u[r + 1] - 1 = base + u[r] + C[r] - 1
    BY <1>5, <1>6
  <2> QED
    BY <2>2, <2>3, <2>4
<1>9. \A b \in I : b \in Ids /\ b >= base
  <2>1. I = base + u[r] .. base + u[r + 1] - 1
    BY <1>8 DEF Slots
  <2> HIDE DEF I, u, C
  <2> QED
    BY <1>6, <1>7, <2>1, RankZero DEF Ids
<1>10. /\ \A b \in U : /\ b \in Ids /\ copy[r][b] \in {"left", "dummy"} /\ b \notin newb[r]
       /\ spare \subseteq Ids
  <2>1. spare \subseteq Ids
    BY DEF Spare, Typed, Data
  <2> QED
    BY <2>1 DEF Unused
<1> HIDE DEF I, spare, U, C, u
<1>11. /\ \A b \in Ids : copy'[r][b] = IF b \in I THEN "parent"
                                       ELSE IF b \in spare \cup U THEN "none" ELSE copy[r][b]
       /\ \A p \in Ranks : p # r => copy'[p] = copy[p]
  BY <1>1 DEF Typed, Removed
<1>12. /\ \A b \in Ids : /\ children'[r][b] = IF copy'[r][b] \in {"parent", "child"} THEN children[r][b] ELSE {}
                         /\ prank'[r][b] = IF copy'[r][b] \in {"parent", "child"} THEN prank[r][b] ELSE r
       /\ \A p \in Ranks : p # r => children'[p] = children[p] /\ prank'[p] = prank[p]
  BY <1>1 DEF Typed, KnowsSame, Known
<1>13. /\ ties'[r] = TiesWithout(r, spare) /\ \A p \in Ranks : p # r => ties'[p] = ties[p]
       /\ newb'[r] = (newb[r] \ spare) \cup I /\ \A p \in Ranks : p # r => newb'[p] = newb[p]
       /\ bid'[r] = base + Total(C) /\ \A p \in Ranks : p # r => bid'[p] = bid[p]
       /\ pendingbods'[r] = 0 /\ \A p \in Ranks : p # r => pendingbods'[p] = pendingbods[p]
  <2>1. ties'[r] = TiesWithout(r, spare) /\ \A p \in Ranks : p # r => ties'[p] = ties[p]
    BY <1>1 DEF Typed
  <2>2. newb'[r] = (newb[r] \ spare) \cup I /\ \A p \in Ranks : p # r => newb'[p] = newb[p]
    BY <1>1 DEF Typed
  <2>3. bid'[r] = base + Total(C) /\ \A p \in Ranks : p # r => bid'[p] = bid[p]
    BY <1>1, <1>4, <1>7 DEF Typed
  <2>4. pendingbods'[r] = 0 /\ \A p \in Ranks : p # r => pendingbods'[p] = pendingbods[p]
    BY <1>1 DEF Typed
  <2> QED
    BY <2>1, <2>2, <2>3, <2>4
<1>14. Typed'
  <2>1. copy' \in [Ranks -> [Ids -> Kinds]]
    <3>1. [b \in Ids |-> IF b \in I THEN "parent" ELSE Removed(r, spare \cup U)[b]] \in [Ids -> Kinds]
      BY DEF Removed, Typed, Kinds
    <3> QED
      BY <1>1, <3>1 DEF Typed
  <2>2. /\ children' \in [Ranks -> [Ids -> SUBSET Ranks]]
        /\ prank' \in [Ranks -> [Ids -> Ranks]]
    <3>1. Known(r, children[r], {}) \in [Ids -> SUBSET Ranks] /\ Known(r, prank[r], r) \in [Ids -> Ranks]
      BY DEF Known, Typed
    <3> QED
      BY <1>1, <3>1 DEF Typed, KnowsSame
  <2>3. ties' \in [Ranks -> SUBSET SUBSET Ids]
    <3>1. TiesWithout(r, spare) \in SUBSET SUBSET Ids
      BY DEF TiesWithout, Typed
    <3> QED
      BY <1>1, <3>1 DEF Typed
  <2>4. newb' \in [Ranks -> SUBSET Ids]
    BY <1>1, <1>9 DEF Typed
  <2>5. bid' \in [Ranks -> Nat \ {0}]
    <3>1. base + Total(C) \in Nat \ {0}
      BY <1>6, <1>7
    <3> QED
      BY <1>1, <1>4, <1>7, <3>1 DEF Typed
  <2>6. pendingbods' \in [Ranks -> Nat] /\ sparebid' \in [Ranks -> SUBSET Ids]
    BY <1>1 DEF Typed
  <2> QED
    BY <1>1, <2>1, <2>2, <2>3, <2>4, <2>5, <2>6 DEF Typed
<1>15. Forgotten'
  <2>1. ASSUME NEW p \in Ranks, NEW b \in Ids, copy'[p][b] \notin {"parent", "child"}
        PROVE  prank'[p][b] = p /\ children'[p][b] = {}
    <3>1. CASE p = r
      BY <1>12, <2>1, <3>1
    <3>2. CASE p # r
      BY <1>11, <1>12, <2>1, <3>2 DEF Forgotten
    <3> QED
      BY <3>1, <3>2
  <2> QED
    BY <2>1 DEF Forgotten
<1>16. \A b \in Ids : b \notin Spare(0) /\ b \notin I => \A p \in Ranks :
          /\ copy'[p][b] = "parent" <=> copy[p][b] = "parent"
          /\ copy'[p][b] = "child" <=> copy[p][b] = "child"
          /\ copy'[p][b] # "none" => copy[p][b] # "none"
  BY <1>4, <1>10, <1>11
<1>17. Counts(0)' = Counts(0) /\ Spare(0)' = Spare(0) /\ \A p : Slots(base, p)' = Slots(base, p)
       /\ Total(Counts(0))' = Total(Counts(0))
  BY <1>1 DEF Counts, Spare, Slots, Total, Upto
<1>18. Numbered(base)'
  <2>1. base + Total(Counts(0))' < MaxBody
    BY <1>7, <1>17 DEF C
  <2>2. ASSUME NEW p \in Ranks
        PROVE  bid'[p] = IF p \in done' THEN base + Total(Counts(0))' ELSE base
    <3>1. bid[p] = IF p \in done THEN base + Total(Counts(0)) ELSE base
      BY <1>3 DEF Numbered
    <3> QED
      BY <1>1, <1>13, <1>17, <3>1 DEF C
  <2>3. ASSUME NEW p \in Ranks, NEW b \in Ids, b >= base
        PROVE  /\ copy'[p][b] = IF p \in done' /\ b \in Slots(base, p)' THEN "parent" ELSE "none"
               /\ prank'[p][b] = p /\ children'[p][b] = {}
    <3>1. /\ copy[p][b] = IF p \in done /\ b \in Slots(base, p) THEN "parent" ELSE "none"
          /\ prank[p][b] = p /\ children[p][b] = {}
      BY <1>3, <2>3 DEF Numbered
    <3>2. CASE p = r
      <4>1. copy[r][b] = "none"
        BY <1>1, <3>1, <3>2
      <4>2. copy'[r][b] = IF b \in Slots(base, r) THEN "parent" ELSE "none"
        BY <1>8, <1>11, <4>1
      <4>3. p \in done' /\ Slots(base, p)' = Slots(base, r)
        BY <1>1, <1>17, <3>2
      <4>4. prank'[r][b] = r /\ children'[r][b] = {}
        BY <1>12, <3>1, <3>2
      <4> QED
        BY <3>2, <4>2, <4>3, <4>4
    <3>3. CASE p # r
      <4>1. (p \in done' <=> p \in done) /\ Slots(base, p)' = Slots(base, p)
        BY <1>1, <1>17, <3>3
      <4> QED
        BY <1>11, <1>12, <3>1, <3>3, <4>1
    <3> QED
      BY <3>2, <3>3
  <2>4. \A b \in Ids : b < base => b \notin I
    BY <1>9, RankZero DEF Ids
  <2>5. ASSUME NEW b \in Ids, b < base PROVE Single(b)'
    <3>1. Single(b)
      BY <1>3, <2>5 DEF Numbered
    <3>2. \A p \in Ranks : copy'[p][b] = "parent" => copy[p][b] = "parent"
      BY <1>11, <2>4, <2>5
    <3> QED
      BY <3>1, <3>2 DEF Single
  <2>6. ASSUME NEW b \in Ids \ Spare(0)', b < base PROVE Listed(b)' /\ Rooted(b)'
    <3>1. b \in Ids /\ b \notin Spare(0) /\ b \notin I /\ Listed(b) /\ Rooted(b)
      BY <1>3, <1>17, <2>4, <2>6 DEF Numbered
    <3>2. \A p \in Ranks : /\ copy'[p][b] = "parent" <=> copy[p][b] = "parent"
                           /\ copy'[p][b] = "child" <=> copy[p][b] = "child"
                           /\ copy'[p][b] # "none" => copy[p][b] # "none"
      BY <1>16, <3>1
    <3>3. Holders(b)' = Holders(b)
      BY <3>2 DEF Holders
    <3>4. \A p \in Holders(b) : /\ p \in Ranks /\ prank[p][b] \in Ranks
                                /\ children'[p][b] = children[p][b] /\ prank'[p][b] = prank[p][b]
      <4>1. TAKE p \in Holders(b)
      <4>2. p \in Ranks /\ copy'[p][b] \in {"parent", "child"} /\ prank[p][b] \in Ranks
        BY <3>1, <3>2 DEF Holders, Typed
      <4>3. children'[p][b] = children[p][b] /\ prank'[p][b] = prank[p][b]
        BY <1>12, <3>1, <4>2
      <4> QED
        BY <4>2, <4>3
    <3>5. Listed(b)'
      BY <3>1, <3>2, <3>3, <3>4 DEF Listed
    <3>6. Rooted(b)'
      BY <3>1, <3>2 DEF Rooted
    <3> QED
      BY <3>5, <3>6
  <2>7. ASSUME NEW b \in Spare(0)', NEW p \in done', b < base
        PROVE  copy'[p][b] = "none"
    <3>1. b \in spare /\ b \in Ids /\ b \notin I /\ b \in Spare(0)
      BY <1>4, <1>10, <1>17, <2>4, <2>7
    <3>2. CASE p = r
      BY <1>11, <3>1, <3>2
    <3>3. CASE p # r
      <4>1. p \in done /\ p \in Ranks
        BY <1>1, <2>7, <3>3 DEF Typed
      <4>2. copy[p][b] = "none"
        BY <1>3, <2>7, <3>1, <4>1 DEF Numbered
      <4> QED
        BY <1>11, <3>3, <4>1, <4>2
    <3> QED
      BY <3>2, <3>3
  <2> QED
    BY <2>1, <2>2, <2>3, <2>5, <2>6, <2>7 DEF Numbered
<1>19. Managing'
  <2>1. SameNews'
    BY <1>1, <1>2 DEF SameNews
  <2>2. ASSUME NEW p \in Ranks
        PROVE  pendingbods'[p] = IF p \in done' THEN 0 ELSE inbox'[0][p].count
    BY <1>1, <1>2, <1>13
  <2>3. ASSUME NEW p \in Ranks, NEW b \in Tied(p)' \ Spare(0)' PROVE b \in Alive'
    <3>1. b \in Tied(p) /\ b \notin Spare(0)
      BY <1>13, <1>17, <2>3 DEF Tied, TiesWithout
    <3>2. PICK q \in Ranks : b \in Ids /\ copy[q][b] = "parent"
      BY <1>2, <3>1, AliveIs
    <3>3. copy'[q][b] = "parent"
      BY <1>4, <1>10, <1>11, <3>1, <3>2
    <3> QED
      BY <3>2, <3>3 DEF Alive, Parents
  <2>4. ASSUME NEW p \in done' PROVE Tied(p)' \cap Spare(0)' = {}
    <3>1. CASE p = r
      BY <1>4, <1>13, <1>17, <3>1 DEF Tied, TiesWithout
    <3>2. CASE p # r
      BY <1>1, <1>2, <1>13, <1>17, <2>4, <3>2 DEF Tied, Typed
    <3> QED
      BY <3>1, <3>2
  <2> QED
    BY <1>18, <2>1, <2>2, <2>3, <2>4 DEF Managing
<1>20. Kept'
  <2>1. ASSUME NEW p \in Ranks, NEW b \in newb'[p]
        PROVE  copy'[p][b] \in {"parent", "child", "left"}
    <3>1. CASE p # r
      BY <1>11, <1>13, <2>1, <3>1 DEF Kept
    <3>2. CASE p = r /\ b \in I
      BY <1>9, <1>11, <3>2
    <3>3. CASE p = r /\ b \notin I
      <4>1. b \in newb[r] /\ b \notin spare /\ b \in Ids
        BY <1>13, <2>1, <3>3 DEF Typed
      <4>2. b \notin U
        BY <1>10, <4>1
      <4> QED
        BY <1>11, <3>3, <4>1, <4>2 DEF Kept
    <3> QED
      BY <3>1, <3>2, <3>3
  <2> QED
    BY <2>1 DEF Kept
<1>21. Places' /\ Arrived' /\ Counted' /\ Quiet' /\ Packing' /\ Unpacking' /\ Resting' /\ Finishing'
  BY <1>1 DEF Places, Arrived, Counted, Quiet, Packing, Unpacking, Resting, Finishing
<1> QED
  BY <1>14, <1>15, <1>19, <1>20, <1>21
(* An output forgets the new bodies. *)
LEMMA OutputStep ==
    ASSUME IInv, Output
    PROVE  IInv'
<1> USE DEF IInv
<1>1. /\ phase = "output" /\ phase' = "callback"
      /\ newb' \in {newb, [r \in Ranks |-> {}]}
      /\ UNCHANGED <<done, copy, children, prank, home, box, ties, bid, sparebid, pendingbods,
                     pendingremovebods, outbox, inbox, failed>>
  BY DEF Output, bodyVars, listVars
<1>2. Typed'
  BY <1>1 DEF Typed, Phases
<1>3. Kept'
  BY <1>1 DEF Kept
<1>4. Resting'
  <2>1. SUFFICES ASSUME NEW b \in Ids PROVE Single(b)' /\ Listed(b)' /\ Rooted(b)'
    BY DEF Resting
  <2>2. Single(b) /\ Listed(b) /\ Rooted(b)
    BY <1>1 DEF Resting
  <2> QED
    BY <1>1, <2>2 DEF Single, Listed, Rooted, Holders
<1>5. Counted'
  BY <1>1 DEF Counted, Absent, Total, Upto
<1>6. Places' /\ Forgotten' /\ Arrived' /\ Quiet'
  BY <1>1 DEF Places, Forgotten, Arrived, Quiet, NoMail
<1>7. Packing' /\ Unpacking' /\ Finishing' /\ Managing'
  BY <1>1 DEF Packing, Unpacking, Finishing, Managing
<1> QED
  BY <1>2, <1>3, <1>4, <1>5, <1>6, <1>7

(* What callbacks do to bodies is done at the end of the next step; there is
   room for what they insert. *)
LEMMA CallbackStep ==
    ASSUME IInv, NEW r \in Ranks,
           CallbackReturn(r) \/ \E b \in Ids : Delete(r, b) \/ SplitMesh(r, b)
    PROVE  IInv'
<1> USE DEF IInv
<1>1. /\ phase = "callback" /\ phase' = "callback"
      /\ done' \in {done, done \cup {r}}
      /\ UNCHANGED <<copy, children, prank, home, box, ties, bid, sparebid, newb, outbox, inbox, failed>>
  BY DEF CallbackReturn, Delete, SplitMesh, Enter, Leave, bodyVars, listVars
<1>2. PICK n \in 0 .. 2 : /\ n > 0 => Room(n)
                          /\ pendingbods' = [pendingbods EXCEPT ![r] = pendingbods[r] + n]
  <2>1. CASE \E b \in Ids : SplitMesh(r, b)
    <3>1. PICK b \in Ids : SplitMesh(r, b)
      BY <2>1
    <3>2. PICK n \in 1 .. 2 : /\ Room(n)
                              /\ pendingbods' = [pendingbods EXCEPT ![r] = pendingbods[r] + n]
      BY <3>1 DEF SplitMesh
    <3>3. n \in 0 .. 2
      BY <3>2
    <3> QED
      BY <3>2, <3>3
  <2>2. CASE CallbackReturn(r) \/ \E b \in Ids : Delete(r, b)
    <3>1. pendingbods' = pendingbods
      BY <2>2 DEF CallbackReturn, Delete, listVars
    <3>2. pendingbods[r] + 0 = pendingbods[r]
      BY DEF Typed
    <3> DEFINE z == 0
    <3>3. pendingbods' = [pendingbods EXCEPT ![r] = pendingbods[r] + z]
      BY <3>1, <3>2 DEF Typed
    <3> QED
      BY <3>3
  <2> QED
    BY <2>1, <2>2
<1>3. pendingremovebods' \in [Ranks -> SUBSET Ids]
  <2>1. pendingremovebods' = pendingremovebods \/ \E b \in Ids :
            pendingremovebods' = [pendingremovebods EXCEPT ![r] = pendingremovebods[r] \cup {b}]
    BY DEF CallbackReturn, Delete, SplitMesh, listVars
  <2>2. ASSUME NEW b \in Ids,
               pendingremovebods' = [pendingremovebods EXCEPT ![r] = pendingremovebods[r] \cup {b}]
        PROVE  pendingremovebods' \in [Ranks -> SUBSET Ids]
    <3>1. pendingremovebods[r] \cup {b} \in SUBSET Ids
      BY DEF Typed
    <3> DEFINE S == pendingremovebods[r] \cup {b}
    <3> HIDE DEF S
    <3>2. [pendingremovebods EXCEPT ![r] = S] \in [Ranks -> SUBSET Ids]
      BY <3>1 DEF Typed, S
    <3> QED
      BY <2>2, <3>2 DEF S
  <2> QED
    BY <2>1, <2>2 DEF Typed
<1>4. Typed'
  <2>1. pendingbods' \in [Ranks -> Nat]
    BY <1>2 DEF Typed
  <2> QED
    BY <1>1, <1>3, <2>1 DEF Typed
<1>5. Counted'
  <2>1. \A p \in Ranks : pendingbods[p] \in Nat
    BY DEF Typed
  <2>2. pendingbods'[r] = pendingbods[r] + n /\ \A p \in Ranks \ {r} : pendingbods'[p] = pendingbods[p]
    BY <1>2 DEF Typed
  <2>3. Total(pendingbods') = Total(pendingbods) + n
    BY <2>1, <2>2, TotalAdd
  <2>4. bid[0] \in Nat /\ Total(pendingbods) \in Nat /\ MaxBody \in Nat
    <3>1. Upto(pendingbods)[NCpu] \in Nat
      BY <2>1, UptoGrows, RankZero
    <3> QED
      BY <3>1, RankZero DEF Typed, Total
  <2>5. bid[0] + Total(pendingbods') < MaxBody
    <3>1. CASE n = 0
      BY <1>1, <2>3, <2>4, <3>1 DEF Counted
    <3>2. CASE n > 0
      BY <1>2, <2>3, <2>4, <3>2 DEF Room
    <3> QED
      BY <3>1, <3>2
  <2>6. Total(pendingbods)' = Total(pendingbods')
    BY DEF Total, Upto
  <2> QED
    BY <1>1, <2>5, <2>6 DEF Counted, Absent
<1>6. Resting'
  <2>1. SUFFICES ASSUME NEW b \in Ids PROVE Single(b)' /\ Listed(b)' /\ Rooted(b)'
    BY DEF Resting
  <2>2. Single(b) /\ Listed(b) /\ Rooted(b)
    BY <1>1 DEF Resting
  <2> QED
    BY <1>1, <2>2 DEF Single, Listed, Rooted, Holders
<1>7. Places' /\ Forgotten' /\ Arrived' /\ Quiet' /\ Kept'
  BY <1>1 DEF Places, Forgotten, Arrived, Quiet, NoMail, Kept
<1>8. Packing' /\ Unpacking' /\ Finishing' /\ Managing'
  BY <1>1 DEF Packing, Unpacking, Finishing, Managing
<1> QED
  BY <1>4, <1>5, <1>6, <1>7, <1>8
(* Messages arrive when all ranks have sent theirs. *)
Arrive(p, q) ==
    /\ done = Ranks /\ phase = p /\ phase' = q /\ done' = {}
    /\ inbox' = [r \in Ranks |-> [s \in Ranks |-> outbox[s][r]]]
    /\ outbox' = NoMail
    /\ UNCHANGED <<copy, children, prank, home, box, ties, bid, sparebid, pendingbods,
                   pendingremovebods, newb, failed>>

(* All ranks have packed: what they sent is what the targets wait for. *)
LEMMA PackToUnpack ==
    ASSUME IInv, Arrive("pack", "unpack")
    PROVE  Unpacking'
<1> USE DEF IInv
<1>1. /\ done = Ranks /\ phase = "pack" /\ done' = {}
      /\ inbox' = [r \in Ranks |-> [s \in Ranks |-> outbox[s][r]]]
      /\ UNCHANGED <<copy, children, prank, home, box>>
  BY DEF Arrive
<1>2. \A p, q \in Ranks : inbox'[q][p] = outbox[p][q]
  BY <1>1
<1>3. SUFFICES ASSUME NEW b \in Ids
      PROVE  IF b \in DOMAIN home' THEN \E o \in Ranks : UnpackedFrom(b, o)'
             ELSE /\ Absent(b)'
                  /\ \A p, q \in Ranks : \A m \in inbox'[q][p].bodies : m.id # b
  BY DEF Unpacking
<1>4. CASE b \notin DOMAIN home
  <2>1. Absent(b) /\ \A p, q \in Ranks : \A m \in outbox[p][q].bodies : m.id # b
    BY <1>1, <1>4 DEF Packing
  <2> QED
    BY <1>1, <1>2, <1>4, <2>1 DEF Absent
<1>5. CASE b \in DOMAIN home
  <2>1. PICK o \in Ranks : PackedFrom(b, o)
    BY <1>1, <1>5 DEF Packing
  <2>2. /\ \A q \in Ranks : q # o => copy[q][b] # "parent"
        /\ copy[o][b] = IF home[b] = o THEN "parent" ELSE "left"
        /\ home[b] = o => prank[o][b] = o /\ children[o][b] = NewChildren(b)
        /\ \A p, q \in Ranks : \A m \in outbox[p][q].bodies : m.id = b =>
            /\ p = o /\ q \in Targets(b, o) /\ Letter(b, q, m)
            /\ m.full \/ copy[q][b] # "none"
        /\ \A q \in Targets(b, o) : \E m \in outbox[o][q].bodies : m.id = b
    BY <1>1, <2>1 DEF PackedFrom
  <2>3. /\ NewChildren(b)' = NewChildren(b) /\ Targets(b, o)' = Targets(b, o)
        /\ \A q, m : Letter(b, q, m)' <=> Letter(b, q, m)
    BY <1>1 DEF NewChildren, Targets, Letter
  <2>4. Targets(b, o) \subseteq Ranks
    BY <1>5, Placed
  <2>5. \A p, q \in Ranks : \A m \in inbox'[q][p].bodies : m.id = b =>
            /\ p = o /\ q \in Targets(b, o)' /\ Letter(b, q, m)'
            /\ q \notin done' => m.full \/ copy'[q][b] # "none"
    BY <1>1, <1>2, <2>2, <2>3
  <2>6. \A q \in Targets(b, o)' : \E m \in inbox'[q][o].bodies : m.id = b
    BY <1>2, <2>2, <2>3, <2>4
  <2>7. home'[b] = o => prank'[o][b] = o /\ children'[o][b] = NewChildren(b)' /\ copy'[o][b] = "parent"
    BY <1>1, <2>2, <2>3
  <2>8. \A q \in Ranks : q \notin done' => (copy'[q][b] = "parent" <=> q = o /\ home'[b] = o)
    BY <1>1, <2>2
  <2>9. \A q \in Ranks : q \notin done'
    BY <1>1
  <2>10. UnpackedFrom(b, o)'
    BY <2>5, <2>6, <2>7, <2>8, <2>9 DEF UnpackedFrom
  <2> QED
    BY <1>1, <1>5, <2>10
<1> QED
  BY <1>4, <1>5

(* All ranks have unpacked: every body is where the partitioner put it. *)
LEMMA AllUnpacked ==
    ASSUME IInv, phase = "unpack", done = Ranks, NEW b \in Ids
    PROVE  Single(b) /\ Listed(b) /\ Rooted(b)
<1> USE DEF IInv
<1>1. done = Ranks /\ phase = "unpack"
  OBVIOUS
<1>4. CASE b \notin DOMAIN home
  <2>1. Absent(b)
    BY <1>1, <1>4 DEF Unpacking
  <2> QED
    BY <2>1 DEF Absent, Single, Listed, Rooted, Holders
<1>5. CASE b \in DOMAIN home
  <2>1. PICK o \in Ranks : UnpackedFrom(b, o)
    BY <1>1, <1>5 DEF Unpacking
  <2>2. \A q \in Ranks : /\ copy[q][b] = "parent" <=> q = home[b]
                         /\ copy[q][b] = "child" <=> q \in NewChildren(b)
                         /\ q \in NewChildren(b) \cup {home[b]} =>
                              prank[q][b] = home[b] /\ children[q][b] = NewChildren(b) \ {q}
    BY <1>1, <2>1 DEF UnpackedFrom
  <2>3. home[b] \in Ranks /\ NewChildren(b) \subseteq Ranks /\ home[b] \notin NewChildren(b)
    BY <1>5, Placed
  <2> DEFINE h == home[b]
             N == NewChildren(b)
  <2> HIDE DEF h, N
  <2>4. /\ \A q \in Ranks : /\ copy[q][b] = "parent" <=> q = h
                            /\ copy[q][b] = "child" <=> q \in N
                            /\ q \in N \cup {h} => prank[q][b] = h /\ children[q][b] = N \ {q}
        /\ h \in Ranks /\ N \subseteq Ranks /\ h \notin N
    BY <2>2, <2>3 DEF h, N
  <2>5. Holders(b) = N \cup {h}
    BY <2>4 DEF Holders
  <2>6. Single(b) /\ Rooted(b)
    BY <2>4 DEF Single, Rooted
  <2>7. Listed(b)
    BY <2>4, <2>5 DEF Listed
  <2> QED
    BY <2>6, <2>7
<1> QED
  BY <1>4, <1>5

(* All ranks have removed: what they removed and how many new bodies they have
   is what each has been told. *)
LEMMA FinishToManage ==
    ASSUME IInv, Arrive("finish", "manage")
    PROVE  Managing'
<1> USE DEF IInv
<1>1. /\ done = Ranks /\ phase = "finish" /\ done' = {}
      /\ inbox' = [r \in Ranks |-> [s \in Ranks |-> outbox[s][r]]]
      /\ UNCHANGED <<copy, children, prank, ties, bid, sparebid, pendingbods>>
  BY DEF Arrive
<1>2. \A r, q \in Ranks : inbox'[r][q].spare = sparebid[q] /\ inbox'[r][q].count = pendingbods[q]
  BY <1>1 DEF Finishing
<1>3. Spare(0)' = Gone
  BY <1>1, <1>2, RankZero DEF Spare, Gone
<1>4. Counts(0)' = pendingbods
  <2>1. Counts(0)' = [q \in Ranks |-> inbox'[0][q].count]
    BY DEF Counts
  <2>2. Counts(0)' = [q \in Ranks |-> pendingbods[q]]
    BY <1>2, <2>1, RankZero
  <2> QED
    BY <2>2 DEF Typed
<1>5. Total(Counts(0))' = Total(pendingbods)
  <2>1. Total(Counts(0))' = Total(Counts(0)')
    BY DEF Total, Upto
  <2> QED
    BY <1>4, <2>1
<1>6. /\ bid[0] \in Nat /\ \A r \in Ranks : bid[r] = bid[0]
      /\ bid[0] + Total(pendingbods) < MaxBody
      /\ \A b \in Ids : b >= bid[0] => Absent(b)
  BY <1>1, RankZero DEF Counted, Typed
<1> DEFINE base == bid[0]
<1>7. Numbered(base)'
  <2>1. base' + Total(Counts(0))' < MaxBody
    BY <1>1, <1>5, <1>6
  <2>2. \A r \in Ranks : bid'[r] = IF r \in done' THEN base' + Total(Counts(0))' ELSE base'
    BY <1>1, <1>6
  <2>3. ASSUME NEW r \in Ranks, NEW b \in Ids, b >= base'
        PROVE  /\ copy'[r][b] = IF r \in done' /\ b \in Slots(base, r)' THEN "parent" ELSE "none"
               /\ prank'[r][b] = r /\ children'[r][b] = {}
    <3>1. copy[r][b] = "none"
      BY <1>1, <1>6, <2>3 DEF Absent
    <3>2. prank[r][b] = r /\ children[r][b] = {}
      BY <3>1 DEF Forgotten
    <3> QED
      BY <1>1, <3>1, <3>2
  <2>4. \A b \in Ids : Single(b)'
    BY <1>1 DEF Finishing, Single
  <2>5. ASSUME NEW b \in Ids \ Spare(0)' PROVE Listed(b)' /\ Rooted(b)'
    <3>1. Listed(b) /\ Rooted(b)
      BY <1>1, <1>3, <2>5 DEF Finishing
    <3> QED
      BY <1>1, <3>1 DEF Listed, Rooted, Holders
  <2> HIDE DEF base
  <2>6. \A r \in done' : FALSE
    BY <1>1
  <2> QED
    BY <2>1, <2>2, <2>3, <2>4, <2>5, <2>6 DEF Numbered
<1>8. SameNews'
  BY <1>2, RankZero DEF SameNews
<1>9. \A r \in Ranks : pendingbods'[r] = IF r \in done' THEN 0 ELSE inbox'[0][r].count
  BY <1>1, <1>2, RankZero
<1>10. ASSUME NEW r \in Ranks, NEW b \in Tied(r)' \ Spare(0)' PROVE b \in Alive'
  <2>1. Alive' = Alive /\ b \in Tied(r) /\ b \notin Gone
    BY <1>1, <1>3, <1>10 DEF Alive, Parents, Tied
  <2> QED
    BY <1>1, <2>1 DEF Finishing
<1>11. base' \in Nat
  BY <1>1, <1>6
<1> HIDE DEF base
<1>12. \E bs \in Nat : Numbered(bs)'
  BY <1>7, <1>11
<1> QED
  BY <1>1, <1>8, <1>9, <1>10, <1>12 DEF Managing
(* The slots of the ranks are apart and below the next id. *)
LEMMA SlotsApart ==
    ASSUME Typed, NEW base \in Nat
    PROVE  /\ Total(Counts(0)) \in Nat
           /\ \A r, q \in Ranks : \A b \in Ids : b \in Slots(base, r) /\ b \in Slots(base, q) => r = q
           /\ \A r \in Ranks : \A b \in Ids : b \in Slots(base, r) => b < base + Total(Counts(0))
<1> DEFINE C == Counts(0)
           u == Upto(C)
<1>3. \A q \in Ranks : C[q] \in Nat
  BY RankZero DEF Counts, Typed, Data
<1>4. /\ \A k \in 0 .. NCpu : u[k] \in Nat
      /\ \A i, j \in 0 .. NCpu : i <= j => u[i] <= u[j]
  <2> HIDE DEF C
  <2> QED
    BY <1>3, UptoGrows
<1>5. Total(C) = u[NCpu] /\ u[NCpu] \in Nat
  BY <1>4, RankZero DEF Total
<1>6. \A r \in Ranks : Slots(base, r) = base + u[r] .. base + u[r + 1] - 1
  BY DEF Slots
<1> HIDE DEF u
<1>7. \A r \in Ranks : /\ r \in 0 .. NCpu /\ r + 1 \in 0 .. NCpu
                       /\ u[r] \in Nat /\ u[r + 1] \in Nat /\ u[r + 1] <= u[NCpu]
  <2>1. TAKE r \in Ranks
  <2>2. r \in 0 .. NCpu /\ r + 1 \in 0 .. NCpu /\ NCpu \in 0 .. NCpu /\ r + 1 <= NCpu
    BY RankZero DEF Ranks
  <2> QED
    BY <1>4, <2>2
<1>8. ASSUME NEW r \in Ranks, NEW q \in Ranks, NEW b \in Ids, b \in Slots(base, r), b \in Slots(base, q)
      PROVE  r = q
  <2>1. ASSUME NEW i \in Ranks, NEW j \in Ranks, i < j, b \in Slots(base, i), b \in Slots(base, j)
        PROVE  FALSE
    <3>1. i + 1 \in 0 .. NCpu /\ j \in 0 .. NCpu /\ i + 1 <= j
      BY <1>7, <2>1 DEF Ranks
    <3>2. u[i + 1] <= u[j] /\ u[i + 1] \in Nat /\ u[j] \in Nat
      BY <1>4, <3>1
    <3>3. b \in Int /\ b <= base + u[i + 1] - 1 /\ base + u[j] <= b
      <4>1. b \in base + u[i] .. base + u[i + 1] - 1 /\ b \in base + u[j] .. base + u[j + 1] - 1
        BY <1>6, <2>1
      <4> QED
        BY <1>7, <4>1
    <3> QED
      BY <3>2, <3>3
  <2>2. r \in Int /\ q \in Int
    BY DEF Ranks
  <2>3. ~ (r < q) /\ ~ (q < r)
    BY <1>8, <2>1
  <2> QED
    BY <2>2, <2>3
<1>9. ASSUME NEW r \in Ranks, NEW b \in Ids, b \in Slots(base, r)
      PROVE  b < base + Total(C)
  <2>1. b \in Int /\ b <= base + u[r + 1] - 1
    BY <1>6, <1>7, <1>9
  <2> QED
    BY <1>5, <1>7, <2>1
<1> QED
  BY <1>5, <1>8, <1>9 DEF C

(* All ranks have numbered the new bodies, each in its own slots, and removed
   the same: bodies are in order again. *)
LEMMA AllManaged ==
    ASSUME IInv, phase = "manage", done = Ranks
    PROVE  /\ \A b \in Ids : Single(b) /\ Listed(b) /\ Rooted(b)
           /\ bid[0] < MaxBody /\ \A r \in Ranks : bid[r] = bid[0]
           /\ \A b \in Ids : b >= bid[0] => Absent(b)
<1> USE DEF IInv
<1>1. PICK base \in Nat : Numbered(base)
  BY DEF Managing
<1> DEFINE T == Total(Counts(0))
<1>2. /\ T \in Nat
      /\ \A r, q \in Ranks : \A b \in Ids : b \in Slots(base, r) /\ b \in Slots(base, q) => r = q
      /\ \A r \in Ranks : \A b \in Ids : b \in Slots(base, r) => b < base + T
  BY SlotsApart
<1>3. /\ base + T < MaxBody
      /\ \A r \in Ranks : bid[r] = base + T
      /\ \A r \in Ranks : \A b \in Ids : b >= base =>
            /\ copy[r][b] = IF b \in Slots(base, r) THEN "parent" ELSE "none"
            /\ prank[r][b] = r /\ children[r][b] = {}
      /\ \A b \in Ids : b < base => Single(b)
      /\ \A b \in Ids \ Spare(0) : b < base => Listed(b) /\ Rooted(b)
      /\ \A b \in Spare(0) : \A r \in Ranks : b < base => copy[r][b] = "none"
  BY <1>1 DEF Numbered
<1> HIDE DEF T
<1>4. ASSUME NEW b \in Ids PROVE Single(b) /\ Listed(b) /\ Rooted(b)
  <2>3. b \in Int
    BY DEF Ids
  <2>4. CASE b < base
    <3>1. CASE b \notin Spare(0)
      BY <1>3, <2>4, <3>1
    <3>2. CASE b \in Spare(0)
      BY <1>3, <2>4, <3>2 DEF Single, Listed, Rooted, Holders
    <3> QED
      BY <3>1, <3>2
  <2>5. CASE b >= base
    <3>1. \A r \in Ranks : /\ copy[r][b] = IF b \in Slots(base, r) THEN "parent" ELSE "none"
                           /\ prank[r][b] = r /\ children[r][b] = {}
      BY <1>3, <2>5
    <3>2. Single(b)
      BY <1>2, <3>1 DEF Single
    <3>3. \A r, q \in Holders(b) : r \in Ranks /\ r = q /\ b \in Slots(base, r)
      BY <1>2, <3>1 DEF Holders
    <3>4. Listed(b)
      <4>1. SUFFICES ASSUME NEW r \in Holders(b)
            PROVE  /\ copy[r][b] = "parent" <=> prank[r][b] = r
                   /\ copy[prank[r][b]][b] = "parent"
                   /\ children[r][b] = Holders(b) \ {r, prank[r][b]}
        BY DEF Listed
      <4>2. r \in Ranks /\ copy[r][b] = "parent" /\ prank[r][b] = r /\ children[r][b] = {}
        BY <3>1, <3>3
      <4>3. Holders(b) \ {r, r} = {}
        BY <3>3
      <4> QED
        BY <4>2, <4>3
    <3>5. Rooted(b)
      BY <3>1 DEF Rooted
    <3> QED
      BY <3>2, <3>4, <3>5
  <2> QED
    BY <2>3, <2>4, <2>5
<1>5. bid[0] = base + T /\ bid[0] < MaxBody /\ \A r \in Ranks : bid[r] = bid[0]
  BY <1>3, RankZero
<1>6. ASSUME NEW b \in Ids, b >= bid[0] PROVE Absent(b)
  <2>1. b \in Int /\ b >= base /\ ~ (b < base + T)
    BY <1>2, <1>5, <1>6 DEF Ids
  <2>2. \A r \in Ranks : b \notin Slots(base, r)
    BY <1>2, <2>1
  <2> QED
    BY <1>3, <2>1, <2>2 DEF Absent
<1> QED
  BY <1>4, <1>5, <1>6

(* The other parts of the invariant are left as they are. *)
LEMMA ExchangeStep ==
    ASSUME IInv, Exchange
    PROVE  IInv'
<1> USE DEF IInv
<1>1. /\ done = Ranks /\ phase' = NextPhase[phase] /\ done' = {}
      /\ inbox' = [r \in Ranks |-> [s \in Ranks |-> outbox[s][r]]]
      /\ outbox' = NoMail
      /\ UNCHANGED <<copy, children, prank, home, box, ties, bid, sparebid, pendingbods,
                     pendingremovebods, newb, failed>>
  BY DEF Exchange, bodyVars, listVars
<1>2. \/ phase = "pack" /\ phase' = "unpack"
      \/ phase = "unpack" /\ phase' = "tie"
      \/ phase = "finish" /\ phase' = "manage"
      \/ phase = "manage" /\ phase' = "output"
      \/ phase = "callback" /\ phase' = "partition"
  <2>1. phase \in {"pack", "unpack", "finish", "manage", "callback"}
    BY <1>1, RankZero DEF Typed, Phases
  <2> QED
    BY <1>1, <2>1 DEF NextPhase
<1>3. Typed'
  <2>1. outbox' \in [Ranks -> [Ranks -> Data]]
    BY <1>1 DEF NoMail, NoData, Data
  <2>2. inbox' \in [Ranks -> [Ranks -> Data]]
    BY <1>1 DEF Typed
  <2>3. phase' \in Phases
    BY <1>2 DEF Phases
  <2> QED
    BY <1>1, <2>1, <2>2, <2>3 DEF Typed
<1>4. Places' /\ Forgotten' /\ Kept' /\ Arrived' /\ Quiet'
  BY <1>1, <1>2 DEF Places, Forgotten, Kept, Arrived, Quiet, NoMail
<1>5. Packing' /\ Finishing'
  BY <1>2 DEF Packing, Finishing
<1>6. Unpacking'
  <2>1. CASE phase = "pack"
    BY <1>1, <1>2, <2>1, PackToUnpack DEF Arrive
  <2>2. CASE phase # "pack"
    BY <1>2, <2>2 DEF Unpacking
  <2> QED
    BY <2>1, <2>2
<1>7. Managing'
  <2>1. CASE phase = "finish"
    BY <1>1, <1>2, <2>1, FinishToManage DEF Arrive
  <2>2. CASE phase # "finish"
    BY <1>2, <2>2 DEF Managing
  <2> QED
    BY <2>1, <2>2
<1>8. Resting'
  <2>1. CASE phase \in {"unpack", "manage", "callback"}
    <3>1. SUFFICES ASSUME NEW b \in Ids PROVE Single(b)' /\ Listed(b)' /\ Rooted(b)'
      BY DEF Resting
    <3>2. Single(b) /\ Listed(b) /\ Rooted(b)
      BY <1>1, <2>1, AllUnpacked, AllManaged DEF Resting
    <3> QED
      BY <1>1, <3>2 DEF Single, Listed, Rooted, Holders
  <2>2. CASE phase \in {"pack", "finish"}
    BY <1>2, <2>2 DEF Resting
  <2> QED
    BY <1>2, <2>1, <2>2
<1>9. Counted'
  <2>1. Total(pendingbods)' = Total(pendingbods)
    BY <1>1 DEF Total, Upto
  <2>2. CASE phase = "manage"
    <3>1. Total(pendingbods) = 0
      BY <1>1, <2>2, TotalZero DEF Managing
    <3>2. /\ bid[0] \in Nat /\ bid[0] < MaxBody /\ \A r \in Ranks : bid[r] = bid[0]
          /\ \A b \in Ids : b >= bid[0] => Absent(b)
      BY <1>1, <2>2, AllManaged, RankZero DEF Typed
    <3>3. DOMAIN home' = {}
      BY <1>1, <2>2 DEF Places
    <3> QED
      BY <1>1, <2>1, <3>1, <3>2, <3>3, RankZero DEF Counted, Absent
  <2>3. CASE phase # "manage"
    BY <1>1, <2>1, <2>3 DEF Counted, Absent
  <2> QED
    BY <2>2, <2>3
<1> QED
  BY <1>3, <1>4, <1>5, <1>6, <1>7, <1>8, <1>9

(* No step breaks the invariant. *)
LEMMA NextStep ==
    ASSUME IInv, [Next]_vars
    PROVE  IInv'
<1>1. CASE Next
  BY <1>1, PartitionStep, PackStep, UnpackStep, TieStep, FinishStep, ManageStep,
     OutputStep, CallbackStep, ExchangeStep DEF Next
<1>2. CASE UNCHANGED vars
  <2>1. /\ UNCHANGED <<phase, done, copy, children, prank, home, box, ties>>
        /\ UNCHANGED <<bid, sparebid, pendingbods, pendingremovebods, newb, outbox, inbox, failed>>
    BY <1>2 DEF vars
  <2>2. Typed' /\ Places' /\ Forgotten' /\ Kept' /\ Arrived' /\ Quiet'
    BY <2>1 DEF IInv, Typed, Places, Forgotten, Kept, Arrived, Quiet, NoMail
  <2>3. Packing'
    <3>1. \A b, o : PackedFrom(b, o)' <=> PackedFrom(b, o)
      BY <2>1 DEF PackedFrom, Targets, NewChildren, Letter, Holders
    <3> QED
      BY <2>1, <3>1 DEF IInv, Packing, Absent
  <2>4. Unpacking'
    BY <2>1 DEF IInv, Unpacking, UnpackedFrom, Absent, Targets, NewChildren, Letter
  <2>5. Resting'
    BY <2>1 DEF IInv, Resting, Single, Listed, Rooted, Holders
  <2>6. Finishing'
    BY <2>1 DEF IInv, Finishing, Gone, Single, Listed, Rooted, Holders, Tied, Alive, Parents
  <2>7. Managing'
    <3>1. /\ Counts(0)' = Counts(0) /\ Spare(0)' = Spare(0) /\ Alive' = Alive
          /\ Total(Counts(0))' = Total(Counts(0))
          /\ \A bs, r : Slots(bs, r)' = Slots(bs, r)
          /\ \A b : (Single(b)' <=> Single(b)) /\ (Listed(b)' <=> Listed(b)) /\ (Rooted(b)' <=> Rooted(b))
      BY <2>1 DEF Slots, Counts, Total, Upto, Spare, Single, Listed, Rooted, Holders, Alive, Parents
    <3>2. \A bs : Numbered(bs)' <=> Numbered(bs)
      BY <2>1, <3>1 DEF Numbered
    <3> QED
      BY <2>1, <3>1, <3>2 DEF IInv, Managing, SameNews, Tied
  <2>8. Counted'
    BY <2>1 DEF IInv, Counted, Absent, Total, Upto
  <2> QED
    BY <2>2, <2>3, <2>4, <2>5, <2>6, <2>7, <2>8 DEF IInv
<1> QED
  BY <1>1, <1>2

(* The invariant holds of every run. *)
LEMMA Inductive == Spec => []IInv
<1>1. Init => IInv
  BY InitInv
<1>2. IInv /\ [Next]_vars => IInv'
  BY NextStep
<1> QED
  BY <1>1, <1>2, PTL DEF Spec
-----------------------------------------------------------------------------
(* At most one rank has the parent of a body, also while bodies migrate, and
   while some ranks have numbered the new ones. *)
LEMMA OneParent ==
    ASSUME IInv, NEW b \in Ids
    PROVE  Single(b)
<1> USE DEF IInv
<1>1. CASE phase = "pack"
  <2>1. Absent(b) \/ \E o \in Ranks : PackedFrom(b, o)
    BY <1>1 DEF Packing
  <2> QED
    BY <2>1 DEF Absent, PackedFrom, Single
<1>2. CASE phase = "unpack"
  <2>1. Absent(b) \/ \E o \in Ranks : UnpackedFrom(b, o)
    BY <1>2 DEF Unpacking
  <2>2. ASSUME NEW o \in Ranks, UnpackedFrom(b, o), NEW q \in Ranks, copy[q][b] = "parent"
        PROVE  q = home[b]
    BY <2>2 DEF UnpackedFrom
  <2> QED
    BY <2>1, <2>2 DEF Absent, Single
<1>3. CASE phase = "manage"
  <2>1. PICK base \in Nat : Numbered(base)
    BY <1>3 DEF Managing
  <2>2. b \in Int
    BY DEF Ids
  <2>3. CASE b >= base
    <3>1. \A r \in Ranks : copy[r][b] = "parent" => b \in Slots(base, r)
      BY <2>1, <2>3 DEF Numbered
    <3> QED
      BY <3>1, SlotsApart DEF Single
  <2> QED
    BY <2>1, <2>2, <2>3 DEF Numbered
<1>4. CASE phase \notin {"pack", "unpack", "manage"}
  BY <1>4 DEF Resting, Finishing, Typed, Phases
<1> QED
  BY <1>1, <1>2, <1>3, <1>4

(* After migration and after bodies have been inserted and removed, on every
   rank that has a body: the parent is where its rank says, and the copies
   list each other and nobody else. *)
THEOREM CopiesAgree == Spec => []CopiesKnowEachOther
<1>1. IInv => CopiesKnowEachOther
  BY AllUnpacked, AllManaged DEF CopiesKnowEachOther, Settled, Listed
<1> QED
  BY <1>1, Inductive, PTL

(* A body packed without its data is there: the receiver has a copy, however
   it came by it; and no parent is sent to a rank that has it. *)
THEOREM BodiesAreThere == Spec => []BodiesArrive
<1>1. IInv => BodiesArrive
  BY DEF IInv, Arrived, BodiesArrive
<1> QED
  BY <1>1, Inductive, PTL

(* The ranks count alike without telling each other an id, and no id is given
   twice. *)
THEOREM BodyIdsStayUnique == Spec => []IdsAgree
<1>1. IInv => IdsAgree
  <2>1. SUFFICES ASSUME IInv PROVE IdsAgree
    OBVIOUS
  <2>2. Settled({"manage"}) => \A r, q \in Ranks : bid[r] = bid[q]
    BY <2>1, AllManaged DEF Settled
  <2>3. ASSUME NEW b \in Ids
        PROVE  Cardinality({r \in Ranks : copy[r][b] = "parent"}) <= 1
    <3> DEFINE P == {r \in Ranks : copy[r][b] = "parent"}
    <3>1. Single(b)
      BY <2>1, <2>3, OneParent
    <3>2. CASE P = {}
      <4>1. Cardinality(P) = 0
        BY <3>2, FS_EmptySet
      <4> QED
        BY <4>1
    <3>3. CASE P # {}
      <4>1. PICK r : P = {r}
        BY <3>1, <3>3, ZenonT(60) DEF Single
      <4>2. Cardinality(P) = 1
        BY <4>1, FS_Singleton
      <4> QED
        BY <4>2
    <3> QED
      BY <3>2, <3>3
  <2> QED
    BY <2>2, <2>3 DEF IdsAgree
<1> QED
  BY <1>1, Inductive, PTL

(* What a rank has removed leaves no copy, no dummy and no constraint on any
   other when all ranks have taken the spare ids. *)
THEOREM NothingIsLeft == Spec => []NoGhosts
<1>1. IInv => NoGhosts
  <2>1. SUFFICES ASSUME IInv, phase = "manage", done = Ranks, NEW r \in Ranks, NEW b \in Ids,
                        copy[r][b] # "none" \/ b \in Tied(r)
                 PROVE  b \in Alive
    BY DEF NoGhosts, Settled
  <2>2. CASE copy[r][b] # "none"
    <3>1. Rooted(b)
      BY <2>1, AllManaged
    <3> QED
      BY <2>2, <3>1, AliveIs DEF Rooted
  <2>3. CASE b \in Tied(r)
    BY <2>1, <2>3 DEF IInv, Managing
  <2> QED
    BY <2>1, <2>2, <2>3
<1> QED
  BY <1>1, Inductive, PTL

(* A new body is on its rank, as parent, child or copy left behind, as long as
   it has not been written. *)
THEOREM NewBodiesStay == Spec => []NewBodiesKept
<1>1. IInv => NewBodiesKept
  BY DEF IInv, Kept, NewBodiesKept
<1> QED
  BY <1>1, Inductive, PTL
=============================================================================
