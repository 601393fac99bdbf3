---------------------------- MODULE BodyMigration ----------------------------
(***************************************************************************)
(* Copies of bodies on the ranks: parents, children, copies left behind    *)
(* and dummies; their migration in domain_balancing, their insertion and   *)
(* removal at the end of a step in manage_bodies (src/dom.c).              *)
(*                                                                         *)
(* A body is its id.  Its constraints are reduced to ties, sets of two     *)
(* bodies: a rank has the ties of the bodies it holds a parent or a child  *)
(* of, and no others, which is what module Boundary shows of the           *)
(* constraints themselves.  Blocks and phases are those of that module.    *)
(***************************************************************************)
EXTENDS Integers, FiniteSets

CONSTANTS
    NCpu,       \* dom->ncpu
    NBodies,    \* bodies created before the run, with the ids 1 .. NBodies
    MaxBody,    \* UINT_MAX, the bound that body ids are kept below
    Linked,     \* dom->pairedup: sets of two bodies of a two-body constraint
    Touching,   \* sets of two bodies that may have a constraint
    Cracking,   \* bodies that may crack
    Splittable, \* bodies that a callback may split, by SPLIT_MESH
    Lost,       \* bodies that may fall out of the scene extents
    Erasable    \* bodies a callback may DELETE

ASSUME BodyMigrationAssumption ==
    /\ NCpu \in Nat \ {0} /\ NBodies \in Nat /\ MaxBody \in Nat /\ NBodies + 1 < MaxBody
    /\ \A l \in Linked : l \subseteq 1 .. NBodies /\ Cardinality(l) = 2
    /\ \A t \in Touching : t \subseteq Nat /\ Cardinality(t) = 2
    /\ Cracking \cup Splittable \cup Lost \cup Erasable \subseteq Nat

Ranks == 0 .. NCpu - 1
Ids == 1 .. MaxBody - 1
Kinds == {"none", "dummy", "left", "child", "parent"}

VARIABLES
    phase, done,    \* as in Boundary
    copy,           \* what dom->allbodies of a rank has under an id
    children,       \* bod->children of a copy
    prank,          \* bod->rank of a copy
    home, box,      \* answers of the partitioner while bodies migrate, as in
                    \* Boundary; home is dom->idtorank, too
    ties,           \* bod->con of the copies of a rank
    bid,            \* dom->bid: next body id, on each rank
    sparebid,       \* dom->sparebid: ids of bodies removed on a rank
    pendingbods,    \* number of bodies in dom->pendingbods
    pendingremovebods, \* bodies in dom->pendingremovebods
    newb,           \* dom->newb: bodies to be written by the next output
    outbox, inbox,  \* messages, as in Boundary
    failed          \* assertions that have failed

vars == <<phase, done, copy, children, prank, home, box, ties, bid, sparebid,
          pendingbods, pendingremovebods, newb, outbox, inbox, failed>>

bodyVars == <<copy, children, prank>>
listVars == <<sparebid, pendingbods, pendingremovebods>>

NoData == [bodies |-> {}, spare |-> {}, count |-> 0]
NoMail == [r \in Ranks |-> [q \in Ranks |-> NoData]]
NoPlaces == [b \in {} |-> 0]

Parents(r) == {b \in Ids : copy[r][b] = "parent"}
Held(r) == {b \in Ids : copy[r][b] \in {"parent", "child"}}
Alive == UNION {Parents(r) : r \in Ranks}
Tied(r) == UNION ties[r]

(* DOM_Insert_Body before the run: all ranks count, rank 0 keeps the body *)
Init ==
    /\ phase = "partition" /\ done = {}
    /\ copy = [r \in Ranks |-> [b \in Ids |-> IF r = 0 /\ b <= NBodies THEN "parent" ELSE "none"]]
    /\ children = [r \in Ranks |-> [b \in Ids |-> {}]]
    /\ prank = [r \in Ranks |-> [b \in Ids |-> r]]
    /\ home = NoPlaces /\ box = NoPlaces
    /\ ties = [r \in Ranks |-> {}]
    /\ bid = [r \in Ranks |-> NBodies + 1]
    /\ sparebid = [r \in Ranks |-> {}]
    /\ pendingbods = [r \in Ranks |-> 0]
    /\ pendingremovebods = [r \in Ranks |-> {}]
    /\ newb = [r \in Ranks |-> {}]
    /\ outbox = NoMail /\ inbox = NoMail
    /\ failed = {}

-----------------------------------------------------------------------------
Enter(r, p) == phase = p /\ r \notin done
Leave(r) == done' = done \cup {r}
Send(r, data) == outbox' = [outbox EXCEPT ![r] = data]
Check(holds, name) == failed' = IF holds THEN failed ELSE failed \cup {name}

(* the partitioner assigns points and extents to ranks *)
Partition ==
    /\ phase = "partition"
    /\ \E h \in [Alive -> Ranks] : \E x \in [Alive -> SUBSET Ranks] :
        /\ \A b \in Alive : h[b] \in x[b]
        /\ home' = h /\ box' = x
    /\ phase' = "pack"
    /\ UNCHANGED <<done, bodyVars, ties, bid, listVars, newb, outbox, inbox, failed>>

(* What a copy knows is of use while it is a parent or a child only: the model
   forgets the children and the rank of other copies. *)
Known(r, f, none) ==
    [b \in Ids |-> IF copy'[r][b] \in {"parent", "child"} THEN f[b] ELSE none]
KnowsSame(r) ==
    /\ children' = [children EXCEPT ![r] = Known(r, children[r], {})]
    /\ prank' = [prank EXCEPT ![r] = Known(r, prank[r], r)]

(* children_migration_begin: ranks that shall have a child *)
Partners(b) == UNION {l \ {b} : l \in {k \in Linked : b \in k}}
NewChildren(b) == (box[b] \cup {home[p] : p \in Partners(b) \cap DOMAIN home}) \ {home[b]}

(* Mutant: the rank that sends the body away is listed as a child. *)
PackedWithSender(r, b, q) ==
    [id |-> b, parent |-> q = home[b], full |-> q \notin children[r][b],
     rank |-> home[b], children |-> NewChildren(b) \cup {r}]

(* pack_parent or pack_child for rank q; the body itself is packed unless q
   had a child, as children, now prevchildren, lists *)
Packed(r, b, q) ==
    [id |-> b, parent |-> q = home[b], full |-> q \notin children[r][b],
     rank |-> home[b], children |-> NewChildren(b)]

Pack(r) ==
    LET leaving == {b \in Parents(r) : home[b] # r}
    IN  /\ Enter(r, "pack")
        /\ Send(r, [q \in Ranks |-> [NoData EXCEPT !.bodies =
                {Packed(r, b, q) : b \in {c \in Parents(r) :
                    q \in NewChildren(c) \/ (q = home[c] /\ c \in leaving)}}]])
        /\ copy' = [copy EXCEPT ![r] = [b \in Ids |->
                IF b \in leaving THEN "left" ELSE copy[r][b]]]
        /\ children' = [children EXCEPT ![r] = [b \in Ids |->
                IF b \in Parents(r) \ leaving THEN NewChildren(b)
                ELSE IF b \in leaving THEN {} ELSE children[r][b]]]
        /\ Leave(r)
        /\ UNCHANGED <<phase, prank, home, box, ties, bid, listVars, newb, inbox, failed>>

(* ranks of the other children, as a parent or a child on rank r stores them *)
Siblings(r, m) == m.children \ {r}

(* domain_balancing_unpack: unpack_body, then BODY_Parent_Unpack or
   BODY_Child_Unpack; children_migration_end *)
Unpack(r) ==
    LET came == UNION {inbox[r][q].bodies : q \in Ranks}
        Msg(b) == CHOOSE m \in came : m.id = b
        Came(b) == \E m \in came : m.id = b
    IN  /\ Enter(r, "unpack")
        /\ Check(\A m \in came : /\ m.full \/ copy[r][m.id] # "none"
                                 /\ copy[r][m.id] # "parent", "body")
        /\ copy' = [copy EXCEPT ![r] = [b \in Ids |->
                IF Came(b) THEN IF Msg(b).parent THEN "parent" ELSE "child"
                ELSE IF copy[r][b] = "child" THEN "left" ELSE copy[r][b]]]
        /\ children' = [children EXCEPT ![r] = Known(r, [b \in Ids |->
                IF Came(b) THEN Siblings(r, Msg(b)) ELSE children[r][b]], {})]
        /\ prank' = [prank EXCEPT ![r] = Known(r, [b \in Ids |->
                IF Came(b) THEN Msg(b).rank ELSE prank[r][b]], r)]
        /\ Leave(r)
        /\ UNCHANGED <<phase, home, box, ties, bid, listVars, newb, outbox, inbox>>

(* The constraints are exchanged; get_body makes a dummy of a body that an
   image is attached to and the rank has no copy of. *)
Tie ==
    /\ phase = "tie"
    /\ \E T \in SUBSET {t \in Touching : t \subseteq Alive} :
        ties' = [r \in Ranks |-> {t \in T : t \cap Held(r) # {}}]
    /\ copy' = [r \in Ranks |-> [b \in Ids |->
            IF copy[r][b] = "none" /\ b \in UNION ties'[r] THEN "dummy" ELSE copy[r][b]]]
    /\ home' = NoPlaces /\ box' = NoPlaces
    /\ phase' = "finish"
    /\ UNCHANGED <<done, children, prank, bid, listVars, newb, outbox, inbox, failed>>

-----------------------------------------------------------------------------
(* DOM_Remove_Body of the bodies gone on rank r, with their constraints *)
Removed(r, gone) == [b \in Ids |-> IF b \in gone THEN "none" ELSE copy[r][b]]
TiesWithout(r, gone) == {t \in ties[r] : t \cap gone = {}}

(* Sums of the first values of f, and of all. *)
Upto(f) == LET s[k \in 0 .. NCpu] == IF k = 0 THEN 0 ELSE s[k - 1] + f[k - 1] IN s
Total(f) == Upto(f)[NCpu]

(* MaxBody bounds the model: the code aborts at it. *)
Room(n) == bid[0] + Total(pendingbods) + n < MaxBody

(* DOM_Update_End up to manage_bodies: parents out of the scene are removed,
   then those that crack, in one or two parts, then the bodies scheduled by callbacks; a
   body is destroyed as it is removed *)
Finish(r) ==
    /\ Enter(r, "finish")
    /\ \E out \in SUBSET (Lost \cap Parents(r)), cracked \in SUBSET (Cracking \cap Parents(r)) :
      \E n \in Cardinality(cracked) .. 2 * Cardinality(cracked) :
        LET gone == out \cup cracked \cup pendingremovebods[r]
        IN  /\ out \cap cracked = {}
            /\ n > 0 => Room(n)
            /\ Check(pendingremovebods[r] \cap (out \cup cracked) = {}, "destroyed")
            /\ copy' = [copy EXCEPT ![r] = Removed(r, gone)]
            /\ KnowsSame(r)
            /\ ties' = [ties EXCEPT ![r] = TiesWithout(r, gone)]
            /\ newb' = [newb EXCEPT ![r] = @ \ gone]
            /\ sparebid' = [sparebid EXCEPT ![r] = gone]
            /\ pendingbods' = [pendingbods EXCEPT ![r] = @ + n]
            /\ Send(r, [q \in Ranks |-> [NoData EXCEPT
                    !.spare = gone, !.count = pendingbods[r] + n]])
    /\ pendingremovebods' = [pendingremovebods EXCEPT ![r] = {}]
    /\ Leave(r)
    /\ UNCHANGED <<phase, home, box, bid, inbox>>

(* pending bodies of the ranks *)
Counts(r) == [q \in Ranks |-> inbox[r][q].count]

(* Mutant: a rank inserts its own bodies before it counts those of others. *)
InsertedFirst(r) == bid[r] .. bid[r] + pendingbods[r] - 1

(* manage_bodies_unpack, in the sequence of ranks: pending bodies of others
   are counted, those of this rank are inserted at its turn *)
Inserted(r) ==
    LET first == bid[r] + Upto(Counts(r))[r]
    IN  first .. first + pendingbods[r] - 1

(* Mutant: bodies that are still to be written are not spared. *)
UnusedUnwritten(r, bound) == {b \in Ids \ bound : copy[r][b] \in {"left", "dummy"}}

(* neither parent nor child, without constraints and written *)
Unused(r, bound) == {b \in Ids \ (bound \cup newb[r]) : copy[r][b] \in {"left", "dummy"}}

(* Mutant: only the bodies of the union of spare ids that are parents go. *)
SpareParents(r) == UNION {inbox[r][q].spare : q \in Ranks} \cap Parents(r)

(* ids of the bodies removed by any rank: manage_bodies_unpack takes the union *)
Spare(r) == UNION {inbox[r][q].spare : q \in Ranks}

(* manage_bodies: pending bodies are inserted, every copy and dummy of a body
   with a spare id goes with its constraints, then the unused copies *)
Manage(r) ==
    LET spare == Spare(r)
        bound == UNION TiesWithout(r, spare)
    IN  /\ Enter(r, "manage")
        /\ copy' = [copy EXCEPT ![r] = [b \in Ids |->
                IF b \in Inserted(r) THEN "parent" ELSE Removed(r, spare \cup Unused(r, bound))[b]]]
        /\ KnowsSame(r)
        /\ ties' = [ties EXCEPT ![r] = TiesWithout(r, spare)]
        /\ newb' = [newb EXCEPT ![r] = (@ \ spare) \cup Inserted(r)]
        /\ bid' = [bid EXCEPT ![r] = @ + Total(Counts(r))]
        /\ sparebid' = [sparebid EXCEPT ![r] = {}]
        /\ pendingbods' = [pendingbods EXCEPT ![r] = 0]
        /\ Leave(r)
        /\ UNCHANGED <<phase, home, box, pendingremovebods, outbox, inbox, failed>>

-----------------------------------------------------------------------------
(* write_state every output interval: new bodies are packed and forgotten *)
Output ==
    /\ phase = "output"
    /\ newb' \in {newb, [r \in Ranks |-> {}]}
    /\ phase' = "callback"
    /\ UNCHANGED <<done, bodyVars, home, box, ties, bid, listVars, outbox, inbox, failed>>

(* DELETE (solfec, body) by a callback: the parent's rank schedules it, and
   its Python object can not be used again *)
Delete(r, b) ==
    /\ Enter(r, "callback")
    /\ b \in (Erasable \cap Parents(r)) \ pendingremovebods[r]
    /\ pendingremovebods' = [pendingremovebods EXCEPT ![r] = @ \cup {b}]
    /\ UNCHANGED <<phase, done, bodyVars, home, box, ties, bid, sparebid, pendingbods,
                   newb, outbox, inbox, failed>>

(* SPLIT_MESH: the parts are to be inserted, the body is to be removed *)
SplitMesh(r, b) ==
    /\ Enter(r, "callback")
    /\ b \in (Splittable \cap Parents(r)) \ pendingremovebods[r]
    /\ \E n \in 1 .. 2 :
        /\ Room(n)
        /\ pendingbods' = [pendingbods EXCEPT ![r] = @ + n]
    /\ pendingremovebods' = [pendingremovebods EXCEPT ![r] = @ \cup {b}]
    /\ UNCHANGED <<phase, done, bodyVars, home, box, ties, bid, sparebid,
                   newb, outbox, inbox, failed>>

CallbackReturn(r) ==
    /\ Enter(r, "callback")
    /\ Leave(r)
    /\ UNCHANGED <<phase, bodyVars, home, box, ties, bid, listVars, newb, outbox, inbox, failed>>

NextPhase == [pack |-> "unpack", unpack |-> "tie", finish |-> "manage",
              manage |-> "output", callback |-> "partition"]

Exchange ==
    /\ done = Ranks
    /\ phase' = NextPhase[phase]
    /\ done' = {}
    /\ inbox' = [r \in Ranks |-> [q \in Ranks |-> outbox[q][r]]]
    /\ outbox' = NoMail
    /\ UNCHANGED <<bodyVars, home, box, ties, bid, listVars, newb, failed>>

Next ==
    \/ Partition \/ Tie \/ Output \/ Exchange
    \/ \E r \in Ranks :
        \/ Pack(r) \/ Unpack(r) \/ Finish(r) \/ Manage(r)
        \/ \E b \in Ids : Delete(r, b) \/ SplitMesh(r, b)
        \/ CallbackReturn(r)

Spec == Init /\ [][Next]_vars

-----------------------------------------------------------------------------
Settled(phases) == phase \in phases /\ done = Ranks
Holders(b) == {r \in Ranks : copy[r][b] \in {"parent", "child"}}

(* Migration leaves one parent and the children it knows of: the copies of a
   body list each other and nobody else, so that what is sent to children and
   to the parent arrives at all of them ("Not a child"). *)
CopiesKnowEachOther ==
    Settled({"unpack", "manage"}) => \A b \in Ids : \A r \in Holders(b) :
        /\ copy[r][b] = "parent" <=> prank[r][b] = r
        /\ copy[prank[r][b]][b] = "parent"
        /\ children[r][b] = Holders(b) \ {r, prank[r][b]}

(* A body that is not packed because the receiver had a child of it is there
   ("Invalid body id"), in whatever way parents and children have moved, been
   left behind and been cleaned up in the steps before; and nobody is sent a
   body it is the parent of ("Neither child nor dummy"). *)
BodiesArrive == "body" \notin failed

(* All ranks agree on the next body id, although each counts for itself, and
   no two bodies ever share one. *)
IdsAgree ==
    /\ Settled({"manage"}) => \A r, q \in Ranks : bid[r] = bid[q]
    /\ \A b \in Ids : Cardinality({r \in Ranks : copy[r][b] = "parent"}) <= 1

(* When a body has gone no rank has a copy, a dummy or a constraint of it. *)
NoGhosts ==
    Settled({"manage"}) => \A r \in Ranks : \A b \in Ids :
        copy[r][b] # "none" \/ b \in Tied(r) => b \in Alive

(* New bodies are there when the output comes to write them. *)
NewBodiesKept ==
    \A r \in Ranks : \A b \in newb[r] : copy[r][b] \in {"parent", "child", "left"}

(* A body scheduled for removal by DELETE is removed once. *)
RemovedOnce == "destroyed" \notin failed
=============================================================================
