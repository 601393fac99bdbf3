--------------------------- MODULE BoundaryProofs ---------------------------
(***************************************************************************)
(* Proofs about Boundary, for any number of ranks and any sets of bodies:  *)
(* its state stays well formed; it implements ConstraintIds, so that the   *)
(* theorems of ConstraintIdsProofs hold of the constraints themselves; and *)
(* owned constraints and their external images agree.                      *)
(*                                                                         *)
(* TypeOK is not inductive: what arrives has to be typed as well (Post),   *)
(* and that nobody is sent an image of its own constraint, and that only   *)
(* constraints of one body are ever transferred to a part (Sound).         *)
(* Refinement further needs that no rank sees two constraints of one       *)
(* identifier (Distinct), which is where the invariant of ConstraintIds    *)
(* enters: the two are proved together.                                    *)
(*                                                                         *)
(* ImagesMatch speaks of the settled phases only.  In between, images and  *)
(* removals are on the way, constraints are in the mail themselves, and a  *)
(* body may have left the domain on some of the ranks.  The invariant      *)
(* counts all of that: what a rank has or is sent images of (View) are the *)
(* constraints that list it (Claims) and the removals it has not heard of  *)
(* (Awaited).  Which rank an image names is right whenever no constraint   *)
(* is on its way (Ranked).                                                 *)
(*                                                                         *)
(* Detection and the removal of bodies go by the lists of the bodies.      *)
(* While no insertion has met its like there, a list names the owned       *)
(* constraints and the images of its body (Sets), and no image has the     *)
(* identifier of a constraint its rank owns (Foreign).  An insertion that  *)
(* meets its like fails an assertion, which ends the run (Debug).  What    *)
(* may be in the way of one is the image of a constraint that its owner    *)
(* has taken back; the invariant follows such images until they are gone   *)
(* (Timely), and leaves the one case of BodyListsTake.                     *)
(***************************************************************************)
EXTENDS Boundary, FiniteSetTheorems, WellFoundedInduction, TLAPS

I == INSTANCE ConstraintIdsProofs WITH idc <- Live, flight <- Flying

(* One-body constraints have one body, links are those of the input. *)
Sound == {c \in Constraint : /\ c.kind = "FIXPNT" => c.master = c.slave
                             /\ c.kind = "RIGLNK" => <<c.master, c.slave>> \in Links}

Data == [cons : SUBSET Sound, glue : SUBSET Images, update : SUBSET Ids,
         remove : SUBSET Ids, bodies : SUBSET Bodies, parts : SUBSET Bodies]

(* What rank r may send: no images and no updates to itself. *)
Letters(r) == {d \in [Ranks -> Data] : d[r].glue = {} /\ d[r].update = {}}

(* Constraints travel between balance and import only. *)
Post ==
    /\ outbox \in [Ranks -> [Ranks -> Data]] /\ inbox \in [Ranks -> [Ranks -> Data]]
    /\ \A r \in Ranks : /\ outbox[r][r].glue = {} /\ outbox[r][r].update = {}
                        /\ inbox[r][r].glue = {} /\ inbox[r][r].update = {}
    /\ \A r, q \in Ranks : outbox[r][q].cons # {} => phase = "balance" /\ r \in done
    /\ phase = "partition" => done = {}

Shape == TypeOK /\ con \in [Ranks -> SUBSET Sound] /\ Post

-----------------------------------------------------------------------------
(* The constants of ConstraintIds are those of Boundary; there is a rank. *)
LEMMA Counts == NCpu \in Nat \ {0} /\ UIntMax \in Nat /\ 0 \in Ranks
<1>1. NCpu \in Nat \ {0} /\ UIntMax \in Nat
  BY BoundaryAssumption
<1> QED
  BY <1>1 DEF Ranks

(* The empty message is a message. *)
LEMMA NoDataTyped ==
    /\ NoData \in Data
    /\ NoData.cons = {} /\ NoData.glue = {} /\ NoData.update = {}
<1> QED
  BY DEF NoData, Data

(* A constraint with another ext is the same constraint elsewhere. *)
LEMMA ExtChanged ==
    ASSUME NEW c \in Sound, NEW x \in SUBSET Ranks
    PROVE  /\ [c EXCEPT !.ext = x] \in Sound
           /\ [c EXCEPT !.ext = x].id = c.id /\ [c EXCEPT !.ext = x].ext = x
<1> QED
  BY DEF Sound, Constraint

(* A body is on ranks. *)
LEMMA HoldersTyped ==
    ASSUME Shape, NEW b \in Bodies
    PROVE  Holders(b) \subseteq Ranks
<1>1. home \in [Bodies -> Ranks] /\ box \in [Bodies -> SUBSET Ranks]
  BY DEF Shape, TypeOK
<1>2. Paired(b) \subseteq Bodies
  BY DEF Paired
<1>3. {home[p] : p \in Paired(b) \cap alive} \subseteq Ranks
  BY <1>1, <1>2
<1> QED
  BY <1>1, <1>3 DEF Holders

(* The ranks a constraint of rank r is to be seen on are other ranks. *)
LEMMA BeyondTyped ==
    ASSUME Shape, NEW r \in Ranks, NEW c \in Sound
    PROVE  Beyond(r, c) \subseteq Ranks \ {r}
<1>1. c.master \in Bodies /\ c.slave \in Bodies
  BY DEF Sound, Constraint
<1>2. \A b \in BodiesOf(c) : Remote(r, b) \subseteq Ranks \ {r}
  BY <1>1, HoldersTyped DEF BodiesOf, Remote
<1> QED
  BY <1>2 DEF Beyond

(* The image of a constraint is an image. *)
LEMMA ImageTyped ==
    ASSUME NEW c \in Sound
    PROVE  Image(c) \in Images /\ c.id \in Ids
<1> QED
  BY DEF Image, Images, Sound, Constraint

(* What a rank has received is typed, and comes from the others. *)
LEMMA GotTyped ==
    ASSUME Shape, NEW r \in Ranks
    PROVE  /\ Got(r, "cons") \subseteq Sound
           /\ Got(r, "update") \subseteq Ids /\ Got(r, "remove") \subseteq Ids
           /\ Got(r, "bodies") \subseteq Bodies /\ Got(r, "parts") \subseteq Bodies
<1> QED
  BY DEF Shape, Post, Data, Got

(* A message of a rank that has left its block keeps the post in order. *)
LEMMA SendKeepsPost ==
    ASSUME Shape, NEW r \in Ranks, NEW data \in Letters(r), Send(r, data), Leave(r),
           phase # "partition", UNCHANGED <<phase, inbox>>,
           phase # "balance" => \A q \in Ranks : data[q].cons = {}
    PROVE  Post'
<1>1. outbox' \in [Ranks -> [Ranks -> Data]]
  BY DEF Shape, Post, Send, Letters
<1>2. \A p \in Ranks : outbox'[p][p].glue = {} /\ outbox'[p][p].update = {}
  BY DEF Shape, Post, Send, Letters
<1>3. ASSUME NEW p \in Ranks, NEW q \in Ranks, outbox'[p][q].cons # {}
      PROVE  phase = "balance" /\ p \in done'
  <2>1. CASE p = r
    BY <1>3, <2>1 DEF Shape, Post, Send, Leave
  <2>2. CASE p # r
    BY <1>3, <2>2 DEF Shape, Post, Send, Leave
  <2> QED
    BY <2>1, <2>2
<1> QED
  BY <1>1, <1>2, <1>3 DEF Shape, Post

(* So does a rank that sends nothing. *)
LEMMA SilencePost ==
    ASSUME Shape, phase # "partition", done \subseteq done',
           UNCHANGED <<phase, inbox, outbox>>
    PROVE  Post'
<1> QED
  BY DEF Shape, Post

(* Initially the state is well formed. *)
LEMMA InitShape == Init => Shape
<1> SUFFICES ASSUME Init PROVE Shape
  OBVIOUS
<1>1. 0 \in Ranks /\ \A r \in Ranks : r + 1 \in Nat \ {0}
  BY Counts DEF Ranks
<1>2. TypeOK
  BY <1>1, BoundaryAssumption DEF Init, TypeOK
<1>3. Post
  BY NoDataTyped DEF Init, Post, NoMail
<1> QED
  BY <1>2, <1>3 DEF Shape, Init

(* The assertions that a block may fail. *)
LEMMA FaultsTyped ==
    /\ \A ids, images : Unknown(ids, images) \in {{}, {"conext"}}
    /\ \A S, lists : Clashing(S, lists) \in {{}, {"bodcon"}}
<1> QED
  BY DEF Unknown, Clashing

(* Bodies list images of their constraints. *)
Lists == [Bodies -> SUBSET Images]

LEMMA ListsTyped ==
    ASSUME NEW S, \A c \in S : Image(c) \in Images, NEW lists \in Lists
    PROVE  Enlisted(S, lists) \in Lists /\ Unlisted(S, lists) \in Lists
<1>1. ASSUME NEW b \in Bodies
      PROVE  {Image(c) : c \in {d \in With(b, S) : \A e \in lists[b] : ~ Same(d, e)}} \subseteq Images
  BY DEF With
<1>2. Enlisted(S, lists) \in Lists
  BY <1>1 DEF Enlisted, Lists
<1>3. Unlisted(S, lists) \in Lists
  BY DEF Unlisted, Lists
<1> QED
  BY <1>2, <1>3

LEMMA ImagesTyped ==
    ASSUME Shape, NEW r \in Ranks
    PROVE  /\ bodcon \in [Ranks -> Lists]
           /\ \A c \in con[r] \cup conext[r] \cup Got(r, "cons") \cup Glued(r) : Image(c) \in Images
<1>1. \A c \in con[r] \cup conext[r] : Image(c) \in Images
  BY DEF Shape, TypeOK, Constraint, External, Image, Images
<1>2. \A c \in Got(r, "cons") : Image(c) \in Images
  BY GotTyped, ImageTyped
<1>3. ASSUME NEW q \in Ranks, NEW g \in inbox[r][q].glue
      PROVE  Image([id |-> g.id, kind |-> g.kind, master |-> g.master, slave |-> g.slave,
                    rank |-> q]) \in Images
  <2>1. g \in Images
    BY DEF Shape, Post, Data
  <2> QED
    BY <2>1 DEF Images, Image
<1>4. \A c \in Glued(r) : Image(c) \in Images
  BY <1>3 DEF Glued
<1> QED
  BY <1>1, <1>2, <1>4 DEF Shape, TypeOK, Lists

(* What changes in a block of a rank, as far as types are concerned. *)
LEMMA BlockTyped ==
    ASSUME Shape, NEW r \in Ranks, UNCHANGED <<phase, boot>>, done' \in {done, done \cup {r}},
           alive' \subseteq Bodies, home' \in [Bodies -> Ranks], box' \in [Bodies -> SUBSET Ranks],
           cid' \in [Ranks -> Nat \ {0}], sparecid' \in [Ranks -> SUBSET Ids],
           con' \in [Ranks -> SUBSET Sound], conext' \in [Ranks -> SUBSET External],
           dbdrem' \in [Ranks -> [Ranks -> SUBSET Ids]], pend' \in [Ranks -> SUBSET Links],
           \A c \in con'[r] : r \notin c.ext, \A q \in Ranks \ {r} : con'[q] = con[q],
           \A e \in conext'[r] : e.rank # r, \A q \in Ranks \ {r} : conext'[q] = conext[q],
           bodcon' \in [Ranks -> Lists],
           failed' \subseteq failed \cup {"bodcon", "conext", "slave"}, Post'
    PROVE  Shape'
<1>1. con' \in [Ranks -> SUBSET Constraint]
  BY DEF Sound
<1>2. \A q \in Ranks : (\A c \in con'[q] : q \notin c.ext) /\ (\A e \in conext'[q] : e.rank # q)
  BY DEF Shape, TypeOK
<1>3. done' \subseteq Ranks /\ failed' \subseteq {"bodcon", "conext", "slave", "idtorank"}
  BY DEF Shape, TypeOK
<1>4. /\ phase' \in DOMAIN NextPhase' \cup {"partition"} /\ boot' \in BOOLEAN
  BY DEF Shape, TypeOK, NextPhase
<1> QED
  BY <1>1, <1>2, <1>3, <1>4 DEF Shape, TypeOK, Lists

(* Partition moves bodies only. *)
LEMMA PartitionShape == ASSUME Shape, Partition PROVE Shape'
<1>1. home' \in [Bodies -> Ranks] /\ box' \in [Bodies -> SUBSET Ranks]
  BY DEF Shape, TypeOK, Partition
<1>2. failed' \subseteq {"bodcon", "conext", "slave", "idtorank"}
  BY DEF Shape, TypeOK, Partition
<1>3. TypeOK'
  BY <1>1, <1>2 DEF Shape, TypeOK, Partition, idVars, NextPhase
<1>4. Post'
  BY DEF Shape, Post, Partition
<1> QED
  BY <1>3, <1>4 DEF Shape, Partition

(* MigrateOut parts with some constraints and with the scheduled removals. *)
LEMMA MigrateOutShape == ASSUME Shape, NEW r \in Ranks, MigrateOut(r) PROVE Shape'
<1>1. PICK dest \in [con[r] -> Ranks] :
        /\ con' = [con EXCEPT ![r] = {c \in @ : dest[c] = r}]
        /\ Send(r, [q \in Ranks |-> [NoData EXCEPT
                !.cons = {c \in con[r] : dest[c] = q /\ q # r},
                !.remove = dbdrem[r][q]]])
  BY DEF MigrateOut
<1>2. con' \in [Ranks -> SUBSET Sound] /\ \A q \in Ranks : con'[q] \subseteq con[q]
  BY <1>1 DEF Shape, TypeOK
<1>3. [q \in Ranks |-> [NoData EXCEPT
                !.cons = {c \in con[r] : dest[c] = q /\ q # r},
                !.remove = dbdrem[r][q]]] \in Letters(r)
  <2>1. ASSUME NEW q \in Ranks
        PROVE  {c \in con[r] : dest[c] = q /\ q # r} \subseteq Sound /\ dbdrem[r][q] \subseteq Ids
    BY DEF Shape, TypeOK
  <2> QED
    BY <2>1 DEF Letters, NoData, Data
<1>4. Post'
  BY <1>1, <1>3, SendKeepsPost DEF MigrateOut, Enter
<1>5. /\ \A c \in con'[r] : r \notin c.ext
      /\ \A q \in Ranks \ {r} : con'[q] = con[q]
  BY <1>1 DEF Shape, TypeOK
<1>6. dbdrem' \in [Ranks -> [Ranks -> SUBSET Ids]]
  BY DEF Shape, TypeOK, MigrateOut
<1>7. PICK leaving \in SUBSET con[r] : bodcon' = [bodcon EXCEPT ![r] = Unlisted(leaving, @)]
  BY DEF MigrateOut
<1>8. bodcon' \in [Ranks -> Lists]
  BY <1>7, ImagesTyped, ListsTyped
<1>9. /\ UNCHANGED <<phase, boot, mapVars, idVars, conext, pend>> /\ done' = done \cup {r}
      /\ failed' = failed \cup Unknown(Got(r, "update"), conext[r])
  BY DEF MigrateOut, Leave, Lookup
<1>10. failed' \subseteq failed \cup {"bodcon", "conext", "slave"}
  BY <1>9, FaultsTyped
<1> QED
  BY <1>2, <1>4, <1>5, <1>6, <1>8, <1>9, <1>10, BlockTyped
     DEF Shape, TypeOK, mapVars, idVars

(* MigrateIn gains the constraints that came, and recomputes every ext. *)
LEMMA MigrateInShape == ASSUME Shape, NEW r \in Ranks, MigrateIn(r) PROVE Shape'
<1> DEFINE came == Got(r, "cons")
           drop == {c.id : c \in {d \in came : r \in d.ext}} \cup Got(r, "remove")
           own == con[r] \cup {[c EXCEPT !.ext = @ \ {r}] : c \in came}
           data == [q \in Ranks |-> [NoData EXCEPT
                !.glue = {Image(c) : c \in {d \in own : q \in Beyond(r, d) \ d.ext}},
                !.update = {c.id : c \in {d \in own : q \in Beyond(r, d) \cap d.ext}},
                !.remove = {c.id : c \in {d \in own : q \in d.ext \ Beyond(r, d)}}]]
<1>1. came \subseteq Sound
  BY GotTyped
<1>2. own \subseteq Sound
  <2>1. ASSUME NEW c \in came PROVE [c EXCEPT !.ext = @ \ {r}] \in Sound
    BY <1>1, <2>1 DEF Sound, Constraint
  <2> QED
    BY <2>1 DEF Shape
<1>3. ASSUME NEW c \in own
      PROVE  /\ Beyond(r, c) \subseteq Ranks \ {r}
             /\ [c EXCEPT !.ext = Beyond(r, c)] \in Sound
             /\ [c EXCEPT !.ext = Beyond(r, c)].ext = Beyond(r, c)
  BY <1>2, <1>3, BeyondTyped, ExtChanged
<1> HIDE DEF own
<1>4. con' = [con EXCEPT ![r] = {[c EXCEPT !.ext = Beyond(r, c)] : c \in own}]
  BY DEF MigrateIn, own
<1>5. /\ con' \in [Ranks -> SUBSET Sound]
      /\ \A c \in con'[r] : r \notin c.ext
      /\ \A q \in Ranks \ {r} : con'[q] = con[q]
  <2>1. con'[r] = {[c EXCEPT !.ext = Beyond(r, c)] : c \in own}
    BY <1>4 DEF Shape
  <2>2. con'[r] \subseteq Sound /\ \A c \in con'[r] : r \notin c.ext
    BY <1>3, <2>1
  <2> QED
    BY <1>4, <2>2 DEF Shape
<1>6. data \in Letters(r)
  <2>1. ASSUME NEW q \in Ranks
        PROVE  /\ {Image(c) : c \in {d \in own : q \in Beyond(r, d) \ d.ext}} \subseteq Images
               /\ {c.id : c \in {d \in own : q \in Beyond(r, d) \cap d.ext}} \subseteq Ids
               /\ {c.id : c \in {d \in own : q \in d.ext \ Beyond(r, d)}} \subseteq Ids
    BY <1>2, ImageTyped
  <2>2. \A q \in Ranks : data[q] \in Data
    BY <2>1 DEF Data, NoData
  <2>3. data[r].glue = {} /\ data[r].update = {}
    BY <1>3 DEF NoData
  <2> QED
    BY <2>2, <2>3 DEF Letters
<1>7. Post'
  <2>1. Send(r, data) /\ \A q \in Ranks : data[q].cons = {}
    BY DEF MigrateIn, own, NoData
  <2> QED
    BY <1>6, <2>1, SendKeepsPost DEF MigrateIn, Enter
<1>8. /\ conext' \in [Ranks -> SUBSET External]
      /\ \A e \in conext'[r] : e.rank # r
      /\ \A q \in Ranks \ {r} : conext'[q] = conext[q]
  BY DEF Shape, TypeOK, MigrateIn
<1>9. /\ UNCHANGED <<phase, boot, alive, home, box, cid, sparecid, dbdrem, pend>>
      /\ done' = done \cup {r}
      /\ failed' \subseteq failed \cup {"bodcon", "conext", "slave"}
  BY FaultsTyped DEF MigrateIn, Leave, mapVars, idVars
<1>10. bodcon' \in [Ranks -> Lists]
  <2>1. PICK out, away \in SUBSET conext[r] : bodcon' = [bodcon EXCEPT ![r] =
            Unlisted(out, Enlisted(came, Unlisted(away, bodcon[r])))]
    BY DEF MigrateIn
  <2>2. Unlisted(away, bodcon[r]) \in Lists
    BY ImagesTyped, ListsTyped
  <2>3. Enlisted(came, Unlisted(away, bodcon[r])) \in Lists
    BY <2>2, ImagesTyped, ListsTyped
  <2>4. Unlisted(out, Enlisted(came, Unlisted(away, bodcon[r]))) \in Lists
    BY <2>3, ImagesTyped, ListsTyped
  <2> QED
    BY <2>1, <2>4, ImagesTyped
<1> QED
  BY <1>5, <1>7, <1>8, <1>9, <1>10, BlockTyped DEF Shape, TypeOK

(* The images that arrive are images of constraints of other ranks. *)
LEMMA ImportedTyped ==
    ASSUME Shape, NEW r \in Ranks
    PROVE  Imported(r, conext[r]) \in SUBSET {e \in External : e.rank # r}
<1>1. ASSUME NEW q \in Ranks, NEW g \in inbox[r][q].glue
      PROVE  [id |-> g.id, kind |-> g.kind, master |-> g.master, slave |-> g.slave, rank |-> q]
               \in {e \in External : e.rank # r}
  <2>1. g \in Images /\ q # r
    BY <1>1 DEF Shape, Post, Data
  <2> QED
    BY <2>1 DEF Images, External
<1>2. conext[r] \subseteq {e \in External : e.rank # r}
  BY DEF Shape, TypeOK
<1> QED
  BY <1>1, <1>2 DEF Imported, Glued

(* A rank that updates an image is not the one that holds it. *)
LEMMA RerankedTyped ==
    ASSUME Shape, NEW r \in Ranks, NEW S \in SUBSET {e \in External : e.rank # r}
    PROVE  Reranked(r, S) \in SUBSET {e \in External : e.rank # r}
<1> SUFFICES ASSUME NEW e \in S
    PROVE  (IF \E q \in Ranks : e.id \in inbox[r][q].update
            THEN [e EXCEPT !.rank = CHOOSE q \in Ranks : e.id \in inbox[r][q].update]
            ELSE e) \in {x \in External : x.rank # r}
  BY DEF Reranked
<1>1. CASE \E q \in Ranks : e.id \in inbox[r][q].update
  <2> DEFINE n == CHOOSE q \in Ranks : e.id \in inbox[r][q].update
  <2>1. n \in Ranks /\ e.id \in inbox[r][n].update
    BY <1>1
  <2>2. n # r
    BY <2>1 DEF Shape, Post
  <2> HIDE DEF n
  <2>3. [e EXCEPT !.rank = n] \in External /\ [e EXCEPT !.rank = n].rank # r
    BY <2>1, <2>2 DEF External
  <2> QED
    BY <1>1, <2>3 DEF n
<1>2. CASE ~ \E q \in Ranks : e.id \in inbox[r][q].update
  BY <1>2
<1> QED
  BY <1>1, <1>2

(* Settle changes images only. *)
LEMMA SettleShape == ASSUME Shape, NEW r \in Ranks, Settle(r) PROVE Shape'
<1>1. Post'
  BY SilencePost DEF Settle, Enter, Leave
<1>2. conext' = [conext EXCEPT ![r] =
        {e \in Reranked(r, Imported(r, conext[r])) : e.id \notin Got(r, "remove")}]
  BY DEF Settle
<1>3. Reranked(r, Imported(r, conext[r])) \in SUBSET {e \in External : e.rank # r}
  BY ImportedTyped, RerankedTyped
<1>4. /\ conext' \in [Ranks -> SUBSET External]
      /\ \A e \in conext'[r] : e.rank # r
      /\ \A q \in Ranks \ {r} : conext'[q] = conext[q]
  BY <1>2, <1>3 DEF Shape, TypeOK
<1>5. bodcon' \in [Ranks -> Lists]
  <2>1. PICK out \in SUBSET Imported(r, conext[r]) :
            bodcon' = [bodcon EXCEPT ![r] = Unlisted(out, Enlisted(Glued(r), @))]
    BY DEF Settle
  <2>2. \A c \in out : Image(c) \in Images
    BY ImagesTyped DEF Imported
  <2>3. Enlisted(Glued(r), bodcon[r]) \in Lists
    BY ImagesTyped, ListsTyped
  <2> QED
    BY <2>1, <2>2, <2>3, ImagesTyped, ListsTyped
<1> QED
  <2>1. /\ UNCHANGED <<phase, boot, mapVars, idVars, con, dbdrem, pend>> /\ done' = done \cup {r}
        /\ failed' \subseteq failed \cup {"bodcon", "conext", "slave"}
    BY FaultsTyped DEF Settle, Leave
  <2> QED
    BY <1>1, <1>4, <1>5, <2>1, BlockTyped DEF Shape, TypeOK, mapVars, idVars

(* A new constraint is without images. *)
LEMMA InsertTyped ==
    ASSUME Shape, NEW r \in Ranks, NEW kind \in Kinds, NEW m \in Bodies, NEW s \in Bodies,
           NEW new \in BOOLEAN, Insert(r, kind, m, s, new),
           kind = "FIXPNT" => m = s, kind = "RIGLNK" => <<m, s>> \in Links
    PROVE  /\ cid' \in [Ranks -> Nat \ {0}] /\ sparecid' \in [Ranks -> SUBSET Ids]
           /\ con' \in [Ranks -> SUBSET Sound]
           /\ \A c \in con'[r] : r \notin c.ext
           /\ \A q \in Ranks \ {r} : con'[q] = con[q]
           /\ bodcon' \in [Ranks -> Lists] /\ failed' \subseteq failed \cup {"bodcon"}
<1>1. PICK i \in Ids :
        /\ con' = [con EXCEPT ![r] = @ \cup {[id |-> i, kind |-> kind, master |-> m,
                                             slave |-> s, ext |-> {}, new |-> new]}]
        /\ \/ sparecid' = [sparecid EXCEPT ![r] = @ \ {i}] /\ UNCHANGED cid
           \/ cid' = [cid EXCEPT ![r] = @ + NCpu] /\ UNCHANGED sparecid
        /\ LET g == [id |-> i, kind |-> kind, master |-> m, slave |-> s]
           IN  /\ bodcon' = [bodcon EXCEPT ![r] = Enlisted({g}, @)]
               /\ failed' = failed \cup Clashing({g}, bodcon[r])
  BY DEF Insert
<1> DEFINE c == [id |-> i, kind |-> kind, master |-> m, slave |-> s, ext |-> {}, new |-> new]
<1>2. c \in Sound /\ c.ext = {}
  BY DEF Sound, Constraint
<1> HIDE DEF c
<1>3. con' = [con EXCEPT ![r] = @ \cup {c}]
  BY <1>1 DEF c
<1>4. cid' \in [Ranks -> Nat \ {0}] /\ sparecid' \in [Ranks -> SUBSET Ids]
  <2>1. cid \in [Ranks -> Nat \ {0}] /\ sparecid \in [Ranks -> SUBSET Ids]
    BY DEF Shape, TypeOK
  <2>2. NCpu \in Nat
    BY BoundaryAssumption
  <2> QED
    BY <1>1, <2>1, <2>2
<1>5. bodcon' \in [Ranks -> Lists] /\ failed' \subseteq failed \cup {"bodcon"}
  <2> DEFINE g == [id |-> i, kind |-> kind, master |-> m, slave |-> s]
  <2>1. Image(g) \in Images
    BY DEF Image, Images
  <2> HIDE DEF g
  <2>2. bodcon' = [bodcon EXCEPT ![r] = Enlisted({g}, @)] /\ failed' = failed \cup Clashing({g}, bodcon[r])
    BY <1>1 DEF g
  <2> QED
    BY <2>1, <2>2, ImagesTyped, ListsTyped, FaultsTyped
<1> QED
  BY <1>2, <1>3, <1>4, <1>5 DEF Shape, TypeOK

(* PutPending inserts a link of the input. *)
LEMMA PutPendingShape == ASSUME Shape, NEW r \in Ranks, PutPending(r) PROVE Shape'
<1>1. PICK l \in pend[r] : /\ \/ Insert(r, "RIGLNK", l[1], l[2], FALSE)
                             \/ /\ failed' = failed \cup {"slave"}
                                /\ UNCHANGED <<idVars, con, bodcon>>
                          /\ pend' = [pend EXCEPT ![r] = @ \ {l}]
  BY DEF PutPending
<1>2. l \in Links /\ l[1] \in Bodies /\ l[2] \in Bodies /\ <<l[1], l[2]>> = l
  BY BoundaryAssumption DEF Shape, TypeOK
<1>3. Post'
  BY SilencePost DEF PutPending, Enter
<1>4. pend' \in [Ranks -> SUBSET Links]
  BY <1>1 DEF Shape, TypeOK
<1>5. /\ cid' \in [Ranks -> Nat \ {0}] /\ sparecid' \in [Ranks -> SUBSET Ids]
      /\ con' \in [Ranks -> SUBSET Sound]
      /\ \A c \in con'[r] : r \notin c.ext
      /\ \A q \in Ranks \ {r} : con'[q] = con[q]
      /\ bodcon' \in [Ranks -> Lists] /\ failed' \subseteq failed \cup {"bodcon", "slave"}
  <2>1. CASE Insert(r, "RIGLNK", l[1], l[2], FALSE)
    BY <2>1, <1>2, InsertTyped DEF Kinds
  <2>2. CASE failed' = failed \cup {"slave"} /\ UNCHANGED <<idVars, con, bodcon>>
    BY <2>2 DEF Shape, TypeOK, idVars, Lists
  <2> QED
    BY <1>1, <2>1, <2>2
<1> QED
  <2>1. UNCHANGED <<phase, done, boot, mapVars, conext, dbdrem>>
    BY DEF PutPending
  <2> QED
    BY <1>3, <1>4, <1>5, <2>1, BlockTyped DEF Shape, TypeOK, mapVars

(* DropPending forgets input. *)
LEMMA DropPendingShape == ASSUME Shape, NEW r \in Ranks, DropPending(r) PROVE Shape'
<1>1. Post'
  BY SilencePost DEF DropPending, Enter, Leave
<1> QED
  BY <1>1, BlockTyped DEF Shape, TypeOK, Lists, DropPending, Leave, mapVars, idVars

(* Detect inserts a contact. *)
LEMMA DetectShape ==
    ASSUME Shape, NEW r \in Ranks, NEW t \in Touching, Detect(r, t) PROVE Shape'
<1> DEFINE m == CHOOSE b \in t : TRUE
<1>1. PICK s \in t \ {m} : Insert(r, "CONTACT", m, s, TRUE)
  BY DEF Detect
<1>2. m \in Bodies /\ s \in Bodies
  BY BoundaryAssumption DEF Shape, TypeOK
<1>3. Post'
  BY SilencePost DEF Detect, Enter
<1> QED
  BY <1>1, <1>2, <1>3, InsertTyped, BlockTyped DEF Shape, TypeOK, Detect, mapVars, Kinds

(* FixPoint inserts a constraint of one body. *)
LEMMA FixPointShape ==
    ASSUME Shape, NEW r \in Ranks, NEW b \in Fixable, FixPoint(r, b) PROVE Shape'
<1>1. b \in Bodies
  BY BoundaryAssumption
<1>2. Post'
  BY SilencePost DEF FixPoint, Enter
<1> QED
  BY <1>1, <1>2, InsertTyped, BlockTyped DEF Shape, TypeOK, FixPoint, mapVars, Kinds

(* Removed constraints give back identifiers, and images to remove. *)
LEMMA FreedTyped ==
    ASSUME Shape, NEW r \in Ranks, NEW S \in SUBSET Sound
    PROVE  /\ IdsOf(S) \subseteq Ids
           /\ Scheduled(r, S) \in [Ranks -> SUBSET Ids]
           /\ Freed(r, S) => sparecid' \in [Ranks -> SUBSET Ids]
<1>1. \A c \in S : c.id \in Ids
  BY DEF Sound, Constraint
<1>2. IdsOf(S) \subseteq Ids
  BY <1>1 DEF IdsOf
<1>3. dbdrem[r] \in [Ranks -> SUBSET Ids]
  BY DEF Shape, TypeOK
<1>4. Scheduled(r, S) \in [Ranks -> SUBSET Ids]
  <2>1. ASSUME NEW q \in Ranks
        PROVE  dbdrem[r][q] \cup {c.id : c \in {d \in S : q \in d.ext}} \subseteq Ids
    BY <1>1, <1>3
  <2> QED
    BY <2>1 DEF Scheduled
<1>5. Freed(r, S) => sparecid' \in [Ranks -> SUBSET Ids]
  BY <1>2 DEF Freed, Shape, TypeOK
<1> QED
  BY <1>2, <1>4, <1>5

(* GlueNew gives an ext to the new contacts. *)
LEMMA GlueNewShape == ASSUME Shape, NEW r \in Ranks, GlueNew(r) PROVE Shape'
<1> DEFINE fresh == {c \in con[r] : c.new}
           data == [q \in Ranks |-> [NoData EXCEPT
                !.glue = {Image(c) : c \in {d \in fresh : q \in Beyond(r, d)}}]]
<1>1. con' = [con EXCEPT ![r] = (@ \ fresh) \cup {[c EXCEPT !.ext = Beyond(r, c)] : c \in fresh}]
  BY DEF GlueNew
<1>2. fresh \subseteq Sound /\ con[r] \subseteq Sound /\ \A c \in con[r] : r \notin c.ext
  BY DEF Shape, TypeOK
<1>3. ASSUME NEW c \in fresh
      PROVE  /\ Beyond(r, c) \subseteq Ranks \ {r} /\ Image(c) \in Images
             /\ [c EXCEPT !.ext = Beyond(r, c)] \in Sound
             /\ [c EXCEPT !.ext = Beyond(r, c)].ext = Beyond(r, c)
  BY <1>2, <1>3, BeyondTyped, ExtChanged, ImageTyped
<1> HIDE DEF fresh
<1>4. /\ con' \in [Ranks -> SUBSET Sound]
      /\ \A c \in con'[r] : r \notin c.ext
      /\ \A q \in Ranks \ {r} : con'[q] = con[q]
  <2>1. con'[r] = (con[r] \ fresh) \cup {[c EXCEPT !.ext = Beyond(r, c)] : c \in fresh}
    BY <1>1 DEF Shape
  <2>2. con'[r] \subseteq Sound /\ \A c \in con'[r] : r \notin c.ext
    BY <1>2, <1>3, <2>1
  <2> QED
    BY <1>1, <2>2 DEF Shape
<1>5. data \in Letters(r) /\ \A q \in Ranks : data[q].cons = {}
  <2>1. ASSUME NEW q \in Ranks
        PROVE  {Image(c) : c \in {d \in fresh : q \in Beyond(r, d)}} \subseteq Images
    BY <1>3
  <2>2. \A q \in Ranks : data[q] \in Data /\ data[q].cons = {}
    BY <2>1 DEF Data, NoData
  <2>3. data[r].glue = {} /\ data[r].update = {}
    BY <1>3 DEF NoData
  <2> QED
    BY <2>2, <2>3 DEF Letters
<1>6. Post'
  <2>1. Send(r, data)
    BY DEF GlueNew, fresh
  <2> QED
    BY <1>5, <2>1, SendKeepsPost DEF GlueNew, Enter
<1> QED
  BY <1>4, <1>6, BlockTyped DEF Shape, TypeOK, Lists, GlueNew, Leave, mapVars, idVars

(* Sparsify imports images, removes constraints and sends the removals. *)
LEMMA SparsifyShape == ASSUME Shape, NEW r \in Ranks, Sparsify(r) PROVE Shape'
<1>1. PICK del \in SUBSET {c \in con[r] : c.new} :
        /\ con' = [con EXCEPT ![r] = @ \ del]
        /\ Freed(r, del)
        /\ Send(r, [q \in Ranks |-> [NoData EXCEPT !.remove = Scheduled(r, del)[q]]])
  BY DEF Sparsify
<1>2. con[r] \subseteq Sound /\ del \subseteq Sound
  BY DEF Shape
<1>3. sparecid' \in [Ranks -> SUBSET Ids] /\ Scheduled(r, del) \in [Ranks -> SUBSET Ids]
  BY <1>1, <1>2, FreedTyped
<1>4. /\ con' \in [Ranks -> SUBSET Sound]
      /\ \A c \in con'[r] : r \notin c.ext
      /\ \A q \in Ranks \ {r} : con'[q] = con[q]
  BY <1>1 DEF Shape, TypeOK
<1>5. /\ conext' \in [Ranks -> SUBSET External]
      /\ \A e \in conext'[r] : e.rank # r
      /\ \A q \in Ranks \ {r} : conext'[q] = conext[q]
  BY ImportedTyped DEF Shape, TypeOK, Sparsify
<1>6. dbdrem' \in [Ranks -> [Ranks -> SUBSET Ids]]
  BY DEF Shape, TypeOK, Sparsify
<1>7. Post'
  <2> DEFINE data == [q \in Ranks |-> [NoData EXCEPT !.remove = Scheduled(r, del)[q]]]
  <2>1. data \in Letters(r) /\ \A q \in Ranks : data[q].cons = {}
    BY <1>3 DEF Letters, NoData, Data
  <2> QED
    BY <1>1, <2>1, SendKeepsPost DEF Sparsify, Enter
<1>8. bodcon' \in [Ranks -> Lists]
  <2>1. PICK out \in SUBSET con[r] :
            bodcon' = [bodcon EXCEPT ![r] = Unlisted(out, Enlisted(Glued(r), @))]
    BY DEF Sparsify
  <2>2. Enlisted(Glued(r), bodcon[r]) \in Lists
    BY ImagesTyped, ListsTyped
  <2> QED
    BY <2>1, <2>2, ImagesTyped, ListsTyped
<1> QED
  <2>1. /\ UNCHANGED <<phase, boot, mapVars, cid, pend>> /\ done' = done \cup {r}
        /\ failed' = failed \cup Clashing(Glued(r), bodcon[r])
    BY DEF Sparsify, Leave
  <2>2. failed' \subseteq failed \cup {"bodcon", "conext", "slave"}
    BY <2>1, FaultsTyped
  <2> QED
    BY <1>3, <1>4, <1>5, <1>6, <1>7, <1>8, <2>1, <2>2, BlockTyped DEF Shape, TypeOK, mapVars

(* Solve clears CON_NEW and updates the images. *)
LEMMA SolveShape == ASSUME Shape, NEW r \in Ranks, Solve(r) PROVE Shape'
<1>1. con' = [con EXCEPT ![r] = {[c EXCEPT !.new = FALSE] : c \in @}]
  BY DEF Solve
<1>2. ASSUME NEW c \in con[r]
      PROVE  /\ [c EXCEPT !.new = FALSE] \in Sound /\ c.id \in Ids
             /\ [c EXCEPT !.new = FALSE].ext = c.ext /\ r \notin c.ext
  <2>1. c \in Sound /\ r \notin c.ext
    BY DEF Shape, TypeOK
  <2> QED
    BY <2>1 DEF Sound, Constraint
<1>3. /\ con' \in [Ranks -> SUBSET Sound]
      /\ \A c \in con'[r] : r \notin c.ext
      /\ \A q \in Ranks \ {r} : con'[q] = con[q]
  <2>1. con'[r] = {[c EXCEPT !.new = FALSE] : c \in con[r]}
    BY <1>1 DEF Shape
  <2>2. con'[r] \subseteq Sound /\ \A c \in con'[r] : r \notin c.ext
    BY <1>2, <2>1
  <2> QED
    BY <1>1, <2>2 DEF Shape
<1>4. Post'
  <2> DEFINE data == [q \in Ranks |-> [NoData EXCEPT
                        !.update = {c.id : c \in {d \in con[r] : q \in d.ext}}]]
  <2>1. \A q \in Ranks : {c.id : c \in {d \in con[r] : q \in d.ext}} \subseteq Ids
    BY <1>2
  <2>2. \A q \in Ranks : data[q] \in Data /\ data[q].cons = {} /\ data[q].glue = {}
    BY <2>1 DEF NoData, Data
  <2>3. data[r].update = {}
    BY <1>2 DEF NoData
  <2>4. data \in Letters(r)
    BY <2>2, <2>3 DEF Letters
  <2>5. Send(r, data)
    BY DEF Solve
  <2> HIDE DEF data
  <2> QED
    BY <2>2, <2>4, <2>5, SendKeepsPost DEF Solve, Enter
<1>5. /\ conext' \in [Ranks -> SUBSET External]
      /\ \A e \in conext'[r] : e.rank # r
      /\ \A q \in Ranks \ {r} : conext'[q] = conext[q]
  BY DEF Shape, TypeOK, Solve
<1>6. bodcon' \in [Ranks -> Lists]
  <2>1. PICK out \in SUBSET conext[r] : bodcon' = [bodcon EXCEPT ![r] = Unlisted(out, @)]
    BY DEF Solve
  <2> QED
    BY <2>1, ImagesTyped, ListsTyped
<1> QED
  <2>1. /\ UNCHANGED <<phase, boot, mapVars, idVars, dbdrem, pend>> /\ done' = done \cup {r}
        /\ failed' = failed \cup Unknown(Got(r, "remove"), conext[r])
    BY DEF Solve, Leave, Lookup
  <2>2. failed' \subseteq failed \cup {"bodcon", "conext", "slave"}
    BY <2>1, FaultsTyped
  <2> QED
    BY <1>3, <1>4, <1>5, <1>6, <2>1, <2>2, BlockTyped DEF Shape, TypeOK, mapVars, idVars

(* UpdateConstraints removes contacts and schedules the removal of images. *)
LEMMA UpdateConstraintsShape ==
    ASSUME Shape, NEW r \in Ranks, UpdateConstraints(r) PROVE Shape'
<1>1. PICK gone \in SUBSET {c \in con[r] : c.kind = "CONTACT"} :
        /\ con' = [con EXCEPT ![r] = @ \ gone]
        /\ Freed(r, gone)
        /\ dbdrem' = [dbdrem EXCEPT ![r] = Scheduled(r, gone)]
        /\ Send(r, [q \in Ranks |-> [NoData EXCEPT
                !.update = {c.id : c \in {d \in con[r] \ gone : q \in d.ext}}]])
  BY DEF UpdateConstraints
<1>2. /\ con[r] \subseteq Sound /\ gone \subseteq Sound
      /\ \A c \in con[r] : r \notin c.ext /\ c.id \in Ids
  BY DEF Shape, TypeOK, Constraint
<1>3. sparecid' \in [Ranks -> SUBSET Ids] /\ Scheduled(r, gone) \in [Ranks -> SUBSET Ids]
  BY <1>1, <1>2, FreedTyped
<1>4. /\ con' \in [Ranks -> SUBSET Sound]
      /\ \A c \in con'[r] : r \notin c.ext
      /\ \A q \in Ranks \ {r} : con'[q] = con[q]
  BY <1>1 DEF Shape, TypeOK
<1>5. dbdrem' \in [Ranks -> [Ranks -> SUBSET Ids]]
  BY <1>1, <1>3 DEF Shape, TypeOK
<1>6. Post'
  <2> DEFINE data == [q \in Ranks |-> [NoData EXCEPT
                        !.update = {c.id : c \in {d \in con[r] \ gone : q \in d.ext}}]]
  <2>1. \A q \in Ranks : {c.id : c \in {d \in con[r] \ gone : q \in d.ext}} \subseteq Ids
    BY <1>2
  <2>2. \A q \in Ranks : data[q] \in Data /\ data[q].cons = {} /\ data[q].glue = {}
    BY <2>1 DEF NoData, Data
  <2>3. data[r].update = {}
    BY <1>2 DEF NoData
  <2>4. data \in Letters(r) /\ Send(r, data)
    BY <1>1, <2>2, <2>3 DEF Letters
  <2> HIDE DEF data
  <2> QED
    BY <2>2, <2>4, SendKeepsPost DEF UpdateConstraints, Enter
<1>7. bodcon' \in [Ranks -> Lists]
  <2>1. PICK out \in SUBSET con[r] : bodcon' = [bodcon EXCEPT ![r] = Unlisted(out, @)]
    BY DEF UpdateConstraints
  <2> QED
    BY <2>1, ImagesTyped, ListsTyped
<1> QED
  BY <1>3, <1>4, <1>5, <1>6, <1>7, BlockTyped DEF Shape, TypeOK, UpdateConstraints, Leave, mapVars

(* Only constraints of one body are transferred: a link never has a body that
   may crack, and a contact stays behind. *)
LEMMA TransferredTyped ==
    ASSUME NEW S \in SUBSET Sound, \A c \in S : \E b \in DOMAIN Parts : b \in BodiesOf(c)
    PROVE  /\ Transferred(S) \subseteq Sound
           /\ \A k \in Transferred(S) : k.ext = {} /\ \E c \in S : k.id = c.id
<1> SUFFICES ASSUME NEW c \in S, c.kind # "CONTACT"
    PROVE  /\ [c EXCEPT !.master = Parts[@], !.slave = Parts[@], !.ext = {}] \in Sound
           /\ [c EXCEPT !.master = Parts[@], !.slave = Parts[@], !.ext = {}].ext = {}
           /\ [c EXCEPT !.master = Parts[@], !.slave = Parts[@], !.ext = {}].id = c.id
  BY DEF Transferred
<1>1. c \in Sound /\ c \in Constraint
  BY DEF Sound
<1>2. PICK b \in DOMAIN Parts : b = c.master \/ b = c.slave
  BY DEF BodiesOf
<1>3. c.kind = "FIXPNT"
  <2>1. CASE c.kind = "RIGLNK"
    <3>1. <<c.master, c.slave>> \in Links
      BY <1>1, <2>1 DEF Sound
    <3>2. {<<c.master, c.slave>>[1], <<c.master, c.slave>>[2]} \cap DOMAIN Parts = {}
      BY <3>1, BoundaryAssumption
    <3> QED
      BY <1>2, <3>2
  <2> QED
    BY <1>1, <2>1 DEF Constraint, Kinds
<1>4. c.master = b /\ c.slave = b
  BY <1>1, <1>2, <1>3 DEF Sound
<1>5. Parts[b] \in Bodies
  BY BoundaryAssumption DEF Range
<1> QED
  BY <1>1, <1>3, <1>4, <1>5 DEF Sound, Constraint

(* Bodies that leave the domain take their constraints with them, or hand them
   to their parts. *)
LEMMA RemoveBodiesTyped ==
    ASSUME Shape, NEW r \in Ranks, NEW gone, NEW cracked \in SUBSET DOMAIN Parts,
           RemoveBodies(r, gone, cracked)
    PROVE  /\ sparecid' \in [Ranks -> SUBSET Ids]
           /\ con' \in [Ranks -> SUBSET Sound] /\ conext' \in [Ranks -> SUBSET External]
           /\ \A c \in con'[r] : r \notin c.ext
           /\ \A q \in Ranks \ {r} : con'[q] = con[q]
           /\ \A e \in conext'[r] : e.rank # r
           /\ \A q \in Ranks \ {r} : conext'[q] = conext[q]
           /\ bodcon' \in [Ranks -> Lists]
<1> DEFINE mine == UNION {Listed(r, b, con[r]) : b \in gone}
           images == UNION {Listed(r, b, conext[r]) : b \in gone}
           moved == UNION {Listed(r, b, mine) : b \in cracked}
           kept == Transferred(moved)
<1>1. mine \subseteq con[r] /\ moved \subseteq mine /\ con[r] \subseteq Sound /\ images \subseteq conext[r]
  BY DEF Listed, With, Shape
<1>2. \A c \in moved : \E b \in DOMAIN Parts : b \in BodiesOf(c)
  BY DEF Listed, With
<1> HIDE DEF moved
<1>3. kept \subseteq Sound /\ \A k \in kept : k.ext = {}
  BY <1>1, <1>2, TransferredTyped
<1> HIDE DEF mine, images, kept
<1>4. /\ con' = [con EXCEPT ![r] = (@ \ mine) \cup kept]
      /\ conext' = [conext EXCEPT ![r] = @ \ images]
      /\ bodcon' = [bodcon EXCEPT ![r] = Enlisted(kept, Unlisted(mine \cup images, @))]
      /\ sparecid' = [sparecid EXCEPT ![r] = @ \cup (IdsOf(mine) \ IdsOf(kept))]
  BY DEF RemoveBodies, mine, images, moved, kept
<1>5. IdsOf(mine) \subseteq Ids
  BY <1>1, FreedTyped
<1>6. sparecid' \in [Ranks -> SUBSET Ids]
  BY <1>4, <1>5 DEF Shape, TypeOK
<1>7. /\ con' \in [Ranks -> SUBSET Sound]
      /\ \A c \in con'[r] : r \notin c.ext
      /\ \A q \in Ranks \ {r} : con'[q] = con[q]
  BY <1>3, <1>4 DEF Shape, TypeOK
<1>8. /\ conext' \in [Ranks -> SUBSET External]
      /\ \A e \in conext'[r] : e.rank # r
      /\ \A q \in Ranks \ {r} : conext'[q] = conext[q]
  BY <1>4 DEF Shape, TypeOK
<1>9. bodcon' \in [Ranks -> Lists]
  <2>1. \A c \in kept : Image(c) \in Images
    BY <1>3, ImageTyped
  <2>2. Unlisted(mine \cup images, bodcon[r]) \in Lists
    BY <1>1, ImagesTyped, ListsTyped
  <2>3. Enlisted(kept, Unlisted(mine \cup images, bodcon[r])) \in Lists
    BY <2>1, <2>2, ListsTyped
  <2> QED
    BY <1>4, <2>3, ImagesTyped
<1> QED
  BY <1>6, <1>7, <1>8, <1>9

(* StepEnd sends names of bodies. *)
LEMMA StepEndShape == ASSUME Shape, NEW r \in Ranks, StepEnd(r) PROVE Shape'
<1>1. PICK out \in SUBSET {b \in Lost \cap alive : home[b] = r} :
      \E cracked \in SUBSET {b \in DOMAIN Parts \cap alive : home[b] = r /\ b \notin out} :
        /\ RemoveBodies(r, out \cup cracked, cracked)
        /\ Send(r, [q \in Ranks |-> [NoData EXCEPT
                !.bodies = out \cup cracked, !.parts = {Parts[b] : b \in cracked}]])
  BY DEF StepEnd
<1>2. PICK cracked \in SUBSET {b \in DOMAIN Parts \cap alive : home[b] = r /\ b \notin out} :
        /\ RemoveBodies(r, out \cup cracked, cracked)
        /\ Send(r, [q \in Ranks |-> [NoData EXCEPT
                !.bodies = out \cup cracked, !.parts = {Parts[b] : b \in cracked}]])
  BY <1>1
<1>3. /\ sparecid' \in [Ranks -> SUBSET Ids]
      /\ con' \in [Ranks -> SUBSET Sound] /\ conext' \in [Ranks -> SUBSET External]
      /\ \A c \in con'[r] : r \notin c.ext
      /\ \A q \in Ranks \ {r} : con'[q] = con[q]
      /\ \A e \in conext'[r] : e.rank # r
      /\ \A q \in Ranks \ {r} : conext'[q] = conext[q]
      /\ bodcon' \in [Ranks -> Lists]
  BY <1>2, RemoveBodiesTyped
<1>4. Post'
  <2> DEFINE data == [q \in Ranks |-> [NoData EXCEPT
                !.bodies = out \cup cracked, !.parts = {Parts[b] : b \in cracked}]]
  <2>1. out \cup cracked \subseteq Bodies /\ {Parts[b] : b \in cracked} \subseteq Bodies
    BY BoundaryAssumption DEF Range
  <2>2. data \in Letters(r) /\ \A q \in Ranks : data[q].cons = {}
    BY <2>1 DEF Letters, NoData, Data
  <2> QED
    BY <1>2, <2>2, SendKeepsPost DEF StepEnd, Enter
<1> QED
  <2>1. /\ UNCHANGED <<phase, boot, mapVars, cid, dbdrem, pend>> /\ done' = done \cup {r}
        /\ failed' = failed \cup Unknown(Got(r, "update"), conext[r])
    BY DEF StepEnd, Leave, Lookup
  <2>2. failed' \subseteq failed \cup {"bodcon", "conext", "slave"}
    BY <2>1, FaultsTyped
  <2> QED
    BY <1>3, <1>4, <2>1, <2>2, BlockTyped DEF Shape, TypeOK, mapVars

(* Manage removes what the others removed, and adds what they made. *)
LEMMA ManageShape == ASSUME Shape, NEW r \in Ranks, Manage(r) PROVE Shape'
<1> DEFINE gone == Got(r, "bodies")
           mine == UNION {Listed(r, b, con[r]) : b \in gone}
           images == UNION {Listed(r, b, conext[r]) : b \in gone}
           Maker(b) == CHOOSE q \in Ranks : b \in inbox[r][q].parts
<1>1. PICK broken \in SUBSET {c \in con[r] \ mine : c.kind \in {"RIGLNK", "FIXPNT"}} :
        /\ con' = [con EXCEPT ![r] = (@ \ mine) \ broken]
        /\ bodcon' = [bodcon EXCEPT ![r] = Unlisted(mine \cup images \cup broken, @)]
        /\ Freed(r, mine \cup broken)
        /\ dbdrem' = [dbdrem EXCEPT ![r] = Scheduled(r, broken)]
  BY DEF Manage
<1>2. /\ mine \subseteq con[r] /\ broken \subseteq con[r] /\ con[r] \subseteq Sound
      /\ images \subseteq conext[r]
  BY DEF Listed, With, Shape
<1> HIDE DEF mine, images
<1>3. sparecid' \in [Ranks -> SUBSET Ids] /\ Scheduled(r, broken) \in [Ranks -> SUBSET Ids]
  BY <1>1, <1>2, FreedTyped
<1>4. /\ con' \in [Ranks -> SUBSET Sound]
      /\ \A c \in con'[r] : r \notin c.ext
      /\ \A q \in Ranks \ {r} : con'[q] = con[q]
  BY <1>1 DEF Shape, TypeOK
<1>5. dbdrem' \in [Ranks -> [Ranks -> SUBSET Ids]]
  BY <1>1, <1>3 DEF Shape, TypeOK
<1>6. Got(r, "parts") \subseteq Bodies
  BY GotTyped
<1>7. \A b \in Got(r, "parts") : Maker(b) \in Ranks
  BY DEF Got
<1>8. /\ alive' = (alive \ gone) \cup Got(r, "parts")
      /\ home' = [b \in Bodies |-> IF b \in Got(r, "parts") THEN Maker(b) ELSE home[b]]
      /\ box' = [b \in Bodies |-> IF b \in Got(r, "parts") THEN {Maker(b)} ELSE box[b]]
      /\ conext' = [conext EXCEPT ![r] = @ \ images]
  BY DEF Manage, images
<1> HIDE DEF gone, Maker
<1>9. alive' \subseteq Bodies /\ home' \in [Bodies -> Ranks] /\ box' \in [Bodies -> SUBSET Ranks]
  BY <1>6, <1>7, <1>8 DEF Shape, TypeOK
<1>10. /\ conext' \in [Ranks -> SUBSET External]
       /\ \A e \in conext'[r] : e.rank # r
       /\ \A q \in Ranks \ {r} : conext'[q] = conext[q]
  BY <1>8 DEF Shape, TypeOK
<1>11. Post'
  BY SilencePost DEF Manage, Enter, Leave
<1>12. bodcon' \in [Ranks -> Lists]
  BY <1>1, <1>2, ImagesTyped, ListsTyped
<1> QED
  BY <1>3, <1>4, <1>5, <1>9, <1>10, <1>11, <1>12, BlockTyped DEF Shape, TypeOK, Manage, Leave

(* A callback removes one constraint, or returns. *)
LEMMA DeleteConstraintShape ==
    ASSUME Shape, NEW r \in Ranks, NEW c \in con[r], DeleteConstraint(r, c) PROVE Shape'
<1>1. sparecid' \in [Ranks -> SUBSET Ids]
  BY FreedTyped DEF DeleteConstraint, Shape
<1>2. /\ con' \in [Ranks -> SUBSET Sound]
      /\ \A d \in con'[r] : r \notin d.ext
      /\ \A q \in Ranks \ {r} : con'[q] = con[q]
  BY DEF DeleteConstraint, Shape, TypeOK
<1>3. Post'
  BY SilencePost DEF DeleteConstraint, Enter
<1>4. bodcon' \in [Ranks -> Lists]
  BY ImagesTyped, ListsTyped DEF DeleteConstraint
<1> QED
  BY <1>1, <1>2, <1>3, <1>4, BlockTyped DEF Shape, TypeOK, DeleteConstraint, mapVars

LEMMA CallbackReturnShape == ASSUME Shape, NEW r \in Ranks, CallbackReturn(r) PROVE Shape'
<1>1. Post'
  BY SilencePost DEF CallbackReturn, Enter, Leave
<1> QED
  BY <1>1, BlockTyped DEF Shape, TypeOK, Lists, CallbackReturn, Leave, mapVars, idVars

(* The exchange delivers what was sent. *)
LEMMA ExchangeShape == ASSUME Shape, Exchange PROVE Shape'
<1>1. done = Ranks /\ done # {} /\ phase # "partition"
  BY Counts DEF Exchange, Shape, Post
<1>2. phase' \in DOMAIN NextPhase' \cup {"partition"} /\ boot' \in BOOLEAN
  BY <1>1 DEF Exchange, NextPhase, Shape, TypeOK
<1>3. TypeOK'
  BY <1>2 DEF Shape, TypeOK, Exchange, mapVars, idVars
<1>4. Post'
  BY NoDataTyped DEF Shape, Post, Exchange, NoMail
<1> QED
  BY <1>3, <1>4 DEF Shape, Exchange

(* Every step keeps the state well formed. *)
LEMMA StepShape == Shape /\ [Next]_vars => Shape'
<1> SUFFICES ASSUME Shape, [Next]_vars PROVE Shape'
  OBVIOUS
<1>1. CASE UNCHANGED vars
  BY <1>1 DEF vars, Shape, TypeOK, Post, NextPhase
<1>2. ASSUME NEW r \in Ranks,
             \/ MigrateOut(r) \/ MigrateIn(r) \/ Settle(r)
             \/ PutPending(r) \/ DropPending(r)
             \/ \E t \in Touching : Detect(r, t)
             \/ GlueNew(r) \/ Sparsify(r) \/ Solve(r) \/ StepEnd(r) \/ Manage(r)
             \/ \E b \in Fixable : FixPoint(r, b)
             \/ \E c \in con[r] : DeleteConstraint(r, c)
             \/ CallbackReturn(r) \/ UpdateConstraints(r)
      PROVE  Shape'
  BY <1>2, MigrateOutShape, MigrateInShape, SettleShape, PutPendingShape, DropPendingShape,
     DetectShape, GlueNewShape, SparsifyShape, SolveShape, StepEndShape, ManageShape,
     FixPointShape, DeleteConstraintShape, CallbackReturnShape, UpdateConstraintsShape
<1> QED
  BY <1>1, <1>2, PartitionShape, ExchangeShape DEF Next

(* Types stay right, no constraint lists its own rank in ext and no rank holds
   an image of its own constraint, however many ranks exchange constraints. *)
THEOREM BoundaryTyped == Spec => []TypeOK
<1>1. Shape => TypeOK
  BY DEF Shape
<1> QED
  BY <1>1, InitShape, StepShape, PTL DEF Spec

-----------------------------------------------------------------------------
(* No two constraints of S share an identifier. *)
Apart(S) == \A c, d \in S : c.id = d.id => c = d

(* No rank owns, or is about to own, two constraints of one identifier. *)
Distinct == \A r \in Ranks : Apart(con[r] \cup Arriving(r))

IInv == Shape /\ Distinct /\ I!IInv

(* Relabelled constraints have the same identifiers. *)
LEMMA Relabelled ==
    ASSUME NEW S, NEW g, Apart(S), \A c \in S : g[c].id = c.id
    PROVE  Apart({g[c] : c \in S}) /\ IdsOf({g[c] : c \in S}) = IdsOf(S)
<1>1. Apart({g[c] : c \in S})
  BY DEF Apart
<1>2. IdsOf({g[c] : c \in S}) = IdsOf(S)
  <2>1. ASSUME NEW i PROVE i \in IdsOf({g[c] : c \in S}) <=> i \in IdsOf(S)
    BY DEF IdsOf
  <2> QED
    BY <2>1
<1> QED
  BY <1>1, <1>2

(* Removed constraints take their identifiers with them. *)
LEMMA IdsRemoved ==
    ASSUME NEW S, NEW T \in SUBSET S, Apart(S)
    PROVE  IdsOf(S \ T) = IdsOf(S) \ IdsOf(T)
<1> QED
  BY DEF IdsOf, Apart

(* Outside of balance and import no constraint is on its way. *)
LEMMA Quiet ==
    ASSUME Shape, Shape', phase \notin {"balance", "import"}, UNCHANGED phase
    PROVE  /\ \A q \in Ranks : Arriving(q) = {} /\ Arriving(q)' = {}
           /\ UNCHANGED Flying
<1>1. \A q \in Ranks : Arriving(q) = {}
  BY DEF Shape, Post, Arriving
<1>2. \A q \in Ranks : Arriving(q)' = {}
  BY DEF Shape, Post, Arriving
<1>3. UNCHANGED Flying
  BY <1>1, <1>2 DEF Flying
<1> QED
  BY <1>1, <1>2, <1>3

(* A rank that changes its own constraints leaves the others apart. *)
LEMMA QuietDistinct ==
    ASSUME Shape, Shape', Distinct, phase \notin {"balance", "import"}, UNCHANGED phase,
           NEW r \in Ranks, \A q \in Ranks \ {r} : con'[q] = con[q], Apart(con'[r])
    PROVE  Distinct'
<1>1. \A q \in Ranks : Arriving(q) = {} /\ Arriving(q)' = {}
  BY Quiet
<1>2. ASSUME NEW q \in Ranks PROVE Apart(con'[q] \cup Arriving(q)')
  BY <1>1 DEF Distinct
<1> QED
  BY <1>2 DEF Distinct, Apart

(* Constraints that only change their labels are a stutter of ConstraintIds. *)
LEMMA QuietStutter ==
    ASSUME Shape, Shape', phase \notin {"balance", "import"}, UNCHANGED <<phase, cid, sparecid>>,
           NEW r \in Ranks, \A q \in Ranks \ {r} : con'[q] = con[q],
           IdsOf(con'[r]) = IdsOf(con[r])
    PROVE  UNCHANGED I!vars
<1>1. UNCHANGED Flying
  BY Quiet
<1>2. UNCHANGED Live
  BY DEF Live
<1> QED
  BY <1>1, <1>2 DEF I!vars

(* Constraints that are removed give their identifiers back: a Remove. *)
LEMMA QuietRemove ==
    ASSUME Shape, Shape', phase \notin {"balance", "import"}, UNCHANGED <<phase, cid>>,
           NEW r \in Ranks, NEW S \in SUBSET IdsOf(con[r]),
           \A q \in Ranks \ {r} : con'[q] = con[q],
           IdsOf(con'[r]) = IdsOf(con[r]) \ S,
           sparecid' = [sparecid EXCEPT ![r] = @ \cup S]
    PROVE  [I!Next]_(I!vars)
<1>1. UNCHANGED Flying
  BY Quiet
<1>2. Live' = [Live EXCEPT ![r] = @ \ S] /\ S \in SUBSET Live[r]
  BY DEF Live
<1>3. CASE S = {}
  <2>1. UNCHANGED sparecid
    BY <1>3 DEF Shape, TypeOK
  <2>2. UNCHANGED Live
    BY <1>2, <1>3 DEF Live
  <2> QED
    BY <1>1, <2>1, <2>2 DEF I!vars
<1>4. CASE S # {}
  <2>1. I!Remove(r, S)
    BY <1>1, <1>2, <1>4 DEF I!Remove
  <2> QED
    BY <1>2, <2>1 DEF I!Next, I!Ranks, Ranks
<1> QED
  BY <1>3, <1>4

(* insert draws an identifier that nobody holds: an Insert. *)
LEMMA QuietInsert ==
    ASSUME IInv, Shape', phase \notin {"balance", "import"}, UNCHANGED phase,
           NEW r \in Ranks, NEW kind, NEW m, NEW s, NEW new, Insert(r, kind, m, s, new)
    PROVE  Distinct' /\ [I!Next]_(I!vars)
<1>1. PICK i \in Ids :
        /\ \/ /\ i \in sparecid[r] /\ \A j \in sparecid[r] : i <= j
              /\ sparecid' = [sparecid EXCEPT ![r] = @ \ {i}]
              /\ UNCHANGED cid
           \/ /\ sparecid[r] = {} /\ i = cid[r]
              /\ cid[r] + NCpu < UIntMax
              /\ cid' = [cid EXCEPT ![r] = @ + NCpu]
              /\ UNCHANGED sparecid
        /\ con' = [con EXCEPT ![r] = @ \cup {[id |-> i, kind |-> kind, master |-> m,
                                             slave |-> s, ext |-> {}, new |-> new]}]
  BY DEF Insert
<1> DEFINE c == [id |-> i, kind |-> kind, master |-> m, slave |-> s, ext |-> {}, new |-> new]
<1>2. c.id = i
  OBVIOUS
<1> HIDE DEF c
<1>3. con' = [con EXCEPT ![r] = @ \cup {c}]
  BY <1>1 DEF c
<1>4. con'[r] = con[r] \cup {c} /\ \A q \in Ranks \ {r} : con'[q] = con[q]
  BY <1>3 DEF IInv, Shape
<1>5. UNCHANGED Flying
  BY Quiet DEF IInv
<1>6. Live' = [Live EXCEPT ![r] = @ \cup {i}]
  <2>1. IdsOf(con'[r]) = IdsOf(con[r]) \cup {i}
    BY <1>2, <1>4 DEF IdsOf
  <2>2. Live' = [q \in Ranks |-> IdsOf(con'[q])]
    BY DEF Live
  <2>3. [Live EXCEPT ![r] = @ \cup {i}]
          = [q \in Ranks |-> IF q = r THEN IdsOf(con[r]) \cup {i} ELSE IdsOf(con[q])]
    BY DEF Live
  <2> QED
    BY <1>4, <2>1, <2>2, <2>3
<1>7. i \notin Live[r]
  <2>1. CASE i \in sparecid[r]
    BY <2>1, Counts DEF IInv, I!IInv, I!UniqueIds, I!Ranks, Ranks
  <2>2. CASE i = cid[r]
    <3>1. cid[r] \notin I!Held(r)
      BY Counts, I!FreshUnused DEF IInv, I!Ranks, Ranks
    <3> QED
      BY <2>2, <3>1 DEF I!Held
  <2> QED
    BY <1>1, <2>1, <2>2
<1>8. Apart(con'[r])
  <2>1. \A d \in con[r] : d.id # c.id
    BY <1>2, <1>7 DEF Live, IdsOf
  <2>2. Apart(con[r])
    BY DEF IInv, Distinct, Apart
  <2> QED
    BY <1>4, <2>1, <2>2 DEF Apart
<1>9. Distinct'
  BY <1>4, <1>8, QuietDistinct DEF IInv
<1>10. I!ReuseId(r) \/ I!FreshId(r)
  BY <1>1, <1>5, <1>6 DEF I!ReuseId, I!FreshId
<1>11. I!Next
  BY <1>10 DEF I!Next, I!Insert, I!Ranks, Ranks
<1> QED
  BY <1>9, <1>11

(* Steps of a rank that keep its identifiers. *)
LEMMA GlueNewRefines ==
    ASSUME IInv, Shape', NEW r \in Ranks, GlueNew(r)
    PROVE  Distinct' /\ [I!Next]_(I!vars)
<1> DEFINE fresh == {c \in con[r] : c.new}
           g == [c \in con[r] |-> IF c.new THEN [c EXCEPT !.ext = Beyond(r, c)] ELSE c]
<1>1. con'[r] = {g[c] : c \in con[r]} /\ \A q \in Ranks \ {r} : con'[q] = con[q]
  <2>1. con' = [con EXCEPT ![r] = (@ \ fresh) \cup {[c EXCEPT !.ext = Beyond(r, c)] : c \in fresh}]
    BY DEF GlueNew
  <2>2. {g[c] : c \in con[r]} = (con[r] \ fresh) \cup {[c EXCEPT !.ext = Beyond(r, c)] : c \in fresh}
    OBVIOUS
  <2> QED
    BY <2>1, <2>2 DEF IInv, Shape
<1>2. \A c \in con[r] : g[c].id = c.id
  BY DEF IInv, Shape, Sound, Constraint
<1>3. Apart(con[r])
  BY DEF IInv, Distinct, Apart
<1> HIDE DEF g
<1>4. Apart(con'[r]) /\ IdsOf(con'[r]) = IdsOf(con[r])
  BY <1>1, <1>2, <1>3, Relabelled
<1>5. phase = "detect" /\ UNCHANGED <<phase, cid, sparecid>>
  BY DEF GlueNew, Enter, idVars
<1> QED
  BY <1>1, <1>4, <1>5, QuietDistinct, QuietStutter DEF IInv

LEMMA SolveRefines ==
    ASSUME IInv, Shape', NEW r \in Ranks, Solve(r)
    PROVE  Distinct' /\ [I!Next]_(I!vars)
<1> DEFINE g == [c \in con[r] |-> [c EXCEPT !.new = FALSE]]
<1>1. con'[r] = {g[c] : c \in con[r]} /\ \A q \in Ranks \ {r} : con'[q] = con[q]
  BY DEF Solve, IInv, Shape
<1>2. \A c \in con[r] : g[c].id = c.id
  BY DEF IInv, Shape, Sound, Constraint
<1>3. Apart(con[r])
  BY DEF IInv, Distinct, Apart
<1> HIDE DEF g
<1>4. Apart(con'[r]) /\ IdsOf(con'[r]) = IdsOf(con[r])
  BY <1>1, <1>2, <1>3, Relabelled
<1>5. phase = "solve" /\ UNCHANGED <<phase, cid, sparecid>>
  BY DEF Solve, Enter, idVars
<1> QED
  BY <1>1, <1>4, <1>5, QuietDistinct, QuietStutter DEF IInv

LEMMA NoChangeRefines ==
    ASSUME IInv, Shape', phase \notin {"balance", "import"}, UNCHANGED <<phase, idVars, con>>
    PROVE  Distinct' /\ [I!Next]_(I!vars)
<1>1. \A q \in Ranks : Arriving(q) = {} /\ Arriving(q)' = {}
  BY Quiet DEF IInv
<1>2. UNCHANGED <<Live, Flying>>
  BY Quiet DEF IInv, Live
<1> QED
  BY <1>1, <1>2 DEF IInv, Distinct, I!vars, idVars

(* Steps of a rank that remove constraints of its own. *)
LEMMA RemovalRefines ==
    ASSUME IInv, Shape', phase \notin {"balance", "import"}, UNCHANGED <<phase, cid>>,
           NEW r \in Ranks, NEW S \in SUBSET con[r],
           con' = [con EXCEPT ![r] = @ \ S], Freed(r, S)
    PROVE  Distinct' /\ [I!Next]_(I!vars)
<1>1. con'[r] = con[r] \ S /\ \A q \in Ranks \ {r} : con'[q] = con[q]
  BY DEF IInv, Shape
<1>2. Apart(con[r])
  BY DEF IInv, Distinct, Apart
<1>3. Apart(con'[r]) /\ IdsOf(con'[r]) = IdsOf(con[r]) \ IdsOf(S)
  BY <1>1, <1>2, IdsRemoved DEF Apart
<1>4. IdsOf(S) \subseteq IdsOf(con[r])
  BY DEF IdsOf
<1> QED
  BY <1>1, <1>3, <1>4, QuietDistinct, QuietRemove DEF IInv, Freed

LEMMA StepEndRefines ==
    ASSUME IInv, Shape', NEW r \in Ranks, StepEnd(r)
    PROVE  Distinct' /\ [I!Next]_(I!vars)
<1>1. PICK gone, cracked : RemoveBodies(r, gone, cracked) /\ cracked \subseteq gone
  <2>1. PICK out, broken : RemoveBodies(r, out \cup broken, broken)
    BY DEF StepEnd
  <2> QED
    BY <2>1
<1> DEFINE mine == UNION {Listed(r, b, con[r]) : b \in gone}
           moved == UNION {Listed(r, b, mine) : b \in cracked}
           kept == Transferred(moved)
           put == [c \in con[r] |-> [c EXCEPT !.master = Parts[@], !.slave = Parts[@], !.ext = {}]]
           last == {d \in moved : d.kind # "CONTACT"}
           left == (con[r] \ mine) \cup last
           g == [c \in left |-> IF c \in last THEN put[c] ELSE c]
<1>2. /\ con' = [con EXCEPT ![r] = (@ \ mine) \cup kept]
      /\ sparecid' = [sparecid EXCEPT ![r] = @ \cup (IdsOf(mine) \ IdsOf(kept))]
  BY <1>1 DEF RemoveBodies
<1>3. mine \subseteq con[r] /\ moved \subseteq mine /\ last \subseteq moved
  BY DEF Listed, With
<1>4. Apart(con[r]) /\ \A c \in con[r] : put[c].id = c.id
  BY DEF IInv, Distinct, Apart, Shape, Sound, Constraint
<1>5. kept = {put[c] : c \in last}
  BY <1>3 DEF Transferred
<1> HIDE DEF mine, moved, kept, put, last
<1>6. left \subseteq con[r] /\ Apart(left) /\ \A c \in left : g[c].id = c.id
  BY <1>3, <1>4 DEF Apart
<1>7. con'[r] = {g[c] : c \in left} /\ \A q \in Ranks \ {r} : con'[q] = con[q]
  <2>1. {g[c] : c \in left} = (con[r] \ mine) \cup kept
    BY <1>3, <1>5
  <2> QED
    BY <1>2, <2>1 DEF IInv, Shape
<1>8. IdsOf(left) = IdsOf(con[r]) \ (IdsOf(mine) \ IdsOf(kept))
  <2>1. IdsOf(kept) = IdsOf(last)
    BY <1>3, <1>4, <1>5 DEF IdsOf
  <2>2. left = con[r] \ (mine \ last)
    BY <1>3
  <2>3. IdsOf(left) = IdsOf(con[r]) \ IdsOf(mine \ last)
    BY <1>3, <1>4, <2>2, IdsRemoved
  <2>4. IdsOf(mine \ last) = IdsOf(mine) \ IdsOf(last)
    BY <1>3, <1>4, IdsRemoved DEF Apart
  <2> QED
    BY <2>1, <2>3, <2>4
<1> HIDE DEF left, g
<1>9. Apart(con'[r]) /\ IdsOf(con'[r]) = IdsOf(con[r]) \ (IdsOf(mine) \ IdsOf(kept))
  <2>1. Apart({g[c] : c \in left}) /\ IdsOf({g[c] : c \in left}) = IdsOf(left)
    BY <1>6, Relabelled
  <2> QED
    BY <1>7, <1>8, <2>1
<1>10. IdsOf(mine) \ IdsOf(kept) \subseteq IdsOf(con[r])
  BY <1>3 DEF IdsOf
<1>11. phase = "finish" /\ UNCHANGED <<phase, cid>>
  BY DEF StepEnd, Enter
<1> QED
  BY <1>2, <1>7, <1>9, <1>10, <1>11, QuietDistinct, QuietRemove DEF IInv

(* Steps in which nothing happens to identifiers. *)
LEMMA PartitionRefines ==
    ASSUME IInv, Partition
    PROVE  Distinct' /\ [I!Next]_(I!vars)
<1>1. \A q \in Ranks : Arriving(q) = {} /\ Arriving(q)' = {}
  BY DEF IInv, Shape, Post, Partition, Arriving
<1>2. UNCHANGED <<con, cid, sparecid>>
  BY DEF Partition, idVars
<1>3. UNCHANGED <<Live, Flying>>
  BY <1>1, <1>2 DEF Live, Flying
<1> QED
  BY <1>1, <1>2, <1>3 DEF IInv, Distinct, I!vars

(* What is delivered is what was on its way. *)
LEMMA ExchangeRefines ==
    ASSUME IInv, Exchange
    PROVE  Distinct' /\ [I!Next]_(I!vars)
<1>1. done = Ranks /\ done' = {} /\ outbox' = NoMail
      /\ inbox' = [r \in Ranks |-> [q \in Ranks |-> outbox[q][r]]]
  BY DEF Exchange
<1>2. ASSUME NEW q \in Ranks PROVE Arriving(q)' = Arriving(q)
  <2>1. \A c : c \in Arriving(q) <=> \E p \in Ranks : c \in outbox[p][q].cons
    BY <1>1 DEF Arriving
  <2>2. \A p \in Ranks : outbox'[p][q].cons = {} /\ inbox'[q][p] = outbox[p][q]
    BY <1>1, NoDataTyped DEF NoMail
  <2>3. CASE phase = "balance"
    <3>1. phase' = "import" /\ q \notin done'
      BY <1>1, <2>3 DEF Exchange, NextPhase
    <3>2. \A c : c \in Arriving(q)' <=> \E p \in Ranks : \/ c \in outbox'[p][q].cons
                                                     \/ c \in inbox'[q][p].cons
      BY <3>1 DEF Arriving
    <3>3. \A c : c \in Arriving(q)' <=> c \in Arriving(q)
      BY <2>1, <2>2, <3>2
    <3> QED
      BY <3>3 DEF Arriving
  <2>4. CASE phase # "balance"
    <3>1. \A p \in Ranks : outbox[p][q].cons = {}
      BY <2>4 DEF IInv, Shape, Post
    <3>2. \A c : c \in Arriving(q)' => \E p \in Ranks : \/ c \in outbox'[p][q].cons
                                                    \/ c \in inbox'[q][p].cons
      BY DEF Arriving
    <3>3. \A c : c \notin Arriving(q)' /\ c \notin Arriving(q)
      BY <2>1, <2>2, <3>1, <3>2
    <3> QED
      BY <3>3 DEF Arriving
  <2> QED
    BY <2>3, <2>4
<1>3. UNCHANGED <<con, cid, sparecid>>
  BY DEF Exchange, idVars
<1>4. UNCHANGED <<Live, Flying>>
  BY <1>2, <1>3 DEF Live, Flying
<1> QED
  BY <1>2, <1>3, <1>4 DEF IInv, Distinct, I!vars

(* Constraints that leave are packed: a Pack, if any does. *)
LEMMA MigrateOutRefines ==
    ASSUME IInv, NEW r \in Ranks, MigrateOut(r)
    PROVE  Distinct' /\ [I!Next]_(I!vars)
<1>1. PICK dest \in [con[r] -> Ranks] :
        /\ con' = [con EXCEPT ![r] = {c \in @ : dest[c] = r}]
        /\ Send(r, [q \in Ranks |-> [NoData EXCEPT
                !.cons = {c \in con[r] : dest[c] = q /\ q # r},
                !.remove = dbdrem[r][q]]])
  BY DEF MigrateOut
<1> DEFINE To(q) == {c \in con[r] : dest[c] = q /\ q # r}
           gone == {c \in con[r] : dest[c] # r}
           S == IdsOf(gone)
           Of(i) == CHOOSE c \in gone : c.id = i
           where == [i \in S |-> dest[Of(i)]]
<1>2. phase = "balance" /\ r \notin done /\ UNCHANGED <<phase, cid, sparecid>>
  BY DEF MigrateOut, Enter, idVars
<1>3. /\ con'[r] = con[r] \ gone
      /\ \A q \in Ranks \ {r} : con'[q] = con[q]
  BY <1>1 DEF IInv, Shape
<1>4. ASSUME NEW q \in Ranks PROVE Arriving(q)' = Arriving(q) \cup To(q)
  <2>1. /\ Arriving(q) = UNION {outbox[p][q].cons : p \in Ranks}
        /\ Arriving(q)' = UNION {outbox'[p][q].cons : p \in Ranks}
    BY <1>2 DEF Arriving
  <2>2. outbox[r][q].cons = {}
    BY <1>2 DEF IInv, Shape, Post
  <2>3. outbox'[r][q].cons = To(q) /\ \A p \in Ranks \ {r} : outbox'[p][q] = outbox[p][q]
    BY <1>1 DEF Send, NoData, IInv, Shape, Post
  <2> HIDE DEF To
  <2> QED
    BY <2>1, <2>2, <2>3
<1>5. Apart(con[r]) /\ gone \subseteq con[r] /\ S \subseteq Live[r]
  BY DEF IInv, Distinct, Apart, IdsOf, Live
<1>6. ASSUME NEW c \in gone PROVE Of(c.id) = c /\ c.id \in S
  <2>1. c.id \in S
    BY DEF IdsOf
  <2>2. Of(c.id) \in gone /\ Of(c.id).id = c.id
    OBVIOUS
  <2> QED
    BY <1>5, <2>1, <2>2 DEF Apart
<1>7. where \in [S -> Ranks \ {r}]
  <2>1. ASSUME NEW i \in S PROVE where[i] \in Ranks \ {r}
    <3>1. PICK c \in gone : c.id = i
      BY DEF IdsOf
    <3> QED
      BY <1>6, <3>1
  <2> QED
    BY <2>1
<1>8. ASSUME NEW q \in Ranks PROVE IdsOf(To(q)) = {i \in S : where[i] = q}
  <2>1. ASSUME NEW c \in To(q) PROVE c.id \in S /\ where[c.id] = q
    <3>1. c \in gone /\ dest[c] = q
      OBVIOUS
    <3> QED
      BY <1>6, <3>1
  <2>2. ASSUME NEW i \in S, where[i] = q PROVE i \in IdsOf(To(q))
    <3>1. PICK c \in gone : c.id = i
      BY DEF IdsOf
    <3>2. dest[c] = q
      <4>1. Of(i) = c
        BY <1>6, <3>1
      <4>2. where[i] = dest[Of(i)]
        OBVIOUS
      <4> QED
        BY <2>2, <4>1, <4>2
    <3>3. c \in To(q)
      BY <3>2
    <3> QED
      BY <3>1, <3>3 DEF IdsOf
  <2>3. IdsOf(To(q)) \subseteq {i \in S : where[i] = q}
    BY <2>1 DEF IdsOf
  <2> QED
    BY <2>2, <2>3
<1>9. Live' = [Live EXCEPT ![r] = @ \ S]
  <2>1. IdsOf(con'[r]) = IdsOf(con[r]) \ S
    BY <1>3, <1>5, IdsRemoved
  <2>2. Live' = [q \in Ranks |-> IdsOf(con'[q])]
    BY DEF Live
  <2>3. [Live EXCEPT ![r] = @ \ S]
          = [q \in Ranks |-> IF q = r THEN IdsOf(con[r]) \ S ELSE IdsOf(con[q])]
    BY DEF Live
  <2> HIDE DEF S
  <2> QED
    BY <1>3, <2>1, <2>2, <2>3
<1>10. Flying' = [q \in Ranks |-> Flying[q] \cup {i \in S : where[i] = q}]
  <2>1. ASSUME NEW q \in Ranks
        PROVE  IdsOf(Arriving(q)') = Flying[q] \cup {i \in S : where[i] = q}
    <3>1. IdsOf(Arriving(q) \cup To(q)) = IdsOf(Arriving(q)) \cup IdsOf(To(q))
      BY DEF IdsOf
    <3>2. Flying[q] = IdsOf(Arriving(q))
      BY DEF Flying
    <3> QED
      BY <1>4, <1>8, <3>1, <3>2
  <2>2. Flying' = [q \in Ranks |-> IdsOf(Arriving(q)')]
    BY DEF Flying
  <2> HIDE DEF S, where
  <2> QED
    BY <2>1, <2>2
<1>11. [I!Next]_(I!vars)
  <2>1. CASE S = {}
    <3>1. Live' = Live
      BY <1>9, <2>1 DEF Live
    <3>2. Flying' = Flying
      BY <1>10, <2>1 DEF Flying
    <3> QED
      BY <1>2, <3>1, <3>2 DEF I!vars
  <2>2. CASE S # {}
    <3> HIDE DEF S, where
    <3>1. I!Pack(r, S, where)
      BY <1>2, <1>5, <1>9, <1>10, <2>2 DEF I!Pack, I!Ranks, Ranks
    <3>2. where \in [S -> I!Ranks \ {r}] /\ r \in I!Ranks
      BY <1>7 DEF I!Ranks, Ranks
    <3> QED
      BY <1>5, <3>1, <3>2 DEF I!Next
  <2> QED
    BY <2>1, <2>2
<1>12. Distinct'
  <2>1. ASSUME NEW q \in Ranks PROVE Apart(con'[q] \cup Arriving(q)')
    <3>1. CASE q = r
      <4>1. To(q) = {}
        BY <3>1
      <4> QED
        BY <1>3, <1>4, <3>1, <4>1 DEF IInv, Distinct, Apart
    <3>2. CASE q # r
      <4>1. Apart(con[q] \cup Arriving(q))
        BY DEF IInv, Distinct
      <4>2. Live[r] \cap (Live[q] \cup Flying[q]) = {}
        BY <3>2, Counts DEF IInv, I!IInv, I!UniqueIds, I!Ranks, Ranks
      <4>3. \A c \in con[r] : \A d \in con[q] \cup Arriving(q) : c.id # d.id
        BY <4>2 DEF Live, Flying, IdsOf
      <4>4. To(q) \subseteq con[r]
        OBVIOUS
      <4> HIDE DEF To
      <4>5. con'[q] \cup Arriving(q)' = (con[q] \cup Arriving(q)) \cup To(q)
        BY <1>3, <1>4, <3>2
      <4> QED
        BY <1>5, <4>1, <4>3, <4>4, <4>5 DEF Apart
    <3> QED
      BY <3>1, <3>2
  <2>2. \A q \in Ranks : Apart(con'[q] \cup Arriving(q)')
    BY <2>1
  <2> QED
    BY <2>2 DEF Distinct, Apart
<1> QED
  BY <1>11, <1>12

(* Constraints that came are unpacked: an Unpack, if any did. *)
LEMMA MigrateInRefines ==
    ASSUME IInv, Shape', NEW r \in Ranks, MigrateIn(r)
    PROVE  Distinct' /\ [I!Next]_(I!vars)
<1> DEFINE came == Got(r, "cons")
           own == con[r] \cup {[c EXCEPT !.ext = @ \ {r}] : c \in came}
           all == con[r] \cup came
           strip == [c \in came |-> [c EXCEPT !.ext = @ \ {r}]]
           g == [c \in own |-> [c EXCEPT !.ext = Beyond(r, c)]]
<1>1. phase = "import" /\ r \notin done /\ done' = done \cup {r}
      /\ UNCHANGED <<phase, cid, sparecid, inbox>>
  BY DEF MigrateIn, Enter, Leave, idVars
<1>2. /\ con'[r] = {g[c] : c \in own}
      /\ \A q \in Ranks \ {r} : con'[q] = con[q]
  BY DEF MigrateIn, IInv, Shape
<1>3. \A p, q \in Ranks : outbox[p][q].cons = {} /\ outbox'[p][q].cons = {}
  BY <1>1 DEF IInv, Shape, Post
<1>4. Arriving(r) = came /\ Arriving(r)' = {}
      /\ \A q \in Ranks \ {r} : Arriving(q)' = Arriving(q)
  <2>1. Arriving(r) = came
    BY <1>1, <1>3 DEF Arriving, Got
  <2>2. Arriving(r)' = {}
    BY <1>1, <1>3 DEF Arriving
  <2>3. ASSUME NEW q \in Ranks \ {r} PROVE Arriving(q)' = Arriving(q)
    <3>1. q \in done' <=> q \in done
      BY <1>1
    <3> QED
      BY <1>1, <1>3, <3>1 DEF Arriving
  <2> QED
    BY <2>1, <2>2, <2>3
<1>5. Apart(all)
  BY <1>4 DEF IInv, Distinct
<1>6. /\ \A c \in con[r] : c.id \in Ids
      /\ came \subseteq Sound /\ con[r] \subseteq Sound
      /\ \A c \in came : strip[c].id = c.id /\ strip[c] \in Sound
  <2>1. came \subseteq Sound /\ con[r] \subseteq Sound
    BY GotTyped DEF IInv, Shape
  <2> HIDE DEF came
  <2>2. \A c \in came : strip[c].id = c.id /\ strip[c] \in Sound
    BY <2>1, ZenonT(60) DEF Sound, Constraint
  <2> QED
    BY <2>1, <2>2 DEF Sound, Constraint
<1>7. own = con[r] \cup {strip[c] : c \in came}
  OBVIOUS
<1> HIDE DEF came, strip
<1>8. Apart(own) /\ IdsOf(own) = IdsOf(con[r]) \cup IdsOf(came)
  <2>1. IdsOf(own) = IdsOf(con[r]) \cup IdsOf(came)
    BY <1>6, <1>7 DEF IdsOf
  <2>2. ASSUME NEW c \in con[r], NEW d \in came PROVE c.id # d.id
    <3>1. Live[r] \cap Flying[r] = {}
      BY Counts DEF IInv, I!IInv, I!UniqueIds, I!Ranks, Ranks
    <3> QED
      BY <1>4, <3>1 DEF Live, Flying, IdsOf
  <2>3. Apart(own)
    BY <1>5, <1>6, <1>7, <2>2 DEF Apart
  <2> QED
    BY <2>1, <2>3
<1>9. \A c \in own : g[c].id = c.id
  <2>1. own \subseteq Sound
    BY <1>6, <1>7
  <2> HIDE DEF own
  <2> QED
    BY <2>1 DEF Sound, Constraint
<1> HIDE DEF own, g
<1>10. Apart(con'[r]) /\ IdsOf(con'[r]) = IdsOf(con[r]) \cup IdsOf(came)
  BY <1>2, <1>8, <1>9, Relabelled
<1>11. Distinct'
  <2>1. ASSUME NEW q \in Ranks PROVE Apart(con'[q] \cup Arriving(q)')
    BY <1>2, <1>4, <1>10 DEF IInv, Distinct, Apart
  <2>2. \A q \in Ranks : Apart(con'[q] \cup Arriving(q)')
    BY <2>1
  <2> QED
    BY <2>2 DEF Distinct, Apart
<1>12. Live' = [Live EXCEPT ![r] = @ \cup Flying[r]]
  <2>1. Live' = [q \in Ranks |-> IdsOf(con'[q])]
    BY DEF Live
  <2>2. [Live EXCEPT ![r] = @ \cup Flying[r]]
          = [q \in Ranks |-> IF q = r THEN IdsOf(con[r]) \cup IdsOf(came) ELSE IdsOf(con[q])]
    BY <1>4 DEF Live, Flying
  <2> QED
    BY <1>2, <1>10, <2>1, <2>2
<1>13. Flying' = [Flying EXCEPT ![r] = {}]
  <2>1. Flying' = [q \in Ranks |-> IdsOf(Arriving(q)')]
    BY DEF Flying
  <2>2. IdsOf({}) = {}
    BY DEF IdsOf
  <2>3. [Flying EXCEPT ![r] = {}] = [q \in Ranks |-> IF q = r THEN {} ELSE IdsOf(Arriving(q))]
    BY DEF Flying
  <2> QED
    BY <1>4, <2>1, <2>2, <2>3
<1>14. CASE Flying[r] = {}
  <2>1. Live' = Live /\ Flying' = Flying
    BY <1>12, <1>13, <1>14 DEF Live, Flying
  <2> QED
    BY <1>1, <1>11, <2>1 DEF I!vars
<1>15. CASE Flying[r] # {}
  <2>1. I!Unpack(r)
    BY <1>1, <1>12, <1>13, <1>15 DEF I!Unpack
  <2> QED
    BY <1>11, <2>1 DEF I!Next, I!Ranks, Ranks
<1> QED
  BY <1>14, <1>15

(* Every step of the domain is a step of ConstraintIds, or a stutter. *)
LEMMA StepRefines ==
    ASSUME IInv, [Next]_vars
    PROVE  Distinct' /\ [I!Next]_(I!vars)
<1>0. Shape'
  BY StepShape DEF IInv
<1>1. CASE UNCHANGED vars
  BY <1>1 DEF vars, IInv, Distinct, Apart, Arriving, I!vars, Live, Flying
<1>2. ASSUME NEW r \in Ranks,
             \/ PutPending(r)
             \/ \E t \in Touching : Detect(r, t)
             \/ \E b \in Fixable : FixPoint(r, b)
      PROVE  Distinct' /\ [I!Next]_(I!vars)
  <2>1. \/ \E kind, m, s, new : Insert(r, kind, m, s, new)
        \/ UNCHANGED <<idVars, con>>
    BY <1>2 DEF PutPending, Detect, FixPoint
  <2>2. phase \notin {"balance", "import"} /\ UNCHANGED phase
    BY <1>2 DEF PutPending, Detect, FixPoint, Enter
  <2> QED
    BY <1>0, <2>1, <2>2, QuietInsert, NoChangeRefines
<1>3. ASSUME NEW r \in Ranks, Settle(r) \/ DropPending(r) \/ CallbackReturn(r)
      PROVE  Distinct' /\ [I!Next]_(I!vars)
  BY <1>0, <1>3, NoChangeRefines DEF Settle, DropPending, CallbackReturn, Enter
<1>4. ASSUME NEW r \in Ranks, Sparsify(r) \/ UpdateConstraints(r)
      PROVE  Distinct' /\ [I!Next]_(I!vars)
  <2>1. /\ \E S \in SUBSET con[r] : con' = [con EXCEPT ![r] = @ \ S] /\ Freed(r, S)
        /\ phase \notin {"balance", "import"} /\ UNCHANGED <<phase, cid>>
    BY <1>4 DEF Sparsify, UpdateConstraints, Enter
  <2> QED
    BY <1>0, <2>1, RemovalRefines
<1>5. ASSUME NEW r \in Ranks, Manage(r)
      PROVE  Distinct' /\ [I!Next]_(I!vars)
  <2> DEFINE mine == UNION {Listed(r, b, con[r]) : b \in Got(r, "bodies")}
  <2>1. PICK broken \in SUBSET {c \in con[r] \ mine : c.kind \in {"RIGLNK", "FIXPNT"}} :
          con' = [con EXCEPT ![r] = (@ \ mine) \ broken] /\ Freed(r, mine \cup broken)
    BY <1>5 DEF Manage
  <2>2. mine \cup broken \in SUBSET con[r]
    BY DEF Listed, With
  <2> HIDE DEF mine
  <2>3. con' = [con EXCEPT ![r] = @ \ (mine \cup broken)]
    <3>1. (con[r] \ mine) \ broken = con[r] \ (mine \cup broken)
      OBVIOUS
    <3> QED
      BY <2>1, <3>1 DEF IInv, Shape
  <2>4. phase \notin {"balance", "import"} /\ UNCHANGED <<phase, cid>>
    BY <1>5 DEF Manage, Enter
  <2> QED
    BY <1>0, <2>1, <2>2, <2>3, <2>4, RemovalRefines
<1>6. ASSUME NEW r \in Ranks, NEW c \in con[r], DeleteConstraint(r, c)
      PROVE  Distinct' /\ [I!Next]_(I!vars)
  <2>1. {c} \in SUBSET con[r]
    OBVIOUS
  <2> QED
    BY <1>0, <1>6, <2>1, RemovalRefines DEF DeleteConstraint, Enter
<1>7. ASSUME NEW r \in Ranks, MigrateOut(r) \/ MigrateIn(r) \/ GlueNew(r) \/ Solve(r) \/ StepEnd(r)
      PROVE  Distinct' /\ [I!Next]_(I!vars)
  BY <1>0, <1>7, MigrateOutRefines, MigrateInRefines, GlueNewRefines, SolveRefines, StepEndRefines
<1> QED
  BY <1>1, <1>2, <1>3, <1>4, <1>5, <1>6, <1>7, PartitionRefines, ExchangeRefines DEF Next

(* Initially nothing is issued. *)
LEMMA InitRefines == Init => Distinct /\ I!Init
<1> SUFFICES ASSUME Init PROVE Distinct /\ I!Init
  OBVIOUS
<1>1. \A q \in Ranks : con[q] = {} /\ Arriving(q) = {}
  BY NoDataTyped DEF Init, NoMail, Arriving
<1>2. IdsOf({}) = {}
  BY DEF IdsOf
<1>3. Live = [r \in Ranks |-> {}] /\ Flying = [r \in Ranks |-> {}]
  BY <1>1, <1>2 DEF Live, Flying
<1> QED
  BY <1>1, <1>3 DEF Init, I!Init, I!Ranks, Ranks, Distinct, Apart

(* IInv is an inductive invariant of the domain. *)
LEMMA BoundaryInductive == Spec => []IInv
<1>1. Init => IInv
  BY InitShape, InitRefines, Counts, I!InitInv DEF IInv
<1>2. IInv /\ [Next]_vars => IInv'
  <2>1. I!IInv /\ [I!Next]_(I!vars) => I!IInv'
    BY Counts, I!StepInv
  <2> QED
    BY <2>1, StepShape, StepRefines DEF IInv
<1> QED
  BY <1>1, <1>2, PTL DEF Spec

(* The two instances of ConstraintIds are the same. *)
LEMMA SameInstance ==
    /\ I!Init => Identifiers!Init
    /\ [I!Next]_(I!vars) => [Identifiers!Next]_(Identifiers!vars)
<1>1. I!Init => Identifiers!Init
  BY DEF I!Init, Identifiers!Init, I!Ranks, Identifiers!Ranks
<1>2. [I!Next]_(I!vars) => [Identifiers!Next]_(Identifiers!vars)
  BY DEF I!Next, Identifiers!Next, I!vars, Identifiers!vars, I!Ranks, Identifiers!Ranks,
         I!Insert, Identifiers!Insert, I!ReuseId, Identifiers!ReuseId, I!FreshId,
         Identifiers!FreshId, I!Remove, Identifiers!Remove, I!Pack, Identifiers!Pack,
         I!Unpack, Identifiers!Unpack
<1> QED
  BY <1>1, <1>2

(* The domain implements ConstraintIds for any number of ranks, bodies and
   constraints: whatever the phases do, an identifier is drawn fresh or from
   the spare ones, travels with its constraint, and is given back once. *)
THEOREM IdentifiersImplemented == Spec => IdentifiersRefined
<1>1. Init => Identifiers!Init
  BY InitRefines, SameInstance
<1>2. IInv /\ [Next]_vars => [Identifiers!Next]_(Identifiers!vars)
  BY StepRefines, SameInstance
<1> QED
  BY <1>1, <1>2, BoundaryInductive, PTL DEF Spec, IdentifiersRefined, Identifiers!Spec

(* Two constraints of the machine that share an identifier are the same
   constraint of the same rank, although constraints migrate with their
   identifiers and ranks reuse identifiers they have not issued. *)
ConstraintsApart ==
    \A r, q \in Ranks : \A c \in con[r] : \A d \in con[q] :
        c.id = d.id => r = q /\ c = d

THEOREM ConstraintsStayApart == Spec => []ConstraintsApart
<1>1. ASSUME IInv PROVE ConstraintsApart
  <2> SUFFICES ASSUME NEW r \in Ranks, NEW q \in Ranks, NEW c \in con[r], NEW d \in con[q],
                      c.id = d.id
               PROVE  r = q /\ c = d
    BY DEF ConstraintsApart
  <2>1. c.id \in Live[r] /\ d.id \in Live[q]
    BY DEF Live, IdsOf
  <2>2. r = q
    BY <1>1, <2>1, Counts DEF IInv, I!IInv, I!UniqueIds, I!Ranks, Ranks
  <2> QED
    BY <1>1, <2>2 DEF IInv, Distinct, Apart
<1> QED
  BY <1>1, BoundaryInductive, PTL
-----------------------------------------------------------------------------
(* Bodies that have left the domain, but not on all ranks yet. *)
Gone == {b \in Bodies : \E q, r \in Ranks : b \in outbox[q][r].bodies \cup inbox[r][q].bodies}
Spared(c) == BodiesOf(c) \cap Gone = {}

(* A constraint belongs to the rank it is on, or on its way to. *)
Owned(q) == con[q] \cup Arriving(q)

(* What rank r is to have an image of. *)
Claims(r) == {g \in Images : \E q \in Ranks : \E c \in Owned(q) :
                 r \in c.ext /\ Spared(c) /\ g = Image(c)}

(* What it has an image of: removals scheduled for the next balancing count
   as done from when they have been received. *)
Stale(r) == IF phase = "import" /\ r \notin done THEN Got(r, "remove") ELSE {}
Seen(r) == {e \in conext[r] : e.id \notin Stale(r) /\ Spared(e)}

(* What it is sent an image of. *)
Glue(q, r) == outbox[q][r].glue \cup IF r \in done THEN {} ELSE inbox[r][q].glue
Coming(r) == {e \in External : Image(e) \in Glue(e.rank, r)}
View(r) == Seen(r) \cup Coming(r)

(* The removals of rank q that rank r has not heard of. *)
Due(q, r) == dbdrem[q][r] \cup outbox[q][r].remove \cup
             IF phase \in {"settle", "solve"} /\ r \notin done THEN inbox[r][q].remove ELSE {}
Awaited(r) == {i \in Ids : \E q \in Ranks : i \in Due(q, r)}

(* Every claim in C has one image in E, and every other image is to be removed
   by its identifier, in D. *)
Matched(E, C, D) ==
    /\ Apart(E)
    /\ \A g \in C : g.id \notin D /\ \E e \in E : Image(e) = g
    /\ \A i \in D : \E e \in E : e.id = i
    /\ \A e \in E : e.id \in D \/ Image(e) \in C

Matching ==
    \A r \in Ranks : /\ Matched(View(r), Claims(r), Awaited(r))
                     /\ \A e \in Seen(r) : \A f \in Coming(r) : e.id # f.id

(* An image names the rank of its constraint, or the one that removed it. *)
RankOf(r) == \A e \in View(r) : \A q \in Ranks :
    /\ \A c \in con[q] : r \in c.ext /\ c.id = e.id => e.rank = q
    /\ e.id \in Due(q, r) => e.rank = q

Ranked ==
    \A r \in Ranks :
        phase \notin {"balance", "import"} /\ (phase = "settle" => r \in done) => RankOf(r)

(* What there is in the mail of each phase. *)
Outgoing(q, r) ==
    /\ phase \notin {"import", "detect"} => outbox[q][r].glue = {}
    /\ phase \notin {"import", "solve", "update"} => outbox[q][r].update = {}
    /\ phase \notin {"balance", "import", "sparsify"} => outbox[q][r].remove = {}
    /\ phase # "finish" => outbox[q][r].bodies = {} /\ outbox[q][r].parts = {}

Incoming(q, r) ==
    /\ phase # "import" => inbox[r][q].cons = {}
    /\ phase \notin {"settle", "sparsify"} => inbox[r][q].glue = {}
    /\ phase \notin {"settle", "finish", "partition", "balance"} => inbox[r][q].update = {}
    /\ phase \notin {"import", "settle", "solve"} => inbox[r][q].remove = {}
    /\ phase # "manage" => inbox[r][q].bodies = {} /\ inbox[r][q].parts = {}

(* All ranks are told of the same bodies. *)
Broadcast(q, r, p) ==
    /\ outbox[q][r].bodies = outbox[q][p].bodies /\ outbox[q][r].parts = outbox[q][p].parts
    /\ inbox[r][q].bodies = inbox[p][q].bodies /\ inbox[r][q].parts = inbox[p][q].parts

(* When there are removals that wait for the next balancing. *)
Scheduling(q) == \/ phase \in {"callback", "update", "partition"}
                 \/ phase = "balance" /\ q \notin done
                 \/ phase = "manage" /\ q \in done

Mail ==
    \A q, r \in Ranks :
        /\ q \notin done => outbox[q][r] = NoData
        /\ Outgoing(q, r) /\ Incoming(q, r) /\ \A p \in Ranks : Broadcast(q, r, p)
        /\ dbdrem[q][r] # {} => Scheduling(q)

(* New contacts have not been sent anywhere before GlueNew. *)
News ==
    \A q \in Ranks :
        /\ \A c \in con[q] : c.new =>
              /\ phase \in {"detect", "sparsify"} \/ (phase = "solve" /\ q \notin done)
              /\ phase = "detect" /\ q \notin done => c.ext = {}
        /\ \A c \in Arriving(q) : ~ c.new

(* Updates, images and removals come from the owners of the constraints, which
   have sent one or the other along their ext. *)
Updates(q, r) == IF phase = "settle" THEN inbox[r][q].update ELSE outbox[q][r].update

Written(q, r) ==
    /\ \A i \in Updates(q, r) : \E c \in con[q] : c.id = i /\ r \in c.ext
    /\ \A c \in con[q] : r \in c.ext =>
          c.id \in Updates(q, r) \/ \E e \in Coming(r) : e.rank = q /\ Image(e) = Image(c)

Sender(r) == \A e \in Coming(r) : \E c \in con[e.rank] :
    r \in c.ext /\ Image(c) = Image(e) /\ (phase = "detect" => c.new)

Transit ==
    \A r \in Ranks :
        /\ phase \in {"import", "settle", "detect"} => Sender(r)
        /\ phase \in {"finish", "partition", "balance"} /\ r \notin done =>
              Got(r, "update") \subseteq IdsOf(conext[r])
        /\ phase = "import" /\ r \notin done => Got(r, "remove") \subseteq IdsOf(conext[r])
        /\ \A q \in Ranks :
            /\ phase = "import" => outbox[q][r].remove \subseteq IdsOf(con[q])
            /\ phase = "import" /\ q \in done => Written(q, r)
            /\ phase = "settle" /\ r \notin done => Written(q, r)
            /\ phase \in {"solve", "update"} =>
                  \A i \in outbox[q][r].update : \E c \in con[q] : c.id = i /\ r \in c.ext

(* A rank has nothing of the bodies it has been told are gone. *)
Cleared ==
    phase = "manage" => \A r \in done : \A c \in con[r] \cup conext[r] : Spared(c)

(* Every image looked up so far was there. *)
Found == "conext" \notin failed

(* The inductive invariant, and what is known of the next state while the rest
   of it is shown. *)
Rest == Matching /\ Ranked /\ Transit /\ Cleared /\ Found
RInv == IInv /\ Mail /\ News /\ Rest
RNext == Shape' /\ Mail'

-----------------------------------------------------------------------------
(* A constraint has one place in the machine. *)
LEMMA OnePlace ==
    ASSUME IInv, NEW p \in Ranks, NEW q \in Ranks, NEW c \in Owned(p), NEW d \in Owned(q),
           c.id = d.id
    PROVE  /\ p = q /\ c = d
           /\ c \in con[p] => c \notin Arriving(p)
<1>1. c.id \in Live[p] \cup Flying[p] /\ d.id \in Live[q] \cup Flying[q]
  BY DEF Owned, Live, Flying, IdsOf
<1>2. p = q /\ Live[p] \cap Flying[p] = {}
  BY <1>1, Counts DEF IInv, I!IInv, I!UniqueIds, I!Ranks, Ranks
<1>3. c = d
  BY <1>2 DEF IInv, Distinct, Apart, Owned
<1>4. c \in con[p] => c \notin Arriving(p)
  BY <1>2 DEF Live, Flying, IdsOf
<1> QED
  BY <1>2, <1>3, <1>4

(* Constraints and images are what they are. *)
LEMMA OwnedTyped ==
    ASSUME Shape, NEW q \in Ranks
    PROVE  Owned(q) \subseteq Sound /\ con[q] \subseteq Sound /\ Arriving(q) \subseteq Sound
<1>1. \A p, r \in Ranks : outbox[p][r].cons \subseteq Sound /\ inbox[p][r].cons \subseteq Sound
  BY DEF Shape, Post, Data
<1>2. Arriving(q) \subseteq Sound
  BY <1>1 DEF Arriving
<1> QED
  BY <1>2 DEF Shape, Owned

(* Images, those on the way included, are external constraints. *)
LEMMA ViewTyped ==
    ASSUME Shape, NEW r \in Ranks
    PROVE  View(r) \subseteq External /\ Seen(r) \subseteq External /\ Coming(r) \subseteq External
<1>1. conext[r] \subseteq External
  BY DEF Shape, TypeOK
<1> QED
  BY <1>1 DEF View, Seen, Coming

(* Where the phase leaves no choice: the parts of the invariant in the terms
   of the variables. *)
Forms ==
    \A q, r \in Ranks :
        /\ phase \notin {"finish", "manage"} => Gone = {}
        /\ phase \notin {"import", "finish", "manage"} => Seen(r) = conext[r]
        /\ phase \in {"finish", "manage"} => Seen(r) = {e \in conext[r] : Spared(e)}
        /\ phase \notin {"import", "settle", "detect", "sparsify"} => Coming(r) = {}
        /\ phase \notin {"balance", "import"} => Owned(q) = con[q] /\ Arriving(q) = {}
        /\ phase \in {"partition", "callback", "update", "manage"} => Due(q, r) = dbdrem[q][r]
        /\ phase = "balance" => Due(q, r) = dbdrem[q][r] \cup outbox[q][r].remove
        /\ phase \in {"import", "sparsify"} => Due(q, r) = outbox[q][r].remove
        /\ phase \in {"settle", "solve"} =>
              Due(q, r) = IF r \in done THEN {} ELSE inbox[r][q].remove
        /\ phase \in {"pending", "detect", "finish"} => Due(q, r) = {}

(* They are, for a state that is well formed. *)
LEMMA FormsHold == Shape /\ Mail => Forms
<1> SUFFICES ASSUME Shape, Mail, NEW q \in Ranks, NEW r \in Ranks
    PROVE  /\ phase \notin {"finish", "manage"} => Gone = {}
           /\ phase \notin {"import", "finish", "manage"} => Seen(r) = conext[r]
           /\ phase \in {"finish", "manage"} => Seen(r) = {e \in conext[r] : Spared(e)}
           /\ phase \notin {"import", "settle", "detect", "sparsify"} => Coming(r) = {}
           /\ phase \notin {"balance", "import"} => Owned(q) = con[q] /\ Arriving(q) = {}
           /\ phase \in {"partition", "callback", "update", "manage"} => Due(q, r) = dbdrem[q][r]
           /\ phase = "balance" => Due(q, r) = dbdrem[q][r] \cup outbox[q][r].remove
           /\ phase \in {"import", "sparsify"} => Due(q, r) = outbox[q][r].remove
           /\ phase \in {"settle", "solve"} =>
                 Due(q, r) = IF r \in done THEN {} ELSE inbox[r][q].remove
           /\ phase \in {"pending", "detect", "finish"} => Due(q, r) = {}
  BY DEF Forms
<1>1. phase \notin {"finish", "manage"} => Gone = {}
  BY DEF Mail, Outgoing, Incoming, Gone
<1>2. phase # "import" => Stale(r) = {}
  BY DEF Stale
<1>3. Gone = {} => \A e \in conext[r] : Spared(e)
  BY DEF Spared
<1>4. phase \notin {"import", "settle", "detect", "sparsify"} => Coming(r) = {}
  <2> SUFFICES ASSUME phase \notin {"import", "settle", "detect", "sparsify"}, NEW e \in Coming(r)
               PROVE  FALSE
    OBVIOUS
  <2>1. e.rank \in Ranks /\ Image(e) \in Glue(e.rank, r)
    BY DEF Coming, External
  <2> QED
    BY <2>1 DEF Glue, Mail, Outgoing, Incoming
<1>5. phase \notin {"balance", "import"} => Arriving(q) = {}
  BY DEF Arriving, Shape, Post
<1>6. dbdrem[q][r] # {} => Scheduling(q)
  BY DEF Mail
<1>7. Outgoing(q, r) /\ Incoming(q, r)
  BY DEF Mail
<1> QED
  BY <1>1, <1>2, <1>3, <1>4, <1>5, <1>6, <1>7 DEF Seen, Owned, Due, Scheduling, Outgoing, Incoming

(* So they are in the next state. *)
LEMMA FormsHoldNext == Shape' /\ Mail' => Forms'
<1> QED
  BY FormsHold, PTL

-----------------------------------------------------------------------------
(* A letter of rank p changes the mail as its phase allows. *)
LEMMA MailSent ==
    ASSUME Shape, Shape', Mail, NEW p \in Ranks, NEW data, Send(p, data), Leave(p),
           UNCHANGED <<phase, inbox>>,
           \A q \in Ranks :
            /\ phase \notin {"import", "detect"} => data[q].glue = {}
            /\ phase \notin {"import", "solve", "update"} => data[q].update = {}
            /\ phase \notin {"balance", "import", "sparsify"} => data[q].remove = {}
            /\ phase # "finish" => data[q].bodies = {} /\ data[q].parts = {},
           \A q, r \in Ranks : data[q].bodies = data[r].bodies /\ data[q].parts = data[r].parts,
           \A q, r \in Ranks : q # p => dbdrem'[q] = dbdrem[q],
           \A r \in Ranks : dbdrem'[p][r] # {} => phase = "update"
    PROVE  Mail'
<1>1. outbox' = [outbox EXCEPT ![p] = data] /\ done' = done \cup {p}
  BY DEF Send, Leave
<1>2. outbox \in [Ranks -> [Ranks -> Data]]
  BY DEF Shape, Post
<1>3. outbox'[p] = data /\ \A q \in Ranks : q # p => outbox'[q] = outbox[q]
  BY <1>1, <1>2
<1> SUFFICES ASSUME NEW q \in Ranks, NEW r \in Ranks
    PROVE  /\ (q \notin done => outbox[q][r] = NoData)'
           /\ Outgoing(q, r)' /\ Incoming(q, r)' /\ \A s \in Ranks : Broadcast(q, r, s)'
           /\ (dbdrem[q][r] # {} => Scheduling(q))'
  BY DEF Mail
<1>5. Outgoing(q, r) /\ Incoming(q, r) /\ \A s \in Ranks : Broadcast(q, r, s)
  BY DEF Mail
<1>6. (q \notin done => outbox[q][r] = NoData)'
  BY <1>1, <1>3 DEF Mail
<1>7. Outgoing(q, r)'
  BY <1>3, <1>5 DEF Outgoing
<1>8. Incoming(q, r)'
  BY <1>5 DEF Incoming
<1>9. \A s \in Ranks : Broadcast(q, r, s)'
  BY <1>3, <1>5 DEF Broadcast
<1>10. (dbdrem[q][r] # {} => Scheduling(q))'
  BY <1>1 DEF Mail, Scheduling
<1> QED
  BY <1>6, <1>7, <1>8, <1>9, <1>10

(* So does a rank that writes no letter. *)
LEMMA MailUnsent ==
    ASSUME Shape, Mail, done \subseteq done', UNCHANGED <<phase, inbox, outbox>>,
           \A q, r \in Ranks :
              \/ dbdrem'[q][r] = dbdrem[q][r] /\ (q \in done <=> q \in done')
              \/ dbdrem[q][r] = {} /\ (dbdrem'[q][r] # {} => phase = "manage" /\ q \in done')
              \/ dbdrem'[q][r] = dbdrem[q][r] /\ phase # "balance"
    PROVE  Mail'
<1> SUFFICES ASSUME NEW q \in Ranks, NEW r \in Ranks
    PROVE  /\ (q \notin done => outbox[q][r] = NoData)'
           /\ Outgoing(q, r)' /\ Incoming(q, r)' /\ \A s \in Ranks : Broadcast(q, r, s)'
           /\ (dbdrem[q][r] # {} => Scheduling(q))'
  BY DEF Mail
<1>1. Outgoing(q, r) /\ Incoming(q, r) /\ \A s \in Ranks : Broadcast(q, r, s)
  BY DEF Mail
<1>2. Outgoing(q, r)' /\ Incoming(q, r)' /\ \A s \in Ranks : Broadcast(q, r, s)'
  BY <1>1 DEF Outgoing, Incoming, Broadcast
<1>3. (q \notin done => outbox[q][r] = NoData)'
  BY DEF Mail
<1>4. (dbdrem[q][r] # {} => Scheduling(q))'
  BY DEF Mail, Scheduling
<1> QED
  BY <1>2, <1>3, <1>4

(* The mail of a rank is that of its block: balance sends constraints and
   removals, and clears what was scheduled. *)
LEMMA MigrateOutMail ==
    ASSUME Shape, Shape', Mail, NEW p \in Ranks, MigrateOut(p) PROVE Mail'
<1>1. PICK dest \in [con[p] -> Ranks] : Send(p, [q \in Ranks |-> [NoData EXCEPT
                !.cons = {c \in con[p] : dest[c] = q /\ q # p},
                !.remove = dbdrem[p][q]]])
  BY DEF MigrateOut
<1>2. /\ phase = "balance" /\ Leave(p) /\ UNCHANGED <<phase, inbox>>
      /\ dbdrem' = [dbdrem EXCEPT ![p] = [q \in Ranks |-> {}]]
  BY DEF MigrateOut, Enter
<1>3. \A q \in Ranks : q # p => dbdrem'[q] = dbdrem[q]
  BY <1>2 DEF Shape, TypeOK
<1>4. \A r \in Ranks : dbdrem'[p][r] = {}
  BY <1>2 DEF Shape, TypeOK
<1> DEFINE data == [q \in Ranks |-> [NoData EXCEPT
                !.cons = {c \in con[p] : dest[c] = q /\ q # p}, !.remove = dbdrem[p][q]]]
<1>5. \A q \in Ranks : /\ data[q].glue = {} /\ data[q].update = {}
                       /\ data[q].bodies = {} /\ data[q].parts = {}
  BY DEF NoData
<1>6. Send(p, data)
  BY <1>1
<1>7. phase = "balance" /\ Leave(p) /\ UNCHANGED <<phase, inbox>>
  BY <1>2
<1> HIDE DEF data
<1>8. \A q, r \in Ranks : data[q].bodies = data[r].bodies /\ data[q].parts = data[r].parts
  BY <1>5
<1>9. \A r \in Ranks : dbdrem'[p][r] # {} => phase = "update"
  BY <1>4
<1> QED
  BY <1>3, <1>5, <1>6, <1>7, <1>8, <1>9, MailSent

(* Import sends images, updates and removals. *)
LEMMA MigrateInMail ==
    ASSUME Shape, Shape', Mail, NEW p \in Ranks, MigrateIn(p) PROVE Mail'
<1> DEFINE own == con[p] \cup {[c EXCEPT !.ext = @ \ {p}] : c \in Got(p, "cons")}
<1>1. Send(p, [q \in Ranks |-> [NoData EXCEPT
                !.glue = {Image(c) : c \in {d \in own : q \in Beyond(p, d) \ d.ext}},
                !.update = {c.id : c \in {d \in own : q \in Beyond(p, d) \cap d.ext}},
                !.remove = {c.id : c \in {d \in own : q \in d.ext \ Beyond(p, d)}}]])
  BY DEF MigrateIn
<1> DEFINE data == [q \in Ranks |-> [NoData EXCEPT
                !.glue = {Image(c) : c \in {d \in own : q \in Beyond(p, d) \ d.ext}},
                !.update = {c.id : c \in {d \in own : q \in Beyond(p, d) \cap d.ext}},
                !.remove = {c.id : c \in {d \in own : q \in d.ext \ Beyond(p, d)}}]]
<1> HIDE DEF own
<1>2. phase = "import" /\ Leave(p) /\ UNCHANGED <<phase, inbox, dbdrem>>
  BY DEF MigrateIn, Enter
<1>3. \A r \in Ranks : dbdrem'[p][r] = {}
  BY <1>2 DEF Mail, Scheduling
<1>4. \A q \in Ranks : data[q].bodies = {} /\ data[q].parts = {}
  BY DEF NoData
<1>5. Send(p, data)
  BY <1>1
<1> HIDE DEF data
<1> QED
  BY <1>2, <1>3, <1>4, <1>5, MailSent

(* Detect sends images of the new contacts. *)
LEMMA GlueNewMail ==
    ASSUME Shape, Shape', Mail, NEW p \in Ranks, GlueNew(p) PROVE Mail'
<1> DEFINE fresh == {c \in con[p] : c.new}
<1>1. Send(p, [q \in Ranks |-> [NoData EXCEPT
                !.glue = {Image(c) : c \in {d \in fresh : q \in Beyond(p, d)}}]])
  BY DEF GlueNew
<1> HIDE DEF fresh
<1>2. phase = "detect" /\ Leave(p) /\ UNCHANGED <<phase, inbox, dbdrem>>
  BY DEF GlueNew, Enter
<1>3. \A r \in Ranks : dbdrem'[p][r] = {}
  BY <1>2 DEF Mail, Scheduling
<1> QED
  BY <1>1, <1>2, <1>3, MailSent DEF NoData

(* Sparsify sends removals and schedules nothing. *)
LEMMA SparsifyMail ==
    ASSUME Shape, Shape', Mail, NEW p \in Ranks, Sparsify(p) PROVE Mail'
<1>1. PICK del : Send(p, [q \in Ranks |-> [NoData EXCEPT !.remove = Scheduled(p, del)[q]]])
  BY DEF Sparsify
<1>2. /\ phase = "sparsify" /\ Leave(p) /\ UNCHANGED <<phase, inbox>>
      /\ dbdrem' = [dbdrem EXCEPT ![p] = [q \in Ranks |-> {}]]
  BY DEF Sparsify, Enter
<1>3. /\ \A q \in Ranks : q # p => dbdrem'[q] = dbdrem[q]
      /\ \A r \in Ranks : dbdrem'[p][r] = {}
  BY <1>2 DEF Shape, TypeOK
<1> QED
  BY <1>1, <1>2, <1>3, MailSent DEF NoData

(* Solve sends updates. *)
LEMMA SolveMail ==
    ASSUME Shape, Shape', Mail, NEW p \in Ranks, Solve(p) PROVE Mail'
<1>1. Send(p, [q \in Ranks |-> [NoData EXCEPT
            !.update = {c.id : c \in {d \in con[p] : q \in d.ext}}]])
  BY DEF Solve
<1>2. phase = "solve" /\ Leave(p) /\ UNCHANGED <<phase, inbox, dbdrem>>
  BY DEF Solve, Enter
<1>3. \A r \in Ranks : dbdrem'[p][r] = {}
  BY <1>2 DEF Mail, Scheduling
<1> QED
  BY <1>1, <1>2, <1>3, MailSent DEF NoData

(* The end of a step tells all ranks the same bodies and parts. *)
LEMMA StepEndMail ==
    ASSUME Shape, Shape', Mail, NEW p \in Ranks, StepEnd(p) PROVE Mail'
<1>1. PICK bodies, parts :
        Send(p, [q \in Ranks |-> [NoData EXCEPT !.bodies = bodies, !.parts = parts]])
  BY DEF StepEnd
<1> DEFINE data == [q \in Ranks |-> [NoData EXCEPT !.bodies = bodies, !.parts = parts]]
<1>2. phase = "finish" /\ Leave(p) /\ UNCHANGED <<phase, inbox, dbdrem>>
  BY DEF StepEnd, Enter
<1>3. \A r \in Ranks : dbdrem'[p][r] = {}
  BY <1>2 DEF Mail, Scheduling
<1>4. \A q \in Ranks : /\ data[q].glue = {} /\ data[q].update = {} /\ data[q].remove = {}
                       /\ data[q].bodies = bodies /\ data[q].parts = parts
  BY DEF NoData
<1>5. Send(p, data)
  BY <1>1
<1> HIDE DEF data
<1> QED
  BY <1>2, <1>3, <1>4, <1>5, MailSent

(* The begin of a step sends updates, and schedules removals. *)
LEMMA UpdateConstraintsMail ==
    ASSUME Shape, Shape', Mail, NEW p \in Ranks, UpdateConstraints(p) PROVE Mail'
<1>1. PICK gone :
        /\ dbdrem' = [dbdrem EXCEPT ![p] = Scheduled(p, gone)]
        /\ Send(p, [q \in Ranks |-> [NoData EXCEPT
                !.update = {c.id : c \in {d \in con[p] \ gone : q \in d.ext}}]])
  BY DEF UpdateConstraints
<1>2. phase = "update" /\ Leave(p) /\ UNCHANGED <<phase, inbox>>
  BY DEF UpdateConstraints, Enter
<1>3. \A q \in Ranks : q # p => dbdrem'[q] = dbdrem[q]
  BY <1>1 DEF Shape, TypeOK
<1> QED
  BY <1>1, <1>2, <1>3, MailSent DEF NoData

(* Manage sends nothing, and schedules removals. *)
LEMMA ManageMail ==
    ASSUME Shape, Shape', Mail, NEW p \in Ranks, Manage(p) PROVE Mail'
<1>1. phase = "manage" /\ p \notin done /\ done' = done \cup {p} /\ UNCHANGED <<phase, inbox, outbox>>
  BY DEF Manage, Enter, Leave
<1>2. \E S : dbdrem' = [dbdrem EXCEPT ![p] = S]
  BY DEF Manage
<1>3. \A q \in Ranks : q # p => dbdrem'[q] = dbdrem[q]
  BY <1>2 DEF Shape, TypeOK
<1>4. \A r \in Ranks : dbdrem[p][r] = {}
  BY <1>1 DEF Mail, Scheduling
<1> QED
  BY <1>1, <1>3, <1>4, MailUnsent

(* The partitioner sends nothing. *)
LEMMA PartitionMail == ASSUME Shape, Mail, Partition PROVE Mail'
<1>1. /\ phase = "partition" /\ phase' = "balance" /\ done = {}
      /\ UNCHANGED <<done, inbox, outbox, dbdrem>>
  BY DEF Partition, Shape, Post
<1> QED
  BY <1>1 DEF Mail, Outgoing, Incoming, Broadcast, Scheduling

(* The exchange empties the outboxes into the inboxes. *)
LEMMA ExchangeMail == ASSUME Shape, Mail, Exchange PROVE Mail'
<1>1. /\ done = Ranks /\ done' = {} /\ phase # "partition" /\ UNCHANGED dbdrem
      /\ inbox' = [r \in Ranks |-> [q \in Ranks |-> outbox[q][r]]]
      /\ outbox' = NoMail
  BY Counts DEF Exchange, Shape, Post
<1>2. phase' = NextPhase[phase] /\ phase \in DOMAIN NextPhase
  BY <1>1 DEF Exchange, Shape, TypeOK
<1> SUFFICES ASSUME NEW q \in Ranks, NEW r \in Ranks
    PROVE  /\ (q \notin done => outbox[q][r] = NoData)'
           /\ Outgoing(q, r)' /\ Incoming(q, r)' /\ \A s \in Ranks : Broadcast(q, r, s)'
           /\ (dbdrem[q][r] # {} => Scheduling(q))'
  BY DEF Mail
<1>3. outbox'[q][r] = NoData /\ \A s \in Ranks : outbox'[q][s] = NoData
  BY <1>1 DEF NoMail
<1>4. inbox'[r][q] = outbox[q][r] /\ \A s \in Ranks : inbox'[s][q] = outbox[q][s]
  BY <1>1
<1>5. Outgoing(q, r)'
  BY <1>3, NoDataTyped DEF Outgoing, NoData
<1>6. Incoming(q, r)'
  <2>1. outbox[q][r].cons # {} => phase = "balance"
    BY DEF Shape, Post
  <2>2. Outgoing(q, r)
    BY DEF Mail
  <2> QED
    BY <1>2, <1>4, <2>1, <2>2 DEF Incoming, Outgoing, NextPhase
<1>7. \A s \in Ranks : Broadcast(q, r, s)'
  BY <1>3, <1>4 DEF Mail, Broadcast
<1>8. (dbdrem[q][r] # {} => Scheduling(q))'
  <2>1. dbdrem[q][r] # {} => phase \in {"callback", "update", "partition", "manage"}
    BY <1>1 DEF Mail, Scheduling
  <2> QED
    BY <1>1, <1>2, <2>1 DEF NextPhase, Scheduling
<1> QED
  BY <1>3, <1>5, <1>6, <1>7, <1>8

(* The other blocks send and schedule nothing. *)
LEMMA StepMail == ASSUME Shape, Shape', Mail, [Next]_vars PROVE Mail'
<1>1. CASE UNCHANGED vars
  BY <1>1 DEF vars, Mail, Outgoing, Incoming, Broadcast, Scheduling
<1>2. ASSUME NEW p \in Ranks,
             \/ Settle(p) \/ PutPending(p) \/ DropPending(p)
             \/ \E t \in Touching : Detect(p, t)
             \/ \E b \in Fixable : FixPoint(p, b)
             \/ \E c \in con[p] : DeleteConstraint(p, c)
             \/ CallbackReturn(p)
      PROVE  Mail'
  <2>1. /\ done \subseteq done' /\ UNCHANGED <<phase, inbox, outbox, dbdrem>>
        /\ phase # "balance"
    BY <1>2 DEF Settle, PutPending, DropPending, Detect, FixPoint, DeleteConstraint,
                CallbackReturn, Enter, Leave
  <2> QED
    BY <2>1, MailUnsent
<1> QED
  BY <1>1, <1>2, MigrateOutMail, MigrateInMail, GlueNewMail, SparsifyMail, SolveMail,
     StepEndMail, UpdateConstraintsMail, ManageMail, PartitionMail, ExchangeMail DEF Next

-----------------------------------------------------------------------------
(* What the two blocks that move constraints do with them. *)
LEMMA MigrateOutFacts ==
    ASSUME Shape, NEW p \in Ranks, MigrateOut(p)
    PROVE  \E dest \in [con[p] -> Ranks] :
             /\ con'[p] = {c \in con[p] : dest[c] = p}
             /\ \A q \in Ranks \ {p} : con'[q] = con[q]
             /\ \A q \in Ranks : Arriving(q)' = Arriving(q) \cup {c \in con[p] : dest[c] = q /\ q # p}
             /\ \A c \in con[p] : dest[c] \in Targets(c)
             /\ \A q, r \in Ranks : q # p => outbox'[q][r] = outbox[q][r]
                                         /\ dbdrem'[q][r] = dbdrem[q][r]
             /\ \A r \in Ranks : /\ outbox'[p][r].remove = dbdrem[p][r] /\ outbox'[p][r].glue = {}
                                 /\ dbdrem'[p][r] = {}
<1>1. PICK dest \in [con[p] -> Ranks] :
        /\ con' = [con EXCEPT ![p] = {c \in @ : dest[c] = p}]
        /\ \A c \in con[p] : dest[c] \in Targets(c)
        /\ Send(p, [q \in Ranks |-> [NoData EXCEPT
                !.cons = {c \in con[p] : dest[c] = q /\ q # p},
                !.remove = dbdrem[p][q]]])
  BY DEF MigrateOut
<1>2. /\ phase = "balance" /\ p \notin done /\ UNCHANGED phase
      /\ dbdrem' = [dbdrem EXCEPT ![p] = [q \in Ranks |-> {}]]
  BY DEF MigrateOut, Enter
<1>3. /\ con'[p] = {c \in con[p] : dest[c] = p}
      /\ \A q \in Ranks \ {p} : con'[q] = con[q]
  BY <1>1 DEF Shape
<1>4. \A r \in Ranks : /\ outbox'[p][r].cons = {c \in con[p] : dest[c] = r /\ r # p}
                       /\ outbox'[p][r].remove = dbdrem[p][r] /\ outbox'[p][r].glue = {}
  BY <1>1 DEF Send, NoData, Shape, Post
<1>5. \A q, r \in Ranks : q # p => outbox'[q][r] = outbox[q][r]
  BY <1>1 DEF Send, Shape, Post
<1>6. /\ \A q, r \in Ranks : q # p => dbdrem'[q][r] = dbdrem[q][r]
      /\ \A r \in Ranks : dbdrem'[p][r] = {}
  BY <1>2 DEF Shape, TypeOK
<1>7. ASSUME NEW q \in Ranks
      PROVE Arriving(q)' = Arriving(q) \cup {c \in con[p] : dest[c] = q /\ q # p}
  <2>1. /\ Arriving(q) = UNION {outbox[r][q].cons : r \in Ranks}
        /\ Arriving(q)' = UNION {outbox'[r][q].cons : r \in Ranks}
    BY <1>2 DEF Arriving
  <2>2. outbox[p][q].cons = {}
    BY <1>2 DEF Shape, Post
  <2> DEFINE To == {c \in con[p] : dest[c] = q /\ q # p}
  <2>3. outbox'[p][q].cons = To /\ \A r \in Ranks \ {p} : outbox'[r][q] = outbox[r][q]
    BY <1>4, <1>5
  <2> HIDE DEF To
  <2>4. Arriving(q)' = Arriving(q) \cup To
    BY <2>1, <2>2, <2>3
  <2> QED
    BY <2>4 DEF To
<1>8. /\ \A c \in con[p] : dest[c] \in Targets(c)
      /\ \A q \in Ranks : Arriving(q)' = Arriving(q) \cup {c \in con[p] : dest[c] = q /\ q # p}
      /\ \A r \in Ranks : outbox'[p][r].remove = dbdrem[p][r] /\ outbox'[p][r].glue = {}
  BY <1>1, <1>4, <1>7
<1> WITNESS dest \in [con[p] -> Ranks]
<1> QED
  BY <1>3, <1>5, <1>6, <1>8

(* ... and what of import: the constraints that arrive are owned. *)
LEMMA MigrateInFacts ==
    ASSUME Shape, NEW p \in Ranks, MigrateIn(p)
    PROVE  /\ Arriving(p) = Got(p, "cons") /\ Arriving(p)' = {}
           /\ \A q \in Ranks \ {p} : Arriving(q)' = Arriving(q) /\ con'[q] = con[q]
           /\ con'[p] = {[c EXCEPT !.ext = Beyond(p, c)] : c \in
                con[p] \cup {[c EXCEPT !.ext = @ \ {p}] : c \in Got(p, "cons")}}
<1>1. phase = "import" /\ p \notin done /\ done' = done \cup {p} /\ UNCHANGED <<phase, inbox>>
  BY DEF MigrateIn, Enter, Leave
<1>2. /\ con'[p] = {[c EXCEPT !.ext = Beyond(p, c)] : c \in
                con[p] \cup {[c EXCEPT !.ext = @ \ {p}] : c \in Got(p, "cons")}}
      /\ \A q \in Ranks \ {p} : con'[q] = con[q]
  BY DEF MigrateIn, Shape
<1>3. \A r, q \in Ranks : outbox[r][q].cons = {} /\ outbox'[r][q].cons = {}
  <2>1. Shape'
    BY MigrateInShape
  <2> QED
    BY <1>1, <2>1 DEF Shape, Post
<1>4. Arriving(p) = Got(p, "cons")
  BY <1>1, <1>3 DEF Arriving, Got
<1>5. Arriving(p)' = {}
  BY <1>1, <1>3 DEF Arriving
<1>6. ASSUME NEW q \in Ranks \ {p} PROVE Arriving(q)' = Arriving(q)
  <2>1. q \in done' <=> q \in done
    BY <1>1
  <2> QED
    BY <1>1, <1>3, <2>1 DEF Arriving
<1> QED
  BY <1>2, <1>4, <1>5, <1>6

(* ... and what of the exchange: none is lost between outbox and inbox. *)
LEMMA ExchangeFacts ==
    ASSUME Shape, Exchange, NEW q \in Ranks
    PROVE  Arriving(q)' = Arriving(q)
<1>1. done = Ranks /\ done' = {} /\ outbox' = NoMail
      /\ inbox' = [r \in Ranks |-> [p \in Ranks |-> outbox[p][r]]]
  BY DEF Exchange
<1>2. \A c : c \in Arriving(q) <=> \E p \in Ranks : c \in outbox[p][q].cons
  BY <1>1 DEF Arriving
<1>3. \A p \in Ranks : outbox'[p][q].cons = {} /\ inbox'[q][p] = outbox[p][q]
  BY <1>1, NoDataTyped DEF NoMail
<1>4. phase # "balance" => \A p \in Ranks : outbox[p][q].cons = {}
  BY DEF Shape, Post
<1>5. phase = "balance" => phase' = "import" /\ q \notin done'
  BY <1>1 DEF Exchange, NextPhase
<1>6. \A c : c \in Arriving(q)' => \E p \in Ranks : c \in outbox'[p][q].cons \cup inbox'[q][p].cons
  BY DEF Arriving
<1>7. phase = "balance" =>
        \A c : c \in Arriving(q)' <=> \E p \in Ranks : c \in outbox'[p][q].cons \cup inbox'[q][p].cons
  BY <1>5 DEF Arriving
<1>8. \A c : c \in Arriving(q)' <=> c \in Arriving(q)
  BY <1>2, <1>3, <1>4, <1>6, <1>7
<1> QED
  BY <1>8 DEF Arriving

(* A constraint that is inserted is one of its kind on its rank. *)
LEMMA InsertFacts ==
    ASSUME Shape, NEW p \in Ranks, NEW kind, NEW m, NEW s, NEW new, Insert(p, kind, m, s, new)
    PROVE  /\ \E i \in Ids : con'[p] = con[p] \cup
                {[id |-> i, kind |-> kind, master |-> m, slave |-> s, ext |-> {}, new |-> new]}
           /\ \A q \in Ranks \ {p} : con'[q] = con[q]
           /\ failed' \subseteq failed \cup {"bodcon"}
<1>1. PICK i \in Ids :
        /\ con' = [con EXCEPT ![p] = @ \cup
             {[id |-> i, kind |-> kind, master |-> m, slave |-> s, ext |-> {}, new |-> new]}]
        /\ \E S : failed' = failed \cup Clashing(S, bodcon[p])
  BY DEF Insert
<1>2. failed' \subseteq failed \cup {"bodcon"}
  BY <1>1, FaultsTyped
<1> QED
  BY <1>1, <1>2 DEF Shape

(* A pending link is inserted, or its slave is not there. *)
LEMMA InsertedOr ==
    ASSUME NEW p \in Ranks, PutPending(p)
    PROVE  /\ phase = "pending" /\ p \notin done
           /\ UNCHANGED <<phase, done, boot, mapVars, conext, dbdrem, outbox, inbox>>
           /\ \/ \E l \in pend[p] : /\ home[l[1]] = p /\ p \in Holders(l[2])
                                    /\ Insert(p, "RIGLNK", l[1], l[2], FALSE)
              \/ /\ failed' = failed \cup {"slave"} /\ UNCHANGED <<idVars, con, bodcon>>
                 /\ \E l \in pend[p] : home[l[1]] = p /\ p \notin Holders(l[2])
<1>1. PICK l \in pend[p] :
        /\ home[l[1]] = p
        /\ IF p \in Holders(l[2])
           THEN Insert(p, "RIGLNK", l[1], l[2], FALSE)
           ELSE failed' = failed \cup {"slave"} /\ UNCHANGED <<idVars, con, bodcon>>
  BY DEF PutPending
<1>2. /\ phase = "pending" /\ p \notin done
      /\ UNCHANGED <<phase, done, boot, mapVars, conext, dbdrem, outbox, inbox>>
  BY DEF PutPending, Enter
<1> QED
  BY <1>1, <1>2

(* Constraints are new between their insertion in detect and solve only. *)
LEMMA StepNews == ASSUME Shape, Shape', News, [Next]_vars PROVE News'
<1>0. ASSUME NEW p \in Ranks, phase \notin {"balance", "import"}, UNCHANGED phase,
             done \subseteq done', done' \subseteq done \cup {p},
             \A q \in Ranks \ {p} : con'[q] = con[q],
             \A c \in con'[p] : c.new =>
                /\ phase \in {"detect", "sparsify"} \/ (phase = "solve" /\ p \notin done')
                /\ phase = "detect" /\ p \notin done' => c.ext = {}
      PROVE  News'
  <2>1. \A q \in Ranks : Arriving(q)' = {}
    BY <1>0, Quiet
  <2>2. ASSUME NEW q \in Ranks, NEW c \in con'[q], c.new
        PROVE  /\ phase' \in {"detect", "sparsify"} \/ (phase' = "solve" /\ q \notin done')
               /\ phase' = "detect" /\ q \notin done' => c.ext = {}
    <3>1. CASE q = p
      BY <1>0, <2>2, <3>1
    <3>2. CASE q # p
      BY <1>0, <2>2, <3>2 DEF News
    <3> QED
      BY <3>1, <3>2
  <2> QED
    BY <2>1, <2>2 DEF News
<1>1. CASE UNCHANGED vars
  BY <1>1 DEF vars, News, Arriving
<1>2. ASSUME Partition PROVE News'
  <2>1. /\ phase = "partition" /\ phase' = "balance" /\ UNCHANGED <<done, con, outbox, inbox>>
    BY <1>2 DEF Partition
  <2>2. \A q \in Ranks : Arriving(q)' = Arriving(q)
    BY <2>1 DEF Arriving
  <2> QED
    BY <2>1, <2>2 DEF News
<1>3. ASSUME Exchange PROVE News'
  <2>1. /\ done = Ranks /\ done' = {} /\ UNCHANGED con
        /\ phase' = NextPhase[phase] /\ phase \in DOMAIN NextPhase
    <3>1. done # {}
      BY <1>3, Counts DEF Exchange
    <3> QED
      BY <1>3, <3>1 DEF Exchange, Shape, TypeOK, Post
  <2>2. \A q \in Ranks : Arriving(q)' = Arriving(q)
    BY <1>3, ExchangeFacts
  <2>3. ASSUME NEW q \in Ranks, NEW c \in con[q], c.new PROVE phase \in {"detect", "sparsify"}
    BY <2>1, <2>3 DEF News
  <2>4. phase \in {"detect", "sparsify"} => phase' \in {"sparsify", "solve"}
    BY <2>1 DEF NextPhase
  <2> QED
    BY <2>1, <2>2, <2>3, <2>4 DEF News
<1>4. ASSUME NEW p \in Ranks, MigrateOut(p) PROVE News'
  <2>1. PICK dest \in [con[p] -> Ranks] :
             /\ con'[p] = {c \in con[p] : dest[c] = p}
             /\ \A q \in Ranks \ {p} : con'[q] = con[q]
             /\ \A q \in Ranks : Arriving(q)' = Arriving(q) \cup {c \in con[p] : dest[c] = q /\ q # p}
    BY <1>4, MigrateOutFacts
  <2>2. phase = "balance" /\ UNCHANGED phase
    BY <1>4 DEF MigrateOut, Enter
  <2>3. \A q \in Ranks : \A c \in con[q] \cup Arriving(q) : ~ c.new
    BY <2>2 DEF News
  <2>4. \A q \in Ranks : con'[q] \subseteq con[q]
    BY <2>1
  <2>5. \A q \in Ranks : Arriving(q)' \subseteq Arriving(q) \cup con[p]
    BY <2>1
  <2> QED
    BY <2>3, <2>4, <2>5 DEF News
<1>5. ASSUME NEW p \in Ranks, MigrateIn(p) PROVE News'
  <2>1. phase = "import" /\ UNCHANGED phase
    BY <1>5 DEF MigrateIn, Enter
  <2>2. /\ Arriving(p) = Got(p, "cons") /\ Arriving(p)' = {}
        /\ \A q \in Ranks \ {p} : Arriving(q)' = Arriving(q) /\ con'[q] = con[q]
        /\ con'[p] = {[c EXCEPT !.ext = Beyond(p, c)] : c \in
                con[p] \cup {[c EXCEPT !.ext = @ \ {p}] : c \in Got(p, "cons")}}
    BY <1>5, MigrateInFacts
  <2>3. \A q \in Ranks : \A c \in con[q] \cup Arriving(q) : ~ c.new
    BY <2>1 DEF News
  <2>4. \A c \in con'[p] : ~ c.new
    <3>1. Got(p, "cons") \subseteq Sound /\ con[p] \subseteq Sound
      BY GotTyped DEF Shape
    <3>2. \A c \in Got(p, "cons") : [c EXCEPT !.ext = @ \ {p}] \in Sound
                                    /\ ~ [c EXCEPT !.ext = @ \ {p}].new
      BY <2>2, <2>3, <3>1 DEF Sound, Constraint
    <3> DEFINE own == con[p] \cup {[c EXCEPT !.ext = @ \ {p}] : c \in Got(p, "cons")}
    <3>3. \A c \in own : c \in Sound /\ ~ c.new
      BY <2>3, <3>1, <3>2
    <3> HIDE DEF own
    <3>4. con'[p] = {[c EXCEPT !.ext = Beyond(p, c)] : c \in own}
      BY <2>2 DEF own
    <3> QED
      BY <3>3, <3>4 DEF Sound, Constraint
  <2>5. \A q \in Ranks : \A c \in con'[q] : ~ c.new
    BY <2>2, <2>3, <2>4
  <2> QED
    BY <2>2, <2>3, <2>5 DEF News
<1>6. ASSUME NEW p \in Ranks, Settle(p) \/ DropPending(p) \/ CallbackReturn(p) PROVE News'
  <2>1. /\ phase \in {"settle", "pending", "callback"} /\ UNCHANGED <<phase, con>>
        /\ done' = done \cup {p}
    BY <1>6 DEF Settle, DropPending, CallbackReturn, Enter, Leave
  <2> QED
    BY <1>0, <2>1 DEF News
<1>7. ASSUME NEW p \in Ranks, \/ PutPending(p) \/ \E t \in Touching : Detect(p, t)
                              \/ \E b \in Fixable : FixPoint(p, b)
      PROVE News'
  <2>0. /\ UNCHANGED con \/ \E kind, m, s, new : Insert(p, kind, m, s, new) /\ (new => phase = "detect")
        /\ phase \in {"pending", "detect", "callback"} /\ UNCHANGED <<phase, done>>
    BY <1>7, InsertedOr DEF Detect, FixPoint, Enter
  <2> SUFFICES ASSUME con' # con PROVE News'
    BY <1>0, <2>0 DEF News
  <2>1. /\ \E kind, m, s, new : Insert(p, kind, m, s, new) /\ (new => phase = "detect")
        /\ phase \in {"pending", "detect", "callback"} /\ UNCHANGED <<phase, done>>
    BY <2>0
  <2>2. PICK kind, m, s, new : Insert(p, kind, m, s, new) /\ (new => phase = "detect")
    BY <2>1
  <2>3. PICK i \in Ids : con'[p] = con[p] \cup
          {[id |-> i, kind |-> kind, master |-> m, slave |-> s, ext |-> {}, new |-> new]}
    BY <2>2, InsertFacts
  <2>4. \A q \in Ranks \ {p} : con'[q] = con[q]
    BY <2>2, InsertFacts
  <2> DEFINE k == [id |-> i, kind |-> kind, master |-> m, slave |-> s, ext |-> {}, new |-> new]
  <2>5. k.ext = {} /\ k.new = new
    OBVIOUS
  <2> HIDE DEF k
  <2>6. con'[p] = con[p] \cup {k}
    BY <2>3 DEF k
  <2>7. \A c \in con'[p] : c.new =>
                /\ phase \in {"detect", "sparsify"} \/ (phase = "solve" /\ p \notin done')
                /\ phase = "detect" /\ p \notin done' => c.ext = {}
    BY <2>1, <2>2, <2>5, <2>6 DEF News
  <2> QED
    BY <1>0, <2>1, <2>4, <2>7
<1>8. ASSUME NEW p \in Ranks, \/ Sparsify(p) \/ UpdateConstraints(p) \/ Manage(p)
                              \/ \E c \in con[p] : DeleteConstraint(p, c)
      PROVE News'
  <2>1. /\ phase \in {"sparsify", "update", "manage", "callback"} /\ UNCHANGED phase
        /\ done \subseteq done' /\ done' \subseteq done \cup {p}
    BY <1>8 DEF Sparsify, UpdateConstraints, Manage, DeleteConstraint, Enter, Leave
  <2>2. \E S, T : con' = [con EXCEPT ![p] = @ \ S] \/ con' = [con EXCEPT ![p] = (@ \ S) \ T]
    BY <1>8 DEF Sparsify, UpdateConstraints, Manage, DeleteConstraint
  <2>3. con'[p] \subseteq con[p] /\ \A q \in Ranks \ {p} : con'[q] = con[q]
    BY <2>2 DEF Shape
  <2> QED
    BY <1>0, <2>1, <2>3 DEF News
<1>9. ASSUME NEW p \in Ranks, GlueNew(p) PROVE News'
  <2>1. phase = "detect" /\ UNCHANGED phase /\ done' = done \cup {p}
    BY <1>9 DEF GlueNew, Enter, Leave
  <2>2. \E S : con' = [con EXCEPT ![p] = S]
    BY <1>9 DEF GlueNew
  <2>3. \A q \in Ranks \ {p} : con'[q] = con[q]
    BY <2>2 DEF Shape
  <2> QED
    BY <1>0, <2>1, <2>3
<1>10. ASSUME NEW p \in Ranks, Solve(p) PROVE News'
  <2>1. phase = "solve" /\ UNCHANGED phase /\ done' = done \cup {p}
    BY <1>10 DEF Solve, Enter, Leave
  <2>2. con'[p] = {[c EXCEPT !.new = FALSE] : c \in con[p]} /\ \A q \in Ranks \ {p} : con'[q] = con[q]
    BY <1>10 DEF Solve, Shape
  <2>3. \A c \in con[p] : ~ [c EXCEPT !.new = FALSE].new
    BY DEF Shape, Sound, Constraint
  <2> QED
    BY <1>0, <2>1, <2>2, <2>3
<1>11. ASSUME NEW p \in Ranks, StepEnd(p) PROVE News'
  <2>1. phase = "finish" /\ UNCHANGED phase /\ done' = done \cup {p}
    BY <1>11 DEF StepEnd, Enter, Leave
  <2>2. PICK gone, cracked : RemoveBodies(p, gone, cracked)
    BY <1>11 DEF StepEnd
  <2> DEFINE mine == UNION {Listed(p, b, con[p]) : b \in gone}
             moved == UNION {Listed(p, b, mine) : b \in cracked}
             kept == Transferred(moved)
  <2>3. moved \subseteq con[p]
    BY DEF Listed, With
  <2>4. con[p] \subseteq Sound
    BY DEF Shape
  <2> HIDE DEF moved
  <2>5. \A c \in con[p] : ~ c.new
    BY <2>1 DEF News
  <2>6. \A c \in kept : ~ c.new
    <3> SUFFICES ASSUME NEW c \in moved
        PROVE  ~ [c EXCEPT !.master = Parts[@], !.slave = Parts[@], !.ext = {}].new
      BY DEF Transferred
    <3>1. c \in Constraint /\ ~ c.new
      BY <2>3, <2>4, <2>5 DEF Sound
    <3>2. [c EXCEPT !.master = Parts[@], !.slave = Parts[@], !.ext = {}].new = c.new
      BY <3>1 DEF Constraint
    <3> QED
      BY <3>1, <3>2
  <2>7. con'[p] \subseteq con[p] \cup kept /\ \A q \in Ranks \ {p} : con'[q] = con[q]
    BY <2>2 DEF RemoveBodies, Shape, moved
  <2> QED
    BY <1>0, <2>1, <2>5, <2>6, <2>7
<1> QED
  BY <1>1, <1>2, <1>3, <1>4, <1>5, <1>6, <1>7, <1>8, <1>9, <1>10, <1>11 DEF Next

-----------------------------------------------------------------------------
(* Matched sets: claims that are dropped become removals, images that arrive
   claims, removals that are applied take image and removal away. *)
LEMMA MatchedRetired ==
    ASSUME NEW E, NEW C, NEW D, Matched(E, C, D), NEW X, X \subseteq C, NEW C2, NEW D2,
           C2 = C \ X, D2 = D \cup {g.id : g \in X}
    PROVE  Matched(E, C2, D2)
<1>1. \A e \in E : Image(e).id = e.id
  BY DEF Image
<1>2. ASSUME NEW g \in C2
      PROVE  g.id \notin D2 /\ \E e \in E : Image(e) = g
  <2>1. PICK e \in E : Image(e) = g /\ g.id \notin D
    BY DEF Matched
  <2>2. ASSUME NEW x \in X PROVE x.id # g.id
    <3>1. PICK f \in E : Image(f) = x
      BY DEF Matched
    <3> QED
      BY <1>1, <2>1, <3>1 DEF Matched, Apart
  <2> QED
    BY <2>1, <2>2
<1>3. ASSUME NEW i \in D2 PROVE \E e \in E : e.id = i
  <2>1. CASE i \in D
    BY <2>1 DEF Matched
  <2>2. ASSUME NEW x \in X, i = x.id PROVE \E e \in E : e.id = i
    <3>1. PICK e \in E : Image(e) = x
      BY DEF Matched
    <3> QED
      BY <1>1, <2>2, <3>1
  <2> QED
    BY <2>1, <2>2
<1>4. ASSUME NEW e \in E PROVE e.id \in D2 \/ Image(e) \in C2
  <2>1. CASE Image(e) \in X
    BY <1>1, <2>1
  <2> QED
    BY <2>1 DEF Matched
<1> QED
  BY <1>2, <1>3, <1>4 DEF Matched

(* Claims are matched by images with new identifiers. *)
LEMMA MatchedGained ==
    ASSUME NEW E, NEW C, NEW D, Matched(E, C, D), NEW N, Apart(N),
           \A e \in E : \A f \in N : e.id # f.id, NEW C2, C2 = C \cup {Image(e) : e \in N}
    PROVE  Matched(E \cup N, C2, D)
<1>1. \A e \in E \cup N : Image(e).id = e.id
  BY DEF Image
<1>2. Apart(E \cup N)
  BY DEF Matched, Apart
<1>3. ASSUME NEW g \in C2 PROVE g.id \notin D /\ \E e \in E \cup N : Image(e) = g
  BY <1>1 DEF Matched
<1> QED
  BY <1>2, <1>3 DEF Matched

(* Identifiers are dropped from all three. *)
LEMMA MatchedDropped ==
    ASSUME NEW E, NEW C, NEW D, Matched(E, C, D), NEW S, NEW E2, NEW C2, NEW D2,
           E2 = {e \in E : e.id \notin S}, C2 = {g \in C : g.id \notin S}, D2 = D \ S
    PROVE  Matched(E2, C2, D2)
<1>1. \A e \in E : Image(e).id = e.id
  BY DEF Image
<1> QED
  BY <1>1 DEF Matched, Apart

(* Claims are dropped with their images, if nothing is to be removed. *)
LEMMA MatchedPurged ==
    ASSUME NEW E, NEW C, Matched(E, C, {}), NEW X, NEW E2, NEW C2,
           E2 = {e \in E : Image(e) \notin X}, C2 = C \ X
    PROVE  Matched(E2, C2, {})
<1> QED
  BY DEF Matched, Apart

(* When no constraint is on its way and all bodies are there. *)
LEMMA ClaimsForm ==
    ASSUME Shape, Forms, phase \notin {"balance", "import", "finish", "manage"}, NEW r \in Ranks
    PROVE  Claims(r) = {g \in Images : \E q \in Ranks : \E c \in con[q] :
                            r \in c.ext /\ g = Image(c)}
<1>1. Gone = {} /\ \A q \in Ranks : Owned(q) = con[q]
  BY DEF Forms
<1> QED
  BY <1>1 DEF Claims, Spared

(* The same of the next state. *)
LEMMA ClaimsFormNext ==
    ASSUME Shape', Forms', phase' \notin {"balance", "import", "finish", "manage"}, NEW r \in Ranks
    PROVE  Claims(r)' = {g \in Images : \E q \in Ranks : \E c \in con'[q] :
                            r \in c.ext /\ g = Image(c)}
<1>1. Gone' = {} /\ \A q \in Ranks : Owned(q)' = con'[q]
  BY DEF Forms
<1> QED
  BY <1>1 DEF Claims, Spared

-----------------------------------------------------------------------------
(* The lists of the bodies: that of a body names the constraints in M that are
   attached to it, and no two of them are the same there. *)
Lined(M, lists) == lists = [b \in Bodies |-> {Image(c) : c \in With(b, M)}]
Keyed(M) == \A b \in Bodies : \A c, d \in With(b, M) : Same(c, d) => c = d

(* A rank has constraints of its own and images of others. *)
Members(r) == con[r] \cup conext[r]
Sets == "bodcon" \notin failed => \A r \in Ranks : Lined(Members(r), bodcon[r]) /\ Keyed(Members(r))

(* An image is all that Same and With look at. *)
LEMMA ImageLooks ==
    ASSUME NEW c
    PROVE  /\ Image(c).id = c.id /\ Image(c).kind = c.kind /\ BodiesOf(Image(c)) = BodiesOf(c)
           /\ \A d : (Same(c, Image(d)) <=> Same(c, d)) /\ (Same(Image(d), c) <=> Same(d, c))
           /\ Same(c, c)
<1>1. \A d : Image(d).id = d.id /\ Image(d).kind = d.kind /\ BodiesOf(Image(d)) = BodiesOf(d)
  BY DEF Image, BodiesOf
<1>2. \A x, y, z : x \in {y, z} <=> x = y \/ x = z
  OBVIOUS
<1> QED
  BY <1>1, <1>2 DEF Same

(* What is taken out of the lists is what was to be taken out. *)
LEMMA UnlistedIs ==
    ASSUME NEW M, NEW lists, Lined(M, lists), Keyed(M), NEW D, D \subseteq M
    PROVE  Lined(M \ D, Unlisted(D, lists)) /\ Keyed(M \ D)
<1>1. Keyed(M \ D)
  BY DEF Keyed, With
<1>2. ASSUME NEW b \in Bodies
      PROVE  {e \in lists[b] : \A d \in With(b, D) : ~ Same(d, e)} = {Image(c) : c \in With(b, M \ D)}
  <2>1. lists[b] = {Image(c) : c \in With(b, M)}
    BY DEF Lined
  <2>2. ASSUME NEW c \in With(b, M)
        PROVE  (\A d \in With(b, D) : ~ Same(d, Image(c))) <=> c \in With(b, M \ D)
    <3>1. \A d \in With(b, D) : d \in With(b, M) /\ (Same(d, Image(c)) <=> Same(d, c))
      BY ImageLooks DEF With
    <3>2. ASSUME c \in With(b, M \ D), NEW d \in With(b, D), Same(d, Image(c)) PROVE FALSE
      <4>1. d = c
        BY <3>1, <3>2 DEF Keyed
      <4> QED
        BY <3>2, <4>1 DEF With
    <3>3. ASSUME c \notin With(b, M \ D) PROVE c \in With(b, D) /\ Same(c, Image(c))
      BY <3>3, ImageLooks DEF With
    <3> QED
      BY <3>2, <3>3
  <2>3. With(b, M \ D) \subseteq With(b, M)
    BY DEF With
  <2> QED
    BY <2>1, <2>2, <2>3
<1>3. Unlisted(D, lists) = [b \in Bodies |-> {Image(c) : c \in With(b, M \ D)}]
  BY <1>2 DEF Unlisted
<1> QED
  BY <1>1, <1>3 DEF Lined

(* What is put into the lists without a clash is in them. *)
LEMMA EnlistedIs ==
    ASSUME NEW M, NEW lists, Lined(M, lists), Keyed(M), NEW S, Clashing(S, lists) = {}
    PROVE  Lined(M \cup S, Enlisted(S, lists)) /\ Keyed(M \cup S)
<1>1. \A b \in Bodies : \A c \in With(b, S) : \A e \in lists[b] \cup (With(b, S) \ {c}) : ~ Same(c, e)
  BY DEF Clashing
<1>2. \A b \in Bodies : lists[b] = {Image(c) : c \in With(b, M)}
  BY DEF Lined
<1>3. \A b : With(b, M \cup S) = With(b, M) \cup With(b, S)
  BY DEF With
<1>4. ASSUME NEW b \in Bodies
      PROVE  lists[b] \cup {Image(c) : c \in {d \in With(b, S) : \A e \in lists[b] : ~ Same(d, e)}}
               = {Image(c) : c \in With(b, M \cup S)}
  <2> DEFINE New == {d \in With(b, S) : \A e \in lists[b] : ~ Same(d, e)}
  <2>1. New = With(b, S)
    BY <1>1
  <2>2. With(b, M \cup S) = With(b, M) \cup New
    BY <1>3, <2>1
  <2>3. lists[b] = {Image(c) : c \in With(b, M)}
    BY <1>2
  <2> HIDE DEF New
  <2>4. {Image(c) : c \in With(b, M)} \cup {Image(c) : c \in New} = {Image(c) : c \in With(b, M) \cup New}
    OBVIOUS
  <2> QED
    BY <2>2, <2>3, <2>4 DEF New
<1>5. Enlisted(S, lists) = [b \in Bodies |-> {Image(c) : c \in With(b, M \cup S)}]
  BY <1>4 DEF Enlisted
<1>6. ASSUME NEW b \in Bodies, NEW c \in With(b, M), NEW d \in With(b, S)
      PROVE  ~ Same(c, d) /\ ~ Same(d, c)
  <2>1. ~ Same(d, Image(c))
    BY <1>1, <1>2
  <2>2. ~ Same(d, c)
    BY <2>1, ImageLooks
  <2>3. Same(c, d) <=> Same(d, c)
    BY DEF Same
  <2> QED
    BY <2>2, <2>3
<1>7. Keyed(M \cup S)
  BY <1>1, <1>3, <1>6 DEF Keyed
<1> QED
  BY <1>5, <1>7 DEF Lined

(* Records that change but for their images stay in the lists. *)
LEMMA LinedAlike ==
    ASSUME NEW M, NEW lists, Lined(M, lists), Keyed(M), NEW f, DOMAIN f = M,
           \A c \in M : Image(f[c]) = Image(c), NEW N, N = {f[c] : c \in M}
    PROVE  Lined(N, lists) /\ Keyed(N)
<1>1. \A c \in M : BodiesOf(f[c]) = BodiesOf(c)
  BY ImageLooks
<1>2. \A b : With(b, N) = {f[c] : c \in With(b, M)}
  BY <1>1 DEF With
<1>3. \A b : {Image(c) : c \in With(b, N)} = {Image(c) : c \in With(b, M)}
  <2> SUFFICES ASSUME NEW b PROVE {Image(c) : c \in With(b, N)} = {Image(c) : c \in With(b, M)}
    OBVIOUS
  <2>1. \A c \in With(b, M) : Image(f[c]) = Image(c)
    BY DEF With
  <2>2. {Image(c) : c \in {f[d] : d \in With(b, M)}} = {Image(c) : c \in With(b, M)}
    <3> HIDE DEF With
    <3>1. \A x \in {f[d] : d \in With(b, M)} : \E c \in With(b, M) : Image(x) = Image(c)
      BY <2>1
    <3>2. \A c \in With(b, M) : \E x \in {f[d] : d \in With(b, M)} : Image(x) = Image(c)
      BY <2>1
    <3> QED
      BY <3>1, <3>2
  <2> QED
    BY <1>2, <2>2
<1>4. ASSUME NEW b \in Bodies, NEW x \in With(b, N), NEW y \in With(b, N), Same(x, y) PROVE x = y
  <2>1. PICK c \in With(b, M), d \in With(b, M) : x = f[c] /\ y = f[d]
    BY <1>2
  <2>2. c \in M /\ d \in M
    BY DEF With
  <2>3. Same(c, d)
    <3>1. Same(Image(x), Image(y))
      BY <1>4, ImageLooks
    <3>2. Same(Image(c), Image(d))
      BY <2>1, <2>2, <3>1
    <3> QED
      BY <3>2, ImageLooks
  <2> QED
    BY <2>1, <2>3 DEF Keyed
<1> QED
  BY <1>3, <1>4 DEF Lined, Keyed

(* One constraint that is put into the lists under its image. *)
LEMMA OneEnlisted ==
    ASSUME NEW M, NEW lists, Lined(M, lists), Keyed(M), NEW c, Image(c) = c, NEW d, Image(d) = c,
           Clashing({c}, lists) = {}
    PROVE  Lined(M \cup {d}, Enlisted({c}, lists)) /\ Keyed(M \cup {d})
<1>1. BodiesOf(d) = BodiesOf(c) /\ \A e : Same(d, e) <=> Same(c, e)
  BY ImageLooks
<1>2. \A b : With(b, {d}) = IF b \in BodiesOf(c) THEN {d} ELSE {}
  BY <1>1 DEF With
<1>3. \A b : With(b, {c}) = IF b \in BodiesOf(c) THEN {c} ELSE {}
  BY DEF With
<1>4. \A b \in Bodies : b \in BodiesOf(c) => \A e \in lists[b] : ~ Same(c, e)
  BY <1>3 DEF Clashing
<1>5. Clashing({d}, lists) = {}
  <2>1. \A b \in Bodies : \A x \in With(b, {d}) : \A e \in lists[b] \cup (With(b, {d}) \ {x}) : ~ Same(x, e)
    BY <1>1, <1>2, <1>4
  <2> QED
    BY <2>1 DEF Clashing
<1>6. ASSUME NEW b \in Bodies
      PROVE  {Image(x) : x \in {y \in With(b, {d}) : \A e \in lists[b] : ~ Same(y, e)}}
               = {Image(x) : x \in {y \in With(b, {c}) : \A e \in lists[b] : ~ Same(y, e)}}
  <2>1. CASE b \notin BodiesOf(c)
    BY <1>2, <1>3, <2>1
  <2>2. CASE b \in BodiesOf(c)
    <3>1. With(b, {d}) = {d} /\ With(b, {c}) = {c}
      BY <1>2, <1>3, <2>2
    <3>2. {y \in {d} : \A e \in lists[b] : ~ Same(y, e)} = {d}
      BY <1>1, <1>4, <2>2
    <3>3. {y \in {c} : \A e \in lists[b] : ~ Same(y, e)} = {c}
      BY <1>4, <2>2
    <3>4. {Image(x) : x \in {d}} = {Image(x) : x \in {c}}
      OBVIOUS
    <3> QED
      BY <3>1, <3>2, <3>3, <3>4
  <2> QED
    BY <2>1, <2>2
<1>7. Enlisted({d}, lists) = Enlisted({c}, lists)
  BY <1>6 DEF Enlisted
<1> QED
  BY <1>5, <1>7, EnlistedIs

(* While the lists are complete, what is looked up in them is found. *)
LEMMA ListedIs ==
    ASSUME Sets, "bodcon" \notin failed, NEW r \in Ranks, NEW S, S \subseteq Members(r), NEW b \in Bodies
    PROVE  Listed(r, b, S) = With(b, S)
<1>1. bodcon[r] = [x \in Bodies |-> {Image(c) : c \in With(x, Members(r))}]
  BY DEF Sets, Lined
<1>2. \A c \in With(b, S) : c \in With(b, Members(r))
  BY DEF With
<1> QED
  BY <1>1, <1>2 DEF Listed

(* Constraints of S that are attached to one of the bodies in G *)
Of(S, G) == {c \in S : BodiesOf(c) \cap G # {}}

(* While they are, what is removed with the bodies G is all there is of them;
   what C loses to its parts is part of that. *)
LEMMA RemovedIs ==
    ASSUME Sets, "bodcon" \notin failed, NEW p \in Ranks, NEW G, G \subseteq Bodies,
           NEW C, C \subseteq G, RemoveBodies(p, G, C)
    PROVE  /\ con' = [con EXCEPT ![p] = (@ \ Of(con[p], G)) \cup Transferred(Of(con[p], C))]
           /\ conext' = [conext EXCEPT ![p] = @ \ Of(conext[p], G)]
           /\ bodcon' = [bodcon EXCEPT ![p] =
                Enlisted(Transferred(Of(con[p], C)), Unlisted(Of(con[p], G) \cup Of(conext[p], G), @))]
<1> DEFINE mine == UNION {Listed(p, b, con[p]) : b \in G}
           images == UNION {Listed(p, b, conext[p]) : b \in G}
           moved == UNION {Listed(p, b, mine) : b \in C}
<1>1. \A b \in G : Listed(p, b, con[p]) = With(b, con[p]) /\ Listed(p, b, conext[p]) = With(b, conext[p])
  BY ListedIs DEF Members
<1>2. mine = Of(con[p], G) /\ images = Of(conext[p], G)
  BY <1>1 DEF With, Of
<1>3. mine \subseteq Members(p)
  BY <1>2 DEF Members, Of
<1>4. \A b \in C : Listed(p, b, mine) = With(b, mine)
  <2> HIDE DEF mine
  <2> QED
    BY <1>3, ListedIs
<1>5. moved = Of(con[p], C)
  <2>1. \A c : c \in moved <=> c \in Of(con[p], G) /\ BodiesOf(c) \cap C # {}
    BY <1>2, <1>4 DEF With
  <2> HIDE DEF moved
  <2> QED
    BY <2>1 DEF Of
<1>6. /\ con' = [con EXCEPT ![p] = (@ \ mine) \cup Transferred(moved)]
      /\ conext' = [conext EXCEPT ![p] = @ \ images]
      /\ bodcon' = [bodcon EXCEPT ![p] = Enlisted(Transferred(moved), Unlisted(mine \cup images, @))]
  BY DEF RemoveBodies
<1> HIDE DEF mine, images, moved
<1> QED
  BY <1>2, <1>5, <1>6

-----------------------------------------------------------------------------
(* The rest of the invariant, block by block. *)
LEMMA RForms ==
    /\ RInv => Shape /\ Forms /\ Rest
    /\ RNext => Forms'
<1> QED
  BY FormsHold, FormsHoldNext DEF RInv, RNext, IInv

(* Constraints without images come and go unseen. *)
LEMMA UnseenRest ==
    ASSUME RInv, RNext, NEW p \in Ranks, phase \in {"pending", "detect", "callback"},
           UNCHANGED <<phase, conext, dbdrem, inbox, outbox>>,
           done' = done \/ phase # "detect",
           failed' \subseteq failed \cup {"bodcon", "slave"},
           \A q \in Ranks \ {p} : con'[q] = con[q],
           {c \in con'[p] : c.ext # {}} = {c \in con[p] : c.ext # {}}
    PROVE  Rest'
<1>1. Shape /\ Forms /\ Rest /\ Shape' /\ Forms'
  BY RForms DEF RNext
<1>2. \A q, r \in Ranks : \A c : c \in con'[q] /\ r \in c.ext <=> c \in con[q] /\ r \in c.ext
  <2>1. ASSUME NEW c PROVE c \in con'[p] /\ c.ext # {} <=> c \in con[p] /\ c.ext # {}
    OBVIOUS
  <2> QED
    BY <2>1
<1>3. ASSUME NEW r \in Ranks
      PROVE  Seen(r)' = Seen(r) /\ Coming(r)' = Coming(r) /\ View(r)' = View(r)
  <2>1. Seen(r)' = Seen(r)
    BY <1>1 DEF Forms
  <2>2. Coming(r)' = Coming(r)
    <3>1. CASE phase = "detect"
      BY <3>1 DEF Coming, Glue
    <3>2. CASE phase # "detect"
      BY <1>1, <3>2 DEF Forms
    <3> QED
      BY <3>1, <3>2
  <2> QED
    BY <2>1, <2>2 DEF View
<1>4. ASSUME NEW q \in Ranks, NEW r \in Ranks PROVE Due(q, r)' = Due(q, r)
  <2>1. CASE phase = "callback"
    <3>1. Due(q, r) = dbdrem[q][r]
      BY <1>1, <2>1 DEF Forms
    <3>2. Due(q, r)' = dbdrem'[q][r]
      BY <1>1, <2>1 DEF Forms
    <3> QED
      BY <3>1, <3>2
  <2>2. CASE phase # "callback"
    <3>1. Due(q, r) = {}
      BY <1>1, <2>2 DEF Forms
    <3>2. Due(q, r)' = {}
      BY <1>1, <2>2 DEF Forms
    <3> QED
      BY <3>1, <3>2
  <2> QED
    BY <2>1, <2>2
<1>5. ASSUME NEW r \in Ranks PROVE Claims(r)' = Claims(r) /\ Awaited(r)' = Awaited(r)
  <2>1. Claims(r) = {g \in Images : \E q \in Ranks : \E c \in con[q] : r \in c.ext /\ g = Image(c)}
    BY <1>1, ClaimsForm
  <2>2. Claims(r)' = {g \in Images : \E q \in Ranks : \E c \in con'[q] : r \in c.ext /\ g = Image(c)}
    BY <1>1, ClaimsFormNext
  <2> QED
    BY <1>2, <1>4, <2>1, <2>2 DEF Awaited
<1>6. Matching'
  BY <1>1, <1>3, <1>5 DEF Rest, Matching
<1>7. Ranked'
  BY <1>1, <1>2, <1>3, <1>4 DEF Rest, Ranked, RankOf
<1>8. Transit'
  <2>1. phase = "detect" => \A r \in Ranks : Sender(r)'
    <3> SUFFICES ASSUME phase = "detect", NEW r \in Ranks, NEW e \in Coming(r)'
                 PROVE  \E c \in con'[e.rank] : r \in c.ext /\ Image(c) = Image(e) /\ c.new
      BY DEF Sender
    <3>1. e \in Coming(r) /\ e.rank \in Ranks
      BY <1>3 DEF Coming, External
    <3>2. Sender(r)
      BY <1>1 DEF Rest, Transit
    <3> QED
      BY <1>2, <3>1, <3>2 DEF Sender
  <2>2. \A r \in Ranks : phase' \in {"import", "settle", "detect"} => Sender(r)'
    BY <2>1
  <2> QED
    BY <2>2 DEF Transit
<1>9. Cleared' /\ Found'
  BY <1>1 DEF Rest, Cleared, Found
<1> QED
  BY <1>6, <1>7, <1>8, <1>9 DEF Rest

(* A pending link is inserted without images. *)
LEMMA PutPendingRest == ASSUME RInv, RNext, NEW p \in Ranks, PutPending(p) PROVE Rest'
<1>1. phase = "pending" /\ UNCHANGED <<phase, done, conext, dbdrem, inbox, outbox>>
  BY InsertedOr
<1>2. Shape
  BY RForms
<1> SUFFICES ASSUME \E kind, m, s, new : Insert(p, kind, m, s, new) PROVE Rest'
  <2>1. CASE failed' = failed \cup {"slave"} /\ UNCHANGED con
    BY <1>1, <2>1, UnseenRest
  <2> QED
    BY <2>1, InsertedOr
<1>3. PICK kind, m, s, new : Insert(p, kind, m, s, new)
  OBVIOUS
<1>4. PICK i \in Ids : con'[p] = con[p] \cup
        {[id |-> i, kind |-> kind, master |-> m, slave |-> s, ext |-> {}, new |-> new]}
  BY <1>2, <1>3, InsertFacts
<1>5. (\A q \in Ranks \ {p} : con'[q] = con[q]) /\ failed' \subseteq failed \cup {"bodcon"}
  BY <1>2, <1>3, InsertFacts
<1>6. {c \in con'[p] : c.ext # {}} = {c \in con[p] : c.ext # {}}
  BY <1>4
<1> QED
  BY <1>1, <1>5, <1>6, UnseenRest

(* So are contacts that are detected and points that are fixed. *)
LEMMA InsertRest ==
    ASSUME RInv, RNext, NEW p \in Ranks,
           (\E t \in Touching : Detect(p, t)) \/ (\E b \in Fixable : FixPoint(p, b))
    PROVE  Rest'
<1>1. /\ \E kind, m, s, new : Insert(p, kind, m, s, new)
      /\ phase \in {"detect", "callback"}
      /\ UNCHANGED <<phase, done, conext, dbdrem, inbox, outbox>>
  BY DEF Detect, FixPoint, Enter
<1>2. Shape
  BY RForms
<1>3. PICK kind, m, s, new : Insert(p, kind, m, s, new)
  BY <1>1
<1>4. PICK i \in Ids : con'[p] = con[p] \cup
        {[id |-> i, kind |-> kind, master |-> m, slave |-> s, ext |-> {}, new |-> new]}
  BY <1>2, <1>3, InsertFacts
<1>5. (\A q \in Ranks \ {p} : con'[q] = con[q]) /\ failed' \subseteq failed \cup {"bodcon"}
  BY <1>2, <1>3, InsertFacts
<1>6. {c \in con'[p] : c.ext # {}} = {c \in con[p] : c.ext # {}}
  BY <1>4
<1> QED
  BY <1>1, <1>5, <1>6, UnseenRest

(* This is where the callback has to be careful. *)
LEMMA DeleteConstraintRest ==
    ASSUME RInv, RNext, Careful, NEW p \in Ranks, NEW c \in con[p], DeleteConstraint(p, c)
    PROVE  Rest'
<1>1. /\ c.ext = {} /\ con'[p] = con[p] \ {c} /\ \A q \in Ranks \ {p} : con'[q] = con[q]
      /\ phase = "callback" /\ UNCHANGED <<phase, done, conext, dbdrem, inbox, outbox, failed>>
  BY RForms DEF DeleteConstraint, Enter, Shape
<1> QED
  BY <1>1, UnseenRest

(* Nothing to do, and nothing changed. *)
LEMMA ReturnRest ==
    ASSUME RInv, RNext, NEW p \in Ranks, DropPending(p) \/ CallbackReturn(p) PROVE Rest'
<1>1. /\ phase \in {"pending", "callback"}
      /\ UNCHANGED <<phase, con, conext, dbdrem, inbox, outbox, failed>>
  BY DEF DropPending, CallbackReturn, Enter
<1> QED
  BY <1>1, UnseenRest

-----------------------------------------------------------------------------
(* A rank that removes constraints turns their claims into removals. *)
LEMMA RetiredViews ==
    ASSUME RInv, RNext, NEW p \in Ranks, NEW S, S \subseteq con[p],
           phase \in {"sparsify", "update", "manage"}, UNCHANGED phase, Gone' = Gone,
           \A q \in Ranks \ {p} : con'[q] = con[q],
           con'[p] \subseteq con[p] \ S,
           \A c \in con[p] \ con'[p] : c \in S \/ ~ Spared(c),
           \A c \in S : Spared(c),
           NEW r \in Ranks, View(r)' = View(r),
           \A q \in Ranks : Due(q, r)' = IF q = p THEN Due(q, r) \cup {c.id : c \in {d \in S : r \in d.ext}}
                                                  ELSE Due(q, r)
    PROVE  Matched(View(r), Claims(r), Awaited(r))' /\ RankOf(r)'
<1>1. Shape /\ Forms /\ Rest /\ Shape' /\ Forms' /\ IInv
  BY RForms DEF RNext, RInv
<1> DEFINE X == {Image(c) : c \in {d \in S : r \in d.ext}}
<1>2. \A q \in Ranks : Owned(q) = con[q] /\ Owned(q)' = con'[q]
  BY <1>1 DEF Forms
<1>3. \A c : Spared(c)' <=> Spared(c)
  BY DEF Spared
<1>4. \A c \in con[p] : Image(c) \in Images /\ c.id \in Ids /\ Image(c).id = c.id
  <2>1. \A c \in con[p] : c \in Sound
    BY <1>1 DEF Shape
  <2> QED
    BY <2>1, ImageTyped DEF Image
<1>5. Claims(r)' = Claims(r) \ X
  <2>1. ASSUME NEW g \in Claims(r)' PROVE g \in Claims(r) \ X
    <3>1. PICK q \in Ranks : \E c \in con'[q] : r \in c.ext /\ Spared(c) /\ g = Image(c)
      BY <1>2, <1>3 DEF Claims
    <3>2. PICK c \in con'[q] : r \in c.ext /\ Spared(c) /\ g = Image(c)
      BY <3>1
    <3>3. c \in con[q] /\ (q = p => c \notin S)
      BY <3>2
    <3>4. g \in Claims(r)
      BY <1>2, <3>2, <3>3 DEF Claims
    <3>5. ASSUME g \in X PROVE FALSE
      <4>1. PICK d \in S : g = Image(d)
        BY <3>5
      <4>2. c.id = d.id
        BY <3>2, <4>1 DEF Image
      <4>3. q = p /\ c = d
        BY <1>1, <1>2, <3>3, <4>1, <4>2, OnePlace
      <4> QED
        BY <3>3, <4>3
    <3> QED
      BY <3>4, <3>5
  <2>2. ASSUME NEW g \in Claims(r), g \notin X PROVE g \in Claims(r)'
    <3>1. g \in Images
      BY DEF Claims
    <3>2. PICK q \in Ranks : \E c \in con[q] : r \in c.ext /\ Spared(c) /\ g = Image(c)
      BY <1>2 DEF Claims
    <3>3. PICK c \in con[q] : r \in c.ext /\ Spared(c) /\ g = Image(c)
      BY <3>2
    <3>4. c \in con'[q]
      BY <2>2, <3>3
    <3> QED
      BY <1>2, <1>3, <3>1, <3>3, <3>4 DEF Claims
  <2> QED
    BY <2>1, <2>2
<1>6. X \subseteq Claims(r)
  BY <1>2, <1>4 DEF Claims
<1>7. Awaited(r)' = Awaited(r) \cup {g.id : g \in X}
  <2>1. {g.id : g \in X} = {c.id : c \in {d \in S : r \in d.ext}}
    BY <1>4
  <2>2. {c.id : c \in {d \in S : r \in d.ext}} \subseteq Ids
    BY <1>4
  <2> HIDE DEF X
  <2> QED
    BY <2>1, <2>2 DEF Awaited
<1>8. Matched(View(r), Claims(r), Awaited(r)) /\ RankOf(r)
  BY <1>1 DEF Rest, Matching, Ranked
<1>9. Matched(View(r), Claims(r)', Awaited(r)')
  <2> HIDE DEF X
  <2> QED
    BY <1>5, <1>6, <1>7, <1>8, MatchedRetired
<1>10. Matched(View(r), Claims(r), Awaited(r))'
  BY <1>9 DEF Matched, Apart
<1>11. RankOf(r)'
  <2> SUFFICES ASSUME NEW e \in View(r), NEW q \in Ranks
      PROVE  /\ \A c \in con'[q] : r \in c.ext /\ c.id = e.id => e.rank = q
             /\ e.id \in Due(q, r)' => e.rank = q
    BY DEF RankOf
  <2>1. /\ \A c \in con[q] : r \in c.ext /\ c.id = e.id => e.rank = q
        /\ e.id \in Due(q, r) => e.rank = q
    BY <1>8 DEF RankOf
  <2> QED
    BY <2>1
<1> QED
  BY <1>10, <1>11

(* Contacts that separate: their images are awaited to go from now on. *)
LEMMA UpdateConstraintsRest ==
    ASSUME RInv, RNext, NEW p \in Ranks, UpdateConstraints(p) PROVE Rest'
<1>1. Shape /\ Forms /\ Rest /\ Shape' /\ Forms'
  BY RForms DEF RNext
<1>2. PICK gone \in SUBSET {c \in con[p] : c.kind = "CONTACT"} :
        /\ con' = [con EXCEPT ![p] = @ \ gone]
        /\ dbdrem' = [dbdrem EXCEPT ![p] = Scheduled(p, gone)]
        /\ Send(p, [q \in Ranks |-> [NoData EXCEPT
                !.update = {c.id : c \in {d \in con[p] \ gone : q \in d.ext}}]])
  BY DEF UpdateConstraints
<1>3. phase = "update" /\ UNCHANGED <<phase, conext, inbox, failed>>
  BY DEF UpdateConstraints, Enter
<1>4. con'[p] = con[p] \ gone /\ \A q \in Ranks \ {p} : con'[q] = con[q]
  BY <1>1, <1>2 DEF Shape
<1>5. gone \subseteq con[p]
  OBVIOUS
<1>6. Gone = {} /\ Gone' = {}
  BY <1>1, <1>3 DEF Forms
<1>7. \A r \in Ranks : Seen(r)' = Seen(r) /\ Coming(r) = {} /\ Coming(r)' = {}
  BY <1>1, <1>3 DEF Forms
<1>8. ASSUME NEW r \in Ranks, NEW q \in Ranks
      PROVE  Due(q, r)' = IF q = p THEN Due(q, r) \cup {c.id : c \in {d \in gone : r \in d.ext}}
                                   ELSE Due(q, r)
  <2>1. Due(q, r) = dbdrem[q][r] /\ Due(q, r)' = dbdrem'[q][r]
    BY <1>1, <1>3 DEF Forms
  <2>2. dbdrem'[p][r] = dbdrem[p][r] \cup {c.id : c \in {d \in gone : r \in d.ext}}
    BY <1>1, <1>2 DEF Shape, TypeOK, Scheduled
  <2>3. q # p => dbdrem'[q][r] = dbdrem[q][r]
    BY <1>1, <1>2 DEF Shape, TypeOK
  <2> QED
    BY <2>1, <2>2, <2>3
<1>9. ASSUME NEW r \in Ranks
      PROVE  Matched(View(r), Claims(r), Awaited(r))' /\ RankOf(r)'
  <2>1. View(r)' = View(r) /\ \A c : Spared(c)
    BY <1>6, <1>7 DEF View, Spared
  <2> QED
    BY <1>3, <1>4, <1>5, <1>6, <1>8, <2>1, RetiredViews
<1>10. Matching' /\ Ranked'
  BY <1>7, <1>9 DEF Matching, Ranked
<1>11. Transit'
  <2> SUFFICES ASSUME NEW q \in Ranks, NEW r \in Ranks, NEW i \in outbox'[q][r].update
               PROVE  \E c \in con'[q] : c.id = i /\ r \in c.ext
    BY <1>3 DEF Transit
  <2>1. CASE q = p
    <3>1. outbox'[p][r].update = {c.id : c \in {d \in con[p] \ gone : r \in d.ext}}
      BY <1>1, <1>2 DEF Send, NoData, Shape, Post
    <3> QED
      BY <1>4, <2>1, <3>1
  <2>2. CASE q # p
    <3>1. outbox'[q][r] = outbox[q][r]
      BY <1>1, <1>2, <2>2 DEF Send, Shape, Post
    <3> QED
      BY <1>1, <1>3, <1>4, <2>2, <3>1 DEF Rest, Transit
  <2> QED
    BY <2>1, <2>2
<1>12. Cleared' /\ Found'
  BY <1>1, <1>3 DEF Rest, Cleared, Found
<1> QED
  BY <1>10, <1>11, <1>12 DEF Rest

(* In manage, every rank has been told of all that is gone. *)
LEMMA GoneIs ==
    ASSUME Shape, Mail, phase = "manage", NEW r \in Ranks
    PROVE  Gone = Got(r, "bodies")
<1>1. \A p, q \in Ranks : outbox[q][p].bodies = {} /\ inbox[p][q].bodies = inbox[r][q].bodies
  BY DEF Mail, Outgoing, Broadcast
<1>2. Got(r, "bodies") \subseteq Bodies
  BY GotTyped
<1> QED
  BY <1>1, <1>2 DEF Gone, Got

(* Manage removes what is left of the bodies that are gone, and schedules the
   removal of images of links that fail. *)
LEMMA ManageRest ==
    ASSUME RInv, RNext, Sets, "bodcon" \notin failed, NEW p \in Ranks, Manage(p) PROVE Rest'
<1> DEFINE mine == UNION {Listed(p, b, con[p]) : b \in Got(p, "bodies")}
           images == UNION {Listed(p, b, conext[p]) : b \in Got(p, "bodies")}
<1>1. Shape /\ Forms /\ Rest /\ Shape' /\ Forms' /\ Mail
  BY RForms DEF RNext, RInv
<1>2. PICK broken \in SUBSET {c \in con[p] \ mine : c.kind \in {"RIGLNK", "FIXPNT"}} :
        /\ con' = [con EXCEPT ![p] = (@ \ mine) \ broken]
        /\ dbdrem' = [dbdrem EXCEPT ![p] = Scheduled(p, broken)]
  BY DEF Manage
<1>3. /\ phase = "manage" /\ UNCHANGED <<phase, inbox, outbox, failed>> /\ done' = done \cup {p}
      /\ conext' = [conext EXCEPT ![p] = @ \ images]
  BY DEF Manage, Enter, Leave
<1>0. /\ Got(p, "bodies") \subseteq Bodies
      /\ \A b \in Bodies : Listed(p, b, con[p]) = With(b, con[p])
                          /\ Listed(p, b, conext[p]) = With(b, conext[p])
  BY <1>1, GotTyped, ListedIs DEF Members
<1>4. Gone = Got(p, "bodies") /\ Gone' = Gone
  BY <1>1, <1>3, GoneIs DEF Gone
<1>5. \A c : Spared(c)' <=> Spared(c)
  BY <1>4 DEF Spared
<1>6. \A c \in con[p] : c \in mine <=> ~ Spared(c)
  BY <1>0, <1>4 DEF With, Spared
<1>7. \A c \in conext[p] : c \in images <=> ~ Spared(c)
  BY <1>0, <1>4 DEF With, Spared
<1>8. broken \subseteq con[p] /\ \A c \in broken : c \notin mine
  OBVIOUS
<1> HIDE DEF mine, images
<1>9. con'[p] = (con[p] \ mine) \ broken /\ \A q \in Ranks \ {p} : con'[q] = con[q]
  BY <1>1, <1>2 DEF Shape
<1>10. conext'[p] = {e \in conext[p] : Spared(e)} /\ \A q \in Ranks \ {p} : conext'[q] = conext[q]
  BY <1>1, <1>3, <1>7 DEF Shape, TypeOK
<1>11. \A r \in Ranks : Seen(r)' = Seen(r) /\ Coming(r) = {} /\ Coming(r)' = {}
  <2> SUFFICES ASSUME NEW r \in Ranks
               PROVE Seen(r)' = Seen(r) /\ Coming(r) = {} /\ Coming(r)' = {}
    OBVIOUS
  <2>1. Seen(r) = {e \in conext[r] : Spared(e)} /\ Coming(r) = {}
    BY <1>1, <1>3 DEF Forms
  <2>2. Seen(r)' = {e \in conext'[r] : Spared(e)'} /\ Coming(r)' = {}
    BY <1>1, <1>3 DEF Forms
  <2> QED
    BY <1>5, <1>10, <2>1, <2>2
<1>12. ASSUME NEW r \in Ranks, NEW q \in Ranks
      PROVE  Due(q, r)' = IF q = p THEN Due(q, r) \cup {c.id : c \in {d \in broken : r \in d.ext}}
                                   ELSE Due(q, r)
  <2>1. Due(q, r) = dbdrem[q][r] /\ Due(q, r)' = dbdrem'[q][r]
    BY <1>1, <1>3 DEF Forms
  <2>2. dbdrem'[p][r] = dbdrem[p][r] \cup {c.id : c \in {d \in broken : r \in d.ext}}
    BY <1>1, <1>2 DEF Shape, TypeOK, Scheduled
  <2>3. q # p => dbdrem'[q][r] = dbdrem[q][r]
    BY <1>1, <1>2 DEF Shape, TypeOK
  <2> QED
    BY <2>1, <2>2, <2>3
<1>13. ASSUME NEW r \in Ranks
      PROVE  Matched(View(r), Claims(r), Awaited(r))' /\ RankOf(r)'
  <2>1. View(r)' = View(r)
    BY <1>11 DEF View
  <2>2. con'[p] \subseteq con[p] \ broken /\ (\A c \in con[p] \ con'[p] : c \in broken \/ ~ Spared(c))
        /\ \A c \in broken : Spared(c)
    BY <1>6, <1>8, <1>9
  <2> QED
    BY <1>3, <1>4, <1>8, <1>9, <1>12, <2>1, <2>2, RetiredViews
<1>14. Matching' /\ Ranked'
  BY <1>11, <1>13 DEF Matching, Ranked
<1>15. Transit'
  BY <1>3 DEF Transit
<1>16. Cleared'
  <2> SUFFICES ASSUME NEW r \in done', NEW c \in con'[r] \cup conext'[r] PROVE Spared(c)
    BY <1>5 DEF Cleared
  <2>1. CASE r = p
    BY <1>6, <1>9, <1>10, <2>1
  <2>2. CASE r # p
    <3>1. r \in done /\ r \in Ranks
      BY <1>1, <1>3, <2>2 DEF Shape, TypeOK
    <3>2. con'[r] = con[r] /\ conext'[r] = conext[r]
      BY <1>9, <1>10, <2>2, <3>1
    <3> QED
      BY <1>1, <1>3, <3>1, <3>2 DEF Rest, Cleared
  <2> QED
    BY <2>1, <2>2
<1>17. Found'
  BY <1>1, <1>3 DEF Rest, Found
<1> QED
  BY <1>14, <1>15, <1>16, <1>17 DEF Rest

-----------------------------------------------------------------------------
(* What a rank imports is what has been on its way to it. *)
LEMMA ImportedIs ==
    ASSUME RInv, NEW p \in Ranks, p \notin done, phase \in {"settle", "sparsify"}
    PROVE  /\ Imported(p, conext[p]) = View(p) /\ View(p) = conext[p] \cup Glued(p)
           /\ Seen(p) = conext[p] /\ Glued(p) = Coming(p)
           /\ Coming(p) = {e \in External : Image(e) \in inbox[p][e.rank].glue}
<1>1. Shape /\ Forms /\ Rest /\ Mail
  BY RForms DEF RInv
<1>2. Seen(p) = conext[p]
  BY <1>1 DEF Forms
<1>3. \A q \in Ranks : Glue(q, p) = inbox[p][q].glue
  BY <1>1 DEF Mail, Outgoing, Glue
<1>4. Coming(p) = {e \in External : Image(e) \in inbox[p][e.rank].glue}
  BY <1>3 DEF Coming, External
<1> DEFINE It(g, q) == [id |-> g.id, kind |-> g.kind, master |-> g.master, slave |-> g.slave, rank |-> q]
<1>5. ASSUME NEW q \in Ranks, NEW g \in inbox[p][q].glue PROVE It(g, q) \in Coming(p)
  <2>1. g \in Images
    BY <1>1 DEF Shape, Post, Data
  <2>2. It(g, q) \in External /\ Image(It(g, q)) = g /\ It(g, q).rank = q
    BY <2>1 DEF Images, External, Image
  <2> QED
    BY <1>4, <2>2
<1>6. ASSUME NEW e \in Coming(p)
      PROVE \E q \in Ranks : \E g \in inbox[p][q].glue : e = It(g, q)
  <2>1. e \in External /\ Image(e) \in inbox[p][e.rank].glue
    BY <1>4
  <2>2. e = It(Image(e), e.rank) /\ e.rank \in Ranks
    BY <2>1 DEF External, Image
  <2> QED
    BY <2>1, <2>2
<1>7. Glued(p) = Coming(p)
  <2>1. Glued(p) = UNION {{It(g, q) : g \in inbox[p][q].glue} : q \in Ranks}
    BY DEF Glued
  <2> HIDE DEF It
  <2> QED
    BY <1>5, <1>6, <2>1
<1>8. Imported(p, conext[p]) = conext[p] \cup {e \in Coming(p) : e.id \notin IdsOf(conext[p])}
  BY <1>7 DEF Imported
<1>9. \A e \in Coming(p) : e.id \notin IdsOf(conext[p])
  BY <1>1, <1>2 DEF Rest, Matching, IdsOf
<1> QED
  BY <1>2, <1>4, <1>7, <1>8, <1>9 DEF View

(* What came for the new contacts is imported; those that are thinned out are
   to be removed where their images are imported at the same time. *)
LEMMA SparsifyRest ==
    ASSUME RInv, RNext, NEW p \in Ranks, Sparsify(p) PROVE Rest'
<1>1. Shape /\ Forms /\ Rest /\ Shape' /\ Forms' /\ Mail /\ Mail'
  BY RForms DEF RNext, RInv
<1>2. PICK del \in SUBSET {c \in con[p] : c.new} :
        /\ con' = [con EXCEPT ![p] = @ \ del]
        /\ Send(p, [q \in Ranks |-> [NoData EXCEPT !.remove = Scheduled(p, del)[q]]])
  BY DEF Sparsify
<1>0. "conext" \notin failed => "conext" \notin failed'
  <2>1. failed' = failed \cup Clashing(Glued(p), bodcon[p])
    BY DEF Sparsify
  <2> QED
    BY <2>1, FaultsTyped
<1>3. /\ phase = "sparsify" /\ p \notin done /\ done' = done \cup {p}
      /\ UNCHANGED <<phase, inbox>>
      /\ conext' = [conext EXCEPT ![p] = Imported(p, @)]
  BY DEF Sparsify, Enter, Leave
<1>4. con'[p] = con[p] \ del /\ \A q \in Ranks \ {p} : con'[q] = con[q]
  BY <1>1, <1>2 DEF Shape
<1>5. del \subseteq con[p]
  OBVIOUS
<1>6. Gone = {} /\ Gone' = {}
  BY <1>1, <1>3 DEF Forms
<1>7. \A r \in Ranks : Seen(r) = conext[r] /\ Seen(r)' = conext'[r]
  BY <1>1, <1>3 DEF Forms
<1>8. conext'[p] = View(p) /\ \A r \in Ranks \ {p} : conext'[r] = conext[r]
  BY <1>1, <1>3, ImportedIs DEF Shape, TypeOK
<1>9. \A q, r \in Ranks : outbox[q][r].glue = {} /\ outbox'[q][r].glue = {}
  BY <1>1, <1>3 DEF Mail, Outgoing
<1>10. Coming(p)' = {}
  BY <1>3, <1>9 DEF Coming, Glue, External
<1>11. \A r \in Ranks \ {p} : Coming(r)' = Coming(r)
  <2> SUFFICES ASSUME NEW r \in Ranks \ {p} PROVE Coming(r)' = Coming(r)
    OBVIOUS
  <2>1. r \in done' <=> r \in done
    BY <1>3
  <2>2. \A q \in Ranks : Glue(q, r)' = Glue(q, r)
    BY <1>3, <1>9, <2>1 DEF Glue
  <2> QED
    BY <2>2 DEF Coming, External
<1>12. \A r \in Ranks : View(r)' = View(r)
  BY <1>7, <1>8, <1>10, <1>11 DEF View
<1>13. ASSUME NEW r \in Ranks, NEW q \in Ranks
      PROVE  Due(q, r)' = IF q = p THEN Due(q, r) \cup {c.id : c \in {d \in del : r \in d.ext}}
                                   ELSE Due(q, r)
  <2>1. Due(q, r) = outbox[q][r].remove /\ Due(q, r)' = outbox'[q][r].remove
    BY <1>1, <1>3 DEF Forms
  <2>2. outbox'[p][r].remove = Scheduled(p, del)[r]
    BY <1>1, <1>2 DEF Shape, Post, Send, NoData
  <2>3. Scheduled(p, del)[r] = {c.id : c \in {d \in del : r \in d.ext}}
    <3>1. dbdrem[p][r] = {}
      BY <1>1, <1>3 DEF Mail, Scheduling
    <3> QED
      BY <3>1 DEF Scheduled
  <2>4. outbox[p][r].remove = {}
    BY <1>1, <1>3 DEF Mail, NoData
  <2>5. q # p => outbox'[q][r] = outbox[q][r]
    BY <1>1, <1>2 DEF Shape, Post, Send
  <2> QED
    BY <2>1, <2>2, <2>3, <2>4, <2>5
<1>14. ASSUME NEW r \in Ranks
      PROVE  Matched(View(r), Claims(r), Awaited(r))' /\ RankOf(r)'
  <2>1. \A c : Spared(c)
    BY <1>6 DEF Spared
  <2>2. con'[p] \subseteq con[p] \ del /\ \A c \in con[p] \ con'[p] : c \in del
    BY <1>4
  <2> QED
    BY <1>3, <1>4, <1>5, <1>6, <1>12, <1>13, <2>1, <2>2, RetiredViews
<1>15. \A r \in Ranks : \A e \in Seen(r)' : \A f \in Coming(r)' : e.id # f.id
  BY <1>1, <1>7, <1>8, <1>10, <1>11 DEF Rest, Matching
<1>16. Matching' /\ Ranked'
  BY <1>14, <1>15 DEF Matching, Ranked
<1>17. Transit' /\ Cleared' /\ Found'
  BY <1>0, <1>1, <1>3 DEF Transit, Rest, Cleared, Found
<1> QED
  BY <1>16, <1>17 DEF Rest

(* What a rank is told to remove it has. *)
LEMMA RemovalsFound ==
    ASSUME RInv, NEW p \in Ranks, p \notin done, phase \in {"settle", "solve"}
    PROVE  /\ Awaited(p) = Got(p, "remove")
           /\ Got(p, "remove") \subseteq IdsOf(View(p))
<1>1. Shape /\ Forms /\ Rest
  BY RForms
<1>2. \A q \in Ranks : Due(q, p) = inbox[p][q].remove
  BY <1>1 DEF Forms
<1>3. Got(p, "remove") \subseteq Ids
  BY <1>1, GotTyped
<1>4. Awaited(p) = Got(p, "remove")
  BY <1>2, <1>3 DEF Awaited, Got
<1> QED
  BY <1>1, <1>4 DEF Rest, Matching, Matched, IdsOf

(* The images of thinned out contacts go. *)
LEMMA SolveRest ==
    ASSUME RInv, RNext, NEW p \in Ranks, Solve(p) PROVE Rest'
<1>1. Shape /\ Forms /\ Rest /\ Shape' /\ Forms' /\ Mail /\ Mail'
  BY RForms DEF RNext, RInv
<1>2. /\ Lookup(p, Got(p, "remove"), conext[p])
      /\ conext' = [conext EXCEPT ![p] = {e \in @ : e.id \notin Got(p, "remove")}]
      /\ con' = [con EXCEPT ![p] = {[c EXCEPT !.new = FALSE] : c \in @}]
      /\ Send(p, [q \in Ranks |-> [NoData EXCEPT
            !.update = {c.id : c \in {d \in con[p] : q \in d.ext}}]])
  BY DEF Solve
<1>3. /\ phase = "solve" /\ p \notin done /\ done' = done \cup {p}
      /\ UNCHANGED <<phase, inbox>>
  BY DEF Solve, Enter, Leave
<1>4. con'[p] = {[c EXCEPT !.new = FALSE] : c \in con[p]} /\ \A q \in Ranks \ {p} : con'[q] = con[q]
  BY <1>1, <1>2 DEF Shape
<1>5. \A c \in con[p] : /\ [c EXCEPT !.new = FALSE].id = c.id /\ [c EXCEPT !.new = FALSE].ext = c.ext
                        /\ Image([c EXCEPT !.new = FALSE]) = Image(c)
  <2>1. \A c \in con[p] : c \in Constraint
    BY <1>1 DEF Shape, TypeOK
  <2> QED
    BY <2>1 DEF Constraint, Image
<1>6. \A r \in Ranks : /\ Seen(r) = conext[r] /\ Seen(r)' = conext'[r]
                       /\ Coming(r) = {} /\ Coming(r)' = {}
                       /\ View(r) = conext[r] /\ View(r)' = conext'[r]
  BY <1>1, <1>3 DEF Forms, View
<1>7. /\ conext'[p] = {e \in conext[p] : e.id \notin Got(p, "remove")}
      /\ \A r \in Ranks \ {p} : conext'[r] = conext[r]
  BY <1>1, <1>2 DEF Shape, TypeOK
<1>8. \A q \in Ranks : \A c \in con'[q] : \E d \in con[q] :
         d.id = c.id /\ d.ext = c.ext /\ Image(d) = Image(c)
  <2> SUFFICES ASSUME NEW q \in Ranks, NEW c \in con'[q]
      PROVE  \E d \in con[q] : d.id = c.id /\ d.ext = c.ext /\ Image(d) = Image(c)
    OBVIOUS
  <2>1. CASE q = p
    <3>1. PICK d \in con[p] : c = [d EXCEPT !.new = FALSE]
      BY <1>4, <2>1
    <3> QED
      BY <1>5, <2>1, <3>1
  <2> QED
    BY <1>4, <2>1
<1>9. \A q \in Ranks : \A d \in con[q] : \E c \in con'[q] :
         d.id = c.id /\ d.ext = c.ext /\ Image(d) = Image(c)
  <2> SUFFICES ASSUME NEW q \in Ranks, NEW d \in con[q]
      PROVE  \E c \in con'[q] : d.id = c.id /\ d.ext = c.ext /\ Image(d) = Image(c)
    OBVIOUS
  <2>1. CASE q = p
    <3>1. [d EXCEPT !.new = FALSE] \in con'[q]
      BY <1>4, <2>1
    <3> QED
      BY <1>5, <2>1, <3>1
  <2> QED
    BY <1>4, <2>1
<1>10. \A r \in Ranks : Claims(r)' = Claims(r)
  <2> SUFFICES ASSUME NEW r \in Ranks PROVE Claims(r)' = Claims(r)
    OBVIOUS
  <2>1. Claims(r) = {g \in Images : \E q \in Ranks : \E c \in con[q] : r \in c.ext /\ g = Image(c)}
    BY <1>1, <1>3, ClaimsForm
  <2>2. Claims(r)' = {g \in Images : \E q \in Ranks : \E c \in con'[q] : r \in c.ext /\ g = Image(c)}
    BY <1>1, <1>3, ClaimsFormNext
  <2> QED
    BY <1>8, <1>9, <2>1, <2>2
<1>11. ASSUME NEW q \in Ranks, NEW r \in Ranks
       PROVE Due(q, r)' = IF r = p THEN {} ELSE Due(q, r)
  <2>1. Due(q, r) = (IF r \in done THEN {} ELSE inbox[r][q].remove)
    BY <1>1, <1>3 DEF Forms
  <2>2. Due(q, r)' = (IF r \in done' THEN {} ELSE inbox'[r][q].remove)
    BY <1>1, <1>3 DEF Forms
  <2> QED
    BY <1>3, <2>1, <2>2
<1>12. ASSUME NEW r \in Ranks PROVE Matched(View(r), Claims(r), Awaited(r))'
  <2>0. Matched(View(r), Claims(r), Awaited(r))
    BY <1>1 DEF Rest, Matching
  <2>1. CASE r = p
    <3>1. Awaited(p) = Got(p, "remove")
      BY <1>3, RemovalsFound
    <3>2. Awaited(p)' = {}
      BY <1>11 DEF Awaited
    <3>3. Claims(p) = {g \in Claims(p) : g.id \notin Awaited(p)}
      BY <2>0, <2>1 DEF Matched
    <3>4. View(p)' = {e \in View(p) : e.id \notin Awaited(p)}
      BY <1>6, <1>7, <3>1
    <3>5. Matched(View(p)', Claims(p), {})
      <4>1. {} = Awaited(p) \ Awaited(p)
        OBVIOUS
      <4> QED
        BY <2>0, <2>1, <3>3, <3>4, <4>1, MatchedDropped
    <3> QED
      BY <1>10, <2>1, <3>2, <3>5 DEF Matched, Apart
  <2>2. CASE r # p
    <3>1. View(r)' = View(r) /\ Claims(r)' = Claims(r) /\ Awaited(r)' = Awaited(r)
      BY <1>6, <1>7, <1>10, <1>11, <2>2 DEF Awaited
    <3> QED
      BY <2>0, <3>1
  <2> QED
    BY <2>1, <2>2
<1>13. Matching'
  BY <1>6, <1>12 DEF Matching
<1>14. Ranked'
  <2> SUFFICES ASSUME NEW r \in Ranks PROVE RankOf(r)'
    BY DEF Ranked
  <2>1. RankOf(r)
    BY <1>1, <1>3 DEF Rest, Ranked
  <2>2. View(r)' \subseteq View(r)
    BY <1>6, <1>7
  <2>3. \A q \in Ranks : Due(q, r)' \subseteq Due(q, r)
    BY <1>11
  <2> QED
    BY <1>8, <2>1, <2>2, <2>3 DEF RankOf
<1>15. Transit'
  <2> SUFFICES ASSUME NEW q \in Ranks, NEW r \in Ranks, NEW i \in outbox'[q][r].update
               PROVE  \E c \in con'[q] : c.id = i /\ r \in c.ext
    BY <1>3 DEF Transit
  <2>1. \E d \in con[q] : d.id = i /\ r \in d.ext
    <3>1. CASE q = p
      <4>1. outbox'[p][r].update = {c.id : c \in {d \in con[p] : r \in d.ext}}
        BY <1>1, <1>2 DEF Send, NoData, Shape, Post
      <4> QED
        BY <3>1, <4>1
    <3>2. CASE q # p
      <4>1. outbox'[q][r] = outbox[q][r]
        BY <1>1, <1>2, <3>2 DEF Send, Shape, Post
      <4> QED
        BY <1>1, <1>3, <4>1 DEF Rest, Transit
    <3> QED
      BY <3>1, <3>2
  <2> QED
    BY <1>9, <2>1
<1>16. Found'
  <2>1. Got(p, "remove") \subseteq IdsOf(conext[p])
    BY <1>3, <1>6, RemovalsFound
  <2> QED
    BY <1>1, <1>2, <2>1 DEF Lookup, Unknown, Rest, Found
<1>17. Cleared'
  BY <1>3 DEF Cleared
<1> QED
  BY <1>13, <1>14, <1>15, <1>16, <1>17 DEF Rest

-----------------------------------------------------------------------------
(* New contacts get their images. *)
LEMMA GlueNewRest ==
    ASSUME RInv, RNext, NEW p \in Ranks, GlueNew(p) PROVE Rest'
<1> DEFINE fresh == {c \in con[p] : c.new}
           Lab(c) == [c EXCEPT !.ext = Beyond(p, c)]
           Sent(r) == {e \in External : e.rank = p /\ \E c \in fresh : r \in Beyond(p, c) /\ Image(e) = Image(c)}
<1>1. Shape /\ Forms /\ Rest /\ Shape' /\ Forms' /\ Mail /\ Mail' /\ IInv /\ News
  BY RForms DEF RNext, RInv
<1>2. /\ con' = [con EXCEPT ![p] = (@ \ fresh) \cup {Lab(c) : c \in fresh}]
      /\ Send(p, [q \in Ranks |-> [NoData EXCEPT
                !.glue = {Image(c) : c \in {d \in fresh : q \in Beyond(p, d)}}]])
  BY DEF GlueNew
<1>3. /\ phase = "detect" /\ p \notin done /\ done' = done \cup {p}
      /\ UNCHANGED <<phase, inbox, conext, dbdrem, failed>>
  BY DEF GlueNew, Enter, Leave
<1>4. \A c \in con[p] : c.new => c.ext = {}
  BY <1>1, <1>3 DEF News
<1>5. \A c \in con[p] : c \in Sound /\ c \in Constraint /\ c.id \in Ids /\ Image(c) \in Images
  BY <1>1, ImageTyped DEF Shape, Sound
<1>6. \A c \in con[p] : /\ Beyond(p, c) \in SUBSET Ranks /\ p \notin Beyond(p, c)
  BY <1>1, <1>5, BeyondTyped
<1> HIDE DEF fresh
<1>7. fresh \subseteq con[p] /\ \A c \in con[p] : c \in fresh <=> c.new
  BY DEF fresh
<1>8. \A c \in fresh : Lab(c).id = c.id /\ Lab(c).ext = Beyond(p, c) /\ Image(Lab(c)) = Image(c) /\ Lab(c).new
  BY <1>5, <1>6, <1>7 DEF Constraint, Image
<1> HIDE DEF Lab
<1>9. con'[p] = (con[p] \ fresh) \cup {Lab(c) : c \in fresh} /\ \A q \in Ranks \ {p} : con'[q] = con[q]
  BY <1>1, <1>2 DEF Shape
<1>10. \A r \in Ranks : /\ Seen(r) = conext[r] /\ Seen(r)' = conext[r]
  BY <1>1, <1>3 DEF Forms
<1>11. \A q, r \in Ranks : Due(q, r) = {} /\ Due(q, r)' = {}
  BY <1>1, <1>3 DEF Forms
<1>12. \A q, r \in Ranks : Glue(q, r) = outbox[q][r].glue /\ Glue(q, r)' = outbox'[q][r].glue
  BY <1>1, <1>3 DEF Glue, Mail, Incoming
<1>13. ASSUME NEW r \in Ranks PROVE Coming(r)' = Coming(r) \cup Sent(r)
  <2>1. outbox[p][r].glue = {}
    BY <1>1, <1>3 DEF Mail, NoData
  <2>2. outbox'[p][r].glue = {Image(c) : c \in {d \in fresh : r \in Beyond(p, d)}}
    BY <1>1, <1>2 DEF Shape, Post, Send, NoData
  <2>3. \A q \in Ranks \ {p} : outbox'[q][r] = outbox[q][r]
    BY <1>1, <1>2 DEF Shape, Post, Send
  <2>4. Coming(r) = {e \in External : Image(e) \in outbox[e.rank][r].glue}
    BY <1>12 DEF Coming, External
  <2>5. Coming(r)' = {e \in External : Image(e) \in outbox'[e.rank][r].glue}
    BY <1>12 DEF Coming, External
  <2>6. ASSUME NEW e \in External
        PROVE Image(e) \in outbox'[e.rank][r].glue <=>
                Image(e) \in outbox[e.rank][r].glue \/ e \in Sent(r)
    <3>1. e.rank \in Ranks
      BY DEF External
    <3>2. CASE e.rank = p
      BY <2>1, <2>2, <3>2
    <3>3. CASE e.rank # p
      BY <2>3, <3>1, <3>3
    <3> QED
      BY <3>2, <3>3
  <2>7. Sent(r) \subseteq External
    OBVIOUS
  <2> HIDE DEF Sent
  <2> QED
    BY <2>4, <2>5, <2>6, <2>7
<1>14. \A r \in Ranks : \A f \in Sent(r) :
         f.rank = p /\ f \in External /\
         \E c \in fresh : r \in Beyond(p, c) /\ Image(f) = Image(c) /\ f.id = c.id
  BY DEF Image
<1>15. \A r \in Ranks : \A c \in fresh : r \in Beyond(p, c) => \E f \in Sent(r) : Image(f) = Image(c)
  <2> SUFFICES ASSUME NEW r \in Ranks, NEW c \in fresh, r \in Beyond(p, c)
               PROVE  \E f \in Sent(r) : Image(f) = Image(c)
    OBVIOUS
  <2> DEFINE f == [id |-> c.id, kind |-> c.kind, master |-> c.master, slave |-> c.slave, rank |-> p]
  <2>1. f \in External /\ Image(f) = Image(c) /\ f.rank = p
    BY <1>5, <1>7 DEF External, Image, Constraint
  <2> QED
    BY <2>1
<1> HIDE DEF Sent
<1>16. ASSUME NEW r \in Ranks PROVE Apart(Sent(r))
  <2> SUFFICES ASSUME NEW f \in Sent(r), NEW h \in Sent(r), f.id = h.id PROVE f = h
    BY DEF Apart
  <2>1. PICK c \in fresh : Image(f) = Image(c) /\ f.id = c.id
    BY <1>14
  <2>2. PICK d \in fresh : Image(h) = Image(d) /\ h.id = d.id
    BY <1>14
  <2>3. c \in Owned(p) /\ d \in Owned(p)
    BY <1>7 DEF Owned
  <2>4. c = d
    BY <1>1, <2>1, <2>2, <2>3, OnePlace
  <2>5. f \in External /\ h \in External /\ f.rank = p /\ h.rank = p
    BY <1>14
  <2> QED
    BY <2>1, <2>2, <2>4, <2>5 DEF External, Image
<1>17. ASSUME NEW r \in Ranks, NEW e \in View(r), NEW f \in Sent(r) PROVE e.id # f.id
  <2> SUFFICES ASSUME e.id = f.id PROVE FALSE
    OBVIOUS
  <2>1. PICK c \in fresh : f.id = c.id
    BY <1>14
  <2>2. Awaited(r) = {}
    BY <1>11 DEF Awaited
  <2>3. Image(e) \in Claims(r)
    BY <1>1, <2>2 DEF Rest, Matching, Matched
  <2>4. PICK q \in Ranks : \E d \in con[q] : r \in d.ext /\ Image(e) = Image(d)
    BY <1>1, <1>3, <2>3, ClaimsForm
  <2>5. PICK d \in con[q] : r \in d.ext /\ Image(e) = Image(d)
    BY <2>4
  <2>6. d.id = c.id
    BY <2>1, <2>5 DEF Image
  <2>7. d \in Owned(q) /\ c \in Owned(p)
    BY <1>7 DEF Owned
  <2>8. c = d
    BY <1>1, <2>6, <2>7, OnePlace
  <2> QED
    BY <1>4, <1>7, <2>5, <2>8
<1>18. ASSUME NEW r \in Ranks PROVE View(r)' = View(r) \cup Sent(r)
  BY <1>10, <1>13 DEF View
<1>19. ASSUME NEW r \in Ranks PROVE Claims(r)' = Claims(r) \cup {Image(f) : f \in Sent(r)}
  <2>1. Claims(r) = {g \in Images : \E q \in Ranks : \E c \in con[q] : r \in c.ext /\ g = Image(c)}
    BY <1>1, <1>3, ClaimsForm
  <2>2. Claims(r)' = {g \in Images : \E q \in Ranks : \E c \in con'[q] : r \in c.ext /\ g = Image(c)}
    BY <1>1, <1>3, ClaimsFormNext
  <2>3. ASSUME NEW g \in Claims(r)' PROVE g \in Claims(r) \/ \E f \in Sent(r) : g = Image(f)
    <3>1. PICK q \in Ranks : \E c \in con'[q] : r \in c.ext /\ g = Image(c)
      BY <2>2
    <3>2. PICK c \in con'[q] : r \in c.ext /\ g = Image(c)
      BY <3>1
    <3>3. CASE c \in con[q]
      BY <2>1, <2>2, <3>2, <3>3
    <3>4. CASE c \notin con[q]
      <4>1. PICK d \in fresh : c = Lab(d)
        BY <1>9, <3>4
      <4>2. r \in Beyond(p, d) /\ g = Image(d)
        BY <1>8, <3>2, <4>1
      <4> QED
        BY <1>15, <4>2
    <3> QED
      BY <3>3, <3>4
  <2>4. ASSUME NEW g \in Claims(r) PROVE g \in Claims(r)'
    <3>1. PICK q \in Ranks : \E c \in con[q] : r \in c.ext /\ g = Image(c)
      BY <2>1
    <3>2. PICK c \in con[q] : r \in c.ext /\ g = Image(c)
      BY <3>1
    <3>3. c \in con'[q]
      BY <1>4, <1>7, <1>9, <3>2
    <3> QED
      BY <2>1, <2>2, <3>2, <3>3
  <2>5. ASSUME NEW f \in Sent(r) PROVE Image(f) \in Claims(r)'
    <3>1. PICK c \in fresh : r \in Beyond(p, c) /\ Image(f) = Image(c)
      BY <1>14
    <3>2. Lab(c) \in con'[p] /\ r \in Lab(c).ext /\ Image(f) = Image(Lab(c)) /\ Image(f) \in Images
      BY <1>5, <1>7, <1>8, <1>9, <3>1
    <3> QED
      BY <2>2, <3>2
  <2> QED
    BY <2>3, <2>4, <2>5
<1>20. Matching'
  <2> SUFFICES ASSUME NEW r \in Ranks
      PROVE  /\ Matched(View(r), Claims(r), Awaited(r))'
             /\ \A e \in Seen(r)' : \A f \in Coming(r)' : e.id # f.id
    BY DEF Matching
  <2>1. Matched(View(r), Claims(r), Awaited(r)) /\ \A e \in Seen(r) : \A f \in Coming(r) : e.id # f.id
    BY <1>1 DEF Rest, Matching
  <2>2. Awaited(r)' = Awaited(r)
    BY <1>11 DEF Awaited
  <2>3. Matched(View(r) \cup Sent(r), Claims(r)', Awaited(r))
    BY <1>16, <1>17, <1>19, <2>1, MatchedGained
  <2>4. Matched(View(r), Claims(r), Awaited(r))'
    BY <1>18, <2>2, <2>3 DEF Matched, Apart
  <2>5. \A e \in Seen(r)' : \A f \in Coming(r)' : e.id # f.id
    BY <1>10, <1>13, <1>17, <2>1 DEF View
  <2> QED
    BY <2>4, <2>5
<1>21. Ranked'
  <2> SUFFICES ASSUME NEW r \in Ranks, NEW e \in View(r)', NEW q \in Ranks, NEW c \in con'[q],
                      r \in c.ext, c.id = e.id
               PROVE  e.rank = q
    BY <1>11 DEF Ranked, RankOf
  <2>1. \E d \in con[q] : d.id = e.id /\ (c \in con[q] => r \in d.ext)
    <3>1. CASE c \in con[q]
      BY <3>1
    <3>2. CASE c \notin con[q]
      <4>1. PICK d \in fresh : c = Lab(d)
        BY <1>9, <3>2
      <4> QED
        BY <1>7, <1>8, <1>9, <3>2, <4>1
    <3> QED
      BY <3>1, <3>2
  <2>2. PICK d \in con[q] : d.id = e.id /\ (c \in con[q] => r \in d.ext)
    BY <2>1
  <2>3. CASE e \in Sent(r)
    <3>1. PICK k \in fresh : e.id = k.id
      BY <1>14, <2>3
    <3>2. k \in Owned(p) /\ d \in Owned(q)
      BY <1>7 DEF Owned
    <3> QED
      BY <1>1, <1>14, <2>2, <2>3, <3>1, <3>2, OnePlace
  <2>4. CASE e \in View(r)
    <3>1. CASE c \in con[q]
      BY <1>1, <1>3, <2>2, <2>4, <3>1 DEF Rest, Ranked, RankOf
    <3>2. CASE c \notin con[q]
      <4>1. PICK k \in fresh : c = Lab(k)
        BY <1>9, <3>2
      <4>2. r \in Beyond(p, k) /\ k.id = c.id
        BY <1>8, <4>1
      <4>3. PICK f \in Sent(r) : Image(f) = Image(k)
        BY <1>15, <4>2
      <4>4. f.id = e.id
        BY <4>2, <4>3 DEF Image
      <4> QED
        BY <1>17, <2>4, <4>4
    <3> QED
      BY <3>1, <3>2
  <2> QED
    BY <1>18, <2>3, <2>4
<1>22. Transit'
  <2>1. ASSUME NEW r \in Ranks PROVE Sender(r)'
    <3> SUFFICES ASSUME NEW e \in Coming(r)'
                 PROVE  \E c \in con'[e.rank] : r \in c.ext /\ Image(c) = Image(e) /\ c.new
      BY DEF Sender
    <3>1. CASE e \in Sent(r)
      <4>1. PICK c \in fresh : r \in Beyond(p, c) /\ Image(e) = Image(c)
        BY <1>14, <3>1
      <4> QED
        BY <1>8, <1>9, <1>14, <3>1, <4>1
    <3>2. CASE e \in Coming(r)
      <4>1. PICK c \in con[e.rank] : r \in c.ext /\ Image(c) = Image(e) /\ c.new
        BY <1>1, <1>3, <3>2 DEF Rest, Transit, Sender
      <4>2. e.rank \in Ranks
        BY <3>2 DEF Coming, External
      <4>3. e.rank # p
        BY <1>4, <4>1
      <4> QED
        BY <1>9, <4>1, <4>2, <4>3
    <3> QED
      BY <1>13, <3>1, <3>2
  <2> QED
    BY <1>3, <2>1 DEF Transit
<1>23. Cleared' /\ Found'
  BY <1>1, <1>3 DEF Cleared, Rest, Found
<1> QED
  BY <1>20, <1>21, <1>22, <1>23 DEF Rest

-----------------------------------------------------------------------------
(* Bodies that leave take claims and images away, at once in what is counted. *)
LEMMA StepEndRest ==
    ASSUME RInv, RNext, Sets, "bodcon" \notin failed, NEW p \in Ranks, StepEnd(p) PROVE Rest'
<1>1. Shape /\ Forms /\ Rest /\ Shape' /\ Forms' /\ Mail /\ Mail'
  BY RForms DEF RNext, RInv
<1>2. /\ phase = "finish" /\ p \notin done /\ done' = done \cup {p}
      /\ UNCHANGED <<phase, inbox, dbdrem>>
      /\ Lookup(p, Got(p, "update"), conext[p])
  BY DEF StepEnd, Enter, Leave
<1>3. PICK out \in SUBSET {b \in Lost \cap alive : home[b] = p} :
      \E cracked \in SUBSET {b \in DOMAIN Parts \cap alive : home[b] = p /\ b \notin out} :
        /\ RemoveBodies(p, out \cup cracked, cracked)
        /\ Send(p, [q \in Ranks |-> [NoData EXCEPT
                !.bodies = out \cup cracked, !.parts = {Parts[b] : b \in cracked}]])
  BY DEF StepEnd
<1>4. PICK cracked \in SUBSET {b \in DOMAIN Parts \cap alive : home[b] = p /\ b \notin out} :
        /\ RemoveBodies(p, out \cup cracked, cracked)
        /\ Send(p, [q \in Ranks |-> [NoData EXCEPT
                !.bodies = out \cup cracked, !.parts = {Parts[b] : b \in cracked}]])
  BY <1>3
<1> DEFINE G == out \cup cracked
<1>5. G \subseteq Bodies
  BY <1>1 DEF Shape, TypeOK
<1>0. cracked \subseteq G /\ RemoveBodies(p, G, cracked)
  BY <1>4
<1> HIDE DEF G
<1>01. con' = [con EXCEPT ![p] = (@ \ Of(con[p], G)) \cup Transferred(Of(con[p], cracked))]
  BY <1>0, <1>5, RemovedIs
<1>02. conext' = [conext EXCEPT ![p] = @ \ Of(conext[p], G)]
  BY <1>0, <1>5, RemovedIs
<1> DEFINE mine == Of(con[p], G)
           images == Of(conext[p], G)
           kept == Transferred(Of(con[p], cracked))
<1>6. \A r \in Ranks : outbox'[p][r].bodies = G
  BY <1>1, <1>4 DEF G, Send, NoData, Shape, Post
<1>7. \A q, r \in Ranks : q # p => outbox'[q][r] = outbox[q][r]
  BY <1>1, <1>4 DEF Send, Shape, Post
<1>8. /\ con'[p] = (con[p] \ mine) \cup kept /\ \A q \in Ranks \ {p} : con'[q] = con[q]
      /\ conext'[p] = conext[p] \ images
      /\ \A q \in Ranks \ {p} : conext'[q] = conext[q]
  <2>1. DOMAIN con = Ranks /\ DOMAIN conext = Ranks
    BY <1>1 DEF Shape, TypeOK
  <2> QED
    BY <1>01, <1>02, <2>1
<1>9. \A c \in con[p] : c \in mine <=> BodiesOf(c) \cap G # {}
  BY DEF Of
<1>10. \A c \in conext[p] : c \in images <=> BodiesOf(c) \cap G # {}
  BY DEF Of
<1>11. \A k \in kept : k.ext = {}
  <2>1. /\ Of(con[p], cracked) \subseteq Sound
        /\ \A c \in Of(con[p], cracked) : \E b \in DOMAIN Parts : b \in BodiesOf(c)
    BY <1>1 DEF Shape, Of
  <2> QED
    BY <2>1, TransferredTyped
<1>12. \A b : b \in Gone' <=> b \in Gone \/ b \in G
  <2>1. \A q, r \in Ranks : inbox[r][q].bodies = {} /\ inbox'[r][q].bodies = {}
    BY <1>1, <1>2 DEF Mail, Incoming
  <2>2. \A r \in Ranks : outbox[p][r].bodies = {}
    BY <1>1, <1>2 DEF Mail, NoData
  <2> HIDE DEF G
  <2>3. Gone = {b \in Bodies : \E q, r \in Ranks : b \in outbox[q][r].bodies}
    BY <2>1 DEF Gone
  <2>4. Gone' = {b \in Bodies : \E q, r \in Ranks : b \in outbox'[q][r].bodies}
    BY <2>1 DEF Gone
  <2> QED
    BY <1>5, <1>6, <1>7, <2>2, <2>3, <2>4
<1> HIDE DEF mine, images, kept
<1>13. \A c : Spared(c)' <=> Spared(c) /\ BodiesOf(c) \cap G = {}
  BY <1>12 DEF Spared
<1>14. ASSUME NEW q \in Ranks, NEW c, c.ext # {}
       PROVE  c \in con'[q] /\ Spared(c)' <=> c \in con[q] /\ Spared(c) /\ BodiesOf(c) \cap G = {}
  BY <1>8, <1>9, <1>11, <1>13, <1>14
<1>15. ASSUME NEW r \in Ranks
       PROVE  /\ Seen(r)' = {e \in Seen(r) : BodiesOf(e) \cap G = {}}
              /\ Coming(r) = {} /\ Coming(r)' = {}
  <2>1. Seen(r) = {e \in conext[r] : Spared(e)} /\ Coming(r) = {}
    BY <1>1, <1>2 DEF Forms
  <2>2. Seen(r)' = {e \in conext'[r] : Spared(e)'} /\ Coming(r)' = {}
    BY <1>1, <1>2 DEF Forms
  <2> QED
    BY <1>8, <1>10, <1>13, <2>1, <2>2
<1>16. \A q, r \in Ranks : Due(q, r) = {} /\ Due(q, r)' = {}
  BY <1>1, <1>2 DEF Forms
<1> DEFINE X == {g \in Images : BodiesOf(g) \cap G # {}}
<1>17. ASSUME NEW r \in Ranks PROVE Claims(r)' = Claims(r) \ X
  <2>1. Claims(r) = {g \in Images : \E q \in Ranks : \E c \in con[q] :
                        r \in c.ext /\ Spared(c) /\ g = Image(c)}
    BY <1>1, <1>2 DEF Forms, Claims
  <2>2. Claims(r)' = {g \in Images : \E q \in Ranks : \E c \in con'[q] :
                        r \in c.ext /\ Spared(c)' /\ g = Image(c)}
    BY <1>1, <1>2 DEF Forms, Claims
  <2>3. \A c : BodiesOf(Image(c)) = BodiesOf(c)
    BY DEF BodiesOf, Image
  <2>4. ASSUME NEW g \in Claims(r)' PROVE g \in Claims(r) \ X
    BY <1>14, <2>1, <2>2, <2>3
  <2>5. ASSUME NEW g \in Claims(r) \ X PROVE g \in Claims(r)'
    BY <1>14, <2>1, <2>2, <2>3
  <2> QED
    BY <2>4, <2>5
<1>18. ASSUME NEW r \in Ranks PROVE Matched(View(r), Claims(r), Awaited(r))'
  <2>1. Awaited(r) = {} /\ Awaited(r)' = {}
    BY <1>16 DEF Awaited
  <2>2. Matched(View(r), Claims(r), {})
    BY <1>1, <2>1 DEF Rest, Matching
  <2>3. View(r)' = {e \in View(r) : Image(e) \notin X}
    <3>1. View(r) \subseteq External
      BY <1>1, ViewTyped
    <3>2. \A e \in View(r) : Image(e) \in X <=> BodiesOf(e) \cap G # {}
      BY <3>1 DEF External, Image, Images, BodiesOf
    <3> HIDE DEF X
    <3> QED
      BY <1>15, <3>2 DEF View
  <2> HIDE DEF X
  <2>4. Matched(View(r)', Claims(r)', {})
    BY <1>17, <2>2, <2>3, MatchedPurged
  <2> QED
    BY <2>1, <2>4 DEF Matched, Apart
<1>19. Matching'
  BY <1>15, <1>18 DEF Matching
<1>20. Ranked'
  <2> SUFFICES ASSUME NEW r \in Ranks, NEW e \in View(r)', NEW q \in Ranks, NEW c \in con'[q],
                      r \in c.ext, c.id = e.id
               PROVE  e.rank = q
    BY <1>16 DEF Ranked, RankOf
  <2>1. e \in View(r)
    BY <1>15 DEF View
  <2>2. c \in con[q]
    BY <1>8, <1>11
  <2> QED
    BY <1>1, <1>2, <2>1, <2>2 DEF Rest, Ranked, RankOf
<1>21. Transit'
  <2> SUFFICES ASSUME NEW r \in Ranks, r \notin done'
               PROVE  Got(r, "update")' \subseteq IdsOf(conext'[r])
    BY <1>2 DEF Transit
  <2>1. r \notin done /\ conext'[r] = conext[r] /\ Got(r, "update")' = Got(r, "update")
    BY <1>2, <1>8 DEF Got
  <2> QED
    BY <1>1, <1>2, <2>1 DEF Rest, Transit
<1>22. Found'
  <2>1. Got(p, "update") \subseteq IdsOf(conext[p])
    BY <1>1, <1>2 DEF Rest, Transit
  <2> QED
    BY <1>1, <1>2, <2>1 DEF Lookup, Unknown, Rest, Found
<1>23. Cleared'
  BY <1>2 DEF Cleared
<1> QED
  BY <1>19, <1>20, <1>21, <1>22, <1>23 DEF Rest

(* Bodies that move leave the constraints where they are. *)
LEMMA PartitionRest == ASSUME RInv, RNext, Partition PROVE Rest'
<1>1. Shape /\ Forms /\ Rest /\ Shape' /\ Forms' /\ Mail /\ Mail'
  BY RForms DEF RNext, RInv
<1>2. /\ phase = "partition" /\ phase' = "balance" /\ done = {}
      /\ UNCHANGED <<done, con, conext, dbdrem, outbox, inbox>>
      /\ failed' \subseteq failed \cup {"idtorank"}
  BY <1>1 DEF Partition, Shape, Post
<1>3. \A q, r \in Ranks : outbox[q][r].cons = {} /\ outbox[q][r].remove = {}
  BY <1>1, <1>2 DEF Mail, NoData
<1>4. \A q \in Ranks : Owned(q)' = Owned(q)
  BY <1>2 DEF Owned, Arriving
<1>5. \A r \in Ranks : View(r)' = View(r) /\ Coming(r)' = {}
  BY <1>1, <1>2 DEF Forms, View
<1>6. ASSUME NEW q \in Ranks, NEW r \in Ranks PROVE Due(q, r)' = Due(q, r)
  <2>1. Due(q, r) = dbdrem[q][r]
    BY <1>1, <1>2 DEF Forms
  <2>2. Due(q, r)' = dbdrem'[q][r] \cup outbox'[q][r].remove
    BY <1>1, <1>2 DEF Forms
  <2> QED
    BY <1>2, <1>3, <2>1, <2>2
<1>7. \A c : Spared(c)' <=> Spared(c)
  BY <1>2 DEF Spared, Gone
<1>8. \A r \in Ranks : Claims(r)' = Claims(r)
  BY <1>4, <1>7 DEF Claims
<1>9. \A r \in Ranks : Awaited(r)' = Awaited(r)
  BY <1>6 DEF Awaited
<1>10. Matching'
  BY <1>1, <1>5, <1>8, <1>9 DEF Rest, Matching
<1>11. Transit'
  BY <1>1, <1>2 DEF Rest, Transit, Got
<1>12. Ranked' /\ Cleared' /\ Found'
  BY <1>1, <1>2 DEF Rest, Ranked, Cleared, Found
<1> QED
  BY <1>10, <1>11, <1>12 DEF Rest

(* Images stay on the way when they are delivered. *)
LEMMA ExchangeComing == ASSUME Exchange PROVE \A r \in Ranks : Coming(r)' = Coming(r)
<1>1. done = Ranks /\ done' = {}
      /\ \A q, r \in Ranks : inbox'[r][q] = outbox[q][r] /\ outbox'[q][r] = NoData
  BY DEF Exchange, NoMail
<1>2. ASSUME NEW q \in Ranks, NEW r \in Ranks PROVE Glue(q, r)' = Glue(q, r)
  <2>1. Glue(q, r) = outbox[q][r].glue
    BY <1>1 DEF Glue
  <2>2. Glue(q, r)' = outbox'[q][r].glue \cup inbox'[r][q].glue
    BY <1>1 DEF Glue
  <2> QED
    BY <1>1, <2>1, <2>2, NoDataTyped
<1> QED
  BY <1>2 DEF Coming, External

(* The exchange delivers: images stay on the way, and the removals of balance
   count as done from now on. *)
LEMMA ExchangeRest == ASSUME RInv, RNext, Exchange PROVE Rest'
<1>0. \E r \in Ranks : TRUE
  BY Counts
<1>1. Shape /\ Forms /\ Rest /\ Shape' /\ Forms' /\ Mail /\ Mail'
  BY RForms DEF RNext, RInv
<1>2. /\ done = Ranks /\ done' = {} /\ UNCHANGED <<con, conext, dbdrem, failed>>
      /\ phase' = NextPhase[phase] /\ phase \in DOMAIN NextPhase
  <2>1. done # {}
    BY Counts DEF Exchange
  <2> QED
    BY <1>1, <2>1 DEF Exchange, Shape, TypeOK, Post
<1>3. \A q, r \in Ranks : inbox'[r][q] = outbox[q][r] /\ outbox'[q][r] = NoData
  BY DEF Exchange, NoMail
<1>4. \A q \in Ranks : Owned(q)' = Owned(q)
  BY <1>1, <1>2, ExchangeFacts DEF Owned
<1>5. \A r \in Ranks : Coming(r)' = Coming(r)
  BY ExchangeComing
<1>6. \A q \in Ranks : \A c \in Owned(q) \cup conext[q] : Spared(c)' <=> Spared(c)
  <2>1. CASE phase = "manage"
    <3>0. phase' = "callback"
      BY <1>2, <2>1 DEF NextPhase
    <3>1. Gone' = {}
      BY <1>1, <1>0, <3>0 DEF Forms
    <3>2. \A q \in Ranks : \A c \in Owned(q) \cup conext[q] : Spared(c)
      BY <1>1, <1>2, <2>1 DEF Forms, Rest, Cleared
    <3> QED
      BY <3>1, <3>2 DEF Spared
  <2>2. CASE phase # "manage"
    <3>1. \A b : b \in Gone' <=> b \in Gone
      <4>1. \A q, r \in Ranks : inbox[r][q].bodies = {} /\ NoData.bodies = {}
        BY <1>1, <2>2 DEF Mail, Incoming, NoData
      <4> QED
        BY <1>3, <4>1 DEF Gone
    <3> QED
      BY <3>1 DEF Spared
  <2> QED
    BY <2>1, <2>2
<1>7. ASSUME NEW r \in Ranks PROVE Claims(r)' = Claims(r)
  BY <1>4, <1>6 DEF Claims
<1>8. CASE phase = "balance"
  <2>1. phase' = "import"
    BY <1>2, <1>8 DEF NextPhase
  <2>2. ASSUME NEW r \in Ranks
        PROVE  /\ Got(r, "remove")' = Awaited(r) /\ Awaited(r)' = {} /\ Coming(r) = {}
               /\ View(r) = conext[r]
               /\ Seen(r)' = {e \in View(r) : e.id \notin Awaited(r)}
    <3>1. \A q \in Ranks : dbdrem[q][r] = {}
      BY <1>1, <1>2, <1>8 DEF Mail, Scheduling
    <3>2. ASSUME NEW q \in Ranks PROVE Due(q, r) = outbox[q][r].remove
      <4>1. Due(q, r) = dbdrem[q][r] \cup outbox[q][r].remove
        BY <1>1, <1>8 DEF Forms
      <4> QED
        BY <3>1, <4>1
    <3>3. \A q \in Ranks : Due(q, r)' = {}
      <4>1. \A q \in Ranks : Due(q, r)' = outbox'[q][r].remove
        BY <1>1, <2>1 DEF Forms
      <4> QED
        BY <1>3, <4>1 DEF NoData
    <3>4. \A q \in Ranks : outbox[q][r].remove \subseteq Ids
      BY <1>1 DEF Shape, Post, Data
    <3>5. Got(r, "remove")' = Awaited(r)
      BY <1>3, <3>2, <3>4 DEF Got, Awaited
    <3>6. Awaited(r)' = {}
      BY <3>3 DEF Awaited
    <3>7. Coming(r) = {} /\ Seen(r) = conext[r]
      BY <1>1, <1>8 DEF Forms
    <3>8. \A e \in conext[r] : Spared(e)'
      <4>1. Gone' = {}
        BY <1>1, <2>1 DEF Forms
      <4> QED
        BY <4>1 DEF Spared
    <3>9. Stale(r)' = Awaited(r)
      BY <1>2, <2>1, <3>5 DEF Stale
    <3> QED
      BY <1>2, <3>5, <3>6, <3>7, <3>8, <3>9 DEF Seen, View
  <2>3. ASSUME NEW r \in Ranks PROVE Matched(View(r), Claims(r), Awaited(r))'
    <3>1. Matched(View(r), Claims(r), Awaited(r))
      BY <1>1 DEF Rest, Matching
    <3>2. View(r)' = {e \in View(r) : e.id \notin Awaited(r)}
      BY <1>5, <2>2 DEF View
    <3>3. Claims(r) = {g \in Claims(r) : g.id \notin Awaited(r)} /\ {} = Awaited(r) \ Awaited(r)
      BY <3>1 DEF Matched
    <3>4. Matched(View(r)', Claims(r), {})
      BY <3>1, <3>2, <3>3, MatchedDropped
    <3> QED
      BY <1>7, <2>2, <3>4 DEF Matched, Apart
  <2>4. Matching'
    BY <1>5, <2>2, <2>3 DEF Matching
  <2>5. Transit'
    <3>1. \A r \in Ranks : Sender(r)'
      BY <1>5, <2>2 DEF Sender
    <3>2. \A r \in Ranks : Got(r, "remove")' \subseteq IdsOf(conext'[r])
      <4> SUFFICES ASSUME NEW r \in Ranks, NEW i \in Awaited(r)
                   PROVE  \E e \in conext[r] : e.id = i
        BY <1>2, <2>2 DEF IdsOf
      <4> QED
        BY <1>1, <2>2 DEF Rest, Matching, Matched
    <3>3. \A q, r \in Ranks : outbox'[q][r].remove = {}
      BY <1>3 DEF NoData
    <3> QED
      BY <1>2, <2>1, <3>1, <3>2, <3>3 DEF Transit
  <2>6. Ranked' /\ Cleared' /\ Found'
    BY <1>1, <1>2, <2>1 DEF Ranked, Cleared, Rest, Found
  <2> QED
    BY <2>4, <2>5, <2>6 DEF Rest
<1>9. CASE phase # "balance"
  <2>0. phase' # "import"
    BY <1>2, <1>9 DEF NextPhase
  <2>1. ASSUME NEW r \in Ranks PROVE Seen(r)' = Seen(r) /\ View(r)' = View(r)
    <3>1. Stale(r) = {} /\ Stale(r)' = {}
      BY <1>2, <2>0 DEF Stale
    <3>2. Seen(r)' = Seen(r)
      BY <1>2, <1>6, <3>1 DEF Seen
    <3> QED
      BY <1>5, <3>2 DEF View
  <2>2. ASSUME NEW q \in Ranks, NEW r \in Ranks PROVE Due(q, r)' = Due(q, r)
    <3>1. Due(q, r) = dbdrem[q][r] \cup outbox[q][r].remove
      BY <1>2 DEF Due
    <3>2. Due(q, r)' = dbdrem[q][r] \cup IF phase' \in {"settle", "solve"} THEN outbox[q][r].remove ELSE {}
      BY <1>2, <1>3 DEF Due, NoData
    <3>3. outbox[q][r].remove # {} => phase \in {"import", "sparsify"}
      BY <1>1, <1>9 DEF Mail, Outgoing
    <3>4. phase \in {"import", "sparsify"} => phase' \in {"settle", "solve"}
      BY <1>2 DEF NextPhase
    <3> QED
      BY <3>1, <3>2, <3>3, <3>4
  <2>3. \A r \in Ranks : Awaited(r)' = Awaited(r)
    BY <2>2 DEF Awaited
  <2>4. Matching'
    BY <1>1, <1>5, <1>7, <2>1, <2>3 DEF Rest, Matching
  <2>5. Ranked'
    <3> SUFFICES ASSUME NEW r \in Ranks, phase' \notin {"balance", "import", "settle"}
                 PROVE  RankOf(r)'
      BY <1>2 DEF Ranked
    <3>1. phase # "import"
      BY <1>2 DEF NextPhase
    <3>2. RankOf(r)
      BY <1>1, <1>2, <1>9, <3>1 DEF Rest, Ranked
    <3> QED
      BY <1>2, <2>1, <2>2, <3>2 DEF RankOf
  <2>6. Transit'
    <3>1. \A r \in Ranks : phase' \in {"settle", "detect"} => Sender(r)'
      <4> SUFFICES ASSUME NEW r \in Ranks, phase' \in {"settle", "detect"} PROVE Sender(r)'
        OBVIOUS
      <4>1. phase \in {"import", "settle"} /\ (phase = "import" => phase' = "settle")
        BY <1>2 DEF NextPhase
      <4>2. CASE phase = "import"
        <5>1. Sender(r)
          BY <1>1, <4>2 DEF Rest, Transit
        <5>2. phase # "detect" /\ phase' # "detect"
          BY <4>1, <4>2
        <5> QED
          BY <1>2, <1>5, <5>1, <5>2 DEF Sender
      <4>3. CASE phase = "settle"
        <5>1. \A q \in Ranks : Glue(q, r) = {}
          BY <1>1, <1>2, <4>3 DEF Glue, Mail, Outgoing
        <5>2. Coming(r) = {}
          BY <5>1 DEF Coming, External
        <5> QED
          BY <1>5, <5>2 DEF Sender
      <4> QED
        BY <4>1, <4>2, <4>3
    <3>2. ASSUME NEW r \in Ranks, phase' \in {"finish", "partition", "balance"}
          PROVE  Got(r, "update")' \subseteq IdsOf(conext'[r])
      <4>1. phase \in {"solve", "update"}
        BY <1>2, <3>2 DEF NextPhase
      <4> SUFFICES ASSUME NEW q \in Ranks, NEW i \in outbox[q][r].update
                   PROVE  \E e \in conext[r] : e.id = i
        BY <1>2, <1>3 DEF Got, IdsOf
      <4>2. PICK c \in con[q] : c.id = i /\ r \in c.ext
        BY <1>1, <4>1 DEF Rest, Transit
      <4>3. Image(c) \in Images
        BY <1>1, ImageTyped DEF Shape
      <4>4. Image(c) \in Claims(r)
        BY <1>1, <4>1, <4>2, <4>3, ClaimsForm
      <4>5. PICK e \in View(r) : Image(e) = Image(c)
        BY <1>1, <4>4 DEF Rest, Matching, Matched
      <4>6. View(r) = conext[r]
        BY <1>1, <4>1 DEF Forms, View
      <4> QED
        BY <4>2, <4>5, <4>6 DEF Image
    <3>3. \A q, r \in Ranks : outbox'[q][r].update = {}
      BY <1>3, NoDataTyped
    <3>4. ASSUME NEW q \in Ranks, NEW r \in Ranks, phase' = "settle" PROVE Written(q, r)'
      <4>1. phase = "import"
        <5>1. phase \in {"import", "settle"}
          <6>1. phase' \in {"settle", "detect"}
            BY <3>4
          <6> QED
            BY <1>2, <6>1 DEF NextPhase
        <5>2. phase = "settle" => phase' \in {"pending", "detect"}
          BY <1>2 DEF NextPhase
        <5> QED
          BY <3>4, <5>1, <5>2
      <4>2. Written(q, r)
        BY <1>1, <1>2, <4>1 DEF Rest, Transit
      <4>3. Updates(q, r)' = Updates(q, r)
        BY <1>3, <3>4, <4>1 DEF Updates
      <4> QED
        BY <1>2, <1>5, <4>2, <4>3 DEF Written
    <3> QED
      BY <1>2, <2>0, <3>1, <3>2, <3>3, <3>4 DEF Transit
  <2>7. Cleared' /\ Found'
    BY <1>1, <1>2 DEF Cleared, Rest, Found
  <2> QED
    BY <2>4, <2>5, <2>6, <2>7 DEF Rest
<1> QED
  BY <1>8, <1>9

-----------------------------------------------------------------------------
(* Renaming the ranks of images leaves them matched. *)
LEMMA MatchedReranked ==
    ASSUME NEW E, NEW C, NEW D, Matched(E, C, D), NEW f, \A e \in E : Image(f[e]) = Image(e),
           NEW E2, E2 = {f[e] : e \in E}
    PROVE  Matched(E2, C, D)
<1>1. \A e \in E : f[e].id = e.id
  BY DEF Image
<1>2. Apart(E2)
  BY <1>1 DEF Matched, Apart
<1>3. ASSUME NEW g \in C PROVE g.id \notin D /\ \E e \in E2 : Image(e) = g
  BY DEF Matched
<1>4. ASSUME NEW i \in D PROVE \E e \in E2 : e.id = i
  BY <1>1 DEF Matched
<1>5. ASSUME NEW e \in E2 PROVE e.id \in D \/ Image(e) \in C
  BY <1>1 DEF Matched
<1> QED
  BY <1>2, <1>3, <1>4, <1>5 DEF Matched

(* Settling applies what has been sent along the old and the new ext: an image
   without an update has just come from the rank it names. *)
LEMMA SettleRest ==
    ASSUME RInv, RNext, NEW p \in Ranks, Settle(p) PROVE Rest'
<1> DEFINE Told(e) == \E q \in Ranks : e.id \in inbox[p][q].update
           Teller(e) == CHOOSE q \in Ranks : e.id \in inbox[p][q].update
           Rerank == [e \in View(p) |-> IF Told(e) THEN [e EXCEPT !.rank = Teller(e)] ELSE e]
           Kept == {e \in View(p) : e.id \notin Awaited(p)}
<1>1. Shape /\ Forms /\ Rest /\ Shape' /\ Forms' /\ Mail /\ Mail' /\ IInv
  BY RForms DEF RNext, RInv
<1>2. /\ phase = "settle" /\ p \notin done /\ done' = done \cup {p}
      /\ UNCHANGED <<phase, con, inbox, outbox, dbdrem>>
      /\ failed' = failed \cup Unknown(Got(p, "update") \cup Got(p, "remove"), Imported(p, conext[p]))
                         \cup Clashing(Glued(p), bodcon[p])
      /\ conext' = [conext EXCEPT ![p] =
            {e \in Reranked(p, Imported(p, conext[p])) : e.id \notin Got(p, "remove")}]
  BY DEF Settle, Enter, Leave
<1>3. Imported(p, conext[p]) = View(p) /\ Seen(p) = conext[p]
  BY <1>2, ImportedIs
<1>4. Awaited(p) = Got(p, "remove") /\ Got(p, "remove") \subseteq IdsOf(View(p))
  BY <1>2, RemovalsFound
<1>5. /\ conext'[p] = {e \in Reranked(p, View(p)) : e.id \notin Awaited(p)}
      /\ \A r \in Ranks \ {p} : conext'[r] = conext[r]
  BY <1>1, <1>2, <1>3, <1>4 DEF Shape, TypeOK
<1>6. Reranked(p, View(p)) = {Rerank[e] : e \in View(p)}
  BY DEF Reranked
<1>7. \A e \in View(p) : /\ Told(e) => Teller(e) \in Ranks /\ e.id \in inbox[p][Teller(e)].update
                                        /\ Rerank[e].rank = Teller(e)
                         /\ ~ Told(e) => Rerank[e] = e
                         /\ Image(Rerank[e]) = Image(e) /\ Rerank[e].id = e.id
  <2> SUFFICES ASSUME NEW e \in View(p)
      PROVE  /\ Told(e) => Teller(e) \in Ranks /\ e.id \in inbox[p][Teller(e)].update
                                        /\ Rerank[e].rank = Teller(e)
             /\ ~ Told(e) => Rerank[e] = e
             /\ Image(Rerank[e]) = Image(e) /\ Rerank[e].id = e.id
    OBVIOUS
  <2>1. Told(e) => Teller(e) \in Ranks /\ e.id \in inbox[p][Teller(e)].update
    OBVIOUS
  <2>2. e \in External
    BY <1>1, ViewTyped
  <2> HIDE DEF Told, Teller
  <2> QED
    BY <2>1, <2>2 DEF External, Image
<1> HIDE DEF Rerank
<1>8. conext'[p] = {Rerank[e] : e \in Kept}
  <2>1. \A e \in View(p) : Rerank[e].id = e.id
    BY <1>7
  <2>2. conext'[p] = {e \in {Rerank[d] : d \in View(p)} : e.id \notin Awaited(p)}
    BY <1>5, <1>6
  <2> HIDE DEF Told, Teller
  <2> QED
    BY <2>1, <2>2
<1>9. \A q, r \in Ranks : Glue(q, r)' = IF r = p THEN {} ELSE Glue(q, r)
  BY <1>1, <1>2 DEF Glue, Mail, Outgoing
<1>10. Coming(p)' = {} /\ \A r \in Ranks \ {p} : Coming(r)' = Coming(r)
  BY <1>9 DEF Coming, External
<1>11. \A r \in Ranks : Seen(r)' = conext'[r] /\ Seen(r) = conext[r]
  BY <1>1, <1>2 DEF Forms
<1>12. View(p)' = {Rerank[e] : e \in Kept} /\ \A r \in Ranks \ {p} : View(r)' = View(r)
  BY <1>5, <1>8, <1>10, <1>11 DEF View
<1>13. ASSUME NEW q \in Ranks, NEW r \in Ranks
       PROVE  Due(q, r)' = IF r = p THEN {} ELSE Due(q, r)
  <2>1. Due(q, r) = (IF r \in done THEN {} ELSE inbox[r][q].remove)
    BY <1>1, <1>2 DEF Forms
  <2>2. Due(q, r)' = (IF r \in done' THEN {} ELSE inbox'[r][q].remove)
    BY <1>1, <1>2 DEF Forms
  <2> QED
    BY <1>2, <2>1, <2>2
<1>14. ASSUME NEW r \in Ranks PROVE Claims(r)' = Claims(r)
  <2>1. Claims(r) = {g \in Images : \E q \in Ranks : \E c \in con[q] : r \in c.ext /\ g = Image(c)}
    BY <1>1, <1>2, ClaimsForm
  <2>2. Claims(r)' = {g \in Images : \E q \in Ranks : \E c \in con'[q] : r \in c.ext /\ g = Image(c)}
    BY <1>1, <1>2, ClaimsFormNext
  <2> QED
    BY <1>2, <2>1, <2>2
<1>15. ASSUME NEW r \in Ranks PROVE Matched(View(r), Claims(r), Awaited(r))'
  <2>0. Matched(View(r), Claims(r), Awaited(r))
    BY <1>1 DEF Rest, Matching
  <2>1. CASE r = p
    <3>1. Awaited(p)' = {}
      BY <1>13 DEF Awaited
    <3>2. Claims(p) = {g \in Claims(p) : g.id \notin Awaited(p)} /\ {} = Awaited(p) \ Awaited(p)
      BY <2>0, <2>1 DEF Matched
    <3>3. Matched(Kept, Claims(p), {})
      BY <2>0, <2>1, <3>2, MatchedDropped
    <3>4. \A e \in Kept : Image(Rerank[e]) = Image(e)
      BY <1>7
    <3> HIDE DEF Kept
    <3>5. Matched(View(p)', Claims(p), {})
      BY <1>12, <3>3, <3>4, MatchedReranked
    <3> QED
      BY <1>14, <2>1, <3>1, <3>5 DEF Matched, Apart
  <2>2. CASE r # p
    <3>1. View(r)' = View(r) /\ Claims(r)' = Claims(r) /\ Awaited(r)' = Awaited(r)
      BY <1>12, <1>13, <1>14, <2>2 DEF Awaited
    <3> QED
      BY <2>0, <3>1
  <2> QED
    BY <2>1, <2>2
<1>16. Matching'
  <2>1. \A r \in Ranks : \A e \in Seen(r)' : \A f \in Coming(r)' : e.id # f.id
    BY <1>1, <1>5, <1>10, <1>11 DEF Rest, Matching
  <2> QED
    BY <1>15, <2>1 DEF Matching
<1>17. \A q \in Ranks : Updates(q, p) = inbox[p][q].update /\ Written(q, p)
  BY <1>1, <1>2 DEF Updates, Rest, Transit
<1>18. ASSUME NEW q \in Ranks, NEW e \in Kept, NEW c \in con[q], p \in c.ext, c.id = e.id
       PROVE  Rerank[e].rank = q
  <2>1. CASE Told(e)
    <3>1. Teller(e) \in Ranks /\ e.id \in inbox[p][Teller(e)].update /\ Rerank[e].rank = Teller(e)
      BY <1>7, <2>1
    <3> HIDE DEF Teller
    <3>2. PICK d \in con[Teller(e)] : d.id = e.id
      BY <1>17, <3>1 DEF Written
    <3>3. d \in Owned(Teller(e)) /\ c \in Owned(q)
      BY DEF Owned
    <3> QED
      BY <1>1, <1>18, <3>1, <3>2, <3>3, OnePlace
  <2>2. CASE ~ Told(e)
    <3>1. c.id \notin Updates(q, p)
      BY <1>17, <1>18, <2>2
    <3>2. PICK f \in Coming(p) : f.rank = q /\ Image(f) = Image(c)
      BY <1>17, <1>18, <3>1 DEF Written
    <3>3. f.id = e.id /\ f \in View(p)
      BY <1>18, <3>2 DEF Image, View
    <3>4. Apart(View(p))
      BY <1>1 DEF Rest, Matching, Matched
    <3> QED
      BY <1>7, <2>2, <3>2, <3>3, <3>4 DEF Apart
  <2> QED
    BY <2>1, <2>2
<1>19. Ranked'
  <2> SUFFICES ASSUME NEW r \in Ranks, r \in done' PROVE RankOf(r)'
    BY <1>2 DEF Ranked
  <2>1. CASE r = p
    <3> SUFFICES ASSUME NEW e \in Kept, NEW q \in Ranks, NEW c \in con[q], p \in c.ext, c.id = Rerank[e].id
                 PROVE  Rerank[e].rank = q
      BY <1>2, <1>12, <1>13, <2>1 DEF RankOf
    <3> QED
      BY <1>7, <1>18
  <2>2. CASE r # p
    <3>1. RankOf(r)
      BY <1>1, <1>2, <2>2 DEF Rest, Ranked
    <3> QED
      BY <1>2, <1>12, <1>13, <2>2, <3>1 DEF RankOf
  <2> QED
    BY <2>1, <2>2
<1>20. Transit'
  <2>1. \A r \in Ranks : Sender(r)'
    BY <1>1, <1>2, <1>10 DEF Rest, Transit, Sender
  <2>2. ASSUME NEW q \in Ranks, NEW r \in Ranks, r \notin done' PROVE Written(q, r)'
    <3>1. r # p /\ r \notin done
      BY <1>2, <2>2
    <3>2. Written(q, r)
      BY <1>1, <1>2, <3>1 DEF Rest, Transit
    <3>3. Updates(q, r)' = Updates(q, r) /\ Coming(r)' = Coming(r)
      BY <1>2, <1>10, <3>1 DEF Updates
    <3> QED
      BY <1>2, <3>2, <3>3 DEF Written
  <2> QED
    BY <1>2, <2>1, <2>2 DEF Transit
<1>21. Found'
  <2>1. ASSUME NEW i \in Got(p, "update") PROVE i \in IdsOf(View(p))
    <3>1. PICK q \in Ranks : i \in inbox[p][q].update
      BY DEF Got
    <3>2. PICK c \in con[q] : c.id = i /\ p \in c.ext
      BY <1>17, <3>1 DEF Written
    <3>3. Image(c) \in Images
      BY <1>1, ImageTyped DEF Shape
    <3>4. Image(c) \in Claims(p)
      BY <1>1, <1>2, <3>2, <3>3, ClaimsForm
    <3>5. PICK e \in View(p) : Image(e) = Image(c)
      BY <1>1, <3>4 DEF Rest, Matching, Matched
    <3> QED
      BY <3>2, <3>5 DEF Image, IdsOf
  <2>2. Got(p, "update") \cup Got(p, "remove") \subseteq IdsOf(View(p))
    BY <1>4, <2>1
  <2> QED
    BY <1>1, <1>2, <1>3, <2>2, FaultsTyped DEF Unknown, Rest, Found
<1>22. Cleared'
  BY <1>2 DEF Cleared
<1> QED
  BY <1>16, <1>19, <1>20, <1>21, <1>22 DEF Rest

-----------------------------------------------------------------------------
(* Constraints that leave stay owned by somebody. *)
LEMMA MigrateOutRest ==
    ASSUME RInv, RNext, NEW p \in Ranks, MigrateOut(p) PROVE Rest'
<1>1. Shape /\ Forms /\ Rest /\ Shape' /\ Forms' /\ Mail /\ Mail'
  BY RForms DEF RNext, RInv
<1>2. /\ phase = "balance" /\ p \notin done /\ done' = done \cup {p}
      /\ UNCHANGED <<phase, conext, inbox>>
      /\ Lookup(p, Got(p, "update"), conext[p])
  BY DEF MigrateOut, Enter, Leave
<1>3. PICK dest \in [con[p] -> Ranks] :
        /\ con'[p] = {c \in con[p] : dest[c] = p}
        /\ \A q \in Ranks \ {p} : con'[q] = con[q]
        /\ \A q \in Ranks : Arriving(q)' = Arriving(q) \cup {c \in con[p] : dest[c] = q /\ q # p}
        /\ \A q, r \in Ranks : q # p => outbox'[q][r] = outbox[q][r]
                                    /\ dbdrem'[q][r] = dbdrem[q][r]
        /\ \A r \in Ranks : /\ outbox'[p][r].remove = dbdrem[p][r] /\ outbox'[p][r].glue = {}
                            /\ dbdrem'[p][r] = {}
  BY <1>1, MigrateOutFacts
<1>4. \A c : (\E q \in Ranks : c \in Owned(q)') <=> \E q \in Ranks : c \in Owned(q)
  <2>1. ASSUME NEW c, NEW q \in Ranks, c \in Owned(q)' PROVE \E r \in Ranks : c \in Owned(r)
    BY <1>3, <2>1 DEF Owned
  <2>2. ASSUME NEW c, NEW q \in Ranks, c \in Owned(q) PROVE \E r \in Ranks : c \in Owned(r)'
    <3>1. CASE c \in Arriving(q) \/ q # p
      <4>1. c \in Owned(q)'
        BY <1>3, <2>2, <3>1 DEF Owned
      <4> QED
        BY <4>1
    <3>2. CASE c \in con[p] /\ q = p
      <4>1. dest[c] \in Ranks
        BY <3>2
      <4>2. c \in Owned(dest[c])'
        <5>1. CASE dest[c] = p
          BY <1>3, <3>2, <5>1 DEF Owned
        <5>2. CASE dest[c] # p
          BY <1>3, <3>2, <4>1, <5>2 DEF Owned
        <5> QED
          BY <5>1, <5>2
      <4> QED
        BY <4>1, <4>2
    <3> QED
      BY <2>2, <3>1, <3>2 DEF Owned
  <2> QED
    BY <2>1, <2>2
<1>5. ASSUME NEW r \in Ranks PROVE Claims(r)' = Claims(r)
  <2>1. Gone = {} /\ Gone' = {}
    BY <1>1, <1>2 DEF Forms
  <2> QED
    BY <1>4, <2>1 DEF Claims, Spared
<1>6. \A r \in Ranks : /\ Seen(r) = conext[r] /\ Seen(r)' = conext[r]
                       /\ Coming(r) = {} /\ Coming(r)' = {}
  BY <1>1, <1>2 DEF Forms
<1>7. ASSUME NEW q \in Ranks, NEW r \in Ranks PROVE Due(q, r)' = Due(q, r)
  <2>1. Due(q, r) = dbdrem[q][r] \cup outbox[q][r].remove
    BY <1>1, <1>2 DEF Forms
  <2>2. Due(q, r)' = dbdrem'[q][r] \cup outbox'[q][r].remove
    BY <1>1, <1>2 DEF Forms
  <2>3. outbox[p][r].remove = {}
    BY <1>1, <1>2 DEF Mail, NoData
  <2> QED
    BY <1>3, <2>1, <2>2, <2>3
<1>8. \A r \in Ranks : View(r)' = View(r) /\ Awaited(r)' = Awaited(r)
  BY <1>6, <1>7 DEF View, Awaited
<1>9. Matching'
  BY <1>1, <1>5, <1>6, <1>8 DEF Rest, Matching
<1>10. Transit'
  BY <1>1, <1>2 DEF Rest, Transit, Got
<1>11. Found'
  <2>1. Got(p, "update") \subseteq IdsOf(conext[p])
    BY <1>1, <1>2 DEF Rest, Transit
  <2> QED
    BY <1>1, <1>2, <2>1 DEF Lookup, Unknown, Rest, Found
<1>12. Ranked' /\ Cleared'
  BY <1>2 DEF Ranked, Cleared
<1> QED
  BY <1>9, <1>10, <1>11, <1>12 DEF Rest

(* What MigrateIn does to the constraints a rank now owns, and to whom it
   writes of them. *)
LEMMA MigrateInSent ==
    ASSUME Shape, Mail, NEW p \in Ranks, MigrateIn(p), NEW L,
           L = [d \in Owned(p) |-> [d EXCEPT !.ext = Beyond(p, d)]]
    PROVE  /\ con'[p] = {L[d] : d \in Owned(p)}
           /\ \A d \in Owned(p) : /\ L[d].id = d.id /\ L[d].ext = Beyond(p, d)
                                  /\ Image(L[d]) = Image(d)
                                  /\ p \notin Beyond(p, d) /\ d.id \in Ids /\ Image(d) \in Images
           /\ \A r \in Ranks :
                /\ outbox'[p][r].glue
                     = {Image(d) : d \in {c \in Owned(p) : r \in Beyond(p, c) /\ r \notin c.ext}}
                /\ outbox'[p][r].update
                     = {d.id : d \in {c \in Owned(p) : r \in Beyond(p, c) /\ r \in c.ext}}
                /\ outbox'[p][r].remove
                     = {d.id : d \in {c \in Owned(p) : r \in c.ext /\ r \notin Beyond(p, c) /\ r # p}}
           /\ \A q, r \in Ranks : q # p => outbox'[q][r] = outbox[q][r]
<1> DEFINE came == Got(p, "cons")
           Strip(c) == [c EXCEPT !.ext = @ \ {p}]
           own == con[p] \cup {Strip(c) : c \in came}
<1>1. /\ Arriving(p) = came
      /\ con'[p] = {[c EXCEPT !.ext = Beyond(p, c)] : c \in own}
  BY MigrateInFacts
<1>2. Send(p, [q \in Ranks |-> [NoData EXCEPT
                !.glue = {Image(c) : c \in {d \in own : q \in Beyond(p, d) \ d.ext}},
                !.update = {c.id : c \in {d \in own : q \in Beyond(p, d) \cap d.ext}},
                !.remove = {c.id : c \in {d \in own : q \in d.ext \ Beyond(p, d)}}]])
  BY DEF MigrateIn
<1>3. Owned(p) = con[p] \cup came
  BY <1>1 DEF Owned
<1>4. \A d \in Owned(p) : /\ d \in Sound /\ d \in Constraint /\ d.id \in Ids /\ Image(d) \in Images
                          /\ p \notin Beyond(p, d) /\ Beyond(p, d) \in SUBSET Ranks
  BY OwnedTyped, BeyondTyped, ImageTyped DEF Sound
<1>5. \A c \in con[p] : p \notin c.ext
  BY DEF Shape, TypeOK
<1> DEFINE S == [d \in Owned(p) |-> Strip(d)]
<1> HIDE DEF came
<1>6. \A c \in con[p] : Strip(c) = c
  <2> SUFFICES ASSUME NEW c \in con[p] PROVE Strip(c) = c
    OBVIOUS
  <2>1. c \in Constraint /\ c.ext \ {p} = c.ext
    BY <1>3, <1>4, <1>5
  <2> QED
    BY <2>1 DEF Constraint
<1>7. \A d \in Owned(p) : /\ S[d].ext = d.ext \ {p} /\ S[d].id = d.id /\ Image(S[d]) = Image(d)
                          /\ Beyond(p, S[d]) = Beyond(p, d)
                          /\ [S[d] EXCEPT !.ext = Beyond(p, S[d])] = L[d]
                          /\ L[d].id = d.id /\ L[d].ext = Beyond(p, d) /\ Image(L[d]) = Image(d)
  BY <1>4 DEF Constraint, Image, Beyond, BodiesOf
<1>8. own = {S[d] : d \in Owned(p)}
  <2>1. \A d \in Owned(p) : S[d] = Strip(d)
    OBVIOUS
  <2> HIDE DEF S, Strip
  <2> QED
    BY <1>3, <1>6, <2>1
<1> HIDE DEF S, own
<1>9. con'[p] = {L[d] : d \in Owned(p)}
  <2> DEFINE Lab(c) == [c EXCEPT !.ext = Beyond(p, c)]
  <2>1. con'[p] = {Lab(c) : c \in own} /\ \A d \in Owned(p) : Lab(S[d]) = L[d]
    BY <1>1, <1>7
  <2> HIDE DEF Lab
  <2> QED
    BY <1>8, <2>1
<1>10. \A r \in Ranks :
         /\ outbox'[p][r].glue = {Image(c) : c \in {d \in own : r \in Beyond(p, d) \ d.ext}}
         /\ outbox'[p][r].update = {c.id : c \in {d \in own : r \in Beyond(p, d) \cap d.ext}}
         /\ outbox'[p][r].remove = {c.id : c \in {d \in own : r \in d.ext \ Beyond(p, d)}}
  BY <1>2 DEF Send, NoData, Shape, Post
<1>11. \A q, r \in Ranks : q # p => outbox'[q][r] = outbox[q][r]
  BY <1>2 DEF Send, Shape, Post
<1>12. ASSUME NEW r \in Ranks
       PROVE /\ outbox'[p][r].glue
                  = {Image(d) : d \in {c \in Owned(p) : r \in Beyond(p, c) /\ r \notin c.ext}}
             /\ outbox'[p][r].update
                  = {d.id : d \in {c \in Owned(p) : r \in Beyond(p, c) /\ r \in c.ext}}
             /\ outbox'[p][r].remove
                  = {d.id : d \in {c \in Owned(p) : r \in c.ext /\ r \notin Beyond(p, c) /\ r # p}}
  <2>1. \A d \in Owned(p) :
          /\ r \in Beyond(p, S[d]) \ S[d].ext <=> r \in Beyond(p, d) /\ r \notin d.ext
          /\ r \in Beyond(p, S[d]) \cap S[d].ext <=> r \in Beyond(p, d) /\ r \in d.ext
          /\ r \in S[d].ext \ Beyond(p, S[d]) <=> r \in d.ext /\ r \notin Beyond(p, d) /\ r # p
          /\ S[d].id = d.id /\ Image(S[d]) = Image(d)
    <3> SUFFICES ASSUME NEW d \in Owned(p)
        PROVE  /\ r \in Beyond(p, S[d]) \ S[d].ext <=> r \in Beyond(p, d) /\ r \notin d.ext
               /\ r \in Beyond(p, S[d]) \cap S[d].ext <=> r \in Beyond(p, d) /\ r \in d.ext
               /\ r \in S[d].ext \ Beyond(p, S[d]) <=> r \in d.ext /\ r \notin Beyond(p, d) /\ r # p
               /\ S[d].id = d.id /\ Image(S[d]) = Image(d)
      OBVIOUS
    <3>1. /\ S[d].ext = d.ext \ {p} /\ S[d].id = d.id /\ Image(S[d]) = Image(d)
          /\ Beyond(p, S[d]) = Beyond(p, d)
      BY <1>7
    <3>2. p \notin Beyond(p, d)
      BY <1>4
    <3> QED
      BY <3>1, <3>2
  <2>2. {Image(c) : c \in {d \in own : r \in Beyond(p, d) \ d.ext}}
          = {Image(d) : d \in {c \in Owned(p) : r \in Beyond(p, c) /\ r \notin c.ext}}
    BY <1>8, <2>1
  <2>3. {c.id : c \in {d \in own : r \in Beyond(p, d) \cap d.ext}}
          = {d.id : d \in {c \in Owned(p) : r \in Beyond(p, c) /\ r \in c.ext}}
    BY <1>8, <2>1
  <2>4. {c.id : c \in {d \in own : r \in d.ext \ Beyond(p, d)}}
          = {d.id : d \in {c \in Owned(p) : r \in c.ext /\ r \notin Beyond(p, c) /\ r # p}}
    BY <1>8, <2>1
  <2> QED
    BY <1>10, <2>2, <2>3, <2>4
<1> QED
  BY <1>4, <1>7, <1>9, <1>11, <1>12

(* What a rank knows of images when it has replaced those of what arrived. *)
LEMMA MigrateInSeen ==
    ASSUME RInv, RNext, NEW p \in Ranks, MigrateIn(p)
    PROVE  /\ \A r \in Ranks \ {p} : Seen(r)' = Seen(r) /\ conext'[r] = conext[r]
           /\ Seen(p)' = {e \in Seen(p) : e.id \notin {c.id : c \in {d \in Owned(p) : p \in d.ext}}}
<1> DEFINE K == {c.id : c \in {d \in Owned(p) : p \in d.ext}}
<1>1. Shape /\ Forms /\ Shape' /\ Forms'
  BY RForms DEF RNext
<1>2. phase = "import" /\ p \notin done /\ done' = done \cup {p} /\ UNCHANGED <<phase, inbox>>
  BY DEF MigrateIn, Enter, Leave
<1>3. Arriving(p) = Got(p, "cons") /\ \A c \in con[p] : p \notin c.ext
  BY <1>1, MigrateInFacts DEF Shape, TypeOK
<1>4. /\ conext'[p] = {e \in conext[p] : e.id \notin K \cup Got(p, "remove")}
      /\ \A r \in Ranks \ {p} : conext'[r] = conext[r]
  <2> DEFINE drop == {c.id : c \in {d \in Got(p, "cons") : p \in d.ext}} \cup Got(p, "remove")
  <2>1. drop = K \cup Got(p, "remove")
    BY <1>3 DEF Owned
  <2>2. conext' = [conext EXCEPT ![p] = {e \in @ : e.id \notin drop}]
    BY DEF MigrateIn
  <2> HIDE DEF drop, K
  <2> QED
    BY <1>1, <2>1, <2>2 DEF Shape, TypeOK
<1>5. \A c : Spared(c) /\ Spared(c)'
  BY <1>1, <1>2 DEF Forms, Spared
<1>6. Stale(p) = Got(p, "remove") /\ Stale(p)' = {}
  BY <1>2 DEF Stale
<1>7. \A r \in Ranks \ {p} : Stale(r)' = Stale(r)
  BY <1>2 DEF Stale, Got
<1> HIDE DEF K
<1>8. /\ \A r \in Ranks \ {p} : Seen(r)' = Seen(r) /\ conext'[r] = conext[r]
      /\ Seen(p)' = {e \in Seen(p) : e.id \notin K}
  BY <1>4, <1>5, <1>6, <1>7 DEF Seen
<1> QED
  BY <1>8 DEF K

(* A constraint that arrives replaces its image, and the others are told the
   difference of two ext. *)
LEMMA MigrateInRest ==
    ASSUME RInv, RNext, NEW p \in Ranks, MigrateIn(p) PROVE Rest'
<1> DEFINE L == [d \in Owned(p) |-> [d EXCEPT !.ext = Beyond(p, d)]]
           K == {c.id : c \in {d \in Owned(p) : p \in d.ext}}
           N(r) == {e \in External : e.rank = p /\ \E d \in Owned(p) :
                      r \in Beyond(p, d) /\ r \notin d.ext /\ Image(e) = Image(d)}
           X(r) == {Image(d) : d \in {c \in Owned(p) : r \in c.ext /\ r \notin Beyond(p, c)}}
<1>1. Shape /\ Forms /\ Rest /\ Shape' /\ Forms' /\ Mail /\ Mail' /\ IInv
  BY RForms DEF RNext, RInv
<1>2. /\ phase = "import" /\ p \notin done /\ done' = done \cup {p}
      /\ UNCHANGED <<phase, inbox, dbdrem>>
  BY DEF MigrateIn, Enter, Leave
<1>0. L = [d \in Owned(p) |-> [d EXCEPT !.ext = Beyond(p, d)]]
  OBVIOUS
<1> HIDE DEF L
<1>3. /\ con'[p] = {L[d] : d \in Owned(p)}
      /\ \A d \in Owned(p) : /\ L[d].id = d.id /\ L[d].ext = Beyond(p, d)
                             /\ Image(L[d]) = Image(d)
                             /\ p \notin Beyond(p, d) /\ d.id \in Ids /\ Image(d) \in Images
  BY <1>0, <1>1, MigrateInSent
<1>4. \A r \in Ranks :
        /\ outbox'[p][r].glue
             = {Image(d) : d \in {c \in Owned(p) : r \in Beyond(p, c) /\ r \notin c.ext}}
        /\ outbox'[p][r].update
             = {d.id : d \in {c \in Owned(p) : r \in Beyond(p, c) /\ r \in c.ext}}
        /\ outbox'[p][r].remove
             = {d.id : d \in {c \in Owned(p) : r \in c.ext /\ r \notin Beyond(p, c) /\ r # p}}
  BY <1>0, <1>1, MigrateInSent
<1>5. \A q, r \in Ranks : q # p => outbox'[q][r] = outbox[q][r]
  BY <1>0, <1>1, MigrateInSent
<1>6. /\ Arriving(p) = Got(p, "cons") /\ Arriving(p)' = {}
      /\ \A q \in Ranks \ {p} : Arriving(q)' = Arriving(q) /\ con'[q] = con[q]
  BY <1>1, MigrateInFacts
<1>7. Owned(p)' = con'[p] /\ \A q \in Ranks \ {p} : Owned(q)' = Owned(q)
  BY <1>6 DEF Owned
<1>9. \A r \in Ranks : outbox[p][r].glue = {} /\ outbox[p][r].remove = {}
  BY <1>1, <1>2 DEF Mail, NoData
<1>10. \A q, r \in Ranks : inbox[r][q].glue = {}
  BY <1>1, <1>2 DEF Mail, Incoming
<1>11. \A q, r \in Ranks : Glue(q, r) = outbox[q][r].glue /\ Glue(q, r)' = outbox'[q][r].glue
  BY <1>2, <1>10 DEF Glue
<1>12. ASSUME NEW r \in Ranks PROVE Coming(r)' = Coming(r) \cup N(r)
  <2>1. Coming(r) = {e \in External : Image(e) \in outbox[e.rank][r].glue}
    BY <1>11 DEF Coming, External
  <2>2. Coming(r)' = {e \in External : Image(e) \in outbox'[e.rank][r].glue}
    BY <1>11 DEF Coming, External
  <2>3. ASSUME NEW e \in External
        PROVE Image(e) \in outbox'[e.rank][r].glue <=>
                Image(e) \in outbox[e.rank][r].glue \/ e \in N(r)
    <3>1. e.rank \in Ranks
      BY DEF External
    <3>2. CASE e.rank = p
      BY <1>4, <1>9, <3>2
    <3>3. CASE e.rank # p
      BY <1>5, <3>1, <3>3
    <3> QED
      BY <3>2, <3>3
  <2>4. N(r) \subseteq External
    OBVIOUS
  <2> HIDE DEF N
  <2> QED
    BY <2>1, <2>2, <2>3, <2>4
<1>13. \A r \in Ranks : \A e \in Coming(r) : e.rank \in Ranks \ {p}
  BY <1>9, <1>11 DEF Coming, External
<1>14. ASSUME NEW r \in Ranks, NEW e \in Coming(r), NEW d \in Owned(p) PROVE e.id # d.id
  <2>1. PICK c \in con[e.rank] : Image(c) = Image(e)
    BY <1>1, <1>2 DEF Rest, Transit, Sender
  <2>2. e.rank \in Ranks \ {p}
    BY <1>13
  <2>3. c \in Owned(e.rank) /\ c.id = e.id
    BY <2>1 DEF Owned, Image
  <2> QED
    BY <1>1, <2>2, <2>3, OnePlace
<1>15. \A r \in Ranks : \A f \in N(r) :
         /\ f.rank = p /\ f \in External
         /\ \E d \in Owned(p) : r \in Beyond(p, d) /\ r \notin d.ext /\ Image(f) = Image(d) /\ f.id = d.id
  BY DEF Image
<1>16. \A r \in Ranks : \A d \in Owned(p) :
         r \in Beyond(p, d) /\ r \notin d.ext => \E f \in N(r) : Image(f) = Image(d)
  <2> SUFFICES ASSUME NEW r \in Ranks, NEW d \in Owned(p), r \in Beyond(p, d), r \notin d.ext
               PROVE  \E f \in N(r) : Image(f) = Image(d)
    OBVIOUS
  <2> DEFINE f == [id |-> d.id, kind |-> d.kind, master |-> d.master, slave |-> d.slave, rank |-> p]
  <2>1. d \in Constraint
    BY <1>1, OwnedTyped DEF Sound
  <2>2. f \in External /\ Image(f) = Image(d) /\ f.rank = p
    BY <2>1 DEF External, Image, Constraint
  <2> QED
    BY <2>2
<1> HIDE DEF N
<1>17. /\ \A r \in Ranks \ {p} : Seen(r)' = Seen(r) /\ conext'[r] = conext[r]
       /\ Seen(p)' = {e \in Seen(p) : e.id \notin K}
  BY MigrateInSeen
<1>18. ASSUME NEW r \in Ranks
       PROVE  /\ Claims(r) = {g \in Images : \E q \in Ranks : \E c \in Owned(q) : r \in c.ext /\ g = Image(c)}
              /\ Claims(r)' = {g \in Images : \E q \in Ranks : \E c \in Owned(q)' : r \in c.ext /\ g = Image(c)}
  <2>1. \A c : Spared(c) /\ Spared(c)'
    BY <1>1, <1>2 DEF Forms, Spared
  <2> QED
    BY <2>1 DEF Claims
<1>19. ASSUME NEW q \in Ranks, NEW r \in Ranks
       PROVE  /\ Due(q, r) = outbox[q][r].remove
              /\ Due(q, r)' = IF q = p THEN {d.id : d \in {c \in Owned(p) : r \in c.ext /\ r \notin Beyond(p, c) /\ r # p}}
                                       ELSE Due(q, r)
  <2>1. Due(q, r) = outbox[q][r].remove
    BY <1>1, <1>2 DEF Forms
  <2>2. Due(q, r)' = outbox'[q][r].remove
    BY <1>1, <1>2 DEF Forms
  <2> QED
    BY <1>4, <1>5, <2>1, <2>2
<1>20. \A r \in Ranks : \A i \in Awaited(r) : \A d \in Owned(p) : i # d.id
  <2> SUFFICES ASSUME NEW r \in Ranks, NEW d \in Owned(p), d.id \in Awaited(r) PROVE FALSE
    OBVIOUS
  <2>1. PICK q \in Ranks : d.id \in outbox[q][r].remove
    BY <1>19 DEF Awaited
  <2>2. PICK c \in con[q] : c.id = d.id
    BY <1>1, <1>2, <2>1 DEF Rest, Transit, IdsOf
  <2>3. q = p
    BY <1>1, <2>2, OnePlace DEF Owned
  <2> QED
    BY <1>9, <2>1, <2>3
<1>21. ASSUME NEW r \in Ranks, NEW e \in View(r), NEW f \in N(r) PROVE e.id # f.id
  <2> SUFFICES ASSUME e.id = f.id PROVE FALSE
    OBVIOUS
  <2>1. PICK d \in Owned(p) : r \notin d.ext /\ f.id = d.id
    BY <1>15
  <2>2. Image(e) \in Claims(r)
    BY <1>1, <1>20, <2>1 DEF Rest, Matching, Matched
  <2>3. PICK q \in Ranks : \E c \in Owned(q) : r \in c.ext /\ Image(e) = Image(c)
    BY <1>18, <2>2
  <2>4. PICK c \in Owned(q) : r \in c.ext /\ Image(e) = Image(c)
    BY <2>3
  <2>5. c.id = d.id
    BY <2>1, <2>4 DEF Image
  <2>6. c = d
    BY <1>1, <2>5, OnePlace
  <2> QED
    BY <2>1, <2>4, <2>6
<1>22. ASSUME NEW r \in Ranks PROVE Apart(N(r))
  <2> SUFFICES ASSUME NEW f \in N(r), NEW h \in N(r), f.id = h.id PROVE f = h
    BY DEF Apart
  <2>1. PICK c \in Owned(p) : Image(f) = Image(c) /\ f.id = c.id
    BY <1>15
  <2>2. PICK d \in Owned(p) : Image(h) = Image(d) /\ h.id = d.id
    BY <1>15
  <2>3. c = d
    BY <1>1, <2>1, <2>2, OnePlace
  <2>4. f \in External /\ h \in External /\ f.rank = p /\ h.rank = p
    BY <1>15
  <2> QED
    BY <2>1, <2>2, <2>3, <2>4 DEF External, Image
<1>23. ASSUME NEW r \in Ranks PROVE Matched(View(r), Claims(r), Awaited(r))
  BY <1>1 DEF Rest, Matching
<1>24. \A r \in Ranks \ {p} : View(r)' = View(r) \cup N(r)
  BY <1>12, <1>17 DEF View
<1>25. ASSUME NEW r \in Ranks \ {p} PROVE Matched(View(r), Claims(r), Awaited(r))'
  <2> DEFINE C1 == Claims(r) \cup {Image(f) : f \in N(r)}
  <2>1. Matched(View(r) \cup N(r), C1, Awaited(r))
    BY <1>21, <1>22, <1>23, MatchedGained
  <2>2. X(r) \subseteq Claims(r)
    BY <1>3, <1>18
  <2>3. Awaited(r)' = Awaited(r) \cup {g.id : g \in X(r)}
    <3>1. {g.id : g \in X(r)} = {d.id : d \in {c \in Owned(p) : r \in c.ext /\ r \notin Beyond(p, c) /\ r # p}}
      <4>1. \A d \in Owned(p) : Image(d).id = d.id
        BY DEF Image
      <4> QED
        BY <4>1
    <3>2. {g.id : g \in X(r)} \subseteq Ids
      BY <1>3, <3>1
    <3>3. Due(p, r) = {}
      BY <1>9, <1>19
    <3> HIDE DEF X
    <3> QED
      BY <1>19, <3>1, <3>2, <3>3 DEF Awaited
  <2>4. Claims(r)' = C1 \ X(r)
    <3>1. ASSUME NEW g \in Claims(r)' PROVE g \in C1 \ X(r)
      <4>1. PICK q \in Ranks : \E c \in Owned(q)' : r \in c.ext /\ g = Image(c)
        BY <1>18
      <4>2. PICK c \in Owned(q)' : r \in c.ext /\ g = Image(c)
        BY <4>1
      <4>3. CASE q = p
        <5>1. PICK d \in Owned(p) : c = L[d]
          BY <1>3, <1>7, <4>2, <4>3
        <5>2. r \in Beyond(p, d) /\ g = Image(d) /\ g \in Images
          BY <1>3, <4>2, <5>1
        <5>3. g \in C1
          <6>1. CASE r \in d.ext
            BY <1>18, <5>2, <6>1
          <6>2. CASE r \notin d.ext
            <7>1. PICK f \in N(r) : Image(f) = Image(d)
              BY <1>16, <5>2, <6>2
            <7> QED
              BY <5>2, <7>1
          <6> QED
            BY <6>1, <6>2
        <5>4. ASSUME NEW k \in Owned(p), r \notin Beyond(p, k), g = Image(k) PROVE FALSE
          <6>1. k.id = d.id
            BY <5>2, <5>4 DEF Image
          <6>2. k = d
            BY <1>1, <6>1, OnePlace
          <6> QED
            BY <5>2, <5>4, <6>2
        <5> QED
          BY <5>3, <5>4
      <4>4. CASE q # p
        <5>1. c \in Owned(q)
          BY <1>7, <4>2, <4>4
        <5>2. g \in C1
          BY <1>18, <4>2, <5>1
        <5>3. ASSUME NEW k \in Owned(p), g = Image(k) PROVE FALSE
          <6>1. k.id = c.id
            BY <4>2, <5>3 DEF Image
          <6> QED
            BY <1>1, <4>4, <5>1, <6>1, OnePlace
        <5> QED
          BY <5>2, <5>3
      <4> QED
        BY <4>3, <4>4
    <3>2. ASSUME NEW g \in C1, g \notin X(r) PROVE g \in Claims(r)'
      <4>1. CASE g \in Claims(r)
        <5>1. PICK q \in Ranks : \E c \in Owned(q) : r \in c.ext /\ g = Image(c)
          BY <1>18, <4>1
        <5>2. PICK c \in Owned(q) : r \in c.ext /\ g = Image(c)
          BY <5>1
        <5>3. g \in Images
          BY <4>1 DEF Claims
        <5>4. CASE q = p
          <6>1. r \in Beyond(p, c)
            BY <3>2, <5>2, <5>4
          <6>2. L[c] \in Owned(p)' /\ r \in L[c].ext /\ g = Image(L[c])
            BY <1>3, <1>7, <5>2, <5>4, <6>1
          <6> QED
            BY <1>18, <5>3, <6>2
        <5>5. CASE q # p
          BY <1>7, <1>18, <5>2, <5>3, <5>5
        <5> QED
          BY <5>4, <5>5
      <4>2. ASSUME NEW f \in N(r), g = Image(f) PROVE g \in Claims(r)'
        <5>1. PICK d \in Owned(p) : r \in Beyond(p, d) /\ Image(f) = Image(d)
          BY <1>15
        <5>2. L[d] \in Owned(p)' /\ r \in L[d].ext /\ g = Image(L[d]) /\ g \in Images
          BY <1>3, <1>7, <4>2, <5>1
        <5> QED
          BY <1>18, <5>2
      <4> QED
        BY <3>2, <4>1, <4>2
    <3> QED
      BY <3>1, <3>2
  <2>5. X(r) \subseteq C1
    BY <2>2
  <2> HIDE DEF X, C1
  <2>6. Matched(View(r) \cup N(r), Claims(r)', Awaited(r)')
    BY <2>1, <2>3, <2>4, <2>5, MatchedRetired
  <2> QED
    BY <1>24, <2>6 DEF Matched, Apart
<1>26. /\ View(p)' = {e \in View(p) : e.id \notin K}
       /\ Coming(p)' = Coming(p)
  <2>1. Coming(p)' = Coming(p)
    <3>1. N(p) = {}
      BY <1>3, <1>15
    <3> QED
      BY <1>12, <3>1
  <2>2. \A e \in Coming(p) : e.id \notin K
    BY <1>14
  <2> HIDE DEF K
  <2> QED
    BY <1>17, <2>1, <2>2 DEF View
<1>27. Matched(View(p), Claims(p), Awaited(p))'
  <2>1. Awaited(p)' = Awaited(p) /\ Awaited(p) = Awaited(p) \ K
    <3>1. Due(p, p) = {}
      BY <1>9, <1>19
    <3>2. Awaited(p)' = Awaited(p)
      BY <1>19, <3>1 DEF Awaited
    <3>3. \A i \in K : i \notin Awaited(p)
      BY <1>20
    <3> HIDE DEF K
    <3> QED
      BY <3>2, <3>3
  <2>2. Claims(p)' = {g \in Claims(p) : g.id \notin K}
    <3>1. ASSUME NEW g \in Claims(p)' PROVE g \in Claims(p) /\ g.id \notin K
      <4>1. PICK q \in Ranks : \E c \in Owned(q)' : p \in c.ext /\ g = Image(c)
        BY <1>18
      <4>2. PICK c \in Owned(q)' : p \in c.ext /\ g = Image(c)
        BY <4>1
      <4>3. q # p
        BY <1>3, <1>7, <4>2
      <4>4. c \in Owned(q) /\ g.id = c.id
        BY <1>7, <4>2, <4>3 DEF Image
      <4>5. \A d \in Owned(p) : d.id # c.id
        BY <1>1, <4>3, <4>4, OnePlace
      <4> QED
        BY <1>18, <4>2, <4>4, <4>5
    <3>2. ASSUME NEW g \in Claims(p), g.id \notin K PROVE g \in Claims(p)'
      <4>1. PICK q \in Ranks : \E c \in Owned(q) : p \in c.ext /\ g = Image(c)
        BY <1>18
      <4>2. PICK c \in Owned(q) : p \in c.ext /\ g = Image(c)
        BY <4>1
      <4>3. g.id = c.id /\ g \in Images
        BY <4>2 DEF Image, Claims
      <4>4. q # p
        BY <3>2, <4>2, <4>3
      <4> QED
        BY <1>7, <1>18, <4>2, <4>3, <4>4
    <3> QED
      BY <3>1, <3>2
  <2> HIDE DEF K
  <2>3. Matched(View(p)', Claims(p)', Awaited(p))
    BY <1>23, <1>26, <2>1, <2>2, MatchedDropped
  <2> QED
    BY <2>1, <2>3 DEF Matched, Apart
<1>28. Matching'
  <2>1. \A r \in Ranks : Matched(View(r), Claims(r), Awaited(r))'
    BY <1>25, <1>27
  <2>2. \A r \in Ranks : \A e \in Seen(r) : \A f \in Coming(r) : e.id # f.id
    BY <1>1 DEF Rest, Matching
  <2>3. \A r \in Ranks : \A e \in Seen(r)' : \A f \in Coming(r)' : e.id # f.id
    <3> SUFFICES ASSUME NEW r \in Ranks, NEW e \in Seen(r)', NEW f \in Coming(r)' PROVE e.id # f.id
      OBVIOUS
    <3>1. e \in Seen(r) /\ e \in View(r)
      BY <1>17 DEF View
    <3> QED
      BY <1>12, <1>21, <2>2, <3>1
  <2> QED
    BY <2>1, <2>3 DEF Matching
<1>29. Transit'
  <2>1. ASSUME NEW r \in Ranks PROVE Sender(r)'
    <3> SUFFICES ASSUME NEW e \in Coming(r)'
                 PROVE  \E c \in con'[e.rank] : r \in c.ext /\ Image(c) = Image(e)
      BY <1>2 DEF Sender
    <3>1. CASE e \in Coming(r)
      <4>1. e.rank \in Ranks \ {p}
        BY <1>13, <3>1
      <4> QED
        BY <1>1, <1>2, <1>6, <3>1, <4>1 DEF Rest, Transit, Sender
    <3>2. CASE e \in N(r)
      <4>1. PICK d \in Owned(p) : e.rank = p /\ r \in Beyond(p, d) /\ Image(e) = Image(d)
        BY <1>15, <3>2
      <4> QED
        BY <1>3, <4>1
    <3> QED
      BY <1>12, <3>1, <3>2
  <2>2. ASSUME NEW r \in Ranks, r \notin done'
        PROVE  Got(r, "remove")' \subseteq IdsOf(conext'[r])
    <3>1. r # p /\ r \notin done /\ Got(r, "remove")' = Got(r, "remove")
      BY <1>2, <2>2 DEF Got
    <3> QED
      BY <1>1, <1>2, <1>17, <3>1 DEF Rest, Transit
  <2>3. ASSUME NEW q \in Ranks, NEW r \in Ranks PROVE outbox'[q][r].remove \subseteq IdsOf(con'[q])
    <3>1. CASE q = p
      <4>1. \A d \in Owned(p) : L[d] \in con'[p] /\ L[d].id = d.id
        BY <1>3
      <4> QED
        BY <1>4, <3>1, <4>1 DEF IdsOf
    <3>2. CASE q # p
      BY <1>1, <1>2, <1>5, <1>6, <3>2 DEF Rest, Transit
    <3> QED
      BY <3>1, <3>2
  <2>4. ASSUME NEW q \in Ranks, NEW r \in Ranks, q \in done' PROVE Written(q, r)'
    <3>0. Updates(q, r)' = outbox'[q][r].update
      BY <1>2 DEF Updates
    <3>1. CASE q = p
      <4>1. ASSUME NEW i \in outbox'[p][r].update PROVE \E c \in con'[p] : c.id = i /\ r \in c.ext
        <5>1. PICK d \in Owned(p) : i = d.id /\ r \in Beyond(p, d)
          BY <1>4
        <5> QED
          BY <1>3, <5>1
      <4>2. ASSUME NEW c \in con'[p], r \in c.ext
            PROVE c.id \in outbox'[p][r].update \/ \E e \in Coming(r)' : e.rank = p /\ Image(e) = Image(c)
        <5>1. PICK d \in Owned(p) : c = L[d]
          BY <1>3
        <5>2. r \in Beyond(p, d) /\ c.id = d.id /\ Image(c) = Image(d)
          BY <1>3, <4>2, <5>1
        <5>3. CASE r \in d.ext
          BY <1>4, <5>2, <5>3
        <5>4. CASE r \notin d.ext
          <6>1. PICK f \in N(r) : Image(f) = Image(d)
            BY <1>16, <5>2, <5>4
          <6> QED
            BY <1>12, <1>15, <5>2, <6>1
        <5> QED
          BY <5>3, <5>4
      <4> QED
        BY <3>0, <3>1, <4>1, <4>2 DEF Written
    <3>2. CASE q # p
      <4>1. Updates(q, r) = outbox[q][r].update /\ Written(q, r)
        BY <1>1, <1>2, <2>4, <3>2 DEF Updates, Rest, Transit
      <4>2. Updates(q, r)' = Updates(q, r) /\ con'[q] = con[q] /\ Coming(r) \subseteq Coming(r)'
        BY <1>5, <1>6, <1>12, <3>0, <3>2, <4>1
      <4> QED
        BY <4>1, <4>2 DEF Written
    <3> QED
      BY <3>1, <3>2
  <2> QED
    BY <1>2, <2>1, <2>2, <2>3, <2>4 DEF Transit
<1>30. Found'
  <2>1. Got(p, "remove") \subseteq IdsOf(conext[p])
    BY <1>1, <1>2 DEF Rest, Transit
  <2>2. ASSUME NEW d \in Got(p, "cons"), p \in d.ext PROVE d.id \in IdsOf(conext[p])
    <3>1. d \in Owned(p)
      BY <1>6 DEF Owned
    <3>2. Image(d) \in Claims(p)
      BY <1>3, <1>18, <2>2, <3>1
    <3>3. PICK e \in View(p) : Image(e) = Image(d)
      BY <1>23, <3>2 DEF Matched
    <3>4. e.id = d.id
      BY <3>3 DEF Image
    <3>5. e \in conext[p]
      BY <1>14, <3>1, <3>4 DEF View, Seen
    <3> QED
      BY <3>4, <3>5 DEF IdsOf
  <2> DEFINE drop == {c.id : c \in {d \in Got(p, "cons") : p \in d.ext}} \cup Got(p, "remove")
  <2>3. \E S, lists : failed' = failed \cup Unknown(drop, conext[p]) \cup Clashing(S, lists)
    BY DEF MigrateIn
  <2>4. drop \subseteq IdsOf(conext[p])
    BY <2>1, <2>2
  <2> HIDE DEF drop
  <2> QED
    BY <1>1, <2>3, <2>4, FaultsTyped DEF Unknown, Rest, Found
<1>31. Ranked' /\ Cleared'
  BY <1>2 DEF Ranked, Cleared
<1> QED
  BY <1>28, <1>29, <1>30, <1>31 DEF Rest

-----------------------------------------------------------------------------
(* RInv is an inductive invariant, if the callback is careful. *)
LEMMA StepRest ==
    ASSUME RInv, RNext, Careful, Sets, [Next]_vars, Next => "bodcon" \notin failed
    PROVE  Rest'
<1>1. CASE UNCHANGED vars
  <2>1. UNCHANGED <<phase, done, con, conext, dbdrem, outbox, inbox, failed>>
    BY <1>1 DEF vars
  <2>2. /\ Gone' = Gone /\ \A c : Spared(c)' <=> Spared(c)
        /\ \A q \in Ranks : Owned(q)' = Owned(q) /\ Got(q, "remove")' = Got(q, "remove")
                            /\ Got(q, "update")' = Got(q, "update")
        /\ \A q, r \in Ranks : Due(q, r)' = Due(q, r) /\ Glue(q, r)' = Glue(q, r)
                               /\ Updates(q, r)' = Updates(q, r)
    BY <2>1 DEF Gone, Spared, Owned, Arriving, Got, Due, Glue, Updates
  <2>3. \A r \in Ranks : Stale(r)' = Stale(r) /\ Coming(r)' = Coming(r)
    BY <2>1, <2>2 DEF Stale, Coming, External
  <2>4. \A r \in Ranks : Seen(r)' = Seen(r) /\ View(r)' = View(r)
    BY <2>1, <2>2, <2>3 DEF Seen, View
  <2>5. \A r \in Ranks : Claims(r)' = Claims(r) /\ Awaited(r)' = Awaited(r)
    BY <2>2 DEF Claims, Awaited
  <2>6. Rest
    BY RForms
  <2>7. Matching'
    BY <2>3, <2>4, <2>5, <2>6 DEF Rest, Matching
  <2>8. Ranked'
    BY <2>1, <2>2, <2>4, <2>6 DEF Rest, Ranked, RankOf
  <2>9. Transit'
    <3>1. \A r \in Ranks : Sender(r) => Sender(r)'
      BY <2>1, <2>3 DEF Sender
    <3>2. \A q, r \in Ranks : Written(q, r) => Written(q, r)'
      BY <2>1, <2>2, <2>3 DEF Written
    <3> QED
      BY <2>1, <2>2, <2>6, <3>1, <3>2 DEF Rest, Transit
  <2>10. Cleared' /\ Found'
    BY <2>1, <2>2, <2>6 DEF Rest, Cleared, Found
  <2> QED
    BY <2>7, <2>8, <2>9, <2>10 DEF Rest
<1>2. ASSUME NEW p \in Ranks,
             \/ MigrateOut(p) \/ MigrateIn(p) \/ Settle(p)
             \/ PutPending(p) \/ DropPending(p)
             \/ \E t \in Touching : Detect(p, t)
             \/ GlueNew(p) \/ Sparsify(p) \/ Solve(p) \/ StepEnd(p) \/ Manage(p)
             \/ \E b \in Fixable : FixPoint(p, b)
             \/ \E c \in con[p] : DeleteConstraint(p, c)
             \/ CallbackReturn(p) \/ UpdateConstraints(p)
      PROVE  Rest'
  <2>1. Next
    BY <1>2 DEF Next
  <2>2. "bodcon" \notin failed
    BY <2>1
  <2> QED
    BY <1>2, <2>2, MigrateOutRest, MigrateInRest, SettleRest, PutPendingRest, ReturnRest, InsertRest,
       GlueNewRest, SparsifyRest, SolveRest, StepEndRest, ManageRest, DeleteConstraintRest,
       UpdateConstraintsRest
<1> QED
  BY <1>1, <1>2, PartitionRest, ExchangeRest DEF Next

(* A step keeps the whole invariant. *)
LEMMA StepR ==
    ASSUME RInv, Careful, Sets, [Next]_vars, Next => "bodcon" \notin failed
    PROVE  RInv'
<1>1. IInv /\ Shape /\ Mail /\ News
  BY DEF RInv, IInv
<1>2. Shape'
  BY <1>1, StepShape
<1>3. Mail' /\ News'
  BY <1>1, <1>2, StepMail, StepNews
<1>4. Rest'
  BY <1>2, <1>3, StepRest DEF RNext
<1>5. Distinct' /\ [I!Next]_(I!vars)
  BY <1>1, StepRefines
<1>6. I!IInv'
  BY <1>1, <1>5, Counts, I!StepInv DEF IInv
<1> QED
  BY <1>2, <1>3, <1>4, <1>5, <1>6 DEF RInv, IInv

(* Initially there is nothing to match. *)
LEMMA InitR == Init => RInv
<1> SUFFICES ASSUME Init PROVE RInv
  OBVIOUS
<1>1. IInv
  BY InitShape, InitRefines, Counts, I!InitInv DEF IInv
<1>2. \A q, r \in Ranks : outbox[q][r] = NoData /\ inbox[q][r] = NoData /\ dbdrem[q][r] = {}
  BY DEF Init, NoMail
<1>3. phase = "partition" /\ done = {} /\ \A q \in Ranks : con[q] = {} /\ conext[q] = {}
  BY DEF Init
<1>4. Mail
  BY <1>2, <1>3 DEF Mail, Outgoing, Incoming, Broadcast, NoData
<1>5. Forms
  BY <1>1, <1>4, FormsHold DEF IInv
<1>6. News
  BY <1>3, <1>5 DEF News, Forms
<1>7. \A r \in Ranks : /\ Seen(r) = {} /\ Coming(r) = {} /\ View(r) = {}
                       /\ Claims(r) = {} /\ Awaited(r) = {}
  <2> SUFFICES ASSUME NEW r \in Ranks
      PROVE /\ Seen(r) = {} /\ Coming(r) = {} /\ View(r) = {}
            /\ Claims(r) = {} /\ Awaited(r) = {}
    OBVIOUS
  <2>1. Seen(r) = {} /\ Coming(r) = {}
    BY <1>3, <1>5 DEF Forms
  <2>2. \A q \in Ranks : Owned(q) = {}
    BY <1>3, <1>5 DEF Forms
  <2>3. \A q \in Ranks : Due(q, r) = {}
    <3>1. \A q \in Ranks : Due(q, r) = dbdrem[q][r]
      BY <1>3, <1>5 DEF Forms
    <3> QED
      BY <1>2, <3>1
  <2> QED
    BY <2>1, <2>2, <2>3 DEF View, Claims, Awaited
<1>8. Matching /\ Ranked
  BY <1>7 DEF Matching, Matched, Apart, Ranked, RankOf
<1>9. Transit
  <2>1. \A r \in Ranks : Got(r, "update") = {}
    BY <1>2, NoDataTyped DEF Got
  <2> QED
    BY <1>3, <2>1 DEF Transit
<1>10. Cleared /\ Found
  BY <1>3 DEF Cleared, Found, Init
<1> QED
  BY <1>1, <1>4, <1>6, <1>8, <1>9, <1>10 DEF RInv, Rest

(* In the settled phases nothing is on the way. *)
LEMMA SettledForms ==
    ASSUME RInv, Settled({"settle", "pending", "solve", "manage", "callback", "update"}),
           NEW r \in Ranks
    PROVE  /\ View(r) = conext[r] /\ RankOf(r)
           /\ Claims(r) = {g \in Images : \E q \in Ranks : \E c \in con[q] : r \in c.ext /\ g = Image(c)}
           /\ \A q \in Ranks : Due(q, r) = dbdrem[q][r]
<1>1. Shape /\ Forms /\ Rest /\ Mail
  BY RForms DEF RInv
<1>2. phase \in {"settle", "pending", "solve", "manage", "callback", "update"} /\ done = Ranks
  BY DEF Settled
<1>3. RankOf(r)
  BY <1>1, <1>2 DEF Rest, Ranked
<1>4. ASSUME NEW q \in Ranks PROVE Due(q, r) = dbdrem[q][r]
  <2>1. dbdrem[q][r] # {} => phase \in {"callback", "update", "manage"}
    BY <1>1, <1>2 DEF Mail, Scheduling
  <2>2. outbox[q][r].remove = {}
    BY <1>1, <1>2 DEF Mail, Outgoing
  <2> QED
    BY <1>2, <2>1, <2>2 DEF Due
<1>5. \A q \in Ranks : \A c \in con[q] \cup conext[q] : Spared(c)
  <2>1. CASE phase = "manage"
    BY <1>1, <1>2, <2>1 DEF Rest, Cleared
  <2>2. CASE phase # "manage"
    <3>1. Gone = {}
      BY <1>1, <1>2, <2>2 DEF Forms
    <3> QED
      BY <3>1 DEF Spared
  <2> QED
    BY <2>1, <2>2
<1>6. Coming(r) = {}
  <2>1. \A q \in Ranks : Glue(q, r) = {}
    BY <1>1, <1>2 DEF Glue, Mail, Outgoing
  <2> QED
    BY <2>1 DEF Coming, External
<1>7. View(r) = conext[r]
  <2>1. Stale(r) = {}
    BY <1>2 DEF Stale
  <2> QED
    BY <1>5, <1>6, <2>1 DEF View, Seen
<1>8. Claims(r) = {g \in Images : \E q \in Ranks : \E c \in con[q] : r \in c.ext /\ g = Image(c)}
  <2>1. \A q \in Ranks : Owned(q) = con[q]
    BY <1>1, <1>2 DEF Forms
  <2> QED
    BY <1>5, <2>1 DEF Claims
<1> QED
  BY <1>3, <1>4, <1>7, <1>8

(* The agreement of ext and images, settled. *)
LEMMA RImages == RInv => ImagesMatch
<1>1. ASSUME RInv PROVE ImagesMatch
  <2> SUFFICES ASSUME Settled({"settle", "pending", "solve", "manage", "callback", "update"}),
                      NEW r \in Ranks, NEW q \in Ranks \ {r}
      PROVE  IdsOf({e \in conext[r] : e.rank = q})
               = IdsOf({c \in con[q] : r \in c.ext}) \cup dbdrem[q][r]
    BY DEF ImagesMatch
  <2>1. /\ View(r) = conext[r] /\ RankOf(r)
        /\ Claims(r) = {g \in Images : \E s \in Ranks : \E c \in con[s] : r \in c.ext /\ g = Image(c)}
        /\ \A s \in Ranks : Due(s, r) = dbdrem[s][r]
    BY <1>1, SettledForms
  <2>2. Matched(View(r), Claims(r), Awaited(r)) /\ Shape
    BY <1>1, RForms DEF Rest, Matching
  <2>3. ASSUME NEW e \in conext[r], e.rank = q
        PROVE  e.id \in IdsOf({c \in con[q] : r \in c.ext}) \cup dbdrem[q][r]
    <3>1. CASE e.id \in Awaited(r)
      <4>1. PICK s \in Ranks : e.id \in Due(s, r)
        BY <3>1 DEF Awaited
      <4>2. s = q
        BY <2>1, <2>3, <4>1 DEF RankOf
      <4> QED
        BY <2>1, <4>1, <4>2
    <3>2. CASE Image(e) \in Claims(r)
      <4>1. PICK s \in Ranks : \E c \in con[s] : r \in c.ext /\ Image(e) = Image(c)
        BY <2>1, <3>2
      <4>2. PICK c \in con[s] : r \in c.ext /\ Image(e) = Image(c)
        BY <4>1
      <4>3. c.id = e.id
        BY <4>2 DEF Image
      <4>4. s = q
        BY <2>1, <2>3, <4>2, <4>3 DEF RankOf
      <4> QED
        BY <4>2, <4>3, <4>4 DEF IdsOf
    <3> QED
      BY <2>1, <2>2, <3>1, <3>2 DEF Matched
  <2>4. ASSUME NEW c \in con[q], r \in c.ext PROVE c.id \in IdsOf({e \in conext[r] : e.rank = q})
    <3>1. Image(c) \in Claims(r)
      BY <2>1, <2>2, <2>4, ImageTyped DEF Shape
    <3>2. PICK e \in conext[r] : Image(e) = Image(c)
      BY <2>1, <2>2, <3>1 DEF Matched
    <3>3. e.id = c.id
      BY <3>2 DEF Image
    <3>4. e.rank = q
      BY <2>1, <2>4, <3>3 DEF RankOf
    <3> QED
      BY <3>3, <3>4 DEF IdsOf
  <2>5. ASSUME NEW i \in dbdrem[q][r] PROVE i \in IdsOf({e \in conext[r] : e.rank = q})
    <3>1. i \in Ids
      BY <2>2 DEF Shape, TypeOK
    <3>2. i \in Awaited(r) /\ i \in Due(q, r)
      BY <2>1, <3>1 DEF Awaited
    <3>3. PICK e \in conext[r] : e.id = i
      BY <2>1, <2>2, <3>2 DEF Matched
    <3>4. e.rank = q
      BY <2>1, <3>2, <3>3 DEF RankOf
    <3> QED
      BY <3>3, <3>4 DEF IdsOf
  <2>6. IdsOf({e \in conext[r] : e.rank = q}) \subseteq IdsOf({c \in con[q] : r \in c.ext}) \cup dbdrem[q][r]
    BY <2>3 DEF IdsOf
  <2>7. IdsOf({c \in con[q] : r \in c.ext}) \subseteq IdsOf({e \in conext[r] : e.rank = q})
    BY <2>4 DEF IdsOf
  <2> QED
    BY <2>5, <2>6, <2>7
<1> QED
  BY <1>1

-----------------------------------------------------------------------------
(* The second part: a constraint is on a rank that has its bodies, all ranks
   that have them see it, a pair of bodies has one contact, and every lookup
   succeeds.  The images are needed for the third: the rank that reports an
   overlap knows of a contact owned elsewhere by its image; and the other two
   for the images to be where that rank looks for them. *)

(* Parts of cracked bodies that are in the mail. *)
Born == {b \in Bodies : \E q, r \in Ranks : b \in outbox[q][r].parts \cup inbox[r][q].parts}

(* Constraints are of living bodies, or of bodies in the mail of finish and
   manage; during DOM_Initialize no body leaves. *)
Known ==
    /\ \A q \in Ranks : \A c \in Owned(q) : BodiesOf(c) \subseteq alive \cup Gone \cup Born
    /\ phase = "manage" /\ done # {} => Born \subseteq alive
    /\ boot => /\ alive = Bodies \ Range(Parts)
               /\ phase \in {"partition", "balance", "import", "settle", "pending"}
    /\ phase = "pending" => boot

(* From balance on, the rank of a constraint has the bodies of it. *)
Located(q) == \/ phase \in {"import", "settle", "pending", "detect", "sparsify", "solve"}
              \/ phase = "balance" /\ q \in done

Placed ==
    \A q \in Ranks :
        /\ Located(q) => \A c \in con[q] : \A b \in BodiesOf(c) : q \in Holders(b)
        /\ \A c \in Arriving(q) : \A b \in BodiesOf(c) : q \in Holders(b)

(* From import on it lists all other ranks with one of its bodies; what is
   pending or detected now is listed later. *)
Spread ==
    \A q \in Ranks :
        phase \in {"settle", "detect", "sparsify", "solve"} \/ (phase = "import" /\ q \in done) =>
            \A c \in con[q] : c.ext = Beyond(q, c) \/ (c.new /\ phase = "detect" /\ q \notin done)

(* The ranks two boxes may be found to overlap on. *)
Meeting(t) == {q \in Ranks : \A b \in t : q \in box[b]}

(* A pair has one contact; a new one is on the rank that reports the overlap. *)
Single ==
    /\ \A p, q \in Ranks : \A c \in Owned(p) : \A d \in Owned(q) :
         c.kind = "CONTACT" /\ d.kind = "CONTACT" /\ BodiesOf(c) = BodiesOf(d) => c.id = d.id
    /\ phase = "detect" => \A q \in Ranks : \A c \in con[q] : c.new =>
         c.kind = "CONTACT" /\ q = Min(Meeting(BodiesOf(c)))

(* The inductive invariant, together with RInv above. *)
Attached == Known /\ Placed /\ Spread /\ Single /\ "slave" \notin failed

-----------------------------------------------------------------------------
(* Bodies that stay where they are keep their holders. *)
LEMMA HoldersStay ==
    ASSUME UNCHANGED mapVars
    PROVE  /\ \A b : Holders(b)' = Holders(b)
           /\ \A r, c : Beyond(r, c)' = Beyond(r, c)
<1>1. UNCHANGED <<alive, home, box>>
  BY DEF mapVars
<1>2. \A b : Holders(b)' = Holders(b)
  BY <1>1 DEF Holders, Paired
<1>3. \A r, b : Remote(r, b)' = Remote(r, b)
  BY <1>1, <1>2 DEF Remote
<1> QED
  BY <1>2, <1>3 DEF Beyond

(* What is the same in two constraints with the same image. *)
LEMMA ImageSame ==
    ASSUME NEW c, NEW d, Image(c) = Image(d)
    PROVE  /\ c.id = d.id /\ c.kind = d.kind /\ c.master = d.master /\ c.slave = d.slave
           /\ BodiesOf(c) = BodiesOf(d)
<1>1. c.id = d.id /\ c.kind = d.kind /\ c.master = d.master /\ c.slave = d.slave
  BY DEF Image
<1> QED
  BY <1>1 DEF BodiesOf

(* The blocks that neither insert nor transfer a constraint: every constraint
   was there before, maybe on another rank, maybe with another ext. *)
Keeps(p) == \/ MigrateOut(p) \/ MigrateIn(p) \/ Settle(p) \/ DropPending(p)
            \/ GlueNew(p) \/ Sparsify(p) \/ Solve(p) \/ Manage(p)
            \/ \E c \in con[p] : DeleteConstraint(p, c)
            \/ CallbackReturn(p) \/ UpdateConstraints(p)

Kept == \A q \in Ranks : \A c \in Owned(q)' : \E s \in Ranks : \E d \in Owned(s) : Image(c) = Image(d)

(* So it is for these blocks. *)
LEMMA StepKeeps == ASSUME Shape, Shape', NEW p \in Ranks, Keeps(p) PROVE Kept
<1>0. ASSUME phase \notin {"balance", "import"}, UNCHANGED phase,
             \A q \in Ranks \ {p} : con'[q] = con[q],
             \A c \in con'[p] : \E d \in con[p] : Image(c) = Image(d)
      PROVE  Kept
  <2>1. \A q \in Ranks : Arriving(q) = {} /\ Arriving(q)' = {}
    BY <1>0, Quiet
  <2>2. \A q \in Ranks : Owned(q)' = con'[q] /\ Owned(q) = con[q]
    BY <2>1 DEF Owned
  <2> QED
    BY <1>0, <2>2 DEF Kept
<1>1. CASE MigrateOut(p)
  <2>1. PICK dest \in [con[p] -> Ranks] :
             /\ con'[p] = {c \in con[p] : dest[c] = p}
             /\ \A q \in Ranks \ {p} : con'[q] = con[q]
             /\ \A q \in Ranks : Arriving(q)' = Arriving(q) \cup {c \in con[p] : dest[c] = q /\ q # p}
    BY <1>1, MigrateOutFacts
  <2>2. \A q \in Ranks : con'[q] \subseteq con[q]
    BY <2>1
  <2>3. \A q \in Ranks : Arriving(q)' \subseteq Arriving(q) \cup con[p]
    BY <2>1
  <2> QED
    BY <2>2, <2>3 DEF Kept, Owned
<1>2. CASE MigrateIn(p)
  <2>1. /\ Arriving(p) = Got(p, "cons") /\ Arriving(p)' = {}
        /\ \A q \in Ranks \ {p} : Arriving(q)' = Arriving(q) /\ con'[q] = con[q]
        /\ con'[p] = {[c EXCEPT !.ext = Beyond(p, c)] : c \in
                con[p] \cup {[c EXCEPT !.ext = @ \ {p}] : c \in Got(p, "cons")}}
    BY <1>2, MigrateInFacts
  <2>2. Owned(p) \subseteq Sound
    BY OwnedTyped
  <2>3. \A c \in Sound : \A x : Image([c EXCEPT !.ext = x]) = Image(c)
    BY DEF Image, Sound, Constraint
  <2>4. ASSUME NEW c \in con'[p] PROVE \E d \in Owned(p) : Image(c) = Image(d)
    <3>1. PICK k \in con[p] \cup {[d EXCEPT !.ext = @ \ {p}] : d \in Got(p, "cons")} :
               c = [k EXCEPT !.ext = Beyond(p, k)]
      BY <2>1
    <3>2. CASE k \in con[p]
      BY <2>2, <2>3, <3>1, <3>2 DEF Owned
    <3>3. ASSUME NEW d \in Got(p, "cons"), k = [d EXCEPT !.ext = @ \ {p}]
          PROVE  \E g \in Owned(p) : Image(c) = Image(g)
      <4>1. d \in Sound /\ d \in Owned(p)
        BY <2>1, <2>2 DEF Owned
      <4>2. k \in Sound
        BY <3>3, <4>1, ExtChanged DEF Sound, Constraint
      <4>3. Image(k) = Image(d)
        BY <3>3, <4>1 DEF Image, Sound, Constraint
      <4>4. Image(c) = Image(k)
        BY <2>3, <3>1, <4>2
      <4> QED
        BY <4>1, <4>3, <4>4
    <3> QED
      BY <3>1, <3>2, <3>3
  <2>5. \A q \in Ranks \ {p} : Owned(q)' = Owned(q)
    BY <2>1 DEF Owned
  <2>6. Owned(p)' = con'[p]
    BY <2>1 DEF Owned
  <2> QED
    BY <2>4, <2>5, <2>6 DEF Kept
<1>3. CASE Settle(p) \/ DropPending(p) \/ CallbackReturn(p)
  BY <1>0, <1>3 DEF Settle, DropPending, CallbackReturn, Enter
<1>4. CASE GlueNew(p)
  <2>1. con'[p] = (con[p] \ {c \in con[p] : c.new}) \cup
             {[c EXCEPT !.ext = Beyond(p, c)] : c \in {d \in con[p] : d.new}}
        /\ \A q \in Ranks \ {p} : con'[q] = con[q]
    BY <1>4 DEF GlueNew, Shape
  <2>2. \A c \in con[p] : \A x : Image([c EXCEPT !.ext = x]) = Image(c)
    BY DEF Image, Shape, Sound, Constraint
  <2>3. \A c \in con'[p] : \E d \in con[p] : Image(c) = Image(d)
    BY <2>1, <2>2
  <2> QED
    BY <1>0, <1>4, <2>1, <2>3 DEF GlueNew, Enter
<1>5. CASE Solve(p)
  <2>1. con'[p] = {[c EXCEPT !.new = FALSE] : c \in con[p]}
        /\ \A q \in Ranks \ {p} : con'[q] = con[q]
    BY <1>5 DEF Solve, Shape
  <2>2. \A c \in con[p] : Image([c EXCEPT !.new = FALSE]) = Image(c)
    BY DEF Image, Shape, Sound, Constraint
  <2>3. \A c \in con'[p] : \E d \in con[p] : Image(c) = Image(d)
    BY <2>1, <2>2
  <2> QED
    BY <1>0, <1>5, <2>1, <2>3 DEF Solve, Enter
<1>6. CASE \/ Sparsify(p) \/ Manage(p) \/ (\E c \in con[p] : DeleteConstraint(p, c))
           \/ UpdateConstraints(p)
  <2>1. \E S : con' = [con EXCEPT ![p] = @ \ S]
    <3>1. CASE Manage(p)
      <4> DEFINE mine == UNION {Listed(p, b, con[p]) : b \in Got(p, "bodies")}
      <4>1. PICK broken : con' = [con EXCEPT ![p] = (@ \ mine) \ broken]
        BY <3>1 DEF Manage
      <4>2. con' = [con EXCEPT ![p] = @ \ (mine \cup broken)]
        BY <4>1
      <4> QED
        BY <4>2
    <3> QED
      BY <1>6, <3>1 DEF Sparsify, DeleteConstraint, UpdateConstraints
  <2>3. con'[p] \subseteq con[p] /\ \A q \in Ranks \ {p} : con'[q] = con[q]
    BY <2>1 DEF Shape
  <2>2. phase \in {"sparsify", "manage", "callback", "update"} /\ UNCHANGED phase
    BY <1>6 DEF Sparsify, Manage, DeleteConstraint, UpdateConstraints, Enter
  <2> QED
    BY <1>0, <2>2, <2>3
<1> QED
  BY <1>1, <1>2, <1>3, <1>4, <1>5, <1>6 DEF Keeps

(* Once the ranks are told, all of them are told of the same parts. *)
LEMMA BornIs ==
    ASSUME Shape, Mail, phase = "manage", NEW r \in Ranks
    PROVE  Born = Got(r, "parts")
<1>1. \A p, q \in Ranks : outbox[q][p].parts = {} /\ inbox[p][q].parts = inbox[r][q].parts
  BY DEF Mail, Outgoing, Broadcast
<1>2. Got(r, "parts") \subseteq Bodies
  BY GotTyped
<1> QED
  BY <1>1, <1>2 DEF Born, Got

-----------------------------------------------------------------------------
(* Bodies are on their way out, and parts on their way in, at the end of a
   step only. *)
LEMMA NoneBorn == Mail /\ phase \notin {"finish", "manage"} => Born = {}
<1> QED
  BY DEF Mail, Outgoing, Incoming, Born

(* The same of the next state. *)
LEMMA NoneBornNext == Mail' /\ phase' \notin {"finish", "manage"} => Born' = {}
<1> QED
  BY DEF Mail, Outgoing, Incoming, Born

(* The constraints of a body that cracks move to the part its rank announces. *)
LEMMA StepEndFacts ==
    ASSUME Shape, Shape', Mail, Mail', NEW p \in Ranks, StepEnd(p)
    PROVE  /\ phase = "finish" /\ UNCHANGED <<phase, boot, mapVars>>
           /\ failed' \subseteq failed \cup {"conext"}
           /\ Gone \subseteq Gone' /\ Born \subseteq Born'
           /\ \A q \in Ranks \ {p} : con'[q] = con[q]
           /\ \A c \in con'[p] : c \in con[p] \/ (c.kind # "CONTACT" /\ BodiesOf(c) \subseteq Born')
<1>1. /\ phase = "finish" /\ p \notin done /\ UNCHANGED <<phase, boot, mapVars, inbox>>
      /\ Lookup(p, Got(p, "update"), conext[p])
  BY DEF StepEnd, Enter
<1>2. PICK out \in SUBSET {b \in Lost \cap alive : home[b] = p} :
      \E cracked \in SUBSET {b \in DOMAIN Parts \cap alive : home[b] = p /\ b \notin out} :
        /\ RemoveBodies(p, out \cup cracked, cracked)
        /\ Send(p, [q \in Ranks |-> [NoData EXCEPT
                !.bodies = out \cup cracked, !.parts = {Parts[b] : b \in cracked}]])
  BY DEF StepEnd
<1>3. PICK cracked \in SUBSET {b \in DOMAIN Parts \cap alive : home[b] = p /\ b \notin out} :
        /\ RemoveBodies(p, out \cup cracked, cracked)
        /\ Send(p, [q \in Ranks |-> [NoData EXCEPT
                !.bodies = out \cup cracked, !.parts = {Parts[b] : b \in cracked}]])
  BY <1>2
<1> DEFINE mine == UNION {Listed(p, b, con[p]) : b \in out \cup cracked}
           moved == UNION {Listed(p, b, mine) : b \in cracked}
<1>4. /\ con'[p] = (con[p] \ mine) \cup Transferred(moved)
      /\ \A q \in Ranks \ {p} : con'[q] = con[q]
  <2>1. DOMAIN con = Ranks
    BY DEF Shape, TypeOK
  <2>2. con' = [con EXCEPT ![p] = (@ \ mine) \cup Transferred(moved)]
    BY <1>3 DEF RemoveBodies
  <2> HIDE DEF moved, mine
  <2> QED
    BY <2>1, <2>2
<1>5. \A c \in moved : c \in Sound /\ \E b \in cracked : b \in BodiesOf(c)
  BY DEF Listed, With, Shape
<1>6. /\ \A r \in Ranks : outbox[p][r] = NoData
      /\ \A q, r \in Ranks : q # p => outbox'[q][r] = outbox[q][r]
      /\ \A r \in Ranks : outbox'[p][r].parts = {Parts[b] : b \in cracked}
  <2> DEFINE sent == [NoData EXCEPT
                !.bodies = out \cup cracked, !.parts = {Parts[b] : b \in cracked}]
  <2>1. DOMAIN outbox = Ranks
    BY DEF Shape, Post
  <2>2. outbox' = [outbox EXCEPT ![p] = [q \in Ranks |-> sent]]
    BY <1>3 DEF Send
  <2>3. sent.parts = {Parts[b] : b \in cracked}
    BY DEF NoData
  <2>4. \A r \in Ranks : outbox[p][r] = NoData
    BY <1>1 DEF Mail
  <2> HIDE DEF sent
  <2>5. outbox'[p] = [q \in Ranks |-> sent] /\ \A q \in Ranks : q # p => outbox'[q] = outbox[q]
    BY <2>1, <2>2
  <2> QED
    BY <2>3, <2>4, <2>5
<1> HIDE DEF moved, mine
<1>7. NoData.bodies = {} /\ NoData.parts = {}
  BY DEF NoData
<1>8. Gone \subseteq Gone'
  <2>1. \A q, r \in Ranks : outbox[q][r].bodies \subseteq outbox'[q][r].bodies
    BY <1>6, <1>7
  <2> QED
    BY <1>1, <2>1 DEF Gone
<1>9. Born \subseteq Born'
  <2>1. \A q, r \in Ranks : outbox[q][r].parts \subseteq outbox'[q][r].parts
    BY <1>6, <1>7
  <2> QED
    BY <1>1, <2>1 DEF Born
<1>10. \A b \in cracked : Parts[b] \in Born'
  <2> SUFFICES ASSUME NEW b \in cracked PROVE Parts[b] \in Born'
    OBVIOUS
  <2>1. Parts[b] \in Bodies
    BY BoundaryAssumption DEF Range
  <2>2. Parts[b] \in outbox'[p][p].parts
    BY <1>6
  <2> QED
    BY <2>1, <2>2 DEF Born
<1>11. ASSUME NEW c \in Transferred(moved)
       PROVE  c.kind # "CONTACT" /\ BodiesOf(c) \subseteq Born'
  <2>1. PICK d \in moved : /\ d.kind # "CONTACT"
                           /\ c = [d EXCEPT !.master = Parts[@], !.slave = Parts[@], !.ext = {}]
    BY DEF Transferred
  <2>2. PICK b \in cracked : b \in BodiesOf(d)
    BY <1>5
  <2>3. d \in Sound /\ d \in Constraint
    BY <1>5 DEF Sound
  <2>4. d.kind = "FIXPNT"
    <3>1. CASE d.kind = "RIGLNK"
      <4>1. <<d.master, d.slave>> \in Links
        BY <2>3, <3>1 DEF Sound
      <4>2. {<<d.master, d.slave>>[1], <<d.master, d.slave>>[2]} \cap DOMAIN Parts = {}
        BY <4>1, BoundaryAssumption
      <4> QED
        BY <2>2, <4>2 DEF BodiesOf
    <3> QED
      BY <2>1, <2>3, <3>1 DEF Constraint, Kinds
  <2>5. d.master = b /\ d.slave = b
    BY <2>2, <2>3, <2>4 DEF Sound, BodiesOf
  <2>6. c.kind = d.kind /\ c.master = Parts[b] /\ c.slave = Parts[b]
    BY <2>1, <2>3, <2>5 DEF Constraint
  <2> QED
    BY <1>10, <2>1, <2>6 DEF BodiesOf
<1>12. \A c \in con'[p] : c \in con[p] \/ (c.kind # "CONTACT" /\ BodiesOf(c) \subseteq Born')
  BY <1>4, <1>11
<1>13. failed' \subseteq failed \cup {"conext"}
  BY <1>1 DEF Lookup, Unknown
<1> QED
  BY <1>1, <1>4, <1>8, <1>9, <1>12, <1>13

-----------------------------------------------------------------------------
(* A nonempty set of natural numbers has a least member. *)
LEMMA LeastMember ==
    ASSUME NEW S \in SUBSET Nat, S # {}
    PROVE  Min(S) \in S /\ \A j \in S : Min(S) <= j
<1> DEFINE R == OpToRel(<, Nat)
<1>1. IsWellFoundedOn(R, Nat)
  BY NatLessThanWellFounded
<1>2. \A x, y \in Nat : <<y, x>> \in R <=> y < x
  BY DEF OpToRel
<1> HIDE DEF R
<1>3. PICK x \in S : \A y \in S : ~ (<<y, x>> \in R)
  BY <1>1, WFMin
<1>4. \A y \in S : x \in Nat /\ y \in Nat /\ ~ (y < x)
  BY <1>2, <1>3
<1>5. \A y \in S : x <= y
  BY <1>4
<1> QED
  BY <1>5 DEF Min

(* The slave of a pending link has a child on the rank of the master. *)
LEMMA PendingFound ==
    ASSUME RInv, Known, NEW p \in Ranks, PutPending(p)
    PROVE  \E l \in pend[p] : home[l[1]] = p /\ Insert(p, "RIGLNK", l[1], l[2], FALSE)
<1>1. phase = "pending"
  BY InsertedOr
<1>2. ASSUME NEW l \in pend[p], home[l[1]] = p PROVE p \in Holders(l[2])
  <2>1. l \in Links /\ l \in Bodies \X Bodies /\ {l[1], l[2]} \cap Range(Parts) = {}
    BY RForms, BoundaryAssumption DEF Shape, TypeOK
  <2>2. l[1] \in Bodies /\ l[2] \in Bodies /\ l = <<l[1], l[2]>>
    BY <2>1
  <2>3. l[1] \in alive /\ l[1] \in Paired(l[2])
    BY <1>1, <2>1, <2>2 DEF Known, Paired
  <2> QED
    BY <1>2, <2>3 DEF Holders
<1> QED
  BY <1>2, InsertedOr

(* What detection inserts: of the two bodies neither list has a contact. *)
LEMMA DetectedIs ==
    ASSUME Shape, Sets, "bodcon" \notin failed, NEW p \in Ranks, NEW t \in Touching, Detect(p, t)
    PROVE  /\ \E m \in t : \E s \in t \ {m} : t = {m, s} /\ Insert(p, "CONTACT", m, s, TRUE)
           /\ ~ \E d \in Members(p) : d.kind = "CONTACT" /\ BodiesOf(d) = t
<1> DEFINE m == CHOOSE b \in t : TRUE
<1>1. t \subseteq Bodies /\ ~ \E e \in bodcon[p][m] : e.kind = "CONTACT" /\ BodiesOf(e) = t
  BY BoundaryAssumption DEF Detect
<1>2. PICK s \in t \ {m} : Insert(p, "CONTACT", m, s, TRUE)
  BY DEF Detect
<1>3. m \in t
  BY <1>2
<1>4. t = {m, s}
  <2>1. IsFiniteSet(t) /\ Cardinality(t) = 2
    BY BoundaryAssumption
  <2>2. IsFiniteSet(t \ {m}) /\ Cardinality(t \ {m}) = 1
    BY <1>3, <2>1, FS_RemoveElement
  <2>3. PICK x : t \ {m} = {x}
    BY <2>2, FS_Singleton
  <2> QED
    BY <1>2, <1>3, <2>3
<1> HIDE DEF m
<1>5. ASSUME NEW d \in Members(p), d.kind = "CONTACT", BodiesOf(d) = t PROVE FALSE
  <2>1. m \in Bodies /\ d \in With(m, Members(p))
    BY <1>1, <1>3, <1>5 DEF With
  <2>2. Image(d) \in bodcon[p][m]
    <3>1. bodcon[p] = [b \in Bodies |-> {Image(c) : c \in With(b, Members(p))}]
      BY DEF Sets, Lined
    <3>2. bodcon[p][m] = {Image(c) : c \in With(m, Members(p))}
      BY <2>1, <3>1
    <3> QED
      BY <2>1, <3>2
  <2>3. Image(d).kind = "CONTACT" /\ BodiesOf(Image(d)) = t
    BY <1>5, ImageLooks
  <2> QED
    BY <1>1, <2>2, <2>3
<1> QED
  BY <1>2, <1>3, <1>4, <1>5

(* What a rank inserts, and of which bodies. *)
LEMMA InsertedIs ==
    ASSUME RInv, Known, Sets, "bodcon" \notin failed, NEW p \in Ranks,
           \/ PutPending(p) \/ (\E t \in Touching : Detect(p, t)) \/ (\E b \in Fixable : FixPoint(p, b))
    PROVE  \E c \in Constraint :
             /\ con'[p] = con[p] \cup {c} /\ \A q \in Ranks \ {p} : con'[q] = con[q]
             /\ BodiesOf(c) \subseteq alive /\ phase \in {"pending", "detect", "callback"}
             /\ phase = "pending" => c.kind = "RIGLNK" /\ p = home[c.master] /\ p \in Holders(c.slave)
             /\ phase = "callback" => c.kind = "FIXPNT"
             /\ phase = "detect" =>
                  /\ c.kind = "CONTACT" /\ c.new /\ p \in Meeting(BodiesOf(c))
                  /\ p = Min(Meeting(BodiesOf(c)))
                  /\ ~ \E d \in con[p] \cup conext[p] : d.kind = "CONTACT" /\ BodiesOf(d) = BodiesOf(c)
<1>0. Shape /\ alive \subseteq Bodies
  BY RForms DEF Shape, TypeOK
<1>1. CASE PutPending(p)
  <2>1. phase = "pending"
    BY <1>1 DEF PutPending, Enter
  <2>2. PICK l \in pend[p] : home[l[1]] = p /\ Insert(p, "RIGLNK", l[1], l[2], FALSE)
    BY <1>1, PendingFound
  <2>3. PICK i \in Ids : con'[p] = con[p] \cup
        {[id |-> i, kind |-> "RIGLNK", master |-> l[1], slave |-> l[2], ext |-> {}, new |-> FALSE]}
    BY <1>0, <2>2 DEF Insert, Shape
  <2>4. \A q \in Ranks \ {p} : con'[q] = con[q]
    BY <1>0, <2>2, InsertFacts
  <2> DEFINE c == [id |-> i, kind |-> "RIGLNK", master |-> l[1], slave |-> l[2], ext |-> {}, new |-> FALSE]
  <2>5. l \in Links /\ l \in Bodies \X Bodies /\ {l[1], l[2]} \cap Range(Parts) = {}
    BY <1>0, BoundaryAssumption DEF Shape, TypeOK
  <2>6. l[1] \in Bodies /\ l[2] \in Bodies /\ l = <<l[1], l[2]>>
    BY <2>5
  <2>7. l[1] \in alive /\ l[2] \in alive
    BY <2>1, <2>5, <2>6 DEF Known
  <2>8. l[1] \in Paired(l[2])
    BY <2>5, <2>6 DEF Paired
  <2>9. p \in Holders(l[2])
    BY <2>2, <2>7, <2>8 DEF Holders
  <2>10. c \in Constraint
    BY <2>6 DEF Constraint, Kinds
  <2>11. BodiesOf(c) = {l[1], l[2]} /\ c.kind = "RIGLNK" /\ c.master = l[1] /\ c.slave = l[2]
    BY DEF BodiesOf
  <2> HIDE DEF c
  <2>12. con'[p] = con[p] \cup {c}
    BY <2>3 DEF c
  <2> QED
    BY <2>1, <2>2, <2>4, <2>7, <2>9, <2>10, <2>11, <2>12
<1>2. ASSUME NEW t \in Touching, Detect(p, t)
      PROVE  \E c \in Constraint :
             /\ con'[p] = con[p] \cup {c} /\ \A q \in Ranks \ {p} : con'[q] = con[q]
             /\ BodiesOf(c) \subseteq alive /\ phase = "detect"
             /\ c.kind = "CONTACT" /\ c.new /\ p \in Meeting(BodiesOf(c))
             /\ p = Min(Meeting(BodiesOf(c)))
             /\ ~ \E d \in con[p] \cup conext[p] : d.kind = "CONTACT" /\ BodiesOf(d) = BodiesOf(c)
  <2>1. /\ phase = "detect" /\ t \subseteq alive /\ Meeting(t) # {} /\ p = Min(Meeting(t))
    BY <1>2 DEF Detect, Enter, Meeting
  <2>12. /\ \E m \in t : \E s \in t \ {m} : t = {m, s} /\ Insert(p, "CONTACT", m, s, TRUE)
         /\ ~ \E d \in con[p] \cup conext[p] : d.kind = "CONTACT" /\ BodiesOf(d) = t
    BY <1>0, <1>2, DetectedIs DEF Members
  <2>13. PICK m \in t : \E s \in t \ {m} : t = {m, s} /\ Insert(p, "CONTACT", m, s, TRUE)
    BY <2>12
  <2>2. PICK s \in t \ {m} : t = {m, s} /\ Insert(p, "CONTACT", m, s, TRUE)
    BY <2>13
  <2>4. m \in t /\ t = {m, s}
    BY <2>2
  <2>5. p \in Meeting(t)
    <3>1. Meeting(t) \in SUBSET Nat
      BY Counts DEF Meeting, Ranks
    <3> QED
      BY <2>1, <3>1, LeastMember
  <2>6. PICK i \in Ids : con'[p] = con[p] \cup
        {[id |-> i, kind |-> "CONTACT", master |-> m, slave |-> s, ext |-> {}, new |-> TRUE]}
    BY <1>0, <2>2 DEF Insert, Shape
  <2>7. \A q \in Ranks \ {p} : con'[q] = con[q]
    BY <1>0, <2>2, InsertFacts
  <2> DEFINE c == [id |-> i, kind |-> "CONTACT", master |-> m, slave |-> s, ext |-> {}, new |-> TRUE]
  <2>8. m \in Bodies /\ s \in Bodies
    BY <1>0, <2>1, <2>4
  <2>9. c \in Constraint
    BY <2>8 DEF Constraint, Kinds
  <2>10. BodiesOf(c) = t /\ c.kind = "CONTACT" /\ c.new
    BY <2>4 DEF BodiesOf
  <2> HIDE DEF c
  <2>11. con'[p] = con[p] \cup {c}
    BY <2>6 DEF c
  <2> QED
    BY <2>1, <2>5, <2>7, <2>9, <2>10, <2>11, <2>12
<1>3. ASSUME NEW b \in Fixable, FixPoint(p, b)
      PROVE  \E c \in Constraint :
             /\ con'[p] = con[p] \cup {c} /\ \A q \in Ranks \ {p} : con'[q] = con[q]
             /\ BodiesOf(c) \subseteq alive /\ phase = "callback" /\ c.kind = "FIXPNT"
  <2>1. phase = "callback" /\ b \in alive /\ Insert(p, "FIXPNT", b, b, FALSE)
    BY <1>3 DEF FixPoint, Enter
  <2>2. PICK i \in Ids : con'[p] = con[p] \cup
        {[id |-> i, kind |-> "FIXPNT", master |-> b, slave |-> b, ext |-> {}, new |-> FALSE]}
    BY <1>0, <2>1 DEF Insert, Shape
  <2>3. \A q \in Ranks \ {p} : con'[q] = con[q]
    BY <1>0, <2>1, InsertFacts
  <2> DEFINE c == [id |-> i, kind |-> "FIXPNT", master |-> b, slave |-> b, ext |-> {}, new |-> FALSE]
  <2>4. c \in Constraint
    BY <1>0, <2>1 DEF Constraint, Kinds
  <2>5. BodiesOf(c) = {b} /\ c.kind = "FIXPNT"
    BY DEF BodiesOf
  <2> HIDE DEF c
  <2>6. con'[p] = con[p] \cup {c}
    BY <2>2 DEF c
  <2> QED
    BY <2>1, <2>3, <2>4, <2>5, <2>6
<1> QED
  BY <1>1, <1>2, <1>3

-----------------------------------------------------------------------------
(* What a step does to the constraints: they are kept, or one is inserted, or
   those of a body that cracks move to a part. *)
Inserts(p) == PutPending(p) \/ (\E t \in Touching : Detect(p, t)) \/ (\E b \in Fixable : FixPoint(p, b))

(* Insertions are steps. *)
LEMMA InsertsNext == ASSUME NEW p \in Ranks, Inserts(p) PROVE Next
<1> QED
  BY DEF Inserts, Next

(* A step is one of these. *)
LEMMA NextIs ==
    ASSUME Next
    PROVE  \/ Partition \/ Exchange
           \/ \E p \in Ranks : Keeps(p) \/ Inserts(p) \/ StepEnd(p)
<1> QED
  BY DEF Next, Keeps, Inserts

(* In a block the phase stays, and bodies stay where they are until Manage. *)
LEMMA BlockStays ==
    ASSUME NEW p \in Ranks, Keeps(p) \/ Inserts(p) \/ StepEnd(p)
    PROVE  /\ UNCHANGED <<phase, boot>> /\ done \subseteq done' /\ done' \subseteq done \cup {p}
           /\ UNCHANGED mapVars \/ Manage(p)
           /\ Keeps(p) /\ ~ Manage(p) => phase \notin {"finish", "manage"}
           /\ Inserts(p) => UNCHANGED <<done, mapVars>> /\ phase \in {"pending", "detect", "callback"}
<1> USE DEF Enter, Leave
<1>1. CASE MigrateOut(p) \/ MigrateIn(p) \/ Settle(p) \/ DropPending(p) \/ GlueNew(p)
  <2>1. ~ Inserts(p)
    BY <1>1 DEF MigrateOut, MigrateIn, Settle, DropPending, GlueNew, Inserts,
                PutPending, Detect, FixPoint
  <2> QED
    BY <1>1, <2>1 DEF MigrateOut, MigrateIn, Settle, DropPending, GlueNew
<1> QED
  BY <1>1 DEF Keeps, Inserts, Sparsify, Solve, Manage, DeleteConstraint, CallbackReturn,
              UpdateConstraints, PutPending, Detect, FixPoint, StepEnd

-----------------------------------------------------------------------------
(* Constraints are of living bodies, as long as all ranks agree who lives. *)
LEMMA StepKnown ==
    ASSUME RInv, RInv', Known, Sets, [Next]_vars, Next => "bodcon" \notin failed PROVE Known'
<1>1. Shape /\ Mail /\ Forms /\ Shape' /\ Mail' /\ Forms'
  BY RForms, FormsHoldNext DEF RInv, IInv
<1>2. ASSUME UNCHANGED <<phase, boot, alive>> \/ (phase = "partition" /\ phase' = "balance" /\ UNCHANGED <<boot, alive>>),
             phase \notin {"finish", "manage"},
             \A q \in Ranks : \A c \in Owned(q)' :
                BodiesOf(c) \subseteq alive
                \/ \E s \in Ranks : \E d \in Owned(s) : Image(c) = Image(d)
      PROVE  Known'
  <2>1. Born = {} /\ Gone = {} /\ phase' \notin {"finish", "manage"}
    BY <1>1, <1>2, NoneBorn, Counts DEF Forms
  <2>2. \A q \in Ranks : \A c \in Owned(q)' : BodiesOf(c) \subseteq alive
    <3> SUFFICES ASSUME NEW q \in Ranks, NEW c \in Owned(q)',
                        \E s \in Ranks : \E d \in Owned(s) : Image(c) = Image(d)
                 PROVE  BodiesOf(c) \subseteq alive
      BY <1>2
    <3>1. PICK s \in Ranks : \E d \in Owned(s) : Image(c) = Image(d)
      OBVIOUS
    <3>2. PICK d \in Owned(s) : Image(c) = Image(d)
      BY <3>1
    <3> QED
      BY <2>1, <3>2, ImageSame DEF Known
  <2>3. alive' = alive
    BY <1>2
  <2> QED
    BY <1>2, <2>1, <2>2, <2>3 DEF Known
<1>3. CASE UNCHANGED vars
  <2>1. UNCHANGED <<phase, done, boot, alive, con, outbox, inbox>>
    BY <1>3 DEF vars
  <2>2. Gone' = Gone /\ Born' = Born /\ \A q \in Ranks : Owned(q)' = Owned(q)
    BY <2>1 DEF Gone, Born, Owned, Arriving
  <2> QED
    BY <2>1, <2>2 DEF Known
<1>4. CASE Partition
  <2>1. /\ phase = "partition" /\ phase' = "balance" /\ UNCHANGED <<boot, alive, con, outbox, inbox>>
    BY <1>4 DEF Partition
  <2>2. \A q \in Ranks : Owned(q)' = Owned(q)
    BY <2>1 DEF Owned, Arriving
  <2> QED
    BY <1>2, <2>1, <2>2
<1>5. CASE Exchange
  <2>1. /\ done = Ranks /\ done' = {} /\ UNCHANGED <<alive, con>>
        /\ phase' = NextPhase[phase]
        /\ inbox' = [r \in Ranks |-> [q \in Ranks |-> outbox[q][r]]]
        /\ phase \in DOMAIN NextPhase
    <3>1. done # {}
      BY <1>5, Counts DEF Exchange
    <3>2. Shape
      BY <1>1
    <3>3. phase \in DOMAIN NextPhase
      BY <1>5, <3>1, <3>2 DEF Exchange, Shape, TypeOK, Post
    <3> QED
      BY <1>5, <3>3 DEF Exchange, mapVars
  <2>10. boot' = (boot /\ phase # "pending")
    BY <1>5 DEF Exchange
  <2>2. \A q \in Ranks : Owned(q)' = Owned(q)
    BY <1>1, <1>5, <2>1, ExchangeFacts DEF Owned
  <2>3. boot' => boot /\ phase' \in {"partition", "balance", "import", "settle", "pending"}
    <3>1. ASSUME boot' PROVE boot /\ phase \in {"balance", "import", "settle"}
      BY <2>1, <2>10, <3>1 DEF NextPhase, Known
    <3>2. ASSUME boot, phase \in {"balance", "import", "settle"}
          PROVE  phase' \in {"import", "settle", "pending"}
      BY <2>1, <3>2 DEF NextPhase
    <3> QED
      BY <3>1, <3>2
  <2>4. phase' = "pending" => boot'
    <3>1. CASE phase = "settle" /\ boot
      BY <2>10, <3>1
    <3>2. CASE phase = "settle" /\ ~ boot
      BY <2>1, <3>2 DEF NextPhase
    <3>3. phase \in {"balance", "import", "settle", "pending", "detect", "sparsify", "solve",
                    "finish", "manage", "callback", "update"}
      BY <2>1 DEF NextPhase
    <3>4. ASSUME phase # "settle" PROVE phase' # "pending"
      BY <2>1, <3>3, <3>4 DEF NextPhase
    <3> QED
      BY <3>1, <3>2, <3>4
  <2>5. CASE phase = "finish"
    <3>1. \A q, r \in Ranks : inbox[r][q].bodies = {} /\ inbox[r][q].parts = {}
      BY <1>1, <2>5 DEF Mail, Incoming
    <3>2. \A q, r \in Ranks : inbox'[r][q] = outbox[q][r]
      BY <2>1
    <3>3. Gone \subseteq Gone' /\ Born \subseteq Born'
      BY <3>1, <3>2 DEF Gone, Born
    <3> QED
      BY <2>1, <2>2, <2>3, <2>4, <3>3 DEF Known
  <2>6. CASE phase = "manage"
    <3>1. Born \subseteq alive
      BY <2>1, <2>6, Counts DEF Known
    <3>2. \A r \in Ranks : \A c \in Owned(r) : Spared(c)
      BY <1>1, <2>1, <2>6 DEF Forms, RInv, Rest, Cleared
    <3>3. \A r \in Ranks : \A c \in Owned(r) : BodiesOf(c) \subseteq alive
      BY <3>1, <3>2 DEF Known, Spared
    <3>4. phase' # "manage"
      BY <2>1, <2>6 DEF NextPhase
    <3> QED
      BY <2>1, <2>2, <2>3, <2>4, <3>3, <3>4 DEF Known
  <2>7. CASE phase \notin {"finish", "manage"}
    <3>1. Born = {} /\ Gone = {} /\ phase' # "manage"
      BY <1>1, <2>1, <2>7, NoneBorn, Counts DEF Forms, NextPhase
    <3> QED
      BY <2>1, <2>2, <2>3, <2>4, <3>1 DEF Known
  <2> QED
    BY <2>5, <2>6, <2>7
<1>6. ASSUME NEW p \in Ranks, Keeps(p), ~ Manage(p) PROVE Known'
  <2>1. Kept /\ phase \notin {"finish", "manage"} /\ UNCHANGED <<phase, boot, mapVars>>
    BY <1>1, <1>6, BlockStays, StepKeeps
  <2> QED
    BY <1>2, <2>1 DEF Kept, mapVars
<1>7. ASSUME NEW p \in Ranks, Manage(p) PROVE Known'
  <2>1. /\ phase = "manage" /\ UNCHANGED <<phase, boot, inbox, outbox>>
        /\ alive' = (alive \ Got(p, "bodies")) \cup Got(p, "parts")
    BY <1>7 DEF Manage, Enter
  <2>2. Gone = Got(p, "bodies") /\ Born = Got(p, "parts")
    BY <1>1, <2>1, GoneIs, BornIs
  <2>3. Gone' = Gone /\ Born' = Born
    BY <2>1 DEF Gone, Born
  <2>4. Kept
    BY <1>1, <1>7, StepKeeps DEF Keeps
  <2>5. ASSUME NEW q \in Ranks, NEW c \in Owned(q)'
        PROVE  BodiesOf(c) \subseteq alive' \cup Gone' \cup Born'
    <3>1. PICK s \in Ranks : \E d \in Owned(s) : Image(c) = Image(d)
      BY <2>4 DEF Kept
    <3>2. PICK d \in Owned(s) : Image(c) = Image(d)
      BY <3>1
    <3>3. BodiesOf(c) \subseteq alive \cup Gone \cup Born
      BY <3>2, ImageSame DEF Known
    <3> QED
      BY <2>1, <2>2, <2>3, <3>3
  <2>6. ~ boot
    BY <2>1 DEF Known
  <2> QED
    BY <2>1, <2>2, <2>3, <2>5, <2>6 DEF Known
<1>8. ASSUME NEW p \in Ranks, Inserts(p) PROVE Known'
  <2>1. PICK c \in Constraint :
             /\ con'[p] = con[p] \cup {c} /\ \A q \in Ranks \ {p} : con'[q] = con[q]
             /\ BodiesOf(c) \subseteq alive
    BY <1>8, InsertsNext, InsertedIs DEF Inserts
  <2>2. UNCHANGED <<phase, boot, mapVars>> /\ phase \in {"pending", "detect", "callback"}
    BY <1>8, BlockStays
  <2>3. \A q \in Ranks : Owned(q) = con[q] /\ Owned(q)' = con'[q]
    BY <1>1, <2>2 DEF Forms
  <2> QED
    BY <1>2, <2>1, <2>2, <2>3 DEF mapVars
<1>9. ASSUME NEW p \in Ranks, StepEnd(p) PROVE Known'
  <2>1. /\ phase = "finish" /\ UNCHANGED <<phase, boot, mapVars>>
        /\ Gone \subseteq Gone' /\ Born \subseteq Born'
        /\ \A q \in Ranks \ {p} : con'[q] = con[q]
        /\ \A c \in con'[p] : c \in con[p] \/ (c.kind # "CONTACT" /\ BodiesOf(c) \subseteq Born')
    BY <1>1, <1>9, StepEndFacts
  <2>2. \A q \in Ranks : Owned(q) = con[q] /\ Owned(q)' = con'[q]
    BY <1>1, <2>1 DEF Forms
  <2>3. ASSUME NEW q \in Ranks, NEW c \in con'[q]
        PROVE  BodiesOf(c) \subseteq alive \cup Gone' \cup Born'
    <3>1. c \in con[q] \/ BodiesOf(c) \subseteq Born'
      BY <2>1
    <3> QED
      BY <2>1, <2>2, <3>1 DEF Known
  <2> QED
    BY <2>1, <2>2, <2>3 DEF Known, mapVars
<1> QED
  BY <1>3, <1>4, <1>5, <1>6, <1>7, <1>8, <1>9, NextIs

-----------------------------------------------------------------------------
(* A constraint leaves for a rank in the extents of its bodies, or for the
   parent of its master, where the slave of a link has a child. *)
LEMMA TargetsHold ==
    ASSUME RInv, Known, phase = "balance", NEW q \in Ranks, NEW c \in con[q],
           NEW r \in Targets(c), NEW b \in BodiesOf(c)
    PROVE  r \in Holders(b)
<1>1. Shape /\ Mail /\ Forms
  BY RForms DEF RInv
<1>2. c \in Sound /\ c \in Owned(q) /\ c \in Constraint
  BY <1>1, OwnedTyped DEF Owned, Shape, Sound
<1>3. BodiesOf(c) \subseteq alive
  <2>1. Gone = {} /\ Born = {}
    BY <1>1, NoneBorn, Counts DEF Forms
  <2> QED
    BY <1>2, <2>1 DEF Known
<1>4. CASE c.kind = "RIGLNK"
  <2>1. <<c.master, c.slave>> \in Links /\ r = home[c.master] /\ c.master \in Bodies
    BY <1>2, <1>4 DEF Sound, Constraint, Targets
  <2>2. c.master \in Paired(c.slave) \cap alive
    BY <1>3, <2>1 DEF Paired, BodiesOf
  <2> QED
    BY <2>1, <2>2 DEF Holders, BodiesOf
<1>5. CASE c.kind # "RIGLNK"
  BY <1>5 DEF Targets, Holders, BodiesOf
<1> QED
  BY <1>4, <1>5

(* A constraint stays where its bodies are, wherever it goes. *)
LEMMA StepPlaced ==
    ASSUME RInv, RInv', Known, Placed, Sets, [Next]_vars, Next => "bodcon" \notin failed PROVE Placed'
<1>1. Shape /\ Mail /\ Forms /\ Shape' /\ Mail' /\ Forms'
  BY RForms, FormsHoldNext DEF RInv, IInv
<1>2. ASSUME phase' \in {"finish", "manage", "callback", "update", "partition"} PROVE Placed'
  <2>1. \A q \in Ranks : Arriving(q)' = {}
    BY <1>1, <1>2 DEF Forms
  <2> QED
    BY <1>2, <2>1 DEF Placed, Located
<1>3. ASSUME phase \in {"settle", "pending", "detect", "sparsify", "solve"}, UNCHANGED <<phase, mapVars>>,
             \A q \in Ranks : \A c \in con'[q] :
                (\A b \in BodiesOf(c) : q \in Holders(b))
                \/ \E d \in con[q] : BodiesOf(c) = BodiesOf(d)
      PROVE  Placed'
  <2>1. \A q \in Ranks : Arriving(q)' = {}
    BY <1>1, <1>3 DEF Forms
  <2>2. \A q \in Ranks : \A c \in con[q] : \A b \in BodiesOf(c) : q \in Holders(b)
    BY <1>3 DEF Placed, Located
  <2>3. \A q \in Ranks : \A c \in con'[q] : \A b \in BodiesOf(c) : q \in Holders(b)
    BY <1>3, <2>2
  <2>4. \A b : Holders(b)' = Holders(b)
    BY <1>3, HoldersStay
  <2> QED
    BY <2>1, <2>3, <2>4 DEF Placed
<1>4. CASE UNCHANGED vars
  <2>1. UNCHANGED <<phase, done, con, outbox, inbox, mapVars>>
    BY <1>4 DEF vars, mapVars
  <2>2. /\ \A b : Holders(b)' = Holders(b)
        /\ \A q \in Ranks : Arriving(q)' = Arriving(q)
    BY <2>1, HoldersStay DEF Arriving
  <2> QED
    BY <2>1, <2>2 DEF Placed, Located
<1>5. CASE Partition
  <2>1. phase = "partition" /\ phase' = "balance" /\ UNCHANGED <<done, outbox, inbox>> /\ done = {}
    BY <1>1, <1>5 DEF Partition, Shape, Post
  <2>2. \A q \in Ranks : Arriving(q)' = {}
    <3>1. \A q \in Ranks : Arriving(q) = {}
      BY <1>1, <2>1 DEF Forms
    <3> QED
      BY <2>1, <3>1 DEF Arriving
  <2> QED
    BY <2>1, <2>2 DEF Placed, Located
<1>6. CASE Exchange
  <2>1. done = Ranks /\ UNCHANGED <<con, mapVars>> /\ phase' = NextPhase[phase] /\ phase \in DOMAIN NextPhase
    <3>1. done # {}
      BY <1>6, Counts DEF Exchange
    <3>2. Shape
      BY <1>1
    <3>3. phase \in DOMAIN NextPhase
      BY <1>6, <3>1, <3>2 DEF Exchange, Shape, TypeOK, Post
    <3> QED
      BY <1>6, <3>3 DEF Exchange, mapVars
  <2>2. \A q \in Ranks : Arriving(q)' = Arriving(q)
    BY <1>1, <1>6, ExchangeFacts
  <2>3. \A b : Holders(b)' = Holders(b)
    BY <2>1, HoldersStay
  <2>4. CASE phase \in {"balance", "import", "settle", "pending", "detect", "sparsify", "solve"}
    <3>1. \A q \in Ranks : Located(q)
      BY <2>1, <2>4 DEF Located
    <3> QED
      BY <2>1, <2>2, <2>3, <3>1 DEF Placed
  <2>5. CASE phase \in {"finish", "manage", "callback", "update"}
    BY <1>2, <2>1, <2>5 DEF NextPhase
  <2>6. phase \in {"balance", "import", "settle", "pending", "detect", "sparsify", "solve",
                   "finish", "manage", "callback", "update"}
    BY <2>1 DEF NextPhase
  <2> QED
    BY <2>4, <2>5, <2>6
<1>7. ASSUME NEW p \in Ranks, MigrateOut(p) PROVE Placed'
  <2>1. PICK dest \in [con[p] -> Ranks] :
             /\ con'[p] = {c \in con[p] : dest[c] = p}
             /\ \A q \in Ranks \ {p} : con'[q] = con[q]
             /\ \A q \in Ranks : Arriving(q)' = Arriving(q) \cup {c \in con[p] : dest[c] = q /\ q # p}
             /\ \A c \in con[p] : dest[c] \in Targets(c)
    BY <1>1, <1>7, MigrateOutFacts
  <2>2. phase = "balance" /\ done' = done \cup {p} /\ UNCHANGED <<phase, mapVars>>
    BY <1>7 DEF MigrateOut, Enter, Leave
  <2>3. \A c \in con[p] : \A b \in BodiesOf(c) : dest[c] \in Holders(b)
    BY <2>1, <2>2, TargetsHold
  <2>4. \A b : Holders(b)' = Holders(b)
    BY <2>2, HoldersStay
  <2>5. ASSUME NEW q \in Ranks, Located(q)', NEW c \in con'[q], NEW b \in BodiesOf(c)
        PROVE  q \in Holders(b)
    <3>1. CASE q = p
      BY <2>1, <2>3, <3>1
    <3>2. CASE q # p
      <4>1. Located(q) /\ c \in con[q]
        BY <2>1, <2>2, <2>5, <3>2 DEF Located
      <4> QED
        BY <4>1 DEF Placed
    <3> QED
      BY <3>1, <3>2
  <2>6. ASSUME NEW q \in Ranks, NEW c \in Arriving(q)', NEW b \in BodiesOf(c)
        PROVE  q \in Holders(b)
    <3>1. c \in Arriving(q) \/ (c \in con[p] /\ dest[c] = q)
      BY <2>1
    <3> QED
      BY <2>3, <3>1 DEF Placed
  <2> QED
    BY <2>4, <2>5, <2>6 DEF Placed
<1>8. ASSUME NEW p \in Ranks, MigrateIn(p) PROVE Placed'
  <2>1. /\ Arriving(p) = Got(p, "cons") /\ Arriving(p)' = {}
        /\ \A q \in Ranks \ {p} : Arriving(q)' = Arriving(q) /\ con'[q] = con[q]
        /\ con'[p] = {[c EXCEPT !.ext = Beyond(p, c)] : c \in
                con[p] \cup {[c EXCEPT !.ext = @ \ {p}] : c \in Got(p, "cons")}}
    BY <1>1, <1>8, MigrateInFacts
  <2>2. phase = "import" /\ UNCHANGED <<phase, mapVars>>
    BY <1>8 DEF MigrateIn, Enter
  <2>3. \A b : Holders(b)' = Holders(b)
    BY <2>2, HoldersStay
  <2>4. \A c \in Owned(p) : c \in Sound /\ \A b \in BodiesOf(c) : p \in Holders(b)
    BY <1>1, <2>2, OwnedTyped DEF Placed, Located, Owned
  <2>5. ASSUME NEW c \in con'[p] PROVE \A b \in BodiesOf(c) : p \in Holders(b)
    <3>1. PICK k \in con[p] \cup {[d EXCEPT !.ext = @ \ {p}] : d \in Got(p, "cons")} :
               c = [k EXCEPT !.ext = Beyond(p, k)]
      BY <2>1
    <3>2. \E d \in Owned(p) : k = d \/ k = [d EXCEPT !.ext = @ \ {p}]
      BY <2>1, <3>1 DEF Owned
    <3>3. PICK d \in Owned(p) : k = d \/ k = [d EXCEPT !.ext = @ \ {p}]
      BY <3>2
    <3>4. k.master = d.master /\ k.slave = d.slave /\ c.master = k.master /\ c.slave = k.slave
      BY <2>4, <3>1, <3>3 DEF Sound, Constraint
    <3> QED
      BY <2>4, <3>3, <3>4 DEF BodiesOf
  <2>6. ASSUME NEW q \in Ranks \ {p} PROVE \A c \in con'[q] \cup Arriving(q)' : \A b \in BodiesOf(c) : q \in Holders(b)
    BY <2>1, <2>2 DEF Placed, Located
  <2> QED
    BY <2>1, <2>3, <2>5, <2>6 DEF Placed
<1>9. ASSUME NEW p \in Ranks, Settle(p) \/ DropPending(p) \/ Sparsify(p) PROVE Placed'
  <2>1. phase \in {"settle", "pending", "sparsify"} /\ UNCHANGED <<phase, mapVars>>
    BY <1>9 DEF Settle, DropPending, Sparsify, Enter
  <2>2. \A q \in Ranks : con'[q] \subseteq con[q]
    BY <1>1, <1>9 DEF Settle, DropPending, Sparsify, Shape
  <2> QED
    BY <1>3, <2>1, <2>2
<1>10. ASSUME NEW p \in Ranks, GlueNew(p) \/ Solve(p) PROVE Placed'
  <2>1. phase \in {"detect", "solve"} /\ UNCHANGED <<phase, mapVars>>
    BY <1>10 DEF GlueNew, Solve, Enter
  <2>2. \A q \in Ranks \ {p} : con'[q] = con[q]
    BY <1>1, <1>10 DEF GlueNew, Solve, Shape
  <2>3. ASSUME NEW c \in con'[p] PROVE \E d \in con[p] : BodiesOf(c) = BodiesOf(d)
    <3>1. \/ con'[p] = (con[p] \ {d \in con[p] : d.new}) \cup
                 {[d EXCEPT !.ext = Beyond(p, d)] : d \in {k \in con[p] : k.new}}
          \/ con'[p] = {[d EXCEPT !.new = FALSE] : d \in con[p]}
      BY <1>1, <1>10 DEF GlueNew, Solve, Shape
    <3>2. \E d \in con[p] : c = d \/ c = [d EXCEPT !.ext = Beyond(p, d)] \/ c = [d EXCEPT !.new = FALSE]
      BY <3>1
    <3>3. PICK d \in con[p] : c = d \/ c = [d EXCEPT !.ext = Beyond(p, d)] \/ c = [d EXCEPT !.new = FALSE]
      BY <3>2
    <3>4. d \in Constraint
      BY <1>1 DEF Shape, TypeOK
    <3>5. c.master = d.master /\ c.slave = d.slave
      BY <3>3, <3>4 DEF Constraint
    <3> QED
      BY <3>5 DEF BodiesOf
  <2> QED
    BY <1>3, <2>1, <2>2, <2>3
<1>11. ASSUME NEW p \in Ranks, PutPending(p) \/ (\E t \in Touching : Detect(p, t)) PROVE Placed'
  <2>1. phase \in {"pending", "detect"} /\ UNCHANGED <<phase, mapVars>>
    BY <1>11 DEF PutPending, Detect, Enter
  <2>2. PICK c \in Constraint :
             /\ con'[p] = con[p] \cup {c} /\ \A q \in Ranks \ {p} : con'[q] = con[q]
             /\ phase = "pending" => c.kind = "RIGLNK" /\ p = home[c.master] /\ p \in Holders(c.slave)
             /\ phase = "detect" => p \in Meeting(BodiesOf(c))
    BY <1>11, InsertsNext, InsertedIs DEF Inserts
  <2>3. \A b \in BodiesOf(c) : p \in Holders(b)
    BY <2>1, <2>2 DEF BodiesOf, Holders, Meeting
  <2> QED
    BY <1>3, <2>1, <2>2, <2>3
<1>12. ASSUME NEW p \in Ranks,
              \/ StepEnd(p) \/ Manage(p) \/ (\E b \in Fixable : FixPoint(p, b))
              \/ (\E c \in con[p] : DeleteConstraint(p, c)) \/ CallbackReturn(p) \/ UpdateConstraints(p)
       PROVE  Placed'
  BY <1>2, <1>12 DEF StepEnd, Manage, FixPoint, DeleteConstraint, CallbackReturn,
                     UpdateConstraints, Enter
<1> QED
  BY <1>4, <1>5, <1>6, <1>7, <1>8, <1>9, <1>10, <1>11, <1>12 DEF Next

-----------------------------------------------------------------------------
(* ext is all remote ranks of the bodies, from MigrateIn or GlueNew on. *)
LEMMA StepSpread ==
    ASSUME RInv, RInv', Known, Spread, Sets, [Next]_vars, Next => "bodcon" \notin failed PROVE Spread'
<1>1. Shape /\ Forms /\ Shape' /\ Forms' /\ News
  BY RForms, FormsHoldNext DEF RInv, IInv
<1>2. CASE phase' \in {"balance", "pending", "finish", "manage", "callback", "update", "partition"}
  BY <1>2 DEF Spread
<1>3. ASSUME UNCHANGED mapVars,
             \A q \in Ranks :
                phase' \in {"settle", "detect", "sparsify", "solve"} \/ (phase' = "import" /\ q \in done') =>
                    \A c \in con'[q] : c.ext = Beyond(q, c) \/ (c.new /\ phase' = "detect" /\ q \notin done')
      PROVE  Spread'
  <2>1. \A q, c : Beyond(q, c)' = Beyond(q, c)
    BY <1>3, HoldersStay
  <2> QED
    BY <1>3, <2>1 DEF Spread
<1>4. CASE UNCHANGED vars
  <2>1. UNCHANGED <<phase, done, con, mapVars>>
    BY <1>4 DEF vars, mapVars
  <2> QED
    BY <1>3, <2>1 DEF Spread
<1>5. CASE Partition
  BY <1>2, <1>5 DEF Partition
<1>6. CASE Exchange
  <2>1. done = Ranks /\ done' = {} /\ UNCHANGED <<con, mapVars>> /\ phase' = NextPhase[phase]
        /\ phase \in DOMAIN NextPhase
    <3>1. done # {}
      BY <1>6, Counts DEF Exchange
    <3>2. Shape
      BY <1>1
    <3>3. phase \in DOMAIN NextPhase
      BY <1>6, <3>1, <3>2 DEF Exchange, Shape, TypeOK, Post
    <3> QED
      BY <1>6, <3>3 DEF Exchange, mapVars
  <2>2. phase \in {"balance", "import", "settle", "pending", "detect", "sparsify", "solve",
                   "finish", "manage", "callback", "update"}
    BY <2>1 DEF NextPhase
  <2>3. CASE phase \in {"import", "settle", "detect", "sparsify"}
    <3>1. \A q \in Ranks : \A c \in con[q] : c.ext = Beyond(q, c)
      BY <2>1, <2>3 DEF Spread
    <3> QED
      BY <1>3, <2>1, <3>1
  <2>4. CASE phase \in {"solve", "finish", "manage", "callback", "update", "pending"}
    BY <1>2, <2>1, <2>4 DEF NextPhase
  <2>5. CASE phase = "balance"
    <3>1. phase' = "import"
      BY <2>1, <2>5 DEF NextPhase
    <3> QED
      BY <2>1, <3>1 DEF Spread
  <2> QED
    BY <2>2, <2>3, <2>4, <2>5
<1>7. ASSUME NEW p \in Ranks, MigrateIn(p) PROVE Spread'
  <2>1. /\ \A q \in Ranks \ {p} : con'[q] = con[q]
        /\ con'[p] = {[c EXCEPT !.ext = Beyond(p, c)] : c \in
                con[p] \cup {[c EXCEPT !.ext = @ \ {p}] : c \in Got(p, "cons")}}
    BY <1>1, <1>7, MigrateInFacts
  <2>2. phase = "import" /\ UNCHANGED <<phase, mapVars>> /\ done' = done \cup {p}
    BY <1>7 DEF MigrateIn, Enter, Leave
  <2>3. ASSUME NEW c \in con'[p] PROVE c.ext = Beyond(p, c)
    <3>1. PICK k \in con[p] \cup {[d EXCEPT !.ext = @ \ {p}] : d \in Got(p, "cons")} :
               c = [k EXCEPT !.ext = Beyond(p, k)]
      BY <2>1
    <3>2. con[p] \subseteq Sound /\ Got(p, "cons") \subseteq Sound
      BY <1>1, GotTyped DEF Shape
    <3>3. k \in Constraint
      <4>1. CASE k \in con[p]
        BY <3>2, <4>1 DEF Sound
      <4>2. ASSUME NEW d \in Got(p, "cons"), k = [d EXCEPT !.ext = @ \ {p}] PROVE k \in Constraint
        BY <3>2, <4>2 DEF Sound, Constraint
      <4> QED
        BY <3>1, <4>1, <4>2
    <3>4. c.ext = Beyond(p, k) /\ c.master = k.master /\ c.slave = k.slave
      BY <3>1, <3>3 DEF Constraint
    <3> QED
      BY <3>4 DEF Beyond, BodiesOf
  <2>4. ASSUME NEW q \in Ranks, q # p, q \in done' PROVE \A c \in con'[q] : c.ext = Beyond(q, c)
    BY <2>1, <2>2, <2>4 DEF Spread
  <2> QED
    BY <1>3, <2>2, <2>3, <2>4
<1>8. ASSUME NEW p \in Ranks, Settle(p) \/ Sparsify(p) PROVE Spread'
  <2>1. phase \in {"settle", "sparsify"} /\ UNCHANGED <<phase, mapVars>>
    BY <1>8 DEF Settle, Sparsify, Enter
  <2>2. \A q \in Ranks : con'[q] \subseteq con[q]
    BY <1>1, <1>8 DEF Settle, Sparsify, Shape
  <2> QED
    BY <1>3, <2>1, <2>2 DEF Spread
<1>9. ASSUME NEW p \in Ranks, NEW t \in Touching, Detect(p, t) PROVE Spread'
  <2>1. phase = "detect" /\ p \notin done /\ UNCHANGED <<phase, done, mapVars>>
    BY <1>9 DEF Detect, Enter
  <2>2. PICK c \in Constraint :
             /\ con'[p] = con[p] \cup {c} /\ \A q \in Ranks \ {p} : con'[q] = con[q]
             /\ phase = "detect" => c.new
    BY <1>9, InsertsNext, InsertedIs DEF Inserts
  <2>3. ASSUME NEW q \in Ranks, NEW d \in con'[q]
        PROVE  d.ext = Beyond(q, d) \/ (d.new /\ q \notin done)
    <3>1. d \in con[q] \/ (q = p /\ d = c)
      BY <2>2
    <3> QED
      BY <2>1, <2>2, <3>1 DEF Spread
  <2> QED
    BY <1>3, <2>1, <2>3
<1>10. ASSUME NEW p \in Ranks, GlueNew(p) PROVE Spread'
  <2>1. phase = "detect" /\ p \notin done /\ UNCHANGED <<phase, mapVars>> /\ done' = done \cup {p}
    BY <1>10 DEF GlueNew, Enter, Leave
  <2>2. con'[p] = (con[p] \ {d \in con[p] : d.new}) \cup
                 {[d EXCEPT !.ext = Beyond(p, d)] : d \in {k \in con[p] : k.new}}
        /\ \A q \in Ranks \ {p} : con'[q] = con[q]
    BY <1>1, <1>10 DEF GlueNew, Shape
  <2>3. ASSUME NEW c \in con'[p] PROVE c.ext = Beyond(p, c)
    <3>1. CASE c \in con[p] /\ ~ c.new
      BY <2>1, <3>1 DEF Spread
    <3>2. ASSUME NEW d \in con[p], c = [d EXCEPT !.ext = Beyond(p, d)] PROVE c.ext = Beyond(p, c)
      <4>1. d \in Constraint
        BY <1>1 DEF Shape, TypeOK
      <4>2. c.ext = Beyond(p, d) /\ c.master = d.master /\ c.slave = d.slave
        BY <3>2, <4>1 DEF Constraint
      <4> QED
        BY <4>2 DEF Beyond, BodiesOf
    <3> QED
      BY <2>2, <3>1, <3>2
  <2>4. ASSUME NEW q \in Ranks, q # p, NEW c \in con'[q]
        PROVE  c.ext = Beyond(q, c) \/ (c.new /\ q \notin done')
    BY <2>1, <2>2, <2>4 DEF Spread
  <2> QED
    BY <1>3, <2>1, <2>3, <2>4
<1>11. ASSUME NEW p \in Ranks, Solve(p) PROVE Spread'
  <2>1. phase = "solve" /\ UNCHANGED <<phase, mapVars>>
    BY <1>11 DEF Solve, Enter
  <2>2. con'[p] = {[c EXCEPT !.new = FALSE] : c \in con[p]}
        /\ \A q \in Ranks \ {p} : con'[q] = con[q]
    BY <1>1, <1>11 DEF Solve, Shape
  <2>3. \A q \in Ranks : \A c \in con[q] : c.ext = Beyond(q, c)
    BY <2>1 DEF Spread
  <2>4. ASSUME NEW c \in con'[p] PROVE c.ext = Beyond(p, c)
    <3>1. PICK d \in con[p] : c = [d EXCEPT !.new = FALSE]
      BY <2>2
    <3>2. d \in Constraint
      BY <1>1 DEF Shape, TypeOK
    <3>3. c.ext = d.ext /\ c.master = d.master /\ c.slave = d.slave
      BY <3>1, <3>2 DEF Constraint
    <3> QED
      BY <2>3, <3>3 DEF Beyond, BodiesOf
  <2> QED
    BY <1>3, <2>1, <2>2, <2>3, <2>4
<1>12. ASSUME NEW p \in Ranks,
              \/ MigrateOut(p) \/ PutPending(p) \/ DropPending(p)
              \/ StepEnd(p) \/ Manage(p) \/ (\E b \in Fixable : FixPoint(p, b))
              \/ (\E c \in con[p] : DeleteConstraint(p, c)) \/ CallbackReturn(p) \/ UpdateConstraints(p)
       PROVE  Spread'
  BY <1>2, <1>12 DEF MigrateOut, PutPending, DropPending, StepEnd, Manage, FixPoint,
                     DeleteConstraint, CallbackReturn, UpdateConstraints, Enter
<1> QED
  BY <1>4, <1>5, <1>6, <1>7, <1>8, <1>9, <1>10, <1>11, <1>12 DEF Next

-----------------------------------------------------------------------------
(* Two bodies are found to overlap on the one rank that decides for all: there
   their contact, if it is not new, is owned or has an image. *)
LEMMA ContactKnown ==
    ASSUME RInv, Placed, Spread, Single, phase = "detect", NEW q \in Ranks, NEW d \in con[q],
           d.kind = "CONTACT", NEW p \in Ranks,
           p \in Meeting(BodiesOf(d)), p = Min(Meeting(BodiesOf(d)))
    PROVE  \E e \in con[p] \cup conext[p] : e.kind = "CONTACT" /\ BodiesOf(e) = BodiesOf(d)
<1>1. Shape /\ Forms /\ Rest /\ Mail /\ IInv
  BY RForms DEF RInv
<1>2. CASE q = p
  BY <1>2
<1>3. CASE q # p
  <2>1. ~ d.new
    BY <1>3 DEF Single
  <2>2. d.ext = Beyond(q, d)
    BY <2>1 DEF Spread
  <2>3. \A b \in BodiesOf(d) : p \in Holders(b) /\ q \in Holders(b)
    BY DEF Placed, Located, Meeting, Holders
  <2>4. p \in d.ext
    BY <1>3, <2>2, <2>3 DEF Beyond, Remote, BodiesOf
  <2>5. d \in Owned(q) /\ Spared(d) /\ d \in Sound
    <3>1. Gone = {}
      BY <1>1, Counts DEF Forms
    <3> QED
      BY <1>1, <3>1 DEF Owned, Spared, Shape
  <2>6. Image(d) \in Claims(p)
    BY <2>4, <2>5, ImageTyped DEF Claims
  <2>7. PICK e \in View(p) : Image(e) = Image(d)
    BY <1>1, <2>6 DEF Rest, Matching, Matched
  <2>8. e \notin Coming(p)
    <3> SUFFICES ASSUME e \in Coming(p) PROVE FALSE
      OBVIOUS
    <3>1. e.rank \in Ranks
      BY DEF Coming, External
    <3>2. PICK k \in con[e.rank] : Image(k) = Image(e) /\ k.new
      BY <1>1 DEF Rest, Transit, Sender
    <3>3. k.id = d.id
      BY <2>7, <3>2, ImageSame
    <3>4. k = d
      BY <1>1, <3>1, <3>3, OnePlace DEF Owned
    <3> QED
      BY <2>1, <3>2, <3>4
  <2>9. e \in conext[p]
    BY <2>7, <2>8 DEF View, Seen
  <2> QED
    BY <2>7, <2>9, ImageSame
<1> QED
  BY <1>2, <1>3

(* A pair of bodies has one contact: detected on one rank, which knows of it. *)
LEMMA StepSingle ==
    ASSUME RInv, RInv', Known, Placed, Spread, Single, Sets, [Next]_vars, Next => "bodcon" \notin failed PROVE Single'
<1>1. Shape /\ Forms /\ Shape' /\ Forms' /\ News /\ Mail /\ Mail'
  BY RForms, FormsHoldNext DEF RInv, IInv
<1>2. ASSUME \A q \in Ranks : \A c \in Owned(q)' : c.kind = "CONTACT" =>
                \E s \in Ranks : \E d \in Owned(s) : Image(c) = Image(d),
             phase' = "detect" => \A q \in Ranks : \A c \in con'[q] : c.new =>
                c.kind = "CONTACT" /\ q = Min(Meeting(BodiesOf(c))'),
             phase' = "detect" => UNCHANGED box
      PROVE  Single'
  <2>1. ASSUME NEW p \in Ranks, NEW q \in Ranks, NEW c \in Owned(p)', NEW d \in Owned(q)',
               c.kind = "CONTACT", d.kind = "CONTACT", BodiesOf(c) = BodiesOf(d)
        PROVE  c.id = d.id
    <3>1. PICK s \in Ranks : \E k \in Owned(s) : Image(c) = Image(k)
      BY <1>2, <2>1
    <3>2. PICK k \in Owned(s) : Image(c) = Image(k)
      BY <3>1
    <3>3. PICK t \in Ranks : \E l \in Owned(t) : Image(d) = Image(l)
      BY <1>2, <2>1
    <3>4. PICK l \in Owned(t) : Image(d) = Image(l)
      BY <3>3
    <3>5. k.kind = "CONTACT" /\ l.kind = "CONTACT" /\ BodiesOf(k) = BodiesOf(l)
          /\ c.id = k.id /\ d.id = l.id
      BY <2>1, <3>2, <3>4, ImageSame
    <3> QED
      BY <3>5 DEF Single
  <2>2. phase' = "detect" => \A q \in Ranks : \A c \in con'[q] : c.new =>
                c.kind = "CONTACT" /\ q = Min(Meeting(BodiesOf(c))')
    BY <1>2
  <2> QED
    BY <2>1, <2>2 DEF Single
<1>3. CASE UNCHANGED vars \/ Partition
  <2>1. UNCHANGED <<con, outbox, inbox>> /\ phase' \in {phase, "balance"}
        /\ (phase' = "detect" => UNCHANGED <<phase, done, box>>)
        /\ (phase = "import" => UNCHANGED <<phase, done>>) /\ (phase' = "import" => UNCHANGED phase)
    BY <1>3 DEF vars, Partition
  <2>2. \A q \in Ranks : Owned(q)' = Owned(q)
    BY <2>1 DEF Owned, Arriving
  <2>3. phase' = "detect" => \A b : Meeting(b)' = Meeting(b)
    BY <2>1 DEF Meeting
  <2> QED
    BY <1>2, <2>1, <2>2, <2>3 DEF Single
<1>4. CASE Exchange
  <2>1. done = Ranks /\ UNCHANGED con /\ phase' = NextPhase[phase] /\ phase \in DOMAIN NextPhase
        /\ UNCHANGED box
    <3>1. done # {}
      BY <1>4, Counts DEF Exchange
    <3>2. Shape
      BY <1>1
    <3>3. phase \in DOMAIN NextPhase
      BY <1>4, <3>1, <3>2 DEF Exchange, Shape, TypeOK, Post
    <3> QED
      BY <1>4, <3>3 DEF Exchange, mapVars
  <2>2. \A q \in Ranks : Owned(q)' = Owned(q)
    BY <1>1, <1>4, <2>1, ExchangeFacts DEF Owned
  <2>3. phase' = "detect" => phase \notin {"detect", "sparsify", "solve"}
    <3>1. phase \in {"detect", "sparsify", "solve"} => phase' \in {"sparsify", "solve", "finish"}
      BY <2>1 DEF NextPhase
    <3> QED
      BY <3>1
  <2>4. phase' = "detect" => \A q \in Ranks : \A c \in con[q] : ~ c.new
    BY <1>1, <2>3 DEF News
  <2> QED
    BY <1>2, <2>1, <2>2, <2>4
<1>5. ASSUME NEW p \in Ranks, Keeps(p) PROVE Single'
  <2>1. Kept
    BY <1>1, <1>5, StepKeeps
  <2>2. CASE GlueNew(p)
    <3>1. UNCHANGED <<phase, box>>
      BY <2>2 DEF GlueNew, Enter, mapVars
    <3>2. con'[p] = (con[p] \ {d \in con[p] : d.new}) \cup
                 {[d EXCEPT !.ext = Beyond(p, d)] : d \in {k \in con[p] : k.new}}
        /\ \A q \in Ranks \ {p} : con'[q] = con[q]
      BY <1>1, <2>2 DEF GlueNew, Shape
    <3>3. \A b : Meeting(b)' = Meeting(b)
      BY <3>1 DEF Meeting
    <3>4. ASSUME NEW q \in Ranks, NEW c \in con'[q], c.new, phase = "detect"
          PROVE  c.kind = "CONTACT" /\ q = Min(Meeting(BodiesOf(c)))
      <4>1. CASE c \in con[q]
        BY <3>4, <4>1 DEF Single
      <4>2. CASE q = p /\ \E d \in con[p] : d.new /\ c = [d EXCEPT !.ext = Beyond(p, d)]
        <5>1. PICK d \in con[p] : d.new /\ c = [d EXCEPT !.ext = Beyond(p, d)]
          BY <4>2
        <5>2. d \in Constraint
          BY <1>1 DEF Shape, TypeOK
        <5>3. c.kind = d.kind /\ c.master = d.master /\ c.slave = d.slave
          BY <5>1, <5>2 DEF Constraint
        <5>4. BodiesOf(c) = BodiesOf(d)
          BY <5>3 DEF BodiesOf
        <5> QED
          BY <3>4, <4>2, <5>1, <5>3, <5>4 DEF Single
      <4> QED
        BY <3>2, <4>1, <4>2
    <3> QED
      BY <1>2, <2>1, <3>1, <3>3, <3>4 DEF Kept
  <2>3. CASE ~ GlueNew(p)
    <3>1. phase' # "detect"
      BY <1>5, <2>3 DEF Keeps, MigrateOut, MigrateIn, Settle, DropPending, Sparsify, Solve, Manage,
                        DeleteConstraint, CallbackReturn, UpdateConstraints, Enter
    <3> QED
      BY <1>2, <2>1, <3>1 DEF Kept
  <2> QED
    BY <2>2, <2>3
<1>6. ASSUME NEW p \in Ranks, Inserts(p) PROVE Single'
  <2>1. UNCHANGED <<phase, box>> /\ phase \in {"pending", "detect", "callback"}
    BY <1>6, BlockStays DEF mapVars
  <2>2. PICK c \in Constraint :
             /\ con'[p] = con[p] \cup {c} /\ \A q \in Ranks \ {p} : con'[q] = con[q]
             /\ phase = "pending" => c.kind = "RIGLNK"
             /\ phase = "callback" => c.kind = "FIXPNT"
             /\ phase = "detect" =>
                  /\ c.kind = "CONTACT" /\ p \in Meeting(BodiesOf(c))
                  /\ p = Min(Meeting(BodiesOf(c)))
                  /\ ~ \E d \in con[p] \cup conext[p] : d.kind = "CONTACT" /\ BodiesOf(d) = BodiesOf(c)
    BY <1>6, InsertsNext, InsertedIs DEF Inserts
  <2>3. \A q \in Ranks : Owned(q) = con[q] /\ Owned(q)' = con'[q]
    BY <1>1, <2>1 DEF Forms
  <2>4. CASE phase # "detect"
    <3>1. c.kind # "CONTACT"
      BY <2>1, <2>2, <2>4
    <3> QED
      BY <1>2, <2>1, <2>2, <2>3, <2>4, <3>1
  <2>5. CASE phase = "detect"
    <3>1. ASSUME NEW q \in Ranks, NEW d \in con[q], d.kind = "CONTACT", BodiesOf(d) = BodiesOf(c)
          PROVE  FALSE
      <4>1. \E e \in con[p] \cup conext[p] : e.kind = "CONTACT" /\ BodiesOf(e) = BodiesOf(d)
        BY <2>2, <2>5, <3>1, ContactKnown
      <4> QED
        BY <2>2, <2>5, <3>1, <4>1
    <3>2. ASSUME NEW q \in Ranks, NEW d \in con'[q]
          PROVE  d = c \/ d \in Owned(q)
      BY <2>2, <2>3
    <3>3. \A b : Meeting(b)' = Meeting(b)
      BY <2>1 DEF Meeting
    <3>4. ASSUME NEW s \in Ranks, NEW q \in Ranks, NEW k \in con'[s], NEW d \in con'[q],
                 k.kind = "CONTACT", d.kind = "CONTACT", BodiesOf(k) = BodiesOf(d)
          PROVE  k.id = d.id
      <4>1. CASE k \in con[s] /\ d \in con[q]
        BY <2>3, <3>4, <4>1 DEF Single
      <4>2. CASE k = c /\ d = c
        BY <4>2
      <4>3. CASE k = c /\ d \in con[q]
        BY <3>1, <3>4, <4>3
      <4>4. CASE k \in con[s] /\ d = c
        BY <3>1, <3>4, <4>4
      <4> QED
        BY <2>3, <3>2, <4>1, <4>2, <4>3, <4>4
    <3>5. ASSUME NEW q \in Ranks, NEW d \in con'[q], d.new
          PROVE  d.kind = "CONTACT" /\ q = Min(Meeting(BodiesOf(d)))
      <4>1. d \in con[q] \/ (q = p /\ d = c)
        BY <2>2
      <4> QED
        BY <2>2, <2>5, <3>5, <4>1 DEF Single
    <3> QED
      BY <2>1, <2>3, <3>3, <3>4, <3>5 DEF Single, BodiesOf
  <2> QED
    BY <2>4, <2>5
<1>7. ASSUME NEW p \in Ranks, StepEnd(p) PROVE Single'
  <2>1. /\ phase = "finish" /\ UNCHANGED phase
        /\ \A q \in Ranks \ {p} : con'[q] = con[q]
        /\ \A c \in con'[p] : c \in con[p] \/ c.kind # "CONTACT"
    BY <1>1, <1>7, StepEndFacts
  <2>2. \A q \in Ranks : Owned(q) = con[q] /\ Owned(q)' = con'[q]
    BY <1>1, <2>1 DEF Forms
  <2> QED
    BY <1>2, <2>1, <2>2
<1> QED
  BY <1>3, <1>4, <1>5, <1>6, <1>7, NextIs

-----------------------------------------------------------------------------
(* The slave of a pending link has a child on the rank of the master. *)
LEMMA StepSlave ==
    ASSUME RInv, Known, "slave" \notin failed, [Next]_vars PROVE "slave" \notin failed'
<1>1. CASE UNCHANGED vars \/ Partition \/ Exchange
  BY <1>1 DEF vars, Partition, Exchange
<1>2. ASSUME NEW p \in Ranks, PutPending(p) PROVE "slave" \notin failed'
  <2>1. PICK l \in pend[p] : Insert(p, "RIGLNK", l[1], l[2], FALSE)
    BY <1>2, PendingFound
  <2>2. failed' \subseteq failed \cup {"bodcon"}
    BY <2>1, RForms, InsertFacts
  <2> QED
    BY <2>2
<1>3. ASSUME NEW p \in Ranks,
             \/ MigrateOut(p) \/ MigrateIn(p) \/ Settle(p) \/ Solve(p) \/ StepEnd(p)
             \/ DropPending(p) \/ (\E t \in Touching : Detect(p, t)) \/ GlueNew(p) \/ Sparsify(p)
             \/ Manage(p) \/ (\E b \in Fixable : FixPoint(p, b))
             \/ (\E c \in con[p] : DeleteConstraint(p, c)) \/ CallbackReturn(p) \/ UpdateConstraints(p)
      PROVE  "slave" \notin failed'
  <2>1. CASE MigrateOut(p) \/ MigrateIn(p) \/ Settle(p) \/ Solve(p)
    <3>1. \E S, T, U, V, W : failed' \in {failed \cup Unknown(S, T), failed \cup Unknown(S, T) \cup Clashing(U, V)}
      BY <2>1 DEF MigrateOut, MigrateIn, Settle, Solve, Lookup
    <3> QED
      BY <3>1, FaultsTyped
  <2>2. CASE StepEnd(p)
    <3>1. \E S, T : failed' = failed \cup Unknown(S, T)
      BY <2>2 DEF StepEnd, Lookup
    <3> QED
      BY <3>1, FaultsTyped
  <2>3. CASE \/ DropPending(p) \/ GlueNew(p) \/ Manage(p) \/ (\E c \in con[p] : DeleteConstraint(p, c))
             \/ CallbackReturn(p) \/ UpdateConstraints(p)
    BY <2>3 DEF DropPending, GlueNew, Manage, DeleteConstraint, CallbackReturn, UpdateConstraints
  <2>4. CASE Sparsify(p)
    <3>1. \E S, T : failed' = failed \cup Clashing(S, T)
      BY <2>4 DEF Sparsify
    <3> QED
      BY <3>1, FaultsTyped
  <2>5. CASE (\E t \in Touching : Detect(p, t)) \/ (\E b \in Fixable : FixPoint(p, b))
    <3>1. \E kind, m, s, new : Insert(p, kind, m, s, new)
      BY <2>5 DEF Detect, FixPoint
    <3>2. failed' \subseteq failed \cup {"bodcon"}
      BY <3>1, RForms, InsertFacts
    <3> QED
      BY <3>2
  <2> QED
    BY <1>3, <2>1, <2>2, <2>3, <2>4, <2>5
<1> QED
  BY <1>1, <1>2, <1>3 DEF Next

(* Initially there are no constraints. *)
LEMMA InitAttached == Init => Attached
<1> SUFFICES ASSUME Init PROVE Attached
  OBVIOUS
<1>1. Shape /\ Mail
  BY InitR DEF RInv, IInv
<1>2. phase = "partition" /\ done = {} /\ boot /\ alive = Bodies \ Range(Parts) /\ failed = {}
      /\ \A q \in Ranks : con[q] = {}
  BY DEF Init
<1>3. \A q \in Ranks : Arriving(q) = {} /\ Owned(q) = {}
  BY <1>1, <1>2, FormsHold DEF Forms
<1>4. Known
  BY <1>2, <1>3 DEF Known
<1>5. Placed /\ Spread /\ Single
  BY <1>2, <1>3 DEF Placed, Located, Spread, Single
<1> QED
  BY <1>2, <1>4, <1>5 DEF Attached

-----------------------------------------------------------------------------
(* The lists stay complete, block by block, as long as none of them has met a
   constraint it had already. *)
LEMMA KindsApart == Constraint \cap External = {}
<1> SUFFICES ASSUME NEW c \in Constraint, c \in External PROVE FALSE
  OBVIOUS
<1>1. DOMAIN c = {"id", "kind", "master", "slave", "ext", "new"}
  BY DEF Constraint
<1>2. DOMAIN c = {"id", "kind", "master", "slave", "rank"}
  BY DEF External
<1> QED
  BY <1>1, <1>2

LEMMA MembersApart ==
    ASSUME Shape, NEW p \in Ranks
    PROVE  (con[p] \cup Arriving(p)) \cap conext[p] = {}
<1>1. con[p] \cup Arriving(p) \subseteq Constraint
  BY OwnedTyped DEF Sound
<1>2. conext[p] \subseteq External
  BY DEF Shape, TypeOK
<1> QED
  BY <1>1, <1>2, KindsApart

(* One rank changes its constraints, images and lists. *)
LEMMA RankSets ==
    ASSUME Shape, Sets, "bodcon" \notin failed, NEW p \in Ranks, NEW lists,
           bodcon' = [bodcon EXCEPT ![p] = lists],
           \A q \in Ranks \ {p} : con'[q] = con[q] /\ conext'[q] = conext[q],
           NEW M, M = con'[p] \cup conext'[p], Lined(M, lists), Keyed(M)
    PROVE  Sets'
<1>1. \A r \in Ranks : Lined(Members(r), bodcon[r]) /\ Keyed(Members(r))
  BY DEF Sets
<1>2. bodcon'[p] = lists /\ \A q \in Ranks \ {p} : bodcon'[q] = bodcon[q]
  BY DEF Shape, TypeOK
<1>3. Members(p)' = M /\ \A q \in Ranks \ {p} : Members(q)' = Members(q)
  BY DEF Members
<1>4. Lined(Members(p)', bodcon'[p]) /\ Keyed(Members(p)')
  BY <1>2, <1>3
<1>5. ASSUME NEW q \in Ranks \ {p} PROVE Lined(Members(q)', bodcon'[q]) /\ Keyed(Members(q)')
  BY <1>1, <1>2, <1>3
<1>6. \A r \in Ranks : Lined(Members(r)', bodcon'[r]) /\ Keyed(Members(r)')
  BY <1>4, <1>5
<1>7. \A r \in Ranks : (Lined(Members(r), bodcon[r]))' <=> Lined(Members(r)', bodcon'[r])
  BY DEF Lined, With, Image, BodiesOf
<1>8. \A r \in Ranks : (Keyed(Members(r)))' <=> Keyed(Members(r)')
  BY DEF Keyed, With, Same, BodiesOf
<1> QED
  BY <1>6, <1>7, <1>8 DEF Sets

(* A rank loses constraints D and images E. *)
LEMMA LossSets ==
    ASSUME Shape, Sets, "bodcon" \notin failed, NEW p \in Ranks,
           NEW D \in SUBSET con[p], NEW E \in SUBSET conext[p],
           con' = [con EXCEPT ![p] = @ \ D], conext' = [conext EXCEPT ![p] = @ \ E],
           bodcon' = [bodcon EXCEPT ![p] = Unlisted(D \cup E, @)]
    PROVE  Sets'
<1>1. Lined(Members(p), bodcon[p]) /\ Keyed(Members(p))
  BY DEF Sets
<1>2. D \cup E \subseteq Members(p)
  BY DEF Members
<1>3. /\ Lined(Members(p) \ (D \cup E), Unlisted(D \cup E, bodcon[p]))
      /\ Keyed(Members(p) \ (D \cup E))
  BY <1>1, <1>2, UnlistedIs
<1>4. /\ con'[p] = con[p] \ D /\ conext'[p] = conext[p] \ E
      /\ \A q \in Ranks \ {p} : con'[q] = con[q] /\ conext'[q] = conext[q]
  BY DEF Shape, TypeOK
<1>5. Members(p) \ (D \cup E) = con'[p] \cup conext'[p]
  BY <1>4, MembersApart DEF Members
<1> QED
  BY <1>3, <1>4, <1>5, RankSets

(* N is A changed by f, but for the images, and B unchanged. *)
Alike(A, B, f, N) ==
    /\ A \cap B = {} /\ DOMAIN f = A /\ \A c \in A : Image(f[c]) = Image(c)
    /\ N = {f[c] : c \in A} \cup B

LEMMA PartAlike ==
    ASSUME NEW A, NEW B, NEW f, NEW N, Alike(A, B, f, N),
           NEW lists, Lined(A \cup B, lists), Keyed(A \cup B)
    PROVE  Lined(N, lists) /\ Keyed(N)
<1> DEFINE g == [c \in A \cup B |-> IF c \in A THEN f[c] ELSE c]
<1>1. DOMAIN g = A \cup B /\ \A c \in A \cup B : Image(g[c]) = Image(c)
  BY DEF Alike
<1>2. N = {g[c] : c \in A \cup B}
  BY DEF Alike
<1> HIDE DEF g
<1> QED
  BY <1>1, <1>2, LinedAlike

(* What a rank inserts is put into the lists of the two bodies. *)
LEMMA InsertSets ==
    ASSUME Shape, Sets, "bodcon" \notin failed, "bodcon" \notin failed', NEW p \in Ranks, NEW kind,
           NEW m, NEW s, NEW new, Insert(p, kind, m, s, new), UNCHANGED conext
    PROVE  Sets'
<1>1. PICK i \in Ids :
        /\ con' = [con EXCEPT ![p] = @ \cup
             {[id |-> i, kind |-> kind, master |-> m, slave |-> s, ext |-> {}, new |-> new]}]
        /\ LET c == [id |-> i, kind |-> kind, master |-> m, slave |-> s]
           IN  /\ bodcon' = [bodcon EXCEPT ![p] = Enlisted({c}, @)]
               /\ failed' = failed \cup Clashing({c}, bodcon[p])
  BY DEF Insert
<1> DEFINE c == [id |-> i, kind |-> kind, master |-> m, slave |-> s]
           d == [id |-> i, kind |-> kind, master |-> m, slave |-> s, ext |-> {}, new |-> new]
<1>2. Image(c) = c /\ Image(d) = c
  BY DEF Image
<1>3. /\ con' = [con EXCEPT ![p] = @ \cup {d}]
      /\ bodcon' = [bodcon EXCEPT ![p] = Enlisted({c}, @)]
      /\ failed' = failed \cup Clashing({c}, bodcon[p])
  BY <1>1
<1> HIDE DEF c, d
<1>4. Clashing({c}, bodcon[p]) = {}
  BY <1>3, FaultsTyped
<1>5. Lined(Members(p), bodcon[p]) /\ Keyed(Members(p))
  BY DEF Sets
<1>6. Lined(Members(p) \cup {d}, Enlisted({c}, bodcon[p])) /\ Keyed(Members(p) \cup {d})
  BY <1>2, <1>4, <1>5, OneEnlisted
<1>7. con'[p] = con[p] \cup {d} /\ \A q \in Ranks \ {p} : con'[q] = con[q] /\ conext'[q] = conext[q]
  BY <1>3 DEF Shape
<1>8. Members(p) \cup {d} = con'[p] \cup conext'[p]
  BY <1>7 DEF Members
<1> QED
  BY <1>3, <1>6, <1>7, <1>8, RankSets

(* Constraints that leave a rank, are deleted or separate. *)
LEMMA LeavingSets ==
    ASSUME Shape, Sets, "bodcon" \notin failed, NEW p \in Ranks,
           MigrateOut(p) \/ (\E c \in con[p] : DeleteConstraint(p, c)) \/ UpdateConstraints(p)
    PROVE  Sets'
<1>1. \E D \in SUBSET con[p] :
        /\ con' = [con EXCEPT ![p] = @ \ D] /\ UNCHANGED conext
        /\ bodcon' = [bodcon EXCEPT ![p] = Unlisted(D, @)]
  <2>1. CASE MigrateOut(p)
    <3>1. PICK dest \in [con[p] -> Ranks] :
            /\ con' = [con EXCEPT ![p] = {c \in @ : dest[c] = p}]
            /\ bodcon' = [bodcon EXCEPT ![p] = Unlisted({c \in con[p] : dest[c] # p}, @)]
      BY <2>1 DEF MigrateOut
    <3>2. UNCHANGED conext
      BY <2>1 DEF MigrateOut
    <3> DEFINE D == {c \in con[p] : dest[c] # p}
    <3>3. D \in SUBSET con[p] /\ {c \in con[p] : dest[c] = p} = con[p] \ D
      OBVIOUS
    <3>4. con' = [con EXCEPT ![p] = @ \ D] /\ bodcon' = [bodcon EXCEPT ![p] = Unlisted(D, @)]
      BY <3>1, <3>3
    <3> HIDE DEF D
    <3> QED
      BY <3>2, <3>3, <3>4
  <2>2. ASSUME NEW c \in con[p], DeleteConstraint(p, c)
        PROVE  /\ con' = [con EXCEPT ![p] = @ \ {c}] /\ UNCHANGED conext
               /\ bodcon' = [bodcon EXCEPT ![p] = Unlisted({c}, @)]
    BY <2>2 DEF DeleteConstraint
  <2>3. CASE UpdateConstraints(p)
    <3>1. PICK gone \in SUBSET {c \in con[p] : c.kind = "CONTACT"} :
            /\ con' = [con EXCEPT ![p] = @ \ gone]
            /\ bodcon' = [bodcon EXCEPT ![p] = Unlisted(gone, @)]
      BY <2>3 DEF UpdateConstraints
    <3>2. UNCHANGED conext
      BY <2>3 DEF UpdateConstraints
    <3> QED
      BY <3>1, <3>2
  <2> QED
    BY <2>1, <2>2, <2>3
<1>2. PICK D \in SUBSET con[p] :
        /\ con' = [con EXCEPT ![p] = @ \ D] /\ UNCHANGED conext
        /\ bodcon' = [bodcon EXCEPT ![p] = Unlisted(D, @)]
  BY <1>1
<1>3. conext' = [conext EXCEPT ![p] = @ \ {}] /\ D \cup {} = D
  BY <1>2 DEF Shape, TypeOK
<1>4. bodcon' = [bodcon EXCEPT ![p] = Unlisted(D \cup {}, @)]
  BY <1>2, <1>3
<1> DEFINE none == {}
<1>5. none \in SUBSET conext[p] /\ conext' = [conext EXCEPT ![p] = @ \ none]
      /\ bodcon' = [bodcon EXCEPT ![p] = Unlisted(D \cup none, @)]
  BY <1>3, <1>4
<1> HIDE DEF none
<1> QED
  BY <1>2, <1>5, LossSets

(* What is left of the bodies that are gone is removed, and failed links. *)
LEMMA ManageSets ==
    ASSUME Shape, Sets, "bodcon" \notin failed, NEW p \in Ranks, Manage(p) PROVE Sets'
<1> DEFINE mine == UNION {Listed(p, b, con[p]) : b \in Got(p, "bodies")}
           images == UNION {Listed(p, b, conext[p]) : b \in Got(p, "bodies")}
<1>1. mine \subseteq con[p] /\ images \subseteq conext[p]
  BY DEF Listed, With
<1>2. PICK broken \in SUBSET {c \in con[p] \ mine : c.kind \in {"RIGLNK", "FIXPNT"}} :
        /\ con' = [con EXCEPT ![p] = (@ \ mine) \ broken]
        /\ bodcon' = [bodcon EXCEPT ![p] = Unlisted(mine \cup images \cup broken, @)]
  BY DEF Manage
<1>3. conext' = [conext EXCEPT ![p] = @ \ images]
  BY DEF Manage
<1> HIDE DEF mine, images
<1> DEFINE D == mine \cup broken
<1>4. D \in SUBSET con[p] /\ (con[p] \ mine) \ broken = con[p] \ D
      /\ mine \cup images \cup broken = D \cup images
  BY <1>1
<1>5. con' = [con EXCEPT ![p] = @ \ D] /\ bodcon' = [bodcon EXCEPT ![p] = Unlisted(D \cup images, @)]
  BY <1>2, <1>4
<1> HIDE DEF D
<1> QED
  BY <1>1, <1>3, <1>4, <1>5, LossSets

(* The images of contacts that were thinned out go; the contacts stay. *)
LEMMA SolveSets ==
    ASSUME Shape, Sets, "bodcon" \notin failed, NEW p \in Ranks, Solve(p) PROVE Sets'
<1> DEFINE E == {e \in conext[p] : e.id \in Got(p, "remove")}
           f == [c \in con[p] |-> [c EXCEPT !.new = FALSE]]
<1>1. /\ conext' = [conext EXCEPT ![p] = {e \in @ : e.id \notin Got(p, "remove")}]
      /\ bodcon' = [bodcon EXCEPT ![p] = Unlisted(E, @)]
      /\ con' = [con EXCEPT ![p] = {[c EXCEPT !.new = FALSE] : c \in @}]
  BY DEF Solve
<1>2. /\ con'[p] = {f[c] : c \in con[p]} /\ conext'[p] = conext[p] \ E
      /\ \A q \in Ranks \ {p} : con'[q] = con[q] /\ conext'[q] = conext[q]
  BY <1>1 DEF Shape, TypeOK
<1>3. \A c \in con[p] : Image(f[c]) = Image(c)
  BY DEF Image, Shape, Sound, Constraint
<1>4. DOMAIN f = con[p] /\ E \subseteq conext[p]
  OBVIOUS
<1> HIDE DEF E, f
<1>5. Lined(Members(p), bodcon[p]) /\ Keyed(Members(p))
  BY DEF Sets
<1>6. Lined(Members(p) \ E, Unlisted(E, bodcon[p])) /\ Keyed(Members(p) \ E)
  <2>1. E \subseteq Members(p)
    BY <1>4 DEF Members
  <2> QED
    BY <1>5, <2>1, UnlistedIs
<1>7. Members(p) \ E = con[p] \cup conext'[p] /\ con[p] \cap conext'[p] = {}
  BY <1>2, <1>4, MembersApart DEF Members
<1> DEFINE M == con'[p] \cup conext'[p]
<1>8. Alike(con[p], conext'[p], f, M)
  BY <1>2, <1>3, <1>4, <1>7 DEF Alike
<1> HIDE DEF M
<1>9. Lined(con[p] \cup conext'[p], Unlisted(E, bodcon[p])) /\ Keyed(con[p] \cup conext'[p])
  BY <1>6, <1>7
<1>10. Lined(M, Unlisted(E, bodcon[p])) /\ Keyed(M)
  BY <1>8, <1>9, PartAlike
<1> QED
  BY <1>1, <1>2, <1>10, RankSets DEF M

(* New contacts get their ext. *)
LEMMA GlueNewSets ==
    ASSUME Shape, Sets, "bodcon" \notin failed, NEW p \in Ranks, GlueNew(p) PROVE Sets'
<1> DEFINE fresh == {c \in con[p] : c.new}
           f == [c \in con[p] |-> IF c.new THEN [c EXCEPT !.ext = Beyond(p, c)] ELSE c]
<1>1. /\ con' = [con EXCEPT ![p] = (@ \ fresh) \cup {[c EXCEPT !.ext = Beyond(p, c)] : c \in fresh}]
      /\ UNCHANGED <<conext, bodcon>>
  BY DEF GlueNew
<1>2. con'[p] = {f[c] : c \in con[p]} /\ \A q \in Ranks \ {p} : con'[q] = con[q]
  BY <1>1 DEF Shape
<1>3. \A c \in con[p] : Image(f[c]) = Image(c)
  BY DEF Image, Shape, Sound, Constraint
<1>4. DOMAIN f = con[p]
  OBVIOUS
<1> HIDE DEF f
<1>5. Lined(con[p] \cup conext[p], bodcon[p]) /\ Keyed(con[p] \cup conext[p])
  BY DEF Sets, Members
<1>6. con[p] \cap conext[p] = {}
  BY MembersApart
<1> DEFINE M == con'[p] \cup conext'[p]
<1>9. Alike(con[p], conext[p], f, M)
  BY <1>1, <1>2, <1>3, <1>4, <1>6 DEF Alike
<1> HIDE DEF M
<1>7. Lined(M, bodcon[p]) /\ Keyed(M)
  BY <1>5, <1>9, PartAlike
<1>8. bodcon' = [bodcon EXCEPT ![p] = bodcon[p]]
  BY <1>1 DEF Shape, TypeOK
<1> QED
  BY <1>1, <1>2, <1>7, <1>8, RankSets DEF M

(* Images that come are not constraints of the rank. *)
LEMMA ForeignImages ==
    ASSUME Shape, NEW p \in Ranks
    PROVE  con[p] \cap (conext[p] \cup Glued(p)) = {} /\ conext[p] \cup Glued(p) \subseteq External
<1>1. Glued(p) \subseteq External
  <2> SUFFICES ASSUME NEW q \in Ranks, NEW g \in inbox[p][q].glue
      PROVE [id |-> g.id, kind |-> g.kind, master |-> g.master, slave |-> g.slave, rank |-> q] \in External
    BY DEF Glued
  <2>1. g \in Images
    BY DEF Shape, Post, Data
  <2> QED
    BY <2>1 DEF Images, External
<1>2. con[p] \subseteq Constraint /\ conext[p] \subseteq External
  BY DEF Shape, Sound, TypeOK
<1> QED
  BY <1>1, <1>2, KindsApart

(* Images of new contacts come; some of the own new contacts go. *)
LEMMA SparsifySets ==
    ASSUME RInv, Sets, "bodcon" \notin failed, "bodcon" \notin failed', NEW p \in Ranks, Sparsify(p)
    PROVE  Sets'
<1>1. Shape
  BY RForms
<1>2. PICK del \in SUBSET {c \in con[p] : c.new} :
        /\ con' = [con EXCEPT ![p] = @ \ del]
        /\ bodcon' = [bodcon EXCEPT ![p] = Unlisted(del, Enlisted(Glued(p), @))]
  BY DEF Sparsify
<1>3. /\ phase = "sparsify" /\ p \notin done
      /\ conext' = [conext EXCEPT ![p] = Imported(p, @)]
      /\ failed' = failed \cup Clashing(Glued(p), bodcon[p])
  BY DEF Sparsify, Enter
<1>4. Imported(p, conext[p]) = conext[p] \cup Glued(p)
  BY <1>3, ImportedIs
<1>5. /\ con'[p] = con[p] \ del /\ conext'[p] = conext[p] \cup Glued(p)
      /\ \A q \in Ranks \ {p} : con'[q] = con[q] /\ conext'[q] = conext[q]
  BY <1>1, <1>2, <1>3, <1>4 DEF Shape, TypeOK
<1>6. Clashing(Glued(p), bodcon[p]) = {}
  BY <1>3, FaultsTyped
<1>7. Lined(Members(p), bodcon[p]) /\ Keyed(Members(p))
  BY DEF Sets
<1>8. /\ Lined(Members(p) \cup Glued(p), Enlisted(Glued(p), bodcon[p]))
      /\ Keyed(Members(p) \cup Glued(p))
  BY <1>6, <1>7, EnlistedIs
<1>9. /\ Lined((Members(p) \cup Glued(p)) \ del, Unlisted(del, Enlisted(Glued(p), bodcon[p])))
      /\ Keyed((Members(p) \cup Glued(p)) \ del)
  <2>1. del \subseteq Members(p) \cup Glued(p)
    BY DEF Members
  <2> QED
    BY <1>8, <2>1, UnlistedIs
<1>10. (Members(p) \cup Glued(p)) \ del = con'[p] \cup conext'[p]
  <2>1. con[p] \cap (conext[p] \cup Glued(p)) = {}
    BY <1>1, <1>3, ForeignImages
  <2> QED
    BY <1>5, <2>1 DEF Members
<1> QED
  BY <1>1, <1>2, <1>5, <1>9, <1>10, RankSets

(* Images come, change their rank and go. *)
LEMMA SettleSets ==
    ASSUME RInv, Sets, "bodcon" \notin failed, "bodcon" \notin failed', NEW p \in Ranks, Settle(p)
    PROVE  Sets'
<1> DEFINE here == conext[p] \cup Glued(p)
           gone == {e \in here : e.id \in Got(p, "remove")}
           left == here \ gone
           f == [e \in left |-> IF \E q \in Ranks : e.id \in inbox[p][q].update
                    THEN [e EXCEPT !.rank = CHOOSE q \in Ranks : e.id \in inbox[p][q].update]
                    ELSE e]
<1>1. Shape
  BY RForms
<1>2. /\ phase = "settle" /\ p \notin done /\ UNCHANGED con
      /\ "bodcon" \notin Clashing(Glued(p), bodcon[p])
      /\ conext' = [conext EXCEPT ![p] =
           {e \in Reranked(p, Imported(p, conext[p])) : e.id \notin Got(p, "remove")}]
      /\ bodcon' = [bodcon EXCEPT ![p] =
           Unlisted({e \in Imported(p, conext[p]) : e.id \in Got(p, "remove")}, Enlisted(Glued(p), @))]
  BY DEF Settle, Enter
<1>3. Imported(p, conext[p]) = here /\ here \subseteq External
  BY <1>1, <1>2, ImportedIs, ForeignImages
<1>4. \A e \in left : Image(f[e]) = Image(e) /\ f[e].id = e.id
  BY <1>3 DEF Image, External
<1>5. conext'[p] = {f[e] : e \in left} /\ \A q \in Ranks \ {p} : conext'[q] = conext[q]
  <2>1. conext'[p] = {e \in Reranked(p, here) : e.id \notin Got(p, "remove")}
        /\ \A q \in Ranks \ {p} : conext'[q] = conext[q]
    BY <1>1, <1>2, <1>3 DEF Shape, TypeOK
  <2> DEFINE g == [e \in here |-> IF \E q \in Ranks : e.id \in inbox[p][q].update
                    THEN [e EXCEPT !.rank = CHOOSE q \in Ranks : e.id \in inbox[p][q].update]
                    ELSE e]
  <2>2. Reranked(p, here) = {g[e] : e \in here}
    BY DEF Reranked
  <2>3. \A e \in here : g[e].id = e.id
    BY <1>3 DEF External
  <2>4. \A e \in left : g[e] = f[e]
    OBVIOUS
  <2> HIDE DEF g, f
  <2>5. {e \in Reranked(p, here) : e.id \notin Got(p, "remove")} = {g[e] : e \in left}
    BY <2>2, <2>3
  <2> HIDE DEF here, left, gone
  <2>6. {g[e] : e \in left} = {f[e] : e \in left}
    BY <2>4
  <2> QED
    BY <2>1, <2>5, <2>6
<1>6. DOMAIN f = left
  OBVIOUS
<1> HIDE DEF f
<1>7. Lined(Members(p), bodcon[p]) /\ Keyed(Members(p))
  BY DEF Sets
<1>8. /\ Lined(Members(p) \cup Glued(p), Enlisted(Glued(p), bodcon[p]))
      /\ Keyed(Members(p) \cup Glued(p))
  BY <1>2, <1>7, FaultsTyped, EnlistedIs
<1>9. /\ Lined((Members(p) \cup Glued(p)) \ gone, Unlisted(gone, Enlisted(Glued(p), bodcon[p])))
      /\ Keyed((Members(p) \cup Glued(p)) \ gone)
  <2>1. gone \subseteq Members(p) \cup Glued(p)
    BY DEF Members
  <2> QED
    BY <1>8, <2>1, UnlistedIs
<1>10. (Members(p) \cup Glued(p)) \ gone = left \cup con[p] /\ left \cap con[p] = {}
  <2>1. con[p] \cap (conext[p] \cup Glued(p)) = {}
    BY <1>1, <1>2, ForeignImages
  <2> QED
    BY <2>1 DEF Members
<1>11. bodcon' = [bodcon EXCEPT ![p] = Unlisted(gone, Enlisted(Glued(p), @))]
  BY <1>2, <1>3
<1> DEFINE lists == Unlisted(gone, Enlisted(Glued(p), bodcon[p]))
       M == con'[p] \cup conext'[p]
<1> HIDE DEF here, gone, left
<1>12. Alike(left, con[p], f, M)
  BY <1>2, <1>4, <1>5, <1>6, <1>10 DEF Alike
<1>13. Lined(left \cup con[p], lists) /\ Keyed(left \cup con[p])
  BY <1>9, <1>10
<1> HIDE DEF lists, M
<1>14. Lined(M, lists) /\ Keyed(M)
  BY <1>12, <1>13, PartAlike
<1> QED
  BY <1>1, <1>2, <1>5, <1>11, <1>14, RankSets DEF lists, M

(* What arrives takes the place of its image; then the scheduled removals. *)
LEMMA MigrateInSets ==
    ASSUME RInv, Sets, "bodcon" \notin failed, "bodcon" \notin failed', NEW p \in Ranks, MigrateIn(p)
    PROVE  Sets'
<1> DEFINE came == Got(p, "cons")
           replaced == {e \in conext[p] : \E c \in came : c.id = e.id /\ p \in c.ext}
           removed == {e \in conext[p] : e.id \in Got(p, "remove")}
           drop == {c.id : c \in {d \in came : p \in d.ext}} \cup Got(p, "remove")
           kept == {e \in conext[p] : e.id \notin drop}
           cleared == Unlisted(replaced, bodcon[p])
           lists == Unlisted(removed, Enlisted(came, cleared))
           L == [d \in Owned(p) |-> [d EXCEPT !.ext = Beyond(p, d)]]
           M == con'[p] \cup conext'[p]
<1>1. Shape /\ Forms /\ Rest /\ Mail /\ IInv
  BY RForms DEF RInv
<1>0. /\ Enter(p, "import")
      /\ failed' = failed \cup Unknown(drop, conext[p]) \cup Clashing(came, cleared)
      /\ conext' = [conext EXCEPT ![p] = {e \in @ : e.id \notin drop}]
      /\ bodcon' = [bodcon EXCEPT ![p] =
           Unlisted({e \in conext[p] : e.id \in Got(p, "remove")}, Enlisted(came, cleared))]
  BY DEF MigrateIn
<1>2. /\ phase = "import" /\ p \notin done
      /\ failed' = failed \cup Unknown(drop, conext[p]) \cup Clashing(came, cleared)
      /\ conext' = [conext EXCEPT ![p] = kept]
      /\ bodcon' = [bodcon EXCEPT ![p] = lists]
  <2>1. phase = "import" /\ p \notin done
    BY <1>0 DEF Enter
  <2> HIDE DEF drop, cleared, came
  <2> QED
    BY <1>0, <2>1
<1>6. L = [d \in Owned(p) |-> [d EXCEPT !.ext = Beyond(p, d)]] /\ DOMAIN L = Owned(p)
  OBVIOUS
<1> HIDE DEF L
<1>3. /\ con'[p] = {L[d] : d \in Owned(p)}
      /\ \A d \in Owned(p) : Image(L[d]) = Image(d)
  BY <1>1, <1>6, MigrateInSent
<1>4. /\ Arriving(p) = came /\ Owned(p) = con[p] \cup came
      /\ \A q \in Ranks \ {p} : con'[q] = con[q] /\ conext'[q] = conext[q]
  BY <1>1, <1>2, MigrateInFacts DEF Owned, Shape, TypeOK
<1>5. conext'[p] = kept
  BY <1>1, <1>2 DEF Shape, TypeOK
<1> HIDE DEF came
<1>7. replaced \cap removed = {}
  <2> SUFFICES ASSUME NEW e \in conext[p], NEW c \in came, c.id = e.id, p \in c.ext,
                      e.id \in Got(p, "remove")
               PROVE  FALSE
    OBVIOUS
  <2>1. c \in Owned(p) /\ c \in Arriving(p) /\ c \in Sound /\ Spared(c)
    <3>1. Gone = {}
      BY <1>1, <1>2, Counts DEF Forms
    <3> QED
      BY <1>1, <1>4, <3>1, OwnedTyped DEF Spared
  <2>2. Image(c) \in Claims(p)
    BY <2>1, ImageTyped DEF Claims
  <2>3. PICK f \in View(p) : Image(f) = Image(c)
    BY <1>1, <2>2 DEF Rest, Matching, Matched
  <2>4. f.id = c.id
    BY <2>3, ImageSame
  <2>5. f \notin Seen(p)
    BY <1>2, <2>4 DEF Seen, Stale
  <2>6. f \in Coming(p) /\ f.rank \in Ranks
    BY <2>3, <2>5 DEF View, Coming, External
  <2>7. PICK d \in con[f.rank] : Image(d) = Image(f)
    BY <1>1, <1>2, <2>6 DEF Rest, Transit, Sender
  <2>8. d.id = c.id /\ d \in Owned(f.rank)
    BY <2>4, <2>7, ImageSame DEF Owned
  <2>9. f.rank = p /\ d = c
    BY <1>1, <2>1, <2>6, <2>8, OnePlace
  <2>10. c \in con[p]
    BY <2>7, <2>9
  <2> QED
    BY <1>1, <2>1, <2>10, OnePlace
<1>8. /\ replaced \subseteq conext[p] /\ removed \subseteq conext[p] \ replaced
      /\ kept = (conext[p] \ replaced) \ removed
  BY <1>7
<1>9. (con[p] \cup came) \cap conext[p] = {}
  BY <1>1, <1>4, MembersApart
<1> HIDE DEF replaced, removed, kept
<1>10. Lined(Members(p), bodcon[p]) /\ Keyed(Members(p))
  BY DEF Sets
<1>11. Lined(Members(p) \ replaced, cleared) /\ Keyed(Members(p) \ replaced)
  <2>1. replaced \subseteq Members(p)
    BY <1>8 DEF Members
  <2> QED
    BY <1>10, <2>1, UnlistedIs
<1> DEFINE both == (Members(p) \ replaced) \cup came
<1>12. Clashing(came, cleared) = {}
  BY <1>2, FaultsTyped
<1> HIDE DEF cleared
<1>13. Lined(both, Enlisted(came, cleared)) /\ Keyed(both)
  BY <1>11, <1>12, EnlistedIs
<1>14. removed \subseteq both /\ both \ removed = Owned(p) \cup kept
  BY <1>4, <1>8, <1>9 DEF Members
<1> HIDE DEF both
<1>15. Lined(both \ removed, lists) /\ Keyed(both \ removed)
  BY <1>13, <1>14, UnlistedIs
<1> HIDE DEF lists
<1>16. Lined(Owned(p) \cup kept, lists) /\ Keyed(Owned(p) \cup kept)
  BY <1>14, <1>15
<1>17. Alike(Owned(p), kept, L, M)
  BY <1>3, <1>4, <1>5, <1>6, <1>8, <1>9 DEF Alike
<1> HIDE DEF M
<1>18. Lined(M, lists) /\ Keyed(M)
  BY <1>16, <1>17, PartAlike
<1> QED
  BY <1>1, <1>2, <1>4, <1>18, RankSets DEF M

-----------------------------------------------------------------------------
(* When bodies crack, no image has the identifier of a constraint owned on its
   rank: the constraints of the parts meet nothing of theirs. *)
Foreign == phase = "finish" => \A r \in Ranks : IdsOf(con[r]) \cap IdsOf(conext[r]) = {}

(* A constraint that moves to a part keeps its identifier and is no contact. *)
Moved(d) == [d EXCEPT !.master = Parts[@], !.slave = Parts[@], !.ext = {}]

LEMMA TransferredIs ==
    ASSUME NEW S \in SUBSET Sound, NEW c \in Transferred(S)
    PROVE  c.kind # "CONTACT" /\ \E d \in S : c.id = d.id /\ c = Moved(d)
<1>1. PICK d \in S : /\ d.kind # "CONTACT"
                     /\ c = [d EXCEPT !.master = Parts[@], !.slave = Parts[@], !.ext = {}]
  BY DEF Transferred
<1>2. d \in Constraint
  BY DEF Sound
<1>3. c.id = d.id /\ c.kind = d.kind
  BY <1>1, <1>2 DEF Constraint
<1> QED
  BY <1>1, <1>3 DEF Moved

LEMMA StepEndSets ==
    ASSUME RInv, Sets, "bodcon" \notin failed, Foreign, NEW p \in Ranks, StepEnd(p)
    PROVE  Sets' /\ Foreign'
<1>1. Shape /\ IInv
  BY RForms DEF RInv
<1>2. phase = "finish" /\ UNCHANGED phase
  BY DEF StepEnd, Enter
<1>3. PICK out \in SUBSET {b \in Lost \cap alive : home[b] = p} :
      \E cracked \in SUBSET {b \in DOMAIN Parts \cap alive : home[b] = p /\ b \notin out} :
        /\ RemoveBodies(p, out \cup cracked, cracked)
        /\ Send(p, [q \in Ranks |-> [NoData EXCEPT
                !.bodies = out \cup cracked, !.parts = {Parts[b] : b \in cracked}]])
  BY DEF StepEnd
<1>4. PICK cracked \in SUBSET {b \in DOMAIN Parts \cap alive : home[b] = p /\ b \notin out} :
        RemoveBodies(p, out \cup cracked, cracked)
  BY <1>3
<1> DEFINE G == out \cup cracked
           mine == Of(con[p], G)
           images == Of(conext[p], G)
           moved == Of(con[p], cracked)
           kept == Transferred(moved)
           cleared == Unlisted(mine \cup images, bodcon[p])
<1>5. G \subseteq Bodies /\ cracked \subseteq G /\ RemoveBodies(p, G, cracked)
  BY <1>1, <1>4 DEF Shape, TypeOK
<1>6. con' = [con EXCEPT ![p] = (@ \ mine) \cup kept]
  BY <1>5, RemovedIs
<1>7. conext' = [conext EXCEPT ![p] = @ \ images]
  BY <1>5, RemovedIs
<1>8. bodcon' = [bodcon EXCEPT ![p] = Enlisted(kept, cleared)]
  BY <1>5, RemovedIs
<1>9. /\ mine \subseteq con[p] /\ images \subseteq conext[p]
      /\ moved \subseteq mine /\ moved \in SUBSET Sound
  BY <1>1, <1>5 DEF Of, Shape
<1> HIDE DEF G, mine, images, moved
<1>10. ASSUME NEW c \in kept
       PROVE  c.kind # "CONTACT" /\ \E d \in mine : c.id = d.id /\ c = Moved(d)
  BY <1>9, TransferredIs
<1> HIDE DEF kept
<1>11. Lined(Members(p), bodcon[p]) /\ Keyed(Members(p))
  BY DEF Sets
<1>12. /\ Lined(Members(p) \ (mine \cup images), cleared)
       /\ Keyed(Members(p) \ (mine \cup images))
  <2>1. mine \cup images \subseteq Members(p)
    BY <1>9 DEF Members
  <2> QED
    BY <1>11, <2>1, UnlistedIs
<1>13. Members(p) \ (mine \cup images) = (con[p] \ mine) \cup (conext[p] \ images)
  BY <1>1, <1>9, MembersApart DEF Members
<1>14. \A c, d \in con[p] : c.id = d.id => c = d
  BY <1>1, OnePlace DEF Owned
<1>15. \A c \in con[p] : \A e \in conext[p] : c.id # e.id
  BY <1>2 DEF Foreign, IdsOf
<1>16. \A c \in kept : \A e \in Members(p) \ (mine \cup images) : c.id # e.id
  <2> SUFFICES ASSUME NEW c \in kept, NEW e \in (con[p] \ mine) \cup (conext[p] \ images), c.id = e.id
               PROVE  FALSE
    BY <1>13
  <2>1. PICK d \in mine : c.id = d.id
    BY <1>10
  <2> QED
    BY <1>9, <1>14, <1>15, <2>1
<1>17. \A c, d \in kept : c.id = d.id => c = d
  <2> SUFFICES ASSUME NEW c \in kept, NEW d \in kept, c.id = d.id PROVE c = d
    OBVIOUS
  <2>1. PICK k \in mine : c.id = k.id /\ c = Moved(k)
    BY <1>10
  <2>2. PICK l \in mine : d.id = l.id /\ d = Moved(l)
    BY <1>10
  <2>3. k = l
    BY <1>9, <1>14, <2>1, <2>2
  <2> QED
    BY <2>1, <2>2, <2>3
<1>18. Clashing(kept, cleared) = {}
  <2> SUFFICES ASSUME NEW b \in Bodies, NEW c \in With(b, kept),
                      NEW e \in cleared[b] \cup (With(b, kept) \ {c}), Same(c, e)
               PROVE  FALSE
    BY DEF Clashing
  <2>1. c \in kept /\ c.id = e.id
    BY <1>10 DEF With, Same
  <2>2. CASE e \in With(b, kept) \ {c}
    BY <1>17, <2>1, <2>2 DEF With
  <2>3. CASE e \in cleared[b]
    <3>1. PICK k \in With(b, Members(p) \ (mine \cup images)) : e = Image(k)
      <4>1. cleared = [x \in Bodies |-> {Image(k) : k \in With(x, Members(p) \ (mine \cup images))}]
        BY <1>12 DEF Lined
      <4>2. cleared[b] = {Image(k) : k \in With(b, Members(p) \ (mine \cup images))}
        BY <4>1
      <4> QED
        BY <2>3, <4>2
    <3>2. k \in Members(p) \ (mine \cup images) /\ e.id = k.id
      BY <3>1, ImageLooks DEF With
    <3> QED
      BY <1>16, <2>1, <3>2
  <2> QED
    BY <2>2, <2>3
<1> DEFINE lists == Enlisted(kept, cleared)
           M == (Members(p) \ (mine \cup images)) \cup kept
<1> HIDE DEF cleared
<1>19. Lined(M, lists) /\ Keyed(M)
  BY <1>12, <1>18, EnlistedIs
<1>20. /\ con'[p] = (con[p] \ mine) \cup kept /\ conext'[p] = conext[p] \ images
       /\ \A q \in Ranks \ {p} : con'[q] = con[q] /\ conext'[q] = conext[q]
  BY <1>1, <1>6, <1>7 DEF Shape, TypeOK
<1>21. M = con'[p] \cup conext'[p]
  BY <1>13, <1>20
<1>22. bodcon' = [bodcon EXCEPT ![p] = lists]
  BY <1>8
<1> HIDE DEF lists, M
<1>23. Sets'
  BY <1>1, <1>19, <1>20, <1>21, <1>22, RankSets
<1>24. Foreign'
  <2> SUFFICES ASSUME NEW r \in Ranks, NEW c \in con'[r], NEW e \in conext'[r], c.id = e.id PROVE FALSE
    BY DEF Foreign, IdsOf
  <2>1. e \in conext[r]
    BY <1>20
  <2>2. \E d \in con[r] : d.id = c.id
    BY <1>9, <1>10, <1>20
  <2> QED
    BY <1>2, <2>1, <2>2 DEF Foreign, IdsOf
<1> QED
  BY <1>23, <1>24

(* Images of the rank's own constraints there are none, when all has settled. *)
LEMMA EnterFinish ==
    ASSUME RInv, phase = "solve", done = Ranks
    PROVE  \A r \in Ranks : IdsOf(con[r]) \cap IdsOf(conext[r]) = {}
<1> SUFFICES ASSUME NEW r \in Ranks, NEW c \in con[r], NEW e \in conext[r], c.id = e.id PROVE FALSE
  BY DEF IdsOf
<1>1. Shape /\ Forms /\ Rest /\ IInv
  BY RForms DEF RInv
<1>2. e \in View(r) /\ Awaited(r) = {}
  BY <1>1, Counts DEF Forms, View, Awaited
<1>3. Image(e) \in Claims(r)
  BY <1>1, <1>2 DEF Rest, Matching, Matched
<1>4. PICK q \in Ranks : \E d \in Owned(q) : r \in d.ext /\ Image(e) = Image(d)
  BY <1>3 DEF Claims
<1>5. PICK d \in Owned(q) : r \in d.ext /\ Image(e) = Image(d)
  BY <1>4
<1>6. q = r /\ d = c
  BY <1>1, <1>5, ImageSame, OnePlace DEF Owned
<1> QED
  BY <1>1, <1>5, <1>6 DEF Shape, TypeOK

(* ... and nothing else happens until it ends. *)
LEMMA StepForeign ==
    ASSUME RInv, Sets, Foreign, [Next]_vars, Next => "bodcon" \notin failed PROVE Foreign'
<1>1. CASE UNCHANGED vars
  BY <1>1 DEF vars, Foreign, IdsOf
<1>2. CASE Partition
  BY <1>2 DEF Partition, Foreign
<1>3. CASE Exchange
  <2>1. /\ done = Ranks /\ UNCHANGED <<con, conext>> /\ phase' = NextPhase[phase]
    BY <1>3 DEF Exchange
  <2>2. phase' = "finish" => phase = "solve"
    <3>1. phase \in DOMAIN NextPhase \cup {"partition"}
      BY RForms DEF Shape, TypeOK
    <3>2. phase # "partition"
      BY <2>1, Counts, RForms DEF Shape, Post
    <3> QED
      BY <2>1, <3>1, <3>2 DEF NextPhase
  <2> QED
    BY <2>1, <2>2, EnterFinish DEF Foreign, IdsOf
<1>4. ASSUME NEW p \in Ranks, StepEnd(p) PROVE Foreign'
  BY <1>4, StepEndSets DEF Next
<1>5. ASSUME NEW p \in Ranks, Keeps(p) \/ Inserts(p) PROVE Foreign'
  <2>1. UNCHANGED phase /\ phase # "finish"
    BY <1>5, BlockStays DEF Manage, Enter
  <2> QED
    BY <2>1 DEF Foreign
<1> QED
  BY <1>1, <1>2, <1>3, <1>4, <1>5, NextIs

(* While no insertion meets its like, the lists are complete after every step. *)
LEMMA StepSets ==
    ASSUME RInv, Known, Sets, Foreign, [Next]_vars, Next => "bodcon" \notin failed
    PROVE  Sets'
<1>1. Shape
  BY RForms
<1>2. ASSUME UNCHANGED <<con, conext, bodcon>>, failed \subseteq failed' PROVE Sets'
  <2>1. \A r \in Ranks : Members(r)' = Members(r) /\ bodcon'[r] = bodcon[r]
    BY <1>2 DEF Members
  <2>2. \A r \in Ranks : (Lined(Members(r), bodcon[r]))' <=> Lined(Members(r)', bodcon'[r])
    BY DEF Lined, With, Image, BodiesOf
  <2>3. \A r \in Ranks : (Keyed(Members(r)))' <=> Keyed(Members(r)')
    BY DEF Keyed, With, Same, BodiesOf
  <2> QED
    BY <1>2, <2>1, <2>2, <2>3 DEF Sets
<1>3. CASE UNCHANGED vars
  BY <1>2, <1>3 DEF vars
<1>4. CASE Partition \/ Exchange
  BY <1>2, <1>4 DEF Partition, Exchange
<1>6. ASSUME NEW p \in Ranks, DropPending(p) \/ CallbackReturn(p) PROVE Sets'
  BY <1>2, <1>6 DEF DropPending, CallbackReturn
<1>7. ASSUME NEW p \in Ranks, MigrateOut(p) \/ (\E c \in con[p] : DeleteConstraint(p, c)) \/ UpdateConstraints(p)
      PROVE  Sets'
  <2>1. Next
    BY <1>7 DEF Next
  <2> QED
    BY <1>1, <1>7, <2>1, LeavingSets
<1>8. ASSUME NEW p \in Ranks, Keeps(p) PROVE Sets'
  <2>1. "bodcon" \notin failed
    BY <1>8 DEF Next, Keeps
  <2>2. CASE "bodcon" \in failed'
    BY <2>2 DEF Sets
  <2>3. CASE "bodcon" \notin failed'
    BY <1>1, <1>6, <1>7, <1>8, <2>1, <2>3, ManageSets, SolveSets, GlueNewSets, SparsifySets, SettleSets,
       MigrateInSets DEF Keeps
  <2> QED
    BY <2>2, <2>3
<1>9. ASSUME NEW p \in Ranks, StepEnd(p) PROVE Sets'
  <2>1. "bodcon" \notin failed
    BY <1>9 DEF Next
  <2> QED
    BY <1>9, <2>1, StepEndSets
<1>10. ASSUME NEW p \in Ranks, Inserts(p) PROVE Sets'
  <2>1. "bodcon" \notin failed
    BY <1>10, InsertsNext
  <2>2. UNCHANGED conext /\ \E kind, m, s, new : Insert(p, kind, m, s, new)
    <3>1. CASE PutPending(p)
      <4>1. \E l \in pend[p] : Insert(p, "RIGLNK", l[1], l[2], FALSE)
        BY <3>1, PendingFound
      <4> QED
        BY <3>1, <4>1, InsertedOr
    <3>2. CASE \E t \in Touching : Detect(p, t)
      BY <3>2 DEF Detect
    <3>3. CASE \E b \in Fixable : FixPoint(p, b)
      BY <3>3 DEF FixPoint
    <3> QED
      BY <1>10, <3>1, <3>2, <3>3 DEF Inserts
  <2>3. CASE "bodcon" \in failed'
    BY <2>3 DEF Sets
  <2>4. CASE "bodcon" \notin failed'
    BY <1>1, <2>1, <2>2, <2>4, InsertSets
  <2> QED
    BY <2>3, <2>4
<1> QED
  BY <1>3, <1>4, <1>8, <1>9, <1>10, NextIs

(* Initially the lists are empty. *)
LEMMA InitSets == Init => Sets /\ Foreign
<1> QED
  BY DEF Init, Sets, Lined, Keyed, Members, With, Foreign

-----------------------------------------------------------------------------
(* The third part: what is inserted into a list is not in it yet.  Constraints
   that are owned, wherever, are never the same for a list (SameOwner).  What
   may be in the way is the image of a constraint that its owner has taken
   back: removed, or kept from a rank that is no longer to see it.  The
   invariant follows such images until they are gone. *)

(* Nothing in S is the same as something in M, or else in S. *)
Fits(S, M) == /\ \A c \in S : \A e \in M : ~ Same(c, e)
              /\ \A c, d \in S : Same(c, d) => c = d

(* While import lasts, a removal is of an image of what the sender owns. *)
Leaving == phase = "import" => \A q, r \in Ranks : \A i \in outbox[q][r].remove :
    \E c \in con[q] : \E e \in Seen(r) : c.id = i /\ Image(e) = Image(c)

(* Images come where there is nothing the same. *)
Fitting == phase \in {"settle", "sparsify"} =>
    \A r \in Ranks \ done : Fits(Coming(r), Members(r))

(* The removals that rank q has scheduled for rank r, until they are done. *)
Sched(q, r) == dbdrem[q][r] \cup (IF phase = "balance" THEN outbox[q][r].remove ELSE {})
               \cup (IF phase = "import" /\ r \notin done THEN inbox[r][q].remove ELSE {})

(* A pair of bodies has no contact while an image of its last one waits for such a
   removal: a new one is not made before detect. *)
Parted == \A q, r \in Ranks : \A e \in conext[r] :
    e.kind = "CONTACT" /\ Spared(e) /\ e.id \in Sched(q, r) =>
        \A p \in Ranks : \A c \in Owned(p) : c.kind = "CONTACT" => BodiesOf(c) # BodiesOf(e)

(* The identifier of a failed link is spare on its rank, or in use there again. *)
Spare == phase \in {"manage", "callback"} =>
    \A q, r \in Ranks : dbdrem[q][r] \subseteq sparecid[q] \cup IdsOf(con[q])

Timely == Leaving /\ Fitting /\ Parted /\ Spare

-----------------------------------------------------------------------------
(* What fits into the lists does not clash. *)
LEMMA FitsIn ==
    ASSUME NEW M, NEW lists, Lined(M, lists), NEW S, Fits(S, M)
    PROVE  Clashing(S, lists) = {}
<1> SUFFICES ASSUME NEW b \in Bodies, NEW c \in With(b, S),
                    NEW e \in lists[b] \cup (With(b, S) \ {c}), Same(c, e)
             PROVE  FALSE
  BY DEF Clashing
<1>1. CASE e \in With(b, S) \ {c}
  BY <1>1 DEF With, Fits
<1>2. CASE e \in lists[b]
  <2>1. lists[b] = {Image(k) : k \in With(b, M)}
    BY DEF Lined
  <2>2. PICK k \in With(b, M) : e = Image(k)
    BY <1>2, <2>1
  <2>3. Same(c, k)
    BY <2>2, ImageLooks
  <2> QED
    BY <2>2, <2>3 DEF With, Fits
<1> QED
  BY <1>1, <1>2

(* Owned constraints that are the same for a list are one constraint. *)
LEMMA SameOwner ==
    ASSUME IInv, Single, NEW p \in Ranks, NEW q \in Ranks, NEW c \in Owned(p), NEW d \in Owned(q),
           Same(c, d)
    PROVE  p = q /\ c = d
<1>1. c.id = d.id
  BY DEF Single, Same
<1> QED
  BY <1>1, OnePlace

(* Constraints of one image are the same for a list. *)
LEMMA SameImage ==
    ASSUME NEW c, NEW d, NEW e, Image(e) = Image(d)
    PROVE  (Same(c, e) <=> Same(c, d)) /\ (Same(e, c) <=> Same(d, c))
<1>1. e.id = d.id /\ e.kind = d.kind /\ BodiesOf(e) = BodiesOf(d)
  BY ImageSame
<1> QED
  BY <1>1 DEF Same

(* An image a rank knows of is that of an owned constraint. *)
LEMMA SeenOwned ==
    ASSUME RInv, Leaving, phase \in {"import", "detect"}, NEW r \in Ranks, NEW e \in Seen(r)
    PROVE  \E q \in Ranks : \E c \in Owned(q) : Image(e) = Image(c) /\ (r \in c.ext \/ c \in con[q])
<1>1. Shape /\ Forms /\ Rest
  BY RForms
<1>2. e \in View(r) /\ Apart(View(r)) /\ (e.id \in Awaited(r) \/ Image(e) \in Claims(r))
  BY <1>1 DEF View, Rest, Matching, Matched
<1>3. CASE Image(e) \in Claims(r)
  BY <1>3 DEF Claims
<1>4. CASE e.id \in Awaited(r)
  <2>1. PICK q \in Ranks : e.id \in Due(q, r)
    BY <1>4 DEF Awaited
  <2>2. phase = "import" /\ e.id \in outbox[q][r].remove
    BY <1>1, <2>1 DEF Forms
  <2>3. PICK c \in con[q] : \E f \in Seen(r) : c.id = e.id /\ Image(f) = Image(c)
    BY <2>2 DEF Leaving
  <2>4. PICK f \in Seen(r) : c.id = e.id /\ Image(f) = Image(c)
    BY <2>3
  <2>5. f = e
    <3>1. f.id = e.id
      BY <2>4, ImageSame
    <3> QED
      BY <1>2, <2>4, <3>1 DEF View, Apart
  <2> QED
    BY <2>4, <2>5 DEF Owned
<1> QED
  BY <1>2, <1>3, <1>4

(* When images are sent, they are of constraints the receiver has nothing of. *)
LEMMA EnterFits ==
    ASSUME RInv, Single, Leaving, phase \in {"import", "detect"}, done = Ranks, NEW r \in Ranks
    PROVE  Fits(Coming(r), Members(r))
<1>1. Shape /\ Forms /\ Rest /\ IInv
  BY RForms DEF RInv
<1>2. conext[r] = Seen(r)
  <2>1. Gone = {} /\ Stale(r) = {}
    BY <1>1 DEF Forms, Stale
  <2> QED
    BY <2>1 DEF Seen, Spared
<1>3. \A c \in Coming(r) : c.rank \in Ranks /\ \E d \in con[c.rank] : r \in d.ext /\ Image(c) = Image(d)
  BY <1>1 DEF Rest, Transit, Sender, Coming, External
<1>4. ASSUME NEW c \in Coming(r), NEW e \in Members(r), Same(c, e) PROVE FALSE
  <2>1. PICK d \in con[c.rank] : r \in d.ext /\ Image(c) = Image(d)
    BY <1>3
  <2>2. Same(d, e) /\ d \in Owned(c.rank) /\ c.rank \in Ranks
    BY <1>3, <1>4, <2>1, SameImage DEF Owned
  <2>3. CASE e \in con[r]
    <3>1. r = c.rank /\ d = e
      BY <1>1, <2>2, <2>3, SameOwner DEF Owned
    <3> QED
      BY <1>1, <2>1, <3>1 DEF Shape, TypeOK
  <2>4. CASE e \in Seen(r)
    <3>1. PICK q \in Ranks : \E k \in Owned(q) : Image(e) = Image(k)
      BY <2>4, SeenOwned
    <3>2. PICK k \in Owned(q) : Image(e) = Image(k)
      BY <3>1
    <3>3. Same(d, k)
      BY <2>2, <3>2, SameImage
    <3>4. d = k
      BY <1>1, <2>2, <3>3, SameOwner
    <3>5. c.id = e.id
      BY <2>1, <3>2, <3>4, ImageSame
    <3> QED
      BY <1>1, <2>4, <3>5 DEF Rest, Matching
  <2> QED
    BY <1>2, <2>3, <2>4 DEF Members
<1>5. ASSUME NEW c \in Coming(r), NEW e \in Coming(r), Same(c, e) PROVE c = e
  <2>1. PICK d \in con[c.rank] : Image(c) = Image(d)
    BY <1>3
  <2>2. PICK k \in con[e.rank] : Image(e) = Image(k)
    BY <1>3
  <2>3. Same(d, k)
    <3>1. Same(d, e)
      BY <1>5, <2>1, SameImage
    <3> QED
      BY <2>2, <3>1, SameImage
  <2>4. d = k
    BY <1>1, <1>3, <2>3, SameOwner DEF Owned
  <2>5. c.id = e.id
    BY <2>1, <2>2, <2>4, ImageSame
  <2> QED
    BY <1>1, <2>5 DEF Rest, Matching, Matched, Apart, View
<1> QED
  BY <1>4, <1>5 DEF Fits

(* What comes to a rank that has not settled it stays as it is. *)
LEMMA StepFitting ==
    ASSUME RInv, RInv', Single, Leaving, Fitting, [Next]_vars PROVE Fitting'
<1>1. Shape /\ Forms /\ Mail /\ Shape' /\ Forms' /\ Mail'
  BY RForms, FormsHoldNext DEF RInv, IInv
<1>2. ASSUME phase' \in {"settle", "sparsify"} =>
               \A r \in Ranks \ done' : /\ Coming(r)' = Coming(r) /\ Members(r)' = Members(r)
                                        /\ Fits(Coming(r), Members(r))
      PROVE  Fitting'
  <2>1. \A r \in Ranks : (Fits(Coming(r), Members(r)))' <=> Fits(Coming(r)', Members(r)')
    BY DEF Fits, Same, BodiesOf
  <2> QED
    BY <1>2, <2>1 DEF Fitting
<1>3. CASE UNCHANGED vars
  <2>1. \A r \in Ranks : Coming(r)' = Coming(r) /\ Members(r)' = Members(r)
    BY <1>3 DEF vars, Coming, Glue, Members, External, Ids
  <2> QED
    BY <1>2, <1>3, <2>1 DEF vars, Fitting
<1>4. CASE Partition
  BY <1>2, <1>4 DEF Partition
<1>5. CASE Exchange
  <2>1. /\ done = Ranks /\ UNCHANGED <<con, conext>> /\ phase' = NextPhase[phase]
        /\ phase \in DOMAIN NextPhase
    <3>1. done # {}
      BY <1>5, Counts DEF Exchange
    <3>2. phase \in DOMAIN NextPhase
      BY <1>1, <1>5, <3>1 DEF Exchange, Shape, TypeOK, Post
    <3> QED
      BY <1>5, <3>2 DEF Exchange
  <2>2. phase' \in {"settle", "sparsify"} => phase \in {"import", "detect"}
    BY <2>1 DEF NextPhase
  <2>3. \A r \in Ranks : Coming(r)' = Coming(r) /\ Members(r)' = Members(r)
    BY <1>5, <2>1, ExchangeComing DEF Members
  <2>4. phase \in {"import", "detect"} => \A r \in Ranks : Fits(Coming(r), Members(r))
    BY <2>1, EnterFits
  <2> QED
    BY <1>2, <2>2, <2>3, <2>4
<1>6. ASSUME NEW p \in Ranks, Settle(p) \/ Sparsify(p) PROVE Fitting'
  <2>1. /\ phase \in {"settle", "sparsify"} /\ UNCHANGED <<phase, inbox>> /\ done' = done \cup {p}
        /\ \A r \in Ranks \ {p} : con'[r] = con[r] /\ conext'[r] = conext[r]
    <3>1. CASE Settle(p)
      BY <1>1, <3>1 DEF Settle, Enter, Leave, Shape, TypeOK
    <3>2. CASE Sparsify(p)
      <4>1. PICK del \in SUBSET {c \in con[p] : c.new} : con' = [con EXCEPT ![p] = @ \ del]
        BY <3>2 DEF Sparsify
      <4>2. /\ phase = "sparsify" /\ UNCHANGED <<phase, inbox>> /\ done' = done \cup {p}
            /\ conext' = [conext EXCEPT ![p] = Imported(p, @)]
        BY <3>2 DEF Sparsify, Enter, Leave
      <4> QED
        BY <1>1, <4>1, <4>2 DEF Shape, TypeOK
    <3> QED
      BY <1>6, <3>1, <3>2
  <2>2. ASSUME NEW r \in Ranks \ done' PROVE Coming(r)' = Coming(r) /\ Members(r)' = Members(r)
    <3>1. r \notin done /\ r # p
      BY <2>1
    <3>2. \A q \in Ranks : outbox[q][r].glue = {} /\ outbox'[q][r].glue = {}
      BY <1>1, <2>1 DEF Mail, Outgoing
    <3>3. \A q \in Ranks : Glue(q, r)' = Glue(q, r)
      BY <2>1, <3>1, <3>2 DEF Glue
    <3> QED
      BY <2>1, <3>1, <3>3 DEF Coming, External, Members
  <2> QED
    BY <1>2, <2>1, <2>2 DEF Fitting
<1>7. ASSUME NEW p \in Ranks, Keeps(p), ~ (Settle(p) \/ Sparsify(p)) PROVE Fitting'
  <2>1. phase' \notin {"settle", "sparsify"}
    BY <1>7 DEF Keeps, MigrateOut, MigrateIn, DropPending, GlueNew, Solve, Manage,
                DeleteConstraint, CallbackReturn, UpdateConstraints, Enter
  <2> QED
    BY <1>2, <2>1
<1>8. ASSUME NEW p \in Ranks, Inserts(p) \/ StepEnd(p) PROVE Fitting'
  <2>1. phase' \notin {"settle", "sparsify"}
    BY <1>8, BlockStays DEF StepEnd, Enter
  <2> QED
    BY <1>2, <2>1
<1> QED
  BY <1>3, <1>4, <1>5, <1>6, <1>7, <1>8, NextIs

(* A constraint that is taken back from a rank has been seen there. *)
LEMMA MigrateInLeaving ==
    ASSUME RInv, RNext, Leaving, NEW p \in Ranks, MigrateIn(p) PROVE Leaving'
<1> DEFINE L == [d \in Owned(p) |-> [d EXCEPT !.ext = Beyond(p, d)]]
<1>1. Shape /\ Forms /\ Rest /\ Mail /\ IInv
  BY RForms DEF RInv
<1>2. phase = "import" /\ p \notin done
  BY DEF MigrateIn, Enter
<1>0. L = [d \in Owned(p) |-> [d EXCEPT !.ext = Beyond(p, d)]]
  OBVIOUS
<1> HIDE DEF L
<1>3. /\ con'[p] = {L[d] : d \in Owned(p)}
      /\ \A d \in Owned(p) : L[d].id = d.id /\ Image(L[d]) = Image(d) /\ Image(d) \in Images
  BY <1>0, <1>1, MigrateInSent
<1>4. \A r \in Ranks : outbox'[p][r].remove
        = {d.id : d \in {c \in Owned(p) : r \in c.ext /\ r \notin Beyond(p, c) /\ r # p}}
  BY <1>0, <1>1, MigrateInSent
<1>5. \A q, r \in Ranks : q # p => outbox'[q][r] = outbox[q][r]
  BY <1>0, <1>1, MigrateInSent
<1>6. \A q \in Ranks \ {p} : con'[q] = con[q]
  BY <1>1, MigrateInFacts
<1>7. /\ \A r \in Ranks \ {p} : Seen(r)' = Seen(r)
      /\ Seen(p)' = {e \in Seen(p) : e.id \notin {c.id : c \in {d \in Owned(p) : p \in d.ext}}}
  BY MigrateInSeen
<1> SUFFICES ASSUME NEW q \in Ranks, NEW r \in Ranks, NEW i \in outbox'[q][r].remove
             PROVE  \E c \in con'[q] : \E e \in Seen(r)' : c.id = i /\ Image(e) = Image(c)
  BY DEF Leaving
<1>8. CASE q = p
  <2>1. PICK d \in Owned(p) : d.id = i /\ r \in d.ext /\ r # p
    BY <1>4, <1>8
  <2>2. Image(d) \in Claims(r)
    <3>1. Spared(d)
      BY <1>1, <1>2, Counts DEF Forms, Spared
    <3> QED
      BY <1>3, <2>1, <3>1 DEF Claims
  <2>3. PICK e \in View(r) : Image(e) = Image(d)
    BY <1>1, <2>2 DEF Rest, Matching, Matched
  <2>4. e \notin Coming(r)
    <3> SUFFICES ASSUME e \in Coming(r) PROVE FALSE
      OBVIOUS
    <3>1. e.rank \in Ranks /\ Image(e) \in Glue(e.rank, r)
      BY DEF Coming, External
    <3>2. PICK c \in con[e.rank] : Image(c) = Image(e)
      BY <1>1, <1>2 DEF Rest, Transit, Sender
    <3>3. c.id = d.id
      BY <2>3, <3>2, ImageSame
    <3>4. e.rank = p
      BY <1>1, <3>1, <3>2, <3>3, OnePlace DEF Owned
    <3>5. outbox[p][r].glue = {} /\ inbox[r][p].glue = {}
      BY <1>1, <1>2 DEF Mail, Incoming, NoData
    <3> QED
      BY <3>1, <3>4, <3>5 DEF Glue
  <2>5. e \in Seen(r)'
    BY <1>7, <2>1, <2>3, <2>4 DEF View
  <2>6. L[d] \in con'[q] /\ L[d].id = i /\ Image(e) = Image(L[d])
    BY <1>3, <1>8, <2>1, <2>3
  <2> QED
    BY <2>5, <2>6
<1>9. CASE q # p
  <2>1. PICK c \in con[q] : \E e \in Seen(r) : c.id = i /\ Image(e) = Image(c)
    BY <1>2, <1>5, <1>9 DEF Leaving
  <2>2. PICK e \in Seen(r) : c.id = i /\ Image(e) = Image(c)
    BY <2>1
  <2>3. c \in con'[q]
    BY <1>6, <1>9
  <2>4. e \in Seen(r)'
    <3>1. CASE r # p
      BY <1>7, <3>1
    <3>2. CASE r = p
      <4>1. \A d \in Owned(p) : e.id # d.id
        <5> SUFFICES ASSUME NEW d \in Owned(p), e.id = d.id PROVE FALSE
          OBVIOUS
        <5>1. c.id = d.id
          BY <2>2, ImageSame
        <5> QED
          BY <1>1, <1>9, <5>1, OnePlace DEF Owned
      <4> QED
        BY <1>7, <3>2, <4>1
    <3> QED
      BY <3>1, <3>2
  <2> QED
    BY <2>2, <2>3, <2>4
<1> QED
  BY <1>8, <1>9

(* Removals are sent in import by MigrateIn only. *)
LEMMA StepLeaving ==
    ASSUME RInv, RInv', Leaving, [Next]_vars PROVE Leaving'
<1>1. Shape /\ Shape' /\ Mail' /\ RNext
  BY RForms DEF RInv, RNext, IInv
<1>2. CASE UNCHANGED vars
  <2>1. \A r \in Ranks : Seen(r)' = Seen(r)
    BY <1>2 DEF vars, Seen, Stale, Got, Spared, Gone
  <2> QED
    BY <1>2, <2>1 DEF vars, Leaving
<1>3. CASE Partition
  BY <1>3 DEF Partition, Leaving
<1>4. CASE Exchange
  <2>1. \A q, r \in Ranks : outbox'[q][r].remove = {}
    BY <1>4 DEF Exchange, NoMail, NoData
  <2> QED
    BY <2>1 DEF Leaving
<1>5. ASSUME NEW p \in Ranks, MigrateIn(p) PROVE Leaving'
  BY <1>1, <1>5, MigrateInLeaving
<1>6. ASSUME NEW p \in Ranks, Keeps(p), ~ MigrateIn(p) PROVE Leaving'
  <2>1. phase' # "import"
    BY <1>6 DEF Keeps, MigrateOut, Settle, DropPending, GlueNew, Sparsify, Solve, Manage,
                DeleteConstraint, CallbackReturn, UpdateConstraints, Enter
  <2> QED
    BY <2>1 DEF Leaving
<1>7. ASSUME NEW p \in Ranks, Inserts(p) \/ StepEnd(p) PROVE Leaving'
  <2>1. phase' # "import"
    BY <1>7, BlockStays DEF StepEnd, Enter
  <2> QED
    BY <2>1 DEF Leaving
<1> QED
  BY <1>2, <1>3, <1>4, <1>5, <1>6, <1>7, NextIs

(* A contact that separates is the only one of its bodies. *)
LEMMA UpdateParted ==
    ASSUME RInv, RInv', Single, Parted, NEW p \in Ranks, UpdateConstraints(p) PROVE Parted'
<1>1. Shape /\ Forms /\ Rest /\ IInv /\ Forms'
  BY RForms, FormsHoldNext DEF RInv, IInv
<1>2. PICK gone \in SUBSET {c \in con[p] : c.kind = "CONTACT"} :
        /\ con' = [con EXCEPT ![p] = @ \ gone]
        /\ dbdrem' = [dbdrem EXCEPT ![p] = Scheduled(p, gone)]
  BY DEF UpdateConstraints
<1>3. phase = "update" /\ UNCHANGED <<phase, conext>>
  BY DEF UpdateConstraints, Enter
<1>4. /\ con'[p] = con[p] \ gone /\ \A q \in Ranks \ {p} : con'[q] = con[q]
      /\ \A q \in Ranks : Owned(q) = con[q] /\ Owned(q)' = con'[q]
  BY <1>1, <1>2, <1>3 DEF Shape, Forms
<1>5. ASSUME NEW q \in Ranks, NEW r \in Ranks
      PROVE  /\ Sched(q, r) = dbdrem[q][r]
             /\ Sched(q, r)' = IF q = p THEN Sched(q, r) \cup {c.id : c \in {d \in gone : r \in d.ext}}
                                        ELSE Sched(q, r)
  <2>1. Sched(q, r) = dbdrem[q][r] /\ Sched(q, r)' = dbdrem'[q][r]
    BY <1>3 DEF Sched
  <2>2. /\ dbdrem'[p][r] = dbdrem[p][r] \cup {c.id : c \in {d \in gone : r \in d.ext}}
        /\ q # p => dbdrem'[q][r] = dbdrem[q][r]
    BY <1>1, <1>2 DEF Shape, TypeOK, Scheduled
  <2> QED
    BY <2>1, <2>2
<1> SUFFICES ASSUME NEW q \in Ranks, NEW r \in Ranks, NEW e \in conext[r],
                    e.kind = "CONTACT", e.id \in Sched(q, r)',
                    NEW s \in Ranks, NEW c \in con'[s], c.kind = "CONTACT", BodiesOf(c) = BodiesOf(e)
             PROVE  FALSE
  BY <1>3, <1>4 DEF Parted, BodiesOf
<1>6. c \in con[s] /\ c \in Owned(s) /\ Spared(e)
  BY <1>1, <1>3, <1>4, Counts DEF Forms, Spared
<1>7. CASE e.id \in Sched(q, r)
  BY <1>6, <1>7 DEF Parted
<1>8. ASSUME NEW d \in gone, r \in d.ext, d.id = e.id, q = p PROVE FALSE
  <2>1. d \in con[p] /\ d \in Owned(p) /\ d.kind = "CONTACT" /\ Spared(d)
    BY <1>1, <1>3, <1>4, Counts DEF Forms, Spared
  <2>2. Image(d) \in Claims(r)
    BY <1>1, <1>8, <2>1, OwnedTyped, ImageTyped DEF Claims
  <2>3. PICK f \in View(r) : Image(f) = Image(d)
    BY <1>1, <2>2 DEF Rest, Matching, Matched
  <2>4. e \in View(r) /\ f.id = d.id
    BY <1>1, <1>3, <2>3, ImageSame DEF Forms, View
  <2>5. e = f
    BY <1>1, <1>8, <2>3, <2>4 DEF Rest, Matching, Matched, Apart
  <2>6. BodiesOf(d) = BodiesOf(c)
    BY <2>3, <2>5, ImageSame
  <2>7. d = c /\ s = p
    BY <1>1, <1>6, <2>1, <2>6, SameOwner DEF Same
  <2> QED
    BY <1>4, <1>8, <2>7
<1> QED
  BY <1>5, <1>7, <1>8

(* What fails in Manage are no contacts. *)
LEMMA ManageParted ==
    ASSUME RInv, RInv', Parted, Sets, "bodcon" \notin failed, NEW p \in Ranks, Manage(p) PROVE Parted'
<1> DEFINE mine == UNION {Listed(p, b, con[p]) : b \in Got(p, "bodies")}
           images == UNION {Listed(p, b, conext[p]) : b \in Got(p, "bodies")}
<1>1. Shape /\ Forms /\ Rest /\ Mail /\ IInv /\ Forms'
  BY RForms, FormsHoldNext DEF RInv, IInv
<1>2. PICK broken \in SUBSET {c \in con[p] \ mine : c.kind \in {"RIGLNK", "FIXPNT"}} :
        /\ con' = [con EXCEPT ![p] = (@ \ mine) \ broken]
        /\ dbdrem' = [dbdrem EXCEPT ![p] = Scheduled(p, broken)]
  BY DEF Manage
<1>3. /\ phase = "manage" /\ UNCHANGED <<phase, inbox, outbox>>
      /\ conext' = [conext EXCEPT ![p] = @ \ images]
  BY DEF Manage, Enter
<1>4. Gone = Got(p, "bodies") /\ Gone' = Gone /\ Got(p, "bodies") \subseteq Bodies
  BY <1>1, <1>3, GoneIs, GotTyped DEF Gone
<1>5. \A c \in con[p] : c \in mine <=> ~ Spared(c)
  <2>1. \A b \in Bodies : Listed(p, b, con[p]) = With(b, con[p])
    BY ListedIs DEF Members
  <2> QED
    BY <1>4, <2>1 DEF With, Spared
<1>6. broken \subseteq con[p] /\ \A d \in broken : d.kind # "CONTACT" /\ d \notin mine
  OBVIOUS
<1> HIDE DEF mine, images
<1>7. /\ con'[p] \subseteq con[p] /\ \A q \in Ranks \ {p} : con'[q] = con[q]
      /\ \A q \in Ranks : Owned(q) = con[q] /\ Owned(q)' = con'[q]
  BY <1>1, <1>2, <1>3 DEF Shape, Forms
<1>8. conext'[p] \subseteq conext[p] /\ \A r \in Ranks \ {p} : conext'[r] = conext[r]
  BY <1>1, <1>3 DEF Shape, TypeOK
<1>9. ASSUME NEW q \in Ranks, NEW r \in Ranks
      PROVE  /\ Sched(q, r) = dbdrem[q][r]
             /\ Sched(q, r)' = IF q = p THEN Sched(q, r) \cup {c.id : c \in {d \in broken : r \in d.ext}}
                                        ELSE Sched(q, r)
  <2>1. Sched(q, r) = dbdrem[q][r] /\ Sched(q, r)' = dbdrem'[q][r]
    BY <1>3 DEF Sched
  <2>2. /\ dbdrem'[p][r] = dbdrem[p][r] \cup {c.id : c \in {d \in broken : r \in d.ext}}
        /\ q # p => dbdrem'[q][r] = dbdrem[q][r]
    BY <1>1, <1>2 DEF Shape, TypeOK, Scheduled
  <2> QED
    BY <2>1, <2>2
<1> SUFFICES ASSUME NEW q \in Ranks, NEW r \in Ranks, NEW e \in conext'[r],
                    e.kind = "CONTACT", Spared(e), e.id \in Sched(q, r)',
                    NEW s \in Ranks, NEW c \in con'[s], c.kind = "CONTACT", BodiesOf(c) = BodiesOf(e)
             PROVE  FALSE
  BY <1>4, <1>7 DEF Parted, BodiesOf, Spared
<1>10. e \in conext[r] /\ c \in Owned(s)
  BY <1>7, <1>8
<1>11. CASE e.id \in Sched(q, r)
  BY <1>10, <1>11 DEF Parted
<1>12. ASSUME NEW d \in broken, r \in d.ext, d.id = e.id, q = p PROVE FALSE
  <2>1. d \in con[p] /\ d \in Owned(p) /\ d.kind # "CONTACT" /\ Spared(d)
    BY <1>5, <1>6, <1>7
  <2>2. Image(d) \in Claims(r)
    BY <1>1, <1>12, <2>1, OwnedTyped, ImageTyped DEF Claims
  <2>3. PICK f \in View(r) : Image(f) = Image(d)
    BY <1>1, <2>2 DEF Rest, Matching, Matched
  <2>4. e \in View(r) /\ f.id = d.id
    BY <1>1, <1>3, <1>10, <2>3, ImageSame DEF Forms, View
  <2>5. e = f
    BY <1>1, <1>12, <2>3, <2>4 DEF Rest, Matching, Matched, Apart
  <2> QED
    BY <2>1, <2>3, <2>5, ImageSame
<1> QED
  BY <1>9, <1>11, <1>12

(* Contacts are made in detect only; a removal is scheduled with the end of its
   contact, and sent before the next detect. *)
LEMMA StepParted ==
    ASSUME RInv, RInv', Known, Single, Sets, Parted, [Next]_vars, Next => "bodcon" \notin failed
    PROVE  Parted'
<1>1. Shape /\ Forms /\ Rest /\ Mail /\ IInv /\ Shape' /\ Forms' /\ Mail'
  BY RForms, FormsHoldNext DEF RInv, IInv
<1>2. ASSUME \A s \in Ranks : \A c \in Owned(s)' : c.kind = "CONTACT" =>
               \E t \in Ranks : \E d \in Owned(t) : Image(c) = Image(d),
             \A q, r \in Ranks : \A e \in conext'[r] :
               e.kind = "CONTACT" /\ Spared(e)' /\ e.id \in Sched(q, r)' =>
                 e \in conext[r] /\ Spared(e) /\ e.id \in Sched(q, r)
      PROVE  Parted'
  <2> SUFFICES ASSUME NEW q \in Ranks, NEW r \in Ranks, NEW e \in conext'[r],
                      e.kind = "CONTACT", Spared(e)', e.id \in Sched(q, r)',
                      NEW p \in Ranks, NEW c \in Owned(p)', c.kind = "CONTACT", BodiesOf(c) = BodiesOf(e)
               PROVE  FALSE
    BY DEF Parted, BodiesOf
  <2>1. PICK t \in Ranks : \E d \in Owned(t) : Image(c) = Image(d)
    BY <1>2
  <2>2. PICK d \in Owned(t) : Image(c) = Image(d)
    BY <2>1
  <2>3. d.kind = "CONTACT" /\ BodiesOf(d) = BodiesOf(e)
    BY <2>2, ImageSame
  <2>4. e \in conext[r] /\ Spared(e) /\ e.id \in Sched(q, r)
    BY <1>2
  <2> QED
    BY <2>3, <2>4 DEF Parted
<1>3. CASE phase' \notin {"manage", "callback", "update", "partition", "balance", "import"}
  <2>1. \A q, r \in Ranks : Sched(q, r)' = {}
    BY <1>1, <1>3 DEF Mail, Scheduling, Sched
  <2> QED
    BY <2>1 DEF Parted
<1>4. CASE UNCHANGED vars
  <2>1. /\ \A q \in Ranks : Owned(q)' = Owned(q)
        /\ \A q, r \in Ranks : Sched(q, r)' = Sched(q, r)
        /\ \A c : Spared(c)' <=> Spared(c)
        /\ UNCHANGED conext
    BY <1>4 DEF vars, Owned, Arriving, Sched, Spared, Gone
  <2> QED
    BY <1>2, <2>1
<1>5. CASE Partition
  <2>1. /\ phase = "partition" /\ phase' = "balance" /\ done = {}
        /\ UNCHANGED <<con, conext, dbdrem, outbox, inbox>>
    BY <1>1, <1>5 DEF Partition, Shape, Post
  <2>2. \A q \in Ranks : Owned(q)' = Owned(q)
    BY <2>1 DEF Owned, Arriving
  <2>3. \A q, r \in Ranks : Sched(q, r)' = Sched(q, r)
    <3>1. \A q, r \in Ranks : outbox[q][r].remove = {}
      BY <1>1, <2>1 DEF Mail, NoData
    <3> QED
      BY <2>1, <3>1 DEF Sched
  <2>4. \A c : Spared(c)' <=> Spared(c)
    BY <2>1 DEF Spared, Gone
  <2> QED
    BY <1>2, <2>1, <2>2, <2>3, <2>4
<1>6. CASE Exchange
  <2>1. /\ done = Ranks /\ done' = {} /\ UNCHANGED <<con, conext, dbdrem>> /\ phase' = NextPhase[phase]
        /\ phase \in DOMAIN NextPhase
    <3>1. done # {}
      BY <1>6, Counts DEF Exchange
    <3>2. phase \in DOMAIN NextPhase
      BY <1>1, <1>6, <3>1 DEF Exchange, Shape, TypeOK, Post
    <3> QED
      BY <1>6, <3>2 DEF Exchange
  <2>2. \A q \in Ranks : Owned(q)' = Owned(q)
    BY <1>1, <1>6, <2>1, ExchangeFacts DEF Owned
  <2>3. CASE phase = "finish"
    <3>1. phase' = "manage"
      BY <2>1, <2>3 DEF NextPhase
    <3>2. \A q, r \in Ranks : Sched(q, r)' = {}
      BY <1>1, <2>1, <3>1 DEF Mail, Scheduling, Sched
    <3> QED
      BY <3>2 DEF Parted
  <2>4. CASE phase \in {"manage", "callback", "update"}
    <3>1. phase' \in {"callback", "update", "partition"}
      BY <2>1, <2>4 DEF NextPhase
    <3>2. \A q, r \in Ranks : Sched(q, r)' = Sched(q, r)
      BY <2>1, <2>4, <3>1 DEF Sched
    <3>3. \A r \in Ranks : \A e \in conext[r] : Spared(e)
      <4>1. CASE phase = "manage"
        BY <1>1, <2>1, <4>1 DEF Rest, Cleared
      <4>2. CASE phase # "manage"
        BY <1>1, <2>4, <4>2, Counts DEF Forms, Spared
      <4> QED
        BY <4>1, <4>2
    <3> QED
      BY <1>2, <2>1, <2>2, <3>2, <3>3
  <2>5. CASE phase = "balance"
    <3>1. phase' = "import"
      BY <2>1, <2>5 DEF NextPhase
    <3>2. \A q, r \in Ranks : inbox'[r][q] = outbox[q][r]
      BY <1>6 DEF Exchange
    <3>3. \A q, r \in Ranks : Sched(q, r)' \subseteq Sched(q, r)
      BY <2>1, <2>5, <3>1, <3>2 DEF Sched
    <3>4. \A k : Spared(k)
      BY <1>1, <2>5, Counts DEF Forms, Spared
    <3> QED
      BY <1>2, <2>1, <2>2, <3>3, <3>4
  <2>6. CASE phase \notin {"finish", "manage", "callback", "update", "balance"}
    <3>1. phase' \notin {"manage", "callback", "update", "partition", "balance", "import"}
          \/ phase = "pending"
      BY <2>1, <2>6 DEF NextPhase
    <3>2. CASE phase = "pending"
      <4>1. phase' = "update" /\ \A q, r \in Ranks : dbdrem'[q][r] = {}
        BY <1>1, <2>1, <3>2 DEF NextPhase, Mail, Scheduling
      <4>2. \A q, r \in Ranks : Sched(q, r)' = {}
        BY <4>1 DEF Sched
      <4> QED
        BY <4>2 DEF Parted
    <3> QED
      BY <1>3, <3>1, <3>2
  <2> QED
    BY <2>3, <2>4, <2>5, <2>6
<1>7. ASSUME NEW p \in Ranks, MigrateOut(p) PROVE Parted'
  <2>1. Kept
    BY <1>1, <1>7, StepKeeps DEF Keeps
  <2>2. /\ phase = "balance" /\ p \notin done /\ UNCHANGED <<phase, conext, inbox>>
    BY <1>7 DEF MigrateOut, Enter
  <2>3. /\ \A q, r \in Ranks : q # p => outbox'[q][r] = outbox[q][r] /\ dbdrem'[q][r] = dbdrem[q][r]
        /\ \A r \in Ranks : outbox'[p][r].remove = dbdrem[p][r] /\ dbdrem'[p][r] = {}
    BY <1>1, <1>7, MigrateOutFacts
  <2>4. \A q, r \in Ranks : Sched(q, r)' \subseteq Sched(q, r)
    BY <2>2, <2>3 DEF Sched
  <2>5. \A c : Spared(c)
    BY <1>1, <2>2, Counts DEF Forms, Spared
  <2> QED
    BY <1>2, <2>1, <2>2, <2>4, <2>5 DEF Kept
<1>8. ASSUME NEW p \in Ranks, MigrateIn(p) PROVE Parted'
  <2>1. Kept
    BY <1>1, <1>8, StepKeeps DEF Keeps
  <2>2. /\ phase = "import" /\ UNCHANGED <<phase, inbox, dbdrem>> /\ done' = done \cup {p}
        /\ conext'[p] \subseteq conext[p] /\ \A r \in Ranks \ {p} : conext'[r] = conext[r]
    BY <1>1, <1>8 DEF MigrateIn, Enter, Leave, Shape, TypeOK
  <2>3. \A q, r \in Ranks : Sched(q, r)' \subseteq Sched(q, r)
    BY <2>2 DEF Sched
  <2>4. \A c : Spared(c)
    BY <1>1, <2>2, Counts DEF Forms, Spared
  <2> QED
    BY <1>2, <2>1, <2>2, <2>3, <2>4 DEF Kept
<1>9. ASSUME NEW p \in Ranks, CallbackReturn(p) \/ \E c \in con[p] : DeleteConstraint(p, c)
      PROVE  Parted'
  <2>1. Kept
    BY <1>1, <1>9, StepKeeps DEF Keeps
  <2>2. phase = "callback" /\ UNCHANGED <<phase, conext, dbdrem>>
    BY <1>9 DEF CallbackReturn, DeleteConstraint, Enter
  <2>3. \A q, r \in Ranks : Sched(q, r)' = Sched(q, r)
    BY <2>2 DEF Sched
  <2>4. \A c : Spared(c)
    BY <1>1, <2>2, Counts DEF Forms, Spared
  <2> QED
    BY <1>2, <2>1, <2>2, <2>3, <2>4 DEF Kept
<1>10. ASSUME NEW p \in Ranks, UpdateConstraints(p) PROVE Parted'
  BY <1>1, <1>10, UpdateParted DEF RNext
<1>11. ASSUME NEW p \in Ranks, Manage(p) PROVE Parted'
  BY <1>1, <1>11, ManageParted DEF Next
<1>12. ASSUME NEW p \in Ranks, Inserts(p) PROVE Parted'
  <2>1. /\ UNCHANGED phase /\ phase \in {"pending", "detect", "callback"}
    BY <1>12, BlockStays
  <2>2. CASE phase = "callback"
    <3>1. PICK c \in Constraint :
             con'[p] = con[p] \cup {c} /\ (\A q \in Ranks \ {p} : con'[q] = con[q]) /\ c.kind = "FIXPNT"
      BY <1>12, <2>2, InsertsNext, InsertedIs DEF Inserts
    <3>2. UNCHANGED <<conext, dbdrem>>
      BY <1>12, <2>2 DEF Inserts, PutPending, Detect, FixPoint, Enter
    <3>3. \A q, r \in Ranks : Sched(q, r)' = Sched(q, r)
      BY <2>1, <2>2, <3>2 DEF Sched
    <3>4. \A k : Spared(k)
      BY <1>1, <2>2, Counts DEF Forms, Spared
    <3>5. \A s \in Ranks : \A k \in Owned(s)' : k.kind = "CONTACT" => k \in Owned(s)
      <4>1. \A s \in Ranks : Owned(s)' = con'[s] /\ Owned(s) = con[s]
        BY <1>1, <2>1, <2>2 DEF Forms
      <4>2. c.kind # "CONTACT"
        BY <3>1
      <4> QED
        BY <3>1, <4>1, <4>2
    <3> QED
      BY <1>2, <3>2, <3>3, <3>4, <3>5
  <2> QED
    BY <1>3, <2>1, <2>2
<1>13. ASSUME NEW p \in Ranks, Keeps(p),
              ~ (\/ MigrateOut(p) \/ MigrateIn(p) \/ Manage(p) \/ CallbackReturn(p)
                 \/ UpdateConstraints(p) \/ \E c \in con[p] : DeleteConstraint(p, c))
       PROVE  Parted'
  <2>1. phase' \notin {"manage", "callback", "update", "partition", "balance", "import"}
    BY <1>13 DEF Keeps, Settle, DropPending, GlueNew, Sparsify, Solve, Enter
  <2> QED
    BY <1>3, <2>1
<1>14. ASSUME NEW p \in Ranks, StepEnd(p) PROVE Parted'
  BY <1>3, <1>14 DEF StepEnd, Enter
<1> QED
  BY <1>4, <1>5, <1>6, <1>7, <1>8, <1>9, <1>10, <1>11, <1>12, <1>13, <1>14, NextIs

(* Removed identifiers are spare until callbacks take them. *)
LEMMA StepSpare ==
    ASSUME RInv, RInv', Known, Sets, Spare, [Next]_vars, Next => "bodcon" \notin failed PROVE Spare'
<1>1. Shape /\ Mail /\ Mail'
  BY RForms DEF RInv
<1>2. CASE phase' \notin {"manage", "callback"}
  BY <1>2 DEF Spare
<1>3. ASSUME phase \in {"manage", "callback"}, UNCHANGED dbdrem,
             \A q \in Ranks : sparecid[q] \cup IdsOf(con[q]) \subseteq sparecid'[q] \cup IdsOf(con'[q])
      PROVE  Spare'
  BY <1>3 DEF Spare, IdsOf
<1>4. CASE UNCHANGED vars
  BY <1>4 DEF vars, Spare, IdsOf
<1>5. CASE Partition
  BY <1>2, <1>5 DEF Partition
<1>6. CASE Exchange
  <2>1. /\ done = Ranks /\ done' = {} /\ UNCHANGED <<con, dbdrem, sparecid>> /\ phase' = NextPhase[phase]
        /\ phase \in DOMAIN NextPhase
    <3>1. done # {}
      BY <1>6, Counts DEF Exchange
    <3>2. phase \in DOMAIN NextPhase
      BY <1>1, <1>6, <3>1 DEF Exchange, Shape, TypeOK, Post
    <3> QED
      BY <1>6, <3>2 DEF Exchange, idVars
  <2>2. CASE phase' = "manage"
    <3>1. \A q, r \in Ranks : dbdrem'[q][r] = {}
      BY <1>1, <2>1, <2>2 DEF Mail, Scheduling
    <3> QED
      BY <3>1 DEF Spare
  <2>3. CASE phase' = "callback"
    <3>1. phase = "manage"
      <4>1. \A x \in DOMAIN NextPhase : NextPhase[x] = "callback" => x = "manage"
        BY DEF NextPhase
      <4> QED
        BY <2>1, <2>3, <4>1
    <3> QED
      BY <1>3, <2>1, <3>1
  <2> QED
    BY <1>2, <2>2, <2>3
<1>7. ASSUME NEW p \in Ranks, Manage(p) PROVE Spare'
  <2> DEFINE mine == UNION {Listed(p, b, con[p]) : b \in Got(p, "bodies")}
  <2>1. PICK broken \in SUBSET {c \in con[p] \ mine : c.kind \in {"RIGLNK", "FIXPNT"}} :
          /\ con' = [con EXCEPT ![p] = (@ \ mine) \ broken]
          /\ dbdrem' = [dbdrem EXCEPT ![p] = Scheduled(p, broken)]
          /\ Freed(p, mine \cup broken)
    BY <1>7 DEF Manage
  <2>2. phase = "manage" /\ p \notin done
    BY <1>7 DEF Manage, Enter
  <2> HIDE DEF mine
  <2>3. \A r \in Ranks : dbdrem[p][r] = {} /\ dbdrem'[p][r] \subseteq dbdrem[p][r] \cup IdsOf(broken)
    <3>1. \A r \in Ranks : dbdrem[p][r] = {}
      BY <1>1, <2>2 DEF Mail, Scheduling
    <3>2. \A r \in Ranks : dbdrem'[p][r] = dbdrem[p][r] \cup {c.id : c \in {d \in broken : r \in d.ext}}
      BY <1>1, <2>1 DEF Shape, TypeOK, Scheduled
    <3> QED
      BY <3>1, <3>2 DEF IdsOf
  <2>4. sparecid'[p] = sparecid[p] \cup IdsOf(mine \cup broken)
    BY <1>1, <2>1 DEF Freed, Shape, TypeOK
  <2>5. \A q \in Ranks \ {p} : con'[q] = con[q] /\ dbdrem'[q] = dbdrem[q] /\ sparecid'[q] = sparecid[q]
    BY <1>1, <2>1 DEF Shape, TypeOK, Freed
  <2>6. \A r \in Ranks : dbdrem'[p][r] \subseteq sparecid'[p]
    BY <2>3, <2>4 DEF IdsOf
  <2>7. \A q \in Ranks \ {p} : \A r \in Ranks : dbdrem'[q][r] \subseteq sparecid'[q] \cup IdsOf(con'[q])
    BY <2>2, <2>5 DEF Spare
  <2>8. \A q, r \in Ranks : dbdrem'[q][r] \subseteq sparecid'[q] \cup IdsOf(con'[q])
    BY <2>6, <2>7
  <2> QED
    BY <2>8 DEF Spare, IdsOf
<1>8. ASSUME NEW p \in Ranks, NEW c \in con[p], DeleteConstraint(p, c) PROVE Spare'
  <2>1. /\ phase = "callback" /\ UNCHANGED dbdrem
        /\ con' = [con EXCEPT ![p] = @ \ {c}] /\ sparecid' = [sparecid EXCEPT ![p] = @ \cup IdsOf({c})]
    BY <1>8 DEF DeleteConstraint, Enter, Freed
  <2>2. /\ con'[p] = con[p] \ {c} /\ sparecid'[p] = sparecid[p] \cup {c.id}
        /\ \A q \in Ranks \ {p} : con'[q] = con[q] /\ sparecid'[q] = sparecid[q]
    BY <1>1, <2>1 DEF Shape, TypeOK, IdsOf
  <2> QED
    BY <1>3, <2>1, <2>2 DEF IdsOf
<1>9. ASSUME NEW p \in Ranks, CallbackReturn(p) PROVE Spare'
  <2>1. phase = "callback" /\ UNCHANGED <<dbdrem, con, sparecid>>
    BY <1>9 DEF CallbackReturn, Enter, idVars
  <2> QED
    BY <1>3, <2>1 DEF IdsOf
<1>10. ASSUME NEW p \in Ranks, Inserts(p), phase = "callback" PROVE Spare'
  <2>1. PICK b \in Fixable : FixPoint(p, b)
    BY <1>10 DEF Inserts, PutPending, Detect, Enter
  <2>2. PICK i \in Ids :
          /\ \/ sparecid' = [sparecid EXCEPT ![p] = @ \ {i}]
             \/ UNCHANGED sparecid
          /\ con' = [con EXCEPT ![p] = @ \cup
               {[id |-> i, kind |-> "FIXPNT", master |-> b, slave |-> b, ext |-> {}, new |-> FALSE]}]
    BY <2>1 DEF FixPoint, Insert
  <2>3. /\ sparecid[p] \subseteq sparecid'[p] \cup {i} /\ con[p] \subseteq con'[p] /\ i \in IdsOf(con'[p])
        /\ \A q \in Ranks \ {p} : con'[q] = con[q] /\ sparecid'[q] = sparecid[q]
    <3> DEFINE made == [id |-> i, kind |-> "FIXPNT", master |-> b, slave |-> b, ext |-> {}, new |-> FALSE]
    <3>1. made.id = i
      OBVIOUS
    <3> HIDE DEF made
    <3>2. con' = [con EXCEPT ![p] = @ \cup {made}]
      BY <2>2 DEF made
    <3>3. con'[p] = con[p] \cup {made} /\ \A q \in Ranks \ {p} : con'[q] = con[q]
      BY <1>1, <3>2 DEF Shape, TypeOK
    <3>4. /\ sparecid[p] \subseteq sparecid'[p] \cup {i}
          /\ \A q \in Ranks \ {p} : sparecid'[q] = sparecid[q]
      BY <1>1, <2>2 DEF Shape, TypeOK
    <3>5. i \in IdsOf(con'[p])
      BY <3>1, <3>3 DEF IdsOf
    <3> QED
      BY <3>3, <3>4, <3>5
  <2>4. UNCHANGED dbdrem
    BY <2>1 DEF FixPoint
  <2> QED
    BY <1>3, <1>10, <2>3, <2>4 DEF IdsOf
<1>11. ASSUME NEW p \in Ranks, Inserts(p), phase # "callback" PROVE Spare'
  BY <1>2, <1>11, BlockStays
<1>12. ASSUME NEW p \in Ranks, StepEnd(p) PROVE Spare'
  BY <1>2, <1>12 DEF StepEnd, Enter
<1>13. ASSUME NEW p \in Ranks, Keeps(p),
              ~ (Manage(p) \/ CallbackReturn(p) \/ \E c \in con[p] : DeleteConstraint(p, c))
       PROVE  Spare'
  <2>1. phase' \notin {"manage", "callback"}
    BY <1>13 DEF Keeps, MigrateOut, MigrateIn, Settle, DropPending, GlueNew, Sparsify, Solve,
                 UpdateConstraints, Enter
  <2> QED
    BY <1>2, <2>1
<1> QED
  BY <1>4, <1>5, <1>6, <1>7, <1>8, <1>9, <1>10, <1>11, <1>12, <1>13, NextIs

(* The four are kept together. *)
LEMMA StepTimely ==
    ASSUME RInv, RInv', Attached, Sets, Timely, [Next]_vars, Next => "bodcon" \notin failed
    PROVE  Timely'
<1>1. Known /\ Single /\ Leaving /\ Fitting /\ Parted /\ Spare
  BY DEF Attached, Timely
<1>2. Leaving'
  BY <1>1, StepLeaving
<1>3. Fitting'
  BY <1>1, StepFitting
<1>4. Parted'
  BY <1>1, StepParted
<1>5. Spare'
  BY <1>1, StepSpare
<1> QED
  BY <1>2, <1>3, <1>4, <1>5 DEF Timely

-----------------------------------------------------------------------------
(* An identifier that is given out is that of no constraint, and spare on no
   other rank. *)
LEMMA GivenOut ==
    ASSUME IInv, NEW p \in Ranks, NEW kind, NEW m, NEW s, NEW new, Insert(p, kind, m, s, new)
    PROVE  \E i \in Ids :
             /\ failed' = failed \cup
                  Clashing({[id |-> i, kind |-> kind, master |-> m, slave |-> s]}, bodcon[p])
             /\ \A q \in Ranks : \A c \in con[q] : c.id # i
             /\ \A q \in Ranks \ {p} : i \notin sparecid[q]
<1>1. PICK i \in Ids :
        /\ i \in sparecid[p] \/ i = cid[p]
        /\ failed' = failed \cup
             Clashing({[id |-> i, kind |-> kind, master |-> m, slave |-> s]}, bodcon[p])
  BY DEF Insert
<1>2. I!IInv /\ p \in I!Ranks /\ I!Ranks = Ranks
  BY DEF IInv, I!Ranks, Ranks
<1>3. CASE i \in sparecid[p]
  <2>1. \A q \in Ranks : i \notin Live[q] /\ (q # p => i \notin sparecid[q])
    BY <1>2, <1>3 DEF I!IInv, I!UniqueIds
  <2> QED
    BY <1>1, <2>1 DEF Live, IdsOf
<1>4. CASE i = cid[p]
  <2>1. \A q \in Ranks : i \notin I!Held(q)
    BY <1>2, <1>4, Counts, I!FreshUnused
  <2>2. \A q \in Ranks : i \notin Live[q] /\ i \notin sparecid[q]
    BY <2>1 DEF I!Held
  <2> QED
    BY <1>1, <2>2 DEF Live, IdsOf
<1> QED
  BY <1>1, <1>3, <1>4

(* A link or a point that is inserted meets no image that had its identifier. *)
LEMMA IdentifierFits ==
    ASSUME RInv, Spare, phase \in {"pending", "callback"}, NEW p \in Ranks, NEW i,
           \A q \in Ranks : \A c \in con[q] : c.id # i, \A q \in Ranks \ {p} : i \notin sparecid[q],
           NEW e \in Members(p)
    PROVE  e.id # i
<1> SUFFICES ASSUME e.id = i PROVE FALSE
  OBVIOUS
<1>1. Shape /\ Forms /\ Rest
  BY RForms
<1>2. e \in conext[p]
  BY DEF Members
<1>3. e \in View(p) /\ (e.id \in Awaited(p) \/ Image(e) \in Claims(p))
  <2>1. Seen(p) = conext[p]
    BY <1>1 DEF Forms
  <2> QED
    BY <1>1, <1>2, <2>1 DEF View, Rest, Matching, Matched
<1>4. CASE Image(e) \in Claims(p)
  <2>1. PICK q \in Ranks : \E c \in Owned(q) : Image(e) = Image(c)
    BY <1>4 DEF Claims
  <2>2. PICK c \in con[q] : Image(e) = Image(c)
    BY <1>1, <2>1 DEF Forms
  <2> QED
    BY <2>2, ImageSame
<1>5. CASE e.id \in Awaited(p)
  <2>1. PICK q \in Ranks : e.id \in Due(q, p)
    BY <1>5 DEF Awaited
  <2>2. phase = "callback" /\ e.id \in dbdrem[q][p]
    BY <1>1, <2>1 DEF Forms
  <2>3. e.id \in sparecid[q] \cup IdsOf(con[q])
    BY <2>2 DEF Spare
  <2>4. q = p
    BY <2>3 DEF IdsOf
  <2>5. e.rank = q
    BY <1>1, <1>3, <2>1, <2>2 DEF Rest, Ranked, RankOf
  <2> QED
    BY <1>1, <1>2, <2>4, <2>5 DEF Shape, TypeOK
<1> QED
  BY <1>3, <1>4, <1>5

(* So no insertion meets its like. *)
LEMMA InsertFits ==
    ASSUME RInv, Known, Sets, "bodcon" \notin failed, Spare, NEW p \in Ranks, Inserts(p)
    PROVE  "bodcon" \notin failed'
<1>1. Shape /\ IInv /\ Lined(Members(p), bodcon[p])
  BY RForms DEF RInv, Sets
<1>2. ASSUME NEW kind, kind # "CONTACT", NEW m, NEW s, NEW new, Insert(p, kind, m, s, new),
             phase \in {"pending", "callback"}
      PROVE  "bodcon" \notin failed'
  <2>1. PICK i \in Ids :
          /\ failed' = failed \cup
               Clashing({[id |-> i, kind |-> kind, master |-> m, slave |-> s]}, bodcon[p])
          /\ \A q \in Ranks : \A c \in con[q] : c.id # i
          /\ \A q \in Ranks \ {p} : i \notin sparecid[q]
    BY <1>1, <1>2, GivenOut
  <2> DEFINE made == [id |-> i, kind |-> kind, master |-> m, slave |-> s]
  <2>2. made.id = i /\ made.kind # "CONTACT" /\ failed' = failed \cup Clashing({made}, bodcon[p])
    BY <1>2, <2>1
  <2> HIDE DEF made
  <2>3. \A e \in Members(p) : e.id # i
    BY <1>2, <2>1, IdentifierFits
  <2>4. Fits({made}, Members(p))
    BY <2>2, <2>3 DEF Fits, Same
  <2>5. Clashing({made}, bodcon[p]) = {}
    BY <1>1, <2>4, FitsIn
  <2> QED
    BY <2>2, <2>5
<1>3. CASE PutPending(p)
  <2>1. \E l \in pend[p] : Insert(p, "RIGLNK", l[1], l[2], FALSE)
    BY <1>3, PendingFound
  <2>2. phase = "pending"
    BY <1>3 DEF PutPending, Enter
  <2> QED
    BY <1>2, <2>1, <2>2
<1>4. ASSUME NEW b \in Fixable, FixPoint(p, b) PROVE "bodcon" \notin failed'
  <2>1. Insert(p, "FIXPNT", b, b, FALSE) /\ phase = "callback"
    BY <1>4 DEF FixPoint, Enter
  <2> QED
    BY <1>2, <2>1
<1>5. ASSUME NEW t \in Touching, Detect(p, t) PROVE "bodcon" \notin failed'
  <2>1. PICK m \in t : \E s \in t \ {m} : t = {m, s} /\ Insert(p, "CONTACT", m, s, TRUE)
    BY <1>1, <1>5, DetectedIs
  <2>2. PICK s \in t \ {m} : t = {m, s} /\ Insert(p, "CONTACT", m, s, TRUE)
    BY <2>1
  <2>7. ~ \E d \in Members(p) : d.kind = "CONTACT" /\ BodiesOf(d) = t
    BY <1>1, <1>5, DetectedIs
  <2>3. PICK i \in Ids : failed' = failed \cup
               Clashing({[id |-> i, kind |-> "CONTACT", master |-> m, slave |-> s]}, bodcon[p])
    BY <1>1, <2>2, GivenOut
  <2> DEFINE made == [id |-> i, kind |-> "CONTACT", master |-> m, slave |-> s]
  <2>4. made.kind = "CONTACT" /\ BodiesOf(made) = t /\ failed' = failed \cup Clashing({made}, bodcon[p])
    BY <2>2, <2>3 DEF BodiesOf
  <2> HIDE DEF made
  <2>5. Fits({made}, Members(p))
    BY <2>4, <2>7 DEF Fits, Same
  <2>6. Clashing({made}, bodcon[p]) = {}
    BY <1>1, <2>5, FitsIn
  <2> QED
    BY <2>4, <2>6
<1> QED
  BY <1>3, <1>4, <1>5 DEF Inserts

(* Nor do images that come. *)
LEMMA GluedFits ==
    ASSUME RInv, Sets, "bodcon" \notin failed, Fitting, NEW p \in Ranks, Settle(p) \/ Sparsify(p)
    PROVE  "bodcon" \notin failed'
<1>1. phase \in {"settle", "sparsify"} /\ p \notin done
  BY DEF Settle, Sparsify, Enter
<1>2. Fits(Glued(p), Members(p))
  BY <1>1, ImportedIs DEF Fitting
<1>3. Clashing(Glued(p), bodcon[p]) = {}
  BY <1>2, FitsIn DEF Sets
<1>4. "bodcon" \notin Unknown(Got(p, "update") \cup Got(p, "remove"), Imported(p, conext[p]))
  BY FaultsTyped
<1> QED
  BY <1>3, <1>4 DEF Settle, Sparsify

(* A constraint that arrives meets its like only if it was given the identifier of
   an image whose removal arrives with it. *)
LEMMA ArrivalsFit ==
    ASSUME RInv, Single, Leaving, Parted, Sets, "bodcon" \notin failed, NEW p \in Ranks, MigrateIn(p),
           IdsOf(Got(p, "cons")) \cap Got(p, "remove") = {}
    PROVE  "bodcon" \notin failed'
<1> DEFINE came == Got(p, "cons")
           replaced == {e \in conext[p] : \E c \in came : c.id = e.id /\ p \in c.ext}
           cleared == Unlisted(replaced, bodcon[p])
           M == Members(p) \ replaced
<1>1. Shape /\ Forms /\ Rest /\ IInv
  BY RForms DEF RInv
<1>2. phase = "import" /\ p \notin done
  BY DEF MigrateIn, Enter
<1>3. \E ids : failed' = failed \cup Unknown(ids, conext[p]) \cup Clashing(came, cleared)
  BY DEF MigrateIn
<1>4. Arriving(p) = came
  BY <1>1, MigrateInFacts
<1>5. \A c \in came : c \in Owned(p) /\ c \notin con[p]
  BY <1>1, <1>4, OnePlace DEF Owned
<1>6. \A c \in came : c.id \notin Got(p, "remove")
  BY DEF IdsOf
<1>7. replaced \subseteq Members(p)
  BY DEF Members
<1>8. ASSUME NEW c \in came, NEW e \in M, Same(c, e) PROVE FALSE
  <2>1. CASE e \in con[p]
    BY <1>1, <1>5, <1>8, <2>1, SameOwner DEF Owned
  <2>2. CASE e \in Seen(p)
    <3>1. PICK q \in Ranks : \E d \in Owned(q) : Image(e) = Image(d) /\ (p \in d.ext \/ d \in con[q])
      BY <1>2, <2>2, SeenOwned
    <3>2. PICK d \in Owned(q) : Image(e) = Image(d) /\ (p \in d.ext \/ d \in con[q])
      BY <3>1
    <3>3. Same(c, d)
      BY <1>8, <3>2, SameImage
    <3>4. q = p /\ d = c
      BY <1>1, <1>5, <3>2, <3>3, SameOwner
    <3>5. p \in c.ext /\ c.id = e.id
      BY <1>5, <3>2, <3>4, ImageSame
    <3> QED
      BY <1>8, <2>2, <3>5 DEF Seen
  <2>3. CASE e \in conext[p] /\ e \notin Seen(p)
    <3>1. e.id \in Got(p, "remove") /\ Spared(e)
      BY <1>1, <1>2, <2>3, Counts DEF Seen, Stale, Forms, Spared
    <3>2. e.kind = "CONTACT" /\ c.kind = "CONTACT" /\ BodiesOf(c) = BodiesOf(e)
      BY <1>6, <1>8, <3>1 DEF Same
    <3>3. PICK q \in Ranks : e.id \in inbox[p][q].remove
      BY <3>1 DEF Got
    <3>4. e.id \in Sched(q, p)
      BY <1>2, <3>3 DEF Sched
    <3> QED
      BY <1>5, <2>3, <3>1, <3>2, <3>4 DEF Parted
  <2> QED
    BY <2>1, <2>2, <2>3 DEF Members
<1>9. \A c, d \in came : Same(c, d) => c = d
  BY <1>1, <1>5, SameOwner
<1> HIDE DEF came, replaced
<1>10. Lined(M, cleared)
  BY <1>7, UnlistedIs DEF Sets
<1> HIDE DEF M, cleared
<1>11. Clashing(came, cleared) = {}
  BY <1>8, <1>9, <1>10, FitsIn DEF Fits
<1> QED
  BY <1>3, <1>11, FaultsTyped

(* So the first insertion to meet its like is one of that case. *)
LEMMA StepTakes ==
    ASSUME RInv, RInv', Attached, Sets, Timely, BodyListsTake, [Next]_vars, Next => "bodcon" \notin failed
    PROVE  BodyListsTake'
<1>1. Shape /\ Mail /\ Shape' /\ Mail' /\ Known /\ Single /\ Leaving /\ Fitting /\ Parted /\ Spare
  BY RForms DEF RInv, IInv, Attached, Timely
<1>2. CASE UNCHANGED vars
  BY <1>2 DEF vars, BodyListsTake, Got, IdsOf
<1>3. ASSUME Next, "bodcon" \notin failed' PROVE BodyListsTake'
  BY <1>3 DEF BodyListsTake
<1>4. CASE Partition \/ Exchange
  <2>1. "bodcon" \notin failed
    BY <1>4 DEF Next
  <2>2. "bodcon" \notin failed'
    BY <1>4, <2>1 DEF Partition, Exchange
  <2> QED
    BY <1>3, <1>4, <2>2 DEF Next
<1>5. ASSUME NEW p \in Ranks, Keeps(p) PROVE BodyListsTake'
  <2>1. Next /\ "bodcon" \notin failed
    BY <1>5 DEF Next, Keeps
  <2>2. CASE MigrateIn(p)
    <3>1. CASE IdsOf(Got(p, "cons")) \cap Got(p, "remove") = {}
      BY <1>1, <1>3, <2>1, <2>2, <3>1, ArrivalsFit
    <3>2. CASE IdsOf(Got(p, "cons")) \cap Got(p, "remove") # {}
      <4>1. phase' = "import" /\ UNCHANGED inbox
        BY <2>2 DEF MigrateIn, Enter
      <4>2. Got(p, "cons")' = Got(p, "cons") /\ Got(p, "remove")' = Got(p, "remove")
        BY <4>1 DEF Got
      <4> QED
        BY <3>2, <4>1, <4>2 DEF BodyListsTake, IdsOf
    <3> QED
      BY <3>1, <3>2
  <2>3. CASE Settle(p) \/ Sparsify(p)
    BY <1>1, <1>3, <2>1, <2>3, GluedFits
  <2>4. CASE ~ (MigrateIn(p) \/ Settle(p) \/ Sparsify(p))
    <3>1. failed' \subseteq failed \cup {"conext"}
      BY <1>5, <2>4 DEF Keeps, MigrateOut, DropPending, GlueNew, Solve, Manage, DeleteConstraint,
                        CallbackReturn, UpdateConstraints, Lookup, Unknown
    <3> QED
      BY <1>3, <2>1, <3>1
  <2> QED
    BY <2>2, <2>3, <2>4
<1>6. ASSUME NEW p \in Ranks, Inserts(p) PROVE BodyListsTake'
  <2>1. Next /\ "bodcon" \notin failed
    BY <1>6, InsertsNext
  <2> QED
    BY <1>1, <1>3, <1>6, <2>1, InsertFits
<1>7. ASSUME NEW p \in Ranks, StepEnd(p) PROVE BodyListsTake'
  <2>1. Next /\ "bodcon" \notin failed
    BY <1>7 DEF Next
  <2>2. failed' \subseteq failed \cup {"conext"}
    BY <1>1, <1>7, StepEndFacts
  <2> QED
    BY <1>3, <2>1, <2>2
<1> QED
  BY <1>2, <1>4, <1>5, <1>6, <1>7, NextIs

(* Initially nothing is on its way. *)
LEMMA InitTimely == Init => Timely /\ BodyListsTake
<1> QED
  BY DEF Init, Timely, Leaving, Fitting, Parted, Spare, BodyListsTake

-----------------------------------------------------------------------------
(* All of it is an inductive invariant, as long as no step follows on one that
   has left a list incomplete. *)
Whole == RInv /\ Attached /\ Sets /\ Foreign /\ Timely /\ BodyListsTake

LEMMA StepWhole ==
    ASSUME Whole, Careful, [Next]_vars, Next => "bodcon" \notin failed PROVE Whole'
<1>0. RInv /\ Attached /\ Sets /\ Foreign /\ Timely /\ BodyListsTake
  BY DEF Whole
<1>1. RInv'
  BY <1>0, StepR
<1>2. Known' /\ Placed' /\ Spread' /\ Single' /\ "slave" \notin failed'
  BY <1>0, <1>1, StepKnown, StepPlaced, StepSpread, StepSingle, StepSlave DEF Attached
<1>3. Sets' /\ Foreign'
  BY <1>0, StepSets, StepForeign DEF Attached
<1>4. Timely' /\ BodyListsTake'
  BY <1>0, <1>1, StepTimely, StepTakes
<1> QED
  BY <1>1, <1>2, <1>3, <1>4 DEF Attached, Whole

(* The assertions are compiled in: the run ends with the first that fails. *)
LEMMA AssertionsEnd == ASSUME Debug, Next PROVE failed = {}
<1> QED
  BY DEF Next, Running, Enter, Partition, Exchange, MigrateOut, MigrateIn, Settle, PutPending,
         DropPending, Detect, GlueNew, Sparsify, Solve, StepEnd, Manage, FixPoint,
         DeleteConstraint, CallbackReturn, UpdateConstraints

LEMMA WholeInductive == ASSUME Careful, Debug PROVE Spec => []Whole
<1>1. Whole /\ [Next]_vars => Whole'
  BY AssertionsEnd, StepWhole
<1>2. Init => Whole
  BY InitR, InitAttached, InitSets, InitTimely DEF Whole
<1> QED
  BY <1>1, <1>2, PTL DEF Spec

(* For any number of ranks and constraints, ext and the external images agree
   whenever the ranks have settled what was exchanged, although an image is
   sent, renamed and removed by ranks that each see one end only: as long as no
   callback deletes a constraint that has images. *)
THEOREM ImagesStayMatched == ASSUME Careful, Debug PROVE Spec => []ImagesMatch
<1>1. Whole => ImagesMatch
  BY RImages DEF Whole
<1> QED
  BY <1>1, WholeInductive, PTL

(* For any number of ranks and any motion of the bodies, the rank that owns a
   constraint has a parent or a child of each of its bodies, whatever was
   exchanged; a link is never attached to a dummy. *)
THEOREM OwnersHaveBodies == ASSUME Careful, Debug PROVE Spec => []OwnerHasBodies
<1>1. Whole => OwnerHasBodies
  BY DEF Whole, Attached, Placed, Located, OwnerHasBodies, Settled
<1> QED
  BY <1>1, WholeInductive, PTL

(* No two ranks create a contact of the same pair of bodies, and none creates
   one that has left for another rank: contact_exists may look at its own
   constraints and images only. *)
THEOREM OneContact == ASSUME Careful, Debug PROVE Spec => []OneContactPerPair
<1>1. ASSUME Whole PROVE OneContactPerPair
  <2>0. RInv /\ Attached
    BY <1>1 DEF Whole
  <2> SUFFICES ASSUME NEW t \in Touching
      PROVE Cardinality({c \in UNION {con[r] : r \in Ranks} :
                       c.kind = "CONTACT" /\ BodiesOf(c) = t}) <= 1
    BY DEF OneContactPerPair
  <2> DEFINE S == {c \in UNION {con[r] : r \in Ranks} : c.kind = "CONTACT" /\ BodiesOf(c) = t}
  <2>1. \A c, d \in S : c = d
    <3> SUFFICES ASSUME NEW c \in S, NEW d \in S PROVE c = d
      OBVIOUS
    <3>1. PICK p \in Ranks : c \in con[p]
      OBVIOUS
    <3>2. PICK q \in Ranks : d \in con[q]
      OBVIOUS
    <3>3. c \in Owned(p) /\ d \in Owned(q)
      BY <3>1, <3>2 DEF Owned
    <3>4. c.id = d.id
      BY <2>0, <3>3 DEF Attached, Single
    <3> QED
      BY <2>0, <3>3, <3>4, OnePlace DEF RInv
  <2> HIDE DEF S
  <2>2. CASE S = {}
    BY <2>2, FS_EmptySet DEF S
  <2>3. ASSUME NEW c \in S PROVE Cardinality(S) <= 1
    <3>1. S = {c}
      BY <2>1, <2>3
    <3>2. Cardinality(S) = 1
      BY <3>1, FS_Singleton, Zenon
    <3> QED
      BY <3>2
  <2>4. Cardinality(S) <= 1
    BY <2>2, <2>3, FS_EmptySet
  <2> QED
    BY <2>4 DEF S
<1> QED
  BY <1>1, WholeInductive, PTL

(* For any number of ranks, no constraint that is created, and no image that
   comes, meets its like in a list of its bodies, whatever was removed, thinned
   out or taken back before: a constraint that arrives may, when it was given the
   identifier of an image whose removal arrives with it. *)
THEOREM ListsTake == ASSUME Careful, Debug PROVE Spec => []BodyListsTake
<1>1. Whole => BodyListsTake
  BY DEF Whole
<1> QED
  BY <1>1, WholeInductive, PTL

(* When the images are settled and when the problems have been solved, the list
   of a body names every constraint of it, on every rank with a copy of the body:
   of the runs that get there, since an assertion ends those in which an arriving
   constraint has met its like (ListsTake). *)
THEOREM AllHoldersSee == ASSUME Careful, Debug PROVE Spec => []HoldersSeeAll
<1>1. ASSUME Whole PROVE HoldersSeeAll
  <2>0. RInv /\ Attached /\ Sets /\ BodyListsTake
    BY <1>1 DEF Whole
  <2> SUFFICES ASSUME Settled({"settle", "solve"}), NEW b \in alive, NEW r \in Holders(b),
                      NEW q \in Ranks, NEW c \in con[q], b \in BodiesOf(c)
      PROVE  Image(c) \in bodcon[r][b]
    BY DEF HoldersSeeAll, With
  <2> SUFFICES \E e \in con[r] \cup conext[r] : Image(c) = Image(e)
    <3>1. b \in Bodies /\ r \in Ranks
      BY <2>0, RForms, HoldersTyped DEF Shape, TypeOK
    <3>2. bodcon[r][b] = {Image(e) : e \in With(b, con[r] \cup conext[r])}
      <4>1. "bodcon" \notin failed
        BY <2>0 DEF Settled, BodyListsTake
      <4> QED
        BY <2>0, <3>1, <4>1 DEF Sets, Lined, Members
    <3>3. ASSUME NEW e \in con[r] \cup conext[r], Image(c) = Image(e) PROVE e \in With(b, con[r] \cup conext[r])
      BY <3>3, ImageSame DEF With
    <3> QED
      BY <3>2, <3>3
  <2>1. phase \in {"settle", "solve"} /\ done = Ranks
    BY DEF Settled
  <2>2. Shape /\ Matching /\ c \in Sound
    BY <2>0, RForms DEF Rest, Shape
  <2>3. r \in Ranks
    BY <2>2, HoldersTyped DEF Shape, TypeOK
  <2>4. CASE q = r
    BY <2>4
  <2>5. CASE q # r
    <3>1. q \in Holders(b)
      BY <2>0, <2>1 DEF Attached, Placed, Located
    <3>2. c.ext = Beyond(q, c)
      BY <2>0, <2>1 DEF Attached, Spread
    <3>3. r \in c.ext
      BY <2>5, <3>1, <3>2 DEF Beyond, Remote
    <3>4. Settled({"settle", "pending", "solve", "manage", "callback", "update"})
      BY <2>1 DEF Settled
    <3>5. View(r) = conext[r] /\ Image(c) \in Claims(r)
      <4>1. Claims(r) = {g \in Images : \E s \in Ranks : \E d \in con[s] : r \in d.ext /\ g = Image(d)}
            /\ View(r) = conext[r]
        BY <2>0, <2>3, <3>4, SettledForms
      <4> QED
        BY <2>2, <3>3, <4>1, ImageTyped
    <3> QED
      BY <2>2, <2>3, <3>5 DEF Matching, Matched
  <2> QED
    BY <2>4, <2>5
<1> QED
  BY <1>1, WholeInductive, PTL

(* No update, image or removal that a rank receives names a constraint it does
   not have, whatever became of the constraint in between, and the slave of a
   pending link is found. *)
THEOREM LookupsFind == ASSUME Careful, Debug PROVE Spec => []LookupsSucceed
<1>1. Whole => LookupsSucceed
  BY RForms DEF Whole, Rest, Found, Attached, LookupsSucceed
<1> QED
  BY <1>1, WholeInductive, PTL
=============================================================================
