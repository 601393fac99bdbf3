------------------------------ MODULE Boundary ------------------------------
(***************************************************************************)
(* Owned constraints and their external images over the ranks, through     *)
(* DOM_Initialize, DOM_Update_Begin and DOM_Update_End (src/dom.c).        *)
(*                                                                         *)
(* A rank runs the code between two collective exchanges on its own: such  *)
(* a block is one action, taken once by every rank in a phase.  COMOBJSALL *)
(* returns only when every rank has packed, so no rank can enter the next  *)
(* phase before all have left this one: Exchange is that barrier.          *)
(*                                                                         *)
(* Bodies are reduced to where they are: the rank of the parent (home) and *)
(* the ranks their extents reach (box), redrawn at each balancing by the   *)
(* geometric partitioner, an external library.  Module BodyMigration has   *)
(* the bodies themselves.                                                  *)
(***************************************************************************)
EXTENDS Integers, FiniteSets, FiniteSetsExt, Functions

CONSTANTS
    NCpu,       \* dom->ncpu
    UIntMax,    \* UINT_MAX
    Bodies,     \* bodies inserted before the first step, and parts of them
    Touching,   \* sets of two bodies that may come into contact
    Links,      \* <<master, slave>> of the pending two-body constraints
    Fixable,    \* bodies to which a callback may attach a one-body constraint
    Lost,       \* bodies that may fall out of the scene extents
    Parts,      \* Parts[b]: the body made of b, in Bodies, when b cracks
    Deletable,  \* kinds of constraints the callback may DELETE
    Careful,    \* whether it spares those with images on other ranks
    Debug       \* DEBUG and PARDEBUG of Config.mak: ASSERT_DEBUG ends the run

Kinds == {"CONTACT", "RIGLNK", "FIXPNT"}

ASSUME BoundaryAssumption ==
    /\ NCpu \in Nat \ {0} /\ UIntMax \in Nat
    /\ \A t \in Touching : t \subseteq Bodies /\ IsFiniteSet(t) /\ Cardinality(t) = 2
    /\ \A l \in Links : l \in Bodies \X Bodies /\ l[1] # l[2]
    /\ Fixable \subseteq Bodies /\ Lost \subseteq Bodies
    /\ Deletable \subseteq Kinds
    /\ Careful \in BOOLEAN /\ Debug \in BOOLEAN
    /\ DOMAIN Parts \subseteq Bodies /\ Range(Parts) \subseteq Bodies \ DOMAIN Parts
    /\ \A b, d \in DOMAIN Parts : Parts[b] = Parts[d] => b = d
    \* The code warns that it does not transfer rigid links in parallel.
    /\ \A l \in Links : {l[1], l[2]} \cap (DOMAIN Parts \cup Range(Parts)) = {}

Ranks == 0 .. NCpu - 1
Ids == 1 .. UIntMax

VARIABLES
    phase,      \* the block the ranks are in
    done,       \* ranks that have finished their block of this phase
    boot,       \* TRUE while DOM_Initialize runs
    alive,      \* bodies in the domain
    home,       \* rank of the parent of a body (bod->rank)
    box,        \* ranks overlapped by the extents of a body
    cid, sparecid, \* identifier supply, as in ConstraintIds
    con,        \* dom->con of a rank: the constraints it owns
    conext,     \* dom->conext of a rank: images of constraints owned elsewhere
    bodcon,     \* bod->con of a rank's bodies: what their motion sums over
    dbdrem,     \* dom->dbd[].remove: removals scheduled by a rank, by target
    pend,       \* dom->pendingcons of a rank
    outbox,     \* packed by a rank in this phase, by destination
    inbox,      \* received by a rank in the last exchange, by sender
    failed      \* assertions that have failed

vars == <<phase, done, boot, alive, home, box, cid, sparecid, con, conext,
          bodcon, dbdrem, pend, outbox, inbox, failed>>

idVars == <<cid, sparecid>>
mapVars == <<alive, home, box>>

NoData == [cons |-> {}, glue |-> {}, update |-> {}, remove |-> {}, bodies |-> {}, parts |-> {}]
NoMail == [r \in Ranks |-> [q \in Ranks |-> NoData]]

BodiesOf(c) == {c.master, c.slave}
Image(c) == [id |-> c.id, kind |-> c.kind, master |-> c.master, slave |-> c.slave]
IdsOf(S) == {c.id : c \in S}
With(b, S) == {c \in S : b \in BodiesOf(c)}

Init ==
    /\ phase = "partition" /\ done = {} /\ boot = TRUE
    /\ alive = Bodies \ Range(Parts)
    /\ home = [b \in Bodies |-> 0]
    /\ box = [b \in Bodies |-> {0}]
    /\ cid = [r \in Ranks |-> r + 1]
    /\ sparecid = [r \in Ranks |-> {}]
    /\ con = [r \in Ranks |-> {}]
    /\ conext = [r \in Ranks |-> {}]
    /\ bodcon = [r \in Ranks |-> [b \in Bodies |-> {}]]
    /\ dbdrem = [r \in Ranks |-> [q \in Ranks |-> {}]]
    /\ pend = [r \in Ranks |-> Links]
    /\ outbox = NoMail /\ inbox = NoMail
    /\ failed = {}

-----------------------------------------------------------------------------
(* Where a body is: its parent rank, and its children on the ranks its extents
   reach and on the parent ranks of the bodies it is paired up with. *)
Paired(b) == {p \in Bodies : <<b, p>> \in Links \/ <<p, b>> \in Links}
(* Mutant: no child is sent to the rank of a paired up body. *)
HoldersByExtents(b) == {home[b]} \cup box[b]

Holders(b) == {home[b]} \cup box[b] \cup {home[p] : p \in Paired(b) \cap alive}

(* Mutant: a child lists only the other children, not the parent rank. *)
RemoteChildren(r, b) == IF r \in Holders(b) THEN Holders(b) \ {r, home[b]} ELSE {}

(* Mutant: the rank itself stays among the children of a child. *)
RemoteSelf(r, b) == IF r \in Holders(b) THEN Holders(b) ELSE {}

(* The remote ranks of a body as its copy on rank r lists them: bod->children,
   and bod->rank if the copy is a child; a dummy lists none. *)
Remote(r, b) == IF r \in Holders(b) THEN Holders(b) \ {r} ELSE {}
Beyond(r, c) == UNION {Remote(r, b) : b \in BodiesOf(c)}

(* Ranks on which the point of a constraint may lie: the point is inside of the
   extents of its bodies; two-body links follow the master. *)
Targets(c) ==
    IF c.kind = "RIGLNK" THEN {home[c.master]} ELSE box[c.master] \cap box[c.slave]

-----------------------------------------------------------------------------
(* Blocks and messages *)

(* A failed assertion ends the run.  Builds without DEBUG go on with a list of
   a body as SET_Insert has left it; the other failures end them, too. *)
Running == IF Debug THEN failed = {} ELSE failed \subseteq {"bodcon"}

Enter(r, p) == Running /\ phase = p /\ r \notin done
Leave(r) == done' = done \cup {r}
Send(r, data) == outbox' = [outbox EXCEPT ![r] = data]
Got(r, field) == UNION {inbox[r][q][field] : q \in Ranks}

(* ASSERT_DEBUG_EXT (con = MAP_Find (dom->conext, id), "Invalid constraint id") *)
Unknown(ids, images) == IF ids \subseteq IdsOf(images) THEN {} ELSE {"conext"}
Lookup(r, ids, images) == failed' = failed \cup Unknown(ids, images)

(* CONCMP, by which bod->con is sorted: contacts are told apart by what they
   join, other constraints by their identifiers *)
Same(c, e) == IF "CONTACT" \in {c.kind, e.kind}
              THEN c.kind = e.kind /\ BodiesOf(c) = BodiesOf(e)
              ELSE c.id = e.id

(* Constraints of S that are in the list of body b *)
Listed(r, b, S) == {c \in With(b, S) : Image(c) \in bodcon[r][b]}

(* SET_Insert of the constraints S into the lists of their bodies: nothing is
   inserted where the list has the same constraint already *)
Enlisted(S, lists) ==
    [b \in Bodies |-> lists[b] \cup
        {Image(c) : c \in {d \in With(b, S) : \A e \in lists[b] : ~ Same(d, e)}}]

(* SET_Delete of the constraints S from the lists of their bodies *)
Unlisted(S, lists) ==
    [b \in Bodies |-> {e \in lists[b] : \A d \in With(b, S) : ~ Same(d, e)}]

(* "Constraint %s with id %d already in body list" *)
Clashing(S, lists) ==
    IF \E b \in Bodies : \E c \in With(b, S) :
         \E e \in lists[b] \cup (With(b, S) \ {c}) : Same(c, e)
    THEN {"bodcon"} ELSE {}

(* ext_to_remove of the constraints S *)
Scheduled(r, S) == [q \in Ranks |-> dbdrem[r][q] \cup {c.id : c \in {d \in S : q \in d.ext}}]

(* DOM_Remove_Constraint of owned constraints: their identifiers are spare *)
Freed(r, S) == sparecid' = [sparecid EXCEPT ![r] = @ \cup IdsOf(S)]

(* insert with id generation: the first spare identifier or the next fresh one *)
Insert(r, kind, master, slave, new) ==
    \E i \in Ids :
        /\ IF sparecid[r] # {}
           THEN /\ i \in sparecid[r] /\ \A j \in sparecid[r] : i <= j
                /\ sparecid' = [sparecid EXCEPT ![r] = @ \ {i}]
                /\ UNCHANGED cid
           ELSE /\ i = cid[r]
                /\ cid[r] + NCpu < UIntMax
                /\ cid' = [cid EXCEPT ![r] = @ + NCpu]
                /\ UNCHANGED sparecid
        /\ con' = [con EXCEPT ![r] = @ \cup
             {[id |-> i, kind |-> kind, master |-> master, slave |-> slave,
               ext |-> {}, new |-> new]}]
        /\ LET made == [id |-> i, kind |-> kind, master |-> master, slave |-> slave]
           IN  /\ bodcon' = [bodcon EXCEPT ![r] = Enlisted({made}, @)]
               /\ failed' = failed \cup Clashing({made}, bodcon[r])

(* Images received to be inserted *)
Glued(r) ==
    UNION {{[id |-> g.id, kind |-> g.kind, master |-> g.master, slave |-> g.slave,
             rank |-> q] : g \in inbox[r][q].glue} : q \in Ranks}

(* insert_external_constraint: an image already mapped under its id is lost *)
Imported(r, images) == images \cup {e \in Glued(r) : e.id \notin IdsOf(images)}

(* Mutant: the update of an image keeps the rank it came from. *)
RerankedNever(r, images) == images

(* con->rank = recv->rank of the images that were updated *)
Reranked(r, images) ==
    {IF \E q \in Ranks : e.id \in inbox[r][q].update
     THEN [e EXCEPT !.rank = CHOOSE q \in Ranks : e.id \in inbox[r][q].update]
     ELSE e : e \in images}

-----------------------------------------------------------------------------
(* The partitioner redraws home and box for all ranks at once; every point of
   a constraint stays within the extents of its bodies.  children_migration_begin
   looks up in idtorank the rank of every body paired up with a local one. *)
Partition ==
    /\ Running /\ phase = "partition"
    /\ \E h \in [alive -> Ranks] : \E x \in [alive -> SUBSET Ranks] :
        /\ \A b \in alive : h[b] \in x[b]
        /\ home' = [b \in Bodies |-> IF b \in alive THEN h[b] ELSE home[b]]
        /\ box' = [b \in Bodies |-> IF b \in alive THEN x[b] ELSE {}]
    /\ \A r \in Ranks : \A c \in con[r] : Targets(c)' # {}
    /\ failed' = IF \E b \in alive : ~ Paired(b) \subseteq alive
                 THEN failed \cup {"idtorank"} ELSE failed
    /\ phase' = "balance"
    /\ UNCHANGED <<done, boot, alive, idVars, con, conext, bodcon, dbdrem, pend, outbox, inbox>>

(* Mutant: the scheduled removals are sent but not cleared. *)
MigrateOutUncleared(r) ==
    /\ Enter(r, "balance")
    /\ Lookup(r, Got(r, "update"), conext[r])
    /\ \E dest \in [con[r] -> Ranks] :
        /\ \A c \in con[r] : dest[c] \in Targets(c)
        /\ con' = [con EXCEPT ![r] = {c \in @ : dest[c] = r}]
        /\ bodcon' = [bodcon EXCEPT ![r] = Unlisted({c \in con[r] : dest[c] # r}, @)]
        /\ Send(r, [q \in Ranks |-> [NoData EXCEPT
                !.cons = {c \in con[r] : dest[c] = q /\ q # r},
                !.remove = dbdrem[r][q]]])
    /\ Leave(r)
    /\ UNCHANGED <<phase, boot, mapVars, idVars, conext, dbdrem, pend, inbox>>

(* domain_balancing up to its first COMOBJSALL: the points sent by
   update_external_constraint_points have arrived; constraints leave for the
   rank of their point with the scheduled removals in the same message. *)
MigrateOut(r) ==
    /\ Enter(r, "balance")
    /\ Lookup(r, Got(r, "update"), conext[r])
    /\ \E dest \in [con[r] -> Ranks] :
        /\ \A c \in con[r] : dest[c] \in Targets(c)
        /\ con' = [con EXCEPT ![r] = {c \in @ : dest[c] = r}]
        /\ bodcon' = [bodcon EXCEPT ![r] = Unlisted({c \in con[r] : dest[c] # r}, @)]
        /\ Send(r, [q \in Ranks |-> [NoData EXCEPT
                !.cons = {c \in con[r] : dest[c] = q /\ q # r},
                !.remove = dbdrem[r][q]]])
    /\ dbdrem' = [dbdrem EXCEPT ![r] = [q \in Ranks |-> {}]]
    /\ Leave(r)
    /\ UNCHANGED <<phase, boot, mapVars, idVars, conext, pend, inbox>>

(* Mutant: the image goes after the constraint that replaces it has come. *)
MigrateInReplacing(r) ==
    LET came == Got(r, "cons")
        replaced == {e \in conext[r] : \E c \in came : c.id = e.id /\ r \in c.ext}
        drop == {c.id : c \in {d \in came : r \in d.ext}} \cup Got(r, "remove")
        own == con[r] \cup {[c EXCEPT !.ext = @ \ {r}] : c \in came}
        cleared == bodcon[r]
    IN  /\ Enter(r, "import")
        /\ failed' = failed \cup Unknown(drop, conext[r]) \cup Clashing(came, cleared)
        /\ conext' = [conext EXCEPT ![r] = {e \in @ : e.id \notin drop}]
        /\ bodcon' = [bodcon EXCEPT ![r] =
             Unlisted({e \in conext[r] : e.id \in drop}, Enlisted(came, cleared))]
        /\ con' = [con EXCEPT ![r] = {[c EXCEPT !.ext = Beyond(r, c)] : c \in own}]
        /\ Send(r, [q \in Ranks |-> [NoData EXCEPT
                !.glue = {Image(c) : c \in {d \in own : q \in Beyond(r, d) \ d.ext}},
                !.update = {c.id : c \in {d \in own : q \in Beyond(r, d) \cap d.ext}},
                !.remove = {c.id : c \in {d \in own : q \in d.ext \ Beyond(r, d)}}]])
        /\ Leave(r)
        /\ UNCHANGED <<phase, boot, mapVars, idVars, dbdrem, pend, inbox>>

(* domain_balancing_unpack, then old_boundary_constraints_migration: a
   constraint that arrives replaces its image here; then the scheduled
   removals; ext becomes the remote ranks of its bodies, and the difference to
   the old ext is sent out.  The code goes from sender to sender, with the
   removals of one before the constraints of the next: what could clash, an
   image and a constraint that has got its identifier, has one sender. *)
MigrateIn(r) ==
    LET came == Got(r, "cons")
        replaced == {e \in conext[r] : \E c \in came : c.id = e.id /\ r \in c.ext}
        drop == {c.id : c \in {d \in came : r \in d.ext}} \cup Got(r, "remove")
        own == con[r] \cup {[c EXCEPT !.ext = @ \ {r}] : c \in came}
        cleared == Unlisted(replaced, bodcon[r])
    IN  /\ Enter(r, "import")
        /\ failed' = failed \cup Unknown(drop, conext[r]) \cup Clashing(came, cleared)
        /\ conext' = [conext EXCEPT ![r] = {e \in @ : e.id \notin drop}]
        /\ bodcon' = [bodcon EXCEPT ![r] =
             Unlisted({e \in conext[r] : e.id \in Got(r, "remove")}, Enlisted(came, cleared))]
        /\ con' = [con EXCEPT ![r] = {[c EXCEPT !.ext = Beyond(r, c)] : c \in own}]
        /\ Send(r, [q \in Ranks |-> [NoData EXCEPT
                !.glue = {Image(c) : c \in {d \in own : q \in Beyond(r, d) \ d.ext}},
                !.update = {c.id : c \in {d \in own : q \in Beyond(r, d) \cap d.ext}},
                !.remove = {c.id : c \in {d \in own : q \in d.ext \ Beyond(r, d)}}]])
        /\ Leave(r)
        /\ UNCHANGED <<phase, boot, mapVars, idVars, dbdrem, pend, inbox>>

(* old_external_constraints_unpack *)
Settle(r) ==
    LET here == Imported(r, conext[r])
    IN  /\ Enter(r, "settle")
        /\ failed' = failed \cup Unknown(Got(r, "update") \cup Got(r, "remove"), here)
                           \cup Clashing(Glued(r), bodcon[r])
        /\ conext' = [conext EXCEPT ![r] =
             {e \in Reranked(r, here) : e.id \notin Got(r, "remove")}]
        /\ bodcon' = [bodcon EXCEPT ![r] =
             Unlisted({e \in here : e.id \in Got(r, "remove")}, Enlisted(Glued(r), @))]
        /\ Leave(r)
        /\ UNCHANGED <<phase, boot, mapVars, idVars, con, dbdrem, pend, outbox, inbox>>

-----------------------------------------------------------------------------
(* insert_pending_constraints: the parent rank of the master inserts, finding
   the slave among its parents or its children *)
PutPending(r) ==
    /\ Enter(r, "pending")
    /\ \E l \in pend[r] :
        /\ home[l[1]] = r
        /\ IF r \in Holders(l[2])
           THEN Insert(r, "RIGLNK", l[1], l[2], FALSE)
           ELSE failed' = failed \cup {"slave"} /\ UNCHANGED <<idVars, con, bodcon>>
        /\ pend' = [pend EXCEPT ![r] = @ \ {l}]
    /\ UNCHANGED <<phase, done, boot, mapVars, conext, dbdrem, outbox, inbox>>

(* ... and the other pending constraints are dropped *)
DropPending(r) ==
    /\ Enter(r, "pending")
    /\ \A l \in pend[r] : home[l[1]] # r
    /\ pend' = [pend EXCEPT ![r] = {}]
    /\ Leave(r)
    /\ UNCHANGED <<phase, boot, mapVars, idVars, con, conext, bodcon, dbdrem, outbox, inbox,
                   failed>>

(* Mutant: no contact is taken to exist but the owned ones. *)
DetectOwned(r, t) ==
    /\ Enter(r, "detect")
    /\ t \subseteq alive
    /\ LET common == {q \in Ranks : \A b \in t : q \in box[b]}
       IN  common # {} /\ r = Min(common)
    /\ ~ \E c \in con[r] : c.kind = "CONTACT" /\ BodiesOf(c) = t
    /\ LET m == CHOOSE b \in t : TRUE
       IN  \E s \in t \ {m} : Insert(r, "CONTACT", m, s, TRUE)
    /\ UNCHANGED <<phase, done, boot, mapVars, conext, dbdrem, pend, outbox, inbox>>

(* AABB_Update, local_create and overlap_create: two overlapping boxes are
   reported on their lowest common rank, and a contact is inserted unless
   the bodies there already have one *)
Detect(r, t) ==
    /\ Enter(r, "detect")
    /\ t \subseteq alive
    /\ LET common == {q \in Ranks : \A b \in t : q \in box[b]}
       IN  common # {} /\ r = Min(common)
    /\ LET m == CHOOSE b \in t : TRUE
       IN  /\ ~ \E e \in bodcon[r][m] : e.kind = "CONTACT" /\ BodiesOf(e) = t
           /\ \E s \in t \ {m} : Insert(r, "CONTACT", m, s, TRUE)
    /\ UNCHANGED <<phase, done, boot, mapVars, conext, dbdrem, pend, outbox, inbox>>

(* new_boundary_constraints_migration and domain_gluing_begin *)
GlueNew(r) ==
    LET fresh == {c \in con[r] : c.new}
    IN  /\ Enter(r, "detect")
        /\ con' = [con EXCEPT ![r] = (@ \ fresh) \cup
             {[c EXCEPT !.ext = Beyond(r, c)] : c \in fresh}]
        /\ Send(r, [q \in Ranks |-> [NoData EXCEPT
                !.glue = {Image(c) : c \in {d \in fresh : q \in Beyond(r, d)}}]])
        /\ Leave(r)
        /\ UNCHANGED <<phase, boot, mapVars, idVars, conext, bodcon, dbdrem, pend, inbox, failed>>

(* domain_gluing_begin_unpack, sparsify_contacts, domain_gluing_end: some of
   the new contacts are removed, and their images with them *)
Sparsify(r) ==
    /\ Enter(r, "sparsify")
    /\ conext' = [conext EXCEPT ![r] = Imported(r, @)]
    /\ failed' = failed \cup Clashing(Glued(r), bodcon[r])
    /\ \E del \in SUBSET {c \in con[r] : c.new} :
        /\ con' = [con EXCEPT ![r] = @ \ del]
        /\ bodcon' = [bodcon EXCEPT ![r] = Unlisted(del, Enlisted(Glued(r), @))]
        /\ Freed(r, del)
        /\ Send(r, [q \in Ranks |-> [NoData EXCEPT !.remove = Scheduled(r, del)[q]]])
    /\ dbdrem' = [dbdrem EXCEPT ![r] = [q \in Ranks |-> {}]]
    /\ Leave(r)
    /\ UNCHANGED <<phase, boot, mapVars, cid, pend, inbox>>

(* domain_gluing_end_unpack; CON_NEW is cleared; the local problem is solved
   and update_external_RUV sends the results along ext *)
Solve(r) ==
    /\ Enter(r, "solve")
    /\ Lookup(r, Got(r, "remove"), conext[r])
    /\ conext' = [conext EXCEPT ![r] = {e \in @ : e.id \notin Got(r, "remove")}]
    /\ bodcon' = [bodcon EXCEPT ![r] =
         Unlisted({e \in conext[r] : e.id \in Got(r, "remove")}, @)]
    /\ con' = [con EXCEPT ![r] = {[c EXCEPT !.new = FALSE] : c \in @}]
    /\ Send(r, [q \in Ranks |-> [NoData EXCEPT
            !.update = {c.id : c \in {d \in con[r] : q \in d.ext}}]])
    /\ Leave(r)
    /\ UNCHANGED <<phase, boot, mapVars, idVars, dbdrem, pend, inbox>>

(* Mutant: the parts keep the ranks the images were sent to. *)
TransferredWithExt(S) ==
    {[c EXCEPT !.master = Parts[@], !.slave = Parts[@]] : c \in {d \in S : d.kind # "CONTACT"}}

(* DOM_Transfer_Constraint of the constraints of bodies that crack: those of
   one body move to its part, and are without images; contacts stay behind *)
Transferred(S) ==
    {[c EXCEPT !.master = Parts[@], !.slave = Parts[@], !.ext = {}] :
        c \in {d \in S : d.kind # "CONTACT"}}

(* Mutant: the identifiers of the removed images are freed here, too. *)
RemoveBodiesFreeing(r, gone, cracked) ==
    LET attached == UNION {Listed(r, b, con[r] \cup conext[r]) : b \in gone}
    IN  /\ con' = [con EXCEPT ![r] = @ \ attached]
        /\ conext' = [conext EXCEPT ![r] = @ \ attached]
        /\ bodcon' = [bodcon EXCEPT ![r] = Unlisted(attached, @)]
        /\ Freed(r, attached)

(* DOM_Remove_Body of the bodies gone, of which some have cracked: every
   constraint in their lists here, owned or external, goes or is transferred;
   nothing is scheduled for the other ranks *)
RemoveBodies(r, gone, cracked) ==
    LET mine == UNION {Listed(r, b, con[r]) : b \in gone}
        images == UNION {Listed(r, b, conext[r]) : b \in gone}
        kept == Transferred(UNION {Listed(r, b, mine) : b \in cracked})
    IN  /\ con' = [con EXCEPT ![r] = (@ \ mine) \cup kept]
        /\ conext' = [conext EXCEPT ![r] = @ \ images]
        /\ bodcon' = [bodcon EXCEPT ![r] = Enlisted(kept, Unlisted(mine \cup images, @))]
        /\ sparecid' = [sparecid EXCEPT ![r] = @ \cup (IdsOf(mine) \ IdsOf(kept))]

(* DOM_Update_End up to manage_bodies: parents out of the scene are removed,
   then those that crack; their body ids are broadcast *)
StepEnd(r) ==
    /\ Enter(r, "finish")
    /\ Lookup(r, Got(r, "update"), conext[r])
    /\ \E out \in SUBSET {b \in Lost \cap alive : home[b] = r} :
      \E cracked \in SUBSET {b \in DOMAIN Parts \cap alive : home[b] = r /\ b \notin out} :
        /\ RemoveBodies(r, out \cup cracked, cracked)
        /\ Send(r, [q \in Ranks |-> [NoData EXCEPT
                !.bodies = out \cup cracked, !.parts = {Parts[b] : b \in cracked}]])
    /\ Leave(r)
    /\ UNCHANGED <<phase, boot, mapVars, cid, dbdrem, pend, inbox>>

(* manage_bodies after the exchange: the parts are inserted where their bodies
   cracked.  Then the removal of failed links, whose images are scheduled for
   removal at the next balancing. *)
Manage(r) ==
    LET gone == Got(r, "bodies")
        mine == UNION {Listed(r, b, con[r]) : b \in gone}
        images == UNION {Listed(r, b, conext[r]) : b \in gone}
        Maker(b) == CHOOSE q \in Ranks : b \in inbox[r][q].parts
    IN  /\ Enter(r, "manage")
        /\ alive' = (alive \ gone) \cup Got(r, "parts")
        /\ home' = [b \in Bodies |-> IF b \in Got(r, "parts") THEN Maker(b) ELSE home[b]]
        /\ box' = [b \in Bodies |-> IF b \in Got(r, "parts") THEN {Maker(b)} ELSE box[b]]
        /\ conext' = [conext EXCEPT ![r] = @ \ images]
        /\ \E broken \in SUBSET {c \in con[r] \ mine : c.kind \in {"RIGLNK", "FIXPNT"}} :
            /\ con' = [con EXCEPT ![r] = (@ \ mine) \ broken]
            /\ bodcon' = [bodcon EXCEPT ![r] = Unlisted(mine \cup images \cup broken, @)]
            /\ Freed(r, mine \cup broken)
            /\ dbdrem' = [dbdrem EXCEPT ![r] = Scheduled(r, broken)]
        /\ Leave(r)
        /\ UNCHANGED <<phase, boot, cid, pend, outbox, inbox, failed>>

(* FIX_POINT called by a Python callback, on the rank of the parent *)
FixPoint(r, b) ==
    /\ Enter(r, "callback")
    /\ b \in alive /\ home[b] = r
    /\ ~ \E q \in Ranks : \E c \in con[q] : c.kind = "FIXPNT" /\ c.master = b
    /\ Insert(r, "FIXPNT", b, b, FALSE)
    /\ UNCHANGED <<phase, done, boot, mapVars, conext, dbdrem, pend, outbox, inbox>>

(* DELETE (solfec, constraint) called by a Python callback.  Nothing is sent to
   the ranks with an image, and a careful callback would know of them. *)
DeleteConstraint(r, c) ==
    /\ Enter(r, "callback")
    /\ c.kind \in Deletable /\ (Careful => c.ext = {})
    /\ con' = [con EXCEPT ![r] = @ \ {c}]
    /\ bodcon' = [bodcon EXCEPT ![r] = Unlisted({c}, @)]
    /\ Freed(r, {c})
    /\ UNCHANGED <<phase, done, boot, mapVars, cid, conext, dbdrem, pend, outbox, inbox, failed>>

CallbackReturn(r) ==
    /\ Enter(r, "callback")
    /\ Leave(r)
    /\ UNCHANGED <<phase, boot, mapVars, idVars, con, conext, bodcon, dbdrem, pend, outbox, inbox,
                   failed>>

(* DOM_Update_Begin up to update_external_constraint_points: contacts that
   have separated are removed here and scheduled for removal elsewhere *)
UpdateConstraints(r) ==
    /\ Enter(r, "update")
    /\ \E gone \in SUBSET {c \in con[r] : c.kind = "CONTACT"} :
        /\ con' = [con EXCEPT ![r] = @ \ gone]
        /\ bodcon' = [bodcon EXCEPT ![r] = Unlisted(gone, @)]
        /\ Freed(r, gone)
        /\ dbdrem' = [dbdrem EXCEPT ![r] = Scheduled(r, gone)]
        /\ Send(r, [q \in Ranks |-> [NoData EXCEPT
                !.update = {c.id : c \in {d \in con[r] \ gone : q \in d.ext}}]])
    /\ Leave(r)
    /\ UNCHANGED <<phase, boot, mapVars, cid, conext, pend, inbox, failed>>

-----------------------------------------------------------------------------
NextPhase ==
    [balance |-> "import", import |-> "settle",
     settle |-> IF boot THEN "pending" ELSE "detect",
     pending |-> "update", detect |-> "sparsify", sparsify |-> "solve",
     solve |-> "finish", finish |-> "manage", manage |-> "callback",
     callback |-> "update", update |-> "partition"]

(* COMOBJSALL: what all have packed is delivered to all *)
Exchange ==
    /\ Running /\ done = Ranks
    /\ phase' = NextPhase[phase]
    /\ done' = {}
    /\ boot' = (boot /\ phase # "pending")
    /\ inbox' = [r \in Ranks |-> [q \in Ranks |-> outbox[q][r]]]
    /\ outbox' = NoMail
    /\ UNCHANGED <<mapVars, idVars, con, conext, bodcon, dbdrem, pend, failed>>

Next ==
    \/ Partition
    \/ Exchange
    \/ \E r \in Ranks :
        \/ MigrateOut(r) \/ MigrateIn(r) \/ Settle(r)
        \/ PutPending(r) \/ DropPending(r)
        \/ \E t \in Touching : Detect(r, t)
        \/ GlueNew(r) \/ Sparsify(r) \/ Solve(r) \/ StepEnd(r) \/ Manage(r)
        \/ \E b \in Fixable : FixPoint(r, b)
        \/ \E c \in con[r] : DeleteConstraint(r, c)
        \/ CallbackReturn(r) \/ UpdateConstraints(r)

Spec == Init /\ [][Next]_vars

-----------------------------------------------------------------------------
Constraint == [id : Ids, kind : Kinds, master : Bodies, slave : Bodies,
               ext : SUBSET Ranks, new : BOOLEAN]
External == [id : Ids, kind : Kinds, master : Bodies, slave : Bodies, rank : Ranks]
Images == [id : Ids, kind : Kinds, master : Bodies, slave : Bodies]

(* Type invariant.  Neither does a constraint list its own rank in ext, nor is
   an image kept on the rank that owns the constraint. *)
TypeOK ==
    /\ phase \in DOMAIN NextPhase \cup {"partition"}
    /\ done \subseteq Ranks /\ boot \in BOOLEAN /\ alive \subseteq Bodies
    /\ home \in [Bodies -> Ranks] /\ box \in [Bodies -> SUBSET Ranks]
    /\ cid \in [Ranks -> Nat \ {0}] /\ sparecid \in [Ranks -> SUBSET Ids]
    /\ con \in [Ranks -> SUBSET Constraint] /\ conext \in [Ranks -> SUBSET External]
    /\ bodcon \in [Ranks -> [Bodies -> SUBSET Images]]
    /\ dbdrem \in [Ranks -> [Ranks -> SUBSET Ids]] /\ pend \in [Ranks -> SUBSET Links]
    /\ \A r \in Ranks : /\ \A c \in con[r] : r \notin c.ext
                        /\ \A e \in conext[r] : e.rank # r
    /\ failed \subseteq {"bodcon", "conext", "slave", "idtorank"}

(* All ranks have settled what the last exchange brought and none has begun
   what the next one needs. *)
Settled(phases) == phase \in phases /\ done = Ranks

(* ext of a constraint and the external images of it agree: rank r holds an
   image of a constraint of rank q exactly if q lists r in its ext, or has
   scheduled the removal of that image for the next balancing.  Images are
   sent, re-ranked and removed as differences of two ext sets that may have
   been computed on two different ranks. *)
ImagesMatch ==
    Settled({"settle", "pending", "solve", "manage", "callback", "update"}) =>
        \A r \in Ranks : \A q \in Ranks \ {r} :
            IdsOf({e \in conext[r] : e.rank = q})
              = IdsOf({c \in con[q] : r \in c.ext}) \cup dbdrem[q][r]

(* "After this step all bodies contain sets of all old constraints", and when
   the local problems are solved, of the new ones, too: the list of a body, on
   every rank that has a copy of it, parent or child, names all constraints of
   the body, wherever they are owned.  The body's motion sums over the list. *)
HoldersSeeAll ==
    Settled({"settle", "solve"}) =>
        \A b \in alive : \A r \in Holders(b) : \A q \in Ranks :
            {Image(c) : c \in With(b, con[q])} \subseteq bodcon[r][b]

(* Images leave the lists of bodies in time: a constraint that is created, migrates or
   comes as an image meets its like in a list of its bodies, where SET_Insert would drop
   it, in one case only.  An identifier is spare before the removal of the images that
   had it is sent; when the constraint that was given it migrates in the message with that
   removal, it is inserted before the image goes. *)
BodyListsTake ==
    "bodcon" \in failed =>
        phase = "import" /\ \E r \in Ranks : IdsOf(Got(r, "cons")) \cap Got(r, "remove") # {}

(* An owned constraint is never attached to a dummy: its rank has a parent or
   a child of each of its bodies, two-body links included, for whose bodies
   the extents alone do not guarantee it. *)
OwnerHasBodies ==
    Settled({"import", "settle", "pending", "detect", "solve"}) =>
        \A r \in Ranks : \A c \in con[r] : \A b \in BodiesOf(c) : r \in Holders(b)

(* Two bodies are in contact at most once in the whole machine, although a
   contact may have left the rank on which their overlap is reported. *)
OneContactPerPair ==
    \A t \in Touching :
        Cardinality({c \in UNION {con[r] : r \in Ranks} :
                       c.kind = "CONTACT" /\ BodiesOf(c) = t}) <= 1

(* No message names a constraint its receiver does not have, and the slave of
   a pending link is found on the rank of the master. *)
LookupsSucceed == failed \cap {"conext", "slave"} = {}

(* The rank of every body paired up with a living one is known, so that
   "remove bodies falling out of the scene extents" does not end the run with
   "Inconsistent DOM->idtorank mapping". *)
PairedRanksKnown == "idtorank" \notin failed

(* ConstraintIds, seen from the constraints themselves: flight is what has
   been packed for a rank and not unpacked there. *)
Arriving(q) ==
    (UNION {outbox[r][q].cons : r \in Ranks})
      \cup IF phase = "import" /\ q \notin done
           THEN UNION {inbox[q][r].cons : r \in Ranks} ELSE {}

Live == [r \in Ranks |-> IdsOf(con[r])]
Flying == [r \in Ranks |-> IdsOf(Arriving(r))]

Identifiers == INSTANCE ConstraintIds WITH idc <- Live, flight <- Flying

(* Whatever the phases do, identifiers only live the life of ConstraintIds:
   its theorems (no identifier twice, none lost) hold of the whole domain. *)
IdentifiersRefined == Identifiers!Spec
=============================================================================
