---------------------------- MODULE OverlapCreate ----------------------------
(***************************************************************************)
(* Contact creation from the overlaps that the tasks of src/hyb.c report:  *)
(* contact_exists, overlap_create and insert (src/dom.c), under dom->lock  *)
(* when compiled with OpenMP.                                              *)
(*                                                                         *)
(* A pair stands for two (body, sgp) pairs, the key under which a contact  *)
(* is found in the con sets of its bodies; geometry has been settled when  *)
(* the model starts: Touching pairs are in contact, Excluded ones lie on   *)
(* surfaces excluded from contact.                                         *)
(***************************************************************************)
EXTENDS Integers, Sequences, FiniteSets

CONSTANTS
    Pairs,
    Touching,   \* pairs for which gobjcontact returns a state
    Excluded,   \* pairs whose surface pair is in dom->excluded
    Threads,    \* one if not compiled with OpenMP
    Works       \* choices of the reports of each thread, in order

None == 0    \* no thread

ASSUME OverlapCreateAssumption ==
    /\ Touching \subseteq Pairs /\ Excluded \subseteq Pairs
    /\ Threads \subseteq Nat \ {None} /\ IsFiniteSet(Threads)
    /\ \A w \in Works : w \in [Threads -> Seq(Pairs)]

(* compiled with OpenMP *)
Omp == Cardinality(Threads) > 1

VARIABLES
    todo,       \* reports left to each thread
    pc,         \* where each thread is in overlap_create
    lock,       \* holder of dom->lock
    cid,        \* next constraint identifier
    con,        \* dom->con: contacts inserted, <<id, pair>>
    adjacent    \* pairs found in the con sets of the bodies

vars == <<todo, pc, lock, cid, con, adjacent>>

Pair(t) == Head(todo[t])
Working(t) == todo[t] # <<>>

Init ==
    /\ todo \in Works
    /\ pc = [t \in Threads |-> "create"]
    /\ lock = None
    /\ cid = 1
    /\ con = {}
    /\ adjacent = {}

-----------------------------------------------------------------------------
To(t, place) == pc' = [pc EXCEPT ![t] = place]
Done(t) == todo' = [todo EXCEPT ![t] = Tail(@)] /\ To(t, "create")

(* contact_exists takes no lock: what another thread is about to add to the
   con sets may or may not be seen, and may hide what is there; that the con
   sets of other bodies are not disturbed is left open *)
Writing(t) == {u \in Threads \ {t} : pc[u] = "count"}

Exists(t) ==
    /\ Working(t) /\ pc[t] = "create"
    /\ Pair(t) \in adjacent \cup {Pair(u) : u \in Writing(t)}
    /\ Done(t)
    /\ UNCHANGED <<lock, cid, con, adjacent>>

Missing(t) ==
    /\ Working(t) /\ pc[t] = "create"
    /\ Pair(t) \notin adjacent \/ Writing(t) # {}
    /\ IF Pair(t) \in Touching THEN To(t, "lock") /\ UNCHANGED todo ELSE Done(t)
    /\ UNCHANGED <<lock, cid, con, adjacent>>

(* Mutant: the lock is not waited for. *)
LockIgnored(t) ==
    /\ Working(t) /\ pc[t] = "lock"
    /\ lock' = IF Omp THEN t ELSE lock
    /\ To(t, IF Pair(t) \in Excluded THEN "excluded" ELSE "insert")
    /\ UNCHANGED <<todo, cid, con, adjacent>>

(* omp_set_lock; then the surface pair is looked up in dom->excluded *)
Lock(t) ==
    /\ Working(t) /\ pc[t] = "lock"
    /\ Omp => lock = None
    /\ lock' = IF Omp THEN t ELSE lock
    /\ To(t, IF Pair(t) \in Excluded THEN "excluded" ELSE "insert")
    /\ UNCHANGED <<todo, cid, con, adjacent>>

(* return for an excluded pair *)
Exclude(t) ==
    /\ Working(t) /\ pc[t] = "excluded"
    /\ Done(t)
    /\ UNCHANGED <<lock, cid, con, adjacent>>

(* insert: the identifier is taken, then counted up; the contact is listed *)
InsertStart(t) ==
    /\ Working(t) /\ pc[t] = "insert"
    /\ con' = con \cup {<<cid, Pair(t)>>}
    /\ To(t, "count")
    /\ UNCHANGED <<todo, lock, cid, adjacent>>

(* Mutant: the lock is kept. *)
InsertEndLocked(t) ==
    /\ Working(t) /\ pc[t] = "count"
    /\ cid' = cid + 1
    /\ adjacent' = adjacent \cup {Pair(t)}
    /\ Done(t)
    /\ UNCHANGED <<lock, con>>

(* Mutant: the contact is not added to the con sets. *)
InsertEndUnlisted(t) ==
    /\ Working(t) /\ pc[t] = "count"
    /\ cid' = cid + 1
    /\ lock' = IF Omp THEN None ELSE lock
    /\ Done(t)
    /\ UNCHANGED <<con, adjacent>>

(* ... and SET_Insert adds it to the con sets, or leaves them alone if they
   have an equal member; omp_unset_lock *)
InsertEnd(t) ==
    /\ Working(t) /\ pc[t] = "count"
    /\ cid' = cid + 1
    /\ adjacent' = adjacent \cup {Pair(t)}
    /\ lock' = IF Omp THEN None ELSE lock
    /\ Done(t)
    /\ UNCHANGED con

Step(t) == Exists(t) \/ Missing(t) \/ Lock(t) \/ Exclude(t) \/ InsertStart(t) \/ InsertEnd(t)

Next == \E t \in Threads : Step(t)

(* the operating system runs every thread *)
Spec == Init /\ [][Next]_vars /\ \A t \in Threads : WF_vars(Step(t))

-----------------------------------------------------------------------------
Finished == \A t \in Threads : ~ Working(t)

(* Contacts created by different threads have different identifiers, although
   dom->cid is read and counted up in two steps. *)
DistinctIds == \A c, d \in con : c[1] = d[1] => c = d

(* The domain has one contact for a pair: what insert asserts before it adds
   to the con sets ("already in body list").  It is true of one thread; two
   threads that report a pair may both find it missing. *)
OneContactPerPair == \A c, d \in con : c[2] = d[2] => c = d

Reported(p) == \E t \in Threads : \E k \in DOMAIN todo[t] : todo[t][k] = p

(* A touching pair that is reported becomes a contact, unless it is excluded:
   no thread is kept from the lock for ever. *)
EveryTouchCreated == \A p \in Touching \ Excluded : Reported(p) ~> p \in adjacent

(* Excluding a surface pair disables contact for it and nothing else: the
   detection still comes to its end. *)
EveryReportHandled == <>Finished
=============================================================================
