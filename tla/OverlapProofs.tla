---------------------------- MODULE OverlapProofs ----------------------------
(***************************************************************************)
(* Proofs about OverlapCreate, for any number of threads and any reports,  *)
(* and about MemPool, the pool the contacts are allocated from, for every  *)
(* size of the blocks and every number of them.                            *)
(*                                                                         *)
(* That identifiers are distinct rests on the lock: cid is read by one     *)
(* step of insert and counted up by another, and only the holder of the    *)
(* lock is between the two (Locked).  Without OpenMP there is no lock, and *)
(* no other thread.  A chunk of the pool always has one owner and is zero  *)
(* when it is returned.                                                    *)
(***************************************************************************)
EXTENDS OverlapCreate, MemPool, FiniteSetTheorems, TLAPS

Places == {"create", "lock", "excluded", "insert", "count"}
Inside(t) == pc[t] \in {"excluded", "insert", "count"}

Typed ==
    /\ pc \in [Threads -> Places] /\ lock \in Threads \cup {None}
    /\ cid \in Nat \ {0} /\ con \subseteq Nat \X Pairs /\ adjacent \subseteq Pairs
    /\ todo \in [Threads -> Seq(Pairs)]

(* One thread at a time is between taking and leaving the lock. *)
Locked ==
    \A t \in Threads : Inside(t) =>
        /\ Omp => lock = t
        /\ \A u \in Threads \ {t} : ~ Inside(u)

(* The next identifier is new, but to the thread about to count it up. *)
Numbered ==
    \A c \in con : c[1] <= cid /\ (c[1] = cid => \E t \in Threads : pc[t] = "count")

IInv == Typed /\ Locked /\ Numbered /\ DistinctIds

-----------------------------------------------------------------------------
(* Without OpenMP there is one thread at most. *)
LEMMA Serial ==
    ASSUME ~ Omp, NEW t \in Threads, NEW u \in Threads
    PROVE  t = u
<1>1. IsFiniteSet(Threads) /\ Cardinality(Threads) \in Nat
  BY OverlapCreateAssumption, FS_CardinalityType
<1>2. SUFFICES ASSUME t # u PROVE FALSE
  OBVIOUS
<1>3. Cardinality({t, u}) = 2
  <2>1. IsFiniteSet({t}) /\ Cardinality({t}) = 1
    BY FS_Singleton
  <2>2. Cardinality({t} \cup {u}) = 2
    BY <1>2, <2>1, FS_AddElement
  <2>3. {t, u} = {t} \cup {u}
    OBVIOUS
  <2> QED
    BY <2>2, <2>3
<1>4. Cardinality({t, u}) <= Cardinality(Threads)
  BY <1>1, FS_Subset
<1> QED
  BY <1>1, <1>3, <1>4 DEF Omp

LEMMA InitInv == Init => IInv
<1> SUFFICES ASSUME Init PROVE IInv
  OBVIOUS
<1>1. todo \in [Threads -> Seq(Pairs)]
  BY OverlapCreateAssumption DEF Init
<1> QED
  BY <1>1 DEF Init, IInv, Typed, Places, Locked, Inside, Numbered, DistinctIds

(* The types are kept by every step. *)
LEMMA TypedStep ==
    ASSUME Typed, NEW t \in Threads, Step(t)
    PROVE  Typed'
<1>1. Working(t) => Pair(t) \in Pairs /\ Tail(todo[t]) \in Seq(Pairs)
  BY DEF Typed, Working, Pair
<1>2. CASE Exists(t) \/ Missing(t) \/ Exclude(t)
  BY <1>1, <1>2 DEF Typed, Exists, Missing, Exclude, Done, To, Places
<1>3. CASE Lock(t)
  BY <1>3 DEF Typed, Lock, To, Places
<1>4. CASE InsertStart(t)
  BY <1>1, <1>4 DEF Typed, InsertStart, To, Places
<1>5. CASE InsertEnd(t)
  <2>1. todo' \in [Threads -> Seq(Pairs)] /\ pc' \in [Threads -> Places]
    BY <1>1, <1>5 DEF Typed, InsertEnd, Done, To, Places
  <2>2. cid' \in Nat \ {0} /\ adjacent' \subseteq Pairs /\ lock' \in Threads \cup {None}
    BY <1>1, <1>5 DEF Typed, InsertEnd
  <2> QED
    BY <1>5, <2>1, <2>2 DEF Typed, InsertEnd
<1> QED
  BY <1>2, <1>3, <1>4, <1>5 DEF Step

(* Only a thread that finds the lock free comes inside. *)
LEMMA LockedStep ==
    ASSUME Typed, Locked, NEW t \in Threads, Step(t)
    PROVE  Locked'
<1>1. CASE Exists(t) \/ Missing(t)
  BY <1>1 DEF Exists, Missing, Done, To, Locked, Inside, Typed
<1>2. CASE Lock(t)
  <2>1. ASSUME NEW u \in Threads \ {t} PROVE ~ Inside(u)
    <3>1. CASE Omp
      <4>1. lock = None /\ u # None
        BY <1>2, <3>1, OverlapCreateAssumption DEF Lock
      <4> QED
        BY <3>1, <4>1 DEF Locked
    <3>2. CASE ~ Omp
      BY <2>1, <3>2, Serial
    <3> QED
      BY <3>1, <3>2
  <2> QED
    BY <1>2, <2>1 DEF Lock, To, Locked, Inside, Typed, Omp
<1>3. CASE Exclude(t) \/ InsertStart(t)
  BY <1>3 DEF Exclude, InsertStart, Done, To, Locked, Inside, Typed
<1>4. CASE InsertEnd(t)
  BY <1>4 DEF InsertEnd, Done, To, Locked, Inside, Typed
<1> QED
  BY <1>1, <1>2, <1>3, <1>4 DEF Step

(* insert takes a new identifier, and the next one is larger. *)
LEMMA NumberedStep ==
    ASSUME IInv, NEW t \in Threads, Step(t)
    PROVE  Numbered' /\ DistinctIds'
<1>1. CASE Exists(t) \/ Missing(t) \/ Lock(t) \/ Exclude(t)
  <2>1. UNCHANGED <<cid, con>> /\ \A u \in Threads : pc[u] = "count" => pc'[u] = "count"
    BY <1>1 DEF Exists, Missing, Lock, Exclude, Done, To, IInv, Typed
  <2> QED
    BY <2>1 DEF IInv, Numbered, DistinctIds
<1>2. CASE InsertStart(t)
  <2>1. \A u \in Threads : pc[u] # "count"
    BY <1>2 DEF IInv, Locked, Inside, InsertStart
  <2>2. \A c \in con : c[1] \in Nat /\ c[1] < cid
    BY <2>1 DEF IInv, Typed, Numbered
  <2>3. con' = con \cup {<<cid, Pair(t)>>} /\ cid' = cid /\ pc'[t] = "count"
    BY <1>2 DEF InsertStart, To, IInv, Typed
  <2>4. cid \in Nat /\ <<cid, Pair(t)>>[1] = cid
    BY DEF IInv, Typed
  <2>5. \A c \in con' : c[1] <= cid
    BY <2>2, <2>3, <2>4
  <2>6. Numbered'
    BY <2>3, <2>5 DEF Numbered
  <2>7. \A c \in con : c[1] # cid
    BY <2>2, <2>4
  <2> QED
    BY <2>3, <2>4, <2>6, <2>7 DEF IInv, DistinctIds
<1>3. CASE InsertEnd(t)
  <2>1. cid' = cid + 1 /\ con' = con /\ cid \in Nat
    BY <1>3 DEF InsertEnd, IInv, Typed
  <2>2. \A c \in con : c[1] \in Nat /\ c[1] <= cid
    BY DEF IInv, Typed, Numbered
  <2> QED
    BY <2>1, <2>2 DEF IInv, Numbered, DistinctIds
<1> QED
  BY <1>1, <1>2, <1>3 DEF Step

LEMMA StepInv == IInv /\ [Next]_vars => IInv'
<1> SUFFICES ASSUME IInv, [Next]_vars PROVE IInv'
  OBVIOUS
<1>1. CASE UNCHANGED vars
  BY <1>1 DEF vars, IInv, Typed, Locked, Inside, Numbered, DistinctIds
<1>2. ASSUME NEW t \in Threads, Step(t) PROVE IInv'
  BY <1>2, TypedStep, LockedStep, NumberedStep DEF IInv
<1> QED
  BY <1>1, <1>2 DEF Next

LEMMA Inductive == Spec => []IInv
<1> QED
  BY InitInv, StepInv, PTL DEF Spec

(* Contacts have different identifiers, for any number of threads and any
   reports in any order, excluded pairs included. *)
THEOREM ThreadsNumberApart == Spec => []DistinctIds
<1>1. IInv => DistinctIds
  BY DEF IInv
<1> QED
  BY <1>1, Inductive, PTL

-----------------------------------------------------------------------------
(* What one thread alone has listed is what it has created, and what it is
   about to create is not listed. *)
Alone ==
    /\ \A c \in con : c[2] \in adjacent
                      \/ \E t \in Threads : pc[t] = "count" /\ Working(t) /\ c[2] = Pair(t)
    /\ \A t \in Threads : Working(t) /\ pc[t] \in {"lock", "excluded", "insert"} =>
                             Pair(t) \notin adjacent /\ ~ \E u \in Threads : pc[u] = "count"

(* Without OpenMP a pair is in contact once however often it is reported:
   contact_exists sees all that the thread has inserted. *)
THEOREM SerialCreatesOnce ==
    ASSUME ~ Omp
    PROVE  Spec => []OneContactPerPair
<1> DEFINE Inv == IInv /\ Alone /\ OneContactPerPair
<1>1. Init => Inv
  BY InitInv DEF Init, Alone, OneContactPerPair
<1>2. Inv /\ [Next]_vars => Inv'
  <2> SUFFICES ASSUME Inv, [Next]_vars PROVE Alone' /\ OneContactPerPair'
    BY StepInv
  <2>1. CASE UNCHANGED vars
    BY <2>1 DEF vars, Alone, OneContactPerPair, Working, Pair
  <2>2. ASSUME NEW t \in Threads, Step(t) PROVE Alone' /\ OneContactPerPair'
    <3>1. \A u \in Threads : u = t
      BY Serial
    <3>2. Writing(t) = {}
      BY <3>1 DEF Writing
    <3>3. CASE Exists(t) \/ Missing(t) \/ Lock(t) \/ Exclude(t)
      BY <2>2, <3>1, <3>2, <3>3
         DEF Exists, Missing, Lock, Exclude, Done, To, Alone, OneContactPerPair, Working, Pair,
             IInv, Typed
    <3>4. CASE InsertStart(t)
      BY <3>1, <3>4
         DEF InsertStart, To, Alone, OneContactPerPair, Working, Pair, IInv, Typed
    <3>5. CASE InsertEnd(t)
      BY <3>1, <3>5
         DEF InsertEnd, Done, To, Alone, OneContactPerPair, Working, Pair, IInv, Typed
    <3> QED
      BY <2>2, <3>3, <3>4, <3>5 DEF Step
  <2> QED
    BY <2>1, <2>2 DEF Next
<1> QED
  BY <1>1, <1>2, PTL DEF Spec
-----------------------------------------------------------------------------
(* Either there is no block, or freechunk and lastchunk lie in the last one,
   whose first chunk was given away as it was made. *)
Current ==
    \/ blocks = 0 /\ freechunk = NoChunk /\ lastchunk = NoChunk
    \/ /\ blocks \in 1 .. MaxBlocks
       /\ freechunk \in {blocks} \X (2 .. ChunksInBlock + 1)
       /\ lastchunk = <<blocks, ChunksInBlock + 1>>

(* Only chunks that were given to the program have been written to. *)
FreshClean == dirty \subseteq used \cup Dead

PoolInv == PoolTypeOK /\ Current /\ OneOwner /\ FreshClean /\ ZeroedOnReturn

LEMMA PoolInitHolds == PoolInit => PoolInv
<1> SUFFICES ASSUME PoolInit PROVE PoolInv
  OBVIOUS
<1> USE MemPoolAssumption DEF PoolInit, NoChunk
<1>1. PoolTypeOK
  BY DEF PoolTypeOK, Chunks
<1>2. Dead = {} /\ Fresh = {}
  BY DEF Dead, Fresh, Chunks
<1>3. {c \in Chunks : c[1] <= blocks} = {}
  BY DEF Chunks
<1> QED
  BY <1>1, <1>2, <1>3 DEF PoolInv, Current, OneOwner, FreshClean, ZeroedOnReturn

(* The head of the list of freed chunks is taken off it and out of Dead. *)
LEMMA TakeHead ==
  ASSUME PoolInv, deadchunks # <<>>, deadchunks' = Tail(deadchunks)
  PROVE  /\ deadchunks[1] \in Dead
         /\ deadchunks' \in Seq(Chunks)
         /\ Dead' = Dead \ {deadchunks[1]}
         /\ \A i, j \in DOMAIN deadchunks' : deadchunks'[i] = deadchunks'[j] => i = j
<1> USE DEF PoolInv, PoolTypeOK, OneOwner
<1>1. deadchunks \in Seq(Chunks) /\ Len(deadchunks) \in Nat \ {0}
      /\ DOMAIN deadchunks = 1 .. Len(deadchunks)
  OBVIOUS
<1>2. /\ deadchunks' \in Seq(Chunks)
      /\ DOMAIN deadchunks' = 1 .. Len(deadchunks) - 1
      /\ \A i \in DOMAIN deadchunks' : deadchunks'[i] = deadchunks[i + 1]
  BY <1>1
<1>3. deadchunks[1] \in Dead
  BY <1>1 DEF Dead
<1>4. ASSUME NEW c \in Dead', c \notin Dead \ {deadchunks[1]} PROVE FALSE
  <2>1. PICK i \in DOMAIN deadchunks' : c = deadchunks[i + 1]
    BY <1>2, <1>4 DEF Dead
  <2>2. i + 1 \in DOMAIN deadchunks /\ i + 1 # 1 /\ 1 \in DOMAIN deadchunks
    BY <1>1, <1>2
  <2> QED
    BY <2>1, <2>2, <1>4 DEF Dead
<1>5. ASSUME NEW c \in Dead, c # deadchunks[1] PROVE c \in Dead'
  <2>1. PICK i \in DOMAIN deadchunks : c = deadchunks[i]
    BY <1>5 DEF Dead
  <2>2. i - 1 \in DOMAIN deadchunks' /\ deadchunks'[i - 1] = deadchunks[i]
    BY <1>1, <1>2, <1>5, <2>1
  <2> QED
    BY <2>1, <2>2 DEF Dead
<1>6. ASSUME NEW i \in DOMAIN deadchunks', NEW j \in DOMAIN deadchunks',
             deadchunks'[i] = deadchunks'[j]
      PROVE  i = j
  <2>1. i + 1 \in DOMAIN deadchunks /\ j + 1 \in DOMAIN deadchunks
    BY <1>1, <1>2
  <2>2. i + 1 = j + 1
    BY <2>1, <1>2, <1>6
  <2> QED
    BY <2>2, <1>1, <1>2
<1> QED
  BY <1>2, <1>3, <1>4, <1>5, <1>6

(* A chunk put before the list of freed chunks joins Dead. *)
LEMMA PutHead ==
  ASSUME PoolInv, NEW c \in Chunks, c \notin Dead, deadchunks' = <<c>> \o deadchunks
  PROVE  /\ deadchunks' \in Seq(Chunks)
         /\ Dead' = Dead \cup {c}
         /\ \A i, j \in DOMAIN deadchunks' : deadchunks'[i] = deadchunks'[j] => i = j
<1> USE DEF PoolInv, PoolTypeOK, OneOwner
<1>1. /\ deadchunks \in Seq(Chunks) /\ Len(deadchunks) \in Nat
      /\ DOMAIN deadchunks = 1 .. Len(deadchunks)
  OBVIOUS
<1>2. /\ deadchunks' \in Seq(Chunks)
      /\ DOMAIN deadchunks' = 1 .. Len(deadchunks) + 1
      /\ deadchunks'[1] = c
      /\ \A i \in DOMAIN deadchunks : deadchunks'[i + 1] = deadchunks[i]
  BY <1>1, SMTT(30)
<1>3. \A i \in DOMAIN deadchunks' : i # 1 => /\ i - 1 \in DOMAIN deadchunks
                                             /\ deadchunks'[i] = deadchunks[i - 1]
  <2> SUFFICES ASSUME NEW i \in DOMAIN deadchunks', i # 1
               PROVE  /\ i - 1 \in DOMAIN deadchunks
                      /\ deadchunks'[i] = deadchunks[i - 1]
    OBVIOUS
  <2>1. i - 1 \in DOMAIN deadchunks /\ (i - 1) + 1 = i
    BY <1>1, <1>2
  <2> QED
    BY <2>1, <1>2
<1>4. Dead' = Dead \cup {c}
  <2>1. ASSUME NEW x \in Dead' PROVE x \in Dead \cup {c}
    <3>1. PICK i \in DOMAIN deadchunks' : x = deadchunks'[i]
      BY <2>1 DEF Dead
    <3> QED
      BY <3>1, <1>2, <1>3 DEF Dead
  <2>2. ASSUME NEW x \in Dead PROVE x \in Dead'
    <3>1. PICK i \in DOMAIN deadchunks : x = deadchunks[i]
      BY <2>2 DEF Dead
    <3>2. i + 1 \in DOMAIN deadchunks' /\ deadchunks'[i + 1] = x
      BY <3>1, <1>1, <1>2
    <3> QED
      BY <3>2 DEF Dead
  <2>3. c \in Dead'
    <3>1. 1 \in DOMAIN deadchunks'
      BY <1>1, <1>2
    <3> QED
      BY <3>1, <1>2 DEF Dead
  <2> QED
    BY <2>1, <2>2, <2>3
<1>5. ASSUME NEW i \in DOMAIN deadchunks', NEW j \in DOMAIN deadchunks',
             deadchunks'[i] = deadchunks'[j]
      PROVE  i = j
  <2>1. CASE i = 1 /\ j = 1
    BY <2>1
  <2>2. CASE i = 1 /\ j # 1
    BY <2>2, <1>2, <1>3, <1>5 DEF Dead
  <2>3. CASE i # 1 /\ j = 1
    BY <2>3, <1>2, <1>3, <1>5 DEF Dead
  <2>4. CASE i # 1 /\ j # 1
    <3>1. i - 1 = j - 1
      BY <2>4, <1>3, <1>5
    <3> QED
      BY <3>1, <1>1, <1>2
  <2> QED
    BY <2>1, <2>2, <2>3, <2>4
<1> QED
  BY <1>2, <1>4, <1>5

LEMMA PoolNextHolds == PoolInv /\ [PoolNext]_poolVars => PoolInv'
<1> SUFFICES ASSUME PoolInv, [PoolNext]_poolVars PROVE PoolInv'
  OBVIOUS
<1> USE MemPoolAssumption DEF PoolInv
<1>1. CASE AllocDead
  <2>1. /\ deadchunks[1] \in Dead /\ deadchunks' \in Seq(Chunks)
        /\ Dead' = Dead \ {deadchunks[1]}
        /\ \A i, j \in DOMAIN deadchunks' : deadchunks'[i] = deadchunks'[j] => i = j
    BY <1>1, TakeHead DEF AllocDead
  <2>2. deadchunks[1] \in Chunks
    BY <2>1 DEF OneOwner
  <2>3. Fresh' = Fresh
    BY <1>1 DEF AllocDead, Fresh
  <2> QED
    BY <1>1, <2>1, <2>2, <2>3
    DEF AllocDead, Give, PoolTypeOK, Current, OneOwner, FreshClean, ZeroedOnReturn
<1>2. CASE AllocBlock
  <2> DEFINE new == <<blocks + 1, 1>>
  <2>1. new \in Chunks /\ blocks' = blocks + 1 /\ blocks + 1 \in 1 .. MaxBlocks
    BY <1>2 DEF AllocBlock, PoolTypeOK, Chunks
  <2>2. Dead' = Dead /\ Fresh = {}
    BY <1>2 DEF AllocBlock, Dead, Fresh, Current, NoChunk, Chunks
  <2>3. Fresh' = {c \in Chunks : c[1] = blocks + 1} \ {new}
    BY <1>2, <2>1 DEF AllocBlock, After, Fresh, Chunks
  <2>4. {c \in Chunks : c[1] <= blocks'} =
          {c \in Chunks : c[1] <= blocks} \cup {new} \cup Fresh'
    BY <2>1, <2>3 DEF Chunks, PoolTypeOK
  <2>5. new \notin used \cup Dead /\ Fresh' \cap (used \cup Dead) = {}
    BY <2>1, <2>3 DEF OneOwner, PoolTypeOK, Chunks
  <2>6. PoolTypeOK' /\ Current'
    BY <1>2, <2>1 DEF AllocBlock, Give, After, PoolTypeOK, Current
  <2>7. OneOwner'
    BY <1>2, <2>2, <2>3, <2>4, <2>5 DEF AllocBlock, Give, OneOwner
  <2> QED
    BY <1>2, <2>2, <2>5, <2>6, <2>7 DEF AllocBlock, Give, FreshClean, ZeroedOnReturn
<1>3. CASE AllocFails
  <2>1. Dead' = Dead /\ Fresh' = Fresh
    BY <1>3 DEF AllocFails, Dead, Fresh
  <2> QED
    BY <1>3, <2>1 DEF AllocFails, PoolTypeOK, Current, OneOwner, FreshClean, ZeroedOnReturn
<1>4. CASE AllocFresh
  <2>1. /\ blocks \in 1 .. MaxBlocks /\ freechunk[1] = blocks
        /\ freechunk[2] \in 2 .. ChunksInBlock
        /\ freechunk = <<blocks, freechunk[2]>>
    BY <1>4 DEF AllocFresh, Current, NoChunk
  <2>2. freechunk \in Fresh /\ freechunk \in Chunks
    BY <2>1 DEF Fresh, Chunks
  <2>3. Dead' = Dead
    BY <1>4 DEF AllocFresh, Dead
  <2>4. Fresh' = Fresh \ {freechunk}
    BY <1>4, <2>1 DEF AllocFresh, After, Fresh, Chunks
  <2>5. PoolTypeOK' /\ Current'
    BY <1>4, <2>1, <2>2 DEF AllocFresh, Give, After, PoolTypeOK, Current
  <2> QED
    BY <1>4, <2>2, <2>3, <2>4, <2>5 DEF AllocFresh, Give, OneOwner, FreshClean, ZeroedOnReturn
<1>5. ASSUME NEW c \in used, MEM_Free(c) PROVE PoolInv'
  <2>1. c \in Chunks /\ c \notin Dead
    BY DEF PoolTypeOK, OneOwner
  <2>2. /\ deadchunks' \in Seq(Chunks) /\ Dead' = Dead \cup {c}
        /\ \A i, j \in DOMAIN deadchunks' : deadchunks'[i] = deadchunks'[j] => i = j
    BY <1>5, <2>1, PutHead DEF MEM_Free
  <2>3. Fresh' = Fresh
    BY <1>5 DEF MEM_Free, Fresh
  <2> QED
    BY <1>5, <2>1, <2>2, <2>3
    DEF MEM_Free, PoolTypeOK, Current, OneOwner, FreshClean, ZeroedOnReturn
<1>6. ASSUME NEW c \in used, Write(c) PROVE PoolInv'
  <2>1. Dead' = Dead /\ Fresh' = Fresh
    BY <1>6 DEF Write, Dead, Fresh
  <2> QED
    BY <1>6, <2>1 DEF Write, PoolTypeOK, Current, OneOwner, FreshClean, ZeroedOnReturn
<1>7. CASE MEM_Release
  <2>1. Dead' = {} /\ Fresh' = {}
    BY <1>7 DEF MEM_Release, Dead, Fresh, NoChunk, Chunks
  <2>2. {c \in Chunks : c[1] <= blocks'} = {}
    BY <1>7 DEF MEM_Release, Chunks
  <2> QED
    BY <1>7, <2>1, <2>2
    DEF MEM_Release, NoChunk, PoolTypeOK, Current, OneOwner, FreshClean, ZeroedOnReturn
<1>8. CASE UNCHANGED poolVars
  <2>1. Dead' = Dead /\ Fresh' = Fresh
    BY <1>8 DEF poolVars, Dead, Fresh
  <2> QED
    BY <1>8, <2>1 DEF poolVars, PoolTypeOK, Current, OneOwner, FreshClean, ZeroedOnReturn
<1> QED
  BY <1>1, <1>2, <1>3, <1>4, <1>5, <1>6, <1>7, <1>8 DEF PoolNext

(* No chunk is ever lost or has two owners. *)
THEOREM ChunksHaveOneOwner == PoolSpec => []OneOwner
<1>1. PoolInv => OneOwner
  BY DEF PoolInv
<1> QED
  BY <1>1, PoolInitHolds, PoolNextHolds, PTL DEF PoolSpec

(* What MEM_Alloc returns is zero. *)
THEOREM ChunksReturnZeroed == PoolSpec => []ZeroedOnReturn
<1>1. PoolInv => ZeroedOnReturn
  BY DEF PoolInv
<1> QED
  BY <1>1, PoolInitHolds, PoolNextHolds, PTL DEF PoolSpec
=============================================================================
