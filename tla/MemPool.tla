------------------------------- MODULE MemPool -------------------------------
(***************************************************************************)
(* Memory pools (src/mem.c), from which sets, maps, boxes, constraints and *)
(* the blocks of the local dynamics are taken.  A pool cuts blocks into    *)
(* chunks, hands out chunks that were freed before it cuts new ones, and   *)
(* keeps the list of freed chunks inside the chunks themselves.            *)
(*                                                                         *)
(* A chunk is <<block, place>>; the address after the last chunk of a      *)
(* block is its place ChunksInBlock + 1.                                   *)
(***************************************************************************)
EXTENDS Integers, Sequences

CONSTANTS
    ChunksInBlock,  \* pool->chunksinblock
    MaxBlocks       \* blocks malloc can deliver; it fails afterwards

ASSUME MemPoolAssumption == ChunksInBlock \in Nat \ {0} /\ MaxBlocks \in Nat

NoChunk == <<0, 0>>     \* NULL
Chunks == (1 .. MaxBlocks) \X (1 .. ChunksInBlock)

VARIABLES
    blocks,     \* length of pool->blocks
    freechunk,  \* next chunk of the current block
    lastchunk,  \* the address after its last chunk
    deadchunks, \* list of freed chunks, the last freed first
    used,       \* chunks the program has been given and not freed
    dirty,      \* chunks whose memory is not all zero
    got         \* the chunk the last call of MEM_Alloc returned

poolVars == <<blocks, freechunk, lastchunk, deadchunks, used, dirty, got>>

(* MEM_Init *)
PoolInit ==
    /\ blocks = 0 /\ deadchunks = <<>>
    /\ freechunk = NoChunk /\ lastchunk = NoChunk
    /\ used = {} /\ dirty = {} /\ got = NoChunk

Give(c) == used' = used \cup {c} /\ got' = c
After(c) == <<c[1], c[2] + 1>>

(* Mutant: the list is taken without its head. *)
AllocDeadAgain ==
    /\ deadchunks # <<>>
    /\ Give(deadchunks[1])
    /\ dirty' = dirty \ {deadchunks[1]}
    /\ UNCHANGED <<blocks, freechunk, lastchunk, deadchunks>>

(* Mutant: a chunk from the list is not cleared. *)
AllocDeadAsIs ==
    /\ deadchunks # <<>>
    /\ Give(deadchunks[1])
    /\ deadchunks' = Tail(deadchunks)
    /\ UNCHANGED <<blocks, freechunk, lastchunk, dirty>>

(* MEM_Alloc from the list of freed chunks; the chunk is cleared *)
AllocDead ==
    /\ deadchunks # <<>>
    /\ Give(deadchunks[1])
    /\ deadchunks' = Tail(deadchunks)
    /\ dirty' = dirty \ {deadchunks[1]}
    /\ UNCHANGED <<blocks, freechunk, lastchunk>>

(* MEM_Alloc from a new block, which is cleared *)
AllocBlock ==
    /\ deadchunks = <<>> /\ freechunk = lastchunk
    /\ blocks < MaxBlocks
    /\ blocks' = blocks + 1
    /\ Give(<<blocks + 1, 1>>)
    /\ freechunk' = After(<<blocks + 1, 1>>)
    /\ lastchunk' = <<blocks + 1, ChunksInBlock + 1>>
    /\ UNCHANGED <<deadchunks, dirty>>

(* malloc fails *)
AllocFails ==
    /\ deadchunks = <<>> /\ freechunk = lastchunk /\ blocks = MaxBlocks
    /\ got' = NoChunk
    /\ UNCHANGED <<blocks, freechunk, lastchunk, deadchunks, used, dirty>>

(* MEM_Alloc from the current block *)
AllocFresh ==
    /\ deadchunks = <<>> /\ freechunk # lastchunk
    /\ Give(freechunk)
    /\ freechunk' = After(freechunk)
    /\ UNCHANGED <<blocks, lastchunk, deadchunks, dirty>>

(* MEM_Free: the link of the list is written into the chunk *)
MEM_Free(c) ==
    /\ used' = used \ {c}
    /\ deadchunks' = <<c>> \o deadchunks
    /\ dirty' = dirty \cup {c}
    /\ got' = NoChunk
    /\ UNCHANGED <<blocks, freechunk, lastchunk>>

(* the program writes into a chunk it was given *)
Write(c) ==
    /\ dirty' = dirty \cup {c}
    /\ got' = NoChunk
    /\ UNCHANGED <<blocks, freechunk, lastchunk, deadchunks, used>>

(* MEM_Release: all blocks go back to the system *)
MEM_Release ==
    /\ blocks' = 0 /\ deadchunks' = <<>>
    /\ freechunk' = NoChunk /\ lastchunk' = NoChunk
    /\ used' = {} /\ dirty' = {} /\ got' = NoChunk

PoolNext ==
    \/ AllocDead \/ AllocBlock \/ AllocFails \/ AllocFresh
    \/ \E c \in used : MEM_Free(c) \/ Write(c)
    \/ MEM_Release

PoolSpec == PoolInit /\ [][PoolNext]_poolVars

-----------------------------------------------------------------------------
Dead == {deadchunks[i] : i \in DOMAIN deadchunks}

(* chunks of the current block that have not been given yet *)
Fresh == {c \in Chunks : c[1] = freechunk[1] /\ c[2] >= freechunk[2]}

PoolTypeOK ==
    /\ blocks \in 0 .. MaxBlocks
    /\ freechunk \in (0 .. MaxBlocks) \X (0 .. ChunksInBlock + 1)
    /\ lastchunk \in (0 .. MaxBlocks) \X (0 .. ChunksInBlock + 1)
    /\ deadchunks \in Seq(Chunks)
    /\ used \subseteq Chunks /\ dirty \subseteq Chunks
    /\ got \in Chunks \cup {NoChunk}

(* A chunk of the blocks there are has exactly one owner: the program, the list
   of freed chunks, in which it is once, or the rest of the current block.
   Otherwise it is lost, or some allocations later two items of the trees share
   its memory. *)
OneOwner ==
    /\ used \cup Dead \cup Fresh = {c \in Chunks : c[1] <= blocks}
    /\ used \cap Dead = {} /\ used \cap Fresh = {} /\ Dead \cap Fresh = {}
    /\ \A i, j \in DOMAIN deadchunks : deadchunks[i] = deadchunks[j] => i = j

(* MEM_Alloc returns memory that is zero, as the code that fills in only some
   members of a new item takes for granted, also when the chunk has been in the
   list, which is linked through it. *)
ZeroedOnReturn == got # NoChunk => got \in used /\ got \notin dirty
=============================================================================
