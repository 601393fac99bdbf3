------------------------- MODULE GaussSeidelProofs -------------------------
(***************************************************************************)
(* Proofs about GaussSeidel, for any number of ranks, any graph, variant,  *)
(* direction of the sweeps and behaviour of MPI_Send.                      *)
(*                                                                         *)
(* All rests on what a rank has of the others at each stage (Has) and on   *)
(* what is under way: the channels hold the messages of this iteration     *)
(* that have been sent and not received, in the order of the stages        *)
(* (Channels), as no rank is ahead of one it needs a message from          *)
(* (Waited); the reactions of middle nodes are under way to ranks that     *)
(* have not come to the end of the loop (Middles).                         *)
(***************************************************************************)
EXTENDS GaussSeidel, FiniteSetTheorems, SequenceTheorems, NaturalsInduction, TLAPS

-----------------------------------------------------------------------------
(* What is chosen at the start: the owner and the neighbours of every node,
   the colors of the ranks and the sets that follow from them. *)
Neighbours ==
    /\ setup.owner \in [Nodes -> Ranks]
    /\ setup.adjext \in [Nodes -> SUBSET Nodes]
    /\ Variant \in {"FULL", "MIDDLE_JACOBI", "BOUNDARY_JACOBI"}
    /\ \A n \in Nodes : \A m \in AdjExt(n) : n \in AdjExt(m) /\ Owner(m) # Owner(n)

Sorted ==
    \A r \in Ranks :
        /\ Bottom(r) = {n \in Mine(r) : ToHigher(n) /\ ~ ToLower(n)}
        /\ Middle(r) = {n \in Mine(r) : ToHigher(n) /\ ToLower(n)}
        /\ Top(r) = {n \in Mine(r) : ToLower(n) /\ ~ ToHigher(n)}
        /\ Internal(r) = {n \in Mine(r) : AdjExt(n) = {}}

Colored ==
    /\ color \in [Ranks -> Int]
    /\ \A n \in Nodes : \A m \in AdjExt(n) : color[Owner(m)] # color[Owner(n)]

Fixed == Neighbours /\ Sorted /\ Colored

(* The stages a variant goes through. *)
Stages ==
    IF Variant = "BOUNDARY_JACOBI" THEN {"first", "update", "reduce", "end"}
    ELSE {"first", "recvfirst", "last", "recvlast", "reduce", "end"} \cup
         IF Variant = "FULL" THEN {"loop"} ELSE {"middle", "recvmiddle"}

Typed ==
    /\ iters \in Nat
    /\ pc \in [Ranks -> Stages]
    /\ R \in [Nodes -> Nat]
    /\ image \in [Ranks -> [Nodes -> Nat]]
    /\ fin \in [Ranks -> SUBSET Nodes]
    /\ left \in [Ranks -> SUBSET Nodes]
    /\ landed \in [Ranks -> SUBSET Nodes]
    /\ chan \in [Ranks -> [Ranks -> [Tags -> Seq(SUBSET Nodes)]]]
    /\ mail \subseteq Nodes \X Ranks \X Nat

(* Stages in which a rank has not sent its first, middle and last set yet, and
   stages in which it has not received those of others. *)
NoneSent == {"first"}
NoneReceived == {"first", "recvfirst"}
MiddleUnsent == {"first", "recvfirst", "middle"}
MiddleUnreceived == {"first", "recvfirst", "middle", "recvmiddle"}
LastSent == {"recvlast", "reduce", "end"}
LastReceived == {"reduce", "end"}

(* A message from q to r is under way. *)
FirstPending(q, r) == For(r, FirstSet(q)) # {} /\ pc[q] \notin NoneSent /\ pc[r] \in NoneReceived
MiddlePending(q, r) ==
    /\ Variant = "MIDDLE_JACOBI" /\ For(r, Middle(q)) # {}
    /\ pc[q] \notin MiddleUnsent /\ pc[r] \in MiddleUnreceived
LastPending(q, r) == For(r, LastSet(q)) # {} /\ pc[q] \in LastSent /\ pc[r] \notin LastReceived

Queue(a, X, b, Y) ==
    IF a THEN IF b THEN <<X, Y>> ELSE <<X>> ELSE IF b THEN <<Y>> ELSE <<>>

(* What is in the channels from q to r, message for message and in which order. *)
Channel(q, r) ==
    IF Variant = "BOUNDARY_JACOBI"
    THEN \A t \in Tags : chan[q][r][t] = <<>>
    ELSE /\ chan[q][r][FirstTag] =
                Queue(FirstPending(q, r), For(r, FirstSet(q)),
                      MiddlePending(q, r) /\ FirstTag = "BOTTOM", For(r, Middle(q)))
         /\ chan[q][r][LastTag] =
                Queue(MiddlePending(q, r) /\ LastTag = "BOTTOM", For(r, Middle(q)),
                      LastPending(q, r), For(r, LastSet(q)))

Channels == \A q, r \in Ranks : Channel(q, r)

(* Rank r is not ahead of q if it needs a message from it. *)
Behind(q, r) ==
    /\ For(r, FirstSet(q)) # {} /\ pc[r] \notin NoneReceived => pc[q] \notin NoneSent
    /\ Variant = "MIDDLE_JACOBI" /\ For(r, Middle(q)) # {} /\ pc[r] \notin MiddleUnreceived
         => pc[q] \notin MiddleUnsent
    /\ For(r, LastSet(q)) # {} /\ pc[r] \in LastReceived => pc[q] \in LastSent

Waited == Variant # "BOUNDARY_JACOBI" => \A q, r \in Ranks : Behind(q, r)

(* A middle node has been computed in this iteration. *)
Sent(n) == \/ pc[Owner(n)] \in {"last", "recvlast", "reduce", "end"}
           \/ pc[Owner(n)] = "loop" /\ n \notin left[Owner(n)]

(* A rank has the reaction of an external node, of this iteration. *)
Has(r, n) ==
    \/ n \in FirstSet(Owner(n)) /\ pc[r] \notin NoneReceived
    \/ n \in Middle(Owner(n)) /\ pc[r] \in {"last", "recvlast", "reduce", "end"}
    \/ n \in Middle(Owner(n)) /\ pc[r] = "loop" /\ n \in landed[r]
    \/ n \in LastSet(Owner(n)) /\ pc[r] \in LastReceived

Middles ==
    Variant = "FULL" =>
    /\ \A r \in Ranks : pc[r] = "loop" => left[r] \subseteq Middle(r)
    /\ \A r \in Ranks : pc[r] = "loop" => landed[r] \subseteq MidUpd(r)
    /\ \A r \in Ranks : \A n \in MidUpd(r) : Has(r, n) => Sent(n)
    /\ \A r \in Ranks : \A n \in Nodes : \A v \in Nat : <<n, r, v>> \in mail =>
         n \in MidUpd(r) /\ Sent(n) /\ ~ Has(r, n) /\ v = iters + 1

NoMailBy == Variant # "FULL" => mail = {}

(* What a rank has taken for done is there. *)
DoneIsThere ==
    Variant # "BOUNDARY_JACOBI" =>
    \A r \in Ranks : pc[r] # "first" =>
        /\ \A n \in fin[r] : n \in External(r) /\ Has(r, n)
        /\ \A n \in External(r) : Has(r, n) => n \in fin[r] \/ (pc[r] = "loop" /\ n \in Middle(Owner(n)))

(* The images of a rank are of this iteration if they have arrived, else of
   the one before. *)
Fresh ==
    Variant # "BOUNDARY_JACOBI" =>
    \A r \in Ranks : \A n \in External(r) : pc[r] # "end" =>
        image[r][n] = IF Has(r, n) THEN iters + 1 ELSE iters

(* A middle node is computed after the neighbours that precede it. *)
InOrder ==
    Variant = "FULL" =>
    \A m \in Nodes : m \in Middle(Owner(m)) /\ Sent(m) =>
        \A n \in AdjExt(m) : Precedes(n, m) /\ n \in Middle(Owner(n)) => Sent(n)

AllTogether == (\E r \in Ranks : pc[r] = "end") => \A r \in Ranks : pc[r] = "end"

Swept ==
    Variant = "BOUNDARY_JACOBI" =>
        /\ \A r \in Ranks : pc[r] = "update" => \A n \in Mine(r) : R[n] = iters + 1
        /\ \A r \in Ranks : pc[r] = "reduce" => \A n \in External(r) : image[r][n] = iters + 1

Rest == Middles /\ NoMailBy /\ DoneIsThere /\ Fresh /\ InOrder /\ AllTogether /\ Swept

IInv == Fixed /\ Typed /\ Channels /\ Waited /\ Rest
-----------------------------------------------------------------------------
(* What is chosen at the start and the iteration determine the sets, the tags
   and the order of nodes. *)
LEMMA SameSets ==
    ASSUME UNCHANGED <<fixed, iters>>
    PROVE  /\ Variant' = Variant /\ Stages' = Stages
           /\ FirstTag' = FirstTag /\ LastTag' = LastTag
           /\ \A r : /\ FirstSet(r)' = FirstSet(r) /\ LastSet(r)' = LastSet(r)
                     /\ Middle(r)' = Middle(r) /\ MidUpd(r)' = MidUpd(r)
                     /\ External(r)' = External(r) /\ Mine(r)' = Mine(r)
           /\ \A n : /\ Owner(n)' = Owner(n) /\ AdjExt(n)' = AdjExt(n)
                     /\ RanksOf(n)' = RanksOf(n)
           /\ \A m, n : Precedes(m, n)' = Precedes(m, n)
           /\ \A q, r : /\ For(r, FirstSet(q))' = For(r, FirstSet(q))
                        /\ For(r, Middle(q))' = For(r, Middle(q))
                        /\ For(r, LastSet(q))' = For(r, LastSet(q))
<1>1. Variant' = Variant /\ Backward' = Backward
  BY DEF fixed, Variant, Backward
<1>2. \A n : Owner(n)' = Owner(n) /\ AdjExt(n)' = AdjExt(n)
  BY DEF fixed, Owner, AdjExt
<1>3. \A n : RanksOf(n)' = RanksOf(n)
  BY <1>2 DEF RanksOf
<1>4. \A r : /\ Bottom(r)' = Bottom(r) /\ Middle(r)' = Middle(r) /\ Top(r)' = Top(r)
             /\ Mine(r)' = Mine(r)
  BY <1>2 DEF fixed, Bottom, Middle, Top, Mine
<1>5. \A r : MidUpd(r)' = MidUpd(r) /\ External(r)' = External(r)
  <2>1. TAKE r
  <2>2. \A n : (n \in Middle(Owner(n)))' <=> n \in Middle(Owner(n))
    BY <1>2, <1>4
  <2>3. MidUpd(r)' = MidUpd(r)
    BY <1>3, <2>2 DEF MidUpd
  <2>4. External(r)' = External(r)
    BY <1>2, <1>4 DEF External
  <2> QED
    BY <2>3, <2>4
<1>6. \A m, n : Precedes(m, n)' = Precedes(m, n)
  BY <1>1, <1>2 DEF Precedes, fixed
<1>8. \A r : FirstSet(r)' = FirstSet(r) /\ LastSet(r)' = LastSet(r)
  BY <1>1, <1>4 DEF FirstSet, LastSet
<1>7. \A q, r : /\ For(r, FirstSet(q))' = For(r, FirstSet(q))
                 /\ For(r, Middle(q))' = For(r, Middle(q))
                 /\ For(r, LastSet(q))' = For(r, LastSet(q))
  BY <1>3, <1>4, <1>8 DEF For
<1>9. FirstTag' = FirstTag /\ LastTag' = LastTag
  BY <1>1 DEF FirstTag, LastTag
<1>10. Stages' = Stages
  BY <1>1 DEF Stages
<1> QED
  BY <1>1, <1>2, <1>3, <1>4, <1>5, <1>6, <1>7, <1>8, <1>9, <1>10

(* What is chosen at the start stays as it is. *)
LEMMA FixedKept == Fixed /\ UNCHANGED fixed => Fixed'
<1> SUFFICES ASSUME Fixed, UNCHANGED fixed
             PROVE  Fixed'
  OBVIOUS
<1>1. Neighbours'
  BY DEF Fixed, Neighbours, fixed, Variant, Owner, AdjExt
<1>2. \A n : Owner(n)' = Owner(n) /\ AdjExt(n)' = AdjExt(n)
  BY DEF fixed, Owner, AdjExt
<1>3. \A n : RanksOf(n)' = RanksOf(n)
  BY <1>2 DEF RanksOf
<1>4. \A n : (ToLower(n)' <=> ToLower(n)) /\ (ToHigher(n)' <=> ToHigher(n))
  BY <1>2, <1>3 DEF ToLower, ToHigher, fixed
<1>5. Sorted'
  <2>1. SUFFICES ASSUME NEW r \in Ranks
        PROVE  /\ Bottom(r)' = {n \in Mine(r) : ToHigher(n) /\ ~ ToLower(n)}'
               /\ Middle(r)' = {n \in Mine(r) : ToHigher(n) /\ ToLower(n)}'
               /\ Top(r)' = {n \in Mine(r) : ToLower(n) /\ ~ ToHigher(n)}'
               /\ Internal(r)' = {n \in Mine(r) : AdjExt(n) = {}}'
    BY DEF Sorted
  <2>2. Mine(r)' = Mine(r)
    BY <1>2 DEF Mine
  <2>3. /\ Bottom(r)' = Bottom(r) /\ Middle(r)' = Middle(r)
        /\ Top(r)' = Top(r) /\ Internal(r)' = Internal(r)
    BY DEF fixed, Bottom, Middle, Top, Internal
  <2> QED
    BY <1>2, <1>4, <2>2, <2>3 DEF Fixed, Sorted
<1>6. Colored'
  BY <1>2 DEF Fixed, Colored, fixed
<1> QED
  BY <1>1, <1>5, <1>6 DEF Fixed

(* The nodes of a rank are in one set each; those that ranks need are in the
   first, the middle or the last one; the two tags are those of the patterns. *)
LEMMA Sides ==
    ASSUME Fixed
    PROVE  /\ \A r \in Ranks :
               /\ FirstSet(r) \subseteq Mine(r) /\ LastSet(r) \subseteq Mine(r)
               /\ Middle(r) \subseteq Mine(r)
               /\ FirstSet(r) \cap LastSet(r) = {} /\ Middle(r) \cap FirstSet(r) = {}
               /\ Middle(r) \cap LastSet(r) = {}
               /\ \A n \in Mine(r) : AdjExt(n) # {} =>
                    n \in FirstSet(r) \cup Middle(r) \cup LastSet(r)
           /\ FirstTag # LastTag /\ {FirstTag, LastTag} = Tags
<1>1. FirstTag # LastTag /\ {FirstTag, LastTag} = Tags
  BY DEF FirstTag, LastTag, Tags
<1>2. ASSUME NEW r \in Ranks
      PROVE  /\ FirstSet(r) \subseteq Mine(r) /\ LastSet(r) \subseteq Mine(r)
             /\ Middle(r) \subseteq Mine(r)
             /\ FirstSet(r) \cap LastSet(r) = {} /\ Middle(r) \cap FirstSet(r) = {}
             /\ Middle(r) \cap LastSet(r) = {}
             /\ \A n \in Mine(r) : AdjExt(n) # {} =>
                  n \in FirstSet(r) \cup Middle(r) \cup LastSet(r)
  <2>1. /\ Bottom(r) = {n \in Mine(r) : ToHigher(n) /\ ~ ToLower(n)}
        /\ Middle(r) = {n \in Mine(r) : ToHigher(n) /\ ToLower(n)}
        /\ Top(r) = {n \in Mine(r) : ToLower(n) /\ ~ ToHigher(n)}
    BY DEF Fixed, Sorted
  <2>2. ASSUME NEW n \in Mine(r), AdjExt(n) # {}
        PROVE  n \in Bottom(r) \cup Middle(r) \cup Top(r)
    <3>1. PICK m : m \in AdjExt(n)
      BY <2>2
    <3>2. Owner(m) \in RanksOf(n)
      BY <3>1 DEF RanksOf
    <3>3. ToLower(n) \/ ToHigher(n)
      BY <3>2 DEF ToLower, ToHigher
    <3> QED
      BY <2>1, <3>3
  <2> QED
    BY <2>1, <2>2 DEF FirstSet, LastSet
<1> QED
  BY <1>1, <1>2

(* Rank r has an image of a node if the node is a neighbour of one of its own. *)
LEMMA Images ==
    ASSUME Fixed, NEW r \in Ranks, NEW n
    PROVE  /\ n \in External(r) <=> n \in Nodes /\ r \in RanksOf(n)
           /\ n \in External(r) =>
                /\ n \in Nodes /\ Owner(n) \in Ranks /\ Owner(n) # r
                /\ n \in Mine(Owner(n)) /\ AdjExt(n) # {}
           /\ n \in MidUpd(r) <=> n \in External(r) /\ n \in Middle(Owner(n))
<1> USE DEF Fixed, Neighbours
<1>1. n \in External(r) => n \in Nodes /\ r \in RanksOf(n)
  <2>1. SUFFICES ASSUME n \in External(r) PROVE n \in Nodes /\ r \in RanksOf(n)
    OBVIOUS
  <2>2. PICK m \in Mine(r) : n \in AdjExt(m)
    BY <2>1 DEF External
  <2>3. m \in Nodes /\ Owner(m) = r
    BY DEF Mine
  <2>4. n \in Nodes /\ m \in AdjExt(n)
    BY <2>2, <2>3 DEF AdjExt
  <2> QED
    BY <2>3, <2>4 DEF RanksOf
<1>2. n \in Nodes /\ r \in RanksOf(n) => n \in External(r) /\ AdjExt(n) # {} /\ Owner(n) # r
  <2>1. SUFFICES ASSUME n \in Nodes, r \in RanksOf(n)
        PROVE  n \in External(r) /\ AdjExt(n) # {} /\ Owner(n) # r
    OBVIOUS
  <2>2. PICK m \in AdjExt(n) : Owner(m) = r
    BY <2>1 DEF RanksOf
  <2>3. m \in Nodes /\ n \in AdjExt(m) /\ Owner(m) # Owner(n)
    BY <2>1, <2>2 DEF AdjExt
  <2>4. m \in Mine(r)
    BY <2>2, <2>3 DEF Mine
  <2> QED
    BY <2>2, <2>3, <2>4 DEF External
<1>3. n \in Nodes => Owner(n) \in Ranks /\ n \in Mine(Owner(n))
  BY DEF Owner, Mine
<1> QED
  BY <1>1, <1>2, <1>3 DEF MidUpd

-----------------------------------------------------------------------------
(* Queues of at most two messages: what is taken and what is added. *)
LEMMA Queues ==
    ASSUME NEW a \in BOOLEAN, NEW b \in BOOLEAN, NEW X \in SUBSET Nodes, NEW Y \in SUBSET Nodes
    PROVE  /\ Queue(a, X, b, Y) \in Seq(SUBSET Nodes)
           /\ Queue(a, X, b, Y) = <<>> <=> ~ a /\ ~ b
           /\ a => Head(Queue(a, X, b, Y)) = X /\ Tail(Queue(a, X, b, Y)) = Queue(FALSE, X, b, Y)
           /\ ~ a /\ b => Head(Queue(a, X, b, Y)) = Y
                          /\ Tail(Queue(a, X, b, Y)) = Queue(FALSE, X, FALSE, Y)
           /\ ~ b => Append(Queue(a, X, b, Y), Y) = Queue(a, X, TRUE, Y)
           /\ ~ a /\ ~ b => Append(Queue(a, X, b, Y), X) = Queue(TRUE, X, FALSE, Y)
<1>1. CASE a /\ b
  BY <1>1 DEF Queue
<1>2. CASE a /\ ~ b
  <2>1. <<X>> \in Seq(SUBSET Nodes)
    OBVIOUS
  <2>3. Append(<<X>>, Y) = <<X, Y>>
    <3>1. /\ Append(<<X>>, Y) \in Seq(SUBSET Nodes) /\ Len(Append(<<X>>, Y)) = 2
          /\ Append(<<X>>, Y)[1] = X /\ Append(<<X>>, Y)[2] = Y
      BY <2>1, AppendProperties
    <3>2. <<X, Y>> \in Seq(SUBSET Nodes) /\ Len(<<X, Y>>) = 2 /\ <<X, Y>>[1] = X /\ <<X, Y>>[2] = Y
      OBVIOUS
    <3> DEFINE s == Append(<<X>>, Y)
               t == <<X, Y>>
    <3>3. /\ s \in Seq(SUBSET Nodes) /\ t \in Seq(SUBSET Nodes) /\ Len(s) = Len(t)
          /\ \A i \in 1 .. Len(s) : s[i] = t[i]
      BY <3>1, <3>2
    <3> HIDE DEF s, t
    <3>4. s = t
      BY <3>3, SeqEqual
    <3> QED
      BY <3>4 DEF s, t
  <2>2. Head(<<X>>) = X /\ Tail(<<X>>) = <<>> /\ <<X>> # <<>>
    OBVIOUS
  <2> QED
    BY <1>2, <2>1, <2>2, <2>3 DEF Queue
<1>3. CASE ~ a /\ b
  BY <1>3 DEF Queue
<1>4. CASE ~ a /\ ~ b
  BY <1>4 DEF Queue
<1> QED
  BY <1>1, <1>2, <1>3, <1>4

(* What COM_Send adds to the channels. *)
LEMMA Sending ==
    ASSUME Typed, NEW r \in Ranks, NEW S \in SUBSET Nodes, NEW tag \in Tags,
           ComSend(r, S, tag)
    PROVE  /\ chan' \in [Ranks -> [Ranks -> [Tags -> Seq(SUBSET Nodes)]]]
           /\ \A q, p \in Ranks : \A t \in Tags : chan'[q][p][t] =
                IF q = r /\ t = tag /\ For(p, S) # {}
                THEN Append(chan[q][p][t], For(p, S)) ELSE chan[q][p][t]
<1> DEFINE row == [q \in Ranks |-> [t \in Tags |->
                    IF t = tag /\ For(q, S) # {} THEN Append(chan[r][q][t], For(q, S))
                    ELSE chan[r][q][t]]]
<1>1. /\ chan \in [Ranks -> [Ranks -> [Tags -> Seq(SUBSET Nodes)]]]
      /\ chan' = [chan EXCEPT ![r] = row]
  BY DEF Typed, ComSend
<1>2. ASSUME NEW p \in Ranks, NEW t \in Tags
      PROVE  /\ row[p][t] = IF t = tag /\ For(p, S) # {} THEN Append(chan[r][p][t], For(p, S))
                            ELSE chan[r][p][t]
             /\ row[p][t] \in Seq(SUBSET Nodes)
  <2>1. chan[r][p][t] \in Seq(SUBSET Nodes) /\ For(p, S) \in SUBSET Nodes
    BY <1>1 DEF For
  <2>2. Append(chan[r][p][t], For(p, S)) \in Seq(SUBSET Nodes)
    BY <2>1
  <2> QED
    BY <2>1, <2>2
<1>3. row \in [Ranks -> [Tags -> Seq(SUBSET Nodes)]]
  BY <1>2
<1> HIDE DEF row
<1> QED
  BY <1>1, <1>2, <1>3, ZenonT(60)

(* The first message of each channel is the one for r, of the sets blocks. *)
HeadsAre(r, blocks, tag) ==
    \A q \in Ranks : For(r, blocks[q]) # {} /\ chan[q][r][tag] # <<>> =>
        Head(chan[q][r][tag]) = For(r, blocks[q])

(* The messages for r of the sets blocks have been taken and written. *)
Received(r, blocks, tag) ==
    /\ chan' \in [Ranks -> [Ranks -> [Tags -> Seq(SUBSET Nodes)]]]
    /\ \A q \in Ranks : For(r, blocks[q]) # {} => chan[q][r][tag] # <<>>
    /\ \A q \in Ranks : For(r, blocks[q]) # {} => chan'[q][r][tag] = Tail(chan[q][r][tag])
    /\ \A q, p \in Ranks : \A t \in Tags :
         p # r \/ t # tag \/ For(r, blocks[q]) = {} => chan'[q][p][t] = chan[q][p][t]
    /\ image' \in [Ranks -> [Nodes -> Nat]] /\ fin' \in [Ranks -> SUBSET Nodes]
    /\ \A p \in Ranks : p # r => image'[p] = image[p] /\ fin'[p] = fin[p]
    /\ \A n \in Nodes : image'[r][n] =
         IF \E q \in Ranks : n \in For(r, blocks[q]) THEN iters + 1 ELSE image[r][n]
    /\ \A n : n \in fin'[r] <=> n \in fin[r] \/ \E q \in Ranks : n \in For(r, blocks[q])

(* What COM_Recv takes from the channels, waits for and writes. *)
LEMMA Receiving ==
    ASSUME Typed, Fixed, NEW r \in Ranks, NEW blocks \in [Ranks -> SUBSET Nodes],
           NEW tag \in Tags, NEW before, ComRecv(r, blocks, tag, before),
           HeadsAre(r, blocks, tag)
    PROVE  Received(r, blocks, tag)
<1> DEFINE senders == {q \in Ranks : For(r, blocks[q]) # {}}
           got == UNION {Head(chan[q][r][tag]) : q \in senders}
<1>1. /\ \A q \in senders : chan[q][r][tag] # <<>>
      /\ chan' = [q \in Ranks |-> [chan[q] EXCEPT ![r][tag] = IF q \in senders THEN Tail(@) ELSE @]]
      /\ image' = [image EXCEPT ![r] = [n \in Nodes |-> IF n \in got THEN iters + 1 ELSE @[n]]]
      /\ fin' = [fin EXCEPT ![r] = @ \cup got]
  BY DEF ComRecv
<1>2. /\ chan \in [Ranks -> [Ranks -> [Tags -> Seq(SUBSET Nodes)]]]
      /\ image \in [Ranks -> [Nodes -> Nat]] /\ fin \in [Ranks -> SUBSET Nodes] /\ iters \in Nat
  BY DEF Typed
<1>3. \A q \in Ranks : q \in senders <=> For(r, blocks[q]) # {}
  OBVIOUS
<1>4. \A q \in senders : q \in Ranks /\ Head(chan[q][r][tag]) = For(r, blocks[q])
  BY <1>1 DEF HeadsAre
<1>5. \A n : n \in got <=> \E q \in Ranks : n \in For(r, blocks[q])
  BY <1>3, <1>4
<1>6. \A q \in Ranks : For(r, blocks[q]) \subseteq Nodes
  BY DEF For
<1>7. got \subseteq Nodes
  BY <1>5, <1>6
<1> HIDE DEF got
<1>8. ASSUME NEW q \in Ranks
      PROVE  /\ chan'[q] \in [Ranks -> [Tags -> Seq(SUBSET Nodes)]]
             /\ \A p \in Ranks : \A t \in Tags : chan'[q][p][t] =
                  IF p = r /\ t = tag /\ For(r, blocks[q]) # {} THEN Tail(chan[q][p][t]) ELSE chan[q][p][t]
  <2>1. /\ chan'[q] = [chan[q] EXCEPT ![r] = [chan[q][r] EXCEPT ![tag] =
                          IF q \in senders THEN Tail(chan[q][r][tag]) ELSE chan[q][r][tag]]]
        /\ chan[q] \in [Ranks -> [Tags -> Seq(SUBSET Nodes)]] /\ chan[q][r] \in [Tags -> Seq(SUBSET Nodes)]
        /\ chan[q][r][tag] \in Seq(SUBSET Nodes)
    BY <1>1, <1>2, SMTT(30)
  <2> DEFINE next == IF q \in senders THEN Tail(chan[q][r][tag]) ELSE chan[q][r][tag]
  <2>2. next \in Seq(SUBSET Nodes)
    BY <1>1, <2>1
  <2>3. q \in senders <=> For(r, blocks[q]) # {}
    BY <1>3
  <2> HIDE DEF senders
  <2>4. chan'[q] \in [Ranks -> [Tags -> Seq(SUBSET Nodes)]]
    <3> HIDE DEF next
    <3> QED
      BY <2>1, <2>2 DEF next
  <2>5. ASSUME NEW p \in Ranks, NEW t \in Tags
        PROVE  chan'[q][p][t] =
                 IF p = r /\ t = tag /\ q \in senders THEN Tail(chan[q][p][t]) ELSE chan[q][p][t]
    BY <2>1
  <2> QED
    BY <2>3, <2>4, <2>5
<1>9. chan' \in [Ranks -> [Ranks -> [Tags -> Seq(SUBSET Nodes)]]]
  <2>1. DOMAIN chan' = Ranks /\ chan' = [q \in Ranks |-> chan'[q]]
    BY <1>1
  <2> QED
    BY <1>8, <2>1
<1>10. /\ image' \in [Ranks -> [Nodes -> Nat]] /\ fin' \in [Ranks -> SUBSET Nodes]
       /\ \A p \in Ranks : p # r => image'[p] = image[p] /\ fin'[p] = fin[p]
       /\ \A n \in Nodes : image'[r][n] = IF n \in got THEN iters + 1 ELSE image[r][n]
       /\ fin'[r] = fin[r] \cup got
  BY <1>1, <1>2, <1>7
<1>11. /\ \A q \in Ranks : For(r, blocks[q]) # {} => chan'[q][r][tag] = Tail(chan[q][r][tag])
       /\ \A q, p \in Ranks : \A t \in Tags :
            p # r \/ t # tag \/ For(r, blocks[q]) = {} => chan'[q][p][t] = chan[q][p][t]
  BY <1>8
<1>12. /\ \A q \in Ranks : For(r, blocks[q]) # {} => chan[q][r][tag] # <<>>
       /\ \A n \in Nodes : image'[r][n] =
            IF \E q \in Ranks : n \in For(r, blocks[q]) THEN iters + 1 ELSE image[r][n]
       /\ \A n : n \in fin'[r] <=> n \in fin[r] \/ \E q \in Ranks : n \in For(r, blocks[q])
  BY <1>1, <1>3, <1>5, <1>10
<1> QED
  BY <1>9, <1>10, <1>11, <1>12 DEF Received

-----------------------------------------------------------------------------
(* The variant shows in the stage. *)
LEMMA StageOf ==
    ASSUME Fixed, Typed, NEW r \in Ranks
    PROVE  /\ pc[r] \in {"recvfirst", "last", "recvlast"} => Variant # "BOUNDARY_JACOBI"
           /\ pc[r] = "loop" => Variant = "FULL"
           /\ pc[r] \in {"middle", "recvmiddle"} => Variant = "MIDDLE_JACOBI"
           /\ pc[r] = "update" => Variant = "BOUNDARY_JACOBI"
BY DEF Fixed, Neighbours, Typed, Stages

(* What a rank has, and whether a node is computed, depend on that rank alone. *)
LEMMA HasElsewhere ==
    ASSUME UNCHANGED <<fixed, iters>>, NEW r, pc'[r] = pc[r], landed'[r] = landed[r]
    PROVE  \A n : Has(r, n)' <=> Has(r, n)
<1> TAKE n
<1>1. Owner(n)' = Owner(n)
  BY SameSets
<1>2. /\ (n \in FirstSet(Owner(n)))' <=> n \in FirstSet(Owner(n))
      /\ (n \in Middle(Owner(n)))' <=> n \in Middle(Owner(n))
      /\ (n \in LastSet(Owner(n)))' <=> n \in LastSet(Owner(n))
  BY SameSets
<1> QED
  BY <1>2 DEF Has, NoneReceived, LastReceived

(* A queue stays if none of its messages is sent or received. *)
LEMMA ChannelKept ==
    ASSUME UNCHANGED <<fixed, iters>>, NEW q \in Ranks, NEW r \in Ranks, Channel(q, r),
           \A t \in Tags : chan'[q][r][t] = chan[q][r][t],
           Variant # "BOUNDARY_JACOBI" =>
               /\ FirstPending(q, r)' <=> FirstPending(q, r)
               /\ MiddlePending(q, r)' <=> MiddlePending(q, r)
               /\ LastPending(q, r)' <=> LastPending(q, r)
    PROVE  Channel(q, r)'
<1>1. /\ Variant' = Variant /\ FirstTag' = FirstTag /\ LastTag' = LastTag
      /\ For(r, FirstSet(q))' = For(r, FirstSet(q))
      /\ For(r, Middle(q))' = For(r, Middle(q))
      /\ For(r, LastSet(q))' = For(r, LastSet(q))
  BY SameSets
<1>2. FirstTag \in Tags /\ LastTag \in Tags
  BY DEF FirstTag, LastTag, Tags
<1>3. CASE Variant = "BOUNDARY_JACOBI"
  BY <1>1, <1>3 DEF Channel, Tags
<1>4. CASE Variant # "BOUNDARY_JACOBI"
  BY <1>1, <1>2, <1>4 DEF Channel, Queue
<1> QED
  BY <1>3, <1>4

(* Two stages in which a rank has sent, has received, the same messages. *)
SameSent(s, t) ==
    /\ s \in NoneSent <=> t \in NoneSent
    /\ Variant = "MIDDLE_JACOBI" => (s \in MiddleUnsent <=> t \in MiddleUnsent)
    /\ s \in LastSent <=> t \in LastSent
SameReceived(s, t) ==
    /\ s \in NoneReceived <=> t \in NoneReceived
    /\ Variant = "MIDDLE_JACOBI" => (s \in MiddleUnreceived <=> t \in MiddleUnreceived)
    /\ s \in LastReceived <=> t \in LastReceived

(* Whether messages are under way depends on the stages of both ranks. *)
LEMMA PendingKept ==
    ASSUME UNCHANGED <<fixed, iters>>, NEW q \in Ranks, NEW r \in Ranks,
           SameSent(pc[q], pc'[q]), SameReceived(pc[r], pc'[r])
    PROVE  /\ FirstPending(q, r)' <=> FirstPending(q, r)
           /\ MiddlePending(q, r)' <=> MiddlePending(q, r)
           /\ LastPending(q, r)' <=> LastPending(q, r)
           /\ Behind(q, r)' <=> Behind(q, r)
<1>1. /\ Variant' = Variant
      /\ For(r, FirstSet(q))' = For(r, FirstSet(q))
      /\ For(r, Middle(q))' = For(r, Middle(q))
      /\ For(r, LastSet(q))' = For(r, LastSet(q))
  BY SameSets
<1>2. /\ (pc[q] \in NoneSent)' <=> pc[q] \in NoneSent
      /\ (pc[r] \in NoneReceived)' <=> pc[r] \in NoneReceived
      /\ Variant = "MIDDLE_JACOBI" =>
           /\ (pc[q] \in MiddleUnsent)' <=> pc[q] \in MiddleUnsent
           /\ (pc[r] \in MiddleUnreceived)' <=> pc[r] \in MiddleUnreceived
      /\ (pc[q] \in LastSent)' <=> pc[q] \in LastSent
      /\ (pc[r] \in LastReceived)' <=> pc[r] \in LastReceived
  BY DEF SameSent, SameReceived, NoneSent, NoneReceived, MiddleUnsent, MiddleUnreceived, LastSent, LastReceived
<1> QED
  BY <1>1, <1>2 DEF FirstPending, MiddlePending, LastPending, Behind

(* What rank r needs of the sets of all ranks are its images of nodes in them. *)
LEMMA Needed ==
    ASSUME Fixed, NEW r \in Ranks, NEW n
    PROVE  /\ (\E q \in Ranks : n \in For(r, FirstSet(q))) <=> n \in External(r) /\ n \in FirstSet(Owner(n))
           /\ (\E q \in Ranks : n \in For(r, Middle(q))) <=> n \in External(r) /\ n \in Middle(Owner(n))
           /\ (\E q \in Ranks : n \in For(r, LastSet(q))) <=> n \in External(r) /\ n \in LastSet(Owner(n))
<1>1. \A q \in Ranks : FirstSet(q) \subseteq Mine(q) /\ Middle(q) \subseteq Mine(q) /\ LastSet(q) \subseteq Mine(q)
  BY Sides
<1>2. \A q \in Ranks : n \in Mine(q) => n \in Nodes /\ Owner(n) = q
  BY DEF Mine
<1>3. n \in External(r) <=> n \in Nodes /\ r \in RanksOf(n)
  BY Images
<1>4. n \in Nodes => Owner(n) \in Ranks
  BY DEF Fixed, Neighbours, Owner
<1> QED
  BY <1>1, <1>2, <1>3, <1>4 DEF For

-----------------------------------------------------------------------------
(* The three steps that send fill the channels of the rank, in which the
   message fits as nobody has received it and none is ahead. *)
LEMMA FirstSends ==
    ASSUME IInv, NEW r \in Ranks, First(r)
    PROVE  Typed' /\ Channels' /\ Waited'
<1> USE DEF IInv
<1>1. /\ Variant # "BOUNDARY_JACOBI" /\ pc[r] = "first" /\ UNCHANGED <<fixed, iters>>
      /\ Sweep(FirstSet(r)) /\ ComSend(r, FirstSet(r), FirstTag)
      /\ pc' = [pc EXCEPT ![r] = "recvfirst"] /\ fin' = [fin EXCEPT ![r] = {}]
      /\ UNCHANGED <<image, left, landed, mail>>
  BY DEF First, To
<1>2. FirstTag \in Tags /\ LastTag \in Tags /\ FirstTag # LastTag /\ FirstSet(r) \in SUBSET Nodes
      /\ Tags = {FirstTag, LastTag}
  BY Sides DEF Tags, Mine
<1>3. /\ chan' \in [Ranks -> [Ranks -> [Tags -> Seq(SUBSET Nodes)]]]
      /\ \A q, p \in Ranks : \A t \in Tags : chan'[q][p][t] =
           IF q = r /\ t = FirstTag /\ For(p, FirstSet(r)) # {}
           THEN Append(chan[q][p][t], For(p, FirstSet(r))) ELSE chan[q][p][t]
  BY <1>1, <1>2, Sending, ZenonT(60)
<1>4. Typed'
  <2>1. Stages' = Stages /\ "recvfirst" \in Stages
    BY <1>1, SameSets DEF Stages
  <2>2. R' \in [Nodes -> Nat]
    BY <1>1 DEF Typed, Sweep
  <2> QED
    BY <1>1, <1>3, <2>1, <2>2 DEF Typed
<1>5. \A q \in Ranks : q # r => pc'[q] = pc[q]
  BY <1>1 DEF Typed
<1>6. pc'[r] = "recvfirst"
  BY <1>1 DEF Typed
<1>7. /\ Variant' = Variant /\ FirstTag' = FirstTag /\ LastTag' = LastTag
      /\ \A q, p : /\ For(p, FirstSet(q))' = For(p, FirstSet(q))
                   /\ For(p, Middle(q))' = For(p, Middle(q))
                   /\ For(p, LastSet(q))' = For(p, LastSet(q))
  BY <1>1, SameSets
<1>8. ASSUME NEW q \in Ranks, NEW p \in Ranks
      PROVE  Channel(q, p)' /\ Behind(q, p)'
  <2>1. Channel(q, p) /\ Behind(q, p)
    BY <1>1 DEF Channels, Waited
  <2>2. CASE q # r
    <3>1. SameSent(pc[q], pc'[q]) /\ SameReceived(pc[p], pc'[p])
      BY <1>1, <1>5, <1>6, <2>2
         DEF SameSent, SameReceived, NoneReceived, MiddleUnreceived, LastReceived
    <3>2. /\ FirstPending(q, p)' <=> FirstPending(q, p)
          /\ MiddlePending(q, p)' <=> MiddlePending(q, p)
          /\ LastPending(q, p)' <=> LastPending(q, p)
          /\ Behind(q, p)' <=> Behind(q, p)
      BY <1>1, <3>1, PendingKept
    <3>3. Channel(q, p)'
      BY <1>1, <1>3, <2>1, <2>2, <3>2, ChannelKept
    <3> QED
      BY <2>1, <3>2, <3>3
  <2>3. CASE q = r
    <3>1. /\ ~ FirstPending(r, p) /\ ~ MiddlePending(r, p) /\ ~ LastPending(r, p)
          /\ ~ MiddlePending(r, p)' /\ ~ LastPending(r, p)'
      BY <1>1, <1>6 DEF FirstPending, MiddlePending, LastPending, NoneSent, MiddleUnsent, LastSent
    <3>2. For(p, FirstSet(r)) # {} => pc'[p] \in NoneReceived
      BY <1>1, <1>5, <1>6, <2>1, <2>3 DEF Behind, NoneReceived, NoneSent
    <3>3. FirstPending(r, p)' <=> For(p, FirstSet(r)) # {}
      BY <1>6, <1>7, <3>2 DEF FirstPending, NoneSent, NoneReceived
    <3>4. chan[r][p][FirstTag] = <<>> /\ chan[r][p][LastTag] = <<>>
      BY <1>1, <2>1, <2>3, <3>1 DEF Channel, Queue
    <3>5. /\ chan'[r][p][FirstTag] = IF For(p, FirstSet(r)) # {} THEN <<For(p, FirstSet(r))>> ELSE <<>>
          /\ chan'[r][p][LastTag] = <<>>
      <4>1. Append(<<>>, For(p, FirstSet(r))) = <<For(p, FirstSet(r))>>
        OBVIOUS
      <4> QED
        BY <1>2, <1>3, <3>4, <4>1, ZenonT(60)
    <3>6. Channel(r, p)'
      BY <1>1, <1>7, <3>1, <3>3, <3>5 DEF Channel, Queue
    <3>7. Behind(r, p)'
      <4>1. /\ pc'[p] \notin NoneReceived => pc[p] \notin NoneReceived
            /\ pc'[p] \notin MiddleUnreceived => pc[p] \notin MiddleUnreceived
            /\ pc'[p] \in LastReceived => pc[p] \in LastReceived
        BY <1>1, <1>5, <1>6 DEF NoneReceived, MiddleUnreceived, LastReceived
      <4> QED
        BY <1>1, <1>6, <1>7, <2>1, <2>3, <4>1 DEF Behind, NoneSent, MiddleUnsent, LastSent
    <3> QED
      BY <2>3, <3>6, <3>7
  <2> QED
    BY <2>2, <2>3
<1>9. Channels' /\ Waited'
  BY <1>8 DEF Channels, Waited
<1> QED
  BY <1>4, <1>9

(* The middle set is behind the message of the first one, if they share a tag. *)
LEMMA MiddleSends ==
    ASSUME IInv, NEW r \in Ranks, JacobiMiddle(r)
    PROVE  Typed' /\ Channels' /\ Waited'
<1> USE DEF IInv
<1>1. /\ Variant = "MIDDLE_JACOBI" /\ pc[r] = "middle" /\ UNCHANGED <<fixed, iters>>
      /\ Sweep(Middle(r)) /\ ComSend(r, Middle(r), "BOTTOM")
      /\ pc' = [pc EXCEPT ![r] = "recvmiddle"]
      /\ UNCHANGED <<image, fin, left, landed, mail>>
  BY StageOf DEF JacobiMiddle, To
<1>2. FirstTag \in Tags /\ LastTag \in Tags /\ FirstTag # LastTag /\ Middle(r) \in SUBSET Nodes
      /\ Tags = {FirstTag, LastTag} /\ "BOTTOM" \in Tags
  BY Sides DEF Tags, Mine
<1>3. /\ chan' \in [Ranks -> [Ranks -> [Tags -> Seq(SUBSET Nodes)]]]
      /\ \A q, p \in Ranks : \A t \in Tags : chan'[q][p][t] =
           IF q = r /\ t = "BOTTOM" /\ For(p, Middle(r)) # {}
           THEN Append(chan[q][p][t], For(p, Middle(r))) ELSE chan[q][p][t]
  <2> DEFINE tag == "BOTTOM"
  <2>1. tag \in Tags /\ ComSend(r, Middle(r), tag) /\ Middle(r) \in SUBSET Nodes
    BY <1>1, <1>2
  <2> HIDE DEF tag
  <2>2. /\ chan' \in [Ranks -> [Ranks -> [Tags -> Seq(SUBSET Nodes)]]]
        /\ \A q, p \in Ranks : \A t \in Tags : chan'[q][p][t] =
             IF q = r /\ t = tag /\ For(p, Middle(r)) # {}
             THEN Append(chan[q][p][t], For(p, Middle(r))) ELSE chan[q][p][t]
    BY <2>1, Sending, ZenonT(60)
  <2> QED
    BY <2>2 DEF tag
<1>4. Typed'
  <2>1. Stages' = Stages /\ "recvmiddle" \in Stages
    BY <1>1, SameSets DEF Stages
  <2>2. R' \in [Nodes -> Nat]
    BY <1>1 DEF Typed, Sweep
  <2> QED
    BY <1>1, <1>3, <2>1, <2>2 DEF Typed
<1>5. \A q \in Ranks : q # r => pc'[q] = pc[q]
  BY <1>1 DEF Typed
<1>6. pc'[r] = "recvmiddle"
  BY <1>1 DEF Typed
<1>7. /\ Variant' = Variant /\ FirstTag' = FirstTag /\ LastTag' = LastTag
      /\ \A q, p : /\ For(p, FirstSet(q))' = For(p, FirstSet(q))
                   /\ For(p, Middle(q))' = For(p, Middle(q))
                   /\ For(p, LastSet(q))' = For(p, LastSet(q))
  BY <1>1, SameSets
<1>8. ASSUME NEW q \in Ranks, NEW p \in Ranks
      PROVE  Channel(q, p)' /\ Behind(q, p)'
  <2>1. Channel(q, p) /\ Behind(q, p)
    BY <1>1 DEF Channels, Waited
  <2>2. SameReceived(pc[p], pc'[p])
    BY <1>1, <1>5, <1>6 DEF SameReceived, NoneReceived, MiddleUnreceived, LastReceived
  <2>3. CASE q # r
    <3>1. SameSent(pc[q], pc'[q])
      BY <1>5, <2>3 DEF SameSent
    <3>2. /\ FirstPending(q, p)' <=> FirstPending(q, p)
          /\ MiddlePending(q, p)' <=> MiddlePending(q, p)
          /\ LastPending(q, p)' <=> LastPending(q, p)
          /\ Behind(q, p)' <=> Behind(q, p)
      BY <1>1, <2>2, <3>1, PendingKept
    <3>3. Channel(q, p)'
      BY <1>1, <1>3, <2>1, <2>3, <3>2, ChannelKept
    <3> QED
      BY <2>1, <3>2, <3>3
  <2>4. CASE q = r
    <3>1. ~ MiddlePending(r, p) /\ ~ LastPending(r, p) /\ ~ LastPending(r, p)'
      BY <1>1, <1>6 DEF MiddlePending, LastPending, MiddleUnsent, LastSent
    <3>2. FirstPending(r, p)' <=> FirstPending(r, p)
      BY <1>1, <1>6, <1>7, <2>2 DEF FirstPending, NoneSent, SameReceived
    <3>3. For(p, Middle(r)) # {} => pc'[p] \in MiddleUnreceived
      BY <1>1, <2>1, <2>2, <2>4 DEF Behind, SameReceived, MiddleUnsent
    <3>4. MiddlePending(r, p)' <=> For(p, Middle(r)) # {}
      BY <1>1, <1>6, <1>7, <3>3 DEF MiddlePending, MiddleUnsent
    <3> DEFINE X == For(p, FirstSet(r))
               Y == For(p, Middle(r))
               Z == For(p, LastSet(r))
               fp == FirstPending(r, p)
    <3>5. X \in SUBSET Nodes /\ Y \in SUBSET Nodes /\ Z \in SUBSET Nodes /\ fp \in BOOLEAN
      BY Sides DEF For, Mine, FirstPending
    <3>6. /\ chan[r][p][FirstTag] = Queue(fp, X, FALSE, Y)
          /\ chan[r][p][LastTag] = Queue(FALSE, Y, FALSE, Z)
      BY <1>1, <2>1, <2>4, <3>1 DEF Channel, Queue
    <3>7. /\ Append(Queue(fp, X, FALSE, Y), Y) = Queue(fp, X, TRUE, Y)
          /\ Append(Queue(FALSE, Y, FALSE, Z), Y) = Queue(TRUE, Y, FALSE, Z)
      <4> HIDE DEF X, Y, Z, fp
      <4> QED
        BY <3>5, Queues
    <3>8. /\ chan'[r][p][FirstTag] = Queue(fp, X, Y # {} /\ FirstTag = "BOTTOM", Y)
          /\ chan'[r][p][LastTag] = Queue(Y # {} /\ LastTag = "BOTTOM", Y, FALSE, Z)
      <4> HIDE DEF X, Z, fp
      <4>1. CASE Y # {} /\ FirstTag = "BOTTOM"
        BY <1>2, <1>3, <3>6, <3>7, <4>1 DEF Queue
      <4>2. CASE Y # {} /\ LastTag = "BOTTOM"
        BY <1>2, <1>3, <3>6, <3>7, <4>2 DEF Queue
      <4>3. CASE Y = {}
        BY <1>2, <1>3, <3>6, <4>3 DEF Queue
      <4> QED
        BY <1>2, <4>1, <4>2, <4>3
    <3>9. Channel(r, p)'
      BY <1>1, <1>7, <3>1, <3>2, <3>4, <3>8 DEF Channel, Queue
    <3>10. Behind(r, p)'
      BY <1>1, <1>6, <1>7, <2>1, <2>2, <2>4, <3>1
         DEF Behind, SameReceived, NoneSent, MiddleUnsent, LastSent
    <3> QED
      BY <2>4, <3>9, <3>10
  <2> QED
    BY <2>3, <2>4
<1>9. Channels' /\ Waited'
  BY <1>8 DEF Channels, Waited
<1> QED
  BY <1>4, <1>9

(* The last set is behind the message of the middle one, if they share a tag. *)
LEMMA LastSends ==
    ASSUME IInv, NEW r \in Ranks, Last(r)
    PROVE  Typed' /\ Channels' /\ Waited'
<1> USE DEF IInv
<1>1. /\ Variant # "BOUNDARY_JACOBI" /\ pc[r] = "last" /\ UNCHANGED <<fixed, iters>>
      /\ Sweep(LastSet(r) \cup Internal(r)) /\ ComSend(r, LastSet(r), LastTag)
      /\ pc' = [pc EXCEPT ![r] = "recvlast"]
      /\ UNCHANGED <<image, fin, left, landed, mail>>
  BY StageOf DEF Last, To
<1>2. FirstTag \in Tags /\ LastTag \in Tags /\ FirstTag # LastTag /\ LastSet(r) \in SUBSET Nodes
      /\ Tags = {FirstTag, LastTag}
  BY Sides DEF Tags, Mine
<1>3. /\ chan' \in [Ranks -> [Ranks -> [Tags -> Seq(SUBSET Nodes)]]]
      /\ \A q, p \in Ranks : \A t \in Tags : chan'[q][p][t] =
           IF q = r /\ t = LastTag /\ For(p, LastSet(r)) # {}
           THEN Append(chan[q][p][t], For(p, LastSet(r))) ELSE chan[q][p][t]
  BY <1>1, <1>2, Sending, ZenonT(60)
<1>4. Typed'
  <2>1. Stages' = Stages /\ "recvlast" \in Stages
    BY <1>1, SameSets DEF Stages
  <2>2. R' \in [Nodes -> Nat]
    BY <1>1 DEF Typed, Sweep
  <2> QED
    BY <1>1, <1>3, <2>1, <2>2 DEF Typed
<1>5. \A q \in Ranks : q # r => pc'[q] = pc[q]
  BY <1>1 DEF Typed
<1>6. pc'[r] = "recvlast"
  BY <1>1 DEF Typed
<1>7. /\ Variant' = Variant /\ FirstTag' = FirstTag /\ LastTag' = LastTag
      /\ \A q, p : /\ For(p, FirstSet(q))' = For(p, FirstSet(q))
                   /\ For(p, Middle(q))' = For(p, Middle(q))
                   /\ For(p, LastSet(q))' = For(p, LastSet(q))
  BY <1>1, SameSets
<1>8. ASSUME NEW q \in Ranks, NEW p \in Ranks
      PROVE  Channel(q, p)' /\ Behind(q, p)'
  <2>1. Channel(q, p) /\ Behind(q, p)
    BY <1>1 DEF Channels, Waited
  <2>2. SameReceived(pc[p], pc'[p])
    BY <1>1, <1>5, <1>6 DEF SameReceived, NoneReceived, MiddleUnreceived, LastReceived
  <2>3. CASE q # r
    <3>1. SameSent(pc[q], pc'[q])
      BY <1>5, <2>3 DEF SameSent
    <3>2. /\ FirstPending(q, p)' <=> FirstPending(q, p)
          /\ MiddlePending(q, p)' <=> MiddlePending(q, p)
          /\ LastPending(q, p)' <=> LastPending(q, p)
          /\ Behind(q, p)' <=> Behind(q, p)
      BY <1>1, <2>2, <3>1, PendingKept
    <3>3. Channel(q, p)'
      BY <1>1, <1>3, <2>1, <2>3, <3>2, ChannelKept
    <3> QED
      BY <2>1, <3>2, <3>3
  <2>4. CASE q = r
    <3>1. ~ LastPending(r, p)
      BY <1>1 DEF LastPending, LastSent
    <3>2. /\ FirstPending(r, p)' <=> FirstPending(r, p)
          /\ MiddlePending(r, p)' <=> MiddlePending(r, p)
      BY <1>1, <1>6, <1>7, <2>2
         DEF FirstPending, MiddlePending, NoneSent, MiddleUnsent, SameReceived
    <3>3. For(p, LastSet(r)) # {} => pc'[p] \notin LastReceived
      BY <1>1, <2>1, <2>2, <2>4 DEF Behind, SameReceived, LastSent
    <3>4. LastPending(r, p)' <=> For(p, LastSet(r)) # {}
      BY <1>1, <1>6, <1>7, <3>3 DEF LastPending, LastSent
    <3> DEFINE Y == For(p, Middle(r))
               Z == For(p, LastSet(r))
               mp == MiddlePending(r, p) /\ LastTag = "BOTTOM"
    <3>5. Y \in SUBSET Nodes /\ Z \in SUBSET Nodes /\ mp \in BOOLEAN
      BY Sides DEF For, Mine, MiddlePending
    <3>6. chan[r][p][LastTag] = Queue(mp, Y, FALSE, Z)
      BY <1>1, <2>1, <2>4, <3>1 DEF Channel, Queue
    <3>7. Append(Queue(mp, Y, FALSE, Z), Z) = Queue(mp, Y, TRUE, Z)
      <4> HIDE DEF Y, Z, mp
      <4> QED
        BY <3>5, Queues
    <3>8. /\ chan'[r][p][FirstTag] = chan[r][p][FirstTag]
          /\ chan'[r][p][LastTag] = Queue(mp, Y, Z # {}, Z)
      <4> HIDE DEF Y, mp
      <4>1. CASE Z # {}
        BY <1>2, <1>3, <3>6, <3>7, <4>1 DEF Queue
      <4>2. CASE Z = {}
        BY <1>2, <1>3, <3>6, <4>2 DEF Queue
      <4> QED
        BY <4>1, <4>2
    <3>9. Channel(r, p)'
      BY <1>1, <1>7, <2>1, <2>4, <3>2, <3>4, <3>8 DEF Channel, Queue
    <3>10. Behind(r, p)'
      BY <1>1, <1>6, <1>7, <2>1, <2>2, <2>4, <3>1
         DEF Behind, SameReceived, NoneSent, MiddleUnsent, LastSent
    <3> QED
      BY <2>4, <3>9, <3>10
  <2> QED
    BY <2>3, <2>4
<1>9. Channels' /\ Waited'
  BY <1>8 DEF Channels, Waited
<1> QED
  BY <1>4, <1>9

-----------------------------------------------------------------------------
(* The three steps that receive find the message they are due at the head of
   each channel, whatever has been sent after it. *)
LEMMA FirstReceives ==
    ASSUME IInv, NEW r \in Ranks, RecvFirst(r)
    PROVE  /\ Typed' /\ Channels' /\ Waited'
           /\ \A p \in Ranks : p # r => image'[p] = image[p] /\ fin'[p] = fin[p]
           /\ \A n \in External(r) : image'[r][n] =
                IF n \in FirstSet(Owner(n)) THEN iters + 1 ELSE image[r][n]
           /\ \A n : n \in fin'[r] <=> n \in fin[r] \/ (n \in External(r) /\ n \in FirstSet(Owner(n)))
<1> USE DEF IInv
<1> DEFINE blocks == [q \in Ranks |-> FirstSet(q)]
           tag == FirstTag
<1>1. /\ Variant # "BOUNDARY_JACOBI" /\ pc[r] = "recvfirst" /\ UNCHANGED <<fixed, iters, R, mail>>
      /\ \E before : ComRecv(r, blocks, tag, before)
      /\ \E s \in {"loop", "middle"} : s \in Stages /\ pc' = [pc EXCEPT ![r] = s]
      /\ left' \in [Ranks -> SUBSET Nodes] /\ landed' \in [Ranks -> SUBSET Nodes]
  <2>1. Variant # "BOUNDARY_JACOBI" /\ pc[r] = "recvfirst"
    BY StageOf DEF RecvFirst
  <2>2. \E s \in {"loop", "middle"} : s \in Stages /\ pc' = [pc EXCEPT ![r] = s]
    BY <2>1 DEF RecvFirst, To, Stages
  <2>3. left' \in [Ranks -> SUBSET Nodes] /\ landed' \in [Ranks -> SUBSET Nodes]
    <3>1. Middle(r) \in SUBSET Nodes
      BY Sides DEF Mine
    <3> QED
      BY <3>1 DEF RecvFirst, Typed
  <2> QED
    BY <2>1, <2>2, <2>3 DEF RecvFirst
<1>2. /\ tag \in Tags /\ FirstTag \in Tags /\ LastTag \in Tags /\ FirstTag # LastTag
      /\ Tags = {FirstTag, LastTag} /\ blocks \in [Ranks -> SUBSET Nodes]
  BY Sides DEF Tags, Mine
<1>3. PICK before : ComRecv(r, blocks, tag, before)
  BY <1>1
<1>4. \A q \in Ranks : blocks[q] = FirstSet(q)
  OBVIOUS
<1> HIDE DEF blocks
<1>5. \A q, p \in Ranks : Channel(q, p) /\ Behind(q, p)
  BY <1>1 DEF Channels, Waited
<1>6. \A q, p \in Ranks : /\ For(p, FirstSet(q)) \in SUBSET Nodes /\ For(p, Middle(q)) \in SUBSET Nodes
                         /\ For(p, LastSet(q)) \in SUBSET Nodes
  BY Sides DEF For, Mine
<1>7. ASSUME NEW q \in Ranks, For(r, FirstSet(q)) # {}, chan[q][r][tag] # <<>>
      PROVE  /\ FirstPending(q, r) /\ Head(chan[q][r][tag]) = For(r, FirstSet(q))
             /\ Tail(chan[q][r][tag]) =
                  Queue(FALSE, For(r, FirstSet(q)), MiddlePending(q, r) /\ FirstTag = "BOTTOM", For(r, Middle(q)))
  <2> DEFINE X == For(r, FirstSet(q))
             Y == For(r, Middle(q))
             fp == FirstPending(q, r)
             mp == MiddlePending(q, r) /\ FirstTag = "BOTTOM"
  <2>1. chan[q][r][tag] = Queue(fp, X, mp, Y)
    BY <1>1, <1>5 DEF Channel
  <2>2. X \in SUBSET Nodes /\ Y \in SUBSET Nodes /\ fp \in BOOLEAN /\ mp \in BOOLEAN
    BY <1>6 DEF FirstPending, MiddlePending
  <2>3. mp => fp
    BY <1>1, <1>7 DEF FirstPending, MiddlePending, MiddleUnsent, NoneSent, NoneReceived
  <2> HIDE DEF X, Y, fp, mp
  <2>5. /\ Queue(fp, X, mp, Y) # <<>> => fp \/ mp
        /\ fp => /\ Head(Queue(fp, X, mp, Y)) = X
                 /\ Tail(Queue(fp, X, mp, Y)) = Queue(FALSE, X, mp, Y)
    BY <2>2 DEF Queue
  <2>4. fp /\ Head(chan[q][r][tag]) = X /\ Tail(chan[q][r][tag]) = Queue(FALSE, X, mp, Y)
    BY <1>7, <2>1, <2>3, <2>5
  <2> QED
    BY <2>4 DEF X, Y, fp, mp
<1> HIDE DEF tag
<1>8. Received(r, blocks, tag)
  <2>1. HeadsAre(r, blocks, tag)
    BY <1>4, <1>7 DEF HeadsAre
  <2> QED
    BY <1>2, <1>3, <2>1, Receiving
<1>9. Typed'
  <2>1. Stages' = Stages
    BY <1>1, SameSets
  <2>2. /\ chan' \in [Ranks -> [Ranks -> [Tags -> Seq(SUBSET Nodes)]]]
        /\ image' \in [Ranks -> [Nodes -> Nat]] /\ fin' \in [Ranks -> SUBSET Nodes]
    BY <1>8 DEF Received
  <2>3. pc' \in [Ranks -> Stages]
    BY <1>1 DEF Typed
  <2> QED
    BY <1>1, <2>1, <2>2, <2>3 DEF Typed
<1>10. /\ \A q \in Ranks : q # r => pc'[q] = pc[q]
       /\ pc'[r] \in {"loop", "middle"} /\ (Variant = "MIDDLE_JACOBI" => pc'[r] # "loop")
  <2>1. PICK s \in {"loop", "middle"} : s \in Stages /\ pc' = [pc EXCEPT ![r] = s]
    BY <1>1
  <2>2. Variant = "MIDDLE_JACOBI" => s # "loop"
    BY <2>1 DEF Stages
  <2> QED
    BY <2>1, <2>2 DEF Typed
<1>11. ASSUME NEW q \in Ranks, NEW p \in Ranks
       PROVE  Channel(q, p)' /\ Behind(q, p)'
  <2>1. SameSent(pc[q], pc'[q])
    BY <1>1, <1>10 DEF SameSent, NoneSent, MiddleUnsent, LastSent
  <2>2. CASE p # r
    <3>1. SameReceived(pc[p], pc'[p])
      BY <1>10, <2>2 DEF SameReceived
    <3>2. /\ FirstPending(q, p)' <=> FirstPending(q, p)
          /\ MiddlePending(q, p)' <=> MiddlePending(q, p)
          /\ LastPending(q, p)' <=> LastPending(q, p)
          /\ Behind(q, p)' <=> Behind(q, p)
      BY <1>1, <2>1, <3>1, PendingKept
    <3>3. Channel(q, p)'
      <4>1. \A t \in Tags : chan'[q][p][t] = chan[q][p][t]
        BY <1>8, <2>2 DEF Received
      <4> QED
        BY <1>1, <1>5, <3>2, <4>1, ChannelKept
    <3> QED
      BY <1>5, <3>2, <3>3
  <2>3. CASE p = r
    <3>1. /\ Variant' = Variant /\ FirstTag' = FirstTag /\ LastTag' = LastTag
          /\ For(r, FirstSet(q))' = For(r, FirstSet(q))
          /\ For(r, Middle(q))' = For(r, Middle(q))
          /\ For(r, LastSet(q))' = For(r, LastSet(q))
      BY <1>1, SameSets
    <3>2. /\ For(r, FirstSet(q)) # {} => chan'[q][r][tag] = Tail(chan[q][r][tag])
          /\ \A t \in Tags : t # tag \/ For(r, FirstSet(q)) = {} => chan'[q][r][t] = chan[q][r][t]
      <4>1. For(r, blocks[q]) = For(r, FirstSet(q))
        BY <1>4
      <4>2. For(r, blocks[q]) # {} => chan'[q][r][tag] = Tail(chan[q][r][tag])
        BY <1>8 DEF Received
      <4>3. \A t \in Tags : t # tag \/ For(r, blocks[q]) = {} => chan'[q][r][t] = chan[q][r][t]
        BY <1>8 DEF Received
      <4> QED
        BY <4>1, <4>2, <4>3
    <3>3. For(r, FirstSet(q)) # {} => chan[q][r][tag] # <<>>
      BY <1>4, <1>8 DEF Received
    <3>4. ~ FirstPending(q, r)' /\ (For(r, FirstSet(q)) = {} => ~ FirstPending(q, r))
      BY <1>10 DEF FirstPending, NoneReceived
    <3>5. /\ MiddlePending(q, r)' <=> MiddlePending(q, r)
          /\ LastPending(q, r)' <=> LastPending(q, r)
      BY <1>1, <1>10, <2>1, <3>1
         DEF MiddlePending, LastPending, MiddleUnsent, MiddleUnreceived, LastSent, LastReceived, SameSent
    <3>6. chan'[q][r][LastTag] = chan[q][r][LastTag]
      BY <1>2, <3>2 DEF tag
    <3>7. chan'[q][r][FirstTag] =
            Queue(FALSE, For(r, FirstSet(q)), MiddlePending(q, r) /\ FirstTag = "BOTTOM", For(r, Middle(q)))
      <4>1. CASE For(r, FirstSet(q)) # {}
        BY <1>2, <1>7, <3>2, <3>3, <4>1 DEF tag
      <4>2. CASE For(r, FirstSet(q)) = {}
        BY <1>1, <1>2, <1>5, <3>2, <3>4, <4>2 DEF tag, Channel, Queue
      <4> QED
        BY <4>1, <4>2
    <3>8. Channel(q, r)'
      BY <1>1, <1>5, <3>1, <3>4, <3>5, <3>6, <3>7 DEF Channel, Queue
    <3>9. Behind(q, r)'
      <4>1. For(r, FirstSet(q)) # {} => pc[q] \notin NoneSent
        BY <1>7, <3>3 DEF FirstPending
      <4> QED
        BY <1>1, <1>5, <1>10, <2>1, <3>1, <4>1
           DEF Behind, SameSent, MiddleUnreceived, LastReceived
    <3> QED
      BY <2>3, <3>8, <3>9
  <2> QED
    BY <2>2, <2>3
<1>12. Channels' /\ Waited'
  BY <1>11 DEF Channels, Waited
<1>13. \A n \in External(r) : n \in Nodes
  BY Images
<1>14. ASSUME NEW n \in External(r)
       PROVE  image'[r][n] = IF n \in FirstSet(Owner(n)) THEN iters + 1 ELSE image[r][n]
  <2>1. (\E q \in Ranks : n \in For(r, blocks[q])) <=> n \in FirstSet(Owner(n))
    BY <1>4, Needed
  <2> QED
    BY <1>8, <1>13, <2>1 DEF Received
<1>15. ASSUME NEW n
       PROVE  n \in fin'[r] <=> n \in fin[r] \/ (n \in External(r) /\ n \in FirstSet(Owner(n)))
  <2>1. (\E q \in Ranks : n \in For(r, blocks[q])) <=> n \in External(r) /\ n \in FirstSet(Owner(n))
    BY <1>4, Needed
  <2> QED
    BY <1>8, <2>1 DEF Received
<1>16. \A p \in Ranks : p # r => image'[p] = image[p] /\ fin'[p] = fin[p]
  BY <1>8 DEF Received
<1> QED
  BY <1>9, <1>12, <1>14, <1>15, <1>16

(* Middle sets come after the first or before the last set on the same tag. *)
LEMMA MiddleReceives ==
    ASSUME IInv, NEW r \in Ranks, RecvMiddle(r)
    PROVE  /\ Typed' /\ Channels' /\ Waited'
           /\ \A p \in Ranks : p # r => image'[p] = image[p] /\ fin'[p] = fin[p]
           /\ \A n \in External(r) : image'[r][n] =
                IF n \in Middle(Owner(n)) THEN iters + 1 ELSE image[r][n]
           /\ \A n : n \in fin'[r] <=> n \in fin[r] \/ (n \in External(r) /\ n \in Middle(Owner(n)))
<1> USE DEF IInv
<1> DEFINE blocks == [q \in Ranks |-> Middle(q)]
           tag == "BOTTOM"
<1>1. /\ Variant = "MIDDLE_JACOBI" /\ pc[r] = "recvmiddle" /\ UNCHANGED <<fixed, iters, R, mail>>
      /\ \E before : ComRecv(r, blocks, tag, before)
      /\ \E s \in {"last"} : s \in Stages /\ pc' = [pc EXCEPT ![r] = s]
      /\ left' \in [Ranks -> SUBSET Nodes] /\ landed' \in [Ranks -> SUBSET Nodes]
  <2>1. Variant = "MIDDLE_JACOBI" /\ pc[r] = "recvmiddle"
    BY StageOf DEF RecvMiddle
  <2>2. \E s \in {"last"} : s \in Stages /\ pc' = [pc EXCEPT ![r] = s]
    BY <2>1 DEF RecvMiddle, To, Stages
  <2>3. left' \in [Ranks -> SUBSET Nodes] /\ landed' \in [Ranks -> SUBSET Nodes]
    <3>1. Middle(r) \in SUBSET Nodes
      BY Sides DEF Mine
    <3> QED
      BY <3>1 DEF RecvMiddle, Typed
  <2> QED
    BY <2>1, <2>2, <2>3 DEF RecvMiddle
<1>2. /\ tag \in Tags /\ FirstTag \in Tags /\ LastTag \in Tags /\ FirstTag # LastTag
      /\ Tags = {FirstTag, LastTag} /\ blocks \in [Ranks -> SUBSET Nodes]
  BY Sides DEF Tags, Mine
<1>3. PICK before : ComRecv(r, blocks, tag, before)
  BY <1>1
<1>4. \A q \in Ranks : blocks[q] = Middle(q)
  OBVIOUS
<1> HIDE DEF blocks
<1>5. \A q, p \in Ranks : Channel(q, p) /\ Behind(q, p)
  BY <1>1 DEF Channels, Waited
<1>6. \A q, p \in Ranks : /\ For(p, FirstSet(q)) \in SUBSET Nodes /\ For(p, Middle(q)) \in SUBSET Nodes
                         /\ For(p, LastSet(q)) \in SUBSET Nodes
  BY Sides DEF For, Mine
<1>7. ASSUME NEW q \in Ranks, For(r, Middle(q)) # {}, chan[q][r][tag] # <<>>
      PROVE  /\ MiddlePending(q, r) /\ Head(chan[q][r][tag]) = For(r, Middle(q))
             /\ FirstTag = "BOTTOM" =>
                  Tail(chan[q][r][tag]) = Queue(FALSE, For(r, FirstSet(q)), FALSE, For(r, Middle(q)))
             /\ LastTag = "BOTTOM" =>
                  Tail(chan[q][r][tag]) = Queue(FALSE, For(r, Middle(q)), LastPending(q, r), For(r, LastSet(q)))
  <2> DEFINE X == For(r, FirstSet(q))
             Y == For(r, Middle(q))
             Z == For(r, LastSet(q))
             mp == MiddlePending(q, r)
             lp == LastPending(q, r)
  <2>1. /\ FirstTag = "BOTTOM" => chan[q][r][tag] = Queue(FALSE, X, mp, Y)
        /\ LastTag = "BOTTOM" => chan[q][r][tag] = Queue(mp, Y, lp, Z)
        /\ FirstTag = "BOTTOM" \/ LastTag = "BOTTOM"
    <3>1. ~ FirstPending(q, r)
      BY <1>1 DEF FirstPending, NoneReceived
    <3>2. FirstTag = "BOTTOM" \/ LastTag = "BOTTOM"
      BY DEF FirstTag, LastTag
    <3> QED
      BY <1>1, <1>5, <3>1, <3>2 DEF Channel, Queue
  <2>2. /\ X \in SUBSET Nodes /\ Y \in SUBSET Nodes /\ Z \in SUBSET Nodes
        /\ mp \in BOOLEAN /\ lp \in BOOLEAN
    BY <1>6 DEF LastPending, MiddlePending
  <2>3. lp => mp
    BY <1>1, <1>7 DEF LastPending, MiddlePending, MiddleUnsent, LastSent, MiddleUnreceived
  <2> HIDE DEF X, Y, Z, mp, lp, tag
  <2>4. CASE FirstTag = "BOTTOM"
    <3>3. /\ Queue(FALSE, X, mp, Y) # <<>> => mp
          /\ mp => /\ Head(Queue(FALSE, X, mp, Y)) = Y
                   /\ Tail(Queue(FALSE, X, mp, Y)) = Queue(FALSE, X, FALSE, Y)
      BY <2>2, Queues, ZenonT(60)
    <3>1. mp /\ Head(chan[q][r][tag]) = Y /\ Tail(chan[q][r][tag]) = Queue(FALSE, X, FALSE, Y)
      BY <1>7, <2>1, <2>4, <3>3
    <3>2. LastTag # "BOTTOM"
      BY <1>2, <2>4
    <3> QED
      BY <3>1, <3>2 DEF X, Y, Z, mp, lp
  <2>5. CASE LastTag = "BOTTOM"
    <3>3. /\ Queue(mp, Y, lp, Z) # <<>> => mp \/ lp
          /\ mp => /\ Head(Queue(mp, Y, lp, Z)) = Y
                   /\ Tail(Queue(mp, Y, lp, Z)) = Queue(FALSE, Y, lp, Z)
      BY <2>2 DEF Queue
    <3>1. mp /\ Head(chan[q][r][tag]) = Y /\ Tail(chan[q][r][tag]) = Queue(FALSE, Y, lp, Z)
      BY <1>7, <2>1, <2>3, <2>5, <3>3
    <3>2. FirstTag # "BOTTOM"
      BY <1>2, <2>5
    <3> QED
      BY <3>1, <3>2 DEF X, Y, Z, mp, lp
  <2> QED
    BY <2>1, <2>4, <2>5
<1> HIDE DEF tag
<1>8. Received(r, blocks, tag)
  <2>1. HeadsAre(r, blocks, tag)
    BY <1>4, <1>7 DEF HeadsAre
  <2> QED
    BY <1>2, <1>3, <2>1, Receiving
<1>9. Typed'
  <2>1. Stages' = Stages
    BY <1>1, SameSets
  <2>2. /\ chan' \in [Ranks -> [Ranks -> [Tags -> Seq(SUBSET Nodes)]]]
        /\ image' \in [Ranks -> [Nodes -> Nat]] /\ fin' \in [Ranks -> SUBSET Nodes]
    BY <1>8 DEF Received
  <2>3. pc' \in [Ranks -> Stages]
    BY <1>1 DEF Typed
  <2> QED
    BY <1>1, <2>1, <2>2, <2>3 DEF Typed
<1>10. /\ \A q \in Ranks : q # r => pc'[q] = pc[q]
       /\ pc'[r] \in {"last"} /\ (Variant = "MIDDLE_JACOBI" => pc'[r] # "loop")
  <2>1. PICK s \in {"last"} : s \in Stages /\ pc' = [pc EXCEPT ![r] = s]
    BY <1>1
  <2>2. Variant = "MIDDLE_JACOBI" => s # "loop"
    BY <2>1 DEF Stages
  <2> QED
    BY <2>1, <2>2 DEF Typed
<1>11. ASSUME NEW q \in Ranks, NEW p \in Ranks
       PROVE  Channel(q, p)' /\ Behind(q, p)'
  <2>1. SameSent(pc[q], pc'[q])
    BY <1>1, <1>10 DEF SameSent, NoneSent, MiddleUnsent, LastSent
  <2>2. CASE p # r
    <3>1. SameReceived(pc[p], pc'[p])
      BY <1>10, <2>2 DEF SameReceived
    <3>2. /\ FirstPending(q, p)' <=> FirstPending(q, p)
          /\ MiddlePending(q, p)' <=> MiddlePending(q, p)
          /\ LastPending(q, p)' <=> LastPending(q, p)
          /\ Behind(q, p)' <=> Behind(q, p)
      BY <1>1, <2>1, <3>1, PendingKept
    <3>3. Channel(q, p)'
      <4>1. \A t \in Tags : chan'[q][p][t] = chan[q][p][t]
        BY <1>8, <2>2 DEF Received
      <4> QED
        BY <1>1, <1>5, <3>2, <4>1, ChannelKept
    <3> QED
      BY <1>5, <3>2, <3>3
  <2>3. CASE p = r
    <3>1. /\ Variant' = Variant /\ FirstTag' = FirstTag /\ LastTag' = LastTag
          /\ For(r, FirstSet(q))' = For(r, FirstSet(q))
          /\ For(r, Middle(q))' = For(r, Middle(q))
          /\ For(r, LastSet(q))' = For(r, LastSet(q))
      BY <1>1, SameSets
    <3>2. /\ For(r, Middle(q)) # {} => chan'[q][r][tag] = Tail(chan[q][r][tag])
          /\ \A t \in Tags : t # tag \/ For(r, Middle(q)) = {} => chan'[q][r][t] = chan[q][r][t]
      <4>1. For(r, blocks[q]) = For(r, Middle(q))
        BY <1>4
      <4>2. For(r, blocks[q]) # {} => chan'[q][r][tag] = Tail(chan[q][r][tag])
        BY <1>8 DEF Received
      <4>3. \A t \in Tags : t # tag \/ For(r, blocks[q]) = {} => chan'[q][r][t] = chan[q][r][t]
        BY <1>8 DEF Received
      <4> QED
        BY <4>1, <4>2, <4>3
    <3>3. For(r, Middle(q)) # {} => chan[q][r][tag] # <<>>
      BY <1>4, <1>8 DEF Received
    <3>4. ~ MiddlePending(q, r)' /\ (For(r, Middle(q)) = {} => ~ MiddlePending(q, r))
      BY <1>10 DEF MiddlePending, MiddleUnreceived
    <3>5. /\ ~ FirstPending(q, r)' /\ ~ FirstPending(q, r)
          /\ LastPending(q, r)' <=> LastPending(q, r)
      BY <1>1, <1>10, <2>1, <3>1
         DEF FirstPending, LastPending, NoneReceived, LastSent, LastReceived, SameSent
    <3>6. chan'[q][r][FirstTag] = Queue(FALSE, For(r, FirstSet(q)), FALSE, For(r, Middle(q)))
      <4>1. CASE For(r, Middle(q)) # {} /\ FirstTag = "BOTTOM"
        BY <1>2, <1>7, <3>2, <3>3, <4>1 DEF tag
      <4>2. CASE For(r, Middle(q)) = {} \/ FirstTag # "BOTTOM"
        BY <1>1, <1>2, <1>5, <3>2, <3>4, <3>5, <4>2 DEF tag, Channel, Queue
      <4> QED
        BY <4>1, <4>2
    <3>7. chan'[q][r][LastTag] =
            Queue(FALSE, For(r, Middle(q)), LastPending(q, r), For(r, LastSet(q)))
      <4>1. CASE For(r, Middle(q)) # {} /\ LastTag = "BOTTOM"
        BY <1>2, <1>7, <3>2, <3>3, <4>1 DEF tag
      <4>2. CASE For(r, Middle(q)) = {} \/ LastTag # "BOTTOM"
        BY <1>1, <1>2, <1>5, <3>2, <3>4, <4>2 DEF tag, Channel, Queue
      <4> QED
        BY <4>1, <4>2
    <3>8. Channel(q, r)'
      BY <1>1, <3>1, <3>4, <3>5, <3>6, <3>7 DEF Channel, Queue
    <3>9. Behind(q, r)'
      <4>1. For(r, Middle(q)) # {} => pc[q] \notin MiddleUnsent
        BY <1>7, <3>3 DEF MiddlePending
      <4> QED
        BY <1>1, <1>5, <1>10, <2>1, <3>1, <4>1
           DEF Behind, SameSent, NoneReceived, LastReceived
    <3> QED
      BY <2>3, <3>8, <3>9
  <2> QED
    BY <2>2, <2>3
<1>12. Channels' /\ Waited'
  BY <1>11 DEF Channels, Waited
<1>13. \A n \in External(r) : n \in Nodes
  BY Images
<1>14. ASSUME NEW n \in External(r)
       PROVE  image'[r][n] = IF n \in Middle(Owner(n)) THEN iters + 1 ELSE image[r][n]
  <2>1. (\E q \in Ranks : n \in For(r, blocks[q])) <=> n \in Middle(Owner(n))
    BY <1>4, Needed
  <2> QED
    BY <1>8, <1>13, <2>1 DEF Received
<1>15. ASSUME NEW n
       PROVE  n \in fin'[r] <=> n \in fin[r] \/ (n \in External(r) /\ n \in Middle(Owner(n)))
  <2>1. (\E q \in Ranks : n \in For(r, blocks[q])) <=> n \in External(r) /\ n \in Middle(Owner(n))
    BY <1>4, Needed
  <2> QED
    BY <1>8, <2>1 DEF Received
<1>16. \A p \in Ranks : p # r => image'[p] = image[p] /\ fin'[p] = fin[p]
  BY <1>8 DEF Received
<1> QED
  BY <1>9, <1>12, <1>14, <1>15, <1>16

(* When the last set arrives nothing is left in the channels to this rank. *)
LEMMA LastReceives ==
    ASSUME IInv, NEW r \in Ranks, RecvLast(r)
    PROVE  /\ Typed' /\ Channels' /\ Waited'
           /\ \A p \in Ranks : p # r => image'[p] = image[p] /\ fin'[p] = fin[p]
           /\ \A n \in External(r) : image'[r][n] =
                IF n \in LastSet(Owner(n)) THEN iters + 1 ELSE image[r][n]
           /\ \A n : n \in fin'[r] <=> n \in fin[r] \/ (n \in External(r) /\ n \in LastSet(Owner(n)))
<1> USE DEF IInv
<1> DEFINE blocks == [q \in Ranks |-> LastSet(q)]
           tag == LastTag
<1>1. /\ Variant # "BOUNDARY_JACOBI" /\ pc[r] = "recvlast" /\ UNCHANGED <<fixed, iters, R, mail>>
      /\ \E before : ComRecv(r, blocks, tag, before)
      /\ \E s \in {"reduce"} : s \in Stages /\ pc' = [pc EXCEPT ![r] = s]
      /\ left' \in [Ranks -> SUBSET Nodes] /\ landed' \in [Ranks -> SUBSET Nodes]
  <2>1. Variant # "BOUNDARY_JACOBI" /\ pc[r] = "recvlast"
    BY StageOf DEF RecvLast
  <2>2. \E s \in {"reduce"} : s \in Stages /\ pc' = [pc EXCEPT ![r] = s]
    BY <2>1 DEF RecvLast, To, Stages
  <2>3. left' \in [Ranks -> SUBSET Nodes] /\ landed' \in [Ranks -> SUBSET Nodes]
    <3>1. Middle(r) \in SUBSET Nodes
      BY Sides DEF Mine
    <3> QED
      BY <3>1 DEF RecvLast, Typed
  <2> QED
    BY <2>1, <2>2, <2>3 DEF RecvLast
<1>2. /\ tag \in Tags /\ FirstTag \in Tags /\ LastTag \in Tags /\ FirstTag # LastTag
      /\ Tags = {FirstTag, LastTag} /\ blocks \in [Ranks -> SUBSET Nodes]
  BY Sides DEF Tags, Mine
<1>3. PICK before : ComRecv(r, blocks, tag, before)
  BY <1>1
<1>4. \A q \in Ranks : blocks[q] = LastSet(q)
  OBVIOUS
<1> HIDE DEF blocks
<1>5. \A q, p \in Ranks : Channel(q, p) /\ Behind(q, p)
  BY <1>1 DEF Channels, Waited
<1>6. \A q, p \in Ranks : /\ For(p, FirstSet(q)) \in SUBSET Nodes /\ For(p, Middle(q)) \in SUBSET Nodes
                         /\ For(p, LastSet(q)) \in SUBSET Nodes
  BY Sides DEF For, Mine
<1>7. ASSUME NEW q \in Ranks, For(r, LastSet(q)) # {}, chan[q][r][tag] # <<>>
      PROVE  /\ LastPending(q, r) /\ Head(chan[q][r][tag]) = For(r, LastSet(q))
             /\ Tail(chan[q][r][tag]) = Queue(FALSE, For(r, Middle(q)), FALSE, For(r, LastSet(q)))
  <2> DEFINE Y == For(r, Middle(q))
             Z == For(r, LastSet(q))
             lp == LastPending(q, r)
  <2>1. chan[q][r][tag] = Queue(FALSE, Y, lp, Z)
    <3>1. ~ MiddlePending(q, r)
      BY <1>1 DEF MiddlePending, MiddleUnreceived
    <3> QED
      BY <1>1, <1>5, <3>1 DEF Channel, Queue
  <2>2. Y \in SUBSET Nodes /\ Z \in SUBSET Nodes /\ lp \in BOOLEAN
    BY <1>6 DEF LastPending
  <2> HIDE DEF Y, Z, lp
  <2>4. /\ Queue(FALSE, Y, lp, Z) # <<>> => lp
        /\ lp => /\ Head(Queue(FALSE, Y, lp, Z)) = Z
                 /\ Tail(Queue(FALSE, Y, lp, Z)) = Queue(FALSE, Y, FALSE, Z)
    BY <2>2, Queues
  <2>3. lp /\ Head(chan[q][r][tag]) = Z /\ Tail(chan[q][r][tag]) = Queue(FALSE, Y, FALSE, Z)
    BY <1>7, <2>1, <2>4
  <2> QED
    BY <2>3 DEF Y, Z, lp
<1> HIDE DEF tag
<1>8. Received(r, blocks, tag)
  <2>1. HeadsAre(r, blocks, tag)
    BY <1>4, <1>7 DEF HeadsAre
  <2> QED
    BY <1>2, <1>3, <2>1, Receiving
<1>9. Typed'
  <2>1. Stages' = Stages
    BY <1>1, SameSets
  <2>2. /\ chan' \in [Ranks -> [Ranks -> [Tags -> Seq(SUBSET Nodes)]]]
        /\ image' \in [Ranks -> [Nodes -> Nat]] /\ fin' \in [Ranks -> SUBSET Nodes]
    BY <1>8 DEF Received
  <2>3. pc' \in [Ranks -> Stages]
    BY <1>1 DEF Typed
  <2> QED
    BY <1>1, <2>1, <2>2, <2>3 DEF Typed
<1>10. /\ \A q \in Ranks : q # r => pc'[q] = pc[q]
       /\ pc'[r] \in {"reduce"} /\ (Variant = "MIDDLE_JACOBI" => pc'[r] # "loop")
  <2>1. PICK s \in {"reduce"} : s \in Stages /\ pc' = [pc EXCEPT ![r] = s]
    BY <1>1
  <2>2. Variant = "MIDDLE_JACOBI" => s # "loop"
    BY <2>1 DEF Stages
  <2> QED
    BY <2>1, <2>2 DEF Typed
<1>11. ASSUME NEW q \in Ranks, NEW p \in Ranks
       PROVE  Channel(q, p)' /\ Behind(q, p)'
  <2>1. SameSent(pc[q], pc'[q])
    BY <1>1, <1>10 DEF SameSent, NoneSent, MiddleUnsent, LastSent
  <2>2. CASE p # r
    <3>1. SameReceived(pc[p], pc'[p])
      BY <1>10, <2>2 DEF SameReceived
    <3>2. /\ FirstPending(q, p)' <=> FirstPending(q, p)
          /\ MiddlePending(q, p)' <=> MiddlePending(q, p)
          /\ LastPending(q, p)' <=> LastPending(q, p)
          /\ Behind(q, p)' <=> Behind(q, p)
      BY <1>1, <2>1, <3>1, PendingKept
    <3>3. Channel(q, p)'
      <4>1. \A t \in Tags : chan'[q][p][t] = chan[q][p][t]
        BY <1>8, <2>2 DEF Received
      <4> QED
        BY <1>1, <1>5, <3>2, <4>1, ChannelKept
    <3> QED
      BY <1>5, <3>2, <3>3
  <2>3. CASE p = r
    <3>1. /\ Variant' = Variant /\ FirstTag' = FirstTag /\ LastTag' = LastTag
          /\ For(r, FirstSet(q))' = For(r, FirstSet(q))
          /\ For(r, Middle(q))' = For(r, Middle(q))
          /\ For(r, LastSet(q))' = For(r, LastSet(q))
      BY <1>1, SameSets
    <3>2. /\ For(r, LastSet(q)) # {} => chan'[q][r][tag] = Tail(chan[q][r][tag])
          /\ \A t \in Tags : t # tag \/ For(r, LastSet(q)) = {} => chan'[q][r][t] = chan[q][r][t]
      <4>1. For(r, blocks[q]) = For(r, LastSet(q))
        BY <1>4
      <4>2. For(r, blocks[q]) # {} => chan'[q][r][tag] = Tail(chan[q][r][tag])
        BY <1>8 DEF Received
      <4>3. \A t \in Tags : t # tag \/ For(r, blocks[q]) = {} => chan'[q][r][t] = chan[q][r][t]
        BY <1>8 DEF Received
      <4> QED
        BY <4>1, <4>2, <4>3
    <3>3. For(r, LastSet(q)) # {} => chan[q][r][tag] # <<>>
      BY <1>4, <1>8 DEF Received
    <3>4. ~ LastPending(q, r)' /\ (For(r, LastSet(q)) = {} => ~ LastPending(q, r))
      BY <1>10 DEF LastPending, LastReceived
    <3>5. /\ ~ FirstPending(q, r)' /\ ~ FirstPending(q, r)
          /\ ~ MiddlePending(q, r)' /\ ~ MiddlePending(q, r)
      BY <1>1, <1>10 DEF FirstPending, MiddlePending, NoneReceived, MiddleUnreceived
    <3>6. chan'[q][r][FirstTag] = chan[q][r][FirstTag]
      BY <1>2, <3>2 DEF tag
    <3>7. chan'[q][r][LastTag] = Queue(FALSE, For(r, Middle(q)), FALSE, For(r, LastSet(q)))
      <4>1. CASE For(r, LastSet(q)) # {}
        BY <1>2, <1>7, <3>2, <3>3, <4>1 DEF tag
      <4>2. CASE For(r, LastSet(q)) = {}
        BY <1>1, <1>2, <1>5, <3>2, <3>4, <3>5, <4>2 DEF tag, Channel, Queue
      <4> QED
        BY <4>1, <4>2
    <3>8. Channel(q, r)'
      BY <1>1, <1>5, <3>1, <3>4, <3>5, <3>6, <3>7 DEF Channel, Queue
    <3>9. Behind(q, r)'
      <4>1. For(r, LastSet(q)) # {} => pc[q] \in LastSent
        BY <1>7, <3>3 DEF LastPending
      <4> QED
        BY <1>1, <1>5, <1>10, <2>1, <3>1, <4>1
           DEF Behind, SameSent, NoneReceived, MiddleUnreceived
    <3> QED
      BY <2>3, <3>8, <3>9
  <2> QED
    BY <2>2, <2>3
<1>12. Channels' /\ Waited'
  BY <1>11 DEF Channels, Waited
<1>13. \A n \in External(r) : n \in Nodes
  BY Images
<1>14. ASSUME NEW n \in External(r)
       PROVE  image'[r][n] = IF n \in LastSet(Owner(n)) THEN iters + 1 ELSE image[r][n]
  <2>1. (\E q \in Ranks : n \in For(r, blocks[q])) <=> n \in LastSet(Owner(n))
    BY <1>4, Needed
  <2> QED
    BY <1>8, <1>13, <2>1 DEF Received
<1>15. ASSUME NEW n
       PROVE  n \in fin'[r] <=> n \in fin[r] \/ (n \in External(r) /\ n \in LastSet(Owner(n)))
  <2>1. (\E q \in Ranks : n \in For(r, blocks[q])) <=> n \in External(r) /\ n \in LastSet(Owner(n))
    BY <1>4, Needed
  <2> QED
    BY <1>8, <2>1 DEF Received
<1>16. \A p \in Ranks : p # r => image'[p] = image[p] /\ fin'[p] = fin[p]
  BY <1>8 DEF Received
<1> QED
  BY <1>9, <1>12, <1>14, <1>15, <1>16

-----------------------------------------------------------------------------
(* A middle node of a rank that keeps its stage and its middle nodes. *)
LEMMA SentElsewhere ==
    ASSUME UNCHANGED <<fixed, iters>>, NEW n, pc'[Owner(n)] = pc[Owner(n)], left'[Owner(n)] = left[Owner(n)]
    PROVE  Sent(n)' <=> Sent(n)
<1>1. Owner(n)' = Owner(n)
  BY SameSets
<1> QED
  BY <1>1 DEF Sent

(* What a rank must bring about as it passes from one stage to another. *)
Passes(r) ==
    /\ Variant = "FULL" =>
         /\ \A n \in Middle(r) : Sent(n)' <=> Sent(n)
         /\ pc'[r] = "loop" => left'[r] \subseteq Middle(r) /\ landed'[r] \subseteq MidUpd(r)
         /\ \A n \in MidUpd(r) : Has(r, n)' => Has(r, n)
    /\ \A n \in fin'[r] : n \in External(r) /\ Has(r, n)'
    /\ \A n \in External(r) : Has(r, n)' => n \in fin'[r] \/ (pc'[r] = "loop" /\ n \in Middle(Owner(n)))
    /\ \A n \in External(r) : image'[r][n] = IF Has(r, n)' THEN iters + 1 ELSE iters

(* Then the invariants of nodes are kept. *)
LEMMA RestKept ==
    ASSUME IInv, UNCHANGED <<fixed, iters, mail>>, NEW r \in Ranks, Variant # "BOUNDARY_JACOBI",
           pc[r] # "end", pc'[r] # "end", Passes(r),
           \A p \in Ranks : p # r =>
                /\ pc'[p] = pc[p] /\ image'[p] = image[p] /\ fin'[p] = fin[p]
                /\ left'[p] = left[p] /\ landed'[p] = landed[p]
    PROVE  Rest'
<1> USE DEF IInv, Rest
<1>1. /\ Variant' = Variant
      /\ \A p : MidUpd(p)' = MidUpd(p) /\ External(p)' = External(p) /\ Middle(p)' = Middle(p)
      /\ \A n : Owner(n)' = Owner(n) /\ AdjExt(n)' = AdjExt(n)
      /\ \A m, n : Precedes(m, n)' = Precedes(m, n)
  BY SameSets
<1>2. \A p \in Ranks : p # r => \A n : Has(p, n)' <=> Has(p, n)
  BY HasElsewhere
<1>3. \A n \in Nodes : /\ (n \in Middle(Owner(n)))' <=> n \in Middle(Owner(n))
                       /\ Variant = "FULL" /\ n \in Middle(Owner(n)) => (Sent(n)' <=> Sent(n))
  <2>1. TAKE n \in Nodes
  <2>2. (n \in Middle(Owner(n)))' <=> n \in Middle(Owner(n))
    BY <1>1
  <2>3. Owner(n) \in Ranks
    BY DEF Fixed, Neighbours, Owner
  <2>4. n \in Middle(Owner(n)) /\ Owner(n) # r => (Sent(n)' <=> Sent(n))
    BY <2>3, SentElsewhere
  <2>5. Variant = "FULL" /\ n \in Middle(Owner(n)) /\ Owner(n) = r => (Sent(n)' <=> Sent(n))
    BY DEF Passes
  <2> QED
    BY <2>2, <2>4, <2>5
<1>4. \A p \in Ranks : \A n : n \in MidUpd(p) <=> n \in External(p) /\ n \in Middle(Owner(n))
  BY Images
<1>5. \A p \in Ranks : \A n \in External(p) : n \in Nodes
  BY Images
<1>6. Middles'
  <2>1. SUFFICES ASSUME Variant = "FULL"
        PROVE  /\ \A p \in Ranks : pc'[p] = "loop" => left'[p] \subseteq Middle(p)
               /\ \A p \in Ranks : pc'[p] = "loop" => landed'[p] \subseteq MidUpd(p)
               /\ \A p \in Ranks : \A n \in MidUpd(p) : Has(p, n)' => Sent(n)'
               /\ \A p \in Ranks : \A n \in Nodes : \A v \in Nat : <<n, p, v>> \in mail' =>
                    n \in MidUpd(p) /\ Sent(n)' /\ ~ Has(p, n)' /\ v = iters + 1
    BY <1>1 DEF Middles
  <2>2. \A p \in Ranks : pc'[p] = "loop" => left'[p] \subseteq Middle(p) /\ landed'[p] \subseteq MidUpd(p)
    <3>1. TAKE p \in Ranks
    <3>2. CASE p = r
      BY <2>1, <3>2 DEF Passes
    <3>3. CASE p # r
      BY <2>1, <3>3 DEF Middles
    <3> QED
      BY <3>2, <3>3
  <2>3. \A p \in Ranks : \A n \in MidUpd(p) : (Has(p, n)' => Has(p, n)) /\ (Sent(n)' <=> Sent(n))
    <3>1. TAKE p \in Ranks
    <3>2. TAKE n \in MidUpd(p)
    <3>3. Sent(n)' <=> Sent(n)
      BY <1>3, <1>4, <1>5, <2>1
    <3>4. Has(p, n)' => Has(p, n)
      BY <1>2, <2>1 DEF Passes
    <3> QED
      BY <3>3, <3>4
  <2>4. /\ \A p \in Ranks : \A n \in MidUpd(p) : Has(p, n) => Sent(n)
        /\ \A p \in Ranks : \A n \in Nodes : \A v \in Nat : <<n, p, v>> \in mail =>
             n \in MidUpd(p) /\ Sent(n) /\ ~ Has(p, n) /\ v = iters + 1
    BY <2>1 DEF Middles
  <2> QED
    BY <2>2, <2>3, <2>4
<1>7. NoMailBy'
  BY <1>1 DEF NoMailBy
<1>8. DoneIsThere'
  <2>1. SUFFICES ASSUME NEW p \in Ranks, pc'[p] # "first"
        PROVE  /\ \A n \in fin'[p] : n \in External(p) /\ Has(p, n)'
               /\ \A n \in External(p) : Has(p, n)' => n \in fin'[p] \/ (pc'[p] = "loop" /\ n \in Middle(Owner(n)))
    BY <1>1 DEF DoneIsThere
  <2>2. CASE p = r
    BY <2>2 DEF Passes
  <2>3. CASE p # r
    BY <1>2, <2>1, <2>3 DEF DoneIsThere
  <2> QED
    BY <2>2, <2>3
<1>9. Fresh'
  <2>1. SUFFICES ASSUME NEW p \in Ranks, NEW n \in External(p), pc'[p] # "end"
        PROVE  image'[p][n] = IF Has(p, n)' THEN iters + 1 ELSE iters
    BY <1>1 DEF Fresh
  <2>2. CASE p = r
    BY <2>2 DEF Passes
  <2>3. CASE p # r
    BY <1>2, <2>1, <2>3 DEF Fresh
  <2> QED
    BY <2>2, <2>3
<1>10. InOrder'
  <2>1. SUFFICES ASSUME Variant = "FULL", NEW m \in Nodes, m \in Middle(Owner(m)), Sent(m)',
                        NEW n \in AdjExt(m), Precedes(n, m), n \in Middle(Owner(n))
        PROVE  Sent(n)'
    BY <1>1, <1>3 DEF InOrder
  <2>2. n \in Nodes
    BY DEF Fixed, Neighbours, AdjExt
  <2> QED
    BY <1>3, <2>1, <2>2 DEF InOrder
<1>11. AllTogether'
  BY DEF AllTogether
<1>12. Swept'
  BY <1>1 DEF Swept
<1> QED
  BY <1>6, <1>7, <1>8, <1>9, <1>10, <1>11, <1>12

-----------------------------------------------------------------------------
(* The steps from stage to stage. *)
LEMMA FirstStep ==
    ASSUME IInv, NEW r \in Ranks, First(r)
    PROVE  IInv'
<1> USE DEF IInv
<1>1. /\ Variant # "BOUNDARY_JACOBI" /\ pc[r] = "first" /\ UNCHANGED <<fixed, iters, mail>>
      /\ pc' = [pc EXCEPT ![r] = "recvfirst"] /\ fin' = [fin EXCEPT ![r] = {}]
      /\ UNCHANGED <<image, left, landed>>
  BY DEF First, To
<1>2. /\ pc'[r] = "recvfirst" /\ fin'[r] = {}
      /\ \A p \in Ranks : p # r => pc'[p] = pc[p] /\ fin'[p] = fin[p]
  BY <1>1 DEF Typed
<1>3. \A n : ~ Has(r, n) /\ ~ Has(r, n)'
  BY <1>1, <1>2 DEF Has, NoneReceived, LastReceived
<1>4. \A n \in Middle(r) : ~ Sent(n) /\ ~ Sent(n)'
  <2>1. TAKE n \in Middle(r)
  <2>2. Owner(n) = r /\ Owner(n)' = r
    BY <1>1, Sides, SameSets DEF Mine
  <2> QED
    BY <1>1, <1>2, <2>2 DEF Sent
<1>5. Passes(r)
  <2>1. \A n \in External(r) : image'[r][n] = iters
    BY <1>1, <1>3 DEF Rest, Fresh
  <2> QED
    BY <1>2, <1>3, <1>4, <2>1 DEF Passes
<1>6. Rest'
  BY <1>1, <1>2, <1>5, RestKept
<1> QED
  BY <1>1, <1>6, FirstSends, FixedKept

(* The first sets arrive; the loop starts with nothing landed. *)
LEMMA RecvFirstStep ==
    ASSUME IInv, NEW r \in Ranks, RecvFirst(r)
    PROVE  IInv'
<1> USE DEF IInv
<1>1. /\ Variant # "BOUNDARY_JACOBI" /\ pc[r] = "recvfirst" /\ UNCHANGED <<fixed, iters, mail>>
      /\ pc' = [pc EXCEPT ![r] = IF Variant = "FULL" THEN "loop" ELSE "middle"]
      /\ left' = [left EXCEPT ![r] = Middle(r)] /\ landed' = [landed EXCEPT ![r] = {}]
  BY StageOf DEF RecvFirst, To
<1>2. /\ pc'[r] = IF Variant = "FULL" THEN "loop" ELSE "middle"
      /\ left'[r] = Middle(r) /\ landed'[r] = {}
      /\ \A p \in Ranks : p # r => pc'[p] = pc[p] /\ left'[p] = left[p] /\ landed'[p] = landed[p]
  BY <1>1 DEF Typed
<1>3. \A n \in External(r) : ~ Has(r, n) /\ (Has(r, n)' <=> n \in FirstSet(Owner(n)))
  <2>1. TAKE n \in External(r)
  <2>2. (n \in FirstSet(Owner(n)))' <=> n \in FirstSet(Owner(n))
    BY <1>1, SameSets
  <2> QED
    BY <1>1, <1>2, <2>2 DEF Has, NoneReceived, LastReceived
<1>4. \A n \in Middle(r) : ~ Sent(n) /\ ~ Sent(n)'
  <2>1. TAKE n \in Middle(r)
  <2>2. Owner(n) = r /\ Owner(n)' = r
    BY <1>1, Sides, SameSets DEF Mine
  <2> QED
    BY <1>1, <1>2, <2>2 DEF Sent
<1>5. /\ \A p \in Ranks : p # r => image'[p] = image[p] /\ fin'[p] = fin[p]
      /\ \A n \in External(r) : image'[r][n] =
           IF n \in FirstSet(Owner(n)) THEN iters + 1 ELSE image[r][n]
      /\ \A n : n \in fin'[r] <=> n \in fin[r] \/ (n \in External(r) /\ n \in FirstSet(Owner(n)))
  BY FirstReceives
<1>6. \A n \in External(r) : image[r][n] = iters
  BY <1>1, <1>3 DEF Rest, Fresh
<1>7. fin[r] = {}
  BY <1>1, <1>3 DEF Rest, DoneIsThere
<1>8. \A n \in MidUpd(r) : n \in External(r) /\ n \notin FirstSet(Owner(n))
  BY Images, Sides
<1>9. Passes(r)
  BY <1>2, <1>3, <1>4, <1>5, <1>6, <1>7, <1>8 DEF Passes
<1>10. Rest'
  BY <1>1, <1>2, <1>5, <1>9, RestKept
<1> QED
  BY <1>1, <1>10, FirstReceives, FixedKept

(* The loop ends when the reactions of all middle nodes have landed. *)
LEMMA DrainStep ==
    ASSUME IInv, NEW r \in Ranks, Drain(r)
    PROVE  IInv'
<1> USE DEF IInv
<1>1. /\ Variant = "FULL" /\ pc[r] = "loop" /\ UNCHANGED <<fixed, iters, mail, R, chan>>
      /\ left[r] = {} /\ MidUpd(r) \subseteq landed[r]
      /\ pc' = [pc EXCEPT ![r] = "last"] /\ fin' = [fin EXCEPT ![r] = @ \cup MidUpd(r)]
      /\ UNCHANGED <<image, left, landed>>
  BY StageOf DEF Drain, To
<1>2. /\ pc'[r] = "last" /\ fin'[r] = fin[r] \cup MidUpd(r)
      /\ \A p \in Ranks : p # r => pc'[p] = pc[p] /\ fin'[p] = fin[p]
  BY <1>1 DEF Typed
<1>3. \A n : n \in MidUpd(r) <=> n \in External(r) /\ n \in Middle(Owner(n))
  BY Images
<1>4. \A n \in External(r) : Has(r, n)' <=> Has(r, n)
  <2>1. TAKE n \in External(r)
  <2>2. /\ (n \in FirstSet(Owner(n)))' <=> n \in FirstSet(Owner(n))
        /\ (n \in Middle(Owner(n)))' <=> n \in Middle(Owner(n))
    BY <1>1, SameSets
  <2>3. n \in Middle(Owner(n)) => n \in landed[r]
    BY <1>1, <1>3
  <2> QED
    BY <1>1, <1>2, <2>2, <2>3 DEF Has, NoneReceived, LastReceived
<1>5. \A n \in Middle(r) : Sent(n) /\ Sent(n)'
  <2>1. TAKE n \in Middle(r)
  <2>2. Owner(n) = r /\ Owner(n)' = r
    BY <1>1, Sides, SameSets DEF Mine
  <2> QED
    BY <1>1, <1>2, <2>2 DEF Sent
<1>6. Passes(r)
  <2>1. /\ \A n \in fin[r] : n \in External(r) /\ Has(r, n)
        /\ \A n \in External(r) : Has(r, n) => n \in fin[r] \/ n \in Middle(Owner(n))
        /\ \A n \in External(r) : image[r][n] = IF Has(r, n) THEN iters + 1 ELSE iters
    BY <1>1 DEF Rest, DoneIsThere, Fresh
  <2>2. \A n \in MidUpd(r) : Has(r, n)
    BY <1>1, <1>3 DEF Has
  <2> QED
    BY <1>1, <1>2, <1>3, <1>4, <1>5, <2>1, <2>2 DEF Passes
<1>7. Rest'
  BY <1>1, <1>2, <1>6, RestKept
<1>8. Typed'
  <2>1. Stages' = Stages /\ "last" \in Stages
    BY <1>1, SameSets DEF Stages
  <2>2. MidUpd(r) \subseteq Nodes
    BY DEF MidUpd
  <2> QED
    BY <1>1, <2>1, <2>2 DEF Typed
<1>9. Channels' /\ Waited'
  <2>1. ASSUME NEW q \in Ranks, NEW p \in Ranks
        PROVE  Channel(q, p)' /\ Behind(q, p)'
    <3>1. SameSent(pc[q], pc'[q]) /\ SameReceived(pc[p], pc'[p])
      BY <1>1, <1>2 DEF SameSent, SameReceived, NoneSent, LastSent, NoneReceived, LastReceived
    <3>2. /\ FirstPending(q, p)' <=> FirstPending(q, p)
          /\ MiddlePending(q, p)' <=> MiddlePending(q, p)
          /\ LastPending(q, p)' <=> LastPending(q, p)
          /\ Behind(q, p)' <=> Behind(q, p)
      BY <1>1, <3>1, PendingKept
    <3>3. Channel(q, p) /\ Behind(q, p)
      BY <1>1 DEF Channels, Waited
    <3> QED
      BY <1>1, <3>2, <3>3, ChannelKept
  <2> QED
    BY <2>1 DEF Channels, Waited
<1> QED
  BY <1>1, <1>7, <1>8, <1>9, FixedKept

(* MIDDLE_JACOBI: all middle nodes are computed at once and sent. *)
LEMMA JacobiMiddleStep ==
    ASSUME IInv, NEW r \in Ranks, JacobiMiddle(r)
    PROVE  IInv'
<1> USE DEF IInv
<1>1. /\ Variant = "MIDDLE_JACOBI" /\ pc[r] = "middle" /\ UNCHANGED <<fixed, iters, mail>>
      /\ pc' = [pc EXCEPT ![r] = "recvmiddle"] /\ UNCHANGED <<image, fin, left, landed>>
  BY StageOf DEF JacobiMiddle, To
<1>2. pc'[r] = "recvmiddle" /\ \A p \in Ranks : p # r => pc'[p] = pc[p]
  BY <1>1 DEF Typed
<1>3. \A n \in External(r) : Has(r, n)' <=> Has(r, n)
  <2>1. TAKE n \in External(r)
  <2>2. (n \in FirstSet(Owner(n)))' <=> n \in FirstSet(Owner(n))
    BY <1>1, SameSets
  <2> QED
    BY <1>1, <1>2, <2>2 DEF Has, NoneReceived, LastReceived
<1>4. \A n \in Middle(r) : ~ Sent(n) /\ ~ Sent(n)'
  <2>1. TAKE n \in Middle(r)
  <2>2. Owner(n) = r /\ Owner(n)' = r
    BY <1>1, Sides, SameSets DEF Mine
  <2> QED
    BY <1>1, <1>2, <2>2 DEF Sent
<1>5. Passes(r)
  <2>1. /\ \A n \in fin[r] : n \in External(r) /\ Has(r, n)
        /\ \A n \in External(r) : Has(r, n) => n \in fin[r]
        /\ \A n \in External(r) : image[r][n] = IF Has(r, n) THEN iters + 1 ELSE iters
    BY <1>1 DEF Rest, DoneIsThere, Fresh
  <2> QED
    BY <1>1, <1>3, <1>4, <2>1 DEF Passes
<1>6. Rest'
  BY <1>1, <1>2, <1>5, RestKept
<1> QED
  BY <1>1, <1>6, MiddleSends, FixedKept

(* MIDDLE_JACOBI: the middle sets of the others arrive. *)
LEMMA RecvMiddleStep ==
    ASSUME IInv, NEW r \in Ranks, RecvMiddle(r)
    PROVE  IInv'
<1> USE DEF IInv
<1>1. /\ Variant = "MIDDLE_JACOBI" /\ pc[r] = "recvmiddle" /\ UNCHANGED <<fixed, iters, mail>>
      /\ pc' = [pc EXCEPT ![r] = "last"] /\ UNCHANGED <<left, landed>>
  BY StageOf DEF RecvMiddle, To
<1>2. pc'[r] = "last" /\ \A p \in Ranks : p # r => pc'[p] = pc[p]
  BY <1>1 DEF Typed
<1>3. \A n \in External(r) : Has(r, n)' <=> Has(r, n) \/ n \in Middle(Owner(n))
  <2>1. TAKE n \in External(r)
  <2>2. /\ (n \in FirstSet(Owner(n)))' <=> n \in FirstSet(Owner(n))
        /\ (n \in Middle(Owner(n)))' <=> n \in Middle(Owner(n))
    BY <1>1, SameSets
  <2> QED
    BY <1>1, <1>2, <2>2 DEF Has, NoneReceived, LastReceived
<1>4. /\ \A p \in Ranks : p # r => image'[p] = image[p] /\ fin'[p] = fin[p]
      /\ \A n \in External(r) : image'[r][n] =
           IF n \in Middle(Owner(n)) THEN iters + 1 ELSE image[r][n]
      /\ \A n : n \in fin'[r] <=> n \in fin[r] \/ (n \in External(r) /\ n \in Middle(Owner(n)))
  BY MiddleReceives
<1>5. Passes(r)
  <2>1. /\ \A n \in fin[r] : n \in External(r) /\ Has(r, n)
        /\ \A n \in External(r) : Has(r, n) => n \in fin[r]
        /\ \A n \in External(r) : image[r][n] = IF Has(r, n) THEN iters + 1 ELSE iters
    BY <1>1 DEF Rest, DoneIsThere, Fresh
  <2> QED
    BY <1>1, <1>2, <1>3, <1>4, <2>1 DEF Passes
<1>6. Rest'
  BY <1>1, <1>2, <1>4, <1>5, RestKept
<1> QED
  BY <1>1, <1>6, MiddleReceives, FixedKept

(* The last set is computed and sent. *)
LEMMA LastStep ==
    ASSUME IInv, NEW r \in Ranks, Last(r)
    PROVE  IInv'
<1> USE DEF IInv
<1>1. /\ Variant # "BOUNDARY_JACOBI" /\ pc[r] = "last" /\ UNCHANGED <<fixed, iters, mail>>
      /\ pc' = [pc EXCEPT ![r] = "recvlast"] /\ UNCHANGED <<image, fin, left, landed>>
  BY StageOf DEF Last, To
<1>2. pc'[r] = "recvlast" /\ \A p \in Ranks : p # r => pc'[p] = pc[p]
  BY <1>1 DEF Typed
<1>3. \A n \in External(r) : Has(r, n)' <=> Has(r, n)
  <2>1. TAKE n \in External(r)
  <2>2. /\ (n \in FirstSet(Owner(n)))' <=> n \in FirstSet(Owner(n))
        /\ (n \in Middle(Owner(n)))' <=> n \in Middle(Owner(n))
    BY <1>1, SameSets
  <2> QED
    BY <1>1, <1>2, <2>2 DEF Has, NoneReceived, LastReceived
<1>4. \A n \in Middle(r) : Sent(n) /\ Sent(n)'
  <2>1. TAKE n \in Middle(r)
  <2>2. Owner(n) = r /\ Owner(n)' = r
    BY <1>1, Sides, SameSets DEF Mine
  <2> QED
    BY <1>1, <1>2, <2>2 DEF Sent
<1>5. Passes(r)
  <2>1. /\ \A n \in fin[r] : n \in External(r) /\ Has(r, n)
        /\ \A n \in External(r) : Has(r, n) => n \in fin[r]
        /\ \A n \in External(r) : image[r][n] = IF Has(r, n) THEN iters + 1 ELSE iters
    BY <1>1 DEF Rest, DoneIsThere, Fresh
  <2>2. \A n \in MidUpd(r) : n \in External(r)
    BY Images
  <2> QED
    BY <1>1, <1>2, <1>3, <1>4, <2>1, <2>2 DEF Passes
<1>6. Rest'
  BY <1>1, <1>2, <1>5, RestKept
<1> QED
  BY <1>1, <1>6, LastSends, FixedKept

(* The last sets arrive, and all external reactions are there. *)
LEMMA RecvLastStep ==
    ASSUME IInv, NEW r \in Ranks, RecvLast(r)
    PROVE  IInv'
<1> USE DEF IInv
<1>1. /\ Variant # "BOUNDARY_JACOBI" /\ pc[r] = "recvlast" /\ UNCHANGED <<fixed, iters, mail>>
      /\ pc' = [pc EXCEPT ![r] = "reduce"] /\ UNCHANGED <<left, landed>>
  BY StageOf DEF RecvLast, To
<1>2. pc'[r] = "reduce" /\ \A p \in Ranks : p # r => pc'[p] = pc[p]
  BY <1>1 DEF Typed
<1>3. \A n \in External(r) : Has(r, n)' <=> Has(r, n) \/ n \in LastSet(Owner(n))
  <2>1. TAKE n \in External(r)
  <2>2. /\ (n \in FirstSet(Owner(n)))' <=> n \in FirstSet(Owner(n))
        /\ (n \in Middle(Owner(n)))' <=> n \in Middle(Owner(n))
        /\ (n \in LastSet(Owner(n)))' <=> n \in LastSet(Owner(n))
    BY <1>1, SameSets
  <2> QED
    BY <1>1, <1>2, <2>2 DEF Has, NoneReceived, LastReceived
<1>4. \A n \in Middle(r) : Sent(n) /\ Sent(n)'
  <2>1. TAKE n \in Middle(r)
  <2>2. Owner(n) = r /\ Owner(n)' = r
    BY <1>1, Sides, SameSets DEF Mine
  <2> QED
    BY <1>1, <1>2, <2>2 DEF Sent
<1>5. /\ \A p \in Ranks : p # r => image'[p] = image[p] /\ fin'[p] = fin[p]
      /\ \A n \in External(r) : image'[r][n] =
           IF n \in LastSet(Owner(n)) THEN iters + 1 ELSE image[r][n]
      /\ \A n : n \in fin'[r] <=> n \in fin[r] \/ (n \in External(r) /\ n \in LastSet(Owner(n)))
  BY LastReceives
<1>6. Passes(r)
  <2>1. /\ \A n \in fin[r] : n \in External(r) /\ Has(r, n)
        /\ \A n \in External(r) : Has(r, n) => n \in fin[r]
        /\ \A n \in External(r) : image[r][n] = IF Has(r, n) THEN iters + 1 ELSE iters
    BY <1>1 DEF Rest, DoneIsThere, Fresh
  <2>2. \A n \in MidUpd(r) : n \in External(r) /\ n \notin LastSet(Owner(n))
    BY Images, Sides
  <2> QED
    BY <1>1, <1>2, <1>3, <1>4, <1>5, <2>1, <2>2 DEF Passes
<1>7. Rest'
  BY <1>1, <1>2, <1>5, <1>6, RestKept
<1> QED
  BY <1>1, <1>7, LastReceives, FixedKept

-----------------------------------------------------------------------------
(* A step that leaves stages, sends and receives as they are. *)
LEMMA CommKept ==
    ASSUME IInv, UNCHANGED <<fixed, iters, pc, chan>>
    PROVE  Channels' /\ Waited'
<1>1. ASSUME NEW q \in Ranks, NEW p \in Ranks
      PROVE  Channel(q, p)' /\ (Variant # "BOUNDARY_JACOBI" => Behind(q, p)')
  <2>1. SameSent(pc[q], pc'[q]) /\ SameReceived(pc[p], pc'[p])
    BY DEF SameSent, SameReceived
  <2>2. /\ FirstPending(q, p)' <=> FirstPending(q, p)
        /\ MiddlePending(q, p)' <=> MiddlePending(q, p)
        /\ LastPending(q, p)' <=> LastPending(q, p)
        /\ Behind(q, p)' <=> Behind(q, p)
    BY <2>1, PendingKept
  <2>3. Channel(q, p) /\ (Variant # "BOUNDARY_JACOBI" => Behind(q, p))
    BY DEF IInv, Channels, Waited
  <2> QED
    BY <2>2, <2>3, ChannelKept
<1>2. Variant' = Variant
  BY SameSets
<1> QED
  BY <1>1, <1>2 DEF Channels, Waited

(* The reaction that arrives is of this iteration. *)
LEMMA LandStep ==
    ASSUME IInv, NEW r \in Ranks, NEW n \in Nodes, Land(r, n)
    PROVE  IInv'
<1> USE DEF IInv, Rest
<1>1. PICK v \in 1 .. MaxIter :
        /\ <<n, r, v>> \in mail /\ mail' = mail \ {<<n, r, v>>}
        /\ image' = [image EXCEPT ![r][n] = v]
  BY DEF Land
<1>2. /\ Variant = "FULL" /\ pc[r] = "loop" /\ n \in MidUpd(r) \ landed[r]
      /\ landed' = [landed EXCEPT ![r] = @ \cup {n}]
      /\ UNCHANGED <<fixed, iters, pc, R, fin, left, chan>>
  BY StageOf DEF Land
<1>3. v \in Nat
  BY GaussSeidelAssumption
<1>4. Sent(n) /\ v = iters + 1
  BY <1>1, <1>2, <1>3 DEF Middles
<1>5. /\ Variant' = Variant /\ Stages' = Stages
      /\ \A p : MidUpd(p)' = MidUpd(p) /\ External(p)' = External(p) /\ Middle(p)' = Middle(p)
      /\ \A m : Owner(m)' = Owner(m) /\ AdjExt(m)' = AdjExt(m)
      /\ \A m, k : Precedes(m, k)' = Precedes(m, k)
  BY <1>2, SameSets
<1>6. /\ landed'[r] = landed[r] \cup {n}
      /\ \A p \in Ranks : p # r => landed'[p] = landed[p] /\ image'[p] = image[p]
      /\ image'[r][n] = iters + 1 /\ \A m \in Nodes : m # n => image'[r][m] = image[r][m]
  BY <1>1, <1>2, <1>4 DEF Typed
<1>7. \A m : Sent(m)' <=> Sent(m)
  BY <1>2, <1>5 DEF Sent
<1>8. \A p \in Ranks : p # r => \A m : Has(p, m)' <=> Has(p, m)
  BY <1>2, <1>6, HasElsewhere
<1>9. \A p : \A m : m \in MidUpd(p) => m \in Nodes /\ m \in Middle(Owner(m))
  BY DEF MidUpd
<1>10. \A m : Has(r, m)' <=> Has(r, m) \/ m = n
  <2>1. TAKE m
  <2>2. /\ (m \in FirstSet(Owner(m)))' <=> m \in FirstSet(Owner(m))
        /\ (m \in Middle(Owner(m)))' <=> m \in Middle(Owner(m))
    BY <1>2, SameSets
  <2> QED
    BY <1>2, <1>6, <1>9, <2>2 DEF Has, NoneReceived, LastReceived
<1>11. \A p \in Ranks : \A m \in External(p) : m \in Nodes
  BY Images
<1>12. Typed'
  <2>1. image' \in [Ranks -> [Nodes -> Nat]]
    <3>1. image[r] \in [Nodes -> Nat] /\ image' = [image EXCEPT ![r] = [image[r] EXCEPT ![n] = v]]
      BY <1>1 DEF Typed
    <3> QED
      BY <1>3, <3>1 DEF Typed
  <2> QED
    BY <1>1, <1>2, <1>5, <2>1, SMTT(30) DEF Typed
<1>13. Middles'
  <2>1. \A p \in Ranks : pc'[p] = "loop" => landed'[p] \subseteq MidUpd(p)
    BY <1>2, <1>6 DEF Middles
  <2>2. \A p \in Ranks : \A m \in MidUpd(p) : Has(p, m)' => Sent(m)'
    BY <1>2, <1>4, <1>7, <1>8, <1>10 DEF Middles
  <2>3. ASSUME NEW p \in Ranks, NEW m \in Nodes, NEW w \in Nat, <<m, p, w>> \in mail'
        PROVE  m \in MidUpd(p) /\ Sent(m)' /\ ~ Has(p, m)' /\ w = iters + 1
    <3>1. <<m, p, w>> \in mail /\ (p # r \/ m # n \/ w # v)
      BY <1>1, <2>3
    <3>2. m \in MidUpd(p) /\ Sent(m) /\ ~ Has(p, m) /\ w = iters + 1
      BY <1>2, <3>1 DEF Middles
    <3> QED
      BY <1>4, <1>7, <1>8, <1>10, <3>1, <3>2
  <2>4. \A p \in Ranks : pc'[p] = "loop" => left'[p] \subseteq Middle(p)
    BY <1>2 DEF Middles
  <2> QED
    BY <1>2, <1>5, <2>1, <2>2, <2>3, <2>4 DEF Middles
<1>14. NoMailBy'
  BY <1>2, <1>5 DEF NoMailBy
<1>15. DoneIsThere'
  <2>1. \A m \in External(r) : m = n => m \in Middle(Owner(m))
    BY <1>2, <1>9
  <2> QED
    BY <1>2, <1>5, <1>8, <1>10, <2>1 DEF DoneIsThere
<1>16. Fresh'
  BY <1>2, <1>5, <1>6, <1>8, <1>10, <1>11 DEF Fresh
<1>17. InOrder'
  BY <1>5, <1>7 DEF InOrder
<1>18. AllTogether' /\ Swept'
  BY <1>2, <1>5 DEF AllTogether, Swept
<1>19. Channels' /\ Waited' /\ Fixed'
  BY <1>2, CommKept, FixedKept
<1> QED
  BY <1>12, <1>13, <1>14, <1>15, <1>16, <1>17, <1>18, <1>19

(* A middle node is computed and sent to ranks that still wait for it. *)
LEMMA MiddleNodeStep ==
    ASSUME IInv, NEW r \in Ranks, NEW n \in Nodes, MiddleNode(r, n)
    PROVE  IInv'
<1> USE DEF IInv, Rest
<1> DEFINE due == {m \in AdjExt(n) : Precedes(m, n)} \ fin[r]
           letters == {<<n, q, iters + 1>> : q \in RanksOf(n)}
<1>1. /\ Variant = "FULL" /\ pc[r] = "loop" /\ n \in left[r]
      /\ due \subseteq landed[r] /\ fin' = [fin EXCEPT ![r] = @ \cup due]
      /\ Sweep({n}) /\ mail' = mail \cup letters
      /\ left' = [left EXCEPT ![r] = @ \ {n}]
      /\ UNCHANGED <<fixed, iters, pc, image, landed, chan>>
  BY StageOf DEF MiddleNode
<1>2. n \in Middle(r) /\ n \in Mine(r) /\ Owner(n) = r
  BY <1>1, Sides DEF Middles, Mine
<1>3. ~ Sent(n)
  BY <1>1, <1>2 DEF Sent
<1>4. /\ Variant' = Variant /\ Stages' = Stages
      /\ \A p : MidUpd(p)' = MidUpd(p) /\ External(p)' = External(p) /\ Middle(p)' = Middle(p)
      /\ \A m : Owner(m)' = Owner(m) /\ AdjExt(m)' = AdjExt(m)
      /\ \A m, k : Precedes(m, k)' = Precedes(m, k)
  BY <1>1, SameSets
<1>5. /\ left'[r] = left[r] \ {n} /\ fin'[r] = fin[r] \cup due
      /\ \A p \in Ranks : p # r => left'[p] = left[p] /\ fin'[p] = fin[p]
  BY <1>1 DEF Typed
<1>6. \A p \in Ranks : \A m : Has(p, m)' <=> Has(p, m)
  BY <1>1, HasElsewhere
<1>7. \A m \in Nodes : Sent(m)' <=> Sent(m) \/ m = n
  <2>1. TAKE m \in Nodes
  <2>2. Owner(m) \in Ranks
    BY DEF Fixed, Neighbours, Owner
  <2>3. CASE Owner(m) # r
    BY <1>1, <1>2, <1>5, <2>2, <2>3, SentElsewhere
  <2>4. CASE Owner(m) = r
    BY <1>1, <1>4, <1>5, <2>4 DEF Sent
  <2> QED
    BY <2>3, <2>4
<1>8. \A p \in Ranks : \A m : m \in MidUpd(p) <=> m \in External(p) /\ m \in Middle(Owner(m))
  BY Images
<1>9. \A p \in Ranks : \A m : m \in External(p) <=> m \in Nodes /\ p \in RanksOf(m)
  BY Images
<1>10. \A m \in landed[r] : m \in MidUpd(r) /\ Has(r, m)
  BY <1>1, <1>8 DEF Middles, Has
<1>11. RanksOf(n) \subseteq Ranks
  BY DEF RanksOf, AdjExt, Owner, Fixed, Neighbours
<1>12. Typed'
  <2>1. R' \in [Nodes -> Nat]
    BY <1>1 DEF Typed, Sweep
  <2>2. fin' \in [Ranks -> SUBSET Nodes] /\ left' \in [Ranks -> SUBSET Nodes]
    BY <1>1 DEF Typed
  <2>3. mail' \subseteq Nodes \X Ranks \X Nat
    BY <1>1, <1>11 DEF Typed
  <2> QED
    BY <1>1, <1>4, <2>1, <2>2, <2>3 DEF Typed
<1> HIDE DEF letters, due
<1>13. Middles'
  <2>1. \A p \in Ranks : pc'[p] = "loop" => left'[p] \subseteq Middle(p) /\ landed'[p] \subseteq MidUpd(p)
    BY <1>1, <1>5 DEF Middles
  <2>2. \A p \in Ranks : \A m \in MidUpd(p) : Has(p, m)' => Sent(m)'
    BY <1>1, <1>6, <1>7, <1>8, <1>9 DEF Middles
  <2>3. ASSUME NEW p \in Ranks, NEW m \in Nodes, NEW w \in Nat, <<m, p, w>> \in mail'
        PROVE  m \in MidUpd(p) /\ Sent(m)' /\ ~ Has(p, m)' /\ w = iters + 1
    <3>1. CASE <<m, p, w>> \in mail
      BY <1>1, <1>6, <1>7, <3>1 DEF Middles
    <3>2. CASE <<m, p, w>> \in letters
      <4>1. m = n /\ p \in RanksOf(n) /\ w = iters + 1
        BY <3>2 DEF letters
      <4>2. n \in MidUpd(p)
        BY <1>2, <1>8, <1>9, <4>1
      <4>3. ~ Has(p, n)
        BY <1>1, <1>3, <4>2 DEF Middles
      <4> QED
        BY <1>6, <1>7, <4>1, <4>2, <4>3
    <3> QED
      BY <1>1, <2>3, <3>1, <3>2
  <2> QED
    BY <1>1, <1>4, <2>1, <2>2, <2>3 DEF Middles
<1>14. NoMailBy'
  BY <1>1, <1>4 DEF NoMailBy
<1>15. DoneIsThere'
  <2>1. \A m \in due : m \in External(r) /\ Has(r, m)
    BY <1>1, <1>8, <1>10
  <2> QED
    BY <1>1, <1>4, <1>5, <1>6, <2>1 DEF DoneIsThere
<1>16. Fresh'
  BY <1>1, <1>4, <1>6 DEF Fresh
<1>17. InOrder'
  <2>1. SUFFICES ASSUME NEW m \in Nodes, m \in Middle(Owner(m)), Sent(m)',
                        NEW k \in AdjExt(m), Precedes(k, m), k \in Middle(Owner(k))
        PROVE  Sent(k)'
    BY <1>4 DEF InOrder
  <2>2. k \in Nodes /\ m \in AdjExt(k)
    BY DEF Fixed, Neighbours, AdjExt
  <2>3. CASE m # n
    BY <1>1, <1>7, <2>1, <2>2, <2>3 DEF InOrder
  <2>4. CASE m = n
    <3>1. Has(r, k)
      <4>1. k \in fin[r] \/ k \in landed[r]
        BY <1>1, <2>1, <2>4 DEF due
      <4> QED
        BY <1>1, <1>10, <4>1 DEF DoneIsThere
    <3>2. k \in MidUpd(r)
      <4>1. r \in RanksOf(k)
        BY <1>2, <2>2, <2>4 DEF RanksOf
      <4> QED
        BY <1>8, <1>9, <2>1, <2>2, <4>1
    <3> QED
      BY <1>1, <1>7, <2>2, <3>1, <3>2 DEF Middles
  <2> QED
    BY <2>3, <2>4
<1>18. AllTogether' /\ Swept'
  BY <1>1, <1>4 DEF AllTogether, Swept
<1>19. Channels' /\ Waited' /\ Fixed'
  BY <1>1, CommKept, FixedKept
<1> QED
  BY <1>12, <1>13, <1>14, <1>15, <1>16, <1>17, <1>18, <1>19

-----------------------------------------------------------------------------
(* BOUNDARY_JACOBI: what is computed by all is exchanged by all. *)
LEMMA JacobiAllStep ==
    ASSUME IInv, NEW r \in Ranks, JacobiAll(r)
    PROVE  IInv'
<1> USE DEF IInv, Rest
<1>1. /\ Variant = "BOUNDARY_JACOBI" /\ pc[r] = "first" /\ Sweep(Mine(r))
      /\ pc' = [pc EXCEPT ![r] = "update"]
      /\ UNCHANGED <<fixed, iters, image, fin, left, landed, chan, mail>>
  BY DEF JacobiAll, To
<1>2. /\ Variant' = Variant /\ Stages' = Stages
      /\ \A p : External(p)' = External(p) /\ Mine(p)' = Mine(p)
  BY <1>1, SameSets
<1>3. pc'[r] = "update" /\ \A p \in Ranks : p # r => pc'[p] = pc[p]
  BY <1>1 DEF Typed
<1>4. Typed'
  <2>1. "update" \in Stages
    BY <1>1 DEF Stages
  <2>2. R' \in [Nodes -> Nat]
    BY <1>1 DEF Typed, Sweep
  <2> QED
    BY <1>1, <1>2, <2>1, <2>2 DEF Typed
<1>5. Channels' /\ Waited'
  BY <1>1, <1>2 DEF Channels, Channel, Waited
<1>6. Middles' /\ NoMailBy' /\ DoneIsThere' /\ Fresh' /\ InOrder'
  BY <1>1, <1>2 DEF Middles, NoMailBy, DoneIsThere, Fresh, InOrder
<1>7. AllTogether'
  BY <1>1, <1>3 DEF AllTogether
<1>8. Swept'
  <2>1. ASSUME NEW p \in Ranks, pc'[p] = "update", NEW n \in Mine(p)
        PROVE  R'[n] = iters + 1
    <3>1. n \in Nodes /\ Owner(n) = p
      BY DEF Mine
    <3>2. R'[n] = IF n \in Mine(r) THEN iters + 1 ELSE R[n]
      BY <1>1, <3>1 DEF Sweep
    <3>3. p # r => R[n] = iters + 1
      BY <1>1, <1>3, <2>1 DEF Swept
    <3> QED
      BY <3>2, <3>3
  <2>2. \A p \in Ranks : pc'[p] = "reduce" => pc[p] = "reduce"
    BY <1>3
  <2> QED
    BY <1>1, <1>2, <2>1, <2>2 DEF Swept
<1> QED
  BY <1>1, <1>4, <1>5, <1>6, <1>7, <1>8, FixedKept

(* BOUNDARY_JACOBI: every image is set to what its owner has computed. *)
LEMMA UpdateExternalStep ==
    ASSUME IInv, UpdateExternal
    PROVE  IInv'
<1> USE DEF IInv, Rest
<1>1. /\ \A r \in Ranks : pc[r] = "update"
      /\ image' = [r \in Ranks |-> [n \in Nodes |-> IF n \in External(r) THEN R[n] ELSE image[r][n]]]
      /\ pc' = [r \in Ranks |-> "reduce"]
      /\ UNCHANGED <<fixed, iters, R, fin, left, landed, chan, mail>>
  BY DEF UpdateExternal
<1>2. Variant = "BOUNDARY_JACOBI"
  <2>1. 0 \in Ranks
    BY GaussSeidelAssumption DEF Ranks
  <2> QED
    BY <1>1, <2>1, StageOf
<1>3. /\ Variant' = Variant /\ Stages' = Stages
      /\ \A p : External(p)' = External(p) /\ Mine(p)' = Mine(p)
  BY <1>1, SameSets
<1>4. Typed'
  <2>1. "reduce" \in Stages
    BY <1>2 DEF Stages
  <2>2. image' \in [Ranks -> [Nodes -> Nat]]
    BY <1>1 DEF Typed
  <2> QED
    BY <1>1, <1>3, <2>1, <2>2 DEF Typed
<1>5. Channels' /\ Waited'
  BY <1>1, <1>2, <1>3 DEF Channels, Channel, Waited
<1>6. Middles' /\ NoMailBy' /\ DoneIsThere' /\ Fresh' /\ InOrder'
  BY <1>1, <1>2, <1>3 DEF Middles, NoMailBy, DoneIsThere, Fresh, InOrder
<1>7. AllTogether'
  BY <1>1 DEF AllTogether
<1>8. Swept'
  <2>1. ASSUME NEW r \in Ranks, NEW n \in External(r)
        PROVE  image'[r][n] = iters + 1
    <3>1. n \in Nodes /\ Owner(n) \in Ranks /\ n \in Mine(Owner(n))
      BY Images
    <3>2. R[n] = iters + 1
      BY <1>1, <1>2, <3>1 DEF Swept
    <3> QED
      BY <1>1, <3>1, <3>2
  <2>2. \A r \in Ranks : pc'[r] = "reduce"
    BY <1>1
  <2> QED
    BY <1>1, <1>3, <2>1, <2>2 DEF Swept
<1> QED
  BY <1>1, <1>4, <1>5, <1>6, <1>7, <1>8, FixedKept

(* At the end of an iteration nothing is under way, whatever the next is. *)
LEMMA ReduceStep ==
    ASSUME IInv, Reduce
    PROVE  IInv'
<1> USE DEF IInv, Rest
<1>1. PICK s \in {"first", "end"} :
        /\ \A r \in Ranks : pc[r] = "reduce"
        /\ pc' = [r \in Ranks |-> s] /\ iters' = iters + 1
        /\ UNCHANGED <<fixed, R, image, fin, left, landed, chan, mail>>
  BY DEF Reduce
<1>2. Fixed'
  BY <1>1, FixedKept
<1>3. Variant' = Variant /\ Stages' = Stages
  BY <1>1 DEF Variant, fixed, Stages
<1>4. /\ \A n : Owner(n)' = Owner(n) /\ AdjExt(n)' = AdjExt(n)
      /\ \A r : /\ External(r)' = External(r) /\ Middle(r)' = Middle(r)
  <2>1. \A n : Owner(n)' = Owner(n) /\ AdjExt(n)' = AdjExt(n)
    BY <1>1 DEF fixed, Owner, AdjExt
  <2>2. \A r : Mine(r)' = Mine(r)
    BY <2>1 DEF Mine
  <2>3. \A r : External(r)' = External(r) /\ Middle(r)' = Middle(r)
    BY <1>1, <2>1, <2>2 DEF External, Middle, fixed
  <2> QED
    BY <2>1, <2>3
<1>5. \A r \in Ranks : \A n \in External(r) :
        n \in FirstSet(Owner(n)) \cup Middle(Owner(n)) \cup LastSet(Owner(n))
  BY Images, Sides
<1>6. \A r \in Ranks : \A n \in External(r) :
        n \in FirstSet(Owner(n))' \cup Middle(Owner(n))' \cup LastSet(Owner(n))'
  <2>1. ASSUME NEW r \in Ranks, NEW n \in External(r)
        PROVE  n \in FirstSet(Owner(n))' \cup Middle(Owner(n))' \cup LastSet(Owner(n))'
    <3>1. Owner(n) \in Ranks /\ n \in Mine(Owner(n)) /\ AdjExt(n) # {}
      BY Images
    <3>2. \A q \in Ranks : FirstSet(q)' \cup Middle(q)' \cup LastSet(q)' = FirstSet(q) \cup Middle(q) \cup LastSet(q)
      BY <1>1 DEF FirstSet, LastSet, Middle, Top, Bottom, fixed
    <3> QED
      BY <1>4, <1>5, <3>1, <3>2
  <2> QED
    BY <2>1
<1>7. \A r \in Ranks : \A n \in External(r) : Has(r, n)
  BY <1>1, <1>5 DEF Has, NoneReceived, LastReceived
<1>8. \A r \in Ranks : pc'[r] = s
  BY <1>1
<1>9. \A r \in Ranks : \A n \in External(r) : Has(r, n)' <=> s = "end"
  BY <1>4, <1>6, <1>8 DEF Has, NoneReceived, LastReceived
<1>10. \A n \in Nodes : Sent(n)' <=> s = "end"
  <2>1. \A n \in Nodes : Owner(n) \in Ranks
    BY DEF Fixed, Neighbours, Owner
  <2> QED
    BY <1>4, <1>8, <2>1 DEF Sent
<1>11. mail = {}
  <2>1. SUFFICES ASSUME Variant = "FULL", mail # {} PROVE FALSE
    BY DEF NoMailBy
  <2>2. PICK x \in mail : TRUE
    BY <2>1
  <2>3. PICK n \in Nodes, r \in Ranks, v \in Nat : x = <<n, r, v>>
    BY DEF Typed
  <2>4. n \in MidUpd(r) /\ ~ Has(r, n)
    BY <2>1, <2>2, <2>3 DEF Middles
  <2>5. n \in External(r)
    BY <2>4, Images
  <2> QED
    BY <1>7, <2>4, <2>5
<1>12. Typed'
  <2>1. s \in Stages
    BY <1>1 DEF Stages
  <2> QED
    BY <1>1, <1>3, <2>1 DEF Typed
<1>13. Channels' /\ Waited'
  <2>1. \A q, r \in Ranks : ~ FirstPending(q, r) /\ ~ MiddlePending(q, r) /\ ~ LastPending(q, r)
    BY <1>1 DEF FirstPending, MiddlePending, LastPending, NoneReceived, MiddleUnreceived, LastReceived
  <2>2. \A q, r \in Ranks : \A t \in Tags : chan[q][r][t] = <<>>
    <3>1. TAKE q, r \in Ranks
    <3>2. Channel(q, r)
      BY DEF Channels
    <3>3. Tags = {FirstTag, LastTag}
      BY Sides DEF Tags
    <3> QED
      BY <2>1, <3>2, <3>3 DEF Channel, Queue
  <2>3. \A q, r \in Ranks : ~ FirstPending(q, r)' /\ ~ MiddlePending(q, r)' /\ ~ LastPending(q, r)'
    BY <1>1, <1>8 DEF FirstPending, MiddlePending, LastPending, NoneSent, NoneReceived,
                      MiddleUnsent, MiddleUnreceived, LastSent, LastReceived
  <2>4. FirstTag' \in Tags /\ LastTag' \in Tags
    BY DEF FirstTag, LastTag, Tags
  <2>5. Channels'
    <3>1. SUFFICES ASSUME NEW q \in Ranks, NEW r \in Ranks PROVE Channel(q, r)'
      BY DEF Channels
    <3>2. \A t \in Tags : chan'[q][r][t] = <<>>
      BY <1>1, <2>2
    <3> QED
      BY <2>3, <2>4, <3>2 DEF Channel, Queue, Tags
  <2>6. \A q, r \in Ranks : Behind(q, r)'
    BY <1>1, <1>8 DEF Behind, NoneSent, NoneReceived, MiddleUnsent, MiddleUnreceived,
                      LastSent, LastReceived
  <2> QED
    BY <2>5, <2>6 DEF Waited
<1>14. Middles'
  <2>1. \A r \in Ranks : \A n \in MidUpd(r)' : n \in Nodes
    BY DEF MidUpd
  <2>2. \A r \in Ranks : \A n \in MidUpd(r)' : Has(r, n)' => Sent(n)'
    <3>1. SUFFICES ASSUME NEW r \in Ranks, NEW n \in MidUpd(r)', s # "end"
          PROVE  ~ Has(r, n)'
      BY <1>10, <2>1
    <3>2. s = "first"
      BY <3>1
    <3> QED
      BY <1>8, <3>2 DEF Has, NoneReceived, LastReceived
  <2> QED
    BY <1>1, <1>8, <1>11, <2>2 DEF Middles
<1>15. NoMailBy'
  BY <1>1, <1>11 DEF NoMailBy
<1>16. DoneIsThere'
  <2>1. SUFFICES ASSUME Variant # "BOUNDARY_JACOBI", NEW r \in Ranks, s # "first"
        PROVE  /\ \A n \in fin[r] : n \in External(r) /\ Has(r, n)'
               /\ \A n \in External(r) : n \in fin[r]
    BY <1>1, <1>3, <1>4, <1>8 DEF DoneIsThere
  <2>2. \A n \in fin[r] : n \in External(r)
    BY <1>1, <2>1 DEF DoneIsThere
  <2>3. \A n \in External(r) : n \in fin[r]
    BY <1>1, <1>7, <2>1 DEF DoneIsThere
  <2> QED
    BY <1>9, <2>1, <2>2, <2>3
<1>17. Fresh'
  <2>1. SUFFICES ASSUME Variant # "BOUNDARY_JACOBI", NEW r \in Ranks, NEW n \in External(r), s = "first"
        PROVE  image[r][n] = iters'
    BY <1>1, <1>3, <1>4, <1>8, <1>9 DEF Fresh
  <2> QED
    BY <1>1, <1>7, <2>1 DEF Fresh
<1>18. InOrder'
  <2>1. \A m \in Nodes : \A n \in AdjExt(m) : n \in Nodes
    BY DEF Fixed, Neighbours, AdjExt
  <2> QED
    BY <1>4, <1>10, <2>1 DEF InOrder
<1>19. AllTogether' /\ Swept'
  BY <1>1, <1>8 DEF AllTogether, Swept
<1> QED
  BY <1>2, <1>12, <1>13, <1>14, <1>15, <1>16, <1>17, <1>18, <1>19

-----------------------------------------------------------------------------
(* A set of natural numbers that is not empty has a least element. *)
LEMMA Least ==
    ASSUME NEW S \in SUBSET Nat, S # {}
    PROVE  \E x \in S : \A y \in S : x <= y
<1> DEFINE Q == OpToRel(<, Nat)
<1>1. IsWellFoundedOn(Q, Nat)
  BY NatLessThanWellFounded
<1>2. \A x, y \in Nat : <<y, x>> \in Q <=> y < x
  BY DEF OpToRel
<1> HIDE DEF Q
<1>3. PICK x \in S : \A y \in S : ~ (<<y, x>> \in Q)
  BY <1>1, WFMin
<1>4. \A y \in S : x \in Nat /\ y \in Nat /\ ~ (y < x)
  BY <1>2, <1>3
<1> QED
  BY <1>4

(* The color of a rank by those of the ranks before. *)
Taken(f, r) == {f[q] : q \in AdjCpu(r) \cap 0 .. r - 1}
FirstFree(T) == CHOOSE c \in 1 .. NCpu : c \notin T /\ \A d \in 1 .. c - 1 : d \in T

(* Fewer than NCpu colors are taken, so that one of NCpu is free. *)
LEMMA SomeFree ==
    ASSUME NEW k \in Nat, k < NCpu, NEW f, \A q \in 0 .. k - 1 : f[q] \in 1 .. NCpu
    PROVE  FirstFree(Taken(f, k)) \in 1 .. NCpu /\ FirstFree(Taken(f, k)) \notin Taken(f, k)
<1> USE GaussSeidelAssumption
<1> DEFINE before == 0 .. k - 1
           g == [q \in before |-> f[q]]
           T == {f[q] : q \in before}
           U == Taken(f, k)
<1>1. IsFiniteSet(before) /\ Cardinality(before) = k
  BY FS_Interval
<1>2. g \in Surjection(before, T)
  BY DEF Surjection
<1>3. U \subseteq T
  BY DEF Taken
<1>4. U \subseteq 1 .. NCpu
  BY <1>3
<1>0. IsFiniteSet(1 .. NCpu) /\ Cardinality(1 .. NCpu) = NCpu
  BY FS_Interval
<1> HIDE DEF before, g, T, U
<1>5. IsFiniteSet(T) /\ Cardinality(T) <= k
  BY <1>1, <1>2, FS_Surjection
<1>6. Cardinality(U) <= Cardinality(T) /\ IsFiniteSet(U)
  BY <1>3, <1>5, FS_Subset
<1>7. U # 1 .. NCpu
  <2>1. Cardinality(T) \in Nat /\ Cardinality(U) \in Nat
    BY <1>5, <1>6, FS_CardinalityType
  <2> QED
    BY <1>0, <1>5, <1>6, <2>1
<1>8. PICK c \in (1 .. NCpu) \ U : \A d \in (1 .. NCpu) \ U : c <= d
  <2> DEFINE V == (1 .. NCpu) \ U
  <2>1. V \in SUBSET Nat
    OBVIOUS
  <2>2. V # {}
    BY <1>4, <1>7, Zenon
  <2> HIDE DEF V
  <2>3. \E c \in V : \A d \in V : c <= d
    BY <2>1, <2>2, Least
  <2> QED
    BY <2>3 DEF V
<1>9. c \in 1 .. NCpu /\ c \notin U /\ \A d \in 1 .. c - 1 : d \in U
  BY <1>8
<1>10. FirstFree(U) \in 1 .. NCpu /\ FirstFree(U) \notin U
  BY <1>9 DEF FirstFree
<1> QED
  BY <1>10 DEF U

(* The first k ranks have been colored. *)
Partial(f, k) ==
    /\ f \in [0 .. k - 1 -> 1 .. NCpu]
    /\ \A r \in 0 .. k - 1 : f[r] = FirstFree(Taken(f, r))

(* The next rank can be colored. *)
LEMMA OneMore ==
    ASSUME NEW k \in Nat, k < NCpu, NEW f, Partial(f, k)
    PROVE  \E g : Partial(g, k + 1)
<1> DEFINE g == [r \in 0 .. k |-> IF r < k THEN f[r] ELSE FirstFree(Taken(f, k))]
<1>1. FirstFree(Taken(f, k)) \in 1 .. NCpu
  BY SomeFree DEF Partial
<1>2. g \in [0 .. k -> 1 .. NCpu]
  BY <1>1 DEF Partial
<1>3. \A r \in 0 .. k : Taken(g, r) = Taken(f, r)
  <2>1. TAKE r \in 0 .. k
  <2>2. \A q \in AdjCpu(r) \cap 0 .. r - 1 : g[q] = f[q]
    OBVIOUS
  <2> HIDE DEF g
  <2> QED
    BY <2>2 DEF Taken
<1>4. \A r \in 0 .. k : g[r] = FirstFree(Taken(f, r))
  BY DEF Partial
<1> HIDE DEF g
<1>5. (k + 1) - 1 = k
  OBVIOUS
<1>6. Partial(g, k + 1)
  BY <1>2, <1>3, <1>4, <1>5 DEF Partial
<1> QED
  BY <1>6

(* So all ranks are colored, by induction on the number of colored ranks. *)
LEMMA AllColored == \E f : Partial(f, NCpu)
<1> USE GaussSeidelAssumption
<1> DEFINE S == {k \in 0 .. NCpu : ~ \E f : Partial(f, k)}
<1>1. SUFFICES ASSUME S # {} PROVE FALSE
  <2>1. NCpu \in 0 .. NCpu
    OBVIOUS
  <2> QED
    BY <2>1
<1>2. PICK k \in S : \A j \in S : k <= j
  <2>1. S \in SUBSET Nat
    OBVIOUS
  <2> HIDE DEF S
  <2> QED
    BY <1>1, <2>1, Least
<1>3. k # 0
  <2> DEFINE e == [r \in 0 .. -1 |-> 1]
  <2>1. e \in [0 .. 0 - 1 -> 1 .. NCpu] /\ \A r \in 0 .. 0 - 1 : FALSE
    OBVIOUS
  <2> HIDE DEF e
  <2>2. Partial(e, 0)
    BY <2>1 DEF Partial
  <2> QED
    BY <2>2
<1>4. k - 1 \in 0 .. NCpu /\ k - 1 \notin S /\ k - 1 < NCpu /\ k - 1 \in Nat
  BY <1>2, <1>3
<1>5. PICK f : Partial(f, k - 1)
  BY <1>4
<1>6. \E g : Partial(g, (k - 1) + 1)
  BY <1>4, <1>5, OneMore
<1> QED
  BY <1>2, <1>6

(* processor_coloring gives adjacent ranks different colors. *)
THEOREM ColoringIsProper ==
    /\ Coloring \in [Ranks -> 1 .. NCpu]
    /\ \A p, q \in Ranks : q \in AdjCpu(p) /\ q < p => Coloring[q] # Coloring[p]
<1> USE GaussSeidelAssumption
<1> DEFINE Eq(f) == f = [r \in Ranks |-> FirstFree(Taken(f, r))]
<1>1. Coloring = CHOOSE f : Eq(f)
  BY DEF Coloring, Taken, FirstFree
<1>2. PICK g : Partial(g, NCpu)
  BY AllColored
<1>3. g \in [Ranks -> 1 .. NCpu] /\ \A r \in Ranks : g[r] = FirstFree(Taken(g, r))
  BY <1>2 DEF Partial, Ranks
<1>4. Eq(g)
  BY <1>3
<1> HIDE DEF Eq
<1>5. Eq(Coloring)
  BY <1>1, <1>4
<1>6. \A r \in Ranks : Coloring[r] = g[r]
  <2> DEFINE S == {r \in Ranks : Coloring[r] # g[r]}
  <2>1. SUFFICES ASSUME S # {} PROVE FALSE
    OBVIOUS
  <2>2. PICK r \in S : \A q \in S : r <= q
    <3>1. S \in SUBSET Nat
      BY DEF Ranks
    <3> HIDE DEF S
    <3> QED
      BY <2>1, <3>1, Least
  <2>3. \A q \in 0 .. r - 1 : Coloring[q] = g[q]
    BY <2>2 DEF Ranks
  <2>4. Taken(Coloring, r) = Taken(g, r)
    BY <2>3 DEF Taken
  <2>5. Coloring[r] = FirstFree(Taken(Coloring, r))
    BY <1>5, <2>2 DEF Eq
  <2> QED
    BY <1>3, <2>2, <2>4, <2>5
<1>7. Coloring = g
  <2>1. Coloring = [r \in Ranks |-> Coloring[r]]
    BY <1>5 DEF Eq
  <2> QED
    BY <1>3, <1>6, <2>1
<1>8. ASSUME NEW p \in Ranks, NEW q \in Ranks, q \in AdjCpu(p), q < p
      PROVE  g[q] # g[p]
  <2>1. p \in Nat /\ p < NCpu /\ \A i \in 0 .. p - 1 : g[i] \in 1 .. NCpu
    BY <1>3 DEF Ranks
  <2>2. g[p] \notin Taken(g, p)
    BY <1>3, <2>1, SomeFree
  <2>3. q \in AdjCpu(p) \cap 0 .. p - 1
    BY <1>8 DEF Ranks
  <2> QED
    BY <2>2, <2>3 DEF Taken
<1> QED
  BY <1>3, <1>7, <1>8
-----------------------------------------------------------------------------
(* Nothing is under way and nothing has been computed at the start. *)
LEMMA InitInv == Init => IInv
<1> SUFFICES ASSUME Init PROVE IInv
  OBVIOUS
<1> USE GaussSeidelAssumption
<1>1. PICK g \in Graphs, v \in Variants, b \in Buffering :
        setup = [owner |-> g.owner, variant |-> v, buffered |-> b,
                 adjext |-> [n \in Nodes |-> {m \in Nodes : {m, n} \in g.edges}]]
  BY DEF Init
<1>2. /\ color = Coloring /\ sets = Blocks /\ iters = 0
      /\ pc = [r \in Ranks |-> "first"]
      /\ R = [n \in Nodes |-> 0]
      /\ image = [r \in Ranks |-> [n \in Nodes |-> 0]]
      /\ fin = [r \in Ranks |-> {}] /\ left = [r \in Ranks |-> {}]
      /\ landed = [r \in Ranks |-> {}]
      /\ chan = [q \in Ranks |-> [r \in Ranks |-> [t \in Tags |-> <<>>]]]
      /\ mail = {}
  BY DEF Init
<1>3. Neighbours
  <2>1. g.owner \in [Nodes -> Ranks]
    OBVIOUS
  <2>2. setup.owner = g.owner /\ setup.adjext = [n \in Nodes |-> {m \in Nodes : {m, n} \in g.edges}]
    BY <1>1
  <2>3. Variant \in {"FULL", "MIDDLE_JACOBI", "BOUNDARY_JACOBI"}
    BY <1>1 DEF Variant
  <2>4. ASSUME NEW n \in Nodes, NEW m \in AdjExt(n)
        PROVE  n \in AdjExt(m) /\ Owner(m) # Owner(n)
    <3>1. m \in Nodes /\ {m, n} \in g.edges
      BY <2>2 DEF AdjExt
    <3>2. n \in AdjExt(m)
      <4>1. {n, m} = {m, n}
        OBVIOUS
      <4> QED
        BY <2>2, <3>1, <4>1 DEF AdjExt
    <3>3. PICK i, j \in Nodes : {m, n} = {i, j} /\ g.owner[i] # g.owner[j]
      BY <3>1
    <3>4. (m = i /\ n = j) \/ (m = j /\ n = i)
      BY <3>3
    <3> QED
      BY <2>2, <3>2, <3>3, <3>4 DEF Owner
  <2> QED
    BY <2>1, <2>2, <2>3, <2>4 DEF Neighbours
<1>4. Sorted
  BY <1>2 DEF Sorted, Blocks, Bottom, Middle, Top, Internal
<1>5. Colored
  <2>1. color \in [Ranks -> Int]
    BY <1>2, ColoringIsProper
  <2>2. ASSUME NEW n \in Nodes, NEW m \in AdjExt(n)
        PROVE  color[Owner(m)] # color[Owner(n)]
    <3>1. /\ m \in Nodes /\ Owner(n) \in Ranks /\ Owner(m) \in Ranks
          /\ Owner(m) # Owner(n) /\ n \in AdjExt(m)
      BY <1>3 DEF Neighbours, Owner, AdjExt
    <3>2. Owner(m) \in RanksOf(n) /\ Owner(n) \in RanksOf(m)
      BY <3>1 DEF RanksOf
    <3>3. n \in Mine(Owner(n)) /\ m \in Mine(Owner(m))
      BY <3>1 DEF Mine
    <3>4. Owner(m) \in AdjCpu(Owner(n)) /\ Owner(n) \in AdjCpu(Owner(m))
      BY <3>2, <3>3 DEF AdjCpu
    <3>5. Owner(m) < Owner(n) \/ Owner(n) < Owner(m)
      BY <3>1 DEF Ranks
    <3> QED
      BY <1>2, <3>1, <3>4, <3>5, ColoringIsProper
  <2> QED
    BY <2>1, <2>2 DEF Colored
<1>6. Typed
  <2>1. "first" \in Stages
    BY DEF Stages
  <2>2. chan \in [Ranks -> [Ranks -> [Tags -> Seq(SUBSET Nodes)]]]
    BY <1>2
  <2> QED
    BY <1>2, <2>1, <2>2 DEF Typed
<1>7. Channels /\ Waited
  <2>1. \A q, r \in Ranks : \A t \in Tags : chan[q][r][t] = <<>>
    BY <1>2
  <2>2. \A q, r \in Ranks : ~ FirstPending(q, r) /\ ~ MiddlePending(q, r) /\ ~ LastPending(q, r)
    BY <1>2 DEF FirstPending, MiddlePending, LastPending, NoneSent, MiddleUnsent, LastSent
  <2>3. FirstTag \in Tags /\ LastTag \in Tags
    BY DEF FirstTag, LastTag, Tags
  <2>4. Channels
    BY <2>1, <2>2, <2>3 DEF Channels, Channel, Queue
  <2>5. \A q, r \in Ranks : Behind(q, r)
    BY <1>2 DEF Behind, NoneReceived, MiddleUnreceived, LastReceived
  <2> QED
    BY <2>4, <2>5 DEF Waited
<1>8. \A r \in Ranks : \A n \in Nodes : ~ Has(r, n)
  BY <1>2 DEF Has, NoneReceived, LastReceived
<1>9. \A n \in Nodes : ~ Sent(n)
  BY <1>2, <1>3 DEF Sent, Neighbours, Owner
<1>10. \A r \in Ranks : \A n \in External(r) : n \in Nodes
  BY <1>3, <1>4, <1>5, Images DEF Fixed
<1>11. Rest
  <2>1. Middles
    BY <1>2, <1>8 DEF Middles, MidUpd
  <2>2. NoMailBy /\ DoneIsThere /\ AllTogether /\ Swept
    BY <1>2 DEF NoMailBy, DoneIsThere, AllTogether, Swept
  <2>3. Fresh
    BY <1>2, <1>8, <1>10 DEF Fresh
  <2>4. InOrder
    BY <1>9 DEF InOrder
  <2> QED
    BY <2>1, <2>2, <2>3, <2>4 DEF Rest
<1> QED
  BY <1>3, <1>4, <1>5, <1>6, <1>7, <1>11 DEF IInv, Fixed
-----------------------------------------------------------------------------
(* A step that changes nothing keeps the invariant. *)
LEMMA StutterStep ==
    ASSUME IInv, UNCHANGED vars
    PROVE  IInv'
<1>1. UNCHANGED <<fixed, iters>> /\ UNCHANGED <<pc, R, image, fin, left, landed, chan, mail>>
  BY DEF vars
<1>2. Fixed'
  BY <1>1, FixedKept DEF IInv
<1>3. /\ Variant' = Variant /\ Stages' = Stages
      /\ \A r : /\ Middle(r)' = Middle(r) /\ MidUpd(r)' = MidUpd(r)
                /\ External(r)' = External(r) /\ Mine(r)' = Mine(r)
      /\ \A n : /\ Owner(n)' = Owner(n) /\ AdjExt(n)' = AdjExt(n)
      /\ \A m, n : Precedes(m, n)' = Precedes(m, n)
  BY <1>1, SameSets
<1>4. \A r : \A n : Has(r, n)' <=> Has(r, n)
  BY <1>1, HasElsewhere
<1>5. \A n : Sent(n)' <=> Sent(n)
  BY <1>1, <1>3 DEF Sent
<1>6. Typed'
  BY <1>1, <1>3 DEF IInv, Typed
<1>7. Channels' /\ Waited'
  BY <1>1, CommKept DEF IInv
<1>8. Middles' /\ NoMailBy' /\ DoneIsThere'
  BY <1>1, <1>3, <1>4, <1>5 DEF IInv, Rest, Middles, NoMailBy, DoneIsThere
<1>9. Fresh' /\ InOrder' /\ AllTogether' /\ Swept'
  BY <1>1, <1>3, <1>4, <1>5 DEF IInv, Rest, Fresh, InOrder, AllTogether, Swept
<1> QED
  BY <1>2, <1>6, <1>7, <1>8, <1>9 DEF IInv, Rest

(* The invariant holds throughout. *)
LEMMA Inductive == Spec => []IInv
<1>1. IInv /\ [Next]_vars => IInv'
  <2>1. SUFFICES ASSUME IInv, [Next]_vars PROVE IInv'
    OBVIOUS
  <2>2. CASE UNCHANGED vars
    BY <2>1, <2>2, StutterStep
  <2>3. CASE Network
    BY <2>1, <2>3, LandStep DEF Network
  <2>4. CASE UpdateExternal \/ Reduce
    BY <2>1, <2>4, UpdateExternalStep, ReduceStep
  <2>5. ASSUME NEW r \in Ranks, Step(r)
        PROVE  IInv'
    <3>1. CASE First(r) \/ RecvFirst(r)
      BY <2>1, <3>1, FirstStep, RecvFirstStep
    <3>2. CASE \E n \in Nodes : MiddleNode(r, n)
      BY <2>1, <3>2, MiddleNodeStep
    <3>3. CASE Drain(r) \/ JacobiMiddle(r) \/ RecvMiddle(r)
      BY <2>1, <3>3, DrainStep, JacobiMiddleStep, RecvMiddleStep
    <3>4. CASE Last(r) \/ RecvLast(r) \/ JacobiAll(r)
      BY <2>1, <3>4, LastStep, RecvLastStep, JacobiAllStep
    <3> QED
      BY <2>5, <3>1, <3>2, <3>3, <3>4 DEF Step
  <2> QED
    BY <2>1, <2>2, <2>3, <2>4, <2>5 DEF Next
<1> QED
  BY <1>1, InitInv, PTL DEF Spec

-----------------------------------------------------------------------------
(* "Not all external reactions were updated" is never reported: at the end of
   an iteration every external reaction of a rank is of this iteration, in every
   variant, on any number of ranks and for any graph. *)
THEOREM AllUpdated == Spec => []AllDone
<1>1. IInv => AllDone
  <2>1. SUFFICES ASSUME IInv, NEW r \in Ranks, pc[r] = "reduce"
        PROVE  /\ Variant # "BOUNDARY_JACOBI" => External(r) \subseteq fin[r]
               /\ \A n \in External(r) : image[r][n] = iters + 1
    BY DEF AllDone
  <2>2. CASE Variant = "BOUNDARY_JACOBI"
    BY <2>1, <2>2 DEF IInv, Rest, Swept
  <2>3. CASE Variant # "BOUNDARY_JACOBI"
    <3>1. ASSUME NEW n \in External(r)
          PROVE  Has(r, n)
      <4>1. n \in FirstSet(Owner(n)) \cup Middle(Owner(n)) \cup LastSet(Owner(n))
        BY <2>1, Images, Sides DEF IInv
      <4> QED
        BY <2>1, <4>1 DEF Has, NoneReceived, LastReceived
    <3> QED
      BY <2>1, <2>3, <3>1 DEF IInv, Rest, DoneIsThere, Fresh
  <2> QED
    BY <2>2, <2>3
<1> QED
  BY <1>1, Inductive, PTL

(* Of two neighbours one precedes the other; the neighbours of a node of the
   first set follow it, those of a node of the last set precede it. *)
LEMMA Sequence ==
    ASSUME Fixed, NEW n \in Nodes, NEW m \in AdjExt(n)
    PROVE  /\ Precedes(m, n) <=> ~ Precedes(n, m)
           /\ n \in FirstSet(Owner(n)) => Precedes(n, m)
           /\ n \in LastSet(Owner(n)) => Precedes(m, n)
<1>1. /\ m \in Nodes /\ Owner(m) \in Ranks /\ Owner(n) \in Ranks /\ Owner(m) \in RanksOf(n)
  BY DEF Fixed, Neighbours, Owner, AdjExt, RanksOf
<1>2. /\ color[Owner(m)] \in Int /\ color[Owner(n)] \in Int
      /\ color[Owner(m)] # color[Owner(n)]
  BY <1>1 DEF Fixed, Colored
<1>3. Precedes(m, n) <=> ~ Precedes(n, m)
  BY <1>2 DEF Precedes
<1>4. n \in Top(Owner(n)) => color[Owner(m)] < color[Owner(n)]
  BY <1>1 DEF Fixed, Sorted, ToHigher
<1>5. n \in Bottom(Owner(n)) => ~ color[Owner(m)] < color[Owner(n)]
  BY <1>1 DEF Fixed, Sorted, ToLower
<1> QED
  BY <1>2, <1>3, <1>4, <1>5 DEF Precedes, FirstSet, LastSet

(* A rank that computes a node has of its neighbours those that precede it. *)
LEMMA HasPreceding ==
    ASSUME IInv, Variant = "FULL", NEW r \in Ranks, NEW n \in Mine(r), NEW m \in AdjExt(n),
           \/ First(r) /\ n \in FirstSet(r)
           \/ MiddleNode(r, n)
           \/ Last(r) /\ n \in LastSet(r) \cup Internal(r)
    PROVE  Has(r, m) <=> Precedes(m, n)
<1> USE DEF IInv, Rest
<1>1. /\ n \in Nodes /\ Owner(n) = r /\ m \in Nodes /\ n \in AdjExt(m)
      /\ m \in Mine(Owner(m)) /\ Owner(m) \in Ranks
  BY DEF Mine, Fixed, Neighbours, AdjExt, Owner
<1>2. m \in FirstSet(Owner(m)) \cup Middle(Owner(m)) \cup LastSet(Owner(m))
  BY <1>1, Sides
<1>3. /\ Precedes(m, n) <=> ~ Precedes(n, m)
      /\ n \in FirstSet(r) => Precedes(n, m)
      /\ n \in LastSet(r) => Precedes(m, n)
  BY <1>1, Sequence
<1>4. /\ m \in FirstSet(Owner(m)) => Precedes(m, n)
      /\ m \in LastSet(Owner(m)) => Precedes(n, m)
  BY <1>1, Sequence
<1>5. CASE First(r) /\ n \in FirstSet(r)
  <2>1. pc[r] = "first"
    BY <1>5 DEF First
  <2> QED
    BY <1>3, <1>5, <2>1 DEF Has, NoneReceived, LastReceived
<1>6. CASE MiddleNode(r, n)
  <2>1. /\ pc[r] = "loop" /\ n \in left[r]
        /\ {k \in AdjExt(n) : Precedes(k, n)} \ fin[r] \subseteq landed[r]
    BY <1>6 DEF MiddleNode
  <2>2. n \in Middle(r) /\ ~ Sent(n)
    BY <1>1, <2>1 DEF Middles, Sent
  <2>3. ASSUME Precedes(m, n) PROVE Has(r, m)
    <3>1. m \in fin[r] \/ m \in landed[r]
      BY <2>1, <2>3
    <3>2. m \in landed[r] => m \in MidUpd(r)
      BY <2>1 DEF Middles
    <3> QED
      BY <2>1, <3>1, <3>2 DEF DoneIsThere, Has, MidUpd
  <2>4. ASSUME Has(r, m) PROVE Precedes(m, n)
    <3>1. m \in FirstSet(Owner(m)) \/ m \in Middle(Owner(m))
      BY <2>1, <2>4 DEF Has, LastReceived
    <3>2. SUFFICES ASSUME m \in Middle(Owner(m)), Precedes(n, m) PROVE FALSE
      BY <1>3, <1>4, <3>1
    <3>3. m \in MidUpd(r)
      BY <1>1, <3>2 DEF MidUpd, RanksOf
    <3>4. Sent(m)
      BY <2>4, <3>3 DEF Middles
    <3> QED
      BY <1>1, <2>2, <3>2, <3>4 DEF InOrder
  <2> QED
    BY <2>3, <2>4
<1>7. CASE Last(r) /\ n \in LastSet(r) \cup Internal(r)
  <2>1. pc[r] = "last"
    BY <1>7 DEF Last
  <2>2. n \in LastSet(r)
    BY <1>7 DEF Fixed, Sorted
  <2>3. m \in FirstSet(Owner(m)) \cup Middle(Owner(m)) /\ Precedes(m, n)
    BY <1>2, <1>3, <1>4, <2>2
  <2> QED
    BY <2>1, <2>3 DEF Has, NoneReceived
<1> QED
  BY <1>5, <1>6, <1>7

(* On every schedule of the ranks a reaction is computed from those of this
   iteration of the neighbours that precede it and from those of the iteration
   before of the others, as in the sequential solver. *)
THEOREM AsSequential == Spec => SequentialUpdate
<1> DEFINE Update == \A n \in Nodes : Variant = "FULL" /\ R'[n] # R[n] =>
             \A m \in AdjExt(n) :
                image[Owner(n)][m] = IF Precedes(m, n) THEN iters + 1 ELSE iters
<1>1. IInv /\ [Next]_vars => [Update]_vars
  <2>1. SUFFICES ASSUME IInv, Next, NEW n \in Nodes, Variant = "FULL", R'[n] # R[n],
                        NEW m \in AdjExt(n)
        PROVE  image[Owner(n)][m] = IF Precedes(m, n) THEN iters + 1 ELSE iters
    OBVIOUS
  <2>2. PICK r \in Ranks : Step(r)
    BY <2>1 DEF Next, Network, Land, UpdateExternal, Reduce
  <2>3. \/ First(r) /\ n \in FirstSet(r)
        \/ MiddleNode(r, n)
        \/ Last(r) /\ n \in LastSet(r) \cup Internal(r)
    <3>1. \A S : Sweep(S) => n \in S
      BY <2>1 DEF Sweep
    <3>2. First(r) \/ Last(r) \/ \E k \in Nodes : MiddleNode(r, k)
      <4>1. ~ JacobiMiddle(r) /\ ~ JacobiAll(r)
        BY <2>1, StageOf DEF JacobiMiddle, JacobiAll, IInv
      <4>2. ~ RecvFirst(r) /\ ~ Drain(r) /\ ~ RecvMiddle(r) /\ ~ RecvLast(r)
        BY <2>1 DEF RecvFirst, Drain, RecvMiddle, RecvLast
      <4> QED
        BY <2>2, <4>1, <4>2 DEF Step
    <3>3. /\ First(r) => Sweep(FirstSet(r))
          /\ Last(r) => Sweep(LastSet(r) \cup Internal(r))
      BY DEF First, Last
    <3>4. \A k \in Nodes : MiddleNode(r, k) => Sweep({k})
      BY DEF MiddleNode
    <3>5. (\E k \in Nodes : MiddleNode(r, k)) => MiddleNode(r, n)
      BY <3>1, <3>4
    <3> QED
      BY <3>1, <3>2, <3>3, <3>5
  <2>4. n \in Mine(r) /\ Owner(n) = r /\ pc[r] # "end"
    <3>1. FirstSet(r) \subseteq Mine(r) /\ LastSet(r) \subseteq Mine(r) /\ Middle(r) \subseteq Mine(r)
      BY <2>1, Sides DEF IInv
    <3>2. Internal(r) \subseteq Mine(r)
      BY <2>1 DEF IInv, Fixed, Sorted
    <3>3. MiddleNode(r, n) => n \in Middle(r)
      BY <2>1 DEF MiddleNode, IInv, Rest, Middles
    <3>4. pc[r] # "end"
      BY <2>3 DEF First, MiddleNode, Last
    <3> QED
      BY <2>3, <3>1, <3>2, <3>3, <3>4 DEF Mine
  <2>5. Has(r, m) <=> Precedes(m, n)
    BY <2>1, <2>3, <2>4, HasPreceding
  <2>6. m \in External(r)
    BY <2>1, <2>4 DEF External
  <2> QED
    BY <2>1, <2>4, <2>5, <2>6 DEF IInv, Rest, Fresh
<1> QED
  BY <1>1, Inductive, PTL DEF Spec, SequentialUpdate
=============================================================================
