----------------------------- MODULE GaussSeidel -----------------------------
(***************************************************************************)
(* The parallel Gauss-Seidel solver (GAUSS_SEIDEL_Solve, src/bgs.c) and    *)
(* the messages by which its ranks share reactions.                        *)
(*                                                                         *)
(* A constraint is a node of a graph; edges join constraints of different  *)
(* ranks that share a body (dia->adjext).  Its reaction is reduced to the  *)
(* number of times it has been computed, so that a value used too early or *)
(* too late can be told.  A rank holds images of the neighbours of its     *)
(* nodes; that it holds all of them is what module Boundary shows.         *)
(***************************************************************************)
EXTENDS Integers, Sequences, FiniteSets

CONSTANTS
    NCpu,       \* dom->ncpu
    Nodes,      \* constraints
    Graphs,     \* [owner, edges]: ranks and adjacency of the constraints
    Variants,   \* values of gs->variant
    Reverse,    \* gs->reverse = GS_ON
    MaxIter,    \* gs->maxiter
    Buffering   \* whether MPI completes a send before it is received

Ranks == 0 .. NCpu - 1
Tags == {"BOTTOM", "TOP"}

ASSUME GaussSeidelAssumption ==
    /\ NCpu \in Nat \ {0} /\ MaxIter \in Nat \ {0} /\ Reverse \in BOOLEAN
    /\ Buffering \subseteq BOOLEAN
    /\ Variants \subseteq {"FULL", "MIDDLE_JACOBI", "BOUNDARY_JACOBI"}
    /\ \A g \in Graphs : /\ g.owner \in [Nodes -> Ranks]
                         /\ \A e \in g.edges : \E m, n \in Nodes :
                              e = {m, n} /\ g.owner[m] # g.owner[n]

VARIABLES
    setup,      \* constraints, solver and machine of this solution
    color,      \* color of a rank
    sets,       \* block sets of a rank
    iters,      \* gs->iters, the same on all ranks
    pc,         \* stage of an iteration a rank is in
    R,          \* number of times the reaction of a node has been computed
    image,      \* external reactions of a rank: R as last received
    fin,        \* external constraints of a rank with CON_DONE
    left,       \* middle nodes a rank has not processed yet
    landed,     \* posted receives of a rank that have completed
    chan,       \* messages of the communication patterns, FIFO for a tag
    mail        \* reactions of middle nodes under way: <<node, to, value>>

fixed == <<setup, color, sets>>
vars == <<fixed, iters, pc, R, image, fin, left, landed, chan, mail>>

Variant == setup.variant
Buffered == setup.buffered
Owner(n) == setup.owner[n]
Mine(r) == {n \in Nodes : Owner(n) = r}
AdjExt(n) == setup.adjext[n]
RanksOf(n) == {Owner(m) : m \in AdjExt(n)}
External(r) == UNION {AdjExt(n) : n \in Mine(r)}

(* processor_coloring: the first color not taken by an adjacent rank before *)
AdjCpu(r) == UNION {RanksOf(n) : n \in Mine(r)}
Coloring ==
    LET f[r \in Ranks] ==
          LET taken == {f[q] : q \in AdjCpu(r) \cap 0 .. r - 1}
          IN  CHOOSE c \in 1 .. NCpu : c \notin taken /\ \A d \in 1 .. c - 1 : d \in taken
    IN  f

(* block sets by the colors of the ranks they communicate with *)
ToLower(n) == \E q \in RanksOf(n) : color[q] < color[Owner(n)]
ToHigher(n) == \E q \in RanksOf(n) : ~ color[q] < color[Owner(n)]
Blocks ==
    [r \in Ranks |->
        [bottom |-> {n \in Mine(r) : ToHigher(n) /\ ~ ToLower(n)},
         middle |-> {n \in Mine(r) : ToHigher(n) /\ ToLower(n)},
         top |-> {n \in Mine(r) : ToLower(n) /\ ~ ToHigher(n)},
         internal |-> {n \in Mine(r) : AdjExt(n) = {}}]]

Bottom(r) == sets[r].bottom
Middle(r) == sets[r].middle
Top(r) == sets[r].top
Internal(r) == sets[r].internal

(* external constraints updated by middle nodes, told by a COMALL *)
MidUpd(r) == {n \in Nodes : n \in Middle(Owner(n)) /\ r \in RanksOf(n)}

Backward == Reverse /\ iters % 2 = 1
FirstSet(r) == IF Backward THEN Bottom(r) ELSE Top(r)
LastSet(r) == IF Backward THEN Top(r) ELSE Bottom(r)
FirstTag == IF Backward THEN "BOTTOM" ELSE "TOP"
LastTag == IF Backward THEN "TOP" ELSE "BOTTOM"

Init ==
    /\ \E g \in Graphs : \E v \in Variants : \E b \in Buffering :
        setup = [owner |-> g.owner, variant |-> v, buffered |-> b,
                 adjext |-> [n \in Nodes |-> {m \in Nodes : {m, n} \in g.edges}]]
    /\ color = Coloring
    /\ sets = Blocks
    /\ iters = 0
    /\ pc = [r \in Ranks |-> "first"]
    /\ R = [n \in Nodes |-> 0]
    /\ image = [r \in Ranks |-> [n \in Nodes |-> 0]]
    /\ fin = [r \in Ranks |-> {}]
    /\ left = [r \in Ranks |-> {}]
    /\ landed = [r \in Ranks |-> {}]
    /\ chan = [q \in Ranks |-> [r \in Ranks |-> [t \in Tags |-> <<>>]]]
    /\ mail = {}

-----------------------------------------------------------------------------
To(r, stage) == pc' = [pc EXCEPT ![r] = stage]
Sweep(S) == R' = [n \in Nodes |-> IF n \in S THEN iters + 1 ELSE R[n]]

(* the nodes of S whose reactions rank r needs *)
For(r, S) == {n \in S : r \in RanksOf(n)}

(* COM_Send: one message for every rank that a block of S communicates with *)
ComSend(r, S, tag) ==
    chan' = [chan EXCEPT ![r] = [q \in Ranks |-> [t \in Tags |->
        IF t = tag /\ For(q, S) # {} THEN Append(chan[r][q][t], For(q, S)) ELSE chan[r][q][t]]]]

(* COM_Recv and receive_reactions: one message from every rank with blocks
   that communicate with this one; the values were computed in this iteration.
   The sends of this rank are waited for as well: unless they are buffered,
   the others have to be beyond the stages before, in which they have not
   posted their receives. *)
ComRecv(r, blocks, tag, before) ==
    LET senders == {q \in Ranks : For(r, blocks[q]) # {}}
        got == UNION {Head(chan[q][r][tag]) : q \in senders}
    IN  /\ Buffered \/ \A n \in blocks[r] : \A q \in RanksOf(n) : pc[q] \notin before
        /\ \A q \in senders : chan[q][r][tag] # <<>>
        /\ chan' = [q \in Ranks |-> [chan[q] EXCEPT ![r][tag] =
                        IF q \in senders THEN Tail(@) ELSE @]]
        /\ image' = [image EXCEPT ![r] = [n \in Nodes |-> IF n \in got THEN iters + 1 ELSE @[n]]]
        /\ fin' = [fin EXCEPT ![r] = @ \cup got]

(* undo_all, then the first set, whose reactions are sent ahead *)
First(r) ==
    /\ Variant # "BOUNDARY_JACOBI" /\ pc[r] = "first"
    /\ Sweep(FirstSet(r))
    /\ ComSend(r, FirstSet(r), FirstTag)
    /\ fin' = [fin EXCEPT ![r] = {}]
    /\ To(r, "recvfirst")
    /\ UNCHANGED <<fixed, iters, image, left, landed, mail>>

RecvFirst(r) ==
    /\ pc[r] = "recvfirst"
    /\ ComRecv(r, [q \in Ranks |-> FirstSet(q)], FirstTag, {"first"})
    /\ left' = [left EXCEPT ![r] = Middle(r)]
    /\ landed' = [landed EXCEPT ![r] = {}]
    /\ To(r, IF Variant = "FULL" THEN "loop" ELSE "middle")
    /\ UNCHANGED <<fixed, iters, R, mail>>

-----------------------------------------------------------------------------
(* gauss_seidel_loop: receives have been posted for MidUpd; middle nodes are
   processed in the order of a score, by colors of their neighbours *)
Score(n) ==
    LET colors == {color[q] : q \in RanksOf(n)}
    IN  IF Backward THEN 0 ELSE - (CHOOSE c \in colors : \A d \in colors : d <= c)

(* m is computed before n, and n must wait for it *)
Precedes(m, n) ==
    IF Backward THEN color[Owner(m)] < color[Owner(n)] ELSE color[Owner(m)] > color[Owner(n)]

(* a posted receive completes, into the image itself *)
Land(r, n) ==
    /\ pc[r] = "loop" /\ n \in MidUpd(r) \ landed[r]
    /\ \E v \in 1 .. MaxIter :
        /\ <<n, r, v>> \in mail
        /\ mail' = mail \ {<<n, r, v>>}
        /\ image' = [image EXCEPT ![r][n] = v]
    /\ landed' = [landed EXCEPT ![r] = @ \cup {n}]
    /\ UNCHANGED <<fixed, iters, pc, R, fin, left, chan>>

(* Mutant: nothing is waited for. *)
MiddleNodeAtOnce(r, n) ==
    /\ pc[r] = "loop" /\ n \in left[r]
    /\ \A m \in left[r] : Score(n) <= Score(m)
    /\ Sweep({n})
    /\ mail' = mail \cup {<<n, q, iters + 1>> : q \in RanksOf(n)}
    /\ left' = [left EXCEPT ![r] = @ \ {n}]
    /\ UNCHANGED <<fixed, iters, pc, image, fin, landed, chan>>

(* Mutant: all external reactions are waited for. *)
MiddleNodeWaiting(r, n) ==
    /\ pc[r] = "loop" /\ n \in left[r]
    /\ \A m \in left[r] : Score(n) <= Score(m)
    /\ LET due == AdjExt(n) \ fin[r]
       IN  /\ due \subseteq landed[r]
           /\ fin' = [fin EXCEPT ![r] = @ \cup due]
    /\ Sweep({n})
    /\ mail' = mail \cup {<<n, q, iters + 1>> : q \in RanksOf(n)}
    /\ left' = [left EXCEPT ![r] = @ \ {n}]
    /\ UNCHANGED <<fixed, iters, pc, image, landed, chan>>

MiddleNode(r, n) ==
    /\ pc[r] = "loop" /\ n \in left[r]
    /\ \A m \in left[r] : Score(n) <= Score(m)
    /\ LET due == {m \in AdjExt(n) : Precedes(m, n)} \ fin[r]
       IN  /\ due \subseteq landed[r]
           /\ fin' = [fin EXCEPT ![r] = @ \cup due]
    /\ Sweep({n})
    /\ mail' = mail \cup {<<n, q, iters + 1>> : q \in RanksOf(n)}
    /\ left' = [left EXCEPT ![r] = @ \ {n}]
    /\ UNCHANGED <<fixed, iters, pc, image, landed, chan>>

(* Mutant: the undone reactions are not looked for at the end of the loop. *)
DrainSends(r) ==
    /\ pc[r] = "loop" /\ left[r] = {}
    /\ Buffered \/ \A m \in mail : Owner(m[1]) # r
    /\ fin' = [fin EXCEPT ![r] = @ \cup MidUpd(r)]
    /\ To(r, "last")
    /\ UNCHANGED <<fixed, iters, R, image, left, landed, chan, mail>>

(* the sends, then the undone receives are waited for *)
Drain(r) ==
    /\ pc[r] = "loop" /\ left[r] = {}
    /\ Buffered \/ \A m \in mail : Owner(m[1]) # r
    /\ MidUpd(r) \subseteq landed[r]
    /\ fin' = [fin EXCEPT ![r] = @ \cup MidUpd(r)]
    /\ To(r, "last")
    /\ UNCHANGED <<fixed, iters, R, image, left, landed, chan, mail>>

(* MIDDLE_JACOBI: one sweep, one exchange; mid_pattern has the bottom tag *)
JacobiMiddle(r) ==
    /\ pc[r] = "middle"
    /\ Sweep(Middle(r))
    /\ ComSend(r, Middle(r), "BOTTOM")
    /\ To(r, "recvmiddle")
    /\ UNCHANGED <<fixed, iters, image, fin, left, landed, mail>>

RecvMiddle(r) ==
    /\ pc[r] = "recvmiddle"
    /\ ComRecv(r, [q \in Ranks |-> Middle(q)], "BOTTOM", {"first", "recvfirst", "middle"})
    /\ To(r, "last")
    /\ UNCHANGED <<fixed, iters, R, left, landed, mail>>

-----------------------------------------------------------------------------
(* the last set; the internal nodes int1 and int2 have no external neighbours
   and are swept while the messages of the first and the last set travel *)
Last(r) ==
    /\ pc[r] = "last"
    /\ Sweep(LastSet(r) \cup Internal(r))
    /\ ComSend(r, LastSet(r), LastTag)
    /\ To(r, "recvlast")
    /\ UNCHANGED <<fixed, iters, image, fin, left, landed, mail>>

RecvLast(r) ==
    /\ pc[r] = "recvlast"
    /\ ComRecv(r, [q \in Ranks |-> LastSet(q)], LastTag,
               {"first", "recvfirst", "loop", "middle", "recvmiddle", "last"})
    /\ To(r, "reduce")
    /\ UNCHANGED <<fixed, iters, R, left, landed, mail>>

(* BOUNDARY_JACOBI: one sweep over all the nodes *)
JacobiAll(r) ==
    /\ Variant = "BOUNDARY_JACOBI" /\ pc[r] = "first"
    /\ Sweep(Mine(r))
    /\ To(r, "update")
    /\ UNCHANGED <<fixed, iters, image, fin, left, landed, chan, mail>>

(* every rank sends the reactions of its constraints to the ranks that hold
   their images and returns when it has received its own *)
UpdateExternal ==
    /\ \A r \in Ranks : pc[r] = "update"
    /\ image' = [r \in Ranks |-> [n \in Nodes |-> IF n \in External(r) THEN R[n] ELSE image[r][n]]]
    /\ pc' = [r \in Ranks |-> "reduce"]
    /\ UNCHANGED <<fixed, iters, R, fin, left, landed, chan, mail>>

(* MPI_Allreduce of the error: all ranks decide alike whether to go on *)
Reduce ==
    /\ \A r \in Ranks : pc[r] = "reduce"
    /\ iters' = iters + 1
    /\ \E converged \in BOOLEAN :
        pc' = [r \in Ranks |-> IF iters' < MaxIter /\ ~ converged THEN "first" ELSE "end"]
    /\ UNCHANGED <<fixed, R, image, fin, left, landed, chan, mail>>

Step(r) ==
    \/ First(r) \/ RecvFirst(r)
    \/ \E n \in Nodes : MiddleNode(r, n)
    \/ Drain(r) \/ JacobiMiddle(r) \/ RecvMiddle(r) \/ Last(r) \/ RecvLast(r) \/ JacobiAll(r)

Network == \E r \in Ranks : \E n \in Nodes : Land(r, n)

Next == (\E r \in Ranks : Step(r)) \/ Network \/ UpdateExternal \/ Reduce

(* every rank runs, messages arrive and collective calls return *)
Spec ==
    /\ Init /\ [][Next]_vars
    /\ \A r \in Ranks : WF_vars(Step(r))
    /\ WF_vars(Network) /\ WF_vars(UpdateExternal) /\ WF_vars(Reduce)

-----------------------------------------------------------------------------
(* "Not all external reactions were updated": when a rank comes to the end of
   an iteration, every external reaction it has is the one of this iteration. *)
AllDone == \A r \in Ranks : pc[r] = "reduce" =>
    /\ Variant # "BOUNDARY_JACOBI" => External(r) \subseteq fin[r]
    /\ \A n \in External(r) : image[r][n] = iters + 1

(* "Full Gauss-Seidel update as in sequential case": when a reaction is
   computed, the neighbours that precede it have been computed and have arrived,
   and the others are still those of the iteration before, on every schedule. *)
SequentialUpdate ==
    [][\A n \in Nodes : Variant = "FULL" /\ R'[n] # R[n] =>
         \A m \in AdjExt(n) :
            image[Owner(n)][m] = IF Precedes(m, n) THEN iters + 1 ELSE iters]_vars

(* No schedule of the ranks and no delay of messages makes them wait for each
   other: the solver always returns. *)
Termination == <>(\A r \in Ranks : pc[r] = "end")
=============================================================================
