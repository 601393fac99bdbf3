-------------------------------- MODULE Com --------------------------------
(***************************************************************************)
(* Parallel communication (src/com.c).  All ranks run the same script of   *)
(* calls.  A call is a sequence of the steps it makes MPI take: collective *)
(* operations, posted receives, ready sends (MPI_Rsend, erroneous unless   *)
(* the receive has been posted), non-blocking sends and waits.             *)
(*                                                                         *)
(* Messages between two ranks with one tag do not overtake each other and  *)
(* are matched to the receives in the order in which these were posted,    *)
(* whatever call either belongs to: keeping the messages of one call out   *)
(* of the receives of another is up to com.c.                              *)
(***************************************************************************)
EXTENDS Integers, Sequences, FiniteSets, FiniteSetsExt, SequencesExt

CONSTANTS
    NCpu,       \* size of the communicator
    Scripts,    \* sequences of calls [call, tag, send]; see Sends
    IntMax,     \* INT_MAX
    Buffering   \* whether MPI completes a non-blocking send by itself

Ranks == 0 .. NCpu - 1
Calls == {"COM", "COM_Pattern", "COM_Repeat", "COM_Send", "COM_Recv", "COMALL", "COMALL2"}

ASSUME ComAssumption ==
    /\ NCpu \in Nat \ {0} /\ IntMax \in Nat /\ Buffering \subseteq BOOLEAN
    /\ \A s \in Scripts : Len(s) \in Nat /\ DOMAIN s = 1 .. Len(s)
    /\ \A s \in Scripts : \A i \in DOMAIN s :
        /\ s[i].call \in Calls /\ DOMAIN s[i].send = Ranks
        /\ \A r \in Ranks : \A k \in DOMAIN s[i].send[r] :
            s[i].send[r][k].rank \in Ranks /\ s[i].send[r][k].size \in Nat
        /\ s[i].call = "COM_Recv" => \E k \in 1 .. i - 1 :
            /\ s[k].call = "COM_Send" /\ s[k].tag = s[i].tag
            /\ \A l \in k + 1 .. i - 1 :
                s[l].call \in {"COM_Send", "COM_Recv"} => s[l].tag # s[i].tag

VARIABLES
    setup,      \* the script and the machine of this run
    code,       \* the steps a rank takes, and
    items,      \* items[i][q][r]: what q has for r in call i; both follow from setup
    ip,         \* next step of a rank: the call, and the step of its code
    inside,     \* ranks in a collective operation
    called,     \* collective operations a rank has entered: [kind, op, step]
    posted,     \* posted[r][q][t]: receives r has posted for q, first one first
    wire,       \* wire[q][r][t]: messages of q for r on the way, first one first
    landed,     \* receives of a rank that have completed: [from, slot, msg]
    given,      \* exchanges a rank has handed its data over to
    result      \* what the calls have returned to a rank

fixed == <<setup, code, items>>
vars == <<fixed, ip, inside, called, posted, wire, landed, given, result>>

Script == setup.script
Ops == DOMAIN Script
Tags == {Script[i].tag : i \in Ops}

(* the send sizes of a call: COMDATA entries for one rank are merged; sizes of
   zero are not sent *)
Total(entries) == FoldLeft(LAMBDA sum, e : sum + e.size, 0, entries)
Merged(entries, r) == SelectSeq(entries, LAMBDA e : e.rank = r /\ e.size > 0)
ItemsOf(i, q, r) == Merged(Script[i].send[q], r)
Sends(i, q) == {r \in Ranks : items[i][q][r] # <<>>}
(* the receive ranks, computed from the send ranks all ranks have gathered *)
From(i, r) == {q \in Ranks : r \in Sends(i, q)}
SendTotal(i, q) == Total(Script[i].send[q])
RecvTotal(i, r) ==
    Total(FlattenSeq([k \in 1 .. NCpu |-> items[i][k - 1][r]]))

(* Mutant: every rank decides by its own sizes. *)
FitsLocally(i, r) == SendTotal(i, r) < IntMax /\ RecvTotal(i, r) < IntMax

(* MPI_Allreduce of the largest sizes: whether integers can index the buffers *)
Fits(i, r) == \A q \in Ranks : SendTotal(i, q) < IntMax /\ RecvTotal(i, q) < IntMax

-----------------------------------------------------------------------------
(* the steps of a call; the exchange of a call is named by its place in the
   script, that of COM_Recv by the COM_Send it completes *)
Collective(i, kind) == <<[do |-> "collective", op |-> i, part |-> kind]>>
Unpacking(i) == <<[do |-> "unpack", op |-> i, part |-> "data"]>>

(* Mutant: the ready sends do not wait for the others to post their receives. *)
RoundAtOnce(i, part) ==
    <<[do |-> "post", op |-> i, part |-> part],
      [do |-> "rsend", op |-> i, part |-> part],
      [do |-> "wait", op |-> i, part |-> part]>>

(* receives, a barrier, ready sends *)
Round(i, part) ==
    <<[do |-> "post", op |-> i, part |-> part]>> \o Collective(i, "Barrier") \o
    <<[do |-> "rsend", op |-> i, part |-> part],
      [do |-> "wait", op |-> i, part |-> part]>>

COM_Pattern(i) == Collective(i, "Allgather") \o Round(i, "sizes")
COM_Repeat(i) == Round(i, "data") \o Unpacking(i)
COM(i) == COM_Pattern(i) \o COM_Repeat(i)
COM_Send(i) == <<[do |-> "start", op |-> i, part |-> "data"]>>

(* the last COM_Send of the same pattern *)
Started(i) == CHOOSE k \in 1 .. i - 1 :
    /\ Script[k].call = "COM_Send" /\ Script[k].tag = Script[i].tag
    /\ \A l \in k + 1 .. i - 1 : Script[l].call = "COM_Send" => Script[l].tag # Script[i].tag

(* Mutant: only the sends are waited for. *)
COM_RecvSends(i) == <<[do |-> "waitsend", op |-> Started(i), part |-> "data"]>> \o
                    Unpacking(Started(i))

COM_Recv(i) == <<[do |-> "waitsend", op |-> Started(i), part |-> "data"],
                 [do |-> "wait", op |-> Started(i), part |-> "data"]>> \o Unpacking(Started(i))

COMALL(i, r) ==
    Collective(i, "Alltoall") \o Collective(i, "Allreduce") \o
    (IF Fits(i, r) THEN Collective(i, "Alltoallv") ELSE Round(i, "data")) \o Unpacking(i)

(* integers and doubles apart, both in blocks: at least one for every rank, and so
   large that integers index what a rank sends (not what it receives) *)
COMALL2(i) ==
    Collective(i, "Allreduce") \o Collective(i, "Alltoall") \o
    Collective(i, "Alltoallv") \o Collective(i, "Alltoallv") \o Unpacking(i)

Steps(i, r) ==
    CASE Script[i].call = "COM" -> COM(i)
      [] Script[i].call = "COM_Pattern" -> COM_Pattern(i)
      [] Script[i].call = "COM_Repeat" -> COM_Repeat(i)
      [] Script[i].call = "COM_Send" -> COM_Send(i)
      [] Script[i].call = "COM_Recv" -> COM_Recv(i)
      [] Script[i].call = "COMALL" -> COMALL(i, r)
      [] Script[i].call = "COMALL2" -> COMALL2(i)

Init ==
    /\ \E s \in Scripts : \E b \in Buffering :
        setup = [script |-> s, buffered |-> b]
    /\ items = [i \in Ops |-> [q \in Ranks |-> [r \in Ranks |-> ItemsOf(i, q, r)]]]
    /\ code = [r \in Ranks |-> [i \in Ops |-> Steps(i, r)]]
    /\ ip = [r \in Ranks |-> [op |-> 1, step |-> 1]]
    /\ inside = {}
    /\ called = [r \in Ranks |-> <<>>]
    /\ posted = [r \in Ranks |-> [q \in Ranks |-> [t \in Tags |-> <<>>]]]
    /\ wire = posted
    /\ landed = [r \in Ranks |-> {}]
    /\ given = [r \in Ranks |-> {}]
    /\ result = [r \in Ranks |-> <<>>]

-----------------------------------------------------------------------------
Ended(r) == ip[r].op > Len(Script)
Now(r) == code[r][ip[r].op][ip[r].step]
At(r, do) == ~ Ended(r) /\ Now(r).do = do
Proceed(r) ==
    ip' = [ip EXCEPT ![r] = IF ip[r].step < Len(code[r][ip[r].op])
                            THEN [op |-> ip[r].op, step |-> ip[r].step + 1]
                            ELSE [op |-> ip[r].op + 1, step |-> 1]]
TagOf(i) == Script[i].tag

Added(queues, i, part) == [queues EXCEPT ![TagOf(i)] = Append(@, [op |-> i, part |-> part])]

PostFor(r, i, part) ==
    posted' = [posted EXCEPT ![r] = [q \in Ranks |->
        IF q \in From(i, r) THEN Added(posted[r][q], i, part) ELSE posted[r][q]]]

(* Mutant: entries for one rank are not merged, each makes a message. *)
SendEach(r, i, part) ==
    wire' = [wire EXCEPT ![r] = [q \in Ranks |->
        [@[q] EXCEPT ![TagOf(i)] =
            @ \o [n \in 1 .. Len(items[i][r][q]) |-> [op |-> i, part |-> part]]]]]

SendTo(r, i, part) ==
    wire' = [wire EXCEPT ![r] = [q \in Ranks |->
        IF q \in Sends(i, r) THEN Added(wire[r][q], i, part) ELSE wire[r][q]]]

Hand(r, i) == given' = [given EXCEPT ![r] = @ \cup {i}]

Enter(r) ==
    /\ At(r, "collective") /\ r \notin inside
    /\ inside' = inside \cup {r}
    /\ called' = [called EXCEPT ![r] =
          Append(@, [kind |-> Now(r).part, op |-> Now(r).op, step |-> ip[r].step])]
    /\ IF Now(r).part = "Alltoallv" THEN Hand(r, Now(r).op) ELSE UNCHANGED given
    /\ UNCHANGED <<fixed, ip, posted, wire, landed, result>>

(* A collective operation returns when those it depends on have entered it:
   for MPI_Alltoallv with counts of zero these are only the senders. *)
Leave(r) ==
    LET n == Len(called[r])
        needed == IF Now(r).part = "Alltoallv" /\ Script[Now(r).op].call = "COMALL"
                  THEN From(Now(r).op, r) ELSE Ranks
    IN  /\ r \in inside
        /\ \A q \in needed : Len(called[q]) >= n
        /\ inside' = inside \ {r}
        /\ landed' = [landed EXCEPT ![r] = @ \cup
              IF Now(r).part = "Alltoallv"
              THEN {[from |-> q, slot |-> [op |-> Now(r).op, part |-> "data"],
                     msg |-> [op |-> called[q][n].op, part |-> "data"]] : q \in From(Now(r).op, r)}
              ELSE {}]
        /\ Proceed(r)
        /\ UNCHANGED <<fixed, called, posted, wire, given, result>>

Post(r) ==
    /\ At(r, "post")
    /\ PostFor(r, Now(r).op, Now(r).part)
    /\ Proceed(r)
    /\ UNCHANGED <<fixed, inside, called, wire, landed, given, result>>

Rsend(r) ==
    /\ At(r, "rsend")
    /\ SendTo(r, Now(r).op, Now(r).part)
    /\ IF Now(r).part = "data" THEN Hand(r, Now(r).op) ELSE UNCHANGED given
    /\ Proceed(r)
    /\ UNCHANGED <<fixed, inside, called, posted, landed, result>>

(* Mutant: receives are left to COM_Recv, after its wait for the sends. *)
StartSends(r) ==
    /\ At(r, "start")
    /\ SendTo(r, Now(r).op, "data")
    /\ Hand(r, Now(r).op)
    /\ Proceed(r)
    /\ UNCHANGED <<fixed, inside, called, posted, landed, result>>

(* COM_Send: MPI_Isend to the send ranks, MPI_Irecv from the receive ranks *)
Start(r) ==
    /\ At(r, "start")
    /\ SendTo(r, Now(r).op, "data")
    /\ PostFor(r, Now(r).op, "data")
    /\ Hand(r, Now(r).op)
    /\ Proceed(r)
    /\ UNCHANGED <<fixed, inside, called, landed, result>>

(* MPI_Waitall of the send requests *)
WaitSend(r) ==
    /\ At(r, "waitsend")
    /\ setup.buffered \/ \A q \in Ranks : \A t \in Tags :
        \A k \in DOMAIN wire[r][q][t] : wire[r][q][t][k].op # Now(r).op
    /\ Proceed(r)
    /\ UNCHANGED <<fixed, inside, called, posted, wire, landed, given, result>>

(* MPI_Waitall of the receive requests *)
Wait(r) ==
    /\ At(r, "wait")
    /\ \A q \in Ranks : \A t \in Tags : \A k \in DOMAIN posted[r][q][t] :
        posted[r][q][t][k] # [op |-> Now(r).op, part |-> Now(r).part]
    /\ Proceed(r)
    /\ UNCHANGED <<fixed, inside, called, posted, wire, landed, given, result>>

(* MPI_Unpack: what has landed in the receive buffers of the call *)
Unpack(r) ==
    /\ At(r, "unpack")
    /\ LET i == Now(r).op
           mine == {l \in landed[r] : l.slot = [op |-> i, part |-> "data"]}
           Of(q) == CHOOSE l \in mine : l.from = q
       IN  /\ result' = [result EXCEPT ![r] = Append(@,
                [x |-> i, got |-> [q \in {l.from : l \in mine} |-> items[Of(q).msg.op][q][r]]])]
           /\ landed' = [landed EXCEPT ![r] = {l \in @ : l.slot.op # i}]
    /\ Proceed(r)
    /\ UNCHANGED <<fixed, inside, called, posted, wire, given>>

(* a message of q arrives in the first receive r has posted for it *)
Land(q, r, t) ==
    /\ wire[q][r][t] # <<>> /\ posted[r][q][t] # <<>>
    /\ wire' = [wire EXCEPT ![q][r][t] = Tail(@)]
    /\ posted' = [posted EXCEPT ![r][q][t] = Tail(@)]
    /\ landed' = [landed EXCEPT ![r] = @ \cup
          {[from |-> q, slot |-> Head(posted[r][q][t]), msg |-> Head(wire[q][r][t])]}]
    /\ UNCHANGED <<fixed, ip, inside, called, given, result>>

Step(r) == \/ Enter(r) \/ Leave(r) \/ Post(r) \/ Rsend(r)
           \/ Start(r) \/ WaitSend(r) \/ Wait(r) \/ Unpack(r)

Done == (\A r \in Ranks : Ended(r)) /\ UNCHANGED vars

Next == \/ \E r \in Ranks : Step(r)
        \/ \E q, r \in Ranks : \E t \in Tags : Land(q, r, t)
        \/ Done

(* every rank runs on and every message that can be received is received *)
Spec ==
    /\ Init /\ [][Next]_vars
    /\ \A r \in Ranks : WF_vars(Step(r))
    /\ WF_vars(\E q, r \in Ranks : \E t \in Tags : Land(q, r, t))

-----------------------------------------------------------------------------
(* The standard lets MPI_Rsend start only when the matching receive has been
   posted: at a ready send, every rank it goes to has a receive in wait that no
   earlier message will take. *)
ReadyReceives == \A r \in Ranks : At(r, "rsend") =>
    \A q \in Sends(Now(r).op, r) :
        LET t == TagOf(Now(r).op)
        IN  Len(posted[q][r][t]) > Len(wire[r][q][t])

(* A message ends in the receive of its own call and part: neither the sizes
   and the data of a call nor patterns that share a tag (the bottom and the
   middle set of the Gauss-Seidel solver) get into each other's buffers. *)
OwnReceives == \A r \in Ranks : \A l \in landed[r] : l.slot = l.msg

(* All ranks enter the same collective operations in the same order, also when
   only one of them has buffers beyond the range of integers (COMALL). *)
CollectivesAgree == \A q, r \in Ranks :
    \A n \in DOMAIN called[q] \cap DOMAIN called[r] : called[q][n] = called[r][n]

(* A call returns exactly what the others have sent to this rank in it. *)
X == INSTANCE Exchange WITH Rank <- Ranks, sends <- items
Exchanged == X!Spec

(* No call waits for ever, whether or not MPI buffers sends. *)
Termination == <>(\A r \in Ranks : Ended(r))
=============================================================================
