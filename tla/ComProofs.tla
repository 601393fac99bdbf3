----------------------------- MODULE ComProofs -----------------------------
(***************************************************************************)
(* Proofs about parallel communication (module Com), for every number of   *)
(* ranks, every script and whether or not MPI buffers sends.               *)
(***************************************************************************)
EXTENDS Com, FiniteSetTheorems, TLAPS

Sending == {"rsend", "start"}
Posting == {"post", "start"}
Parts == {"sizes", "data"}
Kinds == {"Allgather", "Barrier", "Alltoall", "Allreduce", "Alltoallv"}

(* What holds of the steps s that a call i makes. *)
Plain(s, i) ==
    /\ Len(s) \in Nat \ {0} /\ DOMAIN s = 1 .. Len(s)
    /\ \A k \in DOMAIN s : s[k].do \in Sending \cup Posting \cup {"collective"} => s[k].op = i
    /\ \A k \in DOMAIN s : s[k].do \in Sending \cup Posting => s[k].part \in Parts
    /\ \A k \in DOMAIN s : s[k].do = "start" => s[k].part = "data"
    /\ \A k \in DOMAIN s : s[k].do = "collective" => s[k].part \in Kinds

(* sizes before data, each of them once, in receives as in sends *)
Twofold(s) ==
    /\ \A k, l \in DOMAIN s :
        /\ k < l /\ s[k].do \in Sending /\ s[l].do \in Sending => s[k].part = "sizes" /\ s[l].part = "data"
        /\ k < l /\ s[k].do \in Posting /\ s[l].do \in Posting => s[k].part = "sizes" /\ s[l].part = "data"
    /\ \A k \in DOMAIN s : s[k].do \in Sending =>
        \E l \in DOMAIN s : l <= k /\ s[l].do \in Posting /\ s[l].part = s[k].part
    /\ \A k \in DOMAIN s : s[k].do \in Posting =>
        \E l \in DOMAIN s : s[l].do \in Sending /\ s[l].part = s[k].part

(* a barrier between the receives and the ready sends *)
Guarded(s) ==
    \A k \in DOMAIN s : s[k].do = "rsend" =>
        \E j, l \in DOMAIN s :
            /\ j < l /\ l < k /\ s[j].do = "post" /\ s[j].part = s[k].part
            /\ s[l].do = "collective" /\ s[l].part = "Barrier"

(* what is waited for *)
Waiting(s, i) ==
    \A k \in DOMAIN s : s[k].do = "wait" =>
        /\ s[k].part \in Parts
        /\ \/ s[k].op = i /\ \E j \in DOMAIN s : j < k /\ s[j].do = "post" /\ s[j].part = s[k].part
           \/ s[k].op = Started(i) /\ Script[i].call = "COM_Recv" /\ s[k].part = "data"

(* and taken out *)
Taking(s, i) ==
    /\ \A k, l \in DOMAIN s : s[k].do = "unpack" /\ s[l].do = "unpack" => k = l
    /\ \A k \in DOMAIN s : s[k].do = "unpack" =>
        /\ s[k].op = (IF Script[i].call = "COM_Recv" THEN Started(i) ELSE i)
        /\ Script[i].call # "COM_Send"
        /\ \E j \in DOMAIN s :
            /\ j < k /\ s[j].op = s[k].op
            /\ \/ s[j].do = "wait" /\ s[j].part = "data"
               \/ s[j].do = "collective" /\ s[j].part = "Alltoallv" /\ Script[i].call # "COM_Recv"

Shaped(s, i) == Plain(s, i) /\ Twofold(s) /\ Guarded(s) /\ Waiting(s, i) /\ Taking(s, i)

Does(do, i, part) == [do |-> do, op |-> i, part |-> part]

-----------------------------------------------------------------------------
(* The script, and what follows from it, stays as it was made. *)
Frame ==
    /\ setup.script \in Scripts
    /\ items = [i \in Ops |-> [q \in Ranks |-> [r \in Ranks |-> ItemsOf(i, q, r)]]]
    /\ code = [r \in Ranks |-> [i \in Ops |-> Steps(i, r)]]

Slots == [op : Ops, part : Parts]
Operations == [kind : Kinds, op : Ops, step : Nat \ {0}]
Return(i, r) == [x |-> i, got |-> [q \in From(i, r) |-> items[i][q][r]]]
Returns == UNION {{Return(i, r) : i \in Ops} : r \in Ranks}
Place(i, k) == [op |-> i, step |-> k]
Earlier(p, q) == p.op < q.op \/ (p.op = q.op /\ p.step < q.step)
Passed(r, i, k) == Earlier(Place(i, k), ip[r])

Typed ==
    /\ ip \in [Ranks -> [op : Nat \ {0}, step : Nat \ {0}]]
    /\ \A r \in Ranks : IF ip[r].op <= Len(Script) THEN ip[r].step \in DOMAIN code[r][ip[r].op]
                        ELSE ip[r] = Place(Len(Script) + 1, 1)
    /\ inside \subseteq Ranks
    /\ called \in [Ranks -> Seq(Operations)]
    /\ wire \in [Ranks -> [Ranks -> [Tags -> Seq(Slots)]]]
    /\ posted \in [Ranks -> [Ranks -> [Tags -> Seq(Slots)]]]
    /\ landed \in [Ranks -> SUBSET [from : Ranks, slot : Slots, msg : Slots]]
    /\ given \in [Ranks -> SUBSET Ops]
    /\ result \in [Ranks -> Seq(Returns)]

-----------------------------------------------------------------------------
(* Messages between two ranks, and the receives for them, named by call and part. *)
Before(m, n) == m.op < n.op \/ (m.op = n.op /\ m.part = "sizes" /\ n.part = "data")
In(s) == {s[k] : k \in DOMAIN s}
Sorted(s) == \A k, l \in DOMAIN s : k < l => Before(s[k], s[l])

Did(r, dos, m) ==
    \E k \in DOMAIN code[r][m.op] :
        code[r][m.op][k].do \in dos /\ code[r][m.op][k].part = m.part /\ Passed(r, m.op, k)
SentTo(q, r, t) == {m \in Slots : Did(q, Sending, m) /\ r \in Sends(m.op, q) /\ TagOf(m.op) = t}
PostedFor(r, q, t) == {m \in Slots : Did(r, Posting, m) /\ r \in Sends(m.op, q) /\ TagOf(m.op) = t}

(* What is on the way, w, and what is waited for, p, is what follows the messages
   that have met their receives; S have been sent and P are or were waited for. *)
Linked(w, p, S, P) ==
    /\ w \in Seq(Slots) /\ p \in Seq(Slots) /\ Sorted(w) /\ Sorted(p)
    /\ In(w) \subseteq S /\ In(p) \subseteq P
    /\ S \ In(w) = P \ In(p)
    /\ \A m \in S \ In(w) : \A n \in In(w) \cup In(p) : Before(m, n)
Channel(q, r, t) == Linked(wire[q][r][t], posted[r][q][t], SentTo(q, r, t), PostedFor(r, q, t))
Channels == \A q, r \in Ranks : \A t \in Tags : Channel(q, r, t)

-----------------------------------------------------------------------------
(* The collective operations a rank has entered, in the order of the script. *)
Collects(r, i, k) == code[r][i][k].do = "collective"
Entry(r, i, k) == [kind |-> code[r][i][k].part, op |-> i, step |-> k]
Reached(r, i, k) == Passed(r, i, k) \/ (r \in inside /\ ip[r] = Place(i, k))
Collected(r) ==
    /\ \A k, l \in DOMAIN called[r] : k < l => Earlier(called[r][k], called[r][l])
    /\ \A e \in In(called[r]) :
        /\ e.step \in DOMAIN code[r][e.op] /\ Collects(r, e.op, e.step)
        /\ Reached(r, e.op, e.step) /\ e = Entry(r, e.op, e.step)
    /\ \A i \in Ops : \A k \in DOMAIN code[r][i] :
        Collects(r, i, k) /\ Reached(r, i, k) => Entry(r, i, k) \in In(called[r])
    /\ r \in inside => At(r, "collective")

(* A rank that has left a barrier has seen all others enter it. *)
Barred(r) ==
    \A i \in Ops : \A k \in DOMAIN code[r][i] :
        Collects(r, i, k) /\ code[r][i][k].part = "Barrier" /\ Passed(r, i, k) =>
            \A q \in Ranks : Reached(q, i, k)

-----------------------------------------------------------------------------
Data(x) == [op |-> x, part |-> "data"]
Unpacked(r, x) ==
    \E i \in Ops : \E k \in DOMAIN code[r][i] :
        code[r][i][k].do = "unpack" /\ code[r][i][k].op = x /\ Passed(r, i, k)
Has(r, q, x) == \E l \in landed[r] : l.from = q /\ l.slot = Data(x)
Sharing(r, i, k) == Collects(r, i, k) /\ code[r][i][k].part = "Alltoallv"

(* What has landed is what was sent for this rank, in its own receive. *)
Landed(r) ==
    \A l \in landed[r] :
        /\ l.slot = l.msg /\ r \in Sends(l.slot.op, l.from)
        /\ l.slot.part = "data" => l.slot.op \in given[l.from]

(* All data that has arrived, by message or in a collective operation, has landed
   and stays until it is taken out. *)
Kept(r) ==
    /\ \A q \in Ranks : \A t \in Tags : \A m \in PostedFor(r, q, t) \ In(posted[r][q][t]) :
        m.part = "data" /\ ~ Unpacked(r, m.op) => Has(r, q, m.op)
    /\ \A i \in Ops : \A k \in DOMAIN code[r][i] :
        Sharing(r, i, k) /\ Passed(r, i, k) /\ ~ Unpacked(r, i) =>
            \A q \in From(i, r) : Has(r, q, i)

(* No receive is open any more that has been waited for. *)
Waited(r) ==
    \A i \in Ops : \A k \in DOMAIN code[r][i] :
        code[r][i][k].do = "wait" /\ Passed(r, i, k) =>
            \A q \in Ranks : \A t \in Tags :
                [op |-> code[r][i][k].op, part |-> code[r][i][k].part] \notin In(posted[r][q][t])

Handed(r) ==
    /\ \A i \in Ops : Did(r, Sending, Data(i)) => i \in given[r]
    /\ \A i \in Ops : \A k \in DOMAIN code[r][i] : Sharing(r, i, k) /\ Reached(r, i, k) => i \in given[r]

Returned(r) == \A x \in Ops : (\E n \in DOMAIN result[r] : result[r][n].x = x) => Unpacked(r, x)

Ranked(r) ==
    /\ Collected(r) /\ Barred(r)
    /\ Landed(r) /\ Kept(r) /\ Waited(r) /\ Handed(r) /\ Returned(r)

IInv == Frame /\ Typed /\ Channels /\ CollectivesAgree /\ \A r \in Ranks : Ranked(r)

LEMMA ShapedCOM ==
    ASSUME NEW i, Script[i].call = "COM" PROVE Shaped(COM(i), i)
<1> DEFINE s == COM(i)
<1>1. /\ Len(s) = 10 /\ DOMAIN s = {1, 2, 3, 4, 5, 6, 7, 8, 9, 10}
      /\ s[1] = Does("collective", i, "Allgather") /\ s[2] = Does("post", i, "sizes")
      /\ s[3] = Does("collective", i, "Barrier") /\ s[4] = Does("rsend", i, "sizes")
      /\ s[5] = Does("wait", i, "sizes") /\ s[6] = Does("post", i, "data")
      /\ s[7] = Does("collective", i, "Barrier") /\ s[8] = Does("rsend", i, "data")
      /\ s[9] = Does("wait", i, "data") /\ s[10] = Does("unpack", i, "data")
  BY DEF COM, COM_Pattern, COM_Repeat, Round, Collective, Unpacking, Does
<1> HIDE DEF s
<1>2. Plain(s, i)
  BY <1>1 DEF Plain, Does, Sending, Posting, Parts, Kinds
<1>3. Twofold(s)
  BY <1>1 DEF Twofold, Does, Sending, Posting
<1>4. Guarded(s)
  BY <1>1 DEF Guarded, Does
<1>5. Waiting(s, i)
  BY <1>1 DEF Waiting, Does, Parts
<1>6. Taking(s, i)
  BY <1>1 DEF Taking, Does
<1> QED
  BY <1>2, <1>3, <1>4, <1>5, <1>6 DEF Shaped, s

LEMMA ShapedPattern ==
    ASSUME NEW i, Script[i].call = "COM_Pattern" PROVE Shaped(COM_Pattern(i), i)
<1> DEFINE s == COM_Pattern(i)
<1>1. /\ Len(s) = 5 /\ DOMAIN s = {1, 2, 3, 4, 5}
      /\ s[1] = Does("collective", i, "Allgather") /\ s[2] = Does("post", i, "sizes")
      /\ s[3] = Does("collective", i, "Barrier") /\ s[4] = Does("rsend", i, "sizes")
      /\ s[5] = Does("wait", i, "sizes")
  BY DEF COM_Pattern, Round, Collective, Does
<1> HIDE DEF s
<1>2. Plain(s, i)
  BY <1>1 DEF Plain, Does, Sending, Posting, Parts, Kinds
<1>3. Twofold(s)
  BY <1>1 DEF Twofold, Does, Sending, Posting
<1>4. Guarded(s)
  BY <1>1 DEF Guarded, Does
<1>5. Waiting(s, i)
  BY <1>1 DEF Waiting, Does, Parts
<1>6. Taking(s, i)
  BY <1>1 DEF Taking, Does
<1> QED
  BY <1>2, <1>3, <1>4, <1>5, <1>6 DEF Shaped, s

LEMMA ShapedRepeat ==
    ASSUME NEW i, Script[i].call = "COM_Repeat" PROVE Shaped(COM_Repeat(i), i)
<1> DEFINE s == COM_Repeat(i)
<1>1. /\ Len(s) = 5 /\ DOMAIN s = {1, 2, 3, 4, 5}
      /\ s[1] = Does("post", i, "data") /\ s[2] = Does("collective", i, "Barrier")
      /\ s[3] = Does("rsend", i, "data") /\ s[4] = Does("wait", i, "data")
      /\ s[5] = Does("unpack", i, "data")
  BY DEF COM_Repeat, Round, Collective, Unpacking, Does
<1> HIDE DEF s
<1>2. Plain(s, i)
  BY <1>1 DEF Plain, Does, Sending, Posting, Parts, Kinds
<1>3. Twofold(s)
  BY <1>1 DEF Twofold, Does, Sending, Posting
<1>4. Guarded(s)
  BY <1>1 DEF Guarded, Does
<1>5. Waiting(s, i)
  BY <1>1 DEF Waiting, Does, Parts
<1>6. Taking(s, i)
  BY <1>1 DEF Taking, Does
<1> QED
  BY <1>2, <1>3, <1>4, <1>5, <1>6 DEF Shaped, s

LEMMA ShapedSend ==
    ASSUME NEW i, Script[i].call = "COM_Send" PROVE Shaped(COM_Send(i), i)
<1> DEFINE s == COM_Send(i)
<1>1. /\ Len(s) = 1 /\ DOMAIN s = {1}
      /\ s[1] = Does("start", i, "data")
  BY DEF COM_Send, Does
<1> HIDE DEF s
<1>2. Plain(s, i)
  BY <1>1 DEF Plain, Does, Sending, Posting, Parts, Kinds
<1>3. Twofold(s)
  BY <1>1 DEF Twofold, Does, Sending, Posting
<1>4. Guarded(s)
  BY <1>1 DEF Guarded, Does
<1>5. Waiting(s, i)
  BY <1>1 DEF Waiting, Does, Parts
<1>6. Taking(s, i)
  BY <1>1 DEF Taking, Does
<1> QED
  BY <1>2, <1>3, <1>4, <1>5, <1>6 DEF Shaped, s

LEMMA ShapedRecv ==
    ASSUME NEW i, Script[i].call = "COM_Recv" PROVE Shaped(COM_Recv(i), i)
<1> DEFINE s == COM_Recv(i)
<1>1. /\ Len(s) = 3 /\ DOMAIN s = {1, 2, 3}
      /\ s[1] = Does("waitsend", Started(i), "data") /\ s[2] = Does("wait", Started(i), "data")
      /\ s[3] = Does("unpack", Started(i), "data")
  BY DEF COM_Recv, Unpacking, Does
<1> HIDE DEF s
<1>2. Plain(s, i)
  BY <1>1 DEF Plain, Does, Sending, Posting, Parts, Kinds
<1>3. Twofold(s)
  BY <1>1 DEF Twofold, Does, Sending, Posting
<1>4. Guarded(s)
  BY <1>1 DEF Guarded, Does
<1>5. Waiting(s, i)
  BY <1>1 DEF Waiting, Does, Parts
<1>6. Taking(s, i)
  BY <1>1 DEF Taking, Does
<1> QED
  BY <1>2, <1>3, <1>4, <1>5, <1>6 DEF Shaped, s

LEMMA ShapedIndexed ==
    ASSUME NEW i, Script[i].call = "COMALL", NEW r, Fits(i, r) PROVE Shaped(COMALL(i, r), i)
<1> DEFINE s == COMALL(i, r)
<1>1. /\ Len(s) = 4 /\ DOMAIN s = {1, 2, 3, 4}
      /\ s[1] = Does("collective", i, "Alltoall") /\ s[2] = Does("collective", i, "Allreduce")
      /\ s[3] = Does("collective", i, "Alltoallv") /\ s[4] = Does("unpack", i, "data")
  BY DEF COMALL, Collective, Unpacking, Does
<1> HIDE DEF s
<1>2. Plain(s, i)
  BY <1>1 DEF Plain, Does, Sending, Posting, Parts, Kinds
<1>3. Twofold(s)
  BY <1>1 DEF Twofold, Does, Sending, Posting
<1>4. Guarded(s)
  BY <1>1 DEF Guarded, Does
<1>5. Waiting(s, i)
  BY <1>1 DEF Waiting, Does, Parts
<1>6. Taking(s, i)
  BY <1>1 DEF Taking, Does
<1> QED
  BY <1>2, <1>3, <1>4, <1>5, <1>6 DEF Shaped, s

LEMMA ShapedBeyond ==
    ASSUME NEW i, Script[i].call = "COMALL", NEW r, ~ Fits(i, r) PROVE Shaped(COMALL(i, r), i)
<1> DEFINE s == COMALL(i, r)
<1>1. /\ Len(s) = 7 /\ DOMAIN s = {1, 2, 3, 4, 5, 6, 7}
      /\ s[1] = Does("collective", i, "Alltoall") /\ s[2] = Does("collective", i, "Allreduce")
      /\ s[3] = Does("post", i, "data") /\ s[4] = Does("collective", i, "Barrier")
      /\ s[5] = Does("rsend", i, "data") /\ s[6] = Does("wait", i, "data")
      /\ s[7] = Does("unpack", i, "data")
  BY DEF COMALL, Round, Collective, Unpacking, Does
<1> HIDE DEF s
<1>2. Plain(s, i)
  BY <1>1 DEF Plain, Does, Sending, Posting, Parts, Kinds
<1>3. Twofold(s)
  BY <1>1 DEF Twofold, Does, Sending, Posting
<1>4. Guarded(s)
  BY <1>1 DEF Guarded, Does
<1>5. Waiting(s, i)
  BY <1>1 DEF Waiting, Does, Parts
<1>6. Taking(s, i)
  BY <1>1 DEF Taking, Does
<1> QED
  BY <1>2, <1>3, <1>4, <1>5, <1>6 DEF Shaped, s

LEMMA ShapedBlocks ==
    ASSUME NEW i, Script[i].call = "COMALL2" PROVE Shaped(COMALL2(i), i)
<1> DEFINE s == COMALL2(i)
<1>1. /\ Len(s) = 5 /\ DOMAIN s = {1, 2, 3, 4, 5}
      /\ s[1] = Does("collective", i, "Allreduce") /\ s[2] = Does("collective", i, "Alltoall")
      /\ s[3] = Does("collective", i, "Alltoallv") /\ s[4] = Does("collective", i, "Alltoallv")
      /\ s[5] = Does("unpack", i, "data")
  BY DEF COMALL2, Collective, Unpacking, Does
<1> HIDE DEF s
<1>2. Plain(s, i)
  BY <1>1 DEF Plain, Does, Sending, Posting, Parts, Kinds
<1>3. Twofold(s)
  BY <1>1 DEF Twofold, Does, Sending, Posting
<1>4. Guarded(s)
  BY <1>1 DEF Guarded, Does
<1>5. Waiting(s, i)
  BY <1>1 DEF Waiting, Does, Parts
<1>6. Taking(s, i)
  BY <1>1 DEF Taking, Does
<1> QED
  BY <1>2, <1>3, <1>4, <1>5, <1>6 DEF Shaped, s

-----------------------------------------------------------------------------
(* A COM_Recv completes the COM_Send of its pattern that no other has completed. *)
LEMMA StartedIs ==
    ASSUME setup.script \in Scripts, NEW i \in Ops, Script[i].call = "COM_Recv"
    PROVE  /\ Started(i) \in 1 .. i - 1 /\ Script[Started(i)].call = "COM_Send"
           /\ \A l \in Started(i) + 1 .. i - 1 :
                Script[l].call = "COM_Recv" => Script[l].tag # Script[i].tag
           /\ Script[Started(i)].tag = Script[i].tag
<1> DEFINE P(k) == /\ Script[k].call = "COM_Send" /\ Script[k].tag = Script[i].tag
                   /\ \A l \in k + 1 .. i - 1 :
                        Script[l].call = "COM_Send" => Script[l].tag # Script[i].tag
<1>1. /\ i \in Nat \ {0} /\ \E k \in 1 .. i - 1 :
          /\ Script[k].call = "COM_Send" /\ Script[k].tag = Script[i].tag
          /\ \A l \in k + 1 .. i - 1 :
                Script[l].call \in {"COM_Send", "COM_Recv"} => Script[l].tag # Script[i].tag
  BY ComAssumption DEF Ops, Script
<1>2. PICK k \in 1 .. i - 1 :
          /\ Script[k].call = "COM_Send" /\ Script[k].tag = Script[i].tag
          /\ \A l \in k + 1 .. i - 1 :
                Script[l].call \in {"COM_Send", "COM_Recv"} => Script[l].tag # Script[i].tag
  BY <1>1
<1>3. P(k) /\ Started(i) = CHOOSE l \in 1 .. i - 1 : P(l)
  BY <1>2 DEF Started
<1>4. Started(i) \in 1 .. i - 1 /\ P(Started(i))
  <2> HIDE DEF P
  <2> QED
    BY <1>3
<1>5. Started(i) = k
  BY <1>1, <1>2, <1>4
<1> QED
  BY <1>1, <1>2, <1>5

(* All ranks take the same steps: whether integers index the buffers is decided
   by the largest of all sizes. *)
LEMMA Codes ==
    ASSUME Frame
    PROVE  /\ Len(Script) \in Nat /\ Ops = 1 .. Len(Script)
           /\ \A r, q \in Ranks : \A i \in Ops : code[r][i] = code[q][i]
           /\ \A r \in Ranks : \A i \in Ops : Shaped(code[r][i], i)
           /\ \A r \in Ranks : \A i \in Ops : Script[i].call = "COM_Send" =>
                DOMAIN code[r][i] = {1} /\ code[r][i][1] = Does("start", i, "data")
           /\ \A i \in Ops : \A q, r \in Ranks : q \in From(i, r) <=> r \in Sends(i, q)
<1>1. Len(Script) \in Nat /\ Ops = 1 .. Len(Script)
  BY ComAssumption DEF Frame, Ops, Script
<1>2. \A r \in Ranks : \A i \in Ops : code[r][i] = Steps(i, r)
  BY DEF Frame
<1>3. \A i, r, q : Fits(i, r) <=> Fits(i, q)
  BY DEF Fits
<1>4. \A i, r, q : Steps(i, r) = Steps(i, q)
  <2>1. TAKE i, r, q
  <2>2. COMALL(i, r) = COMALL(i, q)
    BY <1>3 DEF COMALL
  <2> QED
    BY <2>2 DEF Steps
<1>5. \A i \in Ops : Script[i].call \in Calls
  BY ComAssumption DEF Frame, Ops, Script
<1>6. ASSUME NEW r \in Ranks, NEW i \in Ops PROVE Shaped(Steps(i, r), i)
  <2>1. CASE Script[i].call = "COM"
    BY <2>1, ShapedCOM DEF Steps
  <2>2. CASE Script[i].call = "COM_Pattern"
    BY <2>2, ShapedPattern DEF Steps
  <2>3. CASE Script[i].call = "COM_Repeat"
    BY <2>3, ShapedRepeat DEF Steps
  <2>4. CASE Script[i].call = "COM_Send"
    BY <2>4, ShapedSend DEF Steps
  <2>5. CASE Script[i].call = "COM_Recv"
    BY <2>5, ShapedRecv DEF Steps
  <2>6. CASE Script[i].call = "COMALL"
    BY <2>6, ShapedIndexed, ShapedBeyond DEF Steps
  <2>7. CASE Script[i].call = "COMALL2"
    BY <2>7, ShapedBlocks DEF Steps
  <2> QED
    BY <1>5, <2>1, <2>2, <2>3, <2>4, <2>5, <2>6, <2>7 DEF Calls
<1>7. ASSUME NEW r \in Ranks, NEW i \in Ops, Script[i].call = "COM_Send"
      PROVE  DOMAIN code[r][i] = {1} /\ code[r][i][1] = Does("start", i, "data")
  <2>1. code[r][i] = COM_Send(i)
    BY <1>2, <1>7 DEF Steps
  <2> QED
    BY <2>1 DEF COM_Send, Does
<1>8. \A i \in Ops : \A q, r \in Ranks : q \in From(i, r) <=> r \in Sends(i, q)
  BY DEF From
<1> QED
  BY <1>1, <1>2, <1>4, <1>6, <1>7, <1>8

-----------------------------------------------------------------------------
(* What follows from the script stays. *)
LEMMA Fixed ==
    ASSUME UNCHANGED fixed
    PROVE  /\ Script' = Script /\ Ops' = Ops /\ Tags' = Tags /\ Slots' = Slots
           /\ Operations' = Operations /\ Returns' = Returns
           /\ \A i : TagOf(i)' = TagOf(i) /\ Started(i)' = Started(i)
           /\ \A i, q : Sends(i, q)' = Sends(i, q) /\ From(i, q)' = From(i, q)
           /\ Frame' = Frame
<1>1. setup' = setup /\ items' = items /\ code' = code
  BY DEF fixed
<1>2. Script' = Script
  BY <1>1 DEF Script
<1>3. Ops' = Ops /\ Tags' = Tags
  BY <1>2 DEF Ops, Tags
<1>4. Slots' = Slots /\ Operations' = Operations
  BY <1>3 DEF Slots, Operations
<1>5. \A i : TagOf(i)' = TagOf(i) /\ Started(i)' = Started(i)
  BY <1>2 DEF TagOf, Started
<1>6. \A i, q : Sends(i, q)' = Sends(i, q) /\ From(i, q)' = From(i, q)
  BY <1>1 DEF Sends, From
<1>7. Returns' = Returns
  BY <1>1, <1>3, <1>6 DEF Returns, Return
<1>8. \A i, r : Steps(i, r)' = Steps(i, r)
  <2>1. \A i, q : SendTotal(i, q)' = SendTotal(i, q) /\ RecvTotal(i, q)' = RecvTotal(i, q)
    BY <1>1, <1>2 DEF SendTotal, RecvTotal
  <2>2. \A i, r : Fits(i, r)' = Fits(i, r)
    BY <2>1 DEF Fits
  <2>3. \A i : COM_Recv(i)' = COM_Recv(i)
    BY <1>5 DEF COM_Recv
  <2>4. \A i, r : COMALL(i, r)' = COMALL(i, r)
    BY <2>2 DEF COMALL
  <2> QED
    BY <1>2, <2>3, <2>4 DEF Steps
<1>9. \A i, q, r : ItemsOf(i, q, r)' = ItemsOf(i, q, r)
  BY <1>2 DEF ItemsOf
<1>10. Frame' = Frame
  BY <1>1, <1>3, <1>8, <1>9 DEF Frame
<1> QED
  BY <1>2, <1>3, <1>4, <1>5, <1>6, <1>7, <1>10

(* A rank that goes on has passed one step more. *)
LEMMA GoesOn ==
    ASSUME Frame, Typed, UNCHANGED fixed, NEW r \in Ranks, ~ Ended(r), Proceed(r)
    PROVE  /\ ip' \in [Ranks -> [op : Nat \ {0}, step : Nat \ {0}]]
           /\ \A p \in Ranks : IF ip'[p].op <= Len(Script) THEN ip'[p].step \in DOMAIN code[p][ip'[p].op]
                               ELSE ip'[p] = Place(Len(Script) + 1, 1)
           /\ \A p \in Ranks : p # r => ip'[p] = ip[p]
           /\ \A p \in Ranks : \A i \in Ops : \A k \in DOMAIN code[p][i] :
                Passed(p, i, k)' <=> Passed(p, i, k) \/ (p = r /\ Place(i, k) = ip[r])
<1> DEFINE I == ip[r].op
           K == ip[r].step
           n == Len(code[r][I])
<1>1. /\ ip[r] = Place(I, K) /\ I \in Ops /\ K \in 1 .. n /\ n \in Nat \ {0} /\ DOMAIN code[r][I] = 1 .. n
      /\ I \in Nat /\ K \in Nat /\ Len(Script) \in Nat /\ Ops = 1 .. Len(Script)
      /\ \A i \in Ops : Len(code[r][i]) \in Nat \ {0} /\ DOMAIN code[r][i] = 1 .. Len(code[r][i])
  <2>1. I \in Nat \ {0} /\ K \in Nat \ {0} /\ ip[r] = Place(I, K) /\ I <= Len(Script)
    BY DEF Typed, Ended, Place
  <2>2. I \in Ops /\ K \in DOMAIN code[r][I]
    BY <2>1, Codes DEF Typed
  <2> QED
    BY <2>1, <2>2, Codes DEF Shaped, Plain
<1>2. ip' = [ip EXCEPT ![r] = IF K < n THEN Place(I, K + 1) ELSE Place(I + 1, 1)]
  BY DEF Proceed, Place
<1>3. /\ ip'[r] = (IF K < n THEN Place(I, K + 1) ELSE Place(I + 1, 1))
      /\ \A p \in Ranks : p # r => ip'[p] = ip[p]
      /\ ip' \in [Ranks -> [op : Nat \ {0}, step : Nat \ {0}]]
  <2> HIDE DEF I, K, n
  <2>1. \A p : Place(I, K + 1) \in [op : Nat \ {0}, step : Nat \ {0}] /\ Place(I + 1, 1) \in [op : Nat \ {0}, step : Nat \ {0}]
    BY <1>1 DEF Place
  <2> QED
    BY <1>2, <2>1 DEF Typed
<1> HIDE DEF I, K, n
<1>4. IF ip'[r].op <= Len(Script) THEN ip'[r].step \in DOMAIN code[r][ip'[r].op]
      ELSE ip'[r] = Place(Len(Script) + 1, 1)
  BY <1>1, <1>3 DEF Place
<1>5. \A p \in Ranks : IF ip'[p].op <= Len(Script) THEN ip'[p].step \in DOMAIN code[p][ip'[p].op]
                       ELSE ip'[p] = Place(Len(Script) + 1, 1)
  BY <1>3, <1>4 DEF Typed
<1>6. ASSUME NEW i \in Ops, NEW k \in DOMAIN code[r][i]
      PROVE  Passed(r, i, k)' <=> Passed(r, i, k) \/ Place(i, k) = ip[r]
  <2>1. i \in Nat /\ k \in Nat /\ k >= 1 /\ (i = I => k <= n)
    BY <1>1
  <2>2. Passed(r, i, k)' <=> Earlier(Place(i, k), ip'[r])
    BY DEF Passed, Place, Earlier
  <2> QED
    BY <1>1, <1>3, <2>1, <2>2 DEF Passed, Place, Earlier
<1>7. ASSUME NEW p \in Ranks, p # r, NEW i, NEW k PROVE Passed(p, i, k)' <=> Passed(p, i, k)
  BY <1>3, <1>7 DEF Passed, Place, Earlier
<1> QED
  BY <1>3, <1>5, <1>6, <1>7

-----------------------------------------------------------------------------
NowSlot(r) == [op |-> Now(r).op, part |-> Now(r).part]

(* Where a rank is. *)
LEMMA Here ==
    ASSUME Frame, Typed, NEW r \in Ranks, ~ Ended(r)
    PROVE  /\ ip[r] = Place(ip[r].op, ip[r].step) /\ ip[r].op \in Ops
           /\ ip[r].step \in DOMAIN code[r][ip[r].op] /\ Now(r) = code[r][ip[r].op][ip[r].step]
           /\ ~ Passed(r, ip[r].op, ip[r].step)
<1>1. /\ ip[r].op \in Nat \ {0} /\ ip[r].step \in Nat \ {0} /\ ip[r] = Place(ip[r].op, ip[r].step)
      /\ ip[r].op <= Len(Script)
  BY DEF Typed, Ended, Place
<1>2. ip[r].op \in Ops /\ ip[r].step \in DOMAIN code[r][ip[r].op]
  BY <1>1, Codes DEF Typed
<1> QED
  BY <1>1, <1>2 DEF Now, Passed, Earlier, Place

LEMMA Indices ==
    ASSUME Frame, NEW r \in Ranks, NEW i \in Ops, NEW k \in DOMAIN code[r][i]
    PROVE  i \in Nat /\ k \in Nat /\ i >= 1 /\ k >= 1
BY Codes DEF Shaped, Plain

(* A step made later than another is passed later. *)
LEMMA PassedEarlier ==
    ASSUME Frame, Typed, NEW r \in Ranks, NEW i \in Ops, NEW k \in DOMAIN code[r][i],
           NEW j \in Ops, NEW l \in DOMAIN code[r][j],
           Passed(r, i, k), Earlier(Place(j, l), Place(i, k)) \/ (i = j /\ k = l)
    PROVE  Passed(r, j, l)
<1>1. i \in Nat /\ k \in Nat /\ j \in Nat /\ l \in Nat
  BY Indices
<1>2. ip[r].op \in Nat /\ ip[r].step \in Nat
  BY DEF Typed
<1> QED
  BY <1>1, <1>2 DEF Passed, Earlier, Place

LEMMA DidNow ==
    ASSUME Frame, Typed, UNCHANGED fixed, NEW r \in Ranks, ~ Ended(r), Proceed(r),
           NEW dos \in {Sending, Posting}, NEW p \in Ranks, NEW m \in Slots
    PROVE  Did(p, dos, m)' <=> Did(p, dos, m) \/ (p = r /\ Now(r).do \in dos /\ m = NowSlot(r))
<1>1. m.op \in Ops /\ m.part \in Parts /\ m = [op |-> m.op, part |-> m.part]
  BY DEF Slots
<1>2. code' = code
  BY DEF fixed
<1>3. \A k \in DOMAIN code[p][m.op] :
        Passed(p, m.op, k)' <=> Passed(p, m.op, k) \/ (p = r /\ Place(m.op, k) = ip[r])
  BY GoesOn, <1>1
<1>4. Did(p, dos, m)' <=> \E k \in DOMAIN code[p][m.op] :
        code[p][m.op][k].do \in dos /\ code[p][m.op][k].part = m.part /\ Passed(p, m.op, k)'
  BY <1>2 DEF Did
<1>5. Did(p, dos, m)' <=> Did(p, dos, m) \/ \E k \in DOMAIN code[p][m.op] :
        code[p][m.op][k].do \in dos /\ code[p][m.op][k].part = m.part /\ p = r /\ Place(m.op, k) = ip[r]
  BY <1>3, <1>4 DEF Did
<1>6. ASSUME Now(r).do \in dos PROVE Now(r).op = ip[r].op
  BY <1>6, Here, Codes DEF Shaped, Plain, Sending, Posting
<1>7. ASSUME NEW k \in DOMAIN code[p][m.op], code[p][m.op][k].do \in dos,
             code[p][m.op][k].part = m.part, p = r, Place(m.op, k) = ip[r]
      PROVE  Now(r).do \in dos /\ m = NowSlot(r)
  <2>1. m.op = ip[r].op /\ k = ip[r].step /\ Now(r) = code[p][m.op][k]
    BY <1>7, Here DEF Place
  <2> QED
    BY <1>1, <1>6, <1>7, <2>1 DEF NowSlot
<1>8. ASSUME p = r, Now(r).do \in dos, m = NowSlot(r)
      PROVE  \E k \in DOMAIN code[p][m.op] :
                code[p][m.op][k].do \in dos /\ code[p][m.op][k].part = m.part /\ Place(m.op, k) = ip[r]
  <2>1. m.op = ip[r].op /\ m.part = Now(r).part
    BY <1>6, <1>8 DEF NowSlot
  <2> QED
    BY <1>8, <2>1, Here
<1> QED
  BY <1>5, <1>7, <1>8

(* What a rank sends or waits for next follows all it has sent or waited for. *)
LEMMA NowLast ==
    ASSUME Frame, Typed, NEW r \in Ranks, ~ Ended(r), NEW dos \in {Sending, Posting}, Now(r).do \in dos
    PROVE  /\ NowSlot(r) \in Slots /\ Now(r).op = ip[r].op
           /\ \A m \in Slots : Did(r, dos, m) => Before(m, NowSlot(r))
           /\ ~ Did(r, dos, NowSlot(r))
<1> DEFINE I == ip[r].op
           K == ip[r].step
<1>1. I \in Ops /\ K \in DOMAIN code[r][I] /\ Now(r) = code[r][I][K] /\ ip[r] = Place(I, K)
  BY Here
<1>2. Shaped(code[r][I], I)
  BY <1>1, Codes
<1>3. Now(r).op = I /\ Now(r).part \in Parts
  BY <1>1, <1>2 DEF Shaped, Plain, Sending, Posting
<1>4. NowSlot(r) \in Slots
  BY <1>1, <1>3 DEF NowSlot, Slots
<1> HIDE DEF I, K
<1>5. ASSUME NEW m \in Slots, Did(r, dos, m) PROVE Before(m, NowSlot(r))
  <2>1. m.op \in Ops
    BY DEF Slots
  <2>2. PICK k \in DOMAIN code[r][m.op] :
          code[r][m.op][k].do \in dos /\ code[r][m.op][k].part = m.part /\ Passed(r, m.op, k)
    BY <1>5 DEF Did
  <2>3. m.op < I \/ (m.op = I /\ k < K)
    BY <1>1, <2>2 DEF Passed, Earlier, Place
  <2>4. CASE m.op = I /\ k < K
    <3>1. k \in DOMAIN code[r][I] /\ code[r][I][k].do \in dos /\ code[r][I][K].do \in dos
      BY <1>1, <2>2, <2>4
    <3>2. code[r][I][k].part = "sizes" /\ code[r][I][K].part = "data"
      BY <1>1, <1>2, <2>4, <3>1 DEF Shaped, Twofold
    <3> QED
      BY <1>1, <1>3, <2>2, <2>4, <3>2 DEF Before, NowSlot
  <2>5. CASE m.op < I
    BY <1>3, <2>5 DEF Before, NowSlot
  <2> QED
    BY <2>3, <2>4, <2>5
<1>6. ~ Before(NowSlot(r), NowSlot(r))
  <2>1. NowSlot(r).op \in Nat
    BY <1>4, Codes DEF Slots
  <2> QED
    BY <2>1 DEF Before
<1> QED
  BY <1>3, <1>4, <1>5, <1>6 DEF I

(* What has been sent or waited for, so has all before it. *)
LEMMA DidBefore ==
    ASSUME Frame, Typed, NEW r \in Ranks, NEW q \in Ranks, NEW dos \in {Sending, Posting},
           NEW others \in {Sending, Posting},
           NEW m \in Slots, NEW n \in Slots, Did(r, dos, n), Did(q, others, m), Before(m, n)
    PROVE  Did(r, dos, m)
<1>1. m.op \in Ops /\ n.op \in Ops /\ m.part \in Parts
  BY DEF Slots
<1>2. PICK k \in DOMAIN code[r][n.op] :
        code[r][n.op][k].do \in dos /\ code[r][n.op][k].part = n.part /\ Passed(r, n.op, k)
  BY DEF Did
<1>3. PICK j \in DOMAIN code[r][m.op] :
        code[r][m.op][j].do \in others /\ code[r][m.op][j].part = m.part
  <2>1. code[q][m.op] = code[r][m.op]
    BY <1>1, Codes
  <2>2. \E j \in DOMAIN code[q][m.op] :
        code[q][m.op][j].do \in others /\ code[q][m.op][j].part = m.part
    BY DEF Did
  <2> QED
    BY <2>1, <2>2
<1>4. Shaped(code[r][m.op], m.op)
  BY <1>1, Codes
<1>5. PICK l \in DOMAIN code[r][m.op] :
        code[r][m.op][l].do \in dos /\ code[r][m.op][l].part = m.part
  <2>1. /\ \A k1 \in DOMAIN code[r][m.op] : code[r][m.op][k1].do \in Sending =>
            \E l \in DOMAIN code[r][m.op] :
                code[r][m.op][l].do \in Posting /\ code[r][m.op][l].part = code[r][m.op][k1].part
        /\ \A k1 \in DOMAIN code[r][m.op] : code[r][m.op][k1].do \in Posting =>
            \E l \in DOMAIN code[r][m.op] :
                code[r][m.op][l].do \in Sending /\ code[r][m.op][l].part = code[r][m.op][k1].part
    BY <1>4 DEF Shaped, Twofold
  <2>2. CASE dos = others
    BY <1>3, <2>2
  <2>3. CASE others = Sending /\ dos = Posting
    BY <1>3, <2>1, <2>3
  <2>4. CASE others = Posting /\ dos = Sending
    BY <1>3, <2>1, <2>4
  <2> QED
    BY <2>2, <2>3, <2>4
<1>6. CASE m.op < n.op
  <2>1. Earlier(Place(m.op, l), Place(n.op, k))
    BY <1>6 DEF Earlier, Place
  <2>2. Passed(r, m.op, l)
    BY <1>1, <1>2, <1>5, <2>1, PassedEarlier
  <2> QED
    BY <1>5, <2>2 DEF Did
<1>7. CASE m.op = n.op /\ m.part = "sizes" /\ n.part = "data"
  <2>1. k \in DOMAIN code[r][m.op] /\ code[r][m.op][k].do \in dos /\ code[r][m.op][k].part = "data"
    BY <1>2, <1>7
  <2>2. k \in Nat /\ l \in Nat /\ k # l
    BY <1>1, <1>5, <1>7, <2>1, Indices
  <2>3. ~ (k < l)
    BY <1>4, <1>5, <2>1 DEF Shaped, Twofold
  <2>4. Earlier(Place(m.op, l), Place(n.op, k))
    BY <1>7, <2>2, <2>3 DEF Earlier, Place
  <2>5. Passed(r, m.op, l)
    BY <1>1, <1>2, <1>5, <2>4, PassedEarlier
  <2> QED
    BY <1>5, <2>5 DEF Did
<1> QED
  BY <1>6, <1>7 DEF Before

-----------------------------------------------------------------------------
(* Of two messages one comes before the other. *)
LEMMA BeforeTotal ==
    ASSUME Frame
    PROVE  /\ \A m, n \in Slots : m = n \/ Before(m, n) \/ Before(n, m)
           /\ \A m, n \in Slots : ~ (Before(m, n) /\ Before(n, m))
           /\ \A m \in Slots : ~ Before(m, m)
<1>1. \A m \in Slots : m.op \in Nat /\ m.part \in {"sizes", "data"} /\ m = [op |-> m.op, part |-> m.part]
  BY Codes DEF Slots, Parts
<1> QED
  BY <1>1 DEF Before

LEMMA Appended ==
    ASSUME NEW s \in Seq(Slots), NEW m \in Slots
    PROVE  /\ Append(s, m) \in Seq(Slots) /\ In(Append(s, m)) = In(s) \cup {m}
           /\ Sorted(s) /\ (\A n \in In(s) : Before(n, m)) => Sorted(Append(s, m))
<1>1. /\ Append(s, m) \in Seq(Slots) /\ DOMAIN Append(s, m) = 1 .. Len(s) + 1 /\ DOMAIN s = 1 .. Len(s)
      /\ Len(s) \in Nat /\ Append(s, m)[Len(s) + 1] = m
      /\ \A k \in 1 .. Len(s) : Append(s, m)[k] = s[k]
  OBVIOUS
<1>2. In(Append(s, m)) = In(s) \cup {m}
  BY <1>1 DEF In
<1>3. ASSUME Sorted(s), \A n \in In(s) : Before(n, m) PROVE Sorted(Append(s, m))
  <2>1. SUFFICES ASSUME NEW k \in DOMAIN Append(s, m), NEW l \in DOMAIN Append(s, m), k < l
                 PROVE  Before(Append(s, m)[k], Append(s, m)[l])
    BY DEF Sorted
  <2>2. k \in 1 .. Len(s) /\ Append(s, m)[k] = s[k] /\ s[k] \in In(s)
    BY <1>1, <2>1 DEF In
  <2>3. CASE l = Len(s) + 1
    BY <1>1, <1>3, <2>2, <2>3
  <2>4. CASE l # Len(s) + 1
    BY <1>1, <1>3, <2>1, <2>2, <2>4 DEF Sorted
  <2> QED
    BY <2>3, <2>4
<1> QED
  BY <1>1, <1>2, <1>3

LEMMA TakenOff ==
    ASSUME Frame, NEW s \in Seq(Slots), s # <<>>, Sorted(s)
    PROVE  /\ Tail(s) \in Seq(Slots) /\ Head(s) \in In(s) /\ In(Tail(s)) = In(s) \ {Head(s)}
           /\ Sorted(Tail(s)) /\ \A n \in In(Tail(s)) : Before(Head(s), n)
<1>1. /\ Tail(s) \in Seq(Slots) /\ DOMAIN s = 1 .. Len(s) /\ Len(s) \in Nat \ {0}
      /\ DOMAIN Tail(s) = 1 .. Len(s) - 1
      /\ Head(s) = s[1] /\ \A k \in 1 .. Len(s) - 1 : Tail(s)[k] = s[k + 1]
  OBVIOUS
<1>2. \A k \in DOMAIN s : s[k] \in Slots
  OBVIOUS
<1>3. \A k \in 2 .. Len(s) : Before(s[1], s[k])
  BY <1>1 DEF Sorted
<1>4. In(Tail(s)) = {s[k] : k \in 2 .. Len(s)}
  <2>1. \A k \in 2 .. Len(s) : k - 1 \in 1 .. Len(s) - 1 /\ (k - 1) + 1 = k
    BY <1>1
  <2>2. \A k \in 1 .. Len(s) - 1 : k + 1 \in 2 .. Len(s)
    BY <1>1
  <2> DEFINE later == {s[k] : k \in 2 .. Len(s)}
  <2>3. \A x : x \in In(Tail(s)) <=> \E k \in 1 .. Len(s) - 1 : x = s[k + 1]
    BY <1>1 DEF In
  <2>4. ASSUME NEW x \in In(Tail(s)) PROVE x \in later
    BY <2>2, <2>3
  <2>5. ASSUME NEW k \in 2 .. Len(s) PROVE s[k] \in In(Tail(s))
    BY <2>1, <2>3
  <2> QED
    BY <2>4, <2>5
<1>5. s[1] \in Slots /\ ~ Before(s[1], s[1])
  BY <1>1, <1>2, BeforeTotal
<1>6. Head(s) \in In(s) /\ In(Tail(s)) = In(s) \ {Head(s)}
  <2>1. In(s) = {s[1]} \cup {s[k] : k \in 2 .. Len(s)}
    BY <1>1 DEF In
  <2>2. s[1] \notin {s[k] : k \in 2 .. Len(s)}
    BY <1>3, <1>5
  <2> QED
    BY <1>1, <1>4, <2>1, <2>2
<1>7. Sorted(Tail(s))
  <2>1. SUFFICES ASSUME NEW k \in 1 .. Len(s) - 1, NEW l \in 1 .. Len(s) - 1, k < l
                 PROVE  Before(Tail(s)[k], Tail(s)[l])
    BY <1>1 DEF Sorted
  <2>2. k + 1 \in DOMAIN s /\ l + 1 \in DOMAIN s /\ k + 1 < l + 1
    BY <1>1, <2>1
  <2> QED
    BY <1>1, <2>1, <2>2 DEF Sorted
<1> QED
  BY <1>1, <1>3, <1>4, <1>6, <1>7

LEMMA LinkSent ==
    ASSUME NEW w, NEW p, NEW S, NEW P, Linked(w, p, S, P), NEW m \in Slots,
           m \notin S, \A n \in S : Before(n, m)
    PROVE  Linked(Append(w, m), p, S \cup {m}, P)
<1>1. w \in Seq(Slots) /\ Sorted(w) /\ In(w) \subseteq S
  BY DEF Linked
<1>2. /\ Append(w, m) \in Seq(Slots) /\ In(Append(w, m)) = In(w) \cup {m} /\ Sorted(Append(w, m))
  BY <1>1, Appended
<1>3. (S \cup {m}) \ In(Append(w, m)) = S \ In(w)
  BY <1>2
<1> QED
  BY <1>1, <1>2, <1>3 DEF Linked

LEMMA LinkPosted ==
    ASSUME NEW w, NEW p, NEW S, NEW P, Linked(w, p, S, P), NEW m \in Slots,
           m \notin P, \A n \in P : Before(n, m)
    PROVE  Linked(w, Append(p, m), S, P \cup {m})
<1>1. p \in Seq(Slots) /\ Sorted(p) /\ In(p) \subseteq P
  BY DEF Linked
<1>2. /\ Append(p, m) \in Seq(Slots) /\ In(Append(p, m)) = In(p) \cup {m} /\ Sorted(Append(p, m))
  BY <1>1, Appended
<1>3. (P \cup {m}) \ In(Append(p, m)) = P \ In(p) /\ S \ In(w) = P \ In(p)
  BY <1>2 DEF Linked
<1>4. \A x \in S \ In(w) : x \in P /\ \A n \in In(Append(p, m)) : Before(x, n)
  BY <1>2, <1>3 DEF Linked
<1> QED
  BY <1>1, <1>2, <1>3, <1>4 DEF Linked

LEMMA LinkLand ==
    ASSUME Frame, NEW w, NEW p, NEW S, NEW P, Linked(w, p, S, P), w # <<>>, p # <<>>, Head(w) = Head(p)
    PROVE  Linked(Tail(w), Tail(p), S, P)
<1>1. /\ w \in Seq(Slots) /\ Sorted(w) /\ In(w) \subseteq S /\ p \in Seq(Slots) /\ Sorted(p) /\ In(p) \subseteq P
      /\ S \ In(w) = P \ In(p) /\ \A m \in S \ In(w) : \A n \in In(w) \cup In(p) : Before(m, n)
  BY DEF Linked
<1>2. /\ Tail(w) \in Seq(Slots) /\ Head(w) \in In(w) /\ In(Tail(w)) = In(w) \ {Head(w)}
      /\ Sorted(Tail(w)) /\ \A n \in In(Tail(w)) : Before(Head(w), n)
  BY <1>1, TakenOff
<1>3. /\ Tail(p) \in Seq(Slots) /\ Head(p) \in In(p) /\ In(Tail(p)) = In(p) \ {Head(p)}
      /\ Sorted(Tail(p)) /\ \A n \in In(Tail(p)) : Before(Head(p), n)
  BY <1>1, TakenOff
<1>4. /\ S \ In(Tail(w)) = (S \ In(w)) \cup {Head(w)}
      /\ P \ In(Tail(p)) = (P \ In(p)) \cup {Head(w)}
  BY <1>1, <1>2, <1>3
<1>5. \A n \in In(Tail(w)) \cup In(Tail(p)) :
        Before(Head(w), n) /\ \A m \in S \ In(w) : Before(m, n)
  BY <1>1, <1>2, <1>3
<1> QED
  BY <1>1, <1>2, <1>3, <1>4, <1>5 DEF Linked

-----------------------------------------------------------------------------
(* What a step of a rank sends and posts. *)
Sent(r) == \A q, p \in Ranks : \A t \in Tags :
    wire'[q][p][t] =
        IF q = r /\ Now(r).do \in Sending /\ p \in Sends(Now(r).op, r) /\ t = TagOf(Now(r).op)
        THEN Append(wire[q][p][t], NowSlot(r)) ELSE wire[q][p][t]
Awaited(r) == \A q, p \in Ranks : \A t \in Tags :
    posted'[p][q][t] =
        IF p = r /\ Now(r).do \in Posting /\ q \in From(Now(r).op, r) /\ t = TagOf(Now(r).op)
        THEN Append(posted[p][q][t], NowSlot(r)) ELSE posted[p][q][t]
Moves(r) == ~ Ended(r) /\ Proceed(r) /\ UNCHANGED fixed /\ Sent(r) /\ Awaited(r)

Mail == [Ranks -> [Ranks -> [Tags -> Seq(Slots)]]]

LEMMA SendEffect ==
    ASSUME wire \in Mail, NEW r \in Ranks, NEW i \in Ops, NEW part \in Parts, SendTo(r, i, part)
    PROVE  /\ wire' \in Mail
           /\ \A q, p \in Ranks : \A t \in Tags :
                wire'[q][p][t] = IF q = r /\ p \in Sends(i, r) /\ t = TagOf(i)
                                 THEN Append(wire[q][p][t], [op |-> i, part |-> part]) ELSE wire[q][p][t]
<1> DEFINE m == [op |-> i, part |-> part]
           new == [q \in Ranks |-> IF q \in Sends(i, r) THEN Added(wire[r][q], i, part) ELSE wire[r][q]]
<1>1. m \in Slots
  BY DEF Slots
<1>2. wire' = [wire EXCEPT ![r] = new]
  BY DEF SendTo
<1>3. \A q \in Ranks :
        /\ Added(wire[r][q], i, part) \in [Tags -> Seq(Slots)]
        /\ \A t \in Tags : Added(wire[r][q], i, part)[t] =
                IF t = TagOf(i) THEN Append(wire[r][q][t], m) ELSE wire[r][q][t]
  <2> HIDE DEF m
  <2>1. TAKE q \in Ranks
  <2>2. wire[r][q] \in [Tags -> Seq(Slots)]
    BY DEF Mail
  <2>3. Added(wire[r][q], i, part) = [wire[r][q] EXCEPT ![TagOf(i)] = Append(wire[r][q][TagOf(i)], m)]
    BY DEF Added, m
  <2>4. \A t \in Tags : Append(wire[r][q][t], m) \in Seq(Slots)
    BY <1>1, <2>2
  <2> QED
    BY <2>2, <2>3, <2>4
<1> HIDE DEF m
<1>4. /\ new \in [Ranks -> [Tags -> Seq(Slots)]]
      /\ \A p \in Ranks : \A t \in Tags :
        new[p][t] = IF p \in Sends(i, r) /\ t = TagOf(i) THEN Append(wire[r][p][t], m) ELSE wire[r][p][t]
  BY <1>3 DEF Mail
<1> HIDE DEF new
<1>5. wire' \in Mail
  BY <1>2, <1>4 DEF Mail
<1>6. wire'[r] = new /\ \A q \in Ranks : q # r => wire'[q] = wire[q]
  BY <1>2 DEF Mail
<1> QED
  BY <1>4, <1>5, <1>6 DEF m

LEMMA PostEffect ==
    ASSUME posted \in Mail, NEW r \in Ranks, NEW i \in Ops, NEW part \in Parts, PostFor(r, i, part)
    PROVE  /\ posted' \in Mail
           /\ \A q, p \in Ranks : \A t \in Tags :
                posted'[p][q][t] = IF p = r /\ q \in From(i, r) /\ t = TagOf(i)
                                   THEN Append(posted[p][q][t], [op |-> i, part |-> part]) ELSE posted[p][q][t]
<1> DEFINE m == [op |-> i, part |-> part]
           new == [q \in Ranks |-> IF q \in From(i, r) THEN Added(posted[r][q], i, part) ELSE posted[r][q]]
<1>1. m \in Slots
  BY DEF Slots
<1>2. posted' = [posted EXCEPT ![r] = new]
  BY DEF PostFor
<1>3. \A q \in Ranks :
        /\ Added(posted[r][q], i, part) \in [Tags -> Seq(Slots)]
        /\ \A t \in Tags : Added(posted[r][q], i, part)[t] =
                IF t = TagOf(i) THEN Append(posted[r][q][t], m) ELSE posted[r][q][t]
  <2> HIDE DEF m
  <2>1. TAKE q \in Ranks
  <2>2. posted[r][q] \in [Tags -> Seq(Slots)]
    BY DEF Mail
  <2>3. Added(posted[r][q], i, part) = [posted[r][q] EXCEPT ![TagOf(i)] = Append(posted[r][q][TagOf(i)], m)]
    BY DEF Added, m
  <2>4. \A t \in Tags : Append(posted[r][q][t], m) \in Seq(Slots)
    BY <1>1, <2>2
  <2> QED
    BY <2>2, <2>3, <2>4
<1> HIDE DEF m
<1>4. /\ new \in [Ranks -> [Tags -> Seq(Slots)]]
      /\ \A q \in Ranks : \A t \in Tags :
        new[q][t] = IF q \in From(i, r) /\ t = TagOf(i) THEN Append(posted[r][q][t], m) ELSE posted[r][q][t]
  BY <1>3 DEF Mail
<1> HIDE DEF new
<1>5. posted' \in Mail
  BY <1>2, <1>4 DEF Mail
<1>6. posted'[r] = new /\ \A p \in Ranks : p # r => posted'[p] = posted[p]
  BY <1>2 DEF Mail
<1> QED
  BY <1>4, <1>5, <1>6 DEF m

-----------------------------------------------------------------------------
(* Every step but the entry into a collective operation moves its rank on. *)
LEMMA StepMoves ==
    ASSUME Frame, Typed, NEW r \in Ranks, Collected(r), Step(r), ~ Enter(r)
    PROVE  Moves(r) /\ wire' \in Mail /\ posted' \in Mail
<1>1. wire \in Mail /\ posted \in Mail
  BY DEF Typed, Mail
<1>2. ASSUME ~ Ended(r) PROVE Now(r).do \in Sending \cup Posting =>
        Now(r).op \in Ops /\ Now(r).part \in Parts /\ (Now(r).do = "start" => Now(r).part = "data")
  BY <1>2, Here, Codes DEF Shaped, Plain
<1>3. CASE Leave(r)
  <2>1. At(r, "collective") /\ Proceed(r) /\ UNCHANGED <<fixed, wire, posted>>
    BY <1>3 DEF Leave, Collected
  <2> QED
    BY <1>1, <2>1 DEF Moves, Sent, Awaited, At, Sending, Posting
<1>4. CASE Post(r)
  <2>1. At(r, "post") /\ Proceed(r) /\ UNCHANGED <<fixed, wire>> /\ PostFor(r, Now(r).op, Now(r).part)
    BY <1>4 DEF Post
  <2>2. ~ Ended(r) /\ Now(r).do = "post" /\ Now(r).op \in Ops /\ Now(r).part \in Parts
    BY <1>2, <2>1 DEF At, Posting
  <2>3. /\ posted' \in Mail
        /\ \A q, p \in Ranks : \A t \in Tags :
                posted'[p][q][t] = IF p = r /\ q \in From(Now(r).op, r) /\ t = TagOf(Now(r).op)
                                   THEN Append(posted[p][q][t], NowSlot(r)) ELSE posted[p][q][t]
    BY <1>1, <2>1, <2>2, PostEffect DEF NowSlot
  <2> QED
    BY <1>1, <2>1, <2>2, <2>3 DEF Moves, Sent, Awaited, Sending, Posting
<1>5. CASE Rsend(r)
  <2>1. At(r, "rsend") /\ Proceed(r) /\ UNCHANGED <<fixed, posted>> /\ SendTo(r, Now(r).op, Now(r).part)
    BY <1>5 DEF Rsend
  <2>2. ~ Ended(r) /\ Now(r).do = "rsend" /\ Now(r).op \in Ops /\ Now(r).part \in Parts
    BY <1>2, <2>1 DEF At, Sending
  <2>3. /\ wire' \in Mail
        /\ \A q, p \in Ranks : \A t \in Tags :
                wire'[q][p][t] = IF q = r /\ p \in Sends(Now(r).op, r) /\ t = TagOf(Now(r).op)
                                 THEN Append(wire[q][p][t], NowSlot(r)) ELSE wire[q][p][t]
    BY <1>1, <2>1, <2>2, SendEffect DEF NowSlot
  <2> QED
    BY <1>1, <2>1, <2>2, <2>3 DEF Moves, Sent, Awaited, Sending, Posting
<1>6. CASE Start(r)
  <2>1. /\ At(r, "start") /\ Proceed(r) /\ UNCHANGED fixed
        /\ SendTo(r, Now(r).op, "data") /\ PostFor(r, Now(r).op, "data")
    BY <1>6 DEF Start
  <2>2. ~ Ended(r) /\ Now(r).do = "start" /\ Now(r).op \in Ops /\ "data" \in Parts
    BY <1>2, <2>1 DEF At, Sending, Parts
  <2>3. NowSlot(r) = [op |-> Now(r).op, part |-> "data"]
    BY <1>2, <2>2 DEF NowSlot, Sending
  <2>4. /\ wire' \in Mail
        /\ \A q, p \in Ranks : \A t \in Tags :
                wire'[q][p][t] = IF q = r /\ p \in Sends(Now(r).op, r) /\ t = TagOf(Now(r).op)
                                 THEN Append(wire[q][p][t], NowSlot(r)) ELSE wire[q][p][t]
    BY <1>1, <2>1, <2>2, <2>3, SendEffect
  <2>5. /\ posted' \in Mail
        /\ \A q, p \in Ranks : \A t \in Tags :
                posted'[p][q][t] = IF p = r /\ q \in From(Now(r).op, r) /\ t = TagOf(Now(r).op)
                                   THEN Append(posted[p][q][t], NowSlot(r)) ELSE posted[p][q][t]
    BY <1>1, <2>1, <2>2, <2>3, PostEffect
  <2> QED
    BY <1>1, <2>1, <2>2, <2>4, <2>5 DEF Moves, Sent, Awaited, Sending, Posting
<1>7. CASE WaitSend(r)
  <2>1. At(r, "waitsend") /\ Proceed(r) /\ UNCHANGED <<fixed, wire, posted>>
    BY <1>7 DEF WaitSend
  <2> QED
    BY <1>1, <2>1 DEF Moves, Sent, Awaited, At, Sending, Posting
<1>8. CASE Wait(r)
  <2>1. At(r, "wait") /\ Proceed(r) /\ UNCHANGED <<fixed, wire, posted>>
    BY <1>8 DEF Wait
  <2> QED
    BY <1>1, <2>1 DEF Moves, Sent, Awaited, At, Sending, Posting
<1>9. CASE Unpack(r)
  <2>1. At(r, "unpack") /\ Proceed(r) /\ UNCHANGED <<fixed, wire, posted>>
    BY <1>9 DEF Unpack
  <2> QED
    BY <1>1, <2>1 DEF Moves, Sent, Awaited, At, Sending, Posting
<1> QED
  BY <1>3, <1>4, <1>5, <1>6, <1>7, <1>8, <1>9 DEF Step

-----------------------------------------------------------------------------
(* Sent and awaited messages. *)
LEMMA SentNow ==
    ASSUME Frame, Typed, NEW r \in Ranks, Moves(r), NEW q \in Ranks, NEW p \in Ranks, NEW t \in Tags
    PROVE  /\ SentTo(q, p, t)' = SentTo(q, p, t) \cup
                (IF q = r /\ Now(r).do \in Sending /\ p \in Sends(Now(r).op, r) /\ t = TagOf(Now(r).op)
                 THEN {NowSlot(r)} ELSE {})
           /\ PostedFor(p, q, t)' = PostedFor(p, q, t) \cup
                (IF p = r /\ Now(r).do \in Posting /\ q \in From(Now(r).op, r) /\ t = TagOf(Now(r).op)
                 THEN {NowSlot(r)} ELSE {})
<1>1. ~ Ended(r) /\ Proceed(r) /\ UNCHANGED fixed
  BY DEF Moves
<1>2. /\ Slots' = Slots /\ \A i, x : Sends(i, x)' = Sends(i, x) /\ From(i, x)' = From(i, x)
      /\ \A i : TagOf(i)' = TagOf(i)
  BY <1>1, Fixed
<1>3. \A m \in Slots : Did(q, Sending, m)' <=> Did(q, Sending, m) \/ (q = r /\ Now(r).do \in Sending /\ m = NowSlot(r))
  BY <1>1, DidNow
<1>4. \A m \in Slots : Did(p, Posting, m)' <=> Did(p, Posting, m) \/ (p = r /\ Now(r).do \in Posting /\ m = NowSlot(r))
  BY <1>1, DidNow
<1>5. Now(r).do \in Sending \cup Posting => NowSlot(r) \in Slots /\ NowSlot(r).op = Now(r).op /\ Now(r).op \in Ops
  BY <1>1, Here, NowLast DEF NowSlot
<1>6. SentTo(q, p, t)' = {m \in Slots : Did(q, Sending, m)' /\ p \in Sends(m.op, q) /\ TagOf(m.op) = t}
  BY <1>2 DEF SentTo
<1>7. PostedFor(p, q, t)' = {m \in Slots : Did(p, Posting, m)' /\ p \in Sends(m.op, q) /\ TagOf(m.op) = t}
  BY <1>2 DEF PostedFor
<1>8. \A i \in Ops : q \in From(i, p) <=> p \in Sends(i, q)
  BY Codes
<1>9. SentTo(q, p, t)' = SentTo(q, p, t) \cup
                (IF q = r /\ Now(r).do \in Sending /\ p \in Sends(Now(r).op, r) /\ t = TagOf(Now(r).op)
                 THEN {NowSlot(r)} ELSE {})
  BY <1>3, <1>5, <1>6 DEF SentTo
<1>10. PostedFor(p, q, t)' = PostedFor(p, q, t) \cup
                (IF p = r /\ Now(r).do \in Posting /\ q \in From(Now(r).op, r) /\ t = TagOf(Now(r).op)
                 THEN {NowSlot(r)} ELSE {})
  BY <1>4, <1>5, <1>7, <1>8 DEF PostedFor
<1> QED
  BY <1>9, <1>10

LEMMA ChannelsMove ==
    ASSUME Frame, Typed, Channels, NEW r \in Ranks, Moves(r)
    PROVE  Channels'
<1>1. ~ Ended(r) /\ Proceed(r) /\ UNCHANGED fixed
  BY DEF Moves
<1>2. Slots' = Slots /\ Tags' = Tags
  BY <1>1, Fixed
<1>3. SUFFICES ASSUME NEW q \in Ranks, NEW p \in Ranks, NEW t \in Tags PROVE Channel(q, p, t)'
  BY <1>2 DEF Channels
<1> DEFINE sends == q = r /\ Now(r).do \in Sending /\ p \in Sends(Now(r).op, r) /\ t = TagOf(Now(r).op)
           posts == p = r /\ Now(r).do \in Posting /\ q \in From(Now(r).op, r) /\ t = TagOf(Now(r).op)
           m == NowSlot(r)
           w == wire[q][p][t]
           v == posted[p][q][t]
           S == SentTo(q, p, t)
           P == PostedFor(p, q, t)
<1>4. Linked(w, v, S, P)
  BY DEF Channels, Channel
<1>5. wire'[q][p][t] = (IF sends THEN Append(w, m) ELSE w) /\ posted'[p][q][t] = (IF posts THEN Append(v, m) ELSE v)
  BY DEF Moves, Sent, Awaited
<1>6. S' = S \cup (IF sends THEN {m} ELSE {}) /\ P' = P \cup (IF posts THEN {m} ELSE {})
  BY SentNow
<1>7. ASSUME sends PROVE m \in Slots /\ m \notin S /\ \A n \in S : Before(n, m)
  BY <1>1, <1>7, NowLast DEF SentTo
<1>8. ASSUME posts PROVE m \in Slots /\ m \notin P /\ \A n \in P : Before(n, m)
  BY <1>1, <1>8, NowLast DEF PostedFor
<1> HIDE DEF sends, posts, m, w, v, S, P
<1> DEFINE w1 == IF sends THEN Append(w, m) ELSE w
           v1 == IF posts THEN Append(v, m) ELSE v
           S1 == S \cup (IF sends THEN {m} ELSE {})
           P1 == P \cup (IF posts THEN {m} ELSE {})
<1>9. Linked(w1, v, S1, P)
  <2>1. CASE sends
    BY <1>4, <1>7, <2>1, LinkSent
  <2>2. CASE ~ sends
    <3>1. w1 = w /\ S1 = S
      BY <2>2
    <3> QED
      BY <1>4, <3>1
  <2> QED
    BY <2>1, <2>2
<1>10. Linked(w1, v1, S1, P1)
  <2> HIDE DEF w1, S1
  <2>1. CASE posts
    BY <1>8, <1>9, <2>1, LinkPosted
  <2>2. CASE ~ posts
    <3>1. v1 = v /\ P1 = P
      BY <2>2
    <3> QED
      BY <1>9, <3>1
  <2> QED
    BY <2>1, <2>2
<1>11. wire'[q][p][t] = w1 /\ posted'[p][q][t] = v1 /\ SentTo(q, p, t)' = S1 /\ PostedFor(p, q, t)' = P1
  BY <1>5, <1>6 DEF S, P
<1> HIDE DEF w1, v1, S1, P1
<1> QED
  BY <1>2, <1>10, <1>11 DEF Channel, Linked

-----------------------------------------------------------------------------
(* A message arrives in its own receive. *)
LEMMA HeadsMeet ==
    ASSUME Frame, Typed, Channels, NEW q \in Ranks, NEW r \in Ranks, NEW t \in Tags,
           wire[q][r][t] # <<>>, posted[r][q][t] # <<>>
    PROVE  /\ Head(wire[q][r][t]) = Head(posted[r][q][t])
           /\ Head(wire[q][r][t]) \in SentTo(q, r, t) \cap PostedFor(r, q, t)
           /\ Head(wire[q][r][t]) \in In(wire[q][r][t])
<1> DEFINE w == wire[q][r][t]
           p == posted[r][q][t]
           S == SentTo(q, r, t)
           P == PostedFor(r, q, t)
           a == Head(w)
           b == Head(p)
<1>1. Linked(w, p, S, P)
  BY DEF Channels, Channel
<1>2. S \subseteq Slots /\ P \subseteq Slots
  BY DEF SentTo, PostedFor
<1>3. /\ \A m \in S : Did(q, Sending, m) /\ r \in Sends(m.op, q) /\ TagOf(m.op) = t
      /\ \A m \in P : Did(r, Posting, m) /\ r \in Sends(m.op, q) /\ TagOf(m.op) = t
  BY DEF SentTo, PostedFor
<1>4. /\ \A m \in Slots : Did(q, Sending, m) /\ r \in Sends(m.op, q) /\ TagOf(m.op) = t => m \in S
      /\ \A m \in Slots : Did(r, Posting, m) /\ r \in Sends(m.op, q) /\ TagOf(m.op) = t => m \in P
  BY DEF SentTo, PostedFor
<1>5. \A m \in S : \A n \in P : Before(m, n) => m \in P
  BY <1>2, <1>3, <1>4, DidBefore
<1>6. \A m \in P : \A n \in S : Before(m, n) => m \in S
  BY <1>2, <1>3, <1>4, DidBefore
<1>7. w # <<>> /\ p # <<>>
  OBVIOUS
<1> HIDE DEF w, p, S, P
<1>8. /\ a \in In(w) /\ b \in In(p) /\ (\A n \in In(Tail(w)) : Before(a, n)) /\ (\A n \in In(Tail(p)) : Before(b, n))
      /\ In(Tail(w)) = In(w) \ {a} /\ In(Tail(p)) = In(p) \ {b}
  BY <1>1, <1>7, TakenOff DEF Linked
<1>9. a \in S /\ b \in P /\ a \in Slots /\ b \in Slots
  BY <1>1, <1>2, <1>8 DEF Linked
<1>10. ~ Before(a, b)
  <2>1. SUFFICES ASSUME Before(a, b) PROVE FALSE
    OBVIOUS
  <2>2. a \in P
    BY <1>5, <1>9, <2>1
  <2>3. a \notin P \ In(p)
    BY <1>1, <1>8 DEF Linked
  <2>4. a = b \/ Before(b, a)
    BY <1>8, <2>2, <2>3
  <2> QED
    BY <1>9, <2>1, <2>4, BeforeTotal
<1>11. ~ Before(b, a)
  <2>1. SUFFICES ASSUME Before(b, a) PROVE FALSE
    OBVIOUS
  <2>2. b \in S
    BY <1>6, <1>9, <2>1
  <2>3. b \notin S \ In(w)
    BY <1>1, <1>8 DEF Linked
  <2>4. a = b \/ Before(a, b)
    BY <1>8, <2>2, <2>3
  <2> QED
    BY <1>9, <2>1, <2>4, BeforeTotal
<1>12. a = b
  BY <1>9, <1>10, <1>11, BeforeTotal
<1> QED
  BY <1>8, <1>9, <1>12 DEF w, p, S, P

LEMMA ChannelsLand ==
    ASSUME Frame, Typed, Channels, NEW q \in Ranks, NEW r \in Ranks, NEW t \in Tags, Land(q, r, t)
    PROVE  /\ Channels'
           /\ wire' \in Mail /\ posted' \in Mail
           /\ \A x, p \in Ranks : \A u \in Tags :
                /\ SentTo(x, p, u)' = SentTo(x, p, u) /\ PostedFor(p, x, u)' = PostedFor(p, x, u)
                /\ In(posted'[p][x][u]) = IF x = q /\ p = r /\ u = t
                     THEN In(posted[r][q][t]) \ {Head(posted[r][q][t])} ELSE In(posted[p][x][u])
<1>1. /\ wire[q][r][t] # <<>> /\ posted[r][q][t] # <<>> /\ UNCHANGED <<fixed, ip>>
      /\ wire' = [wire EXCEPT ![q][r][t] = Tail(wire[q][r][t])]
      /\ posted' = [posted EXCEPT ![r][q][t] = Tail(posted[r][q][t])]
  BY DEF Land
<1>2. wire \in Mail /\ posted \in Mail
  BY DEF Typed, Mail
<1>3. wire[q][r][t] \in Seq(Slots) /\ posted[r][q][t] \in Seq(Slots)
  BY <1>2 DEF Mail
<1>4. Tail(wire[q][r][t]) \in Seq(Slots) /\ Tail(posted[r][q][t]) \in Seq(Slots)
  BY <1>1, <1>3
<1>5. wire' \in Mail /\ posted' \in Mail
  BY <1>1, <1>2, <1>4 DEF Mail
<1>6. \A x, p \in Ranks : \A u \in Tags :
        /\ wire'[x][p][u] = IF x = q /\ p = r /\ u = t THEN Tail(wire[q][r][t]) ELSE wire[x][p][u]
        /\ posted'[p][x][u] = IF x = q /\ p = r /\ u = t THEN Tail(posted[r][q][t]) ELSE posted[p][x][u]
  <2>1. /\ wire[q] \in [Ranks -> [Tags -> Seq(Slots)]] /\ wire[q][r] \in [Tags -> Seq(Slots)]
        /\ posted[r] \in [Ranks -> [Tags -> Seq(Slots)]] /\ posted[r][q] \in [Tags -> Seq(Slots)]
    BY <1>2 DEF Mail
  <2>2. SUFFICES ASSUME NEW x \in Ranks, NEW p \in Ranks, NEW u \in Tags
                 PROVE  /\ wire'[x][p][u] = IF x = q /\ p = r /\ u = t THEN Tail(wire[q][r][t]) ELSE wire[x][p][u]
                        /\ posted'[p][x][u] = IF x = q /\ p = r /\ u = t THEN Tail(posted[r][q][t]) ELSE posted[p][x][u]
    OBVIOUS
  <2>3. wire'[x][p][u] = IF x = q /\ p = r /\ u = t THEN Tail(wire[q][r][t]) ELSE wire[x][p][u]
    BY <1>1, <1>2, <2>1 DEF Mail
  <2>4. posted'[p][x][u] = IF p = r /\ x = q /\ u = t THEN Tail(posted[r][q][t]) ELSE posted[p][x][u]
    BY <1>1, <1>2, <2>1 DEF Mail
  <2> QED
    BY <2>3, <2>4
<1>7. /\ Slots' = Slots /\ Tags' = Tags /\ \A i, x : Sends(i, x)' = Sends(i, x)
      /\ \A i : TagOf(i)' = TagOf(i)
  BY <1>1, Fixed
<1>8. code' = code /\ ip' = ip
  BY <1>1 DEF fixed
<1>9. \A p, dos, m : Did(p, dos, m)' <=> Did(p, dos, m)
  BY <1>8 DEF Did, Passed
<1>10. \A x, p \in Ranks : \A u \in Tags :
         SentTo(x, p, u)' = SentTo(x, p, u) /\ PostedFor(p, x, u)' = PostedFor(p, x, u)
  BY <1>7, <1>9 DEF SentTo, PostedFor
<1>11. Linked(wire[q][r][t], posted[r][q][t], SentTo(q, r, t), PostedFor(r, q, t))
  BY DEF Channels, Channel
<1>12. Linked(Tail(wire[q][r][t]), Tail(posted[r][q][t]), SentTo(q, r, t), PostedFor(r, q, t))
  BY <1>1, <1>11, HeadsMeet, LinkLand
<1>13. ASSUME NEW x \in Ranks, NEW p \in Ranks, NEW u \in Tags
       PROVE  Linked(wire'[x][p][u], posted'[p][x][u], SentTo(x, p, u), PostedFor(p, x, u))
  <2>1. CASE x = q /\ p = r /\ u = t
    <3>1. wire'[x][p][u] = Tail(wire[q][r][t]) /\ posted'[p][x][u] = Tail(posted[r][q][t])
      BY <1>6, <2>1
    <3> QED
      BY <1>12, <2>1, <3>1
  <2>2. CASE ~ (x = q /\ p = r /\ u = t)
    <3>1. wire'[x][p][u] = wire[x][p][u] /\ posted'[p][x][u] = posted[p][x][u]
      BY <1>6, <2>2
    <3> QED
      BY <3>1 DEF Channels, Channel
  <2> QED
    BY <2>1, <2>2
<1>14. Channels'
  <2>1. SUFFICES ASSUME NEW x \in Ranks, NEW p \in Ranks, NEW u \in Tags PROVE Channel(x, p, u)'
    BY <1>7 DEF Channels
  <2> QED
    BY <1>7, <1>10, <1>13 DEF Channel, Linked
<1>15. In(Tail(posted[r][q][t])) = In(posted[r][q][t]) \ {Head(posted[r][q][t])}
  BY <1>1, <1>3, <1>11, TakenOff DEF Linked
<1>16. \A x, p \in Ranks : \A u \in Tags :
         In(posted'[p][x][u]) = IF x = q /\ p = r /\ u = t
             THEN In(posted[r][q][t]) \ {Head(posted[r][q][t])} ELSE In(posted[p][x][u])
  <2>1. TAKE x, p \in Ranks
  <2>2. TAKE u \in Tags
  <2>3. CASE x = q /\ p = r /\ u = t
    <3>1. posted'[p][x][u] = Tail(posted[r][q][t])
      BY <1>6, <2>3
    <3> QED
      BY <1>15, <2>3, <3>1
  <2>4. CASE ~ (x = q /\ p = r /\ u = t)
    <3>1. posted'[p][x][u] = posted[p][x][u]
      BY <1>6, <2>4
    <3> QED
      BY <2>4, <3>1
  <2> QED
    BY <2>3, <2>4
<1> QED
  BY <1>5, <1>10, <1>14, <1>16

-----------------------------------------------------------------------------
(* Earlier places, of steps of calls. *)
LEMMA PlacesOrdered ==
    ASSUME Frame, NEW r \in Ranks, NEW i \in Ops, NEW k \in DOMAIN code[r][i],
           NEW j \in Ops, NEW l \in DOMAIN code[r][j]
    PROVE  /\ (i = j /\ k = l) \/ Earlier(Place(i, k), Place(j, l)) \/ Earlier(Place(j, l), Place(i, k))
           /\ Earlier(Place(i, k), Place(j, l)) => ~ Earlier(Place(j, l), Place(i, k)) /\ ~ (i = j /\ k = l)
<1>1. i \in Nat /\ k \in Nat /\ j \in Nat /\ l \in Nat
  BY Indices
<1> QED
  BY <1>1 DEF Earlier, Place

LEMMA Entries ==
    ASSUME Frame, Typed, NEW r \in Ranks, Collected(r), NEW n \in DOMAIN called[r]
    PROVE  /\ DOMAIN called[r] = 1 .. Len(called[r]) /\ Len(called[r]) \in Nat
           /\ called[r][n] \in Operations /\ called[r][n].op \in Ops
           /\ called[r][n].step \in DOMAIN code[r][called[r][n].op]
           /\ Collects(r, called[r][n].op, called[r][n].step)
           /\ Reached(r, called[r][n].op, called[r][n].step)
           /\ called[r][n] = Entry(r, called[r][n].op, called[r][n].step)
<1>1. called[r] \in Seq(Operations)
  BY DEF Typed
<1>2. DOMAIN called[r] = 1 .. Len(called[r]) /\ Len(called[r]) \in Nat /\ called[r][n] \in Operations
  BY <1>1
<1>3. called[r][n].op \in Ops
  BY <1>2 DEF Operations
<1>4. called[r][n] \in In(called[r])
  BY DEF In
<1> QED
  BY <1>2, <1>3, <1>4 DEF Collected

(* Inside a collective operation, this is the last one entered. *)
LEMMA LastCalled ==
    ASSUME Frame, Typed, NEW r \in Ranks, Collected(r), r \in inside
    PROVE  /\ At(r, "collective")
           /\ Len(called[r]) \in DOMAIN called[r]
           /\ called[r][Len(called[r])] = Entry(r, ip[r].op, ip[r].step)
<1>1. At(r, "collective") /\ ~ Ended(r)
  BY DEF Collected, At
<1>2. /\ ip[r] = Place(ip[r].op, ip[r].step) /\ ip[r].op \in Ops /\ ip[r].step \in DOMAIN code[r][ip[r].op]
      /\ Collects(r, ip[r].op, ip[r].step) /\ Reached(r, ip[r].op, ip[r].step)
  BY <1>1, Here DEF At, Collects, Reached
<1>3. Entry(r, ip[r].op, ip[r].step) \in In(called[r])
  BY <1>2 DEF Collected
<1>4. PICK j \in DOMAIN called[r] : called[r][j] = Entry(r, ip[r].op, ip[r].step)
  BY <1>3 DEF In
<1>5. DOMAIN called[r] = 1 .. Len(called[r]) /\ Len(called[r]) \in Nat
  BY <1>4, Entries
<1>6. ASSUME j < Len(called[r]) PROVE FALSE
  <2> DEFINE e == called[r][Len(called[r])]
  <2>1. Len(called[r]) \in DOMAIN called[r]
    BY <1>5
  <2>2. Earlier(called[r][j], e)
    BY <1>6, <2>1 DEF Collected
  <2>3. e.op \in Ops /\ e.step \in DOMAIN code[r][e.op] /\ Reached(r, e.op, e.step)
    BY <2>1, Entries
  <2> HIDE DEF e
  <2>4. Earlier(Place(ip[r].op, ip[r].step), Place(e.op, e.step))
    BY <1>4, <2>2 DEF Entry, Earlier, Place
  <2>5. ~ Earlier(Place(e.op, e.step), ip[r]) /\ ip[r] # Place(e.op, e.step)
    BY <1>2, <2>3, <2>4, PlacesOrdered DEF Place
  <2> QED
    BY <2>3, <2>5 DEF Reached, Passed
<1> QED
  BY <1>1, <1>4, <1>5, <1>6

(* What has been reached in a collective operation, so have all before it. *)
LEMMA ReachedEarlier ==
    ASSUME Frame, Typed, NEW q \in Ranks, NEW i \in Ops, NEW k \in DOMAIN code[q][i],
           NEW j \in Ops, NEW l \in DOMAIN code[q][j],
           Reached(q, i, k), Earlier(Place(j, l), Place(i, k))
    PROVE  Passed(q, j, l)
<1>1. CASE Passed(q, i, k)
  BY <1>1, PassedEarlier
<1>2. CASE ip[q] = Place(i, k)
  BY <1>2 DEF Passed
<1> QED
  BY <1>1, <1>2 DEF Reached

-----------------------------------------------------------------------------
(* Entering a collective operation. *)
LEMMA EnterEffect ==
    ASSUME Frame, Typed, NEW r \in Ranks, Enter(r)
    PROVE  /\ ~ Ended(r) /\ r \notin inside /\ UNCHANGED fixed /\ ip' = ip /\ inside' = inside \cup {r}
           /\ Collects(r, ip[r].op, ip[r].step)
           /\ Entry(r, ip[r].op, ip[r].step) \in Operations
           /\ called' \in [Ranks -> Seq(Operations)]
           /\ called'[r] = Append(called[r], Entry(r, ip[r].op, ip[r].step))
           /\ \A q \in Ranks : q # r => called'[q] = called[q]
           /\ \A q \in Ranks : \A i, k : Passed(q, i, k)' = Passed(q, i, k)
           /\ \A q \in Ranks : \A i, k : Reached(q, i, k)' <=> Reached(q, i, k) \/ (q = r /\ Place(i, k) = ip[r])
<1>1. /\ At(r, "collective") /\ ~ Ended(r) /\ r \notin inside /\ UNCHANGED fixed /\ ip' = ip
      /\ inside' = inside \cup {r}
      /\ called' = [called EXCEPT ![r] = Append(called[r],
            [kind |-> Now(r).part, op |-> Now(r).op, step |-> ip[r].step])]
  BY DEF Enter, At
<1>2. /\ ip[r].op \in Ops /\ ip[r].step \in DOMAIN code[r][ip[r].op] /\ ip[r].step \in Nat \ {0}
      /\ Now(r) = code[r][ip[r].op][ip[r].step] /\ Now(r).do = "collective"
  BY <1>1, Here, Indices DEF At, Typed
<1>3. Now(r).op = ip[r].op /\ Now(r).part \in Kinds
  BY <1>2, Codes DEF Shaped, Plain
<1>4. Entry(r, ip[r].op, ip[r].step) = [kind |-> Now(r).part, op |-> Now(r).op, step |-> ip[r].step]
  BY <1>2, <1>3 DEF Entry
<1>5. Entry(r, ip[r].op, ip[r].step) \in Operations
  BY <1>2, <1>3, <1>4 DEF Operations
<1> DEFINE e == Entry(r, ip[r].op, ip[r].step)
<1>6. called' = [called EXCEPT ![r] = Append(called[r], e)] /\ called \in [Ranks -> Seq(Operations)]
  BY <1>1, <1>4 DEF Typed
<1> HIDE DEF e
<1>7. called' \in [Ranks -> Seq(Operations)] /\ called'[r] = Append(called[r], e)
  BY <1>5, <1>6 DEF e
<1>8. \A q \in Ranks : q # r => called'[q] = called[q]
  BY <1>6
<1>9. \A q, i, k : Passed(q, i, k)' = Passed(q, i, k)
  BY <1>1 DEF Passed
<1>10. \A q \in Ranks : \A i, k : Reached(q, i, k)' <=> Reached(q, i, k) \/ (q = r /\ Place(i, k) = ip[r])
  BY <1>1, <1>9 DEF Reached
<1>11. Collects(r, ip[r].op, ip[r].step)
  BY <1>2 DEF Collects
<1> QED
  BY <1>1, <1>5, <1>7, <1>8, <1>9, <1>10, <1>11 DEF e

LEMMA CollectedEnter ==
    ASSUME Frame, Typed, \A q \in Ranks : Collected(q), NEW r \in Ranks, Enter(r)
    PROVE  \A q \in Ranks : Collected(q)'
<1> DEFINE e == Entry(r, ip[r].op, ip[r].step)
<1>1. /\ ~ Ended(r) /\ r \notin inside /\ UNCHANGED fixed /\ ip' = ip /\ inside' = inside \cup {r}
      /\ Collects(r, ip[r].op, ip[r].step)
      /\ e \in Operations /\ called \in [Ranks -> Seq(Operations)]
      /\ called'[r] = Append(called[r], e)
      /\ \A q \in Ranks : q # r => called'[q] = called[q]
      /\ \A q \in Ranks : \A i, k : Reached(q, i, k)' <=> Reached(q, i, k) \/ (q = r /\ Place(i, k) = ip[r])
  BY EnterEffect DEF Typed
<1>2. code' = code /\ Ops' = Ops /\ Script' = Script
  BY <1>1, Fixed DEF fixed
<1>3. /\ ip[r] = Place(ip[r].op, ip[r].step) /\ ip[r].op \in Ops /\ ip[r].step \in DOMAIN code[r][ip[r].op]
  BY <1>1, Here
<1>4. \A q, i, k : Entry(q, i, k)' = Entry(q, i, k) /\ Collects(q, i, k)' = Collects(q, i, k)
  BY <1>2 DEF Entry, Collects
<1>5. ASSUME NEW q \in Ranks, q # r PROVE Collected(q)'
  <2>1. q \in inside' <=> q \in inside
    BY <1>1, <1>5
  <2>2. \A i, k : Reached(q, i, k)' <=> Reached(q, i, k)
    BY <1>1, <1>5
  <2>3. At(q, "collective")' = At(q, "collective")
    BY <1>1, <1>2 DEF At, Ended, Now
  <2> QED
    BY <1>1, <1>2, <1>4, <1>5, <2>1, <2>2, <2>3 DEF Collected
<1>6. Collected(r)'
  <2> DEFINE n == Len(called[r])
             s == called'[r]
  <2>1. /\ called[r] \in Seq(Operations) /\ n \in Nat /\ DOMAIN called[r] = 1 .. n /\ DOMAIN s = 1 .. n + 1
        /\ s[n + 1] = e /\ \A k \in 1 .. n : s[k] = called[r][k]
    BY <1>1
  <2> HIDE DEF n, s
  <2>2. \A k \in 1 .. n : Earlier(called[r][k], e)
    <3>1. TAKE k \in 1 .. n
    <3>2. Reached(r, called[r][k].op, called[r][k].step)
      BY <2>1, Entries
    <3>3. Earlier(Place(called[r][k].op, called[r][k].step), ip[r])
      BY <1>1, <3>2 DEF Reached, Passed
    <3> QED
      BY <3>3 DEF Earlier, Place, Entry
  <2>3. \A k, l \in DOMAIN s : k < l => Earlier(s[k], s[l])
    BY <2>1, <2>2 DEF Collected
  <2>4. In(s) = In(called[r]) \cup {e}
    BY <2>1 DEF In
  <2>5. ASSUME NEW x \in In(s)
        PROVE  /\ x.step \in DOMAIN code[r][x.op] /\ Collects(r, x.op, x.step)
               /\ Reached(r, x.op, x.step)' /\ x = Entry(r, x.op, x.step)
    <3>1. CASE x \in In(called[r])
      BY <1>1, <3>1 DEF Collected
    <3>2. CASE x = e
      <4>1. x.op = ip[r].op /\ x.step = ip[r].step
        BY <3>2 DEF Entry
      <4> QED
        BY <1>1, <1>3, <3>2, <4>1
    <3> QED
      BY <2>4, <3>1, <3>2
  <2>6. ASSUME NEW i \in Ops, NEW k \in DOMAIN code[r][i], Collects(r, i, k), Reached(r, i, k)'
        PROVE  Entry(r, i, k) \in In(s)
    <3>1. CASE Reached(r, i, k)
      BY <2>4, <2>6, <3>1 DEF Collected
    <3>2. CASE Place(i, k) = ip[r]
      <4>1. i = ip[r].op /\ k = ip[r].step
        BY <3>2 DEF Place
      <4> QED
        BY <2>4, <4>1
    <3> QED
      BY <1>1, <2>6, <3>1, <3>2
  <2>7. At(r, "collective")'
    BY <1>1, <1>2 DEF Enter, At, Ended, Now
  <2> HIDE DEF e
  <2> QED
    BY <1>2, <1>4, <2>3, <2>5, <2>6, <2>7 DEF Collected, s, In
<1> QED
  BY <1>5, <1>6

(* All ranks enter the same next. *)
LEMMA AgreeEnter ==
    ASSUME Frame, Typed, CollectivesAgree, \A q \in Ranks : Collected(q), NEW r \in Ranks, Enter(r)
    PROVE  CollectivesAgree'
<1> DEFINE e == Entry(r, ip[r].op, ip[r].step)
           n == Len(called[r]) + 1
<1>1. /\ ~ Ended(r) /\ r \notin inside /\ Collects(r, ip[r].op, ip[r].step)
      /\ e \in Operations /\ called \in [Ranks -> Seq(Operations)]
      /\ called'[r] = Append(called[r], e)
      /\ \A q \in Ranks : q # r => called'[q] = called[q]
  BY EnterEffect DEF Typed
<1>2. /\ ip[r] = Place(ip[r].op, ip[r].step) /\ ip[r].op \in Ops /\ ip[r].step \in DOMAIN code[r][ip[r].op]
      /\ ~ Passed(r, ip[r].op, ip[r].step)
  BY <1>1, Here
<1>3. /\ called[r] \in Seq(Operations) /\ n \in Nat \ {0} /\ DOMAIN called[r] = 1 .. n - 1
      /\ DOMAIN called'[r] = 1 .. n /\ called'[r][n] = e
      /\ \A k \in 1 .. n - 1 : called'[r][k] = called[r][k]
  BY <1>1
<1>4. ASSUME NEW q \in Ranks, n \in DOMAIN called[q] PROVE called[q][n] = e
  <2> DEFINE f == called[q][n]
  <2>1. /\ f.op \in Ops /\ f.step \in DOMAIN code[q][f.op] /\ Collects(q, f.op, f.step)
        /\ Reached(q, f.op, f.step) /\ f = Entry(q, f.op, f.step)
        /\ DOMAIN called[q] = 1 .. Len(called[q]) /\ Len(called[q]) \in Nat
    BY <1>4, Entries
  <2>2. code[q][f.op] = code[r][f.op] /\ code[q][ip[r].op] = code[r][ip[r].op]
    BY <1>2, <2>1, Codes
  <2>3. \A k \in 1 .. n - 1 : k \in DOMAIN called[q] /\ called[q][k] = called[r][k] /\ Earlier(called[q][k], f)
    <3>1. \A k \in 1 .. n - 1 : k \in DOMAIN called[q] /\ k \in DOMAIN called[r] /\ k < n
      BY <1>3, <1>4, <2>1
    <3>2. \A k \in 1 .. n - 1 : Earlier(called[q][k], called[q][n])
      BY <1>4, <3>1 DEF Collected
    <3> QED
      BY <3>1, <3>2 DEF CollectivesAgree
  <2> HIDE DEF f, n, e
  <2>4. ~ Earlier(Place(f.op, f.step), Place(ip[r].op, ip[r].step))
    <3>1. SUFFICES ASSUME Earlier(Place(f.op, f.step), Place(ip[r].op, ip[r].step)) PROVE FALSE
      OBVIOUS
    <3>2. Reached(r, f.op, f.step)
      BY <1>2, <3>1 DEF Reached, Passed
    <3>3. Collects(r, f.op, f.step) /\ Entry(r, f.op, f.step) = f
      BY <2>1, <2>2 DEF Collects, Entry
    <3>4. f \in In(called[r])
      BY <2>1, <2>2, <3>2, <3>3 DEF Collected
    <3>5. PICK k \in 1 .. n - 1 : called[r][k] = f
      BY <1>3, <3>4 DEF In
    <3>6. Earlier(f, f)
      BY <2>3, <3>5
    <3>7. f.op \in Nat /\ f.step \in Nat
      BY <2>1, Indices
    <3> QED
      BY <3>6, <3>7 DEF Earlier
  <2>5. ~ Earlier(Place(ip[r].op, ip[r].step), Place(f.op, f.step))
    <3>1. SUFFICES ASSUME Earlier(Place(ip[r].op, ip[r].step), Place(f.op, f.step)) PROVE FALSE
      OBVIOUS
    <3>2. Passed(q, ip[r].op, ip[r].step)
      BY <1>2, <2>1, <2>2, <3>1, ReachedEarlier
    <3>3. Collects(q, ip[r].op, ip[r].step) /\ Entry(q, ip[r].op, ip[r].step) = e
      BY <1>1, <2>2 DEF Collects, Entry, e
    <3>4. e \in In(called[q])
      BY <1>2, <2>2, <3>2, <3>3 DEF Collected, Reached
    <3>5. PICK k \in DOMAIN called[q] : called[q][k] = e
      BY <3>4 DEF In
    <3>6. k < n
      <4>1. SUFFICES ASSUME n <= k PROVE FALSE
        BY <1>3, <2>1, <3>5
      <4>2. f = e \/ Earlier(f, e)
        <5>1. CASE n = k
          BY <3>5, <5>1 DEF f
        <5>2. CASE n < k
          BY <1>4, <3>5, <5>2 DEF f, Collected
        <5> QED
          BY <1>3, <2>1, <4>1, <5>1, <5>2
      <4>3. (f.op = ip[r].op /\ f.step = ip[r].step) \/ Earlier(Place(f.op, f.step), Place(ip[r].op, ip[r].step))
        BY <4>2 DEF e, Entry, Earlier, Place
      <4> QED
        BY <1>2, <2>1, <2>2, <3>1, <4>3, PlacesOrdered
    <3>7. k \in 1 .. n - 1 /\ called[r][k] = e
      BY <1>3, <2>1, <2>3, <3>5, <3>6
    <3>8. Reached(r, e.op, e.step)
      BY <1>3, <3>7, Entries
    <3>9. e.op = ip[r].op /\ e.step = ip[r].step
      BY DEF e, Entry
    <3> QED
      BY <1>1, <1>2, <3>8, <3>9 DEF Reached
  <2>6. f.op = ip[r].op /\ f.step = ip[r].step
    BY <1>2, <2>1, <2>2, <2>4, <2>5, PlacesOrdered
  <2>7. f = e
    BY <2>1, <2>2, <2>6 DEF Entry, e
  <2> QED
    BY <2>7 DEF f
<1> HIDE DEF e, n
<1>5. ASSUME NEW q \in Ranks, NEW k \in DOMAIN called'[q] \cap DOMAIN called'[r]
      PROVE  called'[q][k] = called'[r][k]
  <2>1. CASE q = r
    BY <2>1
  <2>2. CASE q # r /\ k = n
    BY <1>1, <1>3, <1>4, <1>5, <2>2
  <2>3. CASE q # r /\ k # n
    BY <1>1, <1>3, <1>5, <2>3 DEF CollectivesAgree
  <2> QED
    BY <2>1, <2>2, <2>3
<1>6. ASSUME NEW q \in Ranks, NEW p \in Ranks, q # r, p # r, NEW k \in DOMAIN called'[q] \cap DOMAIN called'[p]
      PROVE  called'[q][k] = called'[p][k]
  BY <1>1, <1>6 DEF CollectivesAgree
<1> QED
  BY <1>5, <1>6 DEF CollectivesAgree

-----------------------------------------------------------------------------
(* Moving on: a rank that leaves a collective operation has passed it. *)
LEMMA ReachedMove ==
    ASSUME Frame, Typed, NEW r \in Ranks, Collected(r), Step(r), ~ Enter(r)
    PROVE  /\ called' = called /\ inside' \subseteq inside
           /\ inside' = (IF r \in inside THEN inside \ {r} ELSE inside)
           /\ (r \in inside => Leave(r)) /\ (r \notin inside => Now(r).do # "collective")
           /\ \A q \in Ranks : \A i \in Ops : \A k \in DOMAIN code[q][i] : Collects(q, i, k) =>
                (Reached(q, i, k)' <=> Reached(q, i, k))
<1>1. ~ Ended(r) /\ Proceed(r) /\ UNCHANGED fixed
  BY StepMoves DEF Moves
<1>2. /\ ip[r] = Place(ip[r].op, ip[r].step) /\ ip[r].op \in Ops /\ ip[r].step \in DOMAIN code[r][ip[r].op]
      /\ Now(r) = code[r][ip[r].op][ip[r].step]
  BY <1>1, Here
<1>3. r \in inside => Now(r).do = "collective"
  BY DEF Collected, At
<1>4. Leave(r) \/ (Now(r).do # "collective" /\ UNCHANGED <<inside, called>>)
  BY DEF Step, Post, Rsend, Start, WaitSend, Wait, Unpack, At
<1>5. Leave(r) => r \in inside /\ inside' = inside \ {r} /\ called' = called
  BY DEF Leave
<1>6. /\ \A p \in Ranks : p # r => ip'[p] = ip[p]
      /\ \A p \in Ranks : \A i \in Ops : \A k \in DOMAIN code[p][i] :
            Passed(p, i, k)' <=> Passed(p, i, k) \/ (p = r /\ Place(i, k) = ip[r])
      /\ r \notin inside'
  BY <1>1, <1>3, <1>4, <1>5, GoesOn
<1>7. ASSUME NEW q \in Ranks, NEW i \in Ops, NEW k \in DOMAIN code[q][i], Collects(q, i, k)
      PROVE  Reached(q, i, k)' <=> Reached(q, i, k)
  <2>1. CASE q # r
    <3>1. (q \in inside' <=> q \in inside) /\ ip'[q] = ip[q] /\ (Passed(q, i, k)' <=> Passed(q, i, k))
      BY <1>4, <1>5, <1>6, <2>1
    <3> QED
      BY <3>1 DEF Reached
  <2>2. CASE q = r
    <3>1. Reached(r, i, k)' <=> Passed(r, i, k) \/ Place(i, k) = ip[r]
      BY <1>6, <1>7, <2>2 DEF Reached
    <3>2. Place(i, k) = ip[r] => i = ip[r].op /\ k = ip[r].step
      BY DEF Place
    <3>3. Place(i, k) = ip[r] => Now(r).do = "collective"
      BY <1>2, <1>7, <2>2, <3>2 DEF Collects
    <3> QED
      BY <1>4, <1>5, <2>2, <3>1, <3>3 DEF Reached
  <2> QED
    BY <2>1, <2>2
<1> QED
  BY <1>3, <1>4, <1>5, <1>7

LEMMA CollectedMove ==
    ASSUME Frame, Typed, \A q \in Ranks : Collected(q), NEW r \in Ranks, Step(r), ~ Enter(r)
    PROVE  \A q \in Ranks : Collected(q)'
<1>1. UNCHANGED fixed /\ Proceed(r) /\ ~ Ended(r)
  BY StepMoves DEF Moves
<1>2. code' = code /\ Ops' = Ops /\ Script' = Script
  BY <1>1, Fixed DEF fixed
<1>3. \A q, i, k : Entry(q, i, k)' = Entry(q, i, k) /\ Collects(q, i, k)' = Collects(q, i, k)
  BY <1>2 DEF Entry, Collects
<1>4. /\ called' = called /\ inside' = (IF r \in inside THEN inside \ {r} ELSE inside)
      /\ \A q \in Ranks : \A i \in Ops : \A k \in DOMAIN code[q][i] : Collects(q, i, k) =>
                (Reached(q, i, k)' <=> Reached(q, i, k))
  BY ReachedMove
<1>5. \A q \in Ranks : q # r => ip'[q] = ip[q]
  BY <1>1, GoesOn
<1>6. SUFFICES ASSUME NEW q \in Ranks PROVE Collected(q)'
  OBVIOUS
<1>7. \A k, l \in DOMAIN called'[q] : k < l => Earlier(called'[q][k], called'[q][l])
  BY <1>4 DEF Collected
<1>8. ASSUME NEW e \in In(called'[q])
      PROVE  /\ e.step \in DOMAIN code[q][e.op] /\ Collects(q, e.op, e.step)
             /\ Reached(q, e.op, e.step)' /\ e = Entry(q, e.op, e.step)
  <2>1. PICK n \in DOMAIN called[q] : e = called[q][n]
    BY <1>4 DEF In
  <2> QED
    BY <1>4, <2>1, Entries
<1>9. ASSUME NEW i \in Ops, NEW k \in DOMAIN code[q][i], Collects(q, i, k), Reached(q, i, k)'
      PROVE  Entry(q, i, k) \in In(called'[q])
  BY <1>4, <1>9 DEF Collected
<1>10. q \in inside' => At(q, "collective")'
  <2>1. SUFFICES ASSUME q \in inside' PROVE At(q, "collective")'
    OBVIOUS
  <2>2. q # r /\ At(q, "collective")
    BY <1>4, <2>1 DEF Collected
  <2> QED
    BY <1>2, <1>5, <2>2 DEF At, Ended, Now
<1> QED
  BY <1>2, <1>3, <1>7, <1>8, <1>9, <1>10 DEF Collected, In

LEMMA BarredStep ==
    ASSUME Frame, Typed, CollectivesAgree, \A q \in Ranks : Collected(q) /\ Barred(q),
           NEW r \in Ranks, Step(r)
    PROVE  \A q \in Ranks : Barred(q)'
<1>1. CASE Enter(r)
  <2>1. /\ UNCHANGED fixed
        /\ \A q \in Ranks : \A i, k : Passed(q, i, k)' = Passed(q, i, k)
        /\ \A q \in Ranks : \A i, k : Reached(q, i, k) => Reached(q, i, k)'
    BY <1>1, EnterEffect
  <2>2. code' = code /\ Ops' = Ops
    BY <2>1, Fixed DEF fixed
  <2> QED
    BY <2>1, <2>2 DEF Barred, Collects
<1>2. CASE ~ Enter(r)
  <2>1. UNCHANGED fixed /\ Proceed(r) /\ ~ Ended(r)
    BY <1>2, StepMoves DEF Moves
  <2>2. code' = code /\ Ops' = Ops
    BY <2>1, Fixed DEF fixed
  <2>3. /\ (r \in inside => Leave(r)) /\ (r \notin inside => Now(r).do # "collective")
        /\ \A q \in Ranks : \A i \in Ops : \A k \in DOMAIN code[q][i] : Collects(q, i, k) =>
                (Reached(q, i, k)' <=> Reached(q, i, k))
    BY <1>2, ReachedMove
  <2>4. SUFFICES ASSUME NEW p \in Ranks, NEW i \in Ops, NEW k \in DOMAIN code[p][i],
                        Collects(p, i, k), code[p][i][k].part = "Barrier", Passed(p, i, k)',
                        NEW q \in Ranks
                 PROVE  Reached(q, i, k)'
    BY <2>2 DEF Barred, Collects
  <2>5. code[q][i] = code[p][i] /\ Collects(q, i, k)
    BY <2>4, Codes DEF Collects
  <2>6. Passed(p, i, k) \/ (p = r /\ Place(i, k) = ip[r])
    BY <2>1, <2>4, GoesOn
  <2>7. CASE Passed(p, i, k)
    BY <2>3, <2>4, <2>5, <2>7 DEF Barred
  <2>8. CASE p = r /\ Place(i, k) = ip[r]
    <3>1. i = ip[r].op /\ k = ip[r].step
      BY <2>8 DEF Place
    <3>2. Now(r).do = "collective" /\ Now(r).part = "Barrier"
      BY <2>1, <2>4, <2>8, <3>1, Here DEF Collects
    <3>3. r \in inside /\ Leave(r)
      BY <2>3, <3>2
    <3> DEFINE n == Len(called[r])
    <3>4. n \in DOMAIN called[r] /\ called[r][n] = Entry(r, i, k)
      BY <3>1, <3>3, LastCalled
    <3>5. Len(called[q]) >= n
      BY <3>2, <3>3 DEF Leave
    <3>6. called[q] \in Seq(Operations) /\ called[r] \in Seq(Operations)
      BY DEF Typed
    <3>7. n \in DOMAIN called[q]
      BY <3>4, <3>5, <3>6
    <3>8. called[q][n] = Entry(r, i, k)
      BY <3>4, <3>7 DEF CollectivesAgree
    <3>9. Reached(q, called[q][n].op, called[q][n].step)
      BY <3>7, Entries
    <3>10. called[q][n].op = i /\ called[q][n].step = k
      BY <3>8 DEF Entry
    <3> QED
      BY <2>3, <2>5, <3>9, <3>10
  <2> QED
    BY <2>6, <2>7, <2>8
<1> QED
  BY <1>1, <1>2

(* All about collective operations. *)
Agreement == CollectivesAgree /\ \A q \in Ranks : Collected(q) /\ Barred(q)

LEMMA AgreementStep ==
    ASSUME Frame, Typed, Agreement, NEW r \in Ranks, Step(r)
    PROVE  Agreement'
<1>1. CollectivesAgree /\ \A q \in Ranks : Collected(q) /\ Barred(q)
  BY DEF Agreement
<1>2. \A q \in Ranks : Barred(q)'
  BY <1>1, BarredStep
<1>3. CASE Enter(r)
  BY <1>1, <1>2, <1>3, CollectedEnter, AgreeEnter DEF Agreement
<1>4. CASE ~ Enter(r)
  <2>1. called' = called
    BY <1>1, <1>4, ReachedMove
  <2>2. CollectivesAgree'
    BY <1>1, <2>1 DEF CollectivesAgree
  <2>3. \A q \in Ranks : Collected(q)'
    BY <1>1, <1>4, CollectedMove
  <2> QED
    BY <1>2, <2>2, <2>3 DEF Agreement
<1> QED
  BY <1>3, <1>4

LEMMA AgreementIdle ==
    ASSUME Agreement, UNCHANGED <<fixed, ip, inside, called>>
    PROVE  Agreement'
<1>1. /\ code' = code /\ ip' = ip /\ inside' = inside /\ called' = called /\ Ops' = Ops /\ Script' = Script
  BY Fixed DEF fixed
<1>2. \A q, i, k : Passed(q, i, k)' = Passed(q, i, k)
  BY <1>1 DEF Passed
<1>3. \A q, i, k : Reached(q, i, k)' = Reached(q, i, k)
  BY <1>1, <1>2 DEF Reached
<1>4. \A q, i, k : Entry(q, i, k)' = Entry(q, i, k) /\ Collects(q, i, k)' = Collects(q, i, k)
  BY <1>1 DEF Entry, Collects
<1>5. \A q : At(q, "collective")' = At(q, "collective")
  BY <1>1 DEF At, Ended, Now
<1>6. CollectivesAgree'
  BY <1>1 DEF Agreement, CollectivesAgree
<1>7. \A q \in Ranks : Barred(q)'
  BY <1>1, <1>2, <1>3, <1>4 DEF Agreement, Barred
<1>8. \A q \in Ranks : Collected(q)'
  BY <1>1, <1>2, <1>3, <1>4, <1>5 DEF Agreement, Collected, In
<1> QED
  BY <1>6, <1>7, <1>8 DEF Agreement

-----------------------------------------------------------------------------
LEMMA SortedLength ==
    ASSUME Frame, NEW s \in Seq(Slots), Sorted(s)
    PROVE  IsFiniteSet(In(s)) /\ Cardinality(In(s)) = Len(s)
<1>1. /\ Len(s) \in Nat /\ DOMAIN s = 1 .. Len(s) /\ \A k \in DOMAIN s : s[k] \in Slots
      /\ s = [k \in 1 .. Len(s) |-> s[k]]
  OBVIOUS
<1>2. \A k, l \in 1 .. Len(s) : k # l => s[k] # s[l]
  <2>1. SUFFICES ASSUME NEW k \in 1 .. Len(s), NEW l \in 1 .. Len(s), k < l PROVE s[k] # s[l]
    BY <1>1
  <2> QED
    BY <1>1, <2>1, BeforeTotal DEF Sorted
<1>3. s \in [1 .. Len(s) -> In(s)]
  BY <1>1 DEF In
<1>4. s \in Injection(1 .. Len(s), In(s))
  BY <1>2, <1>3 DEF Injection, IsInjective
<1>5. s \in Surjection(1 .. Len(s), In(s))
  BY <1>1, <1>3 DEF Surjection, In
<1>6. ExistsBijection(1 .. Len(s), In(s))
  BY <1>4, <1>5 DEF ExistsBijection, Bijection
<1>7. IsFiniteSet(1 .. Len(s)) /\ Cardinality(1 .. Len(s)) = Len(s)
  <2> DEFINE n == Len(s)
  <2>1. n \in Nat
    BY <1>1
  <2> HIDE DEF n
  <2>2. IsFiniteSet(1 .. n) /\ Cardinality(1 .. n) = IF 1 > n THEN 0 ELSE n - 1 + 1
    BY <2>1, FS_Interval
  <2> QED
    BY <2>1, <2>2 DEF n
<1> QED
  BY <1>6, <1>7, FS_Bijection

(* When a ready send starts, the receive of the same message is among those in
   wait, as are the receives of all messages that are on the way before it. *)
LEMMA Ready ==
    ASSUME IInv
    PROVE  ReadyReceives
<1>1. Frame /\ Typed /\ Channels /\ \A q \in Ranks : Collected(q) /\ Barred(q)
  BY DEF IInv, Ranked
<1>2. SUFFICES ASSUME NEW r \in Ranks, At(r, "rsend"), NEW q \in Sends(Now(r).op, r)
               PROVE  Len(posted[q][r][TagOf(Now(r).op)]) > Len(wire[r][q][TagOf(Now(r).op)])
  BY DEF ReadyReceives
<1> DEFINE I == ip[r].op
           K == ip[r].step
           m == NowSlot(r)
           t == TagOf(Now(r).op)
           w == wire[r][q][t]
           p == posted[q][r][t]
<1>3. ~ Ended(r) /\ Now(r).do = "rsend" /\ q \in Ranks
  BY <1>2 DEF At, Sends
<1>4. I \in Ops /\ K \in DOMAIN code[r][I] /\ Now(r) = code[r][I][K] /\ ip[r] = Place(I, K)
  BY <1>1, <1>3, Here
<1>5. /\ m \in Slots /\ Now(r).op = I /\ m.op = I /\ m.part = Now(r).part /\ ~ Did(r, Sending, m)
      /\ \A n \in Slots : Did(r, Sending, n) => Before(n, m)
  BY <1>1, <1>3, NowLast DEF Sending, NowSlot
<1>6. t \in Tags
  BY <1>4, <1>5 DEF Tags, TagOf
<1>7. Did(q, Posting, m)
  <2>1. PICK j, l \in DOMAIN code[r][I] :
            /\ j < l /\ l < K /\ code[r][I][j].do = "post" /\ code[r][I][j].part = m.part
            /\ code[r][I][l].do = "collective" /\ code[r][I][l].part = "Barrier"
    <3>1. Guarded(code[r][I])
      BY <1>1, <1>4, Codes DEF Shaped
    <3>2. K \in DOMAIN code[r][I] /\ code[r][I][K].do = "rsend" /\ code[r][I][K].part = m.part
      BY <1>3, <1>4, <1>5
    <3> HIDE DEF I, K, m
    <3> QED
      BY <3>1, <3>2 DEF Guarded
  <2>2. code[q][I] = code[r][I]
    BY <1>1, <1>3, <1>4, Codes
  <2>3. Passed(r, I, l)
    BY <1>4, <2>1 DEF Passed, Earlier, Place
  <2>4. Reached(q, I, l)
    BY <1>1, <1>3, <1>4, <2>1, <2>3 DEF Barred, Collects
  <2>5. Earlier(Place(I, j), Place(I, l))
    BY <2>1 DEF Earlier, Place
  <2>6. Passed(q, I, j)
    BY <1>1, <1>3, <1>4, <2>1, <2>2, <2>4, <2>5, ReachedEarlier
  <2> QED
    BY <1>5, <2>1, <2>2, <2>6 DEF Did, Posting
<1>8. m \in PostedFor(q, r, t)
  BY <1>2, <1>5, <1>7 DEF PostedFor
<1>9. m \notin SentTo(r, q, t)
  BY <1>5 DEF SentTo
<1>10. Linked(w, p, SentTo(r, q, t), PostedFor(q, r, t))
  BY <1>1, <1>3, <1>6 DEF Channels, Channel
<1> HIDE DEF m, t, w, p
<1>11. m \in In(p) /\ m \notin In(w)
  BY <1>8, <1>9, <1>10 DEF Linked
<1>12. In(w) \subseteq In(p)
  <2>1. SUFFICES ASSUME NEW x \in In(w) PROVE x \in In(p)
    OBVIOUS
  <2>2. x \in SentTo(r, q, t) /\ x \notin SentTo(r, q, t) \ In(w)
    BY <1>10 DEF Linked
  <2>3. x \in Slots /\ Did(r, Sending, x) /\ q \in Sends(x.op, r) /\ TagOf(x.op) = t
    BY <2>2 DEF SentTo
  <2>4. Before(x, m)
    BY <1>5, <2>3
  <2>5. Did(q, Posting, x)
    BY <1>1, <1>3, <1>5, <1>7, <2>3, <2>4, DidBefore
  <2>6. x \in PostedFor(q, r, t)
    BY <2>3, <2>5 DEF PostedFor
  <2> QED
    BY <1>10, <2>1, <2>2, <2>6 DEF Linked
<1>13. w \in Seq(Slots) /\ p \in Seq(Slots) /\ Sorted(w) /\ Sorted(p)
  BY <1>10 DEF Linked
<1>14. /\ IsFiniteSet(In(w)) /\ Cardinality(In(w)) = Len(w)
       /\ IsFiniteSet(In(p)) /\ Cardinality(In(p)) = Len(p)
  BY <1>1, <1>13, SortedLength
<1>15. Cardinality(In(w) \cup {m}) = Cardinality(In(w)) + 1
  BY <1>11, <1>14, FS_AddElement
<1>16. Cardinality(In(w) \cup {m}) <= Cardinality(In(p))
  BY <1>11, <1>12, <1>14, FS_Subset
<1>17. Len(w) \in Nat /\ Len(p) \in Nat
  BY <1>13
<1> QED
  BY <1>14, <1>15, <1>16, <1>17 DEF w, p, t

-----------------------------------------------------------------------------
(* What has been taken out. *)
LEMMA UnpackedNow ==
    ASSUME Frame, Typed, UNCHANGED fixed, NEW r \in Ranks, ~ Ended(r), Proceed(r), NEW p \in Ranks, NEW x
    PROVE  Unpacked(p, x)' <=> Unpacked(p, x) \/ (p = r /\ Now(r).do = "unpack" /\ Now(r).op = x)
<1>1. code' = code /\ Ops' = Ops
  BY Fixed DEF fixed
<1>2. \A i \in Ops : \A k \in DOMAIN code[p][i] :
        Passed(p, i, k)' <=> Passed(p, i, k) \/ (p = r /\ Place(i, k) = ip[r])
  BY GoesOn
<1>3. Unpacked(p, x)' <=> \E i \in Ops : \E k \in DOMAIN code[p][i] :
        code[p][i][k].do = "unpack" /\ code[p][i][k].op = x /\ Passed(p, i, k)'
  BY <1>1 DEF Unpacked
<1>4. Unpacked(p, x)' <=> Unpacked(p, x) \/ \E i \in Ops : \E k \in DOMAIN code[p][i] :
        code[p][i][k].do = "unpack" /\ code[p][i][k].op = x /\ p = r /\ Place(i, k) = ip[r]
  BY <1>2, <1>3 DEF Unpacked
<1>5. ip[r].op \in Ops /\ ip[r].step \in DOMAIN code[r][ip[r].op] /\ ip[r] = Place(ip[r].op, ip[r].step)
      /\ Now(r) = code[r][ip[r].op][ip[r].step]
  BY Here
<1>6. \A i, k : Place(i, k) = ip[r] => i = ip[r].op /\ k = ip[r].step
  BY DEF Place
<1> QED
  BY <1>4, <1>5, <1>6

(* Receives that are waited for have been posted. *)
LEMMA WaitedFor ==
    ASSUME Frame, Typed, NEW r \in Ranks, NEW i \in Ops, NEW k \in DOMAIN code[r][i],
           code[r][i][k].do = "wait", Passed(r, i, k) \/ ip[r] = Place(i, k)
    PROVE  /\ [op |-> code[r][i][k].op, part |-> code[r][i][k].part] \in Slots
           /\ Did(r, Posting, [op |-> code[r][i][k].op, part |-> code[r][i][k].part])
<1> DEFINE o == code[r][i][k].op
           part == code[r][i][k].part
<1>1. /\ part \in Parts
      /\ \/ o = i /\ \E j \in DOMAIN code[r][i] : j < k /\ code[r][i][j].do = "post" /\ code[r][i][j].part = part
         \/ o = Started(i) /\ Script[i].call = "COM_Recv" /\ part = "data"
  <2>1. Waiting(code[r][i], i)
    BY Codes DEF Shaped
  <2> QED
    BY <2>1 DEF Waiting
<1>2. \A j \in Ops : \A l \in DOMAIN code[r][j] : Earlier(Place(j, l), Place(i, k)) => Passed(r, j, l)
  <2>1. TAKE j \in Ops
  <2>2. TAKE l \in DOMAIN code[r][j]
  <2>3. CASE Passed(r, i, k)
    BY <2>3, PassedEarlier
  <2>4. CASE ip[r] = Place(i, k)
    BY <2>4 DEF Passed
  <2> QED
    BY <2>3, <2>4
<1> HIDE DEF o, part
<1>3. CASE o = i /\ \E j \in DOMAIN code[r][i] : j < k /\ code[r][i][j].do = "post" /\ code[r][i][j].part = part
  <2>1. PICK j \in DOMAIN code[r][i] : j < k /\ code[r][i][j].do = "post" /\ code[r][i][j].part = part
    BY <1>3
  <2>2. Earlier(Place(i, j), Place(i, k))
    BY <2>1 DEF Earlier, Place
  <2>3. Passed(r, i, j)
    BY <1>2, <2>2
  <2>4. Did(r, Posting, [op |-> o, part |-> part])
    BY <1>3, <2>1, <2>3 DEF Did, Posting
  <2> QED
    BY <1>1, <1>3, <2>4 DEF Slots, o, part
<1>4. CASE o = Started(i) /\ Script[i].call = "COM_Recv" /\ part = "data"
  <2>1. o \in 1 .. i - 1 /\ Script[o].call = "COM_Send"
    BY <1>4, StartedIs DEF Frame
  <2>2. i \in Nat /\ o \in Ops /\ o < i
    BY <2>1, Codes
  <2>3. DOMAIN code[r][o] = {1} /\ code[r][o][1].do = "start" /\ code[r][o][1].part = "data"
    <3>1. DOMAIN code[r][o] = {1} /\ code[r][o][1] = Does("start", o, "data")
      BY <2>1, <2>2, Codes
    <3> QED
      BY <3>1 DEF Does
  <2>4. Passed(r, o, 1)
    BY <1>2, <2>2, <2>3 DEF Earlier, Place
  <2>5. Did(r, Posting, [op |-> o, part |-> part])
    BY <1>4, <2>3, <2>4 DEF Did, Posting
  <2> QED
    BY <1>1, <2>2, <2>5 DEF Slots, o, part
<1> QED
  BY <1>1, <1>3, <1>4 DEF o, part

(* Nothing is taken out twice. *)
LEMMA TakenOnce ==
    ASSUME Frame, Typed, NEW r \in Ranks, At(r, "unpack")
    PROVE  Now(r).op \in Ops /\ ~ Unpacked(r, Now(r).op)
<1> DEFINE I == ip[r].op
           K == ip[r].step
           x == Now(r).op
<1>1. /\ I \in Ops /\ K \in DOMAIN code[r][I] /\ Now(r) = code[r][I][K] /\ code[r][I][K].do = "unpack"
      /\ ~ Passed(r, I, K) /\ ip[r] = Place(I, K)
  BY Here DEF At
<1>2. \A i \in Ops : Taking(code[r][i], i) /\ i \in Nat
  BY Codes DEF Shaped
<1>3. \A i \in Ops : \A k \in DOMAIN code[r][i] : code[r][i][k].do = "unpack" =>
        /\ code[r][i][k].op = (IF Script[i].call = "COM_Recv" THEN Started(i) ELSE i)
        /\ Script[i].call # "COM_Send"
  BY <1>2 DEF Taking
<1>4. \A i \in Ops : Script[i].call = "COM_Recv" =>
        /\ Started(i) \in 1 .. i - 1 /\ Script[Started(i)].call = "COM_Send"
        /\ \A l \in Started(i) + 1 .. i - 1 : Script[l].call = "COM_Recv" => Script[l].tag # Script[i].tag
        /\ Script[Started(i)].tag = Script[i].tag
  BY StartedIs DEF Frame
<1>5. x \in Ops
  <2>1. x = (IF Script[I].call = "COM_Recv" THEN Started(I) ELSE I)
    BY <1>1, <1>3
  <2>2. Ops = 1 .. Len(Script) /\ Len(Script) \in Nat
    BY Codes
  <2> QED
    BY <1>1, <1>4, <2>1, <2>2
<1> HIDE DEF I, K, x
<1>6. ASSUME Unpacked(r, x) PROVE FALSE
  <2>1. PICK i \in Ops : \E k \in DOMAIN code[r][i] :
            code[r][i][k].do = "unpack" /\ code[r][i][k].op = x /\ Passed(r, i, k)
    BY <1>6 DEF Unpacked
  <2>2. PICK k \in DOMAIN code[r][i] : code[r][i][k].do = "unpack" /\ code[r][i][k].op = x /\ Passed(r, i, k)
    BY <2>1
  <2>3. i <= I
    BY <1>1, <1>2, <2>2 DEF Passed, Earlier, Place
  <2>4. i # I
    BY <1>1, <1>2, <2>2 DEF Taking
  <2>5. /\ x = (IF Script[i].call = "COM_Recv" THEN Started(i) ELSE i) /\ Script[i].call # "COM_Send"
        /\ x = (IF Script[I].call = "COM_Recv" THEN Started(I) ELSE I) /\ Script[I].call # "COM_Send"
    BY <1>1, <1>3, <2>2 DEF x
  <2>6. Script[i].call = "COM_Recv" /\ Script[I].call = "COM_Recv"
    BY <1>1, <1>4, <2>4, <2>5
  <2>7. Started(i) = x /\ Started(I) = x /\ x \in 1 .. i - 1 /\ Script[i].tag = Script[I].tag
    <3>1. Started(i) = x /\ Started(I) = x
      BY <2>5, <2>6
    <3>2. Started(i) \in 1 .. i - 1 /\ Script[Started(i)].tag = Script[i].tag
      BY <1>4, <2>6
    <3>3. Script[Started(I)].tag = Script[I].tag
      BY <1>1, <1>4, <2>6
    <3> QED
      BY <3>1, <3>2, <3>3
  <2>8. i \in x + 1 .. I - 1
    BY <1>1, <1>2, <2>3, <2>4, <2>7
  <2> QED
    BY <1>1, <1>4, <2>6, <2>7, <2>8
<1> QED
  BY <1>5, <1>6 DEF x

-----------------------------------------------------------------------------
(* What a collective operation brings is what the others have given to it. *)
Letter(q, i) == [from |-> q, slot |-> Data(i), msg |-> Data(i)]

LEMMA Brought ==
    ASSUME IInv, NEW r \in Ranks, Leave(r), Now(r).part = "Alltoallv"
    PROVE  /\ Now(r).op \in Ops /\ Now(r).op = ip[r].op
           /\ landed' = [landed EXCEPT ![r] = landed[r] \cup {Letter(q, Now(r).op) : q \in From(Now(r).op, r)}]
           /\ \A q \in From(Now(r).op, r) : Now(r).op \in given[q]
<1> DEFINE I == ip[r].op
           K == ip[r].step
           n == Len(called[r])
<1>1. Frame /\ Typed /\ CollectivesAgree /\ \A q \in Ranks : Collected(q) /\ Handed(q)
  BY DEF IInv, Ranked
<1>2. r \in inside
  BY DEF Leave
<1>3. At(r, "collective") /\ n \in DOMAIN called[r] /\ called[r][n] = Entry(r, I, K)
  BY <1>1, <1>2, LastCalled
<1>4. /\ I \in Ops /\ K \in DOMAIN code[r][I] /\ Now(r) = code[r][I][K] /\ Now(r).do = "collective"
  BY <1>1, <1>3, Here DEF At
<1>5. Now(r).op = I
  BY <1>1, <1>4, Codes DEF Shaped, Plain
<1>6. ASSUME NEW q \in From(I, r) PROVE q \in Ranks /\ called[q][n].op = I /\ I \in given[q]
  <2>1. q \in Ranks
    BY DEF From
  <2>2. Len(called[q]) >= n
    BY <1>5, <1>6, <2>1 DEF Leave
  <2>3. called[q] \in Seq(Operations) /\ called[r] \in Seq(Operations)
    BY <1>1, <2>1 DEF Typed
  <2>4. n \in DOMAIN called[q]
    BY <1>3, <2>2, <2>3
  <2>5. called[q][n] = Entry(r, I, K)
    BY <1>1, <1>3, <2>1, <2>4 DEF CollectivesAgree
  <2> HIDE DEF I, K, n
  <2>6. called[q][n].op = I /\ called[q][n].step = K
    BY <2>5 DEF Entry
  <2>7. Reached(q, I, K) /\ Collects(q, I, K)
    BY <1>1, <2>1, <2>4, <2>6, Entries
  <2>8. code[q][I] = code[r][I]
    BY <1>1, <1>4, <2>1, Codes
  <2>9. Sharing(q, I, K)
    BY <1>4, <2>7, <2>8 DEF Sharing
  <2>10. I \in given[q]
    BY <1>1, <1>4, <2>1, <2>7, <2>8, <2>9 DEF Handed
  <2> QED
    BY <2>1, <2>6, <2>10
<1>7. landed' = [landed EXCEPT ![r] = landed[r] \cup
        {[from |-> q, slot |-> [op |-> I, part |-> "data"],
          msg |-> [op |-> called[q][n].op, part |-> "data"]] : q \in From(I, r)}]
  BY <1>5 DEF Leave
<1>8. {[from |-> q, slot |-> [op |-> I, part |-> "data"],
        msg |-> [op |-> called[q][n].op, part |-> "data"]] : q \in From(I, r)}
      = {Letter(q, I) : q \in From(I, r)}
  <2> HIDE DEF I, n
  <2>1. \A q \in From(I, r) :
          [from |-> q, slot |-> [op |-> I, part |-> "data"],
           msg |-> [op |-> called[q][n].op, part |-> "data"]] = Letter(q, I)
    BY <1>6 DEF Letter, Data
  <2> QED
    BY <2>1
<1> QED
  BY <1>4, <1>5, <1>6, <1>7, <1>8

(* What the data do in a step of a rank. *)
Brings(r) == IF r \in inside /\ Now(r).part = "Alltoallv"
             THEN {Letter(q, Now(r).op) : q \in From(Now(r).op, r)} ELSE {}
Takes(r) == IF At(r, "unpack") THEN {l \in landed[r] : l.slot.op = Now(r).op} ELSE {}

LEMMA DataStep ==
    ASSUME IInv, NEW r \in Ranks, Step(r)
    PROVE  /\ landed' = [landed EXCEPT ![r] = (landed[r] \cup Brings(r)) \ Takes(r)]
           /\ given' = [given EXCEPT ![r] = given[r] \cup
                (IF (Now(r).do \in Sending /\ Now(r).part = "data") \/ (Enter(r) /\ Now(r).part = "Alltoallv")
                 THEN {Now(r).op} ELSE {})]
           /\ ~ At(r, "unpack") => result' = result
<1>1. Frame /\ Typed /\ Collected(r)
  BY DEF IInv, Ranked
<1>2. r \in inside => At(r, "collective")
  BY <1>1 DEF Collected
<1>3. landed \in [Ranks -> SUBSET [from : Ranks, slot : Slots, msg : Slots]] /\ given \in [Ranks -> SUBSET Ops]
  BY <1>1 DEF Typed
<1>4. /\ landed = [landed EXCEPT ![r] = (landed[r] \cup {}) \ {}]
      /\ given = [given EXCEPT ![r] = given[r] \cup {}]
  BY <1>3
<1>5. CASE Enter(r)
  <2>1. /\ At(r, "collective") /\ r \notin inside /\ landed' = landed /\ result' = result
        /\ given' = IF Now(r).part = "Alltoallv" THEN [given EXCEPT ![r] = given[r] \cup {Now(r).op}] ELSE given
    BY <1>5 DEF Enter, Hand
  <2>2. Brings(r) = {} /\ Takes(r) = {} /\ Now(r).do \notin Sending
    BY <2>1 DEF Brings, Takes, At, Sending
  <2>3. CASE Now(r).part = "Alltoallv"
    BY <1>4, <1>5, <2>1, <2>2, <2>3
  <2>4. CASE Now(r).part # "Alltoallv"
    BY <1>4, <1>5, <2>1, <2>2, <2>4
  <2> QED
    BY <2>3, <2>4
<1>6. CASE Leave(r)
  <2>1. r \in inside /\ At(r, "collective") /\ given' = given /\ result' = result /\ ~ Enter(r)
    BY <1>2, <1>6 DEF Leave, Enter
  <2>2. Takes(r) = {} /\ Now(r).do \notin Sending
    BY <2>1 DEF Takes, At, Sending
  <2>3. landed' = [landed EXCEPT ![r] = landed[r] \cup Brings(r)]
    <3>1. CASE Now(r).part = "Alltoallv"
      BY <1>6, <2>1, <3>1, Brought DEF Brings
    <3>2. CASE Now(r).part # "Alltoallv"
      BY <1>6, <2>1, <3>2 DEF Brings, Leave
    <3> QED
      BY <3>1, <3>2
  <2> QED
    BY <1>4, <2>1, <2>2, <2>3
<1>7. CASE Rsend(r)
  <2>1. /\ At(r, "rsend") /\ landed' = landed /\ result' = result
        /\ given' = IF Now(r).part = "data" THEN [given EXCEPT ![r] = given[r] \cup {Now(r).op}] ELSE given
    BY <1>7 DEF Rsend, Hand
  <2>2. Brings(r) = {} /\ Takes(r) = {} /\ Now(r).do \in Sending /\ ~ Enter(r)
    BY <1>2, <2>1 DEF Brings, Takes, At, Sending, Enter
  <2>3. CASE Now(r).part = "data"
    BY <1>4, <2>1, <2>2, <2>3
  <2>4. CASE Now(r).part # "data"
    BY <1>4, <2>1, <2>2, <2>4
  <2> QED
    BY <2>1, <2>3, <2>4 DEF At
<1>8. CASE Start(r)
  <2>1. /\ At(r, "start") /\ landed' = landed /\ result' = result
        /\ given' = [given EXCEPT ![r] = given[r] \cup {Now(r).op}]
    BY <1>8 DEF Start, Hand
  <2>2. Brings(r) = {} /\ Takes(r) = {} /\ Now(r).do \in Sending
    BY <1>2, <2>1 DEF Brings, Takes, At, Sending
  <2>3. Now(r).part = "data"
    BY <1>1, <2>1, Here, Codes DEF Shaped, Plain, At
  <2> QED
    BY <1>4, <2>1, <2>2, <2>3 DEF At
<1>9. CASE Unpack(r)
  <2>1. /\ At(r, "unpack") /\ landed' = [landed EXCEPT ![r] = {l \in landed[r] : l.slot.op # Now(r).op}]
        /\ given' = given
    BY <1>9 DEF Unpack
  <2>2. Brings(r) = {} /\ Now(r).do \notin Sending /\ ~ Enter(r)
    BY <1>2, <2>1 DEF Brings, At, Sending, Enter
  <2>3. {l \in landed[r] : l.slot.op # Now(r).op} = (landed[r] \cup {}) \ Takes(r)
    BY <2>1 DEF Takes
  <2> QED
    BY <1>4, <2>1, <2>2, <2>3
<1>10. CASE Post(r) \/ WaitSend(r) \/ Wait(r)
  <2>1. /\ At(r, "post") \/ At(r, "waitsend") \/ At(r, "wait")
        /\ landed' = landed /\ result' = result /\ given' = given
    BY <1>10 DEF Post, WaitSend, Wait
  <2>2. Brings(r) = {} /\ Takes(r) = {} /\ Now(r).do \notin Sending /\ ~ Enter(r)
    BY <1>2, <2>1 DEF Brings, Takes, At, Sending, Enter
  <2> QED
    BY <1>4, <2>1, <2>2
<1> QED
  BY <1>5, <1>6, <1>7, <1>8, <1>9, <1>10 DEF Step

(* What a rank takes out is what there was for it. *)
LEMMA UnpackReturns ==
    ASSUME IInv, NEW r \in Ranks, At(r, "unpack")
    PROVE  /\ Now(r).op \in Ops
           /\ \A n \in DOMAIN result[r] : result[r][n].x # Now(r).op
           /\ \A q \in From(Now(r).op, r) : Now(r).op \in given[q] /\ Has(r, q, Now(r).op)
           /\ Unpack(r) => result' = [result EXCEPT ![r] = Append(result[r], Return(Now(r).op, r))]
<1> DEFINE I == ip[r].op
           K == ip[r].step
           x == Now(r).op
           mine == {l \in landed[r] : l.slot = Data(x)}
           Of(q) == CHOOSE l \in mine : l.from = q
<1>1. Frame /\ Typed /\ Landed(r) /\ Kept(r) /\ Waited(r) /\ Returned(r)
  BY DEF IInv, Ranked
<1>2. x \in Ops /\ ~ Unpacked(r, x)
  BY <1>1, TakenOnce
<1>3. /\ I \in Ops /\ K \in DOMAIN code[r][I] /\ Now(r) = code[r][I][K] /\ code[r][I][K].do = "unpack"
      /\ ip[r] = Place(I, K)
  BY <1>1, Here DEF At
<1>4. PICK j \in DOMAIN code[r][I] :
        /\ j < K /\ code[r][I][j].op = x
        /\ \/ code[r][I][j].do = "wait" /\ code[r][I][j].part = "data"
           \/ code[r][I][j].do = "collective" /\ code[r][I][j].part = "Alltoallv"
  <2>1. Taking(code[r][I], I)
    BY <1>1, <1>3, Codes DEF Shaped
  <2> QED
    BY <1>3, <2>1 DEF Taking
<1>5. Passed(r, I, j)
  BY <1>3, <1>4 DEF Passed, Earlier, Place
<1> HIDE DEF I, K, x
<1>6. ASSUME NEW q \in From(x, r) PROVE q \in Ranks /\ Has(r, q, x)
  <2>1. q \in Ranks /\ r \in Sends(x, q)
    BY DEF From
  <2>2. CASE code[r][I][j].do = "wait" /\ code[r][I][j].part = "data"
    <3> DEFINE t == TagOf(x)
    <3>1. Data(x) \in Slots /\ Did(r, Posting, Data(x))
      BY <1>1, <1>3, <1>4, <1>5, <2>2, WaitedFor DEF Data
    <3>2. t \in Tags
      BY <1>2 DEF Tags, TagOf
    <3>3. Data(x) \notin In(posted[r][q][t])
      BY <1>1, <1>3, <1>4, <1>5, <2>1, <2>2, <3>2 DEF Waited, Data
    <3>4. Data(x).op = x /\ Data(x).part = "data"
      BY DEF Data
    <3>5. Data(x) \in PostedFor(r, q, t)
      BY <2>1, <3>1, <3>4 DEF PostedFor
    <3> QED
      BY <1>1, <1>2, <2>1, <3>2, <3>3, <3>4, <3>5 DEF Kept
  <2>3. CASE code[r][I][j].do = "collective" /\ code[r][I][j].part = "Alltoallv"
    <3>1. code[r][I][j].op = I
      BY <1>1, <1>3, <1>4, <2>3, Codes DEF Shaped, Plain
    <3>2. x = I
      BY <1>4, <3>1
    <3>3. Sharing(r, I, j)
      BY <2>3 DEF Sharing, Collects
    <3> QED
      BY <1>1, <1>2, <1>3, <1>4, <1>5, <2>1, <3>2, <3>3 DEF Kept
  <2> QED
    BY <1>4, <2>1, <2>2, <2>3
<1>7. \A l \in mine : l.from \in Ranks /\ l.from \in From(x, r) /\ x \in given[l.from] /\ l.msg.op = x
  <2>1. TAKE l \in mine
  <2>2. l \in landed[r] /\ l.slot.op = x /\ l.slot.part = "data" /\ l.from \in Ranks
    BY <1>1 DEF Typed, Data
  <2>3. l.slot = l.msg /\ r \in Sends(x, l.from) /\ x \in given[l.from]
    BY <1>1, <2>2 DEF Landed
  <2>4. l.from \in From(x, r)
    BY <2>2, <2>3 DEF From
  <2> QED
    BY <2>2, <2>3, <2>4
<1>8. \A q \in From(x, r) : Of(q) \in mine /\ Of(q).from = q
  <2>1. TAKE q \in From(x, r)
  <2>2. \E l \in mine : l.from = q
    BY <1>6 DEF Has
  <2> QED
    BY <2>2
<1>9. {l.from : l \in mine} = From(x, r)
  <2>1. \A q \in From(x, r) : \E l \in mine : l.from = q
    BY <1>6 DEF Has
  <2> HIDE DEF mine
  <2> QED
    BY <1>7, <2>1
<1>10. \A q \in From(x, r) : x \in given[q]
  <2> HIDE DEF mine, Of
  <2> QED
    BY <1>7, <1>8
<1>11. [q \in {l.from : l \in mine} |-> items[Of(q).msg.op][q][r]] = [q \in From(x, r) |-> items[x][q][r]]
  <2>1. \A q \in From(x, r) : Of(q).msg.op = x
    <3> HIDE DEF mine, Of
    <3> QED
      BY <1>7, <1>8
  <2> HIDE DEF mine, Of
  <2> QED
    BY <1>9, <2>1
<1>12. \A n \in DOMAIN result[r] : result[r][n].x # x
  BY <1>1, <1>2 DEF Returned
<1>13. ASSUME Unpack(r) PROVE result' = [result EXCEPT ![r] = Append(result[r], Return(x, r))]
  <2>1. result' = [result EXCEPT ![r] = Append(result[r],
            [x |-> x, got |-> [q \in {l.from : l \in mine} |-> items[Of(q).msg.op][q][r]]])]
    BY <1>13 DEF Unpack, Data, x
  <2> QED
    BY <1>11, <2>1 DEF Return
<1> QED
  BY <1>2, <1>6, <1>10, <1>12, <1>13 DEF x

-----------------------------------------------------------------------------
LEMMA UnpackOnly ==
    ASSUME NEW r \in Ranks, Collected(r), Step(r), At(r, "unpack")
    PROVE  Unpack(r)
<1>1. ~ At(r, "collective") /\ ~ At(r, "post") /\ ~ At(r, "rsend") /\ ~ At(r, "start")
      /\ ~ At(r, "waitsend") /\ ~ At(r, "wait")
  BY DEF At
<1>2. r \notin inside
  BY <1>1 DEF Collected
<1> QED
  BY <1>1, <1>2 DEF Step, Enter, Leave, Post, Rsend, Start, WaitSend, Wait

(* A step keeps what is known of the data. *)
LEMMA HandedStep ==
    ASSUME IInv, NEW r \in Ranks, Step(r)
    PROVE  \A p \in Ranks : Handed(p)' /\ given[p] \subseteq given'[p]
<1>1. Frame /\ Typed /\ \A q \in Ranks : Collected(q) /\ Handed(q)
  BY DEF IInv, Ranked
<1>2. SUFFICES ASSUME NEW p \in Ranks PROVE Handed(p)' /\ given[p] \subseteq given'[p]
  OBVIOUS
<1> DEFINE hands == (Now(r).do \in Sending /\ Now(r).part = "data") \/ (Enter(r) /\ Now(r).part = "Alltoallv")
<1>3. given' = [given EXCEPT ![r] = given[r] \cup (IF hands THEN {Now(r).op} ELSE {})]
  BY DataStep
<1> HIDE DEF hands
<1>4. /\ given[p] \subseteq given'[p]
      /\ hands => Now(r).op \in given'[r]
  BY <1>1, <1>3 DEF Typed
<1>5. UNCHANGED fixed /\ ~ Ended(r)
  <2>1. CASE Enter(r)
    BY <1>1, <2>1, EnterEffect
  <2>2. CASE ~ Enter(r)
    BY <1>1, <2>2, StepMoves DEF Moves
  <2> QED
    BY <2>1, <2>2
<1>6. code' = code /\ Ops' = Ops
  BY <1>5, Fixed DEF fixed
<1>7. ASSUME NEW i \in Ops, Did(p, Sending, Data(i))' PROVE i \in given'[p]
  <2>1. CASE Enter(r)
    <3>1. \A k : Passed(p, i, k)' = Passed(p, i, k)
      BY <1>1, <2>1, EnterEffect
    <3>2. Data(i).op = i
      BY DEF Data
    <3>3. Did(p, Sending, Data(i))
      BY <1>6, <1>7, <3>1, <3>2 DEF Did
    <3> QED
      BY <1>1, <1>4, <3>3 DEF Handed
  <2>2. CASE ~ Enter(r)
    <3>1. Moves(r)
      BY <1>1, <2>2, StepMoves
    <3>2. Data(i) \in Slots
      BY DEF Data, Slots, Parts
    <3>3. Did(p, Sending, Data(i)) \/ (p = r /\ Now(r).do \in Sending /\ Data(i) = NowSlot(r))
      BY <1>1, <1>7, <3>1, <3>2, DidNow DEF Moves
    <3>4. CASE Did(p, Sending, Data(i))
      BY <1>1, <1>4, <3>4 DEF Handed
    <3>5. CASE p = r /\ Now(r).do \in Sending /\ Data(i) = NowSlot(r)
      <4>1. Now(r).part = "data" /\ Now(r).op = i
        BY <3>5 DEF Data, NowSlot
      <4> QED
        BY <1>4, <3>5, <4>1 DEF hands
    <3> QED
      BY <3>3, <3>4, <3>5
  <2> QED
    BY <2>1, <2>2
<1>8. ASSUME NEW i \in Ops, NEW k \in DOMAIN code[p][i], Sharing(p, i, k), Reached(p, i, k)'
      PROVE  i \in given'[p]
  <2>1. Collects(p, i, k)
    BY <1>8 DEF Sharing
  <2>2. CASE Reached(p, i, k)
    BY <1>1, <1>4, <1>8, <2>2 DEF Handed
  <2>3. CASE Enter(r) /\ p = r /\ Place(i, k) = ip[r]
    <3>1. i = ip[r].op /\ k = ip[r].step
      BY <2>3 DEF Place
    <3>2. Now(r) = code[r][i][k]
      BY <1>1, <1>5, <3>1, Here
    <3>3. Now(r).part = "Alltoallv" /\ Now(r).op = i
      BY <1>1, <1>8, <2>3, <3>2, Codes DEF Shaped, Plain, Sharing, Collects
    <3> QED
      BY <1>4, <2>3, <3>3 DEF hands
  <2>4. Reached(p, i, k) \/ (Enter(r) /\ p = r /\ Place(i, k) = ip[r])
    <3>1. CASE Enter(r)
      BY <1>1, <1>8, <3>1, EnterEffect
    <3>2. CASE ~ Enter(r)
      BY <1>1, <1>8, <2>1, <3>2, ReachedMove
    <3> QED
      BY <3>1, <3>2
  <2> QED
    BY <2>2, <2>3, <2>4
<1>9. \A i : Data(i)' = Data(i)
  BY DEF Data
<1>10. \A i, k : Sharing(p, i, k)' = Sharing(p, i, k)
  BY <1>6 DEF Sharing, Collects
<1>11. Handed(p)'
  <2>1. \A i \in Ops : Did(p, Sending, Data(i))' => i \in given'[p]
    BY <1>7
  <2>2. \A i \in Ops : \A k \in DOMAIN code[p][i] : Sharing(p, i, k) /\ Reached(p, i, k)' => i \in given'[p]
    BY <1>8
  <2> QED
    BY <1>6, <1>10, <2>1, <2>2 DEF Handed
<1> QED
  BY <1>4, <1>11

LEMMA LandedStep ==
    ASSUME IInv, NEW r \in Ranks, Step(r)
    PROVE  \A p \in Ranks : Landed(p)'
<1>1. Frame /\ Typed /\ \A q \in Ranks : Collected(q) /\ Landed(q)
  BY DEF IInv, Ranked
<1>2. landed' = [landed EXCEPT ![r] = (landed[r] \cup Brings(r)) \ Takes(r)]
  BY DataStep
<1>3. UNCHANGED fixed
  <2>1. CASE Enter(r)
    BY <1>1, <2>1, EnterEffect
  <2>2. CASE ~ Enter(r)
    BY <1>1, <2>2, StepMoves DEF Moves
  <2> QED
    BY <2>1, <2>2
<1>4. \A i, q : Sends(i, q)' = Sends(i, q)
  BY <1>3, Fixed
<1>5. \A q \in Ranks : given[q] \subseteq given'[q]
  BY HandedStep
<1>6. SUFFICES ASSUME NEW p \in Ranks, NEW l \in landed'[p]
               PROVE  /\ l.slot = l.msg /\ p \in Sends(l.slot.op, l.from)
                      /\ l.slot.part = "data" => l.slot.op \in given'[l.from]
  BY <1>4 DEF Landed
<1>7. l \in landed[p] \/ (p = r /\ l \in Brings(r))
  BY <1>1, <1>2, <1>6 DEF Typed
<1>8. CASE l \in landed[p]
  <2>1. l.from \in Ranks
    BY <1>1, <1>8 DEF Typed
  <2>2. /\ l.slot = l.msg /\ p \in Sends(l.slot.op, l.from)
        /\ l.slot.part = "data" => l.slot.op \in given[l.from]
    BY <1>1, <1>8 DEF Landed
  <2> QED
    BY <1>5, <2>1, <2>2
<1>9. CASE p = r /\ l \in Brings(r)
  <2>1. r \in inside /\ Now(r).part = "Alltoallv"
    BY <1>9 DEF Brings
  <2>2. PICK q \in From(Now(r).op, r) : l = Letter(q, Now(r).op)
    BY <1>9, <2>1 DEF Brings
  <2>3. Leave(r)
    <3>1. CASE Enter(r)
      BY <2>1, <3>1 DEF Enter
    <3>2. CASE ~ Enter(r)
      BY <1>1, <2>1, <3>2, ReachedMove
    <3> QED
      BY <3>1, <3>2
  <2>4. Now(r).op \in given[q]
    BY <2>1, <2>3, Brought
  <2>5. q \in Ranks /\ r \in Sends(Now(r).op, q)
    BY DEF From
  <2>6. l.from = q /\ l.slot = l.msg /\ l.slot.op = Now(r).op
    BY <2>2 DEF Letter, Data
  <2> QED
    BY <1>5, <1>9, <2>4, <2>5, <2>6
<1> QED
  BY <1>7, <1>8, <1>9

LEMMA ReturnedStep ==
    ASSUME IInv, NEW r \in Ranks, Step(r)
    PROVE  \A p \in Ranks : Returned(p)' /\ \A x : Unpacked(p, x) => Unpacked(p, x)'
<1>1. Frame /\ Typed /\ \A q \in Ranks : Collected(q) /\ Returned(q)
  BY DEF IInv, Ranked
<1>2. SUFFICES ASSUME NEW p \in Ranks PROVE Returned(p)' /\ \A x : Unpacked(p, x) => Unpacked(p, x)'
  OBVIOUS
<1>3. CASE Enter(r)
  <2>1. UNCHANGED fixed /\ \A i, k : Passed(p, i, k)' = Passed(p, i, k)
    BY <1>1, <1>3, EnterEffect
  <2>2. code' = code /\ Ops' = Ops
    BY <2>1, Fixed DEF fixed
  <2>3. \A x : Unpacked(p, x)' <=> Unpacked(p, x)
    BY <2>1, <2>2 DEF Unpacked
  <2>4. result' = result
    BY <1>3 DEF Enter
  <2> QED
    BY <1>1, <2>2, <2>3, <2>4 DEF Returned
<1>4. CASE ~ Enter(r)
  <2>1. UNCHANGED fixed /\ ~ Ended(r) /\ Proceed(r)
    BY <1>1, <1>4, StepMoves DEF Moves
  <2>2. \A x : Unpacked(p, x)' <=> Unpacked(p, x) \/ (p = r /\ Now(r).do = "unpack" /\ Now(r).op = x)
    BY <1>1, <2>1, UnpackedNow
  <2>3. CASE ~ At(r, "unpack") \/ p # r
    <3>1. result'[p] = result[p]
      <4>1. CASE ~ At(r, "unpack")
        BY <4>1, DataStep
      <4>2. CASE p # r /\ At(r, "unpack")
        <5>1. Unpack(r)
          BY <1>1, <4>2, UnpackOnly
        <5> QED
          BY <1>1, <4>2, <5>1, UnpackReturns DEF Typed
      <4> QED
        BY <2>3, <4>1, <4>2
    <3> QED
      BY <1>1, <2>1, <2>2, <3>1, Fixed DEF Returned
  <2>4. CASE At(r, "unpack") /\ p = r
    <3>1. Unpack(r)
      BY <1>1, <2>4, UnpackOnly
    <3>2. /\ result' = [result EXCEPT ![r] = Append(result[r], Return(Now(r).op, r))]
          /\ result \in [Ranks -> Seq(Returns)] /\ Now(r).op \in Ops
      BY <1>1, <2>4, <3>1, UnpackReturns DEF Typed
    <3>3. Return(Now(r).op, r).x = Now(r).op
      BY DEF Return
    <3>4. result'[r] = Append(result[r], Return(Now(r).op, r)) /\ result[r] \in Seq(Returns)
      BY <3>2
    <3>5. Return(Now(r).op, r) \in Returns
      BY <3>2 DEF Returns
    <3>6. \A n \in DOMAIN result'[r] : (n \in DOMAIN result[r] /\ result'[r][n] = result[r][n])
                                       \/ result'[r][n] = Return(Now(r).op, r)
      <4> HIDE DEF Return
      <4> QED
        BY <3>4, <3>5
    <3>7. Now(r).do = "unpack"
      BY <2>4 DEF At
    <3>8. ASSUME NEW x \in Ops, NEW n \in DOMAIN result'[r], result'[r][n].x = x PROVE Unpacked(r, x)'
      <4>1. CASE n \in DOMAIN result[r] /\ result'[r][n] = result[r][n]
        BY <1>1, <2>2, <2>4, <3>8, <4>1 DEF Returned
      <4>2. CASE result'[r][n] = Return(Now(r).op, r)
        BY <2>2, <2>4, <3>3, <3>7, <3>8, <4>2
      <4> QED
        BY <3>6, <4>1, <4>2
    <3>9. Ops' = Ops
      BY <2>1, Fixed
    <3> QED
      BY <2>2, <2>4, <3>8, <3>9 DEF Returned
  <2> QED
    BY <2>3, <2>4
<1> QED
  BY <1>3, <1>4

LEMMA AwaitedIn ==
    ASSUME Frame, Typed, NEW r \in Ranks, Moves(r), NEW q \in Ranks, NEW p \in Ranks, NEW t \in Tags
    PROVE  In(posted'[p][q][t]) = In(posted[p][q][t]) \cup
                (IF p = r /\ Now(r).do \in Posting /\ q \in From(Now(r).op, r) /\ t = TagOf(Now(r).op)
                 THEN {NowSlot(r)} ELSE {})
<1> DEFINE posts == p = r /\ Now(r).do \in Posting /\ q \in From(Now(r).op, r) /\ t = TagOf(Now(r).op)
<1>1. posted'[p][q][t] = IF posts THEN Append(posted[p][q][t], NowSlot(r)) ELSE posted[p][q][t]
  BY DEF Moves, Awaited
<1>2. posted[p][q][t] \in Seq(Slots)
  BY DEF Typed
<1>3. posts => NowSlot(r) \in Slots
  BY NowLast DEF Moves
<1> HIDE DEF posts
<1>4. CASE posts
  <2>1. In(Append(posted[p][q][t], NowSlot(r))) = In(posted[p][q][t]) \cup {NowSlot(r)}
    BY <1>2, <1>3, <1>4, Appended
  <2> QED
    BY <1>1, <1>4, <2>1 DEF posts
<1>5. CASE ~ posts
  <2>1. posted'[p][q][t] = posted[p][q][t]
    BY <1>1, <1>5
  <2> QED
    BY <1>5, <2>1 DEF posts
<1> QED
  BY <1>4, <1>5

LEMMA WaitedStep ==
    ASSUME IInv, NEW r \in Ranks, Step(r)
    PROVE  \A p \in Ranks : Waited(p)'
<1>1. Frame /\ Typed /\ \A q \in Ranks : Collected(q) /\ Waited(q)
  BY DEF IInv, Ranked
<1> DEFINE Slot(p, i, k) == [op |-> code[p][i][k].op, part |-> code[p][i][k].part]
<1>2. CASE Enter(r)
  <2>1. UNCHANGED fixed /\ posted' = posted /\ \A p \in Ranks : \A i, k : Passed(p, i, k)' = Passed(p, i, k)
    BY <1>1, <1>2, EnterEffect DEF Enter
  <2>2. code' = code /\ Ops' = Ops /\ Tags' = Tags
    BY <2>1, Fixed DEF fixed
  <2> QED
    BY <1>1, <2>1, <2>2 DEF Waited, In
<1>3. CASE ~ Enter(r)
  <2>1. Moves(r) /\ UNCHANGED fixed /\ ~ Ended(r) /\ Proceed(r)
    BY <1>1, <1>3, StepMoves DEF Moves
  <2>2. code' = code /\ Ops' = Ops /\ Tags' = Tags
    BY <2>1, Fixed DEF fixed
  <2>3. ASSUME NEW p \in Ranks, NEW i \in Ops, NEW k \in DOMAIN code[p][i], code[p][i][k].do = "wait",
               Passed(p, i, k)', NEW q \in Ranks, NEW t \in Tags
        PROVE  Slot(p, i, k) \notin In(posted'[p][q][t])
    <3>1. Passed(p, i, k) \/ (p = r /\ Place(i, k) = ip[r])
      BY <1>1, <2>1, <2>3, GoesOn
    <3>2. Slot(p, i, k) \in Slots /\ Did(p, Posting, Slot(p, i, k))
      BY <1>1, <2>3, <3>1, WaitedFor
    <3>3. Slot(p, i, k) \notin In(posted[p][q][t])
      <4>1. CASE Passed(p, i, k)
        BY <1>1, <2>3, <4>1 DEF Waited
      <4>2. CASE p = r /\ Place(i, k) = ip[r]
        <5>1. i = ip[r].op /\ k = ip[r].step
          BY <4>2 DEF Place
        <5>2. Now(r) = code[r][i][k] /\ Now(r).do = "wait"
          BY <1>1, <2>1, <2>3, <4>2, <5>1, Here
        <5>3. Wait(r)
          <6>1. ~ At(r, "collective") /\ ~ At(r, "post") /\ ~ At(r, "rsend") /\ ~ At(r, "start")
                /\ ~ At(r, "waitsend") /\ ~ At(r, "unpack")
            BY <5>2 DEF At
          <6>2. r \notin inside
            BY <1>1, <6>1 DEF Collected
          <6> QED
            BY <1>3, <6>1, <6>2 DEF Step, Leave, Post, Rsend, Start, WaitSend, Unpack
        <5>4. \A n \in DOMAIN posted[r][q][t] : posted[r][q][t][n] # [op |-> Now(r).op, part |-> Now(r).part]
          BY <5>3 DEF Wait
        <5> QED
          BY <4>2, <5>2, <5>4 DEF In
      <4> QED
        BY <3>1, <4>1, <4>2
    <3>4. Now(r).do \in Posting => ~ Did(r, Posting, NowSlot(r))
      BY <1>1, <2>1, NowLast
    <3>5. In(posted'[p][q][t]) \subseteq In(posted[p][q][t]) \cup
            (IF p = r /\ Now(r).do \in Posting THEN {NowSlot(r)} ELSE {})
      BY <1>1, <2>1, AwaitedIn
    <3> HIDE DEF Slot
    <3> QED
      BY <3>2, <3>3, <3>4, <3>5
  <2> QED
    BY <2>2, <2>3 DEF Waited, In
<1> QED
  BY <1>2, <1>3

LEMMA KeptStep ==
    ASSUME IInv, NEW r \in Ranks, Step(r)
    PROVE  \A p \in Ranks : Kept(p)'
<1>1. Frame /\ Typed /\ \A q \in Ranks : Collected(q) /\ Kept(q)
  BY DEF IInv, Ranked
<1>2. SUFFICES ASSUME NEW p \in Ranks PROVE Kept(p)'
  OBVIOUS
<1>3. landed' = [landed EXCEPT ![r] = (landed[r] \cup Brings(r)) \ Takes(r)]
  BY DataStep
<1>4. \A x : Unpacked(p, x) => Unpacked(p, x)'
  BY ReturnedStep
<1>5. UNCHANGED fixed /\ ~ Ended(r)
  <2>1. CASE Enter(r)
    BY <1>1, <2>1, EnterEffect
  <2>2. CASE ~ Enter(r)
    BY <1>1, <2>2, StepMoves DEF Moves
  <2> QED
    BY <2>1, <2>2
<1>6. /\ code' = code /\ Ops' = Ops /\ Tags' = Tags /\ Slots' = Slots
      /\ \A i, q : From(i, q)' = From(i, q) /\ Sends(i, q)' = Sends(i, q)
      /\ \A i : TagOf(i)' = TagOf(i)
  BY <1>5, Fixed DEF fixed
<1>7. ASSUME NEW q \in Ranks, NEW x, Has(p, q, x), ~ Unpacked(p, x)'
      PROVE  \E l \in landed'[p] : l.from = q /\ l.slot = Data(x)
  <2>1. PICK l \in landed[p] : l.from = q /\ l.slot = Data(x)
    BY <1>7 DEF Has
  <2>2. CASE p # r
    BY <1>1, <1>3, <2>1, <2>2 DEF Typed
  <2>3. CASE p = r
    <3>1. l \notin Takes(r)
      <4>1. SUFFICES ASSUME At(r, "unpack"), Now(r).op = x PROVE FALSE
        BY <2>1 DEF Takes, Data
      <4>2. Unpack(r)
        BY <1>1, <4>1, UnpackOnly
      <4>3. Proceed(r)
        BY <4>2 DEF Unpack
      <4> QED
        BY <1>1, <1>5, <1>7, <2>3, <4>1, <4>3, UnpackedNow DEF At
    <3> QED
      BY <1>1, <1>3, <2>1, <2>3, <3>1 DEF Typed
  <2> QED
    BY <2>2, <2>3
<1>8. ASSUME NEW q \in Ranks, NEW t \in Tags, NEW m \in PostedFor(p, q, t)', m \notin In(posted'[p][q][t])
      PROVE  m \in PostedFor(p, q, t) \ In(posted[p][q][t])
  <2>1. CASE Enter(r)
    <3>1. posted' = posted /\ \A i, k : Passed(p, i, k)' = Passed(p, i, k)
      BY <1>1, <2>1, EnterEffect DEF Enter
    <3>2. \A n : Did(p, Posting, n)' <=> Did(p, Posting, n)
      BY <1>6, <3>1 DEF Did
    <3>3. PostedFor(p, q, t)' = PostedFor(p, q, t)
      BY <1>6, <3>2 DEF PostedFor
    <3> QED
      BY <1>8, <3>1, <3>3
  <2>2. CASE ~ Enter(r)
    <3>1. Moves(r)
      BY <1>1, <2>2, StepMoves
    <3> DEFINE more == IF p = r /\ Now(r).do \in Posting /\ q \in From(Now(r).op, r) /\ t = TagOf(Now(r).op)
                       THEN {NowSlot(r)} ELSE {}
    <3>2. PostedFor(p, q, t)' = PostedFor(p, q, t) \cup more
      BY <1>1, <3>1, SentNow
    <3>3. In(posted'[p][q][t]) = In(posted[p][q][t]) \cup more
      BY <1>1, <3>1, AwaitedIn
    <3> HIDE DEF more
    <3> QED
      BY <1>8, <3>2, <3>3
  <2> QED
    BY <2>1, <2>2
<1>9. ASSUME NEW q \in Ranks, NEW t \in Tags, NEW m \in PostedFor(p, q, t)', m \notin In(posted'[p][q][t]),
             m.part = "data", ~ Unpacked(p, m.op)'
      PROVE  \E l \in landed'[p] : l.from = q /\ l.slot = Data(m.op)
  <2>1. m \in PostedFor(p, q, t) \ In(posted[p][q][t])
    BY <1>8, <1>9
  <2>2. Has(p, q, m.op)
    BY <1>1, <1>4, <1>9, <2>1 DEF Kept
  <2> QED
    BY <1>7, <1>9, <2>2
<1>10. ASSUME NEW i \in Ops, NEW k \in DOMAIN code[p][i], Sharing(p, i, k), Passed(p, i, k)', ~ Unpacked(p, i)',
              NEW q \in From(i, p)
       PROVE  \E l \in landed'[p] : l.from = q /\ l.slot = Data(i)
  <2>1. q \in Ranks
    BY DEF From
  <2>2. CASE Passed(p, i, k)
    <3>1. Has(p, q, i)
      BY <1>1, <1>4, <1>10, <2>2 DEF Kept
    <3> QED
      BY <1>7, <1>10, <2>1, <3>1
  <2>3. CASE ~ Passed(p, i, k)
    <3>1. ~ Enter(r)
      BY <1>1, <1>10, <2>3, EnterEffect
    <3>2. Moves(r)
      BY <1>1, <3>1, StepMoves
    <3>3. p = r /\ Place(i, k) = ip[r]
      BY <1>1, <1>10, <2>3, <3>2, GoesOn DEF Moves
    <3>4. i = ip[r].op /\ k = ip[r].step
      BY <3>3 DEF Place
    <3>5. Now(r) = code[r][i][k]
      BY <1>1, <1>5, <3>4, Here
    <3>6. Now(r).do = "collective" /\ Now(r).part = "Alltoallv" /\ Now(r).op = i
      BY <1>1, <1>10, <3>3, <3>5, Codes DEF Shaped, Plain, Sharing, Collects
    <3>7. r \in inside
      BY <1>1, <3>1, <3>6, ReachedMove
    <3>8. Letter(q, i) \in Brings(r) /\ Takes(r) = {}
      BY <1>10, <3>3, <3>6, <3>7 DEF Brings, Takes, At
    <3>9. Letter(q, i) \in landed'[r]
      BY <1>1, <1>3, <3>8 DEF Typed
    <3>10. Letter(q, i).from = q /\ Letter(q, i).slot = Data(i)
      BY DEF Letter
    <3> QED
      BY <3>3, <3>9, <3>10
  <2> QED
    BY <2>2, <2>3
<1>11. \A q, x : Has(p, q, x)' <=> \E l \in landed'[p] : l.from = q /\ l.slot = Data(x)
  BY DEF Has, Data
<1>12. \A i, k : Sharing(p, i, k)' = Sharing(p, i, k)
  BY <1>6 DEF Sharing, Collects
<1>13. \A q \in Ranks : \A t \in Tags : \A m \in PostedFor(p, q, t)' \ In(posted'[p][q][t]) :
         m.part = "data" /\ ~ Unpacked(p, m.op)' => Has(p, q, m.op)'
  BY <1>9, <1>11
<1>14. \A i \in Ops : \A k \in DOMAIN code[p][i] :
         Sharing(p, i, k) /\ Passed(p, i, k)' /\ ~ Unpacked(p, i)' => \A q \in From(i, p) : Has(p, q, i)'
  BY <1>10, <1>11
<1> QED
  BY <1>6, <1>12, <1>13, <1>14 DEF Kept, In

-----------------------------------------------------------------------------
(* The arrival of a message keeps all of this. *)
LEMMA LandKeeps ==
    ASSUME IInv, NEW q \in Ranks, NEW r \in Ranks, NEW t \in Tags, Land(q, r, t)
    PROVE  \A p \in Ranks : Landed(p)' /\ Kept(p)' /\ Waited(p)' /\ Handed(p)' /\ Returned(p)'
<1>1. /\ Frame /\ Typed /\ Channels
      /\ \A p \in Ranks : Landed(p) /\ Kept(p) /\ Waited(p) /\ Handed(p) /\ Returned(p)
  BY DEF IInv, Ranked
<1> DEFINE m == Head(wire[q][r][t])
           l1 == [from |-> q, slot |-> m, msg |-> m]
<1>2. /\ wire[q][r][t] # <<>> /\ posted[r][q][t] # <<>> /\ UNCHANGED <<fixed, ip, inside, called, given, result>>
      /\ landed' = [landed EXCEPT ![r] = landed[r] \cup
            {[from |-> q, slot |-> Head(posted[r][q][t]), msg |-> Head(wire[q][r][t])]}]
  BY DEF Land
<1>3. Head(posted[r][q][t]) = m /\ m \in SentTo(q, r, t)
  BY <1>1, <1>2, HeadsMeet
<1>4. landed' = [landed EXCEPT ![r] = landed[r] \cup {l1}]
  BY <1>2, <1>3
<1> HIDE DEF m
<1>5. /\ \A x, p \in Ranks : \A u \in Tags :
            /\ PostedFor(p, x, u)' = PostedFor(p, x, u)
            /\ In(posted'[p][x][u]) = IF x = q /\ p = r /\ u = t
                 THEN In(posted[r][q][t]) \ {m} ELSE In(posted[p][x][u])
  BY <1>1, <1>3, ChannelsLand
<1>6. /\ code' = code /\ Ops' = Ops /\ Tags' = Tags /\ given' = given /\ result' = result
      /\ \A i, x : From(i, x)' = From(i, x) /\ Sends(i, x)' = Sends(i, x)
  BY <1>2, Fixed DEF fixed
<1>7. \A p, i, k : Passed(p, i, k)' = Passed(p, i, k) /\ Reached(p, i, k)' = Reached(p, i, k)
  BY <1>2 DEF Passed, Reached
<1>8. \A p, x : Unpacked(p, x)' <=> Unpacked(p, x)
  BY <1>6, <1>7 DEF Unpacked
<1>9. \A p, x : Did(p, Sending, x)' <=> Did(p, Sending, x)
  BY <1>6, <1>7 DEF Did
<1>10. \A p, i, k : Sharing(p, i, k)' = Sharing(p, i, k)
  BY <1>6 DEF Sharing, Collects
<1>11. /\ \A p \in Ranks : landed[p] \subseteq landed'[p]
       /\ \A p \in Ranks : \A l \in landed'[p] : l \in landed[p] \/ (p = r /\ l = l1)
       /\ l1 \in landed'[r]
  BY <1>1, <1>4 DEF Typed
<1>12. \A p, x, y : Has(p, x, y)' <=> \E l \in landed'[p] : l.from = x /\ l.slot = Data(y)
  BY DEF Has, Data
<1>13. \A p \in Ranks : Handed(p)'
  BY <1>1, <1>6, <1>7, <1>9, <1>10 DEF Handed, Data
<1>14. \A p \in Ranks : Returned(p)'
  BY <1>1, <1>6, <1>8 DEF Returned
<1>15. \A p \in Ranks : Waited(p)'
  <2>1. \A x, p \in Ranks : \A u \in Tags : In(posted'[p][x][u]) \subseteq In(posted[p][x][u])
    BY <1>5
  <2>2. ASSUME NEW p \in Ranks, NEW i \in Ops, NEW k \in DOMAIN code[p][i], code[p][i][k].do = "wait",
               Passed(p, i, k), NEW x \in Ranks, NEW u \in Tags
        PROVE  [op |-> code[p][i][k].op, part |-> code[p][i][k].part] \notin In(posted'[p][x][u])
    <3>1. [op |-> code[p][i][k].op, part |-> code[p][i][k].part] \notin In(posted[p][x][u])
      BY <1>1, <2>2 DEF Waited
    <3> QED
      BY <2>1, <3>1
  <2> QED
    BY <1>6, <1>7, <2>2 DEF Waited, In
<1>16. ASSUME NEW p \in Ranks, NEW l \in landed'[p]
       PROVE  /\ l.slot = l.msg /\ p \in Sends(l.slot.op, l.from)
              /\ l.slot.part = "data" => l.slot.op \in given[l.from]
  <2>1. CASE l \in landed[p]
    BY <1>1, <2>1 DEF Landed
  <2>2. CASE p = r /\ l = l1
    <3>1. m \in Slots /\ Did(q, Sending, m) /\ r \in Sends(m.op, q)
      BY <1>3 DEF SentTo
    <3>2. l.from = q /\ l.slot = m /\ l.msg = m
      BY <2>2
    <3>3. m.part = "data" => m.op \in Ops /\ m = Data(m.op)
      BY <3>1 DEF Slots, Data
    <3> QED
      BY <1>1, <2>2, <3>1, <3>2, <3>3 DEF Handed
  <2> QED
    BY <1>11, <1>16, <2>1, <2>2
<1>17. \A p \in Ranks : Landed(p)'
  BY <1>6, <1>16 DEF Landed
<1>18. ASSUME NEW p \in Ranks, NEW x \in Ranks, NEW u \in Tags, NEW n \in PostedFor(p, x, u),
              n \notin In(posted'[p][x][u]), n.part = "data", ~ Unpacked(p, n.op)
       PROVE  Has(p, x, n.op)'
  <2>1. n \in Slots
    BY DEF PostedFor
  <2>2. n = Data(n.op)
    BY <1>18, <2>1 DEF Slots, Data
  <2>3. CASE n \in PostedFor(p, x, u) \ In(posted[p][x][u])
    <3>1. Has(p, x, n.op)
      BY <1>1, <1>18, <2>3 DEF Kept
    <3> QED
      BY <1>11, <1>12, <3>1 DEF Has
  <2>4. CASE x = q /\ p = r /\ u = t /\ n = m
    BY <1>11, <1>12, <2>2, <2>4
  <2> QED
    BY <1>5, <1>18, <2>3, <2>4
<1>19. \A p \in Ranks : Kept(p)'
  <2>1. SUFFICES ASSUME NEW p \in Ranks PROVE Kept(p)'
    OBVIOUS
  <2>2. \A x \in Ranks : \A u \in Tags : \A n \in PostedFor(p, x, u)' \ In(posted'[p][x][u]) :
         n.part = "data" /\ ~ Unpacked(p, n.op)' => Has(p, x, n.op)'
    BY <1>5, <1>8, <1>18
  <2>3. \A i \in Ops : \A k \in DOMAIN code[p][i] :
         Sharing(p, i, k) /\ Passed(p, i, k)' /\ ~ Unpacked(p, i)' => \A x \in From(i, p) : Has(p, x, i)'
    <3>1. ASSUME NEW i \in Ops, NEW k \in DOMAIN code[p][i], Sharing(p, i, k), Passed(p, i, k)',
                 ~ Unpacked(p, i)', NEW x \in From(i, p)
          PROVE  Has(p, x, i)'
      <4>1. Has(p, x, i)
        BY <1>1, <1>7, <1>8, <3>1 DEF Kept
      <4> QED
        BY <1>11, <1>12, <4>1 DEF Has
    <3> QED
      BY <3>1
  <2> QED
    BY <1>6, <1>10, <2>2, <2>3 DEF Kept, In
<1> QED
  BY <1>13, <1>14, <1>15, <1>17, <1>19

-----------------------------------------------------------------------------
(* Types *)
LEMMA TypedStep ==
    ASSUME IInv, NEW r \in Ranks, Step(r)
    PROVE  Frame' /\ Typed'
<1>1. Frame /\ Typed /\ \A q \in Ranks : Collected(q)
  BY DEF IInv, Ranked
<1>2. UNCHANGED fixed /\ ~ Ended(r)
  <2>1. CASE Enter(r)
    BY <1>1, <2>1, EnterEffect
  <2>2. CASE ~ Enter(r)
    BY <1>1, <2>2, StepMoves DEF Moves
  <2> QED
    BY <2>1, <2>2
<1>3. /\ Script' = Script /\ Tags' = Tags /\ Slots' = Slots /\ Operations' = Operations /\ Returns' = Returns
      /\ Ops' = Ops /\ Frame' = Frame /\ code' = code
  BY <1>2, Fixed DEF fixed
<1>4. /\ ip' \in [Ranks -> [op : Nat \ {0}, step : Nat \ {0}]]
      /\ \A p \in Ranks : IF ip'[p].op <= Len(Script) THEN ip'[p].step \in DOMAIN code[p][ip'[p].op]
                          ELSE ip'[p] = Place(Len(Script) + 1, 1)
  <2>1. CASE Enter(r)
    <3>1. ip' = ip
      BY <1>1, <2>1, EnterEffect
    <3> QED
      BY <1>1, <3>1 DEF Typed
  <2>2. CASE ~ Enter(r)
    BY <1>1, <1>2, <2>2, StepMoves, GoesOn DEF Moves
  <2> QED
    BY <2>1, <2>2
<1>5. inside' \subseteq Ranks /\ called' \in [Ranks -> Seq(Operations)]
  <2>1. CASE Enter(r)
    BY <1>1, <2>1, EnterEffect DEF Typed
  <2>2. CASE ~ Enter(r)
    BY <1>1, <2>2, ReachedMove DEF Typed
  <2> QED
    BY <2>1, <2>2
<1>6. wire' \in Mail /\ posted' \in Mail
  <2>1. CASE Enter(r)
    BY <1>1, <2>1 DEF Enter, Typed, Mail
  <2>2. CASE ~ Enter(r)
    BY <1>1, <2>2, StepMoves
  <2> QED
    BY <2>1, <2>2
<1>7. /\ landed' = [landed EXCEPT ![r] = (landed[r] \cup Brings(r)) \ Takes(r)]
      /\ given' = [given EXCEPT ![r] = given[r] \cup
            (IF (Now(r).do \in Sending /\ Now(r).part = "data") \/ (Enter(r) /\ Now(r).part = "Alltoallv")
             THEN {Now(r).op} ELSE {})]
      /\ ~ At(r, "unpack") => result' = result
  BY DataStep
<1>8. Now(r).do \in Sending \cup {"collective"} => Now(r).op \in Ops
  BY <1>1, <1>2, Here, Codes DEF Shaped, Plain
<1>9. landed' \in [Ranks -> SUBSET [from : Ranks, slot : Slots, msg : Slots]]
  <2>1. Brings(r) \subseteq [from : Ranks, slot : Slots, msg : Slots]
    <3>1. SUFFICES ASSUME r \in inside, NEW q \in From(Now(r).op, r)
                   PROVE  Letter(q, Now(r).op) \in [from : Ranks, slot : Slots, msg : Slots]
      BY DEF Brings
    <3>2. Now(r).op \in Ops /\ q \in Ranks
      BY <1>1, <1>8, <3>1 DEF Collected, At, From
    <3> QED
      BY <3>2 DEF Letter, Data, Slots, Parts
  <2> QED
    BY <1>1, <1>7, <2>1 DEF Typed
<1>10. given' \in [Ranks -> SUBSET Ops]
  <2>1. Enter(r) => Now(r).do = "collective"
    BY DEF Enter, At
  <2> QED
    BY <1>1, <1>7, <1>8, <2>1 DEF Typed
<1>11. result' \in [Ranks -> Seq(Returns)]
  <2>1. CASE At(r, "unpack")
    <3>1. /\ Now(r).op \in Ops
          /\ result' = [result EXCEPT ![r] = Append(result[r], Return(Now(r).op, r))]
      BY <1>1, <2>1, UnpackOnly, UnpackReturns
    <3>2. Return(Now(r).op, r) \in Returns
      BY <3>1 DEF Returns
    <3>3. result \in [Ranks -> Seq(Returns)]
      BY <1>1 DEF Typed
    <3> HIDE DEF Return, Returns
    <3>4. Append(result[r], Return(Now(r).op, r)) \in Seq(Returns)
      BY <3>2, <3>3
    <3> QED
      BY <3>1, <3>3, <3>4
  <2>2. CASE ~ At(r, "unpack")
    BY <1>1, <1>7, <2>2 DEF Typed
  <2> QED
    BY <2>1, <2>2
<1> QED
  BY <1>1, <1>3, <1>4, <1>5, <1>6, <1>9, <1>10, <1>11 DEF Typed, Mail

LEMMA TypedLand ==
    ASSUME IInv, NEW q \in Ranks, NEW r \in Ranks, NEW t \in Tags, Land(q, r, t)
    PROVE  Frame' /\ Typed'
<1>1. Frame /\ Typed /\ Channels
  BY DEF IInv
<1>2. /\ wire[q][r][t] # <<>> /\ posted[r][q][t] # <<>> /\ UNCHANGED <<fixed, ip, inside, called, given, result>>
      /\ landed' = [landed EXCEPT ![r] = landed[r] \cup
            {[from |-> q, slot |-> Head(posted[r][q][t]), msg |-> Head(wire[q][r][t])]}]
  BY DEF Land
<1>3. /\ Script' = Script /\ Tags' = Tags /\ Slots' = Slots /\ Operations' = Operations /\ Returns' = Returns
      /\ Ops' = Ops /\ Frame' = Frame /\ code' = code
  BY <1>2, Fixed DEF fixed
<1>4. wire' \in Mail /\ posted' \in Mail
  BY <1>1, ChannelsLand
<1>5. Head(posted[r][q][t]) = Head(wire[q][r][t]) /\ Head(wire[q][r][t]) \in Slots
  BY <1>1, <1>2, HeadsMeet DEF SentTo
<1>6. landed' \in [Ranks -> SUBSET [from : Ranks, slot : Slots, msg : Slots]]
  <2> DEFINE l == [from |-> q, slot |-> Head(posted[r][q][t]), msg |-> Head(wire[q][r][t])]
  <2>1. l \in [from : Ranks, slot : Slots, msg : Slots]
    BY <1>5
  <2>2. landed' = [landed EXCEPT ![r] = landed[r] \cup {l}]
    BY <1>2
  <2> HIDE DEF l
  <2> QED
    BY <1>1, <2>1, <2>2 DEF Typed
<1> QED
  BY <1>1, <1>2, <1>3, <1>4, <1>6 DEF Typed, Mail

-----------------------------------------------------------------------------
LEMMA Starts ==
    ASSUME Init
    PROVE  IInv
<1>1. setup.script \in Scripts
  BY DEF Init
<1>2. Frame
  BY <1>1 DEF Init, Frame
<1>3. \A r \in Ranks : ip[r] = Place(1, 1)
  BY DEF Init, Place
<1>4. \A r \in Ranks : \A i \in Ops : \A k \in DOMAIN code[r][i] : ~ Passed(r, i, k)
  <2>1. TAKE r \in Ranks
  <2>2. TAKE i \in Ops
  <2>3. TAKE k \in DOMAIN code[r][i]
  <2>4. i \in Nat /\ k \in Nat /\ i >= 1 /\ k >= 1
    BY <1>2, Indices
  <2> QED
    BY <1>3, <2>4 DEF Passed, Earlier, Place
<1>5. Typed
  <2>1. ip \in [Ranks -> [op : Nat \ {0}, step : Nat \ {0}]]
    BY DEF Init
  <2>2. \A r \in Ranks : IF ip[r].op <= Len(Script) THEN ip[r].step \in DOMAIN code[r][ip[r].op]
                         ELSE ip[r] = Place(Len(Script) + 1, 1)
    <3>1. TAKE r \in Ranks
    <3>2. ip[r].op = 1 /\ ip[r].step = 1 /\ Len(Script) \in Nat /\ Ops = 1 .. Len(Script)
      BY <1>2, <1>3, Codes DEF Place
    <3>3. CASE 1 <= Len(Script)
      <4>1. 1 \in Ops
        BY <3>2, <3>3
      <4>2. Len(code[r][1]) \in Nat \ {0} /\ DOMAIN code[r][1] = 1 .. Len(code[r][1])
        BY <1>2, <4>1, Codes DEF Shaped, Plain
      <4> QED
        BY <3>2, <3>3, <4>2
    <3>4. CASE ~ (1 <= Len(Script))
      BY <1>3, <3>2, <3>4
    <3> QED
      BY <3>3, <3>4
  <2>3. inside \subseteq Ranks /\ called \in [Ranks -> Seq(Operations)]
    BY DEF Init
  <2>4. posted \in Mail /\ wire \in Mail
    <3>1. <<>> \in Seq(Slots)
      OBVIOUS
    <3> QED
      BY <3>1 DEF Init, Mail
  <2>5. /\ landed \in [Ranks -> SUBSET [from : Ranks, slot : Slots, msg : Slots]]
        /\ given \in [Ranks -> SUBSET Ops] /\ result \in [Ranks -> Seq(Returns)]
    BY DEF Init
  <2> QED
    BY <2>1, <2>2, <2>3, <2>4, <2>5 DEF Typed, Mail
<1>6. \A r, dos : \A m \in Slots : r \in Ranks => ~ Did(r, dos, m)
  BY <1>4 DEF Did, Slots
<1>7. \A q, r \in Ranks : \A t \in Tags :
        SentTo(q, r, t) = {} /\ PostedFor(r, q, t) = {} /\ wire[q][r][t] = <<>> /\ posted[r][q][t] = <<>>
  BY <1>6 DEF SentTo, PostedFor, Init
<1>8. Channels
  <2>1. Linked(<<>>, <<>>, {}, {})
    BY DEF Linked, Sorted, In
  <2> QED
    BY <1>7, <2>1 DEF Channels, Channel
<1>9. \A r \in Ranks : called[r] = <<>> /\ landed[r] = {} /\ result[r] = <<>>
  BY DEF Init
<1>10. inside = {}
  BY DEF Init
<1>11. CollectivesAgree
  BY <1>9 DEF CollectivesAgree
<1>12. ASSUME NEW r \in Ranks PROVE Ranked(r)
  <2>1. \A i \in Ops : \A k \in DOMAIN code[r][i] : ~ Reached(r, i, k)
    BY <1>4, <1>10 DEF Reached
  <2>2. Collected(r)
    BY <1>9, <1>10, <2>1 DEF Collected, In
  <2>3. Barred(r) /\ Waited(r)
    BY <1>4 DEF Barred, Waited
  <2>4. Landed(r) /\ Returned(r)
    BY <1>9 DEF Landed, Returned
  <2>5. Kept(r)
    BY <1>4, <1>7 DEF Kept
  <2>6. Handed(r)
    <3>1. \A i \in Ops : Data(i) \in Slots
      BY DEF Data, Slots, Parts
    <3> QED
      BY <1>6, <2>1, <3>1 DEF Handed
  <2> QED
    BY <2>2, <2>3, <2>4, <2>5, <2>6 DEF Ranked
<1> QED
  BY <1>2, <1>5, <1>8, <1>11, <1>12 DEF IInv

LEMMA Goes ==
    ASSUME IInv, [Next]_vars
    PROVE  IInv'
<1>1. Frame /\ Typed /\ Channels /\ Agreement
  BY DEF IInv, Ranked, Agreement
<1>2. ASSUME NEW r \in Ranks, Step(r) PROVE IInv'
  <2>1. Frame' /\ Typed'
    BY <1>2, TypedStep
  <2>2. Agreement'
    BY <1>1, <1>2, AgreementStep
  <2>3. Channels'
    <3>1. CASE Enter(r)
      <4>1. /\ UNCHANGED <<fixed, wire, posted>>
            /\ \A q \in Ranks : \A i, k : Passed(q, i, k)' = Passed(q, i, k)
        BY <1>1, <3>1, EnterEffect DEF Enter
      <4>2. /\ Slots' = Slots /\ Tags' = Tags /\ \A i, x : Sends(i, x)' = Sends(i, x)
            /\ \A i : TagOf(i)' = TagOf(i)
        BY <4>1, Fixed
      <4>3. code' = code
        BY <4>1 DEF fixed
      <4>4. \A q \in Ranks : \A dos, m : Did(q, dos, m)' <=> Did(q, dos, m)
        BY <4>1, <4>3 DEF Did
      <4>5. \A q, p \in Ranks : \A t : SentTo(q, p, t)' = SentTo(q, p, t) /\ PostedFor(p, q, t)' = PostedFor(p, q, t)
        BY <4>2, <4>4 DEF SentTo, PostedFor
      <4> QED
        BY <1>1, <4>1, <4>2, <4>5 DEF Channels, Channel, Linked
    <3>2. CASE ~ Enter(r)
      <4>1. Moves(r)
        BY <1>1, <1>2, <3>2, StepMoves DEF Agreement
      <4> QED
        BY <1>1, <4>1, ChannelsMove
    <3> QED
      BY <3>1, <3>2
  <2>4. \A p \in Ranks : Landed(p)' /\ Kept(p)' /\ Waited(p)' /\ Handed(p)' /\ Returned(p)'
    BY <1>2, LandedStep, KeptStep, WaitedStep, HandedStep, ReturnedStep
  <2> QED
    BY <2>1, <2>2, <2>3, <2>4 DEF IInv, Ranked, Agreement
<1>3. ASSUME NEW q \in Ranks, NEW r \in Ranks, NEW t \in Tags, Land(q, r, t) PROVE IInv'
  <2>1. Frame' /\ Typed'
    BY <1>3, TypedLand
  <2>2. Agreement'
    BY <1>1, <1>3, AgreementIdle DEF Land
  <2>3. Channels'
    BY <1>1, <1>3, ChannelsLand
  <2>4. \A p \in Ranks : Landed(p)' /\ Kept(p)' /\ Waited(p)' /\ Handed(p)' /\ Returned(p)'
    BY <1>3, LandKeeps
  <2> QED
    BY <2>1, <2>2, <2>3, <2>4 DEF IInv, Ranked, Agreement
<1>4. CASE UNCHANGED vars
  <2>1. /\ UNCHANGED <<setup, code, items, ip, inside, called, posted, wire, landed, given, result>>
        /\ UNCHANGED fixed
    BY <1>4 DEF vars, fixed
  <2>2. /\ Script' = Script /\ Tags' = Tags /\ Slots' = Slots /\ Operations' = Operations /\ Returns' = Returns
        /\ Ops' = Ops /\ Frame' = Frame /\ (\A i : TagOf(i)' = TagOf(i))
        /\ \A i, x : From(i, x)' = From(i, x) /\ Sends(i, x)' = Sends(i, x)
    BY <2>1, Fixed
  <2>3. \A r, i, k : Passed(r, i, k)' = Passed(r, i, k)
    BY <2>1 DEF Passed
  <2>4. \A r, dos, m : Did(r, dos, m)' <=> Did(r, dos, m)
    BY <2>1, <2>3 DEF Did
  <2>5. \A q, r, t : SentTo(q, r, t)' = SentTo(q, r, t) /\ PostedFor(r, q, t)' = PostedFor(r, q, t)
    BY <2>2, <2>4 DEF SentTo, PostedFor
  <2>6. Channels'
    BY <1>1, <2>1, <2>2, <2>5 DEF Channels, Channel, Linked
  <2>7. Typed'
    BY <1>1, <2>1, <2>2 DEF Typed
  <2>8. Agreement'
    BY <1>1, <2>1, AgreementIdle
  <2>9. \A r, x : (Unpacked(r, x)' <=> Unpacked(r, x)) /\ \A q : Has(r, q, x)' <=> Has(r, q, x)
    BY <2>1, <2>2, <2>3 DEF Unpacked, Has, Data
  <2>10. \A r, i, k : Sharing(r, i, k)' = Sharing(r, i, k) /\ Reached(r, i, k)' = Reached(r, i, k)
    BY <2>1, <2>3 DEF Sharing, Collects, Reached
  <2>11. ASSUME NEW p \in Ranks PROVE Landed(p)' /\ Waited(p)' /\ Handed(p)' /\ Returned(p)' /\ Kept(p)'
    <3>1. Landed(p) /\ Waited(p) /\ Handed(p) /\ Returned(p) /\ Kept(p)
      BY DEF IInv, Ranked
    <3>2. Landed(p)'
      BY <2>1, <2>2, <3>1 DEF Landed
    <3>3. Waited(p)'
      BY <2>1, <2>2, <2>3, <3>1 DEF Waited, In
    <3>4. Handed(p)'
      BY <2>1, <2>2, <2>4, <2>10, <3>1 DEF Handed, Data
    <3>5. Returned(p)'
      BY <2>1, <2>2, <2>9, <3>1 DEF Returned
    <3>6. Kept(p)'
      BY <2>1, <2>2, <2>3, <2>5, <2>9, <2>10, <3>1 DEF Kept, In
    <3> QED
      BY <3>2, <3>3, <3>4, <3>5, <3>6
  <2> QED
    BY <1>1, <2>2, <2>6, <2>7, <2>8, <2>11 DEF IInv, Ranked, Agreement
<1> QED
  BY <1>2, <1>3, <1>4 DEF Next, Done

-----------------------------------------------------------------------------
(* The communication stays as the invariant says. *)
THEOREM ComInvariant == Spec => []IInv
<1>1. Init => IInv
  BY Starts
<1>2. IInv /\ [Next]_vars => IInv'
  BY Goes
<1> QED
  BY <1>1, <1>2, PTL DEF Spec

(* No rank ever starts a ready send (MPI_Rsend) to a rank that has not posted the
   receive for it: the barrier of com.c between the receives and the sends is enough,
   also when messages of calls before are still on the way. *)
THEOREM ReceivesReady == Spec => []ReadyReceives
<1>1. IInv => ReadyReceives
  BY Ready
<1> QED
  BY <1>1, ComInvariant, PTL

(* Every message, and what a collective operation brings, ends in the receive of its
   own call and part, although patterns share tags. *)
THEOREM ReceivesOwn == Spec => []OwnReceives
<1>1. IInv => OwnReceives
  BY DEF IInv, Ranked, Landed, OwnReceives
<1> QED
  BY <1>1, ComInvariant, PTL

(* All ranks enter the same collective operations in the same order. *)
THEOREM CollectivesSame == Spec => []CollectivesAgree
<1>1. IInv => CollectivesAgree
  BY DEF IInv
<1> QED
  BY <1>1, ComInvariant, PTL

(* A call returns exactly what the others have given to this rank in it, and once:
   com.c implements the exchange that com.h promises. *)
THEOREM ComExchanges == Spec => Exchanged
<1>1. Init => X!Init
  BY DEF Init, X!Init
<1>2. ASSUME IInv, [Next]_vars PROVE [X!Next]_(X!vars)
  <2>1. Frame /\ Typed /\ \A q \in Ranks : Collected(q)
    BY <1>2 DEF IInv, Ranked
  <2>2. ASSUME NEW r \in Ranks, Step(r) PROVE [X!Next]_(X!vars)
    <3> DEFINE hands == (Now(r).do \in Sending /\ Now(r).part = "data") \/ (Enter(r) /\ Now(r).part = "Alltoallv")
    <3>1. /\ given' = [given EXCEPT ![r] = given[r] \cup (IF hands THEN {Now(r).op} ELSE {})]
          /\ ~ At(r, "unpack") => result' = result
      BY <1>2, <2>2, DataStep
    <3>2. UNCHANGED fixed /\ ~ Ended(r)
      <4>1. CASE Enter(r)
        BY <2>1, <4>1, EnterEffect
      <4>2. CASE ~ Enter(r)
        BY <2>1, <2>2, <4>2, StepMoves DEF Moves
      <4> QED
        BY <4>1, <4>2
    <3>3. items' = items /\ DOMAIN items = Ops
      BY <2>1, <3>2 DEF fixed, Frame
    <3>4. hands => Now(r).op \in Ops /\ ~ At(r, "unpack")
      <4>1. hands => Now(r).do \in Sending \cup {"collective"}
        BY DEF Enter, At
      <4>2. Now(r).do \in Sending \cup {"collective"} => Now(r).op \in Ops /\ ~ At(r, "unpack")
        BY <2>1, <3>2, Here, Codes DEF Shaped, Plain, At, Sending
      <4> QED
        BY <4>1, <4>2
    <3> HIDE DEF hands
    <3>5. CASE hands
      BY <3>1, <3>3, <3>4, <3>5 DEF X!Next, X!Give
    <3>6. CASE ~ hands /\ ~ At(r, "unpack")
      <4>1. given' = given
        BY <2>1, <3>1, <3>6 DEF Typed
      <4> QED
        BY <3>1, <3>3, <3>6, <4>1 DEF X!vars
    <3>7. CASE ~ hands /\ At(r, "unpack")
      <4> DEFINE x == Now(r).op
      <4>1. given' = given
        BY <2>1, <3>1, <3>7 DEF Typed
      <4>2. /\ x \in Ops /\ \A n \in DOMAIN result[r] : result[r][n].x # x
            /\ \A q \in From(x, r) : x \in given[q]
            /\ result' = [result EXCEPT ![r] = Append(result[r], Return(x, r))]
        BY <1>2, <2>1, <2>2, <3>7, UnpackOnly, UnpackReturns
      <4>3. DOMAIN result[r] = 1 .. Len(result[r])
        BY <2>1 DEF Typed
      <4> HIDE DEF x
      <4>4. X!From(x, r) = From(x, r)
        BY DEF X!From, From, Sends
      <4>5. X!Take(r, x)
        BY <3>3, <4>1, <4>2, <4>3, <4>4 DEF X!Take, Return
      <4> QED
        BY <3>3, <4>2, <4>5 DEF X!Next
    <3> QED
      BY <3>5, <3>6, <3>7
  <2>3. ASSUME NEW q \in Ranks, NEW r \in Ranks, NEW t \in Tags, Land(q, r, t) PROVE UNCHANGED X!vars
    BY <2>3 DEF Land, fixed, X!vars
  <2>4. CASE UNCHANGED vars
    BY <2>4 DEF vars, fixed, X!vars
  <2> QED
    BY <1>2, <2>2, <2>3, <2>4 DEF Next, Done
<1> QED
  BY <1>1, <1>2, ComInvariant, PTL DEF Spec, Exchanged, X!Spec
=============================================================================
