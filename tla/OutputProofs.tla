---------------------------- MODULE OutputProofs ----------------------------
(***************************************************************************)
(* Proofs about Output, for every number of ranks, step, interval and      *)
(* duration, and however often the program is started:                     *)
(*  - the frames of the last rank's file, whose times all readers go by,   *)
(*    are in ascending order, and a seek in them ends where it should;     *)
(*  - completed frames are kept, but for files HDF5 cannot open and a      *)
(*    start from scratch, and a frame that is counted has its data;        *)
(*  - unless a rank died while writing, and unless -c is given with        *)
(*    nothing to continue, the files have the same frames and a start or   *)
(*    an output never fails.                                               *)
(***************************************************************************)
EXTENDS Output, WellFoundedInduction, NaturalsInduction, TLAPS

LastRank == NCpu - 1
Frame == [time : Int, whole : BOOLEAN]
File == [groups : Seq(Frame), frames : Int, state : {"none", "open", "good", "broken"}]
Loops == [l : Int, h : Int, m : Int]

Typed ==
    /\ disk \in [Ranks -> File]
    /\ pc \in [Ranks -> {"off", "init", "write", "frame", "loop", "failed"}]
    /\ {now, final, output_time} \subseteq [Ranks -> Int]
    /\ {continue, torn} \subseteq BOOLEAN
    /\ launches \in Nat
    /\ cur \in Nat /\ sought \in Int
    /\ search = {} \/ \E s \in Loops : search = {s}

(* A file that is there has a frame; its attribute FRAMES, once the first frame is
   complete, counts no more than there are. *)
FileOk(f) ==
    IF f.state = "none" THEN f = NoFile
    ELSE /\ f.frames \in {None} \cup 1 .. Len(f.groups)
         /\ Len(f.groups) >= 1
         /\ f.frames = None => Len(f.groups) = 1 /\ ~ f.groups[1].whole

(* A rank has its file open just while it writes a frame, which is then the last one,
   and appends only to files with a complete frame. *)
Writes(r) ==
    /\ FileOk(disk[r])
    /\ disk[r].state = "open" => pc[r] \in {"frame", "failed"}
    /\ pc[r] \in {"write", "loop"} => disk[r].state = "none" \/ disk[r].frames # None
    /\ pc[r] = "frame" =>
        /\ disk[r].state = "open"
        /\ disk[r].frames \in {None, Len(disk[r].groups) - 1}
        /\ disk[r].groups[Len(disk[r].groups)].time = now[r]

(* While some ranks have yet to begin, the others have continued from the same frame of
   closed files, or are no further than the initial frame. *)
Resumed ==
    LET e == Times(disk)[Count(disk)]
    IN  /\ continue
        /\ \A r \in Ranks : disk[r].state = "good" /\ pc[r] \in {"init", "loop"}
        /\ \A r \in Ranks : pc[r] = "loop" => now[r] = e /\ final[r] = e + Abs(Duration - e)
Scratch ==
    \A r \in Ranks :
        /\ now[r] = 0
        /\ pc[r] \in {"init", "write"} => disk[r].state = "none"
        /\ pc[r] \in {"write", "frame", "loop"} => final[r] = Duration
        /\ \A n \in 1 .. Len(disk[r].groups) : n = 1 /\ disk[r].groups[n].time = 0
Starts == (\E r \in Ranks : pc[r] = "init") => Resumed \/ Scratch

(* Ranks that have begun are at the same time. *)
Together ==
    /\ \A r, s \in Ranks : output_time[r] = output_time[s]
    /\ \A r, s \in Ranks : {pc[r], pc[s]} \subseteq {"write", "frame", "loop"} => now[r] = now[s] /\ final[r] = final[s]

(* The files whose times may be read: the one of the last rank, or any of them as long
   as one is missing.  The times ascend, and the rank is past them. *)
Timed(r) == r = LastRank \/ \E s \in Ranks : disk[s].state = "none"
Ascends(f) == \A i, j \in 1 .. Len(f.groups) : i <= j => f.groups[i].time <= f.groups[j].time
Ascending ==
    \A r \in Ranks : Timed(r) =>
        /\ Ascends(disk[r])
        /\ pc[r] \in {"write", "frame", "loop"} =>
              \A n \in 1 .. count_time_frames(disk[r]) : disk[r].groups[n].time <= now[r]

(* A reader is at a frame of files no rank has open; its search has passed what is
   before l and after h. *)
Searching(s) ==
    LET T == Times(disk)
    IN  /\ s.l \in 1 .. Count(disk) + 1 /\ s.h \in 0 .. Count(disk)
        /\ s.l <= s.h \/ (s.l = s.h + 1 /\ s.m \in {s.l, s.h})
        /\ \A n \in 1 .. Count(disk) : (n < s.l => T[n] < sought) /\ (n > s.h => sought < T[n])
Reading ==
    /\ cur # 0 => All("off") /\ Finds(disk) /\ cur \in 1 .. Count(disk)
    /\ \A s \in search : cur # 0 /\ Searching(s)

IInv == Typed /\ (\A r \in Ranks : Writes(r)) /\ Starts /\ Together /\ Ascending /\ Reading /\ SeekFinds

(* Without the death of a writer all files are closed in order and have the same frames,
   but for the one that is being written. *)
Whole(f) == \A n \in 1 .. Len(f.groups) : f.groups[n].whole
Closed(f) == f.state # "none" => f.state = "good" /\ f.frames = Len(f.groups) /\ Whole(f)
TimesIn(r) == [n \in 1 .. Len(disk[r].groups) |-> disk[r].groups[n].time]
Writing == \E r \in Ranks : pc[r] \in {"write", "frame"} \/ (pc[r] = "init" /\ ~ continue)
Written(r) == pc[r] = "frame" \/ (pc[r] = "loop" /\ Writing)
Even(base) ==
    \A r \in Ranks :
        /\ pc[r] # "failed" /\ (pc[r] = "off" => All("off"))
        /\ pc[r] # "frame" => Closed(disk[r])
        /\ pc[r] = "frame" => \A n \in 1 .. Len(disk[r].groups) - 1 : disk[r].groups[n].whole
        /\ TimesIn(r) = IF Written(r) THEN Append(base, now[r]) ELSE base
        /\ pc[r] = "init" /\ continue => Resumed
Evenly == ~ torn => \E base \in Seq(Int) : Even(base)
-----------------------------------------------------------------------------
(* A set of natural numbers that is not empty has a least element. *)
LEMMA Least ==
  ASSUME NEW S \in SUBSET Nat, S # {}
  PROVE  \E x \in S : \A y \in S : x <= y
<1> DEFINE Q == OpToRel(<, Nat)
<1>1. IsWellFoundedOn(Q, Nat)
  BY NatLessThanWellFounded
<1>2. \A x, y \in Nat : <<y, x>> \in Q <=> y < x
  BY DEF OpToRel
<1> HIDE DEF Q
<1>3. PICK x \in S : \A y \in S : ~ (<<y, x>> \in Q)
  BY <1>1, WFMin
<1>4. \A y \in S : x \in Nat /\ y \in Nat /\ ~ (y < x)
  BY <1>2, <1>3
<1> QED
  BY <1>4

(* The largest of the numbers up to n in a set is where the mirrored set is least. *)
LEMMA Largest ==
  ASSUME NEW n \in Nat, NEW S \in SUBSET (0 .. n), S # {}
  PROVE  Max(S) \in S /\ \A y \in S : y <= Max(S)
<1> DEFINE T == {n - y : y \in S}
<1>1. T \in SUBSET Nat /\ T # {}
  <2>1. \A y \in S : y \in Int /\ n - y \in Nat
    OBVIOUS
  <2> QED
    BY <2>1
<1> HIDE DEF T
<1>2. PICK x \in T : \A y \in T : x <= y
  BY <1>1, Least
<1>3. (\E z \in S : x = n - z) /\ \A y \in S : n - y \in T
  BY DEF T
<1>4. PICK z \in S : x = n - z
  BY <1>3
<1>5. \A y \in S : n - z <= n - y /\ y \in Int /\ z \in Int
  BY <1>2, <1>3, <1>4
<1>6. \A y \in S : z >= y
  BY <1>5
<1>7. Max(S) \in S /\ \A y \in S : Max(S) >= y
  BY <1>6 DEF Max
<1> QED
  BY <1>5, <1>7

(* The files that are counted are there, and the next one is missing. *)
LEMMA FilesCounted ==
  ASSUME OutputAssumption, NEW d
  PROVE  /\ Files(d) \in 0 .. NCpu
         /\ \A r \in Ranks : r < Files(d) => d[r].state # "none"
         /\ Files(d) < NCpu => Files(d) \in Ranks /\ d[Files(d)].state = "none"
<1> DEFINE S == {k \in 0 .. NCpu : \A r \in Ranks : r < k => d[r].state # "none"}
           f == Files(d)
<1>1. NCpu \in Nat \ {0}
  BY DEF OutputAssumption
<1>2. 0 \in S /\ S \in SUBSET (0 .. NCpu)
  BY <1>1 DEF Ranks
<1>3. f = Max(S)
  BY DEF Files
<1> HIDE DEF S, f
<1>4. f \in S /\ \A y \in S : y <= f
  BY <1>1, <1>2, <1>3, Largest
<1>5. f \in 0 .. NCpu /\ \A r \in Ranks : r < f => d[r].state # "none"
  BY <1>4 DEF S
<1>6. ASSUME f < NCpu, d[f].state # "none"
      PROVE  FALSE
  <2>1. f + 1 \in S
    BY <1>1, <1>5, <1>6 DEF S, Ranks
  <2> QED
    BY <1>4, <1>5, <2>1
<1> QED
  BY <1>1, <1>5, <1>6 DEF f, Ranks

(* When every file is there all of them are counted, and their times are those of the
   last rank. *)
LEMMA FilesAll ==
  ASSUME OutputAssumption, NEW d, \A r \in Ranks : d[r].state # "none"
  PROVE  /\ Files(d) = NCpu /\ LastRank \in Ranks
         /\ Count(d) = count_time_frames(d[LastRank])
         /\ Times(d) = [n \in 1 .. Count(d) |-> d[LastRank].groups[n].time]
<1>1. NCpu \in Nat \ {0}
  BY DEF OutputAssumption
<1>2. Files(d) = NCpu
  BY FilesCounted, <1>1
<1> QED
  BY <1>1, <1>2 DEF Count, Times, LastRank, Ranks

(* What is found of a file is the file itself unless its rank has it open, and nothing
   but frames of it. *)
LEMMA LeftIs ==
  ASSUME NEW f \in File, FileOk(f), NEW g \in Left(f)
  PROVE  /\ g \in File /\ FileOk(g) /\ g.state # "open"
         /\ f.state # "open" => g = f
         /\ g.state = "none" <=> f.state = "none"
         /\ Len(g.groups) <= Len(f.groups)
         /\ \A n \in 1 .. Len(g.groups) : g.groups[n] = f.groups[n]
         /\ count_time_frames(g) <= count_time_frames(f)
<1>1. CASE f.state # "open"
  BY <1>1 DEF Left, File, count_time_frames
<1>2. CASE f.state = "open"
  <2>1. f.groups \in Seq(Frame) /\ f.frames \in Int /\ Len(f.groups) \in Nat /\ Len(f.groups) >= 1
        /\ f.frames \in {None} \cup 1 .. Len(f.groups)
    BY <1>2 DEF File, FileOk
  <2>2. CASE g = [f EXCEPT !.state = "broken"] \/ g = [f EXCEPT !.state = "good"]
    BY <1>2, <2>1, <2>2 DEF File, FileOk, count_time_frames
  <2>3. CASE f.frames # None /\ g = [f EXCEPT !.state = "good", !.groups = SubSeq(@, 1, f.frames)]
    <3> DEFINE q == SubSeq(f.groups, 1, f.frames)
    <3>1. f.frames \in 1 .. Len(f.groups)
      BY <2>1, <2>3
    <3>2. q \in Seq(Frame) /\ Len(q) = f.frames /\ \A n \in 1 .. Len(q) : q[n] = f.groups[n]
      BY <2>1, <3>1
    <3>3. g.groups = q /\ g.frames = f.frames /\ g.state = "good" /\ g \in File
      BY <2>3, <3>2 DEF File
    <3> HIDE DEF q
    <3>4. FileOk(g) /\ Len(g.groups) <= Len(f.groups)
      BY <2>1, <2>3, <3>1, <3>2, <3>3 DEF FileOk
    <3>5. count_time_frames(g) <= count_time_frames(f)
      BY <2>3, <3>1, <3>3 DEF count_time_frames
    <3> QED
      BY <1>2, <3>2, <3>3, <3>4, <3>5
  <2> QED
    BY <1>2, <2>2, <2>3 DEF Left
<1> QED
  BY <1>1, <1>2

LEMMA CountIs ==
  ASSUME NEW f \in File, FileOk(f)
  PROVE  /\ Len(f.groups) \in Nat /\ count_time_frames(f) \in 0 .. Len(f.groups)
         /\ f.state = "none" => Len(f.groups) = 0
         /\ \A n \in 1 .. Len(f.groups) : f.groups[n] \in Frame /\ f.groups[n].time \in Int
         /\ f.state # "none" => count_time_frames(f) >= 1
<1>1. f.groups \in Seq(Frame) /\ Len(f.groups) \in Nat /\ f.frames \in Int
  BY DEF File
<1>2. \A n \in 1 .. Len(f.groups) : f.groups[n] \in Frame /\ f.groups[n].time \in Int
  <2> SUFFICES ASSUME NEW n \in 1 .. Len(f.groups)
               PROVE  f.groups[n] \in Frame /\ f.groups[n].time \in Int
    OBVIOUS
  <2>1. f.groups[n] \in Frame
    BY <1>1
  <2> QED
    BY <2>1 DEF Frame
<1>3. CASE f.state = "none"
  <2>1. f.groups = << >> /\ f.frames = None
    BY <1>3 DEF FileOk, NoFile
  <2> QED
    BY <1>2, <1>3, <2>1 DEF count_time_frames
<1>4. CASE f.state # "none"
  BY <1>1, <1>2, <1>4 DEF FileOk, count_time_frames, None
<1> QED
  BY <1>3, <1>4

(* Nobody reads while a rank runs. *)
LEMMA Unread ==
  ASSUME Reading, NEW r \in Ranks, pc[r] # "off"
  PROVE  cur = 0 /\ search = {}
BY DEF Reading, All

(* Steps of the ranks leave the absent reader alone. *)
LEMMA UnreadStep ==
  ASSUME Reading, NEW r \in Ranks, pc[r] # "off", UNCHANGED readVars
  PROVE  Reading' /\ SeekFinds'
<1>1. cur' = 0 /\ search' = {}
  BY Unread DEF readVars
<1> QED
  BY <1>1 DEF Reading, SeekFinds

LEMMA RankExists ==
  ASSUME OutputAssumption
  PROVE  0 \in Ranks /\ LastRank \in Ranks /\ Ranks \subseteq Int
BY DEF OutputAssumption, Ranks, LastRank
-----------------------------------------------------------------------------
LEMMA TimeStepKeeps ==
  ASSUME OutputAssumption, IInv, TimeStepped
  PROVE  IInv'
<1> USE DEF IInv
<1>1. 0 \in Ranks /\ All("loop") /\ UNCHANGED <<disk, final, continue, launches, torn, readVars>>
  BY RankExists DEF TimeStepped
<1>2. TimeStep \in Nat /\ Interval \in Nat
  BY DEF OutputAssumption
<1>3. \A r \in Ranks : /\ now'[r] = now[r] + TimeStep
                       /\ pc'[r] \in {"write", "loop"}
                       /\ output_time'[r] \in Int
                       /\ output_time'[r] = IF now'[r] >= output_time[r] THEN output_time[r] + Interval ELSE output_time[r]
  BY <1>2 DEF TimeStepped, Typed
<1>4. \A r, s \in Ranks : now[r] \in Int /\ now[r] = now[s] /\ final[r] = final[s] /\ output_time[r] = output_time[s]
  BY <1>1 DEF Together, All, Typed
<1>5. Typed'
  <2>1. now' \in [Ranks -> Int] /\ output_time' \in [Ranks -> Int] /\ pc' \in [Ranks -> {"write", "loop"}]
    BY <1>2, <1>3, <1>4 DEF TimeStepped
  <2> QED
    BY <1>1, <2>1 DEF Typed, readVars
<1>6. \A r \in Ranks : Writes(r)'
  BY <1>1, <1>3 DEF Writes, All
<1>7. Starts'
  BY <1>3 DEF Starts
<1>8. Together'
  BY <1>1, <1>3, <1>4 DEF Together
<1>9. Ascending'
  <2> SUFFICES ASSUME NEW r \in Ranks, Timed(r)
               PROVE  Ascends(disk[r]) /\ \A n \in 1 .. count_time_frames(disk[r]) : disk[r].groups[n].time <= now'[r]
    BY <1>1 DEF Ascending, Timed
  <2>1. Ascends(disk[r]) /\ \A n \in 1 .. count_time_frames(disk[r]) : disk[r].groups[n].time <= now[r]
    BY <1>1 DEF Ascending, All
  <2>2. disk[r] \in File /\ FileOk(disk[r])
    BY DEF Typed, Writes
  <2>3. \A n \in 1 .. count_time_frames(disk[r]) : disk[r].groups[n].time \in Int
    BY <2>2, CountIs
  <2> QED
    BY <1>2, <1>3, <1>4, <2>1, <2>3
<1>10. Reading' /\ SeekFinds'
  BY <1>1, UnreadStep DEF All
<1> QED
  BY <1>5, <1>6, <1>7, <1>8, <1>9, <1>10

LEMMA StopKeeps ==
  ASSUME OutputAssumption, IInv, Stop
  PROVE  IInv'
<1> USE DEF IInv
<1>1. 0 \in Ranks /\ All("loop") /\ UNCHANGED <<disk, now, final, output_time, continue, launches, torn, readVars>>
      /\ pc' = [r \in Ranks |-> "off"]
  BY RankExists DEF Stop
<1>2. Typed'
  BY <1>1 DEF Typed, readVars
<1>3. \A r \in Ranks : Writes(r)'
  BY <1>1 DEF Writes, All
<1>4. Starts' /\ Together' /\ Ascending'
  BY <1>1 DEF Starts, Together, Ascending, Timed
<1>5. Reading' /\ SeekFinds'
  BY <1>1, UnreadStep DEF All
<1> QED
  BY <1>2, <1>3, <1>4, <1>5

LEMMA DieKeeps ==
  ASSUME OutputAssumption, IInv, Die
  PROVE  IInv'
<1> USE DEF IInv
<1>1. /\ disk' \in Leftovers /\ torn' = TRUE /\ pc' = [r \in Ranks |-> "off"]
      /\ UNCHANGED <<now, final, output_time, continue, launches, readVars>>
      /\ \E r \in Ranks : pc[r] # "off"
  BY DEF Die
<1>2. \A r \in Ranks : disk[r] \in File /\ FileOk(disk[r]) /\ disk'[r] \in Left(disk[r])
  BY <1>1 DEF Leftovers, Typed, Writes
<1>3. \A r \in Ranks : disk'[r] \in File /\ FileOk(disk'[r]) /\ disk'[r].state # "open"
  BY <1>2, LeftIs
<1>4. Typed'
  <2>1. disk' \in [Ranks -> File]
    BY <1>1, <1>3 DEF Leftovers
  <2> QED
    BY <1>1, <2>1 DEF Typed, readVars
<1>5. \A r \in Ranks : Writes(r)'
  BY <1>1, <1>3 DEF Writes
<1>6. Starts' /\ Together'
  BY <1>1 DEF Starts, Together
<1>7. Ascending'
  <2> SUFFICES ASSUME NEW r \in Ranks, Timed(r)'
               PROVE  Ascends(disk'[r])
    BY <1>1 DEF Ascending
  <2>1. Ascends(disk[r])
    <3>1. \A s \in Ranks : disk'[s].state = "none" => disk[s].state = "none"
      BY <1>2, LeftIs
    <3>2. Timed(r)
      BY <3>1 DEF Timed
    <3> QED
      BY <3>2 DEF Ascending
  <2>2. Len(disk'[r].groups) \in Nat /\ Len(disk[r].groups) \in Nat /\ Len(disk'[r].groups) <= Len(disk[r].groups)
        /\ \A n \in 1 .. Len(disk'[r].groups) : disk'[r].groups[n] = disk[r].groups[n]
    <3>1. disk[r] \in File /\ FileOk(disk[r]) /\ disk'[r] \in Left(disk[r]) /\ disk'[r] \in File /\ FileOk(disk'[r])
      BY <1>2, <1>3
    <3>2. Len(disk'[r].groups) \in Nat /\ Len(disk[r].groups) \in Nat
      BY <3>1, CountIs
    <3> QED
      BY <3>1, <3>2, LeftIs
  <2> DEFINE f == disk[r] 
             g == disk'[r]
  <2> HIDE DEF f, g
  <2>3. \A n \in 1 .. Len(g.groups) : n \in 1 .. Len(f.groups)
    BY <2>2 DEF f, g
  <2>4. Ascends(g)
    <3> SUFFICES ASSUME NEW i \in 1 .. Len(g.groups), NEW j \in 1 .. Len(g.groups), i <= j
                 PROVE  g.groups[i].time <= g.groups[j].time
      BY DEF Ascends
    <3>1. \A n \in 1 .. Len(g.groups) : g.groups[n] = f.groups[n]
      BY <2>2 DEF f, g
    <3>2. f.groups[i].time <= f.groups[j].time
      BY <2>1, <2>3 DEF Ascends, f
    <3> QED
      BY <3>1, <3>2
  <2> QED
    BY <2>4 DEF g
<1>8. Reading' /\ SeekFinds'
  BY <1>1, UnreadStep
<1> QED
  BY <1>4, <1>5, <1>6, <1>7, <1>8

LEMMA LaunchKeeps ==
  ASSUME OutputAssumption, IInv, Launch
  PROVE  IInv'
<1> USE DEF IInv
<1>1. /\ All("off") /\ launches \in Nat /\ launches' = launches + 1
      /\ continue' = (Fresh \/ \E r \in Ranks : disk[r].state # "none")
      /\ now' = [r \in Ranks |-> 0] /\ final' = [r \in Ranks |-> 0]
      /\ output_time' = [r \in Ranks |-> Interval]
      /\ cur' = 0 /\ sought' = None /\ search' = {} /\ torn' = torn
  BY DEF Launch, Typed
<1>2. Fresh \in BOOLEAN /\ Interval \in Int
  BY DEF OutputAssumption
<1>3. CASE Finds(disk)
  <2>1. disk' = disk /\ pc' = [r \in Ranks |-> IF Reads(disk, 1) /\ Files(disk) = NCpu THEN "init" ELSE "failed"]
    BY <1>3 DEF Launch
  <2>2. Typed'
    <3>1. pc' \in [Ranks -> {"init", "failed"}]
      BY <2>1
    <3> QED
      BY <1>1, <1>2, <2>1, <3>1 DEF Typed, None
  <2>3. \A r \in Ranks : Writes(r)'
    <3> SUFFICES ASSUME NEW r \in Ranks
                 PROVE  Writes(r)'
      OBVIOUS
    <3>1. FileOk(disk[r]) /\ disk[r].state # "open"
      BY <1>1 DEF Writes, All
    <3>2. pc'[r] \in {"init", "failed"}
      BY <2>1
    <3> QED
      BY <2>1, <3>1, <3>2 DEF Writes
  <2>4. Starts'
    <3> SUFFICES ASSUME NEW r \in Ranks, pc'[r] = "init"
                 PROVE  Resumed'
      BY DEF Starts
    <3>1. Files(disk) = NCpu /\ pc' = [s \in Ranks |-> "init"]
      BY <2>1
    <3>2. \A s \in Ranks : s < Files(disk)
      BY <3>1 DEF Ranks
    <3>3. \A s \in Ranks : disk[s].state = "good"
      BY <1>3, <3>2 DEF Finds
    <3>4. continue'
      BY <1>1, <3>3
    <3> QED
      BY <2>1, <3>1, <3>3, <3>4 DEF Resumed
  <2>5. Together'
    BY <1>1, <2>1 DEF Together
  <2>6. Ascending'
    BY <2>1 DEF Ascending, Timed
  <2>7. Reading' /\ SeekFinds'
    BY <1>1 DEF Reading, SeekFinds
  <2> QED
    BY <2>2, <2>3, <2>4, <2>5, <2>6, <2>7
<1>4. CASE ~ Finds(disk)
  <2>1. disk' = [r \in Ranks |-> NoFile] /\ pc' = [r \in Ranks |-> "init"]
    BY <1>4 DEF Launch
  <2>2. Typed'
    <3>1. NoFile \in File
      BY DEF NoFile, File, None
    <3> QED
      BY <1>1, <1>2, <2>1, <3>1 DEF Typed, None
  <2>3. \A r \in Ranks : Writes(r)'
    BY <2>1 DEF Writes, FileOk, NoFile
  <2>4. Scratch'
    BY <1>1, <2>1 DEF Scratch, NoFile
  <2>5. Starts' /\ Together'
    BY <1>1, <2>1, <2>4 DEF Starts, Together
  <2>6. Ascending'
    BY <2>1 DEF Ascending, Ascends, NoFile
  <2>7. Reading' /\ SeekFinds'
    BY <1>1 DEF Reading, SeekFinds
  <2> QED
    BY <2>2, <2>3, <2>5, <2>6, <2>7
<1> QED
  BY <1>3, <1>4

(* Files that are all good are found as they are, whoever reads them. *)
LEMMA ResumedReads ==
  ASSUME OutputAssumption, IInv, Resumed, NEW d \in Leftovers
  PROVE  d = disk /\ Finds(d)
<1>1. \A r \in Ranks : d[r] = disk[r]
  BY DEF Leftovers, Left, Resumed
<1>2. d = disk
  BY <1>1 DEF Leftovers, IInv, Typed
<1>3. \A r \in Ranks : disk[r].state # "none" /\ disk[r].state = "good"
  BY DEF Resumed
<1>4. Files(disk) = NCpu
  BY <1>3, FilesAll
<1> QED
  BY <1>2, <1>3, <1>4 DEF Finds, OutputAssumption

(* In a run that began from scratch the frame others have written is of time 0. *)
LEMMA ScratchReads ==
  ASSUME OutputAssumption, IInv, Scratch, NEW d \in Leftovers, Finds(d), Reads(d, Count(d))
  PROVE  Times(d)[Count(d)] = 0
<1> DEFINE f == Files(d) - 1
           k == Count(d)
<1>1. f \in Ranks /\ f < Files(d)
  BY FilesCounted DEF Finds, Ranks, OutputAssumption
<1>2. k \in 1 .. k /\ k <= Len(d[f].groups)
  BY <1>1 DEF Reads
<1>3. disk[f] \in File /\ FileOk(disk[f]) /\ d[f] \in Left(disk[f])
  BY <1>1 DEF Leftovers, IInv, Typed, Writes
<1>4. d[f].groups[k] = disk[f].groups[k] /\ k \in 1 .. Len(disk[f].groups)
  <2>1. Len(d[f].groups) \in Nat /\ Len(disk[f].groups) \in Nat /\ Len(d[f].groups) <= Len(disk[f].groups)
        /\ \A n \in 1 .. Len(d[f].groups) : d[f].groups[n] = disk[f].groups[n]
    <3>1. d[f] \in File /\ FileOk(d[f])
      BY <1>3, LeftIs
    <3>2. Len(d[f].groups) \in Nat /\ Len(disk[f].groups) \in Nat
      BY <1>3, <3>1, CountIs
    <3>3. /\ Len(d[f].groups) <= Len(disk[f].groups)
          /\ \A n \in 1 .. Len(d[f].groups) : d[f].groups[n] = disk[f].groups[n]
      <4> DEFINE a == disk[f]
                 b == d[f]
      <4>1. a \in File /\ FileOk(a) /\ b \in Left(a)
        BY <1>3
      <4> HIDE DEF a, b
      <4>2. Len(b.groups) <= Len(a.groups) /\ \A n \in 1 .. Len(b.groups) : b.groups[n] = a.groups[n]
        BY <4>1, LeftIs
      <4> QED
        BY <4>2 DEF a, b
    <3> QED
      BY <3>2, <3>3
  <2> HIDE DEF k, f
  <2>2. k \in Int /\ 1 <= k /\ k <= Len(d[f].groups)
    BY <1>2
  <2>3. k \in 1 .. Len(d[f].groups) /\ k \in 1 .. Len(disk[f].groups)
    BY <2>1, <2>2
  <2> QED
    BY <2>1, <2>3
<1>5. Times(d)[k] = d[f].groups[k].time
  BY <1>2 DEF Times
<1> QED
  BY <1>1, <1>4, <1>5 DEF Scratch

(* What a rank that begins may do. *)
LEMMA BeginCases ==
  ASSUME OutputAssumption, IInv, NEW r \in Ranks, Begin(r)
  PROVE  /\ pc[r] = "init" /\ UNCHANGED <<disk, output_time, continue, launches, torn, readVars>>
         /\ \/ RunFromStart(r) /\ Scratch
            \/ \E d \in Leftovers : /\ continue /\ Finds(d) /\ Reads(d, 1) /\ Reads(d, Count(d))
                                    /\ Continue(r, d)
            \/ /\ Fail /\ continue
               /\ \E d \in Leftovers : Finds(d) /\ ~ (Reads(d, 1) /\ Reads(d, Count(d)))
<1>1. pc[r] = "init" /\ UNCHANGED <<disk, output_time, continue, launches, torn, readVars>>
  BY DEF Begin
<1>2. Resumed \/ Scratch
  BY <1>1 DEF IInv, Starts
<1>3. ASSUME ~ continue, RunFromStart(r)
      PROVE  Scratch
  BY <1>2, <1>3 DEF Resumed
<1>4. ASSUME NEW d \in Leftovers, ~ Finds(d)
      PROVE  Scratch
  BY <1>2, <1>4, ResumedReads
<1> QED
  BY <1>1, <1>3, <1>4 DEF Begin

LEMMA RunFromStartKeeps ==
  ASSUME OutputAssumption, IInv, NEW r \in Ranks, pc[r] = "init", RunFromStart(r), Scratch,
         UNCHANGED <<disk, output_time, continue, launches, torn, readVars>>
  PROVE  IInv'
<1> USE DEF IInv
<1>1. /\ pc' = [pc EXCEPT ![r] = "write"] /\ final' = [final EXCEPT ![r] = Duration] /\ now' = now
  BY DEF RunFromStart
<1>2. Duration \in Int
  BY DEF OutputAssumption
<1>3. Typed'
  BY <1>1, <1>2 DEF Typed, readVars
<1>4. \A s \in Ranks : /\ pc'[s] = IF s = r THEN "write" ELSE pc[s]
                       /\ final'[s] = IF s = r THEN Duration ELSE final[s]
  BY <1>1 DEF Typed
<1>5. disk[r].state = "none"
  BY DEF Scratch
<1>6. \A s \in Ranks : Writes(s)'
  BY <1>1, <1>4, <1>5 DEF Writes
<1>7. Scratch'
  BY <1>1, <1>4, <1>5 DEF Scratch
<1>8. Starts'
  BY <1>7 DEF Starts
<1>9. Together'
  BY <1>7 DEF Together, Scratch
<1>10. Ascending'
  <2> SUFFICES ASSUME NEW s \in Ranks, Timed(s)
               PROVE  /\ Ascends(disk[s])
                      /\ pc'[s] \in {"write", "frame", "loop"} =>
                            \A n \in 1 .. count_time_frames(disk[s]) : disk[s].groups[n].time <= now[s]
    BY <1>1 DEF Ascending, Timed
  <2>1. disk[r] \in File /\ FileOk(disk[r])
    BY DEF Typed, Writes
  <2>2. count_time_frames(disk[r]) = 0
    BY <1>5, <2>1, CountIs
  <2> QED
    BY <1>4, <2>2 DEF Ascending
<1>11. Reading' /\ SeekFinds'
  BY UnreadStep
<1> QED
  BY <1>3, <1>6, <1>8, <1>9, <1>10, <1>11

(* A rank that continues is at the last frame of the files all ranks read, or at the
   beginning. *)
LEMMA ContinueKeeps ==
  ASSUME OutputAssumption, IInv, NEW r \in Ranks, pc[r] = "init",
         NEW d \in Leftovers, Finds(d), Reads(d, 1), Reads(d, Count(d)), Continue(r, d),
         UNCHANGED <<disk, output_time, continue, launches, torn, readVars>>
  PROVE  IInv' /\ (Resumed => Resumed')
<1> USE DEF IInv
<1> DEFINE e == Times(d)[Count(d)]
           t == e + Abs(Duration - e)
<1>1. /\ pc' = [pc EXCEPT ![r] = "loop"] /\ final' = [final EXCEPT ![r] = t] /\ now' = [now EXCEPT ![r] = e]
  BY DEF Continue
<1>2. Duration \in Nat
  BY DEF OutputAssumption
<1>3. Resumed \/ Scratch
  BY DEF Starts
<1>4. CASE Resumed
  <2>1. d = disk /\ \A s \in Ranks : disk[s].state = "good" /\ disk[s].state # "none"
    BY <1>4, ResumedReads DEF Resumed
  <2>2. /\ LastRank \in Ranks /\ Files(disk) = NCpu /\ Count(disk) = count_time_frames(disk[LastRank])
        /\ Times(disk) = [n \in 1 .. Count(disk) |-> disk[LastRank].groups[n].time]
    BY <2>1, FilesAll
  <2>3. disk[LastRank] \in File /\ FileOk(disk[LastRank])
    BY <2>2 DEF Typed, Writes
  <2> DEFINE f == disk[LastRank]
             k == Count(disk)
  <2>4. k \in 1 .. Len(f.groups) /\ Len(f.groups) \in Nat /\ f.groups[k].time \in Int
        /\ \A n \in 1 .. Len(f.groups) : f.groups[n].time \in Int
    BY <2>1, <2>2, <2>3, CountIs
  <2>5. e = f.groups[k].time /\ e \in Int
    BY <2>1, <2>2, <2>4
  <2>6. t \in Int
    BY <1>2, <2>5 DEF Abs
  <2> HIDE DEF t, e
  <2>7. \A s \in Ranks : /\ pc'[s] = IF s = r THEN "loop" ELSE pc[s]
                         /\ final'[s] = IF s = r THEN t ELSE final[s]
                         /\ now'[s] = IF s = r THEN e ELSE now[s]
    BY <1>1 DEF Typed
  <2>8. Typed'
    BY <1>1, <2>5, <2>6 DEF Typed, readVars
  <2>9. Resumed'
    <3>1. /\ continue' /\ disk' = disk
          /\ \A s \in Ranks : disk'[s].state = "good" /\ pc'[s] \in {"init", "loop"}
      BY <1>4, <2>7 DEF Resumed
    <3>2. \A s \in Ranks : pc'[s] = "loop" => now'[s] = e /\ final'[s] = t
      BY <1>4, <2>1, <2>7 DEF Resumed, e, t
    <3>3. e = Times(disk)[Count(disk)] /\ t = e + Abs(Duration - e)
      BY <2>1 DEF e, t
    <3> QED
      BY <3>1, <3>2, <3>3 DEF Resumed
  <2>10. \A s \in Ranks : Writes(s)'
    <3>1. \A s \in Ranks : FileOk(disk[s]) /\ disk[s] \in File /\ disk[s].state = "good"
      BY <2>1 DEF Writes, Typed
    <3>2. disk[r].frames # None
      <4>1. r < Files(d) /\ Len(disk[r].groups) >= 1
        BY <2>1, <2>2, <3>1 DEF Ranks, FileOk
      <4>2. disk[r].groups[1].whole
        BY <2>1, <4>1 DEF Reads
      <4> QED
        BY <3>1, <4>2 DEF FileOk
    <3> QED
      BY <2>7, <3>1, <3>2 DEF Writes
  <2>11. Together'
    <3>1. \A s \in Ranks : pc'[s] \in {"write", "frame", "loop"} => now'[s] = e /\ final'[s] = t
      BY <1>4, <2>1, <2>7 DEF Resumed, e, t
    <3> QED
      BY <3>1 DEF Together
  <2>12. Ascending'
    <3> SUFFICES ASSUME NEW s \in Ranks, Timed(s)
                 PROVE  /\ Ascends(disk[s])
                        /\ pc'[s] \in {"write", "frame", "loop"} =>
                              \A n \in 1 .. count_time_frames(disk[s]) : disk[s].groups[n].time <= now'[s]
      BY DEF Ascending, Timed
    <3>1. s = LastRank /\ Ascends(f)
      BY <2>1 DEF Timed, Ascending
    <3>2. \A n \in 1 .. k : f.groups[n].time <= e
      <4> HIDE DEF f, k
      <4>1. \A n \in 1 .. k : n \in 1 .. Len(f.groups) /\ n <= k
        BY <2>4
      <4> QED
        BY <2>4, <2>5, <3>1, <4>1 DEF Ascends
    <3>3. pc'[s] = "loop" => now'[s] = e
      BY <2>9, <2>1 DEF Resumed, e
    <3>4. pc'[s] \in {"init", "loop"}
      BY <2>9 DEF Resumed
    <3> QED
      BY <2>2, <3>1, <3>2, <3>3, <3>4
  <2>13. Starts' /\ Reading' /\ SeekFinds'
    BY <2>9, UnreadStep DEF Starts
  <2> QED
    BY <2>8, <2>9, <2>10, <2>11, <2>12, <2>13
<1>5. CASE Scratch /\ ~ Resumed
  <2>1. e = 0
    BY <1>5, ScratchReads
  <2>2. t = Duration
    BY <1>2, <2>1 DEF Abs
  <2> HIDE DEF t, e
  <2>3. \A s \in Ranks : /\ pc'[s] = IF s = r THEN "loop" ELSE pc[s]
                         /\ final'[s] = IF s = r THEN Duration ELSE final[s]
                         /\ now'[s] = IF s = r THEN 0 ELSE now[s]
    BY <1>1, <2>1, <2>2 DEF Typed
  <2>4. Typed'
    BY <1>1, <1>2, <2>1, <2>2 DEF Typed, readVars
  <2>5. disk[r].state = "none" /\ now[r] = 0
    BY <1>5 DEF Scratch
  <2>6. Scratch'
    BY <1>5, <2>3 DEF Scratch
  <2>7. \A s \in Ranks : Writes(s)'
    BY <2>3, <2>5 DEF Writes
  <2>8. Starts' /\ Together'
    BY <2>6 DEF Starts, Together, Scratch
  <2>9. Ascending'
    <3> SUFFICES ASSUME NEW s \in Ranks, Timed(s)
                 PROVE  /\ Ascends(disk[s])
                        /\ pc'[s] \in {"write", "frame", "loop"} =>
                              \A n \in 1 .. count_time_frames(disk[s]) : disk[s].groups[n].time <= now'[s]
      BY DEF Ascending, Timed
    <3>1. disk[r] \in File /\ FileOk(disk[r])
      BY DEF Typed, Writes
    <3>2. count_time_frames(disk[r]) = 0
      BY <2>5, <3>1, CountIs
    <3>3. CASE s = r
      BY <3>2, <3>3 DEF Ascending
    <3>4. CASE s # r
      BY <2>3, <3>4 DEF Ascending
    <3> QED
      BY <3>3, <3>4
  <2>10. Reading' /\ SeekFinds'
    BY UnreadStep
  <2> QED
    BY <1>5, <2>4, <2>7, <2>8, <2>9, <2>10
<1> QED
  BY <1>3, <1>4, <1>5

(* An error ends the run on all ranks. *)
LEMMA FailedKeeps ==
  ASSUME OutputAssumption, IInv, NEW r \in Ranks, pc[r] # "off", pc' = [s \in Ranks |-> "failed"],
         UNCHANGED <<disk, now, final, output_time, continue, launches, torn, readVars>>
  PROVE  IInv'
<1> USE DEF IInv
<1>1. Typed'
  BY DEF Typed, readVars
<1>2. \A s \in Ranks : Writes(s)'
  BY DEF Writes
<1>3. Starts' /\ Together' /\ Ascending'
  BY DEF Starts, Together, Ascending, Timed
<1>4. Reading' /\ SeekFinds'
  BY UnreadStep
<1> QED
  BY <1>1, <1>2, <1>3, <1>4

LEMMA BeginKeeps ==
  ASSUME OutputAssumption, IInv, NEW r \in Ranks, Begin(r)
  PROVE  IInv'
<1>1. pc[r] = "init" /\ pc[r] # "off" /\ UNCHANGED <<disk, output_time, continue, launches, torn, readVars>>
  BY BeginCases
<1>2. CASE RunFromStart(r) /\ Scratch
  BY <1>1, <1>2, RunFromStartKeeps
<1>3. ASSUME NEW d \in Leftovers, Finds(d), Reads(d, 1), Reads(d, Count(d)), Continue(r, d)
      PROVE  IInv'
  BY <1>1, <1>3, ContinueKeeps
<1>4. CASE Fail
  BY <1>1, <1>4, FailedKeeps DEF Fail
<1> QED
  BY <1>2, <1>3, <1>4, BeginCases

(* The file of rank r is appended a frame of its time. *)
LEMMA OpenCases ==
  ASSUME OutputAssumption, IInv, NEW r \in Ranks, OpenFrame(r)
  PROVE  /\ pc[r] = "write" /\ UNCHANGED <<now, final, output_time, continue, launches, torn, readVars>>
         /\ \/ /\ disk[r].state # "none" /\ Len(disk[r].groups) > count_time_frames(disk[r])
               /\ disk' = disk /\ pc' = [s \in Ranks |-> "failed"]
            \/ /\ disk[r].state # "none" => count_time_frames(disk[r]) = Len(disk[r].groups)
               /\ pc' = [pc EXCEPT ![r] = "frame"]
               /\ disk' \in [Ranks -> File]
               /\ \A s \in Ranks : s # r => disk'[s] = disk[s]
               /\ disk'[r].groups = Append(disk[r].groups, [time |-> now[r], whole |-> FALSE])
               /\ disk'[r].frames = disk[r].frames /\ disk'[r].state = "open"
<1> USE DEF IInv
<1>1. pc[r] = "write" /\ UNCHANGED <<now, final, output_time, continue, launches, torn, readVars>>
  BY DEF OpenFrame
<1>2. /\ disk \in [Ranks -> File] /\ disk[r] \in File /\ FileOk(disk[r])
      /\ [time |-> now[r], whole |-> FALSE] \in Frame
      /\ count_time_frames(disk[r]) \in 0 .. Len(disk[r].groups) /\ Len(disk[r].groups) \in Nat
  <2>1. disk \in [Ranks -> File] /\ disk[r] \in File /\ FileOk(disk[r]) /\ [time |-> now[r], whole |-> FALSE] \in Frame
    BY DEF Typed, Writes, Frame
  <2> QED
    BY <2>1, CountIs
<1> DEFINE g == Append(disk[r].groups, [time |-> now[r], whole |-> FALSE])
<1>3. CASE disk[r].state = "none"
  <2>1. disk[r].groups = << >> /\ disk[r].frames = None
    BY <1>2, <1>3 DEF FileOk, NoFile
  <2>2. disk' = [disk EXCEPT ![r] = NewFrame(r)] /\ pc' = [pc EXCEPT ![r] = "frame"]
    BY <1>3 DEF OpenFrame
  <2>3. NewFrame(r) \in File /\ NewFrame(r).groups = g /\ NewFrame(r).frames = None /\ NewFrame(r).state = "open"
    <3> DEFINE x == [time |-> now[r], whole |-> FALSE]
    <3>1. x \in Frame
      BY <1>2
    <3>2. NewFrame(r) = [groups |-> <<x>>, frames |-> None, state |-> "open"] /\ g = Append(<< >>, x)
      BY <2>1 DEF NewFrame
    <3> HIDE DEF x, g
    <3>3. <<x>> \in Seq(Frame) /\ Append(<< >>, x) = <<x>>
      BY <3>1
    <3> QED
      BY <3>2, <3>3 DEF File, None
  <2> HIDE DEF g
  <2> QED
    BY <1>1, <1>2, <1>3, <2>1, <2>2, <2>3 DEF g
<1>4. CASE disk[r].state # "none" /\ Len(disk[r].groups) > count_time_frames(disk[r])
  BY <1>1, <1>4 DEF OpenFrame
<1>5. CASE disk[r].state # "none" /\ ~ (Len(disk[r].groups) > count_time_frames(disk[r]))
  <2>1. /\ disk' = [disk EXCEPT ![r].groups = Append(@, [time |-> now[r], whole |-> FALSE]), ![r].state = "open"]
        /\ pc' = [pc EXCEPT ![r] = "frame"]
    BY <1>5 DEF OpenFrame
  <2>2. g \in Seq(Frame)
    BY <1>2 DEF File
  <2> HIDE DEF g
  <2>3. /\ \A s \in Ranks : s # r => disk'[s] = disk[s]
        /\ disk'[r] = [disk[r] EXCEPT !.groups = g, !.state = "open"]
    BY <1>2, <2>1 DEF g
  <2>4. disk' \in [Ranks -> File] /\ disk'[r].groups = g /\ disk'[r].frames = disk[r].frames /\ disk'[r].state = "open"
    BY <1>2, <2>1, <2>2, <2>3 DEF File
  <2> QED
    BY <1>1, <1>2, <1>5, <2>1, <2>3, <2>4 DEF g
<1> QED
  BY <1>3, <1>4, <1>5

LEMMA OpenKeeps ==
  ASSUME OutputAssumption, IInv, NEW r \in Ranks, OpenFrame(r)
  PROVE  IInv'
<1> USE DEF IInv
<1>1. pc[r] = "write" /\ UNCHANGED <<now, final, output_time, continue, launches, torn, readVars>>
  BY OpenCases
<1>2. CASE disk' = disk /\ pc' = [s \in Ranks |-> "failed"]
  BY <1>1, <1>2, FailedKeeps
<1>3. ASSUME disk[r].state # "none" => count_time_frames(disk[r]) = Len(disk[r].groups),
             pc' = [pc EXCEPT ![r] = "frame"], disk' \in [Ranks -> File],
             \A s \in Ranks : s # r => disk'[s] = disk[s],
             disk'[r].groups = Append(disk[r].groups, [time |-> now[r], whole |-> FALSE]),
             disk'[r].frames = disk[r].frames, disk'[r].state = "open"
      PROVE  IInv'
  <2> DEFINE f == disk[r]
             g == disk'[r]
             n == Len(f.groups)
  <2>1. f \in File /\ FileOk(f) /\ n \in Nat /\ count_time_frames(f) \in 0 .. n /\ now[r] \in Int
        /\ f.groups \in Seq(Frame) /\ (\A i \in 1 .. n : f.groups[i].time \in Int)
        /\ count_time_frames(f) = n
    <3>1. f \in File /\ FileOk(f) /\ now[r] \in Int
      BY DEF Typed, Writes
    <3> HIDE DEF f
    <3>2. n \in Nat /\ count_time_frames(f) \in 0 .. n /\ \A i \in 1 .. n : f.groups[i].time \in Int
      BY <3>1, CountIs
    <3>3. f.state = "none" => n = 0
      BY <3>1, CountIs
    <3> QED
      BY <1>3, <3>1, <3>2, <3>3 DEF f, File
  <2>2. Len(g.groups) = n + 1 /\ (\A i \in 1 .. n : g.groups[i] = f.groups[i])
        /\ g.groups[n + 1] = [time |-> now[r], whole |-> FALSE]
    BY <1>3, <2>1
  <2>3. \A s \in Ranks : pc'[s] = IF s = r THEN "frame" ELSE pc[s]
    BY <1>3 DEF Typed
  <2>4. Typed'
    BY <1>1, <1>3 DEF Typed, readVars
  <2>5. f.state = "none" \/ f.frames # None
    BY <1>1 DEF Writes
  <2>6. f.state = "none" => f.frames = None /\ n = 0
    BY <2>1 DEF FileOk, NoFile
  <2>7. f.frames = None => n = 0
    BY <2>5, <2>6
  <2>8. f.frames # None => f.frames = n
    BY <2>1 DEF count_time_frames
  <2>9. g.frames = f.frames /\ g.state = "open"
    BY <1>3
  <2> HIDE DEF f, g, n
  <2>10. FileOk(g) /\ g.frames \in {None, Len(g.groups) - 1} /\ g.groups[Len(g.groups)].time = now[r]
    <3>1. FileOk(g)
      <4>1. CASE f.frames = None
        BY <2>1, <2>2, <2>7, <2>9, <4>1 DEF FileOk
      <4>2. CASE f.frames # None
        BY <2>1, <2>2, <2>6, <2>8, <2>9, <4>2 DEF FileOk
      <4> QED
        BY <4>1, <4>2
    <3> QED
      BY <2>1, <2>2, <2>8, <2>9, <3>1
  <2>11. \A s \in Ranks : Writes(s)'
    <3> SUFFICES ASSUME NEW s \in Ranks
                 PROVE  Writes(s)'
      OBVIOUS
    <3>1. CASE s = r
      BY <1>1, <2>3, <2>9, <2>10, <3>1 DEF Writes, g
    <3>2. CASE s # r
      BY <1>1, <1>3, <2>3, <3>2 DEF Writes
    <3> QED
      BY <3>1, <3>2
  <2>12. Starts'
    <3> SUFFICES ASSUME NEW s \in Ranks, pc'[s] = "init"
                 PROVE  Scratch'
      BY DEF Starts
    <3>1. Scratch
      BY <1>1, <2>3 DEF Starts, Resumed
    <3>2. n = 0 /\ now[r] = 0
      BY <1>1, <2>6, <3>1 DEF Scratch, f
    <3>3. \A i \in 1 .. Len(g.groups) : i = 1 /\ g.groups[i].time = 0
      BY <2>2, <3>2
    <3>4. final[r] = Duration
      BY <1>1, <3>1 DEF Scratch
    <3>5. ASSUME NEW q \in Ranks
          PROVE  /\ now'[q] = 0
                 /\ pc'[q] \in {"init", "write"} => disk'[q].state = "none"
                 /\ pc'[q] \in {"write", "frame", "loop"} => final'[q] = Duration
                 /\ \A i \in 1 .. Len(disk'[q].groups) : i = 1 /\ disk'[q].groups[i].time = 0
      <4>1. CASE q = r
        BY <1>1, <2>3, <3>2, <3>3, <3>4, <4>1 DEF g
      <4>2. CASE q # r
        BY <1>1, <1>3, <2>3, <3>1, <4>2 DEF Scratch
      <4> QED
        BY <4>1, <4>2
    <3> QED
      BY <3>5 DEF Scratch
  <2>13. Together'
    BY <1>1, <2>3 DEF Together
  <2>14. Ascending'
    <3> SUFFICES ASSUME NEW s \in Ranks, Timed(s)'
                 PROVE  /\ Ascends(disk'[s])
                        /\ pc'[s] \in {"write", "frame", "loop"} =>
                              \A i \in 1 .. count_time_frames(disk'[s]) : disk'[s].groups[i].time <= now[s]
      BY <1>1 DEF Ascending
    <3>1. Timed(s)
      BY <1>3 DEF Timed
    <3>2. CASE s # r
      BY <1>3, <2>3, <3>1, <3>2 DEF Ascending
    <3>3. CASE s = r
      <4>1. Ascends(f) /\ \A i \in 1 .. n : f.groups[i].time <= now[r]
        BY <1>1, <2>1, <3>1, <3>3 DEF Ascending, f
      <4>2. ASSUME NEW i \in 1 .. n + 1
            PROVE  g.groups[i].time <= now[r]
        <5>1. CASE i = n + 1
          BY <2>1, <2>2, <5>1
        <5>2. CASE i # n + 1
          <6>1. i \in 1 .. n
            BY <2>1, <5>2
          <6> QED
            BY <2>2, <4>1, <6>1
        <5> QED
          BY <5>1, <5>2
      <4>3. Ascends(g)
        <5> SUFFICES ASSUME NEW i \in 1 .. n + 1, NEW j \in 1 .. n + 1, i <= j
                     PROVE  g.groups[i].time <= g.groups[j].time
          BY <2>2 DEF Ascends
        <5>1. CASE j = n + 1
          BY <2>1, <2>2, <4>2, <5>1
        <5>2. CASE j # n + 1
          <6>1. i \in 1 .. n /\ j \in 1 .. n
            BY <2>1, <5>2
          <6>2. f.groups[i].time <= f.groups[j].time
            BY <4>1, <6>1 DEF Ascends, n
          <6> QED
            BY <2>2, <6>1, <6>2
        <5> QED
          BY <5>1, <5>2
      <4>4. count_time_frames(g) <= n + 1 /\ count_time_frames(g) \in Int
        BY <2>1, <2>2, <2>8, <2>9 DEF count_time_frames
      <4>5. \A i \in 1 .. count_time_frames(g) : g.groups[i].time <= now[r]
        BY <2>1, <4>2, <4>4
      <4> QED
        BY <3>3, <4>3, <4>5 DEF g
    <3> QED
      BY <3>2, <3>3
  <2>15. Reading' /\ SeekFinds'
    BY <1>1, UnreadStep
  <2> QED
    BY <2>4, <2>11, <2>12, <2>13, <2>14, <2>15
<1> QED
  BY <1>2, <1>3, OpenCases

(* The frame that was written is whole and counted. *)
LEMMA CloseIs ==
  ASSUME OutputAssumption, IInv, NEW r \in Ranks, CloseFrame(r)
  PROVE  /\ pc[r] = "frame" /\ UNCHANGED <<now, final, output_time, continue, launches, torn, readVars>>
         /\ pc' = [pc EXCEPT ![r] = "loop"]
         /\ disk' \in [Ranks -> File]
         /\ \A s \in Ranks : s # r => disk'[s] = disk[s]
         /\ disk'[r].state = "good" /\ disk'[r].frames = Len(disk[r].groups)
         /\ Len(disk'[r].groups) = Len(disk[r].groups) /\ Len(disk[r].groups) \in Nat \ {0}
         /\ \A n \in 1 .. Len(disk[r].groups) :
               /\ disk'[r].groups[n].time = disk[r].groups[n].time /\ disk[r].groups[n].time \in Int
               /\ disk[r].groups[n].whole \/ n = Len(disk[r].groups) => disk'[r].groups[n].whole
         /\ \A n \in 1 .. Len(disk[r].groups) - 1 : disk'[r].groups[n] = disk[r].groups[n]
         /\ now[r] = disk[r].groups[Len(disk[r].groups)].time
         /\ disk[r].state = "open" /\ disk[r].frames \in {None, Len(disk[r].groups) - 1}
<1> USE DEF IInv
<1> DEFINE f == disk[r]
           n == Len(f.groups)
           q == [f.groups EXCEPT ![n].whole = TRUE]
<1>1. /\ pc[r] = "frame" /\ UNCHANGED <<now, final, output_time, continue, launches, torn, readVars>>
      /\ pc' = [pc EXCEPT ![r] = "loop"]
      /\ disk' = [disk EXCEPT ![r] = [groups |-> q, frames |-> n, state |-> "good"]]
  BY DEF CloseFrame
<1>2. disk \in [Ranks -> File] /\ f \in File /\ FileOk(f)
  BY DEF Typed, Writes
<1>3. f.state = "open" /\ f.frames \in {None, n - 1} /\ f.groups[n].time = now[r]
  BY <1>1 DEF Writes
<1>4. disk'[r] = [groups |-> q, frames |-> n, state |-> "good"]
      /\ \A s \in Ranks : s # r => disk'[s] = disk[s]
  BY <1>1, <1>2
<1> HIDE DEF f
<1>5. f.groups \in Seq(Frame) /\ n \in Nat /\ n >= 1
  BY <1>2, <1>3 DEF File, FileOk
<1>6. \A i \in 1 .. n : f.groups[i] \in Frame
  BY <1>5
<1> HIDE DEF n
<1>7. f.groups \in [1 .. n -> Frame] /\ n \in 1 .. n
  BY <1>5, <1>6 DEF n
<1>8. [f.groups[n] EXCEPT !.whole = TRUE] \in Frame /\ [f.groups[n] EXCEPT !.whole = TRUE].time = f.groups[n].time
      /\ [f.groups[n] EXCEPT !.whole = TRUE].whole = TRUE
  BY <1>6, <1>7 DEF Frame
<1>9. q = [f.groups EXCEPT ![n] = [f.groups[n] EXCEPT !.whole = TRUE]]
  BY <1>7
<1> HIDE DEF q
<1>10. q \in [1 .. n -> Frame]
  BY <1>7, <1>8, <1>9
<1>11. q \in Seq(Frame) /\ Len(q) = n
  BY <1>5, <1>10
<1>12. \A i \in 1 .. n : /\ q[i].time = f.groups[i].time /\ f.groups[i].time \in Int
                         /\ f.groups[i].whole \/ i = n => q[i].whole
                         /\ i # n => q[i] = f.groups[i]
  BY <1>6, <1>7, <1>8, <1>9 DEF Frame
<1>13. disk'[r].groups = q /\ disk'[r].frames = n /\ disk'[r].state = "good" /\ disk'[r] \in File
  BY <1>4, <1>5, <1>11 DEF File
<1>14. disk' \in [Ranks -> File]
  BY <1>1, <1>2, <1>4, <1>13
<1>15. \A i \in 1 .. n - 1 : i \in 1 .. n /\ i # n
  BY <1>5
<1>16. /\ Len(disk'[r].groups) = n /\ n \in Nat \ {0}
       /\ \A i \in 1 .. n : /\ disk'[r].groups[i].time = f.groups[i].time /\ f.groups[i].time \in Int
                            /\ f.groups[i].whole \/ i = n => disk'[r].groups[i].whole
       /\ \A i \in 1 .. n - 1 : disk'[r].groups[i] = f.groups[i]
  BY <1>5, <1>11, <1>12, <1>13, <1>15
<1>17. pc' = [pc EXCEPT ![r] = "loop"]
  BY <1>1
<1> QED
  BY <1>1, <1>3, <1>4, <1>13, <1>14, <1>16, <1>17 DEF f, n

LEMMA CloseKeeps ==
  ASSUME OutputAssumption, IInv, NEW r \in Ranks, CloseFrame(r)
  PROVE  IInv'
<1> USE DEF IInv
<1> DEFINE f == disk[r]
           g == disk'[r]
           n == Len(f.groups)
<1>1. /\ pc[r] = "frame" /\ UNCHANGED <<now, final, output_time, continue, launches, torn, readVars>>
      /\ pc' = [pc EXCEPT ![r] = "loop"] /\ disk' \in [Ranks -> File]
      /\ \A s \in Ranks : s # r => disk'[s] = disk[s]
  BY CloseIs
<1>2. /\ g.state = "good" /\ g.frames = n /\ Len(g.groups) = n /\ n \in Nat \ {0}
      /\ \A i \in 1 .. n : g.groups[i].time = f.groups[i].time /\ f.groups[i].time \in Int
      /\ now[r] = f.groups[n].time /\ f.state = "open" /\ f.frames \in {None, n - 1}
  BY CloseIs
<1>3. \A s \in Ranks : pc'[s] = IF s = r THEN "loop" ELSE pc[s]
  BY <1>1 DEF Typed
<1>4. Typed'
  BY <1>1 DEF Typed, readVars
<1> HIDE DEF f, g, n
<1>5. \A s \in Ranks : Writes(s)'
  <2> SUFFICES ASSUME NEW s \in Ranks
               PROVE  Writes(s)'
    OBVIOUS
  <2>1. CASE s = r
    <3>1. FileOk(g)
      BY <1>2 DEF FileOk, None
    <3> QED
      BY <1>2, <1>3, <2>1, <3>1 DEF Writes, g, None
  <2>2. CASE s # r
    BY <1>1, <1>3, <2>2 DEF Writes
  <2> QED
    BY <2>1, <2>2
<1>6. Starts'
  <2> SUFFICES ASSUME NEW s \in Ranks, pc'[s] = "init"
               PROVE  Scratch'
    BY DEF Starts
  <2>1. Scratch
    BY <1>1, <1>3 DEF Starts, Resumed
  <2>2. \A i \in 1 .. Len(g.groups) : i = 1 /\ g.groups[i].time = 0
    BY <1>2, <2>1 DEF Scratch, f, n
  <2>3. final[r] = Duration /\ now[r] = 0
    BY <1>1, <2>1 DEF Scratch
  <2>4. ASSUME NEW q \in Ranks
        PROVE  /\ now'[q] = 0
               /\ pc'[q] \in {"init", "write"} => disk'[q].state = "none"
               /\ pc'[q] \in {"write", "frame", "loop"} => final'[q] = Duration
               /\ \A i \in 1 .. Len(disk'[q].groups) : i = 1 /\ disk'[q].groups[i].time = 0
    <3>1. CASE q = r
      BY <1>1, <1>3, <2>2, <2>3, <3>1 DEF g
    <3>2. CASE q # r
      BY <1>1, <1>3, <2>1, <3>2 DEF Scratch
    <3> QED
      BY <3>1, <3>2
  <2> QED
    BY <2>4 DEF Scratch
<1>7. Together'
  BY <1>1, <1>3 DEF Together
<1>8. Ascending'
  <2> SUFFICES ASSUME NEW s \in Ranks, Timed(s)'
               PROVE  /\ Ascends(disk'[s])
                      /\ pc'[s] \in {"write", "frame", "loop"} =>
                            \A i \in 1 .. count_time_frames(disk'[s]) : disk'[s].groups[i].time <= now[s]
    BY <1>1 DEF Ascending
  <2>1. Timed(s)
    BY <1>1, <1>2 DEF Timed, g
  <2>2. CASE s # r
    BY <1>1, <1>3, <2>1, <2>2 DEF Ascending
  <2>3. CASE s = r
    <3>1. Ascends(f) /\ \A i \in 1 .. count_time_frames(f) : f.groups[i].time <= now[r]
      BY <1>1, <2>1, <2>3 DEF Ascending, f
    <3>2. \A i, j \in 1 .. n : i <= j => f.groups[i].time <= f.groups[j].time
      BY <3>1 DEF Ascends, n
    <3>3. Ascends(g)
      BY <1>2, <3>2 DEF Ascends
    <3>4. \A i \in 1 .. n : f.groups[i].time <= now[r]
      BY <1>2, <3>2
    <3>5. count_time_frames(g) = n
      BY <1>2 DEF count_time_frames, None
    <3> QED
      BY <1>2, <2>3, <3>3, <3>4, <3>5 DEF g
  <2> QED
    BY <2>2, <2>3
<1>9. Reading' /\ SeekFinds'
  BY <1>1, UnreadStep
<1> QED
  BY <1>4, <1>5, <1>6, <1>7, <1>8, <1>9
-----------------------------------------------------------------------------
(* The table of times a reader has. *)
LEMMA TableAscends ==
  ASSUME OutputAssumption, IInv, Finds(disk)
  PROVE  /\ Count(disk) \in Nat
         /\ \A n \in 1 .. Count(disk) : Times(disk)[n] \in Int
         /\ \A i, j \in 1 .. Count(disk) : i <= j => Times(disk)[i] <= Times(disk)[j]
<1> USE DEF IInv
<1> DEFINE k == Files(disk) - 1
<1>1. k \in Ranks
  BY FilesCounted DEF Finds, Ranks, OutputAssumption
<1>2. Timed(k)
  BY FilesCounted DEF Timed, LastRank
<1>3. disk[k] \in File /\ FileOk(disk[k])
  BY <1>1 DEF Typed, Writes
<1>4. Ascends(disk[k])
  BY <1>1, <1>2 DEF Ascending
<1>5. Count(disk) = count_time_frames(disk[k]) /\ Times(disk) = [n \in 1 .. Count(disk) |-> disk[k].groups[n].time]
  <2>1. Count(disk) = count_time_frames(disk[k])
    BY DEF Count
  <2>2. Times(disk) = [n \in 1 .. Count(disk) |-> disk[k].groups[n].time]
    BY DEF Times
  <2> QED
    BY <2>1, <2>2
<1> HIDE DEF k
<1>6. /\ Len(disk[k].groups) \in Nat /\ count_time_frames(disk[k]) \in 0 .. Len(disk[k].groups)
      /\ \A n \in 1 .. Len(disk[k].groups) : disk[k].groups[n].time \in Int
  BY <1>3, CountIs
<1>7. Count(disk) \in Nat /\ \A n \in 1 .. Count(disk) : n \in 1 .. Len(disk[k].groups) /\ Times(disk)[n] = disk[k].groups[n].time
  BY <1>5, <1>6
<1> QED
  BY <1>4, <1>6, <1>7 DEF Ascends

(* Steps of a reader change nothing else. *)
LEMMA ReadKeeps ==
  ASSUME OutputAssumption, IInv, UNCHANGED runVars, cur' \in Nat, sought' \in Int,
         search' = {} \/ (\E s \in Loops : search' = {s}), Reading', SeekFinds'
  PROVE  IInv'
<1> USE DEF IInv
<1>1. UNCHANGED <<disk, pc, now, final, output_time, continue, launches, torn>>
  BY DEF runVars
<1>2. Typed'
  BY <1>1 DEF Typed
<1>3. \A s \in Ranks : Writes(s)'
  BY <1>1 DEF Writes
<1>4. Starts' /\ Together' /\ Ascending'
  BY <1>1 DEF Starts, Resumed, Scratch, Together, Ascending, Timed
<1> QED
  BY <1>2, <1>3, <1>4

(* A reader that turns to frame n, without a seek or at the end of one. *)
LEMMA AtKeeps ==
  ASSUME OutputAssumption, IInv, All("off"), Finds(disk), NEW n, At(n),
         sought' = None \/ (sought' = sought /\ (n \in 1 .. Count(disk) => SeekFinds'))
  PROVE  IInv'
<1>1. UNCHANGED runVars /\ search' = {} /\ cur' = IF Reads(disk, n) THEN n ELSE 0
  BY DEF At
<1>2. Reads(disk, n) => n \in 1 .. Count(disk)
  BY DEF Reads
<1>3. disk' = disk /\ pc' = pc
  BY <1>1 DEF runVars
<1>4. Count(disk) \in Nat
  BY TableAscends
<1>5. cur' \in Nat /\ (cur' # 0 => cur' = n /\ n \in 1 .. Count(disk))
  BY <1>1, <1>2, <1>4
<1>6. sought' \in Int
  BY DEF IInv, Typed, None
<1>7. Reading'
  BY <1>1, <1>3, <1>5 DEF Reading, All
<1>8. SeekFinds'
  <2>1. CASE sought' = None \/ cur' = 0
    BY <2>1 DEF SeekFinds
  <2>2. CASE sought' = sought /\ cur' # 0 /\ (n \in 1 .. Count(disk) => SeekFinds')
    BY <1>5, <2>2
  <2> QED
    BY <2>1, <2>2
<1> QED
  BY <1>1, <1>5, <1>6, <1>7, <1>8, ReadKeeps

LEMMA SeekKeeps ==
  ASSUME OutputAssumption, IInv, NEW t \in 0 .. Duration, Seek(t)
  PROVE  IInv'
<1> DEFINE N == Count(disk)
           s == [l |-> 1, h |-> N, m |-> 1]
<1>1. cur # 0 /\ search' = {s} /\ sought' = t /\ UNCHANGED <<runVars, cur>>
  BY DEF Seek, SearchIn
<1>2. All("off") /\ Finds(disk) /\ cur \in 1 .. N
  BY <1>1 DEF IInv, Reading
<1>3. N \in Nat /\ N >= 1 /\ \A n \in 1 .. N : Times(disk)[n] \in Int
  BY <1>2, TableAscends
<1>4. disk' = disk /\ pc' = pc
  BY <1>1 DEF runVars
<1>5. t \in Int
  OBVIOUS
<1> HIDE DEF N
<1>6. PICK z \in Loops : z = s /\ z.l = 1 /\ z.h = N
  <2>1. s \in Loops /\ s.l = 1 /\ s.h = N
    BY <1>3 DEF Loops
  <2> HIDE DEF s
  <2> QED
    BY <2>1
<1> HIDE DEF s
<1>7. Searching(z)'
  BY <1>3, <1>4, <1>6 DEF Searching, N
<1>8. Reading'
  BY <1>1, <1>2, <1>4, <1>6, <1>7 DEF Reading, All, N
<1>9. SeekFinds'
  BY <1>1 DEF SeekFinds
<1>10. cur' \in Nat
  BY <1>1 DEF IInv, Typed
<1> QED
  BY <1>1, <1>5, <1>6, <1>8, <1>9, <1>10, ReadKeeps

LEMMA MiddleIs ==
  ASSUME NEW s \in Loops, s.l <= s.h
  PROVE  Middle(s) \in Int /\ s.l <= Middle(s) /\ Middle(s) <= s.h
BY DEF Middle, Loops

(* A pass of the loop halves the range the sought time may be in. *)
LEMMA HalveKeeps ==
  ASSUME OutputAssumption, IInv, Halve
  PROVE  IInv'
<1> DEFINE N == Count(disk)
           T == Times(disk)
<1>1. PICK s \in search :
         /\ s.l <= s.h /\ T[Middle(s)] # sought
         /\ search' = {IF sought < T[Middle(s)] THEN [l |-> s.l, h |-> Middle(s) - 1, m |-> Middle(s)]
                                               ELSE [l |-> Middle(s) + 1, h |-> s.h, m |-> Middle(s)]}
         /\ UNCHANGED <<runVars, cur, sought>>
  BY DEF Halve
<1>2. s \in Loops /\ cur # 0 /\ Searching(s) /\ sought \in Int /\ cur \in Nat
  BY DEF IInv, Typed, Reading
<1>3. All("off") /\ Finds(disk) /\ cur \in 1 .. N
  BY <1>2 DEF IInv, Reading
<1>4. /\ N \in Nat /\ (\A n \in 1 .. N : T[n] \in Int)
      /\ \A i, j \in 1 .. N : i <= j => T[i] <= T[j]
  BY <1>3, TableAscends
<1>5. disk' = disk /\ pc' = pc /\ sought' = sought /\ cur' = cur /\ UNCHANGED runVars
  BY <1>1 DEF runVars
<1>6. /\ s.l \in 1 .. N + 1 /\ s.h \in 0 .. N
      /\ \A n \in 1 .. N : (n < s.l => T[n] < sought) /\ (n > s.h => sought < T[n])
  BY <1>2 DEF Searching
<1> DEFINE m == Middle(s)
<1>7. m \in Int /\ s.l <= m /\ m <= s.h /\ m \in 1 .. N
  BY <1>1, <1>2, <1>4, <1>6, MiddleIs
<1> HIDE DEF N, T, m
<1>8. CASE sought < T[m]
  <2> DEFINE z == [l |-> s.l, h |-> m - 1, m |-> m]
  <2>1. search' = {z}
    BY <1>1, <1>8 DEF m, T
  <2>2. z \in Loops /\ z.l = s.l /\ z.h = m - 1 /\ z.m = m
    BY <1>2, <1>7 DEF Loops
  <2> HIDE DEF z
  <2>3. \A n \in 1 .. N : n > z.h => sought < T[n]
    BY <1>2, <1>4, <1>7, <1>8, <2>2
  <2>4. z.l <= z.h \/ (z.l = z.h + 1 /\ z.m \in {z.l, z.h})
    BY <1>6, <1>7, <2>2
  <2>5. Searching(z)
    BY <1>4, <1>6, <1>7, <2>2, <2>3, <2>4 DEF Searching, N, T
  <2>6. Searching(z)'
    BY <1>5, <2>5 DEF Searching
  <2> QED
    BY <1>2, <1>3, <1>5, <2>1, <2>2, <2>6, ReadKeeps DEF Reading, All, SeekFinds, N
<1>9. CASE ~ (sought < T[m])
  <2> DEFINE z == [l |-> m + 1, h |-> s.h, m |-> m]
  <2>1. search' = {z} /\ T[m] < sought
    <3>1. search' = {z} /\ T[m] # sought
      BY <1>1, <1>9 DEF m, T
    <3> QED
      BY <1>2, <1>4, <1>7, <1>9, <3>1
  <2>2. z \in Loops /\ z.l = m + 1 /\ z.h = s.h /\ z.m = m
    BY <1>2, <1>7 DEF Loops
  <2> HIDE DEF z
  <2>3. \A n \in 1 .. N : n < z.l => T[n] < sought
    BY <1>2, <1>4, <1>7, <2>1, <2>2
  <2>4. z.l <= z.h \/ (z.l = z.h + 1 /\ z.m \in {z.l, z.h})
    BY <1>6, <1>7, <2>2
  <2>5. Searching(z)
    BY <1>4, <1>6, <1>7, <2>2, <2>3, <2>4 DEF Searching, N, T
  <2>6. Searching(z)'
    BY <1>5, <2>5 DEF Searching
  <2> QED
    BY <1>2, <1>3, <1>5, <2>1, <2>2, <2>6, ReadKeeps DEF Reading, All, SeekFinds, N
<1> QED
  BY <1>8, <1>9

(* The loop ends at a frame of the sought time, or next to where it would be. *)
LEMMA SoughtKeeps ==
  ASSUME OutputAssumption, IInv, Sought
  PROVE  IInv'
<1> DEFINE N == Count(disk)
           T == Times(disk)
<1>1. PICK s \in search :
         /\ \/ s.l <= s.h /\ T[Middle(s)] = sought /\ At(Middle(s))
            \/ s.l > s.h /\ At(IF s.h < 1 THEN s.l ELSE IF s.l > N THEN s.h ELSE s.m)
         /\ UNCHANGED sought
  BY DEF Sought
<1>2. s \in Loops /\ cur # 0 /\ Searching(s) /\ sought \in Int
  BY DEF IInv, Typed, Reading
<1>3. All("off") /\ Finds(disk)
  BY <1>2 DEF IInv, Reading
<1>4. /\ N \in Nat /\ (\A n \in 1 .. N : T[n] \in Int)
      /\ \A i, j \in 1 .. N : i <= j => T[i] <= T[j]
  BY <1>3, TableAscends
<1>5. /\ s.l \in 1 .. N + 1 /\ s.h \in 0 .. N
      /\ s.l <= s.h \/ (s.l = s.h + 1 /\ s.m \in {s.l, s.h})
      /\ \A n \in 1 .. N : (n < s.l => T[n] < sought) /\ (n > s.h => sought < T[n])
  BY <1>2 DEF Searching
<1>6. PICK k : /\ At(k)
               /\ \/ s.l <= s.h /\ T[k] = sought
                  \/ s.l = s.h + 1 /\ k \in {s.l, s.h}
  <2>1. CASE s.l <= s.h /\ T[Middle(s)] = sought /\ At(Middle(s))
    BY <2>1
  <2>2. CASE s.l > s.h /\ At(IF s.h < 1 THEN s.l ELSE IF s.l > N THEN s.h ELSE s.m)
    <3> DEFINE k == IF s.h < 1 THEN s.l ELSE IF s.l > N THEN s.h ELSE s.m
    <3>1. s.l = s.h + 1 /\ k \in {s.l, s.h}
      BY <1>5, <2>2
    <3> QED
      BY <2>2, <3>1
  <2> QED
    BY <1>1, <2>1, <2>2
<1>7. ASSUME k \in 1 .. N
      PROVE  \A n \in 1 .. N : ~ ((T[k] < T[n] /\ T[n] <= sought) \/ (sought <= T[n] /\ T[n] < T[k]))
  <2> HIDE DEF N, T
  <2> SUFFICES ASSUME NEW n \in 1 .. N
               PROVE  ~ ((T[k] < T[n] /\ T[n] <= sought) \/ (sought <= T[n] /\ T[n] < T[k]))
    OBVIOUS
  <2>1. T[n] \in Int /\ T[k] \in Int
    BY <1>4, <1>7
  <2>2. CASE T[k] = sought
    BY <1>2, <2>1, <2>2
  <2>3. CASE s.l = s.h + 1 /\ k \in {s.l, s.h}
    <3>1. CASE n < s.l
      <4>1. T[n] < sought /\ n <= k
        BY <1>5, <1>7, <2>3, <3>1
      <4>2. T[n] <= T[k]
        BY <1>4, <1>7, <4>1
      <4> QED
        BY <1>2, <2>1, <4>1, <4>2
    <3>2. CASE n >= s.l
      <4>1. sought < T[n] /\ k <= n
        BY <1>5, <1>7, <2>3, <3>2
      <4>2. T[k] <= T[n]
        BY <1>4, <1>7, <4>1
      <4> QED
        BY <1>2, <2>1, <4>1, <4>2
    <3> QED
      BY <1>5, <3>1, <3>2
  <2> QED
    BY <1>6, <2>2, <2>3
<1>8. k \in 1 .. N => SeekFinds'
  <2>1. disk' = disk /\ sought' = sought /\ cur' \in {k, 0}
    BY <1>1, <1>6 DEF At, runVars
  <2>2. Times(disk) = T /\ Len(T) = N
    BY <1>4 DEF Times
  <2> HIDE DEF N, T
  <2> QED
    BY <1>7, <2>1, <2>2 DEF SeekFinds
<1> QED
  BY <1>1, <1>3, <1>6, <1>8, AtKeeps
-----------------------------------------------------------------------------
LEMMA InitHolds ==
  ASSUME OutputAssumption, Init
  PROVE  IInv
<1>1. NoFile \in File
  BY DEF NoFile, File, None
<1>2. Interval \in Int
  BY DEF OutputAssumption
<1>3. Typed
  <2>1. /\ disk \in [Ranks -> File] /\ pc \in [Ranks -> {"off"}]
        /\ now \in [Ranks -> Int] /\ final \in [Ranks -> Int] /\ output_time \in [Ranks -> Int]
    BY <1>1, <1>2 DEF Init
  <2>2. continue \in BOOLEAN /\ torn \in BOOLEAN /\ launches = 0 /\ cur = 0 /\ sought = -1 /\ search = {}
    BY DEF Init, None
  <2> QED
    BY <2>1, <2>2 DEF Typed
<1>4. \A r \in Ranks : Writes(r)
  BY DEF Init, Writes, FileOk, NoFile
<1>5. Starts /\ Together
  BY DEF Init, Starts, Together
<1>6. Ascending
  BY DEF Init, Ascending, Ascends, NoFile
<1>7. Reading /\ SeekFinds
  BY DEF Init, Reading, SeekFinds
<1> QED
  BY <1>3, <1>4, <1>5, <1>6, <1>7 DEF IInv

LEMMA StutterKeeps ==
  ASSUME OutputAssumption, IInv, UNCHANGED outputVars
  PROVE  IInv'
<1>1. UNCHANGED runVars /\ UNCHANGED <<cur, sought, search>> /\ UNCHANGED <<disk, pc>>
  BY DEF outputVars, readVars, runVars
<1>2. Reading' /\ SeekFinds'
  BY <1>1 DEF IInv, Reading, Searching, All, SeekFinds
<1> QED
  BY <1>1, <1>2, ReadKeeps DEF IInv, Typed

LEMMA NextKeeps ==
  ASSUME OutputAssumption, IInv, Next
  PROVE  IInv'
<1>1. ASSUME NEW r \in Ranks, Begin(r) \/ OpenFrame(r) \/ CloseFrame(r)
      PROVE  IInv'
  BY <1>1, BeginKeeps, OpenKeeps, CloseKeeps
<1>2. CASE OpenToRead
  BY <1>2, AtKeeps DEF OpenToRead
<1>3. ASSUME NEW t \in 0 .. Duration, Seek(t)
      PROVE  IInv'
  BY <1>3, SeekKeeps
<1>4. ASSUME NEW steps \in 1 .. 2, Forward(steps) \/ Backward(steps)
      PROVE  IInv'
  <2>1. cur # 0 /\ sought' = None /\ \E n : At(n)
    BY <1>4 DEF Forward, Backward
  <2>2. All("off") /\ Finds(disk)
    BY <2>1 DEF IInv, Reading
  <2> QED
    BY <2>1, <2>2, AtKeeps
<1> QED
  BY <1>1, <1>2, <1>3, <1>4, LaunchKeeps, TimeStepKeeps, StopKeeps, DieKeeps, HalveKeeps, SoughtKeeps DEF Next

(* The invariant the other theorems rest on. *)
THEOREM OutputInvariant == Spec => []IInv
<1>1. Init => IInv
  BY InitHolds, OutputAssumption
<1>2. IInv /\ [Next]_outputVars => IInv'
  BY NextKeeps, StutterKeeps, OutputAssumption
<1> QED
  BY <1>1, <1>2, PTL DEF Spec

(* A seek ends at the frame of the time asked for, or next to where that time would be,
   in any output: through restarts, deaths of its writers and -c without results. *)
THEOREM SeeksFind == Spec => []SeekFinds
<1>1. IInv => SeekFinds
  BY DEF IInv
<1> QED
  BY <1>1, OutputInvariant, PTL

(* A step keeps the completed frames of a file, or breaks it, or starts from scratch. *)
FrameStays(r, n) ==
    \/ n \in Completed(disk'[r]) /\ disk'[r].groups[n] = disk[r].groups[n]
    \/ disk[r].state = "open" /\ disk'[r].state = "broken"
    \/ launches' # launches /\ \E s \in Ranks : disk[s].state \in {"none", "broken"}
FramesStay == \A r \in Ranks : \A n \in Completed(disk[r]) : FrameStays(r, n)

(* A file with a completed frame has the attribute FRAMES, which counts it. *)
LEMMA CompletedIs ==
  ASSUME NEW f \in File, FileOk(f), NEW n \in Completed(f)
  PROVE  /\ f.state \in {"open", "good"} /\ f.frames \in 1 .. Len(f.groups) /\ n \in 1 .. f.frames
         /\ count_time_frames(f) = f.frames /\ Len(f.groups) \in Nat /\ f.groups \in Seq(Frame)
         /\ f.groups[n].whole
<1>1. f.groups \in Seq(Frame) /\ Len(f.groups) \in Nat /\ f.state \in {"none", "open", "good", "broken"}
  BY DEF File
<1>2. n \in 1 .. count_time_frames(f) /\ f.groups[n].whole /\ f.state # "broken"
  BY DEF Completed
<1>3. f.state # "none"
  BY <1>1, <1>2, CountIs
<1>4. f.frames # None
  BY <1>1, <1>2, <1>3 DEF FileOk, count_time_frames
<1> QED
  BY <1>1, <1>2, <1>3, <1>4 DEF FileOk, count_time_frames, None

(* It is completed in any file that has the same frame and counts no less. *)
LEMMA StaysCompleted ==
  ASSUME NEW r \in Ranks, NEW n \in Completed(disk[r]),
         n \in 1 .. count_time_frames(disk'[r]), disk'[r].groups[n] = disk[r].groups[n],
         disk'[r].state # "broken"
  PROVE  FrameStays(r, n)
BY DEF FrameStays, Completed

LEMMA StepKeepsFrames ==
  ASSUME OutputAssumption, IInv, Next
  PROVE  FramesStay
<1> SUFFICES ASSUME NEW r \in Ranks, NEW n \in Completed(disk[r])
             PROVE  FrameStays(r, n)
  BY DEF FramesStay
<1>1. disk[r] \in File /\ FileOk(disk[r])
  BY DEF IInv, Typed, Writes
<1>2. /\ disk[r].state \in {"open", "good"} /\ disk[r].frames \in 1 .. Len(disk[r].groups)
      /\ n \in 1 .. disk[r].frames /\ count_time_frames(disk[r]) = disk[r].frames
      /\ Len(disk[r].groups) \in Nat /\ disk[r].groups \in Seq(Frame)
  BY <1>1, CompletedIs
<1>3. ASSUME disk'[r] = disk[r]
      PROVE  FrameStays(r, n)
  BY <1>3 DEF FrameStays
<1>4. CASE Launch
  <2>1. CASE Finds(disk)
    BY <1>3, <1>4, <2>1 DEF Launch
  <2>2. CASE \E s \in Ranks : disk[s].state \in {"none", "broken"}
    <3>1. launches' # launches
      BY <1>4 DEF Launch, IInv, Typed
    <3> QED
      BY <2>2, <3>1 DEF FrameStays
  <2>3. CASE \A s \in Ranks : disk[s].state \notin {"none", "broken"}
    <3>1. \A s \in Ranks : disk[s].state = "good"
      BY <1>4, <2>3 DEF Launch, All, IInv, Typed, Writes, File
    <3>2. Files(disk) = NCpu
      BY <2>3, FilesAll
    <3>3. Finds(disk)
      BY <3>1, <3>2 DEF Finds, OutputAssumption
    <3> QED
      BY <2>1, <3>3
  <2> QED
    BY <2>1, <2>2, <2>3
<1>5. CASE Die
  <2>1. disk'[r] \in Left(disk[r])
    BY <1>5 DEF Die, Leftovers
  <2>2. CASE disk[r].state # "open"
    BY <1>3, <2>1, <2>2 DEF Left
  <2>3. CASE disk[r].state = "open"
    <3>1. CASE disk'[r] = [disk[r] EXCEPT !.state = "broken"]
      BY <1>1, <2>3, <3>1 DEF FrameStays, File
    <3>2. CASE disk'[r] = [disk[r] EXCEPT !.state = "good"]
      <4>1. disk'[r].state = "good" /\ disk'[r].groups = disk[r].groups /\ disk'[r].frames = disk[r].frames
        BY <1>1, <3>2 DEF File
      <4> QED
        BY <1>2, <4>1, StaysCompleted DEF count_time_frames
    <3>3. CASE disk'[r] = [disk[r] EXCEPT !.state = "good", !.groups = SubSeq(@, 1, disk[r].frames)]
      <4> DEFINE q == SubSeq(disk[r].groups, 1, disk[r].frames)
      <4>1. disk'[r].state = "good" /\ disk'[r].groups = q /\ disk'[r].frames = disk[r].frames
        BY <1>1, <3>3 DEF File
      <4>2. Len(q) = disk[r].frames /\ q[n] = disk[r].groups[n]
        BY <1>2
      <4> HIDE DEF q
      <4>3. n \in 1 .. count_time_frames(disk'[r])
        BY <1>2, <4>1, <4>2 DEF count_time_frames
      <4> QED
        BY <4>1, <4>2, <4>3, StaysCompleted
    <3> QED
      BY <1>2, <2>1, <2>3, <3>1, <3>2, <3>3 DEF Left, None
  <2> QED
    BY <2>2, <2>3
<1>6. ASSUME NEW s \in Ranks, OpenFrame(s)
      PROVE  FrameStays(r, n)
  <2>1. CASE disk'[r] = disk[r]
    BY <1>3, <2>1
  <2>2. CASE /\ disk'[r].groups = Append(disk[r].groups, [time |-> now[r], whole |-> FALSE])
             /\ disk'[r].frames = disk[r].frames /\ disk'[r].state = "open"
    <3>1. [time |-> now[r], whole |-> FALSE] \in Frame
      BY DEF IInv, Typed, Frame
    <3>2. disk'[r].groups[n] = disk[r].groups[n]
      BY <1>2, <2>2, <3>1
    <3>3. n \in 1 .. count_time_frames(disk'[r])
      BY <1>2, <2>2 DEF count_time_frames, None
    <3> QED
      BY <2>2, <3>2, <3>3, StaysCompleted
  <2> QED
    BY <1>6, <2>1, <2>2, OpenCases
<1>7. ASSUME NEW s \in Ranks, CloseFrame(s)
      PROVE  FrameStays(r, n)
  <2>1. CASE s # r
    BY <1>3, <1>7, <2>1, CloseIs
  <2>2. CASE s = r
    <3>1. /\ disk'[r].state = "good" /\ disk'[r].frames = Len(disk[r].groups)
          /\ disk[r].frames \in {None, Len(disk[r].groups) - 1}
          /\ \A m \in 1 .. Len(disk[r].groups) - 1 : disk'[r].groups[m] = disk[r].groups[m]
      BY <1>7, <2>2, CloseIs
    <3>2. n \in 1 .. Len(disk[r].groups) - 1
      BY <1>2, <3>1 DEF None
    <3>3. n \in 1 .. count_time_frames(disk'[r])
      BY <1>2, <3>1, <3>2 DEF count_time_frames, None
    <3> QED
      BY <3>1, <3>2, <3>3, StaysCompleted
  <2> QED
    BY <2>1, <2>2
<1>8. ASSUME NEW s \in Ranks, Begin(s)
      PROVE  disk' = disk
  BY <1>8 DEF Begin
<1>9. UNCHANGED runVars => disk' = disk
  BY DEF runVars
<1> QED
  BY <1>3, <1>4, <1>5, <1>6, <1>7, <1>8, <1>9
     DEF Next, TimeStepped, Stop, OpenToRead, Seek, SearchIn, Halve, Sought, Forward, Backward, At

(* Completed frames stay, in every file and at every step: through later outputs, deaths
   in the middle of one and restarts on what they left; but not when HDF5 cannot open a
   file its rank had open, or a file is missing and the program starts from scratch. *)
THEOREM FramesKept == Spec => CompleteFramesKept
<1>1. IInv /\ [Next]_outputVars => [FramesStay]_outputVars
  BY StepKeepsFrames, OutputAssumption
<1>2. [][FramesStay]_outputVars <=> CompleteFramesKept
  BY PTL DEF FramesStay, FrameStays, CompleteFramesKept
<1> QED
  BY <1>1, <1>2, OutputInvariant, PTL DEF Spec

LEMMA TornKeeps ==
  ASSUME OutputAssumption, IInv, TornNotCounted, Next
  PROVE  TornNotCounted'
<1> SUFFICES ASSUME NEW r \in Ranks, disk'[r].frames # None, NEW n \in 1 .. disk'[r].frames
             PROVE  disk'[r].groups[n].whole
  BY DEF TornNotCounted
<1>1. disk[r] \in File /\ FileOk(disk[r]) /\ Len(disk[r].groups) \in Nat /\ disk[r].groups \in Seq(Frame)
  BY DEF IInv, Typed, Writes, File
<1>2. disk[r].frames # None => disk[r].frames \in 1 .. Len(disk[r].groups)
                               /\ \A m \in 1 .. disk[r].frames : disk[r].groups[m].whole
  BY <1>1 DEF TornNotCounted, FileOk, NoFile
<1>3. ASSUME disk'[r] = disk[r]
      PROVE  disk'[r].groups[n].whole
  BY <1>2, <1>3
<1>4. CASE Launch
  BY <1>3, <1>4 DEF Launch, NoFile
<1>5. CASE Die
  <2>1. disk'[r] \in Left(disk[r])
    BY <1>5 DEF Die, Leftovers
  <2>2. CASE disk'[r] = [disk[r] EXCEPT !.state = "broken"] \/ disk'[r] = [disk[r] EXCEPT !.state = "good"]
    <3>1. disk'[r].groups = disk[r].groups /\ disk'[r].frames = disk[r].frames
      BY <1>1, <2>2 DEF File
    <3> QED
      BY <1>2, <3>1
  <2>3. CASE disk'[r] = [disk[r] EXCEPT !.state = "good", !.groups = SubSeq(@, 1, disk[r].frames)]
    <3>1. disk'[r].groups = SubSeq(disk[r].groups, 1, disk[r].frames) /\ disk'[r].frames = disk[r].frames
      BY <1>1, <2>3 DEF File
    <3>2. disk'[r].groups[n] = disk[r].groups[n]
      BY <1>1, <1>2, <3>1
    <3> QED
      BY <1>2, <3>1, <3>2
  <2> QED
    BY <1>3, <2>1, <2>2, <2>3 DEF Left
<1>6. ASSUME NEW s \in Ranks, OpenFrame(s)
      PROVE  disk'[r].groups[n].whole
  <2>1. CASE disk'[r] = disk[r]
    BY <1>3, <2>1
  <2>2. CASE /\ disk'[r].groups = Append(disk[r].groups, [time |-> now[r], whole |-> FALSE])
             /\ disk'[r].frames = disk[r].frames
    <3>1. [time |-> now[r], whole |-> FALSE] \in Frame
      BY DEF IInv, Typed, Frame
    <3>2. disk'[r].groups[n] = disk[r].groups[n]
      BY <1>1, <1>2, <2>2, <3>1
    <3> QED
      BY <1>2, <2>2, <3>2
  <2> QED
    BY <1>6, <2>1, <2>2, OpenCases
<1>7. ASSUME NEW s \in Ranks, CloseFrame(s)
      PROVE  disk'[r].groups[n].whole
  <2>1. CASE s # r
    BY <1>3, <1>7, <2>1, CloseIs
  <2>2. CASE s = r
    <3>1. /\ disk'[r].frames = Len(disk[r].groups)
          /\ disk[r].state = "open" /\ disk[r].frames \in {None, Len(disk[r].groups) - 1}
          /\ \A m \in 1 .. Len(disk[r].groups) : disk[r].groups[m].whole \/ m = Len(disk[r].groups) => disk'[r].groups[m].whole
      BY <1>7, <2>2, CloseIs
    <3>2. n = Len(disk[r].groups) \/ disk[r].groups[n].whole
      <4>1. CASE disk[r].frames = None
        <5>1. Len(disk[r].groups) = 1
          BY <1>1, <3>1, <4>1 DEF FileOk
        <5>2. n \in 1 .. 1
          BY <3>1, <5>1
        <5> QED
          BY <5>1, <5>2
      <4>2. CASE disk[r].frames # None
        BY <1>1, <1>2, <3>1, <4>2
      <4> QED
        BY <4>1, <4>2
    <3> QED
      BY <3>1, <3>2
  <2> QED
    BY <2>1, <2>2
<1>8. ASSUME NEW s \in Ranks, Begin(s)
      PROVE  disk' = disk
  BY <1>8 DEF Begin
<1>9. UNCHANGED runVars => disk' = disk
  BY DEF runVars
<1> QED
  BY <1>3, <1>4, <1>5, <1>6, <1>7, <1>8, <1>9
     DEF Next, TimeStepped, Stop, OpenToRead, Seek, SearchIn, Halve, Sought, Forward, Backward, At

(* A frame that is counted has its data, whoever died before it and however often the
   program was started on what was left. *)
THEOREM CountedHaveData == Spec => []TornNotCounted
<1>1. Init => TornNotCounted
  BY DEF Init, TornNotCounted, NoFile
<1>2. OutputAssumption /\ IInv /\ TornNotCounted /\ [Next]_outputVars => TornNotCounted'
  <2>1. ASSUME UNCHANGED outputVars, TornNotCounted PROVE TornNotCounted'
    BY <2>1 DEF TornNotCounted, outputVars, runVars
  <2> QED
    BY <2>1, TornKeeps
<1> QED
  BY <1>1, <1>2, OutputInvariant, OutputAssumption, PTL DEF Spec
-----------------------------------------------------------------------------
LEMMA TimesInIs ==
  ASSUME IInv, NEW r \in Ranks
  PROVE  /\ TimesIn(r) \in Seq(Int) /\ Len(TimesIn(r)) = Len(disk[r].groups)
         /\ disk[r].state = "none" <=> TimesIn(r) = << >>
         /\ Len(disk[r].groups) \in Nat
<1>1. disk[r] \in File /\ FileOk(disk[r])
  BY DEF IInv, Typed, Writes
<1>2. Len(disk[r].groups) \in Nat /\ \A n \in 1 .. Len(disk[r].groups) : disk[r].groups[n].time \in Int
  BY <1>1, CountIs
<1>3. TimesIn(r) \in Seq(Int) /\ Len(TimesIn(r)) = Len(disk[r].groups)
  BY <1>2 DEF TimesIn
<1>4. disk[r].state = "none" <=> Len(disk[r].groups) = 0
  BY <1>1, <1>2, CountIs DEF FileOk
<1> HIDE DEF TimesIn
<1> QED
  BY <1>2, <1>3, <1>4

LEMMA Counted ==
  ASSUME IInv, NEW r \in Ranks, Closed(disk[r])
  PROVE  count_time_frames(disk[r]) = Len(disk[r].groups)
<1>1. disk[r] \in File /\ FileOk(disk[r])
  BY DEF IInv, Typed, Writes
<1>2. CASE disk[r].state = "none"
  BY <1>1, <1>2 DEF FileOk, NoFile, count_time_frames
<1>3. CASE disk[r].state # "none"
  BY <1>1, <1>3 DEF FileOk, Closed, count_time_frames
<1> QED
  BY <1>2, <1>3

(* Closed files with the same frames are read. *)
LEMMA ReadsAll ==
  ASSUME OutputAssumption, IInv, NEW base, \A r \in Ranks : disk[r].state = "good" /\ Closed(disk[r]) /\ TimesIn(r) = base
  PROVE  /\ Finds(disk) /\ Files(disk) = NCpu /\ Count(disk) \in Nat \ {0}
         /\ \A n \in 1 .. Count(disk) : Reads(disk, n)
<1>1. \A r \in Ranks : disk[r].state # "none"
  OBVIOUS
<1>2. Files(disk) = NCpu /\ LastRank \in Ranks /\ Count(disk) = count_time_frames(disk[LastRank])
  BY <1>1, FilesAll
<1>3. Finds(disk)
  BY <1>2 DEF Finds, OutputAssumption
<1>4. \A r \in Ranks : Len(disk[r].groups) = Len(base)
  BY TimesInIs
<1>5. Count(disk) = Len(base)
  BY <1>2, <1>4, Counted
<1>6. Count(disk) \in Nat \ {0}
  <2>1. disk[LastRank] \in File /\ FileOk(disk[LastRank])
    BY <1>2 DEF IInv, Typed, Writes
  <2>2. count_time_frames(disk[LastRank]) >= 1 /\ count_time_frames(disk[LastRank]) \in 0 .. Len(disk[LastRank].groups)
        /\ Len(disk[LastRank].groups) \in Nat
    BY <1>1, <1>2, <2>1, CountIs
  <2> QED
    BY <1>2, <2>2
<1>7. ASSUME NEW n \in 1 .. Count(disk), NEW r \in Ranks
      PROVE  n <= Len(disk[r].groups) /\ disk[r].groups[n].whole
  <2>1. n \in 1 .. Len(disk[r].groups)
    BY <1>4, <1>5
  <2> QED
    BY <1>6, <1>4, <1>5, <2>1 DEF Closed, Whole
<1> QED
  BY <1>2, <1>3, <1>6, <1>7 DEF Reads

LEMMA EvenLaunch ==
  ASSUME OutputAssumption, ~ Fresh, IInv, IInv', NEW base \in Seq(Int), Even(base), Launch
  PROVE  Even(base)'
<1>1. \A r \in Ranks : pc[r] = "off" /\ ~ Written(r)
  BY DEF Launch, All, Written
<1>2. \A r \in Ranks : TimesIn(r) = base /\ Closed(disk[r])
  BY <1>1 DEF Even
<1>3. 0 \in Ranks
  BY RankExists
<1>4. continue' = (\E r \in Ranks : disk[r].state # "none")
  BY DEF Launch
<1>5. CASE base = << >>
  <2>1. \A r \in Ranks : disk[r].state = "none"
    BY <1>2, <1>5, TimesInIs
  <2>2. ~ Finds(disk)
    <3>1. Files(disk) \in 0 .. NCpu /\ ~ (0 < Files(disk))
      BY <1>3, <2>1, FilesCounted
    <3> QED
      BY <3>1 DEF Finds
  <2>3. disk' = [r \in Ranks |-> NoFile] /\ pc' = [r \in Ranks |-> "init"] /\ ~ continue'
    BY <1>4, <2>1, <2>2 DEF Launch
  <2>4. \A r \in Ranks : TimesIn(r)' = base /\ Closed(disk'[r]) /\ ~ Written(r)' /\ pc'[r] = "init"
    BY <1>5, <2>3 DEF TimesIn, Closed, Written, NoFile
  <2> QED
    BY <2>3, <2>4 DEF Even
<1>6. CASE base # << >>
  <2>1. \A r \in Ranks : disk[r].state = "good"
    <3> SUFFICES ASSUME NEW r \in Ranks
                 PROVE  disk[r].state = "good"
      OBVIOUS
    <3>1. disk[r].state = "none" <=> TimesIn(r) = << >>
      BY TimesInIs
    <3> HIDE DEF TimesIn
    <3>2. disk[r].state # "none"
      BY <1>2, <1>6, <3>1
    <3> QED
      BY <1>2, <3>2 DEF Closed
  <2>2. Finds(disk) /\ Files(disk) = NCpu /\ Reads(disk, 1)
    <3>1. /\ Finds(disk) /\ Files(disk) = NCpu /\ Count(disk) \in Nat \ {0}
          /\ \A n \in 1 .. Count(disk) : Reads(disk, n)
      BY <1>2, <2>1, ReadsAll
    <3> QED
      BY <3>1
  <2>3. disk' = disk /\ pc' = [r \in Ranks |-> "init"] /\ continue'
    BY <1>3, <1>4, <2>1, <2>2 DEF Launch
  <2>4. \A r \in Ranks : TimesIn(r)' = base /\ Closed(disk'[r]) /\ ~ Written(r)' /\ pc'[r] = "init"
    BY <1>2, <2>3 DEF TimesIn, Written
  <2>5. Resumed'
    BY <2>1, <2>3 DEF Resumed
  <2> QED
    BY <2>4, <2>5 DEF Even
<1> QED
  BY <1>5, <1>6

LEMMA EvenBegin ==
  ASSUME OutputAssumption, IInv, IInv', NEW base \in Seq(Int), Even(base), NEW r \in Ranks, Begin(r)
  PROVE  Even(base)'
<1>1. pc[r] = "init" /\ UNCHANGED <<disk, output_time, continue, launches, torn, readVars>>
  BY BeginCases
<1>2. continue => Resumed
  BY <1>1 DEF Even
<1>3. \A s \in Ranks : TimesIn(s)' = TimesIn(s)
  BY <1>1 DEF TimesIn
<1>4. pc \in [Ranks -> {"off", "init", "write", "frame", "loop", "failed"}]
  BY DEF IInv, Typed
<1>5. CASE RunFromStart(r) /\ Scratch
  <2>1. ~ continue
    BY <1>1, <1>2, <1>5 DEF Resumed, Scratch
  <2>2. pc' = [pc EXCEPT ![r] = "write"] /\ now' = now
    BY <1>5 DEF RunFromStart
  <2>3. \A s \in Ranks : pc'[s] = IF s = r THEN "write" ELSE pc[s]
    BY <1>4, <2>2
  <2>4. Writing /\ Writing'
    BY <1>1, <2>1, <2>3 DEF Writing
  <2>5. \A s \in Ranks : Written(s)' = Written(s)
    BY <1>1, <2>3, <2>4 DEF Written
  <2>6. \A s \in Ranks : pc[s] # "off"
    BY <1>1 DEF Even, All
  <2> QED
    BY <1>1, <1>3, <2>1, <2>2, <2>3, <2>5, <2>6 DEF Even
<1>6. ASSUME NEW d \in Leftovers, continue, Finds(d), Reads(d, 1), Reads(d, Count(d)), Continue(r, d)
      PROVE  Even(base)'
  <2>1. Resumed /\ Resumed'
    BY <1>1, <1>2, <1>6, ContinueKeeps
  <2>2. ~ Writing /\ ~ Writing'
    BY <2>1 DEF Writing, Resumed
  <2>3. \A s \in Ranks : ~ Written(s) /\ ~ Written(s)' /\ pc'[s] \in {"init", "loop"} /\ pc[s] \in {"init", "loop"}
    BY <2>1, <2>2 DEF Written, Resumed
  <2> QED
    BY <1>1, <1>3, <2>1, <2>3 DEF Even
<1>7. ASSUME continue, NEW d \in Leftovers, Finds(d), ~ (Reads(d, 1) /\ Reads(d, Count(d)))
      PROVE  FALSE
  <2>1. Resumed /\ d = disk
    BY <1>2, <1>7, ResumedReads
  <2>2. \A s \in Ranks : disk[s].state = "good" /\ pc[s] \in {"init", "loop"}
    BY <2>1 DEF Resumed
  <2>3. \A s \in Ranks : ~ Written(s)
    BY <1>7, <2>2 DEF Written, Writing
  <2>4. \A s \in Ranks : Closed(disk[s]) /\ TimesIn(s) = base
    BY <2>2, <2>3 DEF Even
  <2>5. Count(disk) \in Nat \ {0} /\ \A n \in 1 .. Count(disk) : Reads(disk, n)
    BY <2>2, <2>4, ReadsAll
  <2> QED
    BY <1>7, <2>1, <2>5
<1> QED
  BY <1>5, <1>6, <1>7, BeginCases

(* A rank that has closed its files in order makes the group of a new frame. *)
LEMMA EvenOpen ==
  ASSUME OutputAssumption, IInv, IInv', NEW base \in Seq(Int), Even(base), NEW r \in Ranks, OpenFrame(r)
  PROVE  Even(base)'
<1>1. pc[r] = "write" /\ UNCHANGED <<now, final, output_time, continue, launches, torn, readVars>>
  BY OpenCases
<1>2. Closed(disk[r]) /\ TimesIn(r) = base
  BY <1>1 DEF Even, Written
<1>3. count_time_frames(disk[r]) = Len(disk[r].groups) /\ Len(disk[r].groups) \in Nat
  BY <1>2, Counted, TimesInIs
<1>4. /\ pc' = [pc EXCEPT ![r] = "frame"]
      /\ \A s \in Ranks : s # r => disk'[s] = disk[s]
      /\ disk'[r].groups = Append(disk[r].groups, [time |-> now[r], whole |-> FALSE])
  BY <1>3, OpenCases
<1>5. \A s \in Ranks : pc'[s] = IF s = r THEN "frame" ELSE pc[s]
  BY <1>4 DEF IInv, Typed
<1>6. Writing /\ Writing'
  BY <1>1, <1>5 DEF Writing
<1>7. ~ Resumed
  BY <1>1 DEF Resumed
<1> DEFINE f == disk[r]
           g == disk'[r]
           n == Len(f.groups)
<1>8. f.groups \in Seq(Frame) /\ n \in Nat /\ now[r] \in Int
  <2>1. f \in File /\ now[r] \in Int
    BY DEF IInv, Typed
  <2> HIDE DEF f
  <2> QED
    BY <2>1 DEF File
<1>9. Len(g.groups) = n + 1 /\ (\A i \in 1 .. n : g.groups[i] = f.groups[i])
      /\ g.groups[n + 1] = [time |-> now[r], whole |-> FALSE]
  <2>1. [time |-> now[r], whole |-> FALSE] \in Frame
    BY <1>8 DEF Frame
  <2> HIDE DEF f, g
  <2> QED
    BY <1>4, <1>8, <2>1 DEF f, g
<1>10. TimesIn(r)' = Append(base, now[r])
  <2>1. TimesIn(r)' = [i \in 1 .. n + 1 |-> g.groups[i].time]
    BY <1>9 DEF TimesIn
  <2>2. base = [i \in 1 .. n |-> f.groups[i].time] /\ Len(base) = n
    BY <1>2, TimesInIs DEF TimesIn
  <2> HIDE DEF f, g, n
  <2>3. g.groups[n + 1].time = now[r]
    BY <1>9
  <2>4. Append(base, now[r]) = [i \in 1 .. n + 1 |-> IF i = n + 1 THEN now[r] ELSE base[i]]
    BY <1>8, <2>2
  <2>5. ASSUME NEW i \in 1 .. n + 1
        PROVE  g.groups[i].time = IF i = n + 1 THEN now[r] ELSE base[i]
    <3>1. CASE i = n + 1
      BY <2>3, <3>1
    <3>2. CASE i # n + 1
      <4>1. i \in 1 .. n
        BY <1>8, <3>2
      <4> QED
        BY <1>9, <2>2, <3>2, <4>1
    <3> QED
      BY <3>1, <3>2
  <2> QED
    BY <2>1, <2>4, <2>5
<1>11. f.state # "none" => \A i \in 1 .. n : f.groups[i].whole
  BY <1>2 DEF Closed, Whole
<1>12. f.state = "none" => n = 0
  <2>1. f \in File /\ FileOk(f)
    BY DEF IInv, Typed, Writes
  <2> HIDE DEF f
  <2> QED
    BY <2>1, CountIs
<1>13. \A i \in 1 .. Len(g.groups) - 1 : g.groups[i].whole
  <2> HIDE DEF f, g, n
  <2>1. Len(g.groups) - 1 = n
    BY <1>8, <1>9
  <2>2. \A i \in 1 .. n : f.groups[i].whole
    BY <1>11, <1>12
  <2> QED
    BY <1>9, <2>1, <2>2
<1> HIDE DEF f, n
<1>14. ASSUME NEW s \in Ranks
       PROVE  /\ pc'[s] # "failed" /\ (pc'[s] = "off" => All("off")')
              /\ pc'[s] # "frame" => Closed(disk'[s])
              /\ pc'[s] = "frame" => \A i \in 1 .. Len(disk'[s].groups) - 1 : disk'[s].groups[i].whole
              /\ TimesIn(s)' = IF Written(s)' THEN Append(base, now'[s]) ELSE base
              /\ ~ (pc'[s] = "init" /\ continue')
  <2>1. CASE s = r
    <3>1. pc'[s] = "frame" /\ Written(s)'
      BY <1>5, <2>1 DEF Written
    <3> QED
      BY <1>1, <1>10, <1>13, <2>1, <3>1
  <2>2. CASE s # r
    <3>1. pc'[s] = pc[s] /\ disk'[s] = disk[s] /\ now'[s] = now[s] /\ continue' = continue
      BY <1>1, <1>4, <1>5, <2>2
    <3>2. pc[s] # "off"
      BY <1>1 DEF Even, All
    <3>3. TimesIn(s)' = TimesIn(s)
      BY <3>1 DEF TimesIn
    <3>4. Written(s)' <=> Written(s)
      BY <1>6, <3>1 DEF Written
    <3> QED
      BY <1>7, <3>1, <3>2, <3>3, <3>4 DEF Even
  <2> QED
    BY <2>1, <2>2
<1> QED
  BY <1>14 DEF Even

(* The last rank to close its file is even with the others. *)
LEMMA EvenClose ==
  ASSUME OutputAssumption, IInv, IInv', NEW base \in Seq(Int), Even(base), NEW r \in Ranks, CloseFrame(r)
  PROVE  \E b \in Seq(Int) : Even(b)'
<1>1. /\ pc[r] = "frame" /\ UNCHANGED <<now, final, output_time, continue, launches, torn, readVars>>
      /\ pc' = [pc EXCEPT ![r] = "loop"]
      /\ \A s \in Ranks : s # r => disk'[s] = disk[s]
  BY CloseIs
<1> DEFINE f == disk[r]
           g == disk'[r]
           n == Len(f.groups)
<1>2. /\ g.state = "good" /\ g.frames = n /\ Len(g.groups) = n /\ n \in Nat \ {0}
      /\ \A i \in 1 .. n : g.groups[i].time = f.groups[i].time /\ (f.groups[i].whole \/ i = n => g.groups[i].whole)
  BY CloseIs
<1>3. \A s \in Ranks : pc'[s] = IF s = r THEN "loop" ELSE pc[s]
  BY <1>1 DEF IInv, Typed
<1>4. \A i \in 1 .. n - 1 : f.groups[i].whole
  BY <1>1 DEF Even
<1>5. Closed(g)
  <2> HIDE DEF f, g, n
  <2> QED
    BY <1>2, <1>4 DEF Closed, Whole
<1>6. TimesIn(r)' = TimesIn(r)
  BY <1>2 DEF TimesIn
<1>7. TimesIn(r) = Append(base, now[r]) /\ now[r] \in Int
  BY <1>1 DEF Even, Written, IInv, Typed
<1>8. Writing /\ ~ Resumed
  BY <1>1 DEF Writing, Resumed
<1> DEFINE b == IF Writing' THEN base ELSE Append(base, now[r])
<1>9. b \in Seq(Int)
  BY <1>7
<1> HIDE DEF f, g, n
<1>10. ASSUME NEW s \in Ranks
       PROVE  /\ pc'[s] # "failed" /\ (pc'[s] = "off" => All("off")')
              /\ pc'[s] # "frame" => Closed(disk'[s])
              /\ pc'[s] = "frame" => \A i \in 1 .. Len(disk'[s].groups) - 1 : disk'[s].groups[i].whole
              /\ TimesIn(s)' = IF Written(s)' THEN Append(b, now'[s]) ELSE b
              /\ ~ (pc'[s] = "init" /\ continue')
  <2>1. CASE s = r
    <3>1. pc'[s] = "loop" /\ (Written(s)' <=> Writing')
      BY <1>3, <2>1 DEF Written
    <3> QED
      BY <1>1, <1>5, <1>6, <1>7, <2>1, <3>1 DEF g
  <2>2. CASE s # r
    <3>1. pc'[s] = pc[s] /\ disk'[s] = disk[s] /\ now'[s] = now[s] /\ continue' = continue
      BY <1>1, <1>3, <2>2
    <3>2. pc[s] # "off" /\ ~ (pc[s] = "init" /\ continue)
      BY <1>1, <1>8 DEF Even, All
    <3>3. TimesIn(s)' = TimesIn(s)
      BY <3>1 DEF TimesIn
    <3>4. TimesIn(s)' = IF Written(s)' THEN Append(b, now'[s]) ELSE b
      <4>1. CASE Writing'
        BY <1>8, <3>1, <3>3, <4>1 DEF Written, Even
      <4>2. CASE ~ Writing'
        <5>1. pc[s] = "loop"
          <6>1. pc[s] \notin {"write", "frame"} /\ ~ (pc[s] = "init" /\ ~ continue)
            BY <3>1, <4>2 DEF Writing
          <6>2. pc[s] # "failed" /\ pc[s] \in {"off", "init", "write", "frame", "loop", "failed"}
            BY DEF Even, IInv, Typed
          <6> QED
            BY <3>2, <6>1, <6>2
        <5>2. now[s] = now[r]
          BY <1>1, <5>1 DEF IInv, Together
        <5>3. TimesIn(s) = Append(base, now[s])
          BY <1>8, <5>1 DEF Even, Written
        <5>4. ~ Written(s)'
          BY <3>1, <4>2, <5>1 DEF Written
        <5> QED
          BY <3>3, <4>2, <5>2, <5>3, <5>4
      <4> QED
        BY <4>1, <4>2
    <3> QED
      BY <3>1, <3>2, <3>4 DEF Even
  <2> QED
    BY <2>1, <2>2
<1>11. PICK z \in Seq(Int) : z = b
  BY <1>9
<1> HIDE DEF b
<1>12. Even(z)'
  BY <1>10, <1>11 DEF Even
<1> QED
  BY <1>12

LEMMA EvenStep ==
  ASSUME OutputAssumption, IInv, IInv', NEW base \in Seq(Int), Even(base), TimeStepped \/ Stop
  PROVE  Even(base)'
<1>1. 0 \in Ranks /\ All("loop") /\ disk' = disk /\ continue' = continue
  BY RankExists DEF TimeStepped, Stop
<1>2. \A r \in Ranks : pc[r] = "loop" /\ ~ Written(r)
  BY <1>1 DEF All, Written, Writing
<1>3. \A r \in Ranks : Closed(disk[r]) /\ TimesIn(r) = base
  BY <1>2 DEF Even
<1>4. \A r \in Ranks : TimesIn(r)' = base
  BY <1>1, <1>3 DEF TimesIn
<1>5. (\A r \in Ranks : pc'[r] = "off") \/ (\A r \in Ranks : pc'[r] = "loop") \/ (\A r \in Ranks : pc'[r] = "write")
  <2>1. CASE Stop
    BY <2>1 DEF Stop
  <2>2. CASE TimeStepped
    <3>1. \A r, s \in Ranks : now[r] = now[s] /\ output_time[r] = output_time[s]
      BY <1>2 DEF IInv, Together
    <3>2. \A r \in Ranks : now'[r] = now[r] + TimeStep /\ pc'[r] = IF now'[r] >= output_time[r] THEN "write" ELSE "loop"
      BY <2>2 DEF TimeStepped
    <3> QED
      BY <1>1, <3>1, <3>2
  <2> QED
    BY <2>1, <2>2
<1>6. \A r \in Ranks : ~ Written(r)' /\ pc'[r] \in {"off", "loop", "write"} /\ (pc'[r] = "off" => All("off")')
  BY <1>5 DEF Written, Writing, All
<1> QED
  BY <1>1, <1>3, <1>4, <1>6 DEF Even

LEMMA EvenKeeps ==
  ASSUME OutputAssumption, ~ Fresh, IInv, IInv', Evenly, [Next]_outputVars
  PROVE  Evenly'
<1> SUFFICES ASSUME ~ torn'
             PROVE  \E b \in Seq(Int) : Even(b)'
  BY DEF Evenly
<1>1. UNCHANGED runVars => UNCHANGED <<disk, pc, now, final, continue, torn>>
  BY DEF runVars
<1>2. ~ torn
  BY <1>1 DEF Next, Launch, TimeStepped, Stop, Die, Begin, OpenFrame, CloseFrame, OpenToRead, Halve, Sought, Seek, SearchIn,
              Forward, Backward, At, outputVars
<1>3. PICK base \in Seq(Int) : Even(base)
  BY <1>2 DEF Evenly
<1>4. CASE UNCHANGED runVars
  <2>1. \A r \in Ranks : TimesIn(r)' = TimesIn(r) /\ (Written(r)' <=> Written(r))
    BY <1>1, <1>4 DEF TimesIn, Written, Writing
  <2>2. Resumed => Resumed'
    BY <1>1, <1>4 DEF Resumed
  <2>3. Even(base)'
    BY <1>1, <1>3, <1>4, <2>1, <2>2 DEF Even, All
  <2> QED
    BY <2>3
<1>5. ASSUME NEW r \in Ranks, Begin(r) \/ OpenFrame(r) \/ CloseFrame(r)
      PROVE  \E b \in Seq(Int) : Even(b)'
  BY <1>3, <1>5, EvenBegin, EvenOpen, EvenClose
<1>6. CASE Launch \/ TimeStepped \/ Stop
  BY <1>3, <1>6, EvenLaunch, EvenStep
<1>7. ~ Die
  BY DEF Die
<1>8. OpenToRead \/ Halve \/ Sought \/ (\E t \in 0 .. Duration : Seek(t))
        \/ (\E steps \in 1 .. 2 : Forward(steps) \/ Backward(steps)) \/ UNCHANGED outputVars => UNCHANGED runVars
  BY DEF OpenToRead, Halve, Sought, Seek, SearchIn, Forward, Backward, At, outputVars
<1> QED
  BY <1>4, <1>5, <1>6, <1>7, <1>8 DEF Next

(* Unless -c is given without results: as long as no rank died while it wrote, the files
   of all ranks have the same frames, but for those of the frame that is being written. *)
THEOREM FilesEven == ~ Fresh => (Spec => []Evenly)
<1> SUFFICES ASSUME ~ Fresh
             PROVE  Spec => []Evenly
  OBVIOUS
<1>1. Init => Evenly
  <2>1. ASSUME Init
        PROVE  Even(<< >>)
    <3>1. \A r \in Ranks : pc[r] = "off" /\ disk[r] = NoFile
      BY <2>1 DEF Init
    <3>2. \A r \in Ranks : TimesIn(r) = << >> /\ Closed(disk[r]) /\ ~ Written(r)
      BY <3>1 DEF Closed, NoFile, TimesIn, Written
    <3> QED
      BY <3>1, <3>2 DEF Even, All
  <2>2. << >> \in Seq(Int)
    OBVIOUS
  <2> QED
    BY <2>1, <2>2 DEF Evenly
<1>2. IInv /\ IInv' /\ Evenly /\ [Next]_outputVars => Evenly'
  BY EvenKeeps, OutputAssumption
<1> QED
  BY <1>1, <1>2, OutputInvariant, PTL DEF Spec

(* The ranks compute the same moment, and what is read together was written together. *)
THEOREM FramesOfOneMoment == ~ Fresh => (Spec => []OneMoment)
<1> SUFFICES ASSUME ~ Fresh
             PROVE  Spec => []OneMoment
  OBVIOUS
<1>1. IInv /\ Evenly => OneMoment
  <2> SUFFICES ASSUME IInv, Evenly, All("loop")
               PROVE  /\ \A r, s \in Ranks : now[r] = now[s] /\ final[r] = final[s]
                      /\ ~ torn => \A r, s \in Ranks : TimesOf(r) = TimesOf(s)
    BY DEF OneMoment
  <2>1. \A r, s \in Ranks : now[r] = now[s] /\ final[r] = final[s]
    BY DEF IInv, Together, All
  <2>2. ASSUME ~ torn
        PROVE  \A r, s \in Ranks : TimesOf(r) = TimesOf(s)
    <3>1. PICK base \in Seq(Int) : Even(base)
      BY <2>2 DEF Evenly
    <3>2. \A r \in Ranks : pc[r] = "loop" /\ ~ Written(r)
      BY DEF All, Written, Writing
    <3>3. \A r \in Ranks : Closed(disk[r]) /\ TimesIn(r) = base
      BY <3>1, <3>2 DEF Even
    <3>4. \A r \in Ranks : TimesOf(r) = TimesIn(r)
      BY <3>3, Counted DEF TimesOf, TimesIn
    <3> QED
      BY <3>3, <3>4
  <2> QED
    BY <2>1, <2>2
<1> QED
  BY <1>1, OutputInvariant, FilesEven, PTL

(* A start or an output does not fail by what is on the disk. *)
THEOREM RestartsClean == ~ Fresh => (Spec => []CleanRestart)
<1> SUFFICES ASSUME ~ Fresh
             PROVE  Spec => []CleanRestart
  OBVIOUS
<1>1. Evenly => CleanRestart
  BY DEF Evenly, Even, CleanRestart
<1> QED
  BY <1>1, FilesEven, PTL
=============================================================================
