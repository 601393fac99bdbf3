------------------------------- MODULE Output -------------------------------
(***************************************************************************)
(* The output files of a parallel run and its continuation: SOLFEC_Create, *)
(* SOLFEC_Run and write_state of sol.c with the HDF5 implementation of     *)
(* pbf.c.  Every rank writes a file of its own, a group for a frame, and   *)
(* closes it again; a run that was stopped, or died, is continued with the *)
(* switch -c from the last frame.  Readers take the number and the times   *)
(* of the frames from the file of the last rank for all files.             *)
(*                                                                         *)
(* Frames count from 1 here and from 0 in the code.  A frame is its time,  *)
(* and whether its data is there; what the bodies do in the steps between  *)
(* is left out.  Times are integers.                                       *)
(***************************************************************************)
EXTENDS Integers, Sequences, FiniteSetsExt

CONSTANTS
    NCpu,         \* number of ranks
    TimeStep,     \* dom->step
    Interval,     \* OUTPUT (solfec, interval)
    Duration,     \* RUN (solfec, solver, duration)
    MaxLaunches,  \* a bound: how often the program is started
    Fresh,        \* TRUE when -c is given although there are no results
    Tears         \* TRUE when ranks may die inside of write_state

ASSUME OutputAssumption ==
    /\ {NCpu, TimeStep, Interval, Duration, MaxLaunches} \subseteq Nat \ {0}
    /\ {Fresh, Tears} \subseteq BOOLEAN

Ranks == 0 .. NCpu - 1
None == -1
NoFile == [groups |-> <<>>, frames |-> None, state |-> "none"]
Abs(x) == IF x < 0 THEN -x ELSE x

VARIABLES
    disk,         \* the file of a rank: its groups, the attribute FRAMES, and "none",
                  \* "open" by its rank, "good", or "broken" for HDF5
    pc,           \* where a rank is: "off", "init", "write", "frame", "loop", "failed"
    now,          \* dom->time of a rank
    final,        \* t0 + fabs (duration)
    output_time,
    continue,     \* CONTINUE_WRITE_FLAG ()
    launches,
    torn,         \* history: a rank died inside of write_state
    cur,          \* the frame of a reader, 0 when there is none
    sought,       \* the time of its last seek
    search        \* the loop of PBF_Seek: {} outside of it, or {[l, h, m]}

runVars == <<disk, pc, now, final, output_time, continue, launches, torn>>
readVars == <<cur, sought, search>>
outputVars == <<runVars, readVars>>

Init ==
    /\ disk = [r \in Ranks |-> NoFile]
    /\ pc = [r \in Ranks |-> "off"]
    /\ now = [r \in Ranks |-> 0]
    /\ final = [r \in Ranks |-> 0]
    /\ output_time = [r \in Ranks |-> Interval]
    /\ continue = FALSE /\ launches = 0 /\ torn = FALSE
    /\ cur = 0 /\ sought = None /\ search = {}

All(p) == \A r \in Ranks : pc[r] = p

(* every group a frame, when a file has no attribute FRAMES yet *)
count_time_frames(f) == IF f.frames = None THEN Len(f.groups) ELSE f.frames

(* PBF_Read: the files counted up from rank 0; all of them must open *)
Files(d) == Max({k \in 0 .. NCpu : \A r \in Ranks : r < k => d[r].state # "none"})
Finds(d) == Files(d) > 0 /\ \A r \in Ranks : r < Files(d) => d[r].state = "good"
Count(d) == count_time_frames(d[Files(d) - 1])
Times(d) == [n \in 1 .. Count(d) |-> d[Files(d) - 1].groups[n].time]

(* read_frame for all files; a group that is missing or has no data is an error *)
Reads(d, n) ==
    /\ n \in 1 .. Count(d)
    /\ \A r \in Ranks : r < Files(d) => n <= Len(d[r].groups) /\ d[r].groups[n].whole

(* What is found of a file its rank has not closed: nothing HDF5 would open, or the
   group without its data, or the file as it was closed before. *)
Left(f) ==
    IF f.state # "open" THEN {f}
    ELSE {[f EXCEPT !.state = "broken"], [f EXCEPT !.state = "good"]} \cup
         (IF f.frames = None THEN {} ELSE {[f EXCEPT !.state = "good", !.groups = SubSeq(@, 1, f.frames)]})
Leftovers == {d \in [Ranks -> UNION {Left(disk[r]) : r \in Ranks}] : \A r \in Ranks : d[r] \in Left(disk[r])}

(* SOLFEC_Create, with the barrier between reading and writing.  Files made from
   scratch are empty, and are removed as they are closed. *)
Launch ==
    /\ All("off") /\ launches < MaxLaunches
    /\ launches' = launches + 1
    /\ continue' = (Fresh \/ \E r \in Ranks : disk[r].state # "none")
    /\ IF Finds(disk)
       THEN /\ pc' = [r \in Ranks |-> IF Reads(disk, 1) /\ Files(disk) = NCpu THEN "init" ELSE "failed"]
            /\ UNCHANGED disk
       ELSE /\ disk' = [r \in Ranks |-> NoFile]
            /\ pc' = [r \in Ranks |-> "init"]
    /\ now' = [r \in Ranks |-> 0]
    /\ final' = [r \in Ranks |-> 0]
    /\ output_time' = [r \in Ranks |-> Interval]
    /\ cur' = 0 /\ sought' = None /\ search' = {}
    /\ UNCHANGED torn

(* SOLFEC_Run before its loop: the state at the last frame, or the initial frame *)
RunFromStart(r) ==
    /\ pc' = [pc EXCEPT ![r] = "write"]
    /\ final' = [final EXCEPT ![r] = Duration]
    /\ UNCHANGED now

(* Mutant: every rank goes by the times of its own file. *)
ContinueOwn(r, d) ==
    LET own == count_time_frames(d[r])
        e == IF own = 0 THEN 0 ELSE d[r].groups[own].time
    IN  /\ now' = [now EXCEPT ![r] = e]
        /\ final' = [final EXCEPT ![r] = e + Abs(Duration - e)]
        /\ pc' = [pc EXCEPT ![r] = "loop"]

Continue(r, d) ==
    LET e == Times(d)[Count(d)]
    IN  /\ now' = [now EXCEPT ![r] = e]
        /\ final' = [final EXCEPT ![r] = e + Abs(Duration - e)]
        /\ pc' = [pc EXCEPT ![r] = "loop"]

Fail == pc' = [r \in Ranks |-> "failed"] /\ UNCHANGED <<now, final>>

Begin(r) ==
    /\ pc[r] = "init"
    /\ \/ ~ continue /\ RunFromStart(r)
       \/ /\ continue
          /\ \E d \in Leftovers :
                IF ~ Finds(d) THEN RunFromStart(r)
                ELSE IF Reads(d, 1) /\ Reads(d, Count(d)) THEN Continue(r, d) ELSE Fail
    /\ UNCHANGED <<disk, output_time, continue, launches, torn, readVars>>
-----------------------------------------------------------------------------
(* write_state: PBF_Write appends to the file, PBF_Time makes the group of the new
   frame; H5Gcreate fails when the group is there. *)
NewFrame(r) == [groups |-> <<[time |-> now[r], whole |-> FALSE]>>, frames |-> None, state |-> "open"]

(* Mutant: the file is written from scratch. *)
OpenFrameAnew(r) ==
    /\ pc[r] = "write"
    /\ disk' = [disk EXCEPT ![r] = NewFrame(r)]
    /\ pc' = [pc EXCEPT ![r] = "frame"]
    /\ UNCHANGED <<now, final, output_time, continue, launches, torn, readVars>>

(* Mutant: a group that is there already is left, and another one made. *)
OpenFrameOver(r) ==
    /\ pc[r] = "write"
    /\ disk' = IF disk[r].state = "none" THEN [disk EXCEPT ![r] = NewFrame(r)]
               ELSE [disk EXCEPT ![r].groups = Append(@, [time |-> now[r], whole |-> FALSE]), ![r].state = "open"]
    /\ pc' = [pc EXCEPT ![r] = "frame"]
    /\ UNCHANGED <<now, final, output_time, continue, launches, torn, readVars>>

OpenFrame(r) ==
    /\ pc[r] = "write"
    /\ IF disk[r].state = "none"
       THEN disk' = [disk EXCEPT ![r] = NewFrame(r)] /\ pc' = [pc EXCEPT ![r] = "frame"]
       ELSE IF Len(disk[r].groups) > count_time_frames(disk[r])
       THEN pc' = [p \in Ranks |-> "failed"] /\ UNCHANGED disk
       ELSE /\ disk' = [disk EXCEPT ![r].groups = Append(@, [time |-> now[r], whole |-> FALSE]),
                                    ![r].state = "open"]
            /\ pc' = [pc EXCEPT ![r] = "frame"]
    /\ UNCHANGED <<now, final, output_time, continue, launches, torn, readVars>>

(* PBF_Close: write_frame writes the data, counts the frame and flushes *)
CloseFrame(r) ==
    /\ pc[r] = "frame"
    /\ LET n == Len(disk[r].groups)
       IN  disk' = [disk EXCEPT ![r] = [groups |-> [disk[r].groups EXCEPT ![n].whole = TRUE], frames |-> n, state |-> "good"]]
    /\ pc' = [pc EXCEPT ![r] = "loop"]
    /\ UNCHANGED <<now, final, output_time, continue, launches, torn, readVars>>

(* a pass of the loop of SOLFEC_Run: the ranks update the domain together and each
   of them then writes the output when it is time *)
TimeStepped ==
    /\ All("loop") /\ \A r \in Ranks : now[r] < final[r]
    /\ now' = [r \in Ranks |-> now[r] + TimeStep]
    /\ pc' = [r \in Ranks |-> IF now'[r] >= output_time[r] THEN "write" ELSE "loop"]
    /\ output_time' = [r \in Ranks |-> IF now'[r] >= output_time[r] THEN output_time[r] + Interval ELSE output_time[r]]
    /\ UNCHANGED <<disk, final, continue, launches, torn, readVars>>

(* the end of the duration, a STOP file, a callback that returns 0, or the death of
   the ranks between two outputs *)
Stop ==
    /\ All("loop")
    /\ pc' = [r \in Ranks |-> "off"]
    /\ UNCHANGED <<disk, now, final, output_time, continue, launches, torn, readVars>>

(* the ranks die while some of them are in write_state *)
Die ==
    /\ Tears /\ \E r \in Ranks : pc[r] \in {"write", "frame"}
    /\ disk' \in Leftovers
    /\ torn' = TRUE
    /\ pc' = [r \in Ranks |-> "off"]
    /\ UNCHANGED <<now, final, output_time, continue, launches, readVars>>
-----------------------------------------------------------------------------
(* a reader is at frame n of all files, or ends with an error *)
At(n) ==
    /\ cur' = IF Reads(disk, n) THEN n ELSE 0
    /\ search' = {}
    /\ UNCHANGED runVars

OpenToRead ==
    /\ All("off") /\ cur = 0 /\ Finds(disk)
    /\ At(1) /\ sought' = None

(* PBF_Seek: binary search over the table of times, a pass of its loop at a time.
   What m is before the first pass does not matter. *)
SearchIn(first, last, t) ==
    /\ cur # 0 /\ search = {}
    /\ search' = {[l |-> first, h |-> last, m |-> first]}
    /\ sought' = t
    /\ UNCHANGED <<runVars, cur>>

(* Mutant: the search leaves out the last frame. *)
SeekShort(t) == SearchIn(1, Count(disk) - 1, t)

Seek(t) == SearchIn(1, Count(disk), t)

Middle(s) == s.l + (s.h - s.l) \div 2

Halve ==
    \E s \in search :
        LET m == Middle(s)
        IN  /\ s.l <= s.h /\ Times(disk)[m] # sought
            /\ search' = {IF sought < Times(disk)[m] THEN [l |-> s.l, h |-> m - 1, m |-> m]
                                                    ELSE [l |-> m + 1, h |-> s.h, m |-> m]}
            /\ UNCHANGED <<runVars, cur, sought>>

(* the loop breaks at a frame of that time, or ends next to where it would be *)
Sought ==
    \E s \in search :
        /\ \/ s.l <= s.h /\ Times(disk)[Middle(s)] = sought /\ At(Middle(s))
           \/ s.l > s.h /\ At(IF s.h < 1 THEN s.l ELSE IF s.l > Count(disk) THEN s.h ELSE s.m)
        /\ UNCHANGED sought

Forward(steps) ==
    /\ cur # 0 /\ search = {}
    /\ At(IF cur - 1 + steps >= Count(disk) THEN Count(disk) ELSE cur + steps)
    /\ sought' = None

Backward(steps) ==
    /\ cur # 0 /\ search = {}
    /\ At(IF cur - 1 < steps THEN 1 ELSE cur - steps)
    /\ sought' = None

Next ==
    \/ Launch \/ TimeStepped \/ Stop \/ Die
    \/ \E r \in Ranks : Begin(r) \/ OpenFrame(r) \/ CloseFrame(r)
    \/ OpenToRead \/ Halve \/ Sought
    \/ \E t \in 0 .. Duration : Seek(t)
    \/ \E steps \in 1 .. 2 : Forward(steps) \/ Backward(steps)

Spec == Init /\ [][Next]_outputVars
-----------------------------------------------------------------------------
TimesOf(r) == [n \in 1 .. count_time_frames(disk[r]) |-> disk[r].groups[n].time]

(* What a reader puts together from the n-th frames of all files is one moment, and
   the ranks compute the same moment with the same end of the run, however often the
   run was stopped and continued; only a rank that dies while it writes may leave
   its file behind the others. *)
OneMoment ==
    /\ All("loop") => \A r, s \in Ranks : now[r] = now[s] /\ final[r] = final[s]
    /\ All("loop") /\ ~ torn => \A r, s \in Ranks : TimesOf(r) = TimesOf(s)

(* A program that is started again on the output of a run never fails by what it
   finds there, and neither does its next output, unless a rank died while writing. *)
CleanRestart == (\E r \in Ranks : pc[r] = "failed") => torn

(* The frames of a file that are counted and have their data, if HDF5 opens it. *)
Completed(f) == {n \in 1 .. count_time_frames(f) : f.groups[n].whole /\ f.state # "broken"}

(* A completed frame stays as it is and stays counted: in outputs, when ranks die with
   a later frame in any state, and when the program is started on what they left.  It
   is lost in two ways only: its rank dies with the file open and HDF5 cannot open it
   again, or a file is missing or broken and the program starts from scratch. *)
CompleteFramesKept ==
    [][\A r \in Ranks : \A n \in Completed(disk[r]) :
        \/ n \in Completed(disk'[r]) /\ disk'[r].groups[n] = disk[r].groups[n]
        \/ disk[r].state = "open" /\ disk'[r].state = "broken"
        \/ launches' # launches /\ \E s \in Ranks : disk[s].state \in {"none", "broken"}]_outputVars

(* A frame that FRAMES counts has its data: the group left by a rank that died before it
   counted the frame is not counted by the runs that continue from it either. *)
TornNotCounted ==
    \A r \in Ranks : disk[r].frames # None => \A n \in 1 .. disk[r].frames : disk[r].groups[n].whole

(* A seek ends at the frame of that time, or next to where it would be: no frame lies
   between.  The table must be in ascending order for that, through all restarts. *)
SeekFinds ==
    cur # 0 /\ sought # None /\ search = {} =>
        LET T == Times(disk)
        IN  \A n \in 1 .. Len(T) : ~ ((T[cur] < T[n] /\ T[n] <= sought) \/ (sought <= T[n] /\ T[n] < T[cur]))

(* "the analysis will be continued from where it was stopped" (doc): the frames are
   those of a run that was never stopped, an interval apart. *)
AsUninterrupted ==
    \A r \in Ranks : disk[r].state = "good" =>
        \A n \in 1 .. count_time_frames(disk[r]) : disk[r].groups[n].time = (n - 1) * Interval
=============================================================================
