# Solfec in TLA+

Solfec is a parallel code for non-smooth contact dynamics: rigid and deformable
bodies move under time integration, touch, are joined by constraints, crack and
fall out of the scene. A run is an MPI job. Every rank executes the same C
program; the domain is cut into pieces by a geometric partitioner, and bodies
and constraints move between ranks as the partition changes. Inside a rank, the
overlap detection may be compiled with OpenMP. A Python script describes the
model and may call back into the solver between steps.

The floating-point side of the program (integration, finite elements, contact
geometry, diagonal block solvers) is out of scope. What is specified here is
the discrete machinery that has to be right for the numbers to mean anything:
who owns what, who holds which copy, which identifier is free, which message
arrives where, who waits for whom, and which overlaps are found.

## 1. Inventory

### Run control (`sol.c`, `lng.c`)

`SOLFEC_Run` repeats: `DOM_Update_Begin`, the constraint solver,
`DOM_Update_End`, output when due, the Python callback when due. All ranks take
these steps together because each of them contains collective exchanges.
Callbacks run on every rank and may insert or delete bodies and constraints,
fix points and split meshes, acting on the objects the rank happens to own.

*Correct when* whatever a callback does is also known, by the next exchange, to
the other ranks it concerns.

### Domain (`dom.c`, 4214 lines)

State of a rank: bodies it is parent of (`dom->bod`, `idb`), children of bodies
whose parents are elsewhere (`children`), everything it has a copy of
(`allbodies`); constraints it owns (`con`, `idc`) and images of constraints
owned elsewhere (`conext`); the supply of constraint ids (`cid`, `sparecid`) and
of body ids (`bid`, `sparebid`); pending bodies and constraints, bodies to be
removed, bodies to be written (`newb`); per-destination sets of things to send
(`dbd`); and the rank of every parent (`idtorank`).

Operations, in the order of a step:

| code | what it does |
| --- | --- |
| `DOM_Update_Begin` | updates and removes constraints, balances the domain, detects overlaps, sparsifies contacts, glues the boundary |
| `domain_balancing` | repartitions; moves parents, children and constraints; re-computes which rank needs which image; sends additions, updates and removals of images |
| `AABB_Update`, `overlap_create` | reports overlapping boxes on their lowest common rank, creates contacts |
| solver | iterates over local blocks, exchanging reactions of boundary constraints |
| `DOM_Update_End` | integrates, removes bodies out of the scene or cracked, broadcasts removed and added bodies, removes failed links |

*Hard:* images are maintained by differences of two sets (`con->ext`), one of
which was computed when the constraint was owned by another rank; removals are
scheduled in one step and sent in the next, while the ids they name are already
reusable; bodies are not packed for ranks that are assumed to have a copy;
several ranks remove and insert bodies in the same step.

*Correct when* ids are unique in the whole machine and none is lost; images
agree with their owners; every rank that integrates a body sees all constraints
of that body; a pair of bodies has one contact; copies of a body know each
other; nothing of a removed body survives; ranks agree on body ids.

### Box engine and overlap detection (`box.c`, `hyb.c`, `hsh.c`, `swp.c`)

The box engine keeps axis-aligned boxes of shape parts and hands them to one of
several algorithms; the default, `hybrid`, is a streamed segment tree that
works in place on two arrays of pointers. With OpenMP its leaf scans are tasks.

*Hard:* boxes that share coordinates leave nothing to split; tasks read arrays
that the recursion goes on to reorder.

*Correct when* the recursion ends and reports exactly the overlaps.

### Contact creation (`dom.c`: `contact_exists`, `overlap_create`, `insert`)

A callback of the overlap detection, so with OpenMP it is run by several
threads, partly under `dom->lock`.

*Correct when* every touching pair becomes one contact, ids are distinct and no
thread waits for ever.

### Local dynamics and Gauss-Seidel (`ldy.c`, `bgs.c`)

The local dynamics is a graph of diagonal blocks (own constraints) with
off-diagonal blocks to neighbours, own or external. The parallel Gauss-Seidel
solver colors the ranks, divides the blocks of a rank into top, middle, bottom
and internal ones by the colors of the ranks they touch, and orders sweeps and
messages by color. Three variants trade order for communication.

*Hard:* middle nodes wait for reactions of each other across ranks in the
middle of a loop; posted receives write into the values being read; two
patterns share one message tag; all ranks must agree on when to stop.

*Correct when* a full sweep computes the values of a sequential sweep, all
external reactions are up to date when an iteration ends, and nobody waits for
ever.

### Communication (`com.c`)

Two families: one-off collectives that exchange sizes and then data (`COM`,
`COMALL`, `COMALL2`, `COMOBJSALL`), and patterns fixed once and repeated
(`COM_Pattern`, `COM_Send`, `COM_Recv`, `COM_Repeat`).

*Hard:* point-to-point calls use ready sends, which are erroneous unless the
receiver has posted its receive; two patterns of the solver share a tag;
`COM_Recv` waits for its sends first; a fall-back for large buffers must be
chosen by all ranks or by none.

*Correct when* a rank gets out of a call what the others gave in that call,
once and in order, and nobody waits for ever.

### Output and restart (`sol.c`, `pbf.c`, `dio.c`)

Every rank writes a file of its own, one group for a frame; it is opened, appended
to and closed again in each output. `-c` continues a run from its last frame.
Readers open the files of all ranks and take the frame count and times from one
of them.

*Hard:* ranks write their files independently and may die between; a run is
stopped and continued several times; the time, the end and the next output of a
continued run come from different sources.

*Correct when* the n-th frames of all files are one moment, finished frames
survive, a restart does not trip over what it finds, and seeking finds a frame.

### Containers and memory (`set.c`, `map.c`, `mem.c`, `lis.h`)

Red-black sets and maps whose trees share one sentinel; item pools that link
freed chunks through their own memory; list merge sort. *Correct when* a set is
a set through any sequence of insertions and deletions, loops meet every item
once, insertions do not write to the shared sentinel (threads insert into
different maps at once, `fem.c:1709`), and a chunk has one owner.

### The rest

Bodies, finite elements, shapes, materials, time integration (`bod.c`, `fem.c`,
`msh.c`, `cvx.c`, `mat.c`, ...), contact geometry (`goc.c`, `gjk.c`, `hul.c`,
...), linear algebra (`mtx.c`), other solvers (`nts.c`, `pes.c`, ...), viewer
(`rnd.c`, `glv.c`), co-simulation (`hys.c`), command line and Python bindings;
vendored libraries under `ext/`. The partitioner (`dynlb`) is a submodule that
is not in the repository: it is modelled as a free choice, constrained by what
the calls in `dom.c` rely on.

`PROJECT.json` lists all of them with their status, and the hazards at their
lines.

## 2. Modules

| module | models | runs |
| --- | --- | --- |
| `ConstraintIds` | supply of constraint ids on all ranks | `containers` |
| `Boundary` | constraints and their images through all phases of a step | `boundary_*` |
| `BodyMigration` | copies of bodies on the ranks | `bodies` |
| `Hybrid` | the streamed segment tree | `hybrid*` |
| `OverlapCreate` | contact creation by threads | `overlap_*` |
| `GaussSeidel` | the parallel solver and its messages | `gauss_seidel` |
| `Exchange` | what a communication promises | `com` (as a property) |
| `Com` | the communication calls, step by step | `com` |
| `Tree` | red-black sets and maps | `containers` |
| `MemPool` | memory pools | `containers` |
| `Output` | frames, files, restart and reading | `output*` |
| `...Proofs` | theorems about `ConstraintIds`, `Boundary`, `BodyMigration`, `Hybrid`, `GaussSeidel`, `Com`, `Output`, and in `OverlapProofs` about `OverlapCreate` and `MemPool` | proved |
| `MC...` | small instances of each | |

`Boundary` instantiates `ConstraintIds` and is shown to implement it, so what
is proved of ids holds of the constraints in the phases of a step. `Com` is
proved to implement `Exchange`, which is how the other modules communicate:
`Exchange` and `Got` of `Boundary` and `BodyMigration`, the patterns of
`GaussSeidel`. `BodyMigration` and `GaussSeidel` each rely on one property of
`Boundary` (that a rank has the constraints of the bodies it holds; that it has
an image of every neighbour), and `OverlapCreate` takes the reports that
`Hybrid` makes. All use sets where the program has the trees of `Tree`.

### ConstraintIds

| TLA+ | code |
| --- | --- |
| `cid[r]`, `sparecid[r]` | `dom->cid`, `dom->sparecid` of rank `r` |
| `idc[r]` | keys of `dom->idc`: ids of owned constraints |
| `flight[r]` | ids packed for rank `r` and not unpacked yet |
| `Insert` | `insert` (`dom.c:235`) without an imported id: the first spare id, else `cid`, which steps by the number of ranks |
| `Remove` | `DOM_Remove_Constraint`: the id becomes spare where it is removed |
| `Pack` | `pack_constraint`: the id is locked (`CON_IDLOCK`) while the constraint leaves |
| `Unpack` | `unpack_constraint`: `insert` with `dom->noid` set |

### Boundary

A rank runs the code between two collective exchanges by itself, so such a
block is one action, and a phase ends when every rank has taken its block
(`Exchange`). Ranks interleave freely inside a phase; across phases they cannot,
since `COMOBJSALL` returns only after everyone has packed.

| phase | block | code |
| --- | --- | --- |
| `partition` | `Partition` | the partitioner and `reset_idtorank` |
| `balance` | `MigrateOut` | `domain_balancing` to its first exchange: constraints leave, scheduled removals are sent |
| `import` | `MigrateIn` | `domain_balancing_unpack`, `old_boundary_constraints_migration` |
| `settle` | `Settle` | `old_external_constraints_unpack`, re-ranking of images |
| `pending` | `PutPending`, `DropPending` | `insert_pending_constraints`, once, at the start |
| `detect` | `Detect`, `GlueNew` | detection on the lowest common rank, `domain_gluing_begin` |
| `sparsify` | `Sparsify` | images of new contacts arrive, contacts are sparsified |
| `solve` | `Solve` | removals arrive, the solver, `update_external_RUV` |
| `finish` | `StepEnd` | `DOM_Update_End`: bodies out of the scene, bodies that crack |
| `manage` | `Manage` | `manage_bodies`: bodies removed elsewhere, parts inserted; failed links |
| `callback` | `FixPoint`, `DeleteConstraint`, `CallbackReturn` | Python |
| `update` | `UpdateConstraints` | `DOM_Update_Begin`, separated contacts |

`con[r]` and `conext[r]` are sets of records: id, kind, bodies, and `ext` (the
ranks with an image) or `rank` (the rank of the owner). `bodcon[r][b]` is `bod->con`, the
list of a body's constraints on a rank, which its motion sums over and by which
contacts are found and bodies removed. It is a set sorted by `CONCMP`: contacts are told
apart by what they join, others by id (`Same`), and `SET_Insert` drops what is there
already (`Enlisted`); the assertion before it is `Clashing`. With `Debug` a failed assertion ends the
run, as the default build does (`DEBUG` and `PARDEBUG` in `Config.mak`); without it the
program goes on with the list as it is. `dbdrem` holds the scheduled removals. Bodies are only places: `home` (rank of the parent) and
`box` (ranks their extents reach); `Partition` redraws both, with the two
guarantees the code relies on (a parent lies within its extents; a constraint
point lies within the extents of its bodies). A body that cracks is
replaced by a part on the rank that has its parent; its one-body constraints are
transferred to the part without their images (`Transferred`), its contacts go.
`Live` and `Flying` are the state of `ConstraintIds` in terms of `con` and of what
is packed but not yet unpacked. FIXDIR, VELODIR and SPRING
constraints go through the same code as FIXPNT and RIGLNK and have no kind of
their own.

### BodyMigration

`copy[r][b]` is what rank `r` has under body id `b`: `parent`, `child`, `left` (a copy
that was a parent or child and is kept because constraints may still name it),
`dummy` (made by `get_body` when a constraint arrives before its body) or `none`.
`children` and `prank` are `bod->children` and `bod->rank`. `home` is
`dom->idtorank` and, like `box`, what the partitioner makes of the bodies that are alive
when it runs; it has no entry for others and is used while bodies migrate only. Constraints
are reduced to `ties`, sets of two bodies. The phases are those of `Boundary`
around `domain_balancing` (`Pack`, `Unpack`), the end of a step (`Finish`,
`Manage`), `Output` and the callbacks `Delete` and `SplitMesh`.

### Hybrid

`mem` holds the two arrays, `calls` the stack of `stream`, one frame per active
call with its two ranges, interval, dimension and place; `tasks` the scans
started and what they have copied. `Lower` may choose any point as the median:
the code estimates it from random samples. `Sifted` is what `lo_hi_inside`, `split` and
`overlaps` make of a range: the elements that satisfy a test first, then the others. With
`AnyOrder` they come in any order, that of the code among them, without it in the order
they had. A scan without OpenMP sorts its ranges in place, which is a
`Sifted` with nothing to tell apart. No property depends on the order: the runs leave
`AnyOrder` FALSE, the theorems hold for both. `build` is how the program was compiled: the cutoff
(1024 in the code) and whether with OpenMP.

### OverlapCreate

One thread handles its reports in order: `Exists`, `Missing`, `Lock`, `Exclude`,
`InsertStart`, `InsertEnd`. The steps are cut where another thread can tell the
difference: `contact_exists` reads without the lock, `cid` is read and counted
up separately. Reading a set while another thread inserts into it is a data
race, so the answer is then free.

### GaussSeidel

The state of a rank is its stage `pc`, the reactions `R` of its nodes, the
images it has received, and for middle nodes the posted receives that have
completed. A reaction is the number of times it has been computed, which tells
values of one iteration from those of another and leaves the numerics out.
Messages of patterns are FIFO for a pair of ranks and a tag; messages of middle
nodes are matched by id and complete at any time. `setup` is chosen at the
start: the graph, the variant, and whether MPI buffers sends. When it does not,
a send is complete only when its receiver has come to the matching receive, and
waiting for one's own sends becomes waiting for others.

### Com and Exchange

Ranks run one script of calls. A call is the sequence of steps it makes MPI take:
`Enter` and `Leave` of a collective operation, `Post` (MPI_Irecv), `Rsend`,
`Start` (MPI_Isend and MPI_Irecv of `COM_Send`), `WaitSend`, `Wait`, `Unpack`;
`Land` is MPI matching a message with the first receive posted for its sender
and tag, whatever call either belongs to. Entries are lists of objects with a
size; what is sent is the entries for one rank merged. `setup.buffered` says
whether MPI completes sends by itself. `Exchange` has two steps only, `Give` and
`Take`, and no idea of tags, sizes or steps.

Scripts use patterns as `bgs.c` does: a `COM_Recv` follows a `COM_Send` of its pattern,
with no other call of the two with that tag in between (`bgs.c:760` and `:762`, `:775`
and `:777`, `:789` and `:791`, `:804` and `:806`). The middle pattern, which has the tag of
the bottom one, is used with `COM_Repeat` only (`:771`, `:800`).

### Tree and MemPool

An item of a tree is named by its datum, so the tree is five functions and a set
of red items; a deletion that copies a datum into another item renames it.
`last` is what the last operation left in the sentinel, which belongs to all
trees. In `MemPool` a chunk is a block and a place; `dirty` are the chunks whose
memory is not zero, among them those linked in the list of freed chunks.

### Output

`disk[r]` is the file of a rank: its groups (frames), the attribute `FRAMES`, and
whether it is absent, open, closed or broken. `Launch` is `SOLFEC_Create`,
`Begin` the start of `SOLFEC_Run`, `TimeStepped` a pass of its loop; the two steps
of `write_state` that reach the disk, `OpenFrame` and `CloseFrame`, are taken by
every rank on its own. `Die` leaves of each open file any of what HDF5 may leave:
the file as it was closed, with the group but without its data, or broken. A
reader (`OpenToRead`, `Seek`, `Forward`, `Backward`) works on the files at rest; the
bisection of `PBF_Seek` is a loop, a step for a pass (`search`, `Halve`, `Sought`).

## 3. Runs

Runs that pass:

- **containers** (three parts, one at a time). The identifiers of constraints on
  three ranks with `UINT_MAX` 9: `TypeOK`, `UniqueIds`, `NoLostIds`. Ranks 0 and 1
  can issue two ids and rank 2 one, so that ids run out, migrate, die on foreign
  ranks and are issued there again. A tree of up to seven data, three full levels
  and the shapes below them, so that both fix-ups climb: `Balanced`,
  `LoopsMeetAll`, `SetOfData`, `InsertSparesSentinel` (deletions do write to it). A
  pool of two blocks of three chunks: `OneOwner`, `ZeroedOnReturn`.
- **boundary_contacts**: two bodies on three ranks. With three ranks a
  constraint, the parent of its body and an image can be in three places, and
  the rank that reports an overlap can be none of them. `ImagesMatch`: an image
  exists on `r` exactly if its owner lists `r` in `ext` or has scheduled the
  removal. `OneContactPerPair`: the pair never has two contacts, although it is
  looked for where it is reported and owned elsewhere.
- **boundary_links**: two ranks; a pending rigid link, a possible contact, points
  fixed by a callback on a body that may crack or leave the scene, links that
  fail, a callback that deletes constraints without images. Ids are reused in the
  callback before the removals scheduled under them are sent. `ImagesMatch`
  again, now also for constraints transferred to a part;
  `OwnerHasBodies`: no owned constraint hangs on a dummy; `LookupsSucceed`: no
  message names a constraint its receiver does not have; `IdentifiersRefined`:
  every step is a step of `ConstraintIds` or leaves its variables unchanged.
  `HoldersSeeAll`: the list of a body, on each rank with a parent or child of it, names
  all its constraints, whoever owns them. `BodyListsTake`: what is inserted into the list of
  a body meets its like there in one case only, although a constraint and its image, or the image
  and the next contact of the pair, take turns in it; the case is a disagreement between
  comments and code, described below, and as it fails an assertion (`dom.c:295`) the
  run ends there. So deadlock is not checked.
- **bodies**, in two scenes. *splits*: bodies on two of three ranks migrate, crack,
  are split by a callback, and their fragments deleted, while the third rank has
  none and still counts. *copies*: a pair of linked bodies migrates over three
  ranks and one of them may leave the scene. `CopiesKnowEachOther`: between migrations all
  copies of a body name the rank of its parent and list each other; `BodiesArrive`:
  a body that is not packed is there already; `NoGhosts`: after `manage_bodies` no
  copy of a removed body is left and no parent is gone whose body was not removed;
  `IdsAgree`: `dom->bid` is the same on all ranks and no id is given twice;
  `NewBodiesKept`: a body waits for its output.
- **hybrid**: 19683 scenes of three boxes in three dimensions, every choice of
  every median. Below the cutoff (one scan, here a task) `ScanExact`: the overlaps
  are reported and nothing else; above it `Stabbed` (what the recursion does
  guarantee, see the findings) and `Termination`.
- **overlap_threads**: three threads that report any two pairs each, also the same ones, or
  one thread alone that reports a pair up to three times and an excluded one last. `DistinctIds`:
  no two contacts have one id; `EveryTouchCreated`: a touching pair that is reported
  gets a contact in the end. Excluded pairs are kept from the other reports, as
  `overlap_excluded` shows why.
- **gauss_seidel**: five nodes on four ranks, in all 27 graphs in which
  every two ranks share an edge, so that they have four colors; only then are
  there two ranks with middle nodes that wait for each other. Three variants,
  forth and back, buffered or synchronous sends. `SequentialUpdate` (variant
  FULL): a reaction is computed from neighbours of this iteration if they
  precede it and of the one before if not. `AllDone`: no iteration ends with an
  old external reaction. `Termination`.

- **com**: three scripts on three ranks. Two calls of `COM` with one tag, the
  second of which a rank may reach before others have left the first; the
  exchanges of a Gauss-Seidel iteration, where bottom and middle pattern share
  a tag (`bgs.c:651`, `:727`); all-to-all calls, in one of which a single rank receives more
  than `INT_MAX`. `ReadyReceives`: at a ready send the receive is there;
  `OwnReceives`: a message ends in the receive of its own call and part;
  `CollectivesAgree`: all ranks enter the same collective operations in the
  same order; `Exchanged`: `Com` implements `Exchange`; `Termination`.
- **output**: two ranks, an output in every other step, up to three starts.
  Ranks may be stopped between steps or die at any point of an output.
  `OneMoment`: the n-th frames of the files are one moment, and continued ranks
  agree on time and end; `CompleteFramesKept`: a completed frame stays and stays counted at every
  step, unless its rank dies and HDF5 cannot open the file again, or a file is missing or
  broken and the program starts from scratch, which truncates all files;
  `TornNotCounted`: a frame counted by `FRAMES` has its data, although ranks that died may
  have left a group without; `SeekFinds`: a seek ends at the frame of the time or next to it.
  After a death that leaves such a group, the continued run fails at its first output
  (`H5Gcreate`, `pbf.c:482`): with the invariant `pc[r] # "failed"` TLC shows the run.

Runs that find a disagreement with what the code or its documentation says:

- **hybrid_rows**: in a brickwork of two rows an overlap is not reported: when
  nothing can be split off, `hyb.c:272` and `:276` drop a dimension for
  intervals against points, not for points against intervals as
  `hyb.c:259-260` does.
- **overlap_excluded**: `overlap_create` returns from `dom.c:387` with the lock.
- **output_continued**: after `-c` the next output is due one interval after time
  0 rather than after the last frame (`sol.c:784`, `:831`), so every step writes a frame until
  `output_time` has caught up. The same holds of `callback_time`.

More disagreements have no run of their own. Some are one change of
a configuration away:

- a callback fixes a point of a body after the step has removed a constraint of it,
  whose id is spare at once while the removal of its images waits for the next balancing.
  If the new constraint migrates there to a rank with the old image, it is inserted first
  (`dom.c:1685-1690`) and meets that image in the list of the body, which goes by ids
  (`dom.c:163`); then the image is removed (`dom.c:1692-1699`) and the list has neither, although
  the comment at `dom.c:2279` says "after this step all bodies contain sets of all old
  constraints (including contacts)". Default builds stop at the assertion (`dom.c:295`); with
  `Debug` FALSE in `BoundaryLinks.cfg` the run goes on as other builds do, with a body
  that does not feel the constraint, and `HoldersSeeAll` fails.
- two threads that report one pair both find it missing before either takes the lock
  (`dom.c:357`, `:369`), and the pair gets two contacts. `stream` does report a pair to several
  tasks: an interval that spans a range goes to the lower dimension there
  (`hyb.c:259-260`) and, as `overlaps` starts from `Ib` again, to both halves
  (`hyb.c:270-276`). With `Works <- Shared` in `OverlapThreads.cfg`, `OneContactPerPair` of
  `OverlapCreate` fails.
- a callback that deletes a constraint with images (`lng.c:7893`) leaves them on
  the other ranks: set `Careful` to FALSE in `BoundaryLinks.cfg`, and
  `ImagesMatch` fails. If the id is reused, the new constraint has no image; a
  deleted contact is detected again, so that a pair gets two.
- `dom->pairedup` keeps bodies that have left the scene, and
  `children_migration_begin` (`dom.c:1586`) then fails its assertion: with a body of
  a link in `Lost`, `PairedRanksKnown` of `Boundary` fails.
- without results to continue, `-c` still makes every rank look for them
  (`sol.c:713`) after the others may have written their initial frame
  (`sol.c:723`), with no barrier between: with `Fresh` TRUE in `Output.cfg`, a rank
  reads a frame another one has only begun (`CleanRestart` fails), or continues from
  it and writes no initial frame itself (`OneMoment` fails).
- a body that is deleted by a callback and leaves the scene, or cracks, at the end of the
  next step is removed and destroyed twice (`dom.c:3865-3869` and `:3879-3883`): with
  a body in both `Lost` and `Erasable`, `RemovedOnce` of `BodyMigration` fails.
- with OpenMP and more boxes than the cutoff, a task copies ranges that the
  recursion has reordered (`hyb.c:218`) and so scans other boxes than those of its
  range: with `[cutoff |-> 2, omp |-> TRUE]` in `Builds`, `Stabbed` fails. That is this
  cause alone: serial builds keep `Stabbed`, whatever the cutoff and the medians
  (section 4), and lose other overlaps for the reason of `hybrid_rows`.
- when many boxes share a least coordinate and the median is one of them,
  nothing is split off and `hyb.c:275-276` drops the dimension although boxes may lie apart
  in it; no scan tests it again, and pairs that do not overlap are reported. In
  `MCHybrid` with the build `Tree`, `{{r[2], r[3]} : r \in reported}` holds a pair that is
  not an `Overlap` after 14 steps. The callers in `dom.c` test the shapes afterwards.
- the comment at `bgs.c:331` says that reversed iterations take middle nodes by
  smallest color first, but the score starts at 0 and colors are positive, so
  it stays 0 and the order is arbitrary. `gauss_seidel` shows that the messages
  do not depend on it.
- a thread may miss a contact that exists while another writes the same con set
  (`Missing` of `OverlapCreate` with `Writing`).

Others were met while reading, outside of what the modules model:

- `cra.c:306-312` and `:316-322`: if a fragment is separable, its parts become
  new bodies and the fragment is destroyed, with the constraints that
  `remap_constraints` has just transferred to it.
- `dom.c:3564`: a constraint owned by another rank than the parent's is an external
  image where its body cracks; it is not transferred and goes with the body.
- `cra.c:213-253`: `CRACKS_Pack` leaves out `topoadj`, so a crack that migrates
  loses it.
- `sol.c:719`, `:746`: the rest of a continued run is `fabs (duration - e)`. If the
  analysis was finished and its last step went beyond the duration, it is
  continued all the same, by the overrun.
- `pbf.c:265-271`: the frames of the last rank's file count for all. When ranks
  died between each other's closes, the others have a frame more or less; a
  file HDF5 cannot open makes `SOLFEC_Create` start from scratch and truncate
  the others (`pbf.c:251-256`, `sol.c:559-561`).
- the comment at `com.c:730` holds for what a rank sends; the displacements of what
  it receives (`com.c:793-800`) may still exceed an `int`.
- `com.c:1565-1612`: `COMALL_Repeat` unpacks by rank what `COMALL_Pattern` has
  compressed; only `tst/comtest.c` calls it.
- `SET_Delete_Node` and `MAP_Delete_Node`, which BUGS doubts, have no caller.

### Bounds

The partitioner may place bodies anywhere at each balancing and every phase
ends where the next begins, so the number of time steps is not bounded: the
state spaces of `Boundary` and `BodyMigration` close by themselves. Bounded
are ranks (2 or 3, as every rank-to-rank relation in the code involves an owner, a
source and a destination; 4 in `GaussSeidel`), bodies (2 or 3), ids (`UIntMax`, small enough to be
exhausted and reused; `MaxBody`, which ends insertions as the assertion in the
code does), boxes (3 or 4, the least that makes a tree with the cutoff 2), their
coordinates (four grid points), reports per thread (3), solver iterations (`MaxIter` 2, as many
as it takes to go forth and back and to confuse an iteration with the one before), the
scripts of `Com` (up to 13 calls), the data of a tree (7), the chunks of a pool (6), and the
starts of a program (`MaxLaunches` 3: a continued run is itself continued) with its
duration (two outputs).

Deadlock is checked in `containers`, `boundary_contacts`, `bodies` and `com`: there a run
always goes on, in `com` by `Done` alone once all scripts have ended. It is not in
`boundary_links`, which ends at a failed assertion, nor in `Hybrid`,
`OverlapCreate` and `GaussSeidel`, which end; `Termination`, `EveryTouchCreated` and
`EveryReportHandled` say that they end well; nor in `Output`, where the starts are
bounded.

### Fairness

`GaussSeidel`: weak fairness for each rank (the operating system runs every
process), for the network (MPI delivers) and for the collectives (they return once
all have called). `Com`: weak fairness for each rank and for the network. `OverlapCreate`: weak fairness for each thread. `Hybrid`: weak
fairness of the whole, as the recursion is one thread and tasks are run before
the parallel region ends. The other specifications state safety only.

## 4. Proofs

Everything below holds for every value of the constants that meets the
assumptions stated with them in the modules, and is proved down to the last leaf.

### Identifiers (`ConstraintIdsProofs`)

For every number of ranks and every `UINT_MAX`: `TypeCorrect`, `IdsStayUnique`
(`UniqueIds`), `NoIdIsLost` (`NoLostIds`).

`UniqueIds` is not inductive: nothing in it keeps `cid` of a rank
from being an id already in use. The invariant `IInv` that is joins it with
`TypeOK`, `NoLostIds` (what is held anywhere is exactly what has been issued)
and `CidClass`: the counter of a rank stays in the residue class of that rank,
`cid[r] = r + 1 + n * NCpu`. A fresh id is then in nobody's hands (`FreshUnused`):
if it were, some rank would have issued it; another rank cannot have, since
numbers of different classes differ (`ClassesDisjoint`), and the rank itself
has issued only what is below its counter. `NoLostIds` is preserved since the
sets issued grow by the fresh id alone, and removal, packing and unpacking move
ids between the three places without dropping one. There is one lemma for each
action.

### Constraints of a step (`BoundaryProofs`)

For any ranks, bodies, touching pairs, links, cracking bodies and kinds a callback may delete:

- `BoundaryTyped`: `Spec => []TypeOK`. `TypeOK` says nothing of the mail, so the
  invariant `Shape` adds it: what a phase may put into the outboxes, that
  nothing is sent to oneself, that constraints travel only from `balance` to
  `import`, and that what is owned has its kind and bodies right.
- `IdentifiersImplemented`: `Spec => IdentifiersRefined`. The mapping takes `Live`, the
  ids of owned constraints, for `idc`, and `Flying`, those of constraints packed
  and not yet unpacked, in the outboxes before and the inboxes after the exchange, for
  `flight`. One step of `Boundary` may remove a set of constraints at once or move
  many, which are steps of `ConstraintIds` in which `Remove`, `Pack` and `Unpack` take sets.
  Sets of ids and sets of constraints correspond only if a rank has no two
  constraints with one id, owned or arriving (`Distinct`); for a new id this
  follows from `IInv` of `ConstraintIdsProofs` *under the mapping*, so the invariant of this
  proof is `Shape`, `Distinct` and that `IInv` together (`BoundaryInductive`).
- `ConstraintsStayApart`: it carries `UniqueIds` over: two constraints owned anywhere
  never have the same id.

There are a lemma for the types and a lemma for the refinement of each action;
actions that keep ids where they are share `NoChangeRefines`, and removals
`RemovalRefines`.

### Images (`BoundaryProofs`)

`ImagesStayMatched` (`ImagesMatch`). The property speaks of the phases in which images
are settled, and is not inductive: while bodies migrate a constraint is in the mail, its images
are announced by one message, removed by another, and renamed by a third. The
invariant (`RInv`) counts what is under way. For a rank, `View` is the images it has and those
it is sent, `Claims` the constraints anywhere, packed or not, that list it, and
`Awaited` the removals that it has not heard of; `Matching` says that each claim has one image
and each other image one removal that waits for it. `Ranked` adds that an image names the rank
of its constraint whenever no constraint is in the mail. The other parts say which boxes may be
full in which phase (`Mail`), that new contacts are nobody's images yet (`News`), and
that a constraint is announced to a rank either by an update or by an image
(`Written`, `Sender`). The actions that only move mail share one lemma each way.

The theorem assumes `Careful`: callbacks delete no constraint that has images. Without
it the statement is false, as described in section 3 (`lng.c:7893`), and all boundary
runs have `Careful` TRUE. It also assumes `Debug`: the run ends when an assertion fails. Detection
and the removal of bodies go by the lists of bodies, and with a list that lacks a
constraint a body that is removed leaves it behind. The theorems of the next part assume
both, too.

### Where constraints are (`BoundaryProofs`)

`OwnersHaveBodies` (`OwnerHasBodies`), `OneContact` (`OneContactPerPair`), `ListsTake`
(`BodyListsTake`), `AllHoldersSee` (`HoldersSeeAll`) and `LookupsFind` (`LookupsSucceed`). They hold together or not at
all: a rank that reports an overlap finds the contact of another rank by its image, the image is there
since the owner lists every rank that has one of the bodies (`Spread`), and the owner
knows those ranks since it has the bodies itself (`Placed`). `Known` says
which bodies may still be named by constraints while some are removed and parts are inserted.
The lowest rank that sees both boxes is one rank only, so two new contacts of a
pair cannot be made at once (`Single`); that the minimum exists needs the pairs that
may touch to be finite sets, an assumption of `Boundary`.

What is in the lists follows from `Sets`: while no insertion has met its like, the list of a body
on a rank is made of the rank's owned constraints and images of that body, no more and
no less, whatever migrates, arrives, is transferred to a part or removed; and from `Foreign`: when a body
cracks, no image has the id of a constraint the rank owns. There is a lemma for the lists of each
action (`MigrateInSets`, `SettleSets`, `StepEndSets`, ...).

`ListsTake` says when an insertion can meet its like at all. Two owned constraints never are the same
for a list (`SameOwner`), so what is in the way can only be the image of a constraint that its owner
has taken back. `Timely` follows such images: a rank that sends a removal in `import` knows that the
receiver has the image (`Leaving`); what comes in `settle` and `sparsify` fits in until
the rank has unpacked it (`Fitting`); a pair of bodies has no contact while an image of its last one
waits for its removal, since contacts are made in `detect` only (`Parted`); and the id of such an image is
spare on the rank that removed the constraint, or in use there again (`Spare`). What is left is
the constraint that a callback gives such an id and that migrates with the removal (section 3,
`boundary_links`). It fails the assertion of `SET_Insert` in `import`, which ends the run, as it
does in the default build (`Debug`). So `AllHoldersSee` holds at `settle` and `solve` of every run that gets there. It is no theorem of
builds without the assertions, in which the body goes on without the constraint.

### Bodies (`BodyMigrationProofs`)

For any number of ranks, bodies and ids: `CopiesAgree` (`CopiesKnowEachOther`), `BodiesAreThere`
(`BodiesArrive`), `BodyIdsStayUnique` (`IdsAgree`), `NothingIsLeft` (`NoGhosts`),
`NewBodiesStay` (`NewBodiesKept`).

That copies list each other holds between migrations only. While bodies migrate, a rank that
has packed has the new lists and one that has not has the old ones; the invariant follows a body from
the one rank that had its parent (`PackedFrom`, `UnpackedFrom`): it is sent to exactly the
ranks that shall have it, and in full unless the receiver has a copy,
whatever the receiver has packed or unpacked itself. At the end of a step, a body
that some rank has removed is in order on no rank, and its id is in that rank's messages
to all others (`Finishing`, `Managing`). All ranks receive the same counts of pending bodies, so
each computes from the same base the sum over the ranks before it (`Upto`), and the
intervals of ids it gives are disjoint from those of the others and cover the total
that all add to `bid` (`Numbered`, `Slots`). The sums are functions on the ranks, and
what they need of induction follows from the least element of a set of numbers.
TLC has checked every part of the invariant on the instance of run `bodies`.

Writing the proof changed the model: `home` was a free choice for every body and id, and
a dummy could be taken for a body that is there. The code takes the rank from `idtorank`,
which has the bodies that exist at partitioning.

### Parallel solver (`GaussSeidelProofs`)

For any number of ranks, any graph, variant, direction and both behaviours of
`MPI_Send`:

- `ColoringIsProper`: `processor_coloring` gives adjacent ranks different colors, of
  `1 .. NCpu`. The greedy choice always finds a color by the pigeonhole principle.
- `AllUpdated` (`AllDone`) and `AsSequential` (`SequentialUpdate`). The invariant says
  what is in each channel, message for message (`Channels`): two patterns share a
  tag and nothing in a message says of which it is, so the proof is that the order of the
  sends and that of the receives are the same; it rests on `Waited`, that no rank is
  ahead of one that it still needs a message from. `Has` says which reactions of others a rank has
  at each stage, `Middles` follows the middle nodes, whose messages complete at any
  time, and `InOrder` says that a middle node is computed after those neighbours
  that precede it.

### Communication (`ComProofs`)

For any number of ranks, any scripts that meet `ComAssumption` (above), any `INT_MAX`, and
MPI with and without buffering:

- `ReceivesReady` (`ReadyReceives`): no ready send starts before its receive has been
  posted. `Barred` says that a rank past a barrier has seen all others enter it, and
  they enter it after they have posted (`Guarded`).
- `ReceivesOwn` (`OwnReceives`): a message ends in the receive of its own call and
  part, although calls share tags. `Channels` has for two ranks and a tag the messages on the way and the
  receives still open, both sorted by call and, inside of a call, sizes before data; whatever has
  met its receive comes before all of them. So the first message and the first
  receive open are the first of those not yet met, of the sender and of the receiver, and as
  both make the same calls they are of the same one (`HeadsMeet`).
- `CollectivesSame` (`CollectivesAgree`): what a rank has entered are
  the collective steps of its code up to where it is, each once and in order (`Collected`).
  The code of two ranks differs in one place, `COMALL` with or without `Round`, and there both
  decide by the maxima of `MPI_Allreduce` (`Fits`), which are the same.
- `ComExchanges`: `Spec => Exchanged`. A rank gives the data of a call at its first send or at
  `MPI_Alltoallv`, and takes it at `Unpack`. What it takes is what all others gave
  to it, since all of that has landed by then (`Kept`, `Waited`) and nothing else has
  (`Landed`); it takes it once, since one step unpacks a call: `Started` of a
  `COM_Recv` is no other's. This is where the assumption on scripts is needed.

The proof changed the model: entries of `called` and the place `ip` of a rank
are steps of the code, where they had been counts, so that
`CollectivesAgree` compares calls and steps, not just the kind of operation.

### Output (`OutputProofs`)

For any number of ranks, steps, intervals, durations and starts, with ranks that are
stopped or die anywhere:

- `SeeksFind` (`SeekFinds`): the times a reader bisects, those of the last rank's
  file, ascend (`Ascending`), and the loop has passed only what is before `l` or
  after `h` (`Searching`). That they ascend is a matter of all files: a rank that starts
  reads those of the others, so it must be known that while some ranks
  have yet to begin, the others have either continued from the same frame of closed files or are no further
  than the initial frame (`Starts`: `Resumed` or `Scratch`). The file of the last rank is enough
  thereafter; before it is there, a rank may be taken for the last, whence `Timed`.
- `FramesKept` (`CompleteFramesKept`): every step of ranks and readers, deaths and starts
  included, keeps the completed frames, but for the two that the property names. A rank writes
  only to a group that is not counted yet (`Writes`), and a start truncates files only if one is missing or broken.
- `CountedHaveData` (`TornNotCounted`): a group a dead rank left is past the count, and the next
  output fails on it rather than count it.
- `FilesEven`, `FramesOfOneMoment` (`OneMoment`), `RestartsClean` (`CleanRestart`): as long as no rank died
  while it wrote, there is one sequence of times that all files have, but for the frame
  that is being written (`Evenly`). These three assume `~ Fresh`, that is that `-c`
  is given only with results to continue; otherwise they are false, as
  section 3 describes (`sol.c:713`).

### Pools (`OverlapProofs`)

`ChunksHaveOneOwner` (`OneOwner`) and `ChunksReturnZeroed` (`ZeroedOnReturn`), for any number of blocks
and chunks in them. The invariant adds the types, how `freechunk` and
`lastchunk` lie to each other and to `blocks`, and that chunks not yet given are
zero. Two lemmas say what taking the head of the list of freed chunks and
putting one before it do to the set of its members.

### Contact creation (`OverlapProofs`)

- `ThreadsNumberApart`: with any number of threads and any reports, contacts have
  distinct ids (`DistinctIds`). The invariant: a thread between `Lock` and the
  release holds the lock, so at most one is between reading `cid` and counting it
  up, and all ids given are below `cid`.
- `SerialCreatesOnce`: without OpenMP, that is with one thread, a pair has at most one
  contact (`OneContactPerPair`), whatever is reported how often. With two threads it
  may have two, as section 3 describes; the theorem says that nothing else is to blame.

### Segment tree (`HybridProofs`)

- `StabbedReported` (`Stabbed`), for any boxes, dimension, cutoff, medians and order of pointers.
  `Caught` says that a pair that is to be reported is with a call on the stack or a task
  until it has been. A call works in place on ranges its callers will go on with, so the
  invariant has `Stacked`: the ranges of a call lie in what each of its callers has
  *lent*. A caller in `upper` has lent the lower half of its points and all of its
  intervals, and what it has kept, or lent as a whole, is the same set of boxes when it
  goes on. `Bounded`, that the points of a call begin in its part of the axis, is
  why an interval that a point stabs goes with it to either half. `SiftSpares` and
  `SiftTwice` are the lemmas about the exchanges, `CallStep` the one that replaces the
  running call by others.

  The theorem assumes `SmallTasks`: in an OpenMP build, no more boxes than one task
  scans. It says nothing of serial builds. Without it the statement is false
  (section 3, `hyb.c:218`). The builds of the run satisfy it.
- `ScanIsExact` (`ScanExact`), for all builds: below the cutoff the first call is a
  leaf, and its scan is the only one. Nothing is assumed.

### What is only model-checked

The properties of `Tree` (`Balanced`, `LoopsMeetAll`, `InsertSparesSentinel`, `SetOfData`),
for trees of up to seven data: descent and traversal are recursive operators, which the
prover does not handle. Liveness under fairness is beyond it as well: `Termination`, in three modules, and `EveryTouchCreated` and
`EveryReportHandled` of `OverlapCreate`. All other properties of the passing runs are theorems.

## 5. Not modelled

Numerics and geometry, as above. Of what is discrete: exclusion of pairs across
ranks (collected on rank 0, broadcast in `domain_balancing`), `hybrid_ext`, hashing and the
sweep plane, the lists of the box engine, rigid links of bodies that crack
(which the code itself marks as unfinished in parallel, `dom.c:3604`), the Python
objects that hold ids across callbacks, packing of objects into integers and
doubles, and the content of frames.

`Output` has the HDF5 implementation of `pbf.c`. The other one (`pbf.c:690-1459`,
built when `HDF5=no`) writes one stream and an index only `PBF_Close` completes; it has no `-c`.
`dom_init_state` restores bodies that exist at time 0; those inserted or removed during
a run are not followed. Of the serial solver and of the Newton and penalty solvers,
the iterations are numerics; their parallel parts are single reductions.

## 6. What could follow

1. Excluded pairs of several ranks, and Python objects that hold body ids
   (`SPLIT_MESH` copies the id of a body before it has one).
2. `hybrid_ext` and the sweep plane.
