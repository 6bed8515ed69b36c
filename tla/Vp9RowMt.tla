------------------------------- MODULE Vp9RowMt -------------------------------
(***************************************************************************)
(* Row-based multithreaded decoding, decode_tiles_row_wise_mt(): every     *)
(* worker takes jobs from one queue.  Parsing row r of a tile queues its   *)
(* reconstruction and the parsing of row r + 1; reconstructing the last    *)
(* superblock of row r in all tiles queues the filtering of row r - 1.     *)
(* Reconstruction waits for the superblock above, filtering for the row    *)
(* above.  The queue is a buffer that is written and read once from its    *)
(* start to its end, and is terminated when each tile has been             *)
(* reconstructed to its last row or abandoned by its parser.               *)
(*                                                                         *)
(* Rows and columns are superblocks, and tiles are equally wide.  Nothing  *)
(* sets lf_sync->corrupted in this mode, so the tests of it are left out.  *)
(***************************************************************************)
EXTENDS Integers, Sequences, FiniteSets

CONSTANTS
  NumTiles,    \* 1 << cm->log2_tile_cols
  TileCols,    \* superblock columns of a tile
  NumRows,     \* superblock rows
  Workers,     \* the pbi->max_threads workers, which are all alike
  SyncRange,   \* lf_sync->sync_range
  InvalidRefs  \* the rows with blocks that use a reference of an invalid size

ASSUME RowMtAssumption ==
  /\ NumTiles \in Nat \ {0} /\ TileCols \in Nat \ {0}
  /\ NumRows \in Nat \ {0} /\ Workers # {}
  /\ SyncRange \in Nat \ {0} /\ InvalidRefs \subseteq Nat

Rows    == 0 .. NumRows - 1
Tiles   == 0 .. NumTiles - 1
NumCols == NumTiles * TileCols
Cols    == 0 .. NumCols - 1

\* The superblock columns of a tile.
TileSbs(t) == t * TileCols .. (t + 1) * TileCols - 1

\* Mutant of Capacity: no room for the filter jobs.
CapacityNoLpf == NumTiles * NumRows * 2

\* vp9_jobq_alloc(): the jobs that fit between buf_base and buf_end.
Capacity == NumTiles * NumRows * 2 + NumRows

ParseJob(r, t) == [type |-> "parse", row |-> r, tile |-> t]
ReconJob(r, t) == [type |-> "recon", row |-> r, tile |-> t]

\* tile_col is not set in a filter job.
LpfJob(r) == [type |-> "lpf", row |-> r, tile |-> 0]

NoJob == LpfJob(0)

VARIABLES
  main,       \* main thread: "idle" or in decode_tiles_row_wise_mt(), "busy"
  filter,     \* cm->lf.filter_level && !cm->skip_loop_filter
  jobs,       \* the jobs between buf_base and buf_wr
  rd,         \* the number of them before buf_rd
  terminate,  \* jobq.terminate
  tilesDone,  \* row_mt_worker_data->num_tiles_done
  rowTiles,   \* lf_sync->num_tiles_done
  reconMap,   \* row_mt_worker_data->recon_map, the superblocks marked in it
  curSbCol,   \* lf_sync->cur_sb_col
  pc,         \* where each worker is
  job,        \* its job
  col,        \* the column it is at, reconstructing or filtering
  corrupted,  \* corrupted, a variable of the hook
  waiting,    \* workers blocked on a condition variable
  reported,   \* pbi->mb.corrupted of the last frame
  recon,      \* history: superblocks that were reconstructed
  filtered    \* history: superblocks of each row filtered

queueVars == <<jobs, rd, terminate, tilesDone>>
syncVars  == <<rowTiles, reconMap, curSbCol>>
mainVars  == <<main, filter, reported>>
histVars  == <<recon, filtered>>
vars == <<queueVars, syncVars, mainVars, histVars, pc, job, col, corrupted,
          waiting>>

FirstJobs == [i \in 1 .. NumTiles |-> ParseJob(0, i - 1)]

Init ==
  /\ main = "idle" /\ filter = FALSE /\ reported = FALSE
  /\ jobs = << >> /\ rd = 0 /\ terminate = FALSE /\ tilesDone = NumTiles
  /\ rowTiles = [r \in Rows |-> 0] /\ reconMap = {}
  /\ curSbCol = [r \in Rows |-> -1]
  /\ pc = [w \in Workers |-> "done"]
  /\ job = [w \in Workers |-> NoJob] /\ col = [w \in Workers |-> 0]
  /\ corrupted = [w \in Workers |-> FALSE] /\ waiting = {}
  /\ recon = Rows \X Cols /\ filtered = [r \in Rows |-> 0]

-----------------------------------------------------------------------------
(* The main thread.                                                        *)

\* init_mt(), vp9_jobq_reset(), the first parse jobs, and the launch of the
\* workers: one that is not launched yet is like one that has not moved.
StartFrame(f) ==
  /\ main = "idle"
  /\ main' = "busy" /\ filter' = f
  /\ jobs' = FirstJobs /\ rd' = 0 /\ terminate' = FALSE /\ tilesDone' = 0
  /\ rowTiles' = [r \in Rows |-> 0] /\ reconMap' = {}
  /\ curSbCol' = [r \in Rows |-> -1]
  /\ pc' = [w \in Workers |-> "dequeue"]
  /\ corrupted' = [w \in Workers |-> FALSE]
  /\ recon' = {} /\ filtered' = [r \in Rows |-> 0]
  /\ UNCHANGED <<job, col, waiting, reported>>

\* sync() of every worker.
EndFrame ==
  /\ main = "busy" /\ \A w \in Workers : pc[w] = "done"
  /\ main' = "idle"
  /\ reported' = \E w \in Workers : corrupted[w]
  /\ UNCHANGED <<filter, queueVars, syncVars, histVars, pc, job, col, corrupted,
                 waiting>>

-----------------------------------------------------------------------------
(* Condition variables and the job queue.                                  *)

\* Worker w is through with its job, or goes on with it.
GoTo(w, p) ==
  /\ pc' = [pc EXCEPT ![w] = p]
  /\ IF p = "dequeue" THEN /\ job' = [job EXCEPT ![w] = NoJob]
                          /\ col' = [col EXCEPT ![w] = 0]
     ELSE UNCHANGED <<job, col>>

NextCol(w, p) ==
  /\ pc' = [pc EXCEPT ![w] = p] /\ col' = [col EXCEPT ![w] = @ + 1]
  /\ UNCHANGED job

\* pthread_cond_signal() for the workers of S.
Signal(S) == IF S = {} THEN UNCHANGED waiting
             ELSE \E v \in S : waiting' = waiting \ {v}

\* pthread_cond_wait() has returned to w, which was waiting at p.
Woken(w, p) == pc[w] = p /\ w \notin waiting

\* The workers waiting for a job, ...
QueueWaiters == {v \in waiting : pc[v] = "qwait"}

\* ... on recon_sync_cond for row r of tile t, ...
MapWaiters(r, t) ==
  {v \in waiting : pc[v] = "mwait" /\ job[v].row = r + 1 /\ job[v].tile = t}

\* ... and on cond[r] of lf_sync.
RowWaiters(r) == {v \in waiting : pc[v] = "wait" /\ job[v].row = r + 1}

\* vp9_jobq_queue(); a full buffer fails an assert.
Enqueue(j) ==
  /\ IF Len(jobs) < Capacity THEN jobs' = Append(jobs, j) /\ Signal(QueueWaiters)
     ELSE UNCHANGED <<jobs, waiting>>
  /\ UNCHANGED <<rd, terminate, tilesDone>>

\* Where a job begins.
Start(j) == CASE j.type = "parse" -> "parse"
              [] j.type = "recon" -> "recon"
              [] j.type = "lpf"   -> "read"

FirstCol(j) == IF j.type = "lpf" THEN 0 ELSE j.tile * TileCols

TakeJob(w) ==
  LET j == jobs[rd + 1] IN
  /\ rd' = rd + 1
  /\ job' = [job EXCEPT ![w] = j]
  /\ col' = [col EXCEPT ![w] = FirstCol(j)]
  /\ pc' = [pc EXCEPT ![w] = Start(j)]
  /\ UNCHANGED waiting

\* Mutant of MayTake: a terminated queue is left as it is.
MayTakeRunning == rd < Len(jobs) /\ ~terminate

MayTake == rd < Len(jobs)

\* vp9_jobq_dequeue(), blocking.  Whether the buffer is used up is asked only
\* once, before the loop.
Dequeue(w) ==
  /\ pc[w] = "dequeue" \/ Woken(w, "qwait")
  /\ \/ /\ pc[w] = "dequeue" /\ rd = Capacity
        /\ GoTo(w, "done") /\ UNCHANGED <<rd, waiting>>
     \/ /\ ~(pc[w] = "dequeue" /\ rd = Capacity)
        /\ \/ MayTake /\ TakeJob(w)
           \/ /\ ~MayTake /\ terminate
              /\ GoTo(w, "done") /\ UNCHANGED <<rd, waiting>>
           \/ /\ ~MayTake /\ ~terminate
              /\ waiting' = waiting \cup {w} /\ GoTo(w, "qwait")
              /\ UNCHANGED rd
  /\ UNCHANGED <<jobs, terminate, tilesDone, syncVars, mainVars, histVars,
                 corrupted>>

-----------------------------------------------------------------------------
(* PARSE_JOB.                                                              *)

\* Mutant of Parse: the last parse job of a worker decides.
ParseOverwrites(w, ok) ==
  /\ pc[w] = "parse"
  /\ corrupted' = [corrupted EXCEPT ![w] = ~ok]
  /\ GoTo(w, IF corrupted'[w] THEN "tiledone" ELSE "qrecon")
  /\ UNCHANGED <<queueVars, syncVars, mainVars, histVars, waiting>>

\* The row is parsed, or the parser finds it corrupt; a worker that has met an
\* error before gives up every tile whose parser it becomes.
Parse(w, ok) ==
  /\ pc[w] = "parse"
  /\ corrupted' = [corrupted EXCEPT ![w] = @ \/ ~ok]
  /\ GoTo(w, IF corrupted'[w] THEN "tiledone" ELSE "qrecon")
  /\ UNCHANGED <<queueVars, syncVars, mainVars, histVars, waiting>>

QueueRecon(w) ==
  /\ pc[w] = "qrecon"
  /\ Enqueue(ReconJob(job[w].row, job[w].tile))
  /\ GoTo(w, IF job[w].row + 1 < NumRows THEN "qparse" ELSE "dequeue")
  /\ UNCHANGED <<syncVars, mainVars, histVars, corrupted>>

QueueParse(w) ==
  /\ pc[w] = "qparse"
  /\ Enqueue(ParseJob(job[w].row + 1, job[w].tile))
  /\ GoTo(w, "dequeue")
  /\ UNCHANGED <<syncVars, mainVars, histVars, corrupted>>

\* vp9_tile_done(): counted once per tile, for the parser that gave up or for the
\* reconstruction of the last row; the last one terminates the queue.
TileDone(w) ==
  /\ pc[w] = "tiledone"
  /\ tilesDone' = tilesDone + 1
  /\ GoTo(w, IF tilesDone + 1 = NumTiles THEN "terminate" ELSE "dequeue")
  /\ UNCHANGED <<jobs, rd, terminate, syncVars, mainVars, histVars, corrupted,
                 waiting>>

\* pthread_cond_broadcast()
WakeAll == waiting' = waiting \ QueueWaiters

\* vp9_jobq_terminate()
Terminate(w) ==
  /\ pc[w] = "terminate"
  /\ terminate' = TRUE
  /\ WakeAll
  /\ GoTo(w, "dequeue")
  /\ UNCHANGED <<jobs, rd, tilesDone, syncVars, mainVars, histVars, corrupted>>

-----------------------------------------------------------------------------
(* RECON_JOB: recon_tile_row().                                            *)

LastRow(w) == job[w].row = NumRows - 1

LastCol(w) == col[w] + 1 = (job[w].tile + 1) * TileCols

\* Where a worker goes when it is through with its row of a tile.
RowEnd(w) == IF LastRow(w) THEN "tiledone" ELSE "dequeue"

\* Mutant of TopDone: off by one row.
TopDoneSecond(r, c) == r <= 1 \/ <<r - 1, c>> \in reconMap

\* The superblock above is reconstructed.
TopDone(r, c) == r = 0 \/ <<r - 1, c>> \in reconMap

\* map_read()
MapRead(w) ==
  /\ pc[w] = "recon" \/ Woken(w, "mwait")
  /\ IF TopDone(job[w].row, col[w])
       THEN UNCHANGED waiting /\ GoTo(w, "block")
       ELSE waiting' = waiting \cup {w} /\ GoTo(w, "mwait")
  /\ UNCHANGED <<queueVars, syncVars, mainVars, histVars, corrupted>>

\* The row is counted at its last superblock, before that is marked in the map.
AfterBlock(w) == IF filter /\ LastCol(w) THEN "check" ELSE "write"

\* process_partition() with recon_block().
ReconBlock(w) ==
  /\ pc[w] = "block"
  /\ recon' = recon \cup {<<job[w].row, col[w]>>}
  /\ GoTo(w, AfterBlock(w))
  /\ UNCHANGED <<queueVars, syncVars, mainVars, filtered, corrupted, waiting>>

\* recon_block() meets a reference whose size does not fit, which the parser does
\* not look at: longjmp() to the hook, which marks the whole row of the tile.
ReconError(w) ==
  LET r == job[w].row
      t == job[w].tile
  IN
  /\ pc[w] = "block" /\ r \in InvalidRefs
  /\ corrupted' = [corrupted EXCEPT ![w] = TRUE]
  /\ reconMap' = reconMap \cup ({r} \X TileSbs(t))
  /\ Signal(MapWaiters(r, t))
  /\ GoTo(w, RowEnd(w))
  /\ UNCHANGED <<queueVars, rowTiles, curSbCol, mainVars, histVars>>

\* Mutant of RowComplete: one tile too early.
RowCompleteEarly(n) == n >= NumTiles - 1

\* n tiles of a row are all of it.
RowComplete(n) == n = NumTiles

\* lpf_map_write_check()
LpfMapWriteCheck(w) ==
  LET r == job[w].row IN
  /\ pc[w] = "check"
  /\ rowTiles' = [rowTiles EXCEPT ![r] = @ + 1]
  /\ GoTo(w, IF ~RowComplete(rowTiles[r] + 1) THEN "write"
             ELSE IF r > 0 THEN "qlpf"
             ELSE IF LastRow(w) THEN "qlast" ELSE "write")
  /\ UNCHANGED <<queueVars, reconMap, curSbCol, mainVars, histVars, corrupted,
                 waiting>>

\* Mutant of LpfRow: the row that has just been reconstructed.
LpfRowSame(r) == r

\* The row that may be filtered once row r is reconstructed.
LpfRow(r) == r - 1

QueueLpf(w) ==
  /\ pc[w] = "qlpf"
  /\ Enqueue(LpfJob(LpfRow(job[w].row)))
  /\ GoTo(w, IF LastRow(w) THEN "qlast" ELSE "write")
  /\ UNCHANGED <<syncVars, mainVars, histVars, corrupted>>

QueueLastLpf(w) ==
  /\ pc[w] = "qlast"
  /\ Enqueue(LpfJob(job[w].row))
  /\ GoTo(w, "write")
  /\ UNCHANGED <<syncVars, mainVars, histVars, corrupted>>

\* map_write(), and the next column.  At the end of the row a corrupted worker
\* takes the error path, which marks the row again.
MapWrite(w) ==
  /\ pc[w] = "write"
  /\ reconMap' = reconMap \cup {<<job[w].row, col[w]>>}
  /\ Signal(MapWaiters(job[w].row, job[w].tile))
  /\ IF LastCol(w) THEN GoTo(w, RowEnd(w)) ELSE NextCol(w, "recon")
  /\ UNCHANGED <<queueVars, rowTiles, curSbCol, mainVars, histVars, corrupted>>

-----------------------------------------------------------------------------
(* LPF_JOB: vp9_loopfilter_job().                                          *)

\* sync_read: while (c > cur_sb_col[r - 1] - nsync) wait
AboveDone(r, c) == c <= curSbCol[r - 1] - SyncRange

SyncRead(w) ==
  LET r == job[w].row IN
  /\ pc[w] = "read" \/ Woken(w, "wait")
  /\ IF r = 0 \/ col[w] % SyncRange # 0 \/ AboveDone(r, col[w])
       THEN UNCHANGED waiting /\ GoTo(w, "filter")
       ELSE waiting' = waiting \cup {w} /\ GoTo(w, "wait")
  /\ UNCHANGED <<queueVars, syncVars, mainVars, histVars, corrupted>>

\* A superblock is filtered; sync_write, and the next column.
FilterSb(w) ==
  LET r == job[w].row
      c == col[w]
      last == c = NumCols - 1
  IN
  /\ pc[w] = "filter"
  /\ filtered' = [filtered EXCEPT ![r] = @ + 1]
  /\ IF last \/ c % SyncRange = 0
       THEN /\ curSbCol' = [curSbCol EXCEPT ![r] =
                              IF last THEN NumCols + SyncRange ELSE c]
            /\ Signal(RowWaiters(r))
       ELSE UNCHANGED <<curSbCol, waiting>>
  /\ IF last THEN GoTo(w, "dequeue") ELSE NextCol(w, "read")
  /\ UNCHANGED <<queueVars, rowTiles, reconMap, mainVars, recon, corrupted>>

\* pthread_cond_wait() returns without a signal.
SpuriousWakeup(w) ==
  /\ w \in waiting
  /\ waiting' = waiting \ {w}
  /\ UNCHANGED <<queueVars, syncVars, mainVars, histVars, pc, job, col,
                 corrupted>>

-----------------------------------------------------------------------------
WorkerStep(w) ==
  \/ Dequeue(w)
  \/ (\E ok \in BOOLEAN : Parse(w, ok)) \/ QueueRecon(w) \/ QueueParse(w)
  \/ TileDone(w) \/ Terminate(w)
  \/ MapRead(w) \/ ReconBlock(w) \/ LpfMapWriteCheck(w)
  \/ QueueLpf(w) \/ QueueLastLpf(w) \/ MapWrite(w)
  \/ SyncRead(w) \/ FilterSb(w)

Next == \/ \E f \in BOOLEAN : StartFrame(f)
        \/ EndFrame
        \/ \E w \in Workers : WorkerStep(w) \/ ReconError(w) \/ SpuriousWakeup(w)

\* The threads that were launched are scheduled; nothing obliges the
\* application to hand over another frame, or a frame to be corrupt.
Fairness == WF_vars(EndFrame) /\ \A w \in Workers : WF_vars(WorkerStep(w))

Spec == Init /\ [][Next]_vars /\ Fairness

-----------------------------------------------------------------------------
(* Properties.                                                             *)

\* When the frame ends every job that was queued has been taken, although some
\* workers leave while others are still queueing, and each tile was counted
\* once.
AllJobsTaken ==
  main = "idle" => rd = Len(jobs) /\ tilesDone = NumTiles

\* A worker that is about to call vp9_jobq_queue() finds room in the buffer, which
\* never wraps around: a job that found none would be lost, and with it its row.
RoomToQueue ==
  \A w \in Workers : pc[w] \in {"qrecon", "qparse", "qlpf", "qlast"}
    => Len(jobs) < Capacity

\* No job is lost, neither when it is queued nor when the workers leave.
NoJobLost == RoomToQueue /\ AllJobsTaken

\* The reconstruction of a row has failed: it is marked in the map without having
\* been reconstructed.
ReconFailed == ~(reconMap \subseteq recon)

\* A superblock is reconstructed after the one above it, from which intra
\* prediction reads, unless reconstruction has failed somewhere.
ReconBelowRecon ==
  \A w \in Workers : pc[w] = "block" /\ job[w].row > 0
    => <<job[w].row - 1, col[w]>> \in recon \/ ReconFailed

\* A row is filtered when it and the row below are reconstructed in every tile,
\* also in frames that a corrupt tile leaves incomplete elsewhere; again unless
\* reconstruction has failed.
FilterAfterRecon ==
  \A w \in Workers : pc[w] = "filter" =>
    \A r \in Rows : r \in {job[w].row, job[w].row + 1}
      => {r} \X Cols \subseteq recon \/ ReconFailed

\* The workers that are left never all wait, one for a job and another for a row
\* above that is still in the queue or whose job was never queued: a frame ends,
\* unless reconstruction has failed.
NotAllWaiting ==
  main = "busy" => \/ \A w \in Workers : pc[w] = "done"
                   \/ \E w \in Workers : pc[w] # "done" /\ w \notin waiting
                   \/ ReconFailed

\* A frame that is not reported as corrupt is reconstructed and, if it is to be
\* filtered at all, filtered exactly once, everywhere.
CleanIsComplete ==
  main = "idle" /\ ~reported =>
    /\ recon = Rows \X Cols
    /\ filter => \A r \in Rows : filtered[r] = NumCols

\* Every frame comes to an end, whichever rows of whichever tiles are corrupt.
FrameEnds == main = "busy" ~> main = "idle"
-----------------------------------------------------------------------------
(* What the properties rest on.                                            *)

AllJobs == {j \in [type : {"parse", "recon", "lpf"}, row : Rows, tile : Tiles] :
              j.type = "lpf" => j.tile = 0}

\* Where a worker is that has a job of each kind, and where one is that marks a
\* superblock which it has reconstructed.
ParsePlaces == {"parse", "qrecon", "qparse"}
MarkPlaces  == {"check", "qlpf", "qlast", "write"}
ReconPlaces == {"recon", "mwait", "block"} \cup MarkPlaces
LpfPlaces   == {"read", "wait", "filter"}
Working     == ParsePlaces \cup ReconPlaces \cup LpfPlaces \cup {"tiledone"}
Places      == Working \cup {"dequeue", "qwait", "done", "terminate"}

QueueType == /\ main \in {"idle", "busy"}
             /\ jobs \in Seq(AllJobs) /\ rd \in 0 .. Len(jobs) /\ tilesDone \in Nat
SyncType  == /\ rowTiles \in [Rows -> Nat] /\ reconMap \subseteq Rows \X Cols
             /\ curSbCol \in [Rows -> Int]
PlaceType == /\ pc \in [Workers -> Places] /\ job \in [Workers -> AllJobs]
             /\ col \in [Workers -> Nat] /\ waiting \subseteq Workers
FlagType  == /\ filter \in BOOLEAN /\ reported \in BOOLEAN /\ terminate \in BOOLEAN
             /\ corrupted \in [Workers -> BOOLEAN]
HistoryType == recon \subseteq Rows \X Cols /\ filtered \in [Rows -> Nat]

TypeOK == QueueType /\ SyncType /\ PlaceType /\ FlagType /\ HistoryType

\* The jobs that were queued, the ones that were taken, who has one, and the ones
\* that were left behind.
Queued   == {jobs[i] : i \in 1 .. Len(jobs)}
Taken    == {jobs[i] : i \in 1 .. rd}
On(w, j) == pc[w] \in Working /\ job[w] = j
Left(j)  == j \in Taken /\ \A w \in Workers : ~On(w, j)

\* The job of a worker is of the kind that is done where it is.
Suits(w) ==
  /\ pc[w] \in ParsePlaces => job[w].type = "parse"
  /\ pc[w] \in ReconPlaces => job[w].type = "recon" /\ col[w] \in TileSbs(job[w].tile)
  /\ pc[w] \in {"check", "qlpf", "qlast"} => LastCol(w) /\ filter
  /\ pc[w] = "qlpf" => job[w].row > 0
  /\ pc[w] = "qlast" => LastRow(w)
  /\ pc[w] \in LpfPlaces => job[w].type = "lpf" /\ col[w] \in Cols
  /\ pc[w] = "tiledone" => \/ job[w].type = "parse" /\ corrupted[w]
                           \/ job[w].type = "recon" /\ LastRow(w)

\* No job is queued twice, and none is done by two workers.
OneEach ==
  /\ \A i, k \in 1 .. Len(jobs) : jobs[i] = jobs[k] => i = k
  /\ \A w \in Workers : pc[w] \in Working => job[w] \in Taken
  /\ \A w, v \in Workers : /\ pc[w] \in Working /\ pc[v] \in Working
                           /\ job[w] = job[v]
                           => w = v

\* The rows of a tile are queued for reconstruction, and rows for the filter, from
\* the top: the row a worker waits for has been taken before its own.
Before(j, i) == \E k \in 1 .. i - 1 : jobs[k] = j

InOrder ==
  \A i \in 1 .. Len(jobs), r \in Rows : r > 0 =>
    /\ \A t \in Tiles : jobs[i] = ReconJob(r, t) => Before(ReconJob(r - 1, t), i)
    /\ jobs[i] = LpfJob(r) => Before(LpfJob(r - 1), i) \/ ReconFailed

\* Parsing of a tile has come to row r, and is going on there, further down, at an
\* end, or was given up by a worker that reports it.
ParsedTo(r, t) ==
  /\ ParseJob(r, t) \in Queued => \A q \in 0 .. r - 1 : ReconJob(q, t) \in Queued
  /\ ReconJob(r, t) \in Queued => ParseJob(r, t) \in Taken
  /\ Left(ParseJob(r, t)) =>
       \/ /\ ReconJob(r, t) \in Queued
          /\ r + 1 < NumRows => ParseJob(r + 1, t) \in Queued
       \/ /\ ReconJob(r, t) \notin Queued
          /\ \E w \in Workers : corrupted[w]
  /\ \A w \in Workers : On(w, ParseJob(r, t)) =>
       IF pc[w] = "qparse"
         THEN /\ ReconJob(r, t) \in Queued
              /\ r + 1 < NumRows /\ ParseJob(r + 1, t) \notin Queued
         ELSE ReconJob(r, t) \notin Queued

Parsed == \A t \in Tiles : ParseJob(0, t) \in Queued
                           /\ \A r \in Rows : ParsedTo(r, t)

\* A tile is counted when its parser gave it up, or its last row is through.
Counted(t) ==
  \/ \E r \in Rows : Left(ParseJob(r, t)) /\ ReconJob(r, t) \notin Queued
  \/ Left(ReconJob(NumRows - 1, t))

TilesCounted == tilesDone = Cardinality({t \in Tiles : Counted(t)})

\* The map has what a worker has done of row r of tile t, and all of it in the end.
MapOf(r, t) ==
  /\ ReconJob(r, t) \notin Taken =>
       \A c \in TileSbs(t) : <<r, c>> \notin reconMap /\ <<r, c>> \notin recon
  /\ \A w \in Workers : On(w, ReconJob(r, t)) /\ pc[w] # "tiledone" =>
       \A c \in TileSbs(t) :
         /\ <<r, c>> \in reconMap <=> c < col[w]
         /\ <<r, c>> \in recon <=> c < col[w] \/ (c = col[w] /\ pc[w] \in MarkPlaces)
  /\ \A w \in Workers : On(w, ReconJob(r, t)) /\ pc[w] = "tiledone" =>
       \A c \in TileSbs(t) : <<r, c>> \in reconMap
  /\ Left(ReconJob(r, t)) => \A c \in TileSbs(t) : <<r, c>> \in reconMap

Mapped ==
  /\ \A r \in Rows, t \in Tiles : MapOf(r, t)
  /\ \A w \in Workers : pc[w] = "block" => TopDone(job[w].row, col[w])
  /\ \A p \in recon : TopDone(p[1], p[2])
  /\ ReconFailed => \E w \in Workers : corrupted[w]

\* A tile is counted in a row when its last superblock is reconstructed, before
\* that is marked.
Checked(r, t) ==
  \/ Left(ReconJob(r, t))
  \/ \E w \in Workers :
       /\ On(w, ReconJob(r, t))
       /\ \/ pc[w] = "tiledone"
          \/ pc[w] \in {"qlpf", "qlast", "write"} /\ LastCol(w)

RowsCounted ==
  /\ ~filter => \A r \in Rows : rowTiles[r] = 0
  /\ filter /\ ~ReconFailed =>
       \A r \in Rows : rowTiles[r] = Cardinality({t \in Tiles : Checked(r, t)})

\* A worker is about to queue the filtering of row r, for which the row below is
\* complete.
Promises(w, r) ==
  \/ pc[w] = "qlpf" /\ job[w].row = r + 1
  \/ pc[w] \in {"qlpf", "qlast"} /\ job[w].row = r /\ r = NumRows - 1

RowBelow(r) == IF r = NumRows - 1 THEN r ELSE r + 1

\* The filtering of a row is queued once, when the row below is complete, and
\* counts the columns.
LpfOf(r) ==
  /\ rowTiles[RowBelow(r)] >= NumTiles
       <=> LpfJob(r) \in Queued \/ \E w \in Workers : Promises(w, r)
  /\ \A w \in Workers : Promises(w, r) => LpfJob(r) \notin Queued
  /\ \A w, v \in Workers : Promises(w, r) /\ Promises(v, r) => w = v
  /\ LpfJob(r) \notin Taken => filtered[r] = 0
  /\ \A w \in Workers : On(w, LpfJob(r)) => filtered[r] = col[w]
  /\ Left(LpfJob(r)) => filtered[r] = NumCols /\ curSbCol[r] = NumCols + SyncRange

\* A worker sleeps while what it waits for is not there; one that waits for a job
\* leaves another to take the jobs there are or to end the frame.
Asleep(w) ==
  /\ pc[w] \in {"qwait", "mwait", "wait"}
  /\ pc[w] = "qwait" => ~terminate
  /\ pc[w] = "mwait" => ~TopDone(job[w].row, col[w])
  /\ pc[w] = "wait" => job[w].row > 0 /\ ~AboveDone(job[w].row, col[w])

Served ==
  /\ rd < Len(jobs) => \E w \in Workers : /\ pc[w] # "done"
                                          /\ ~(pc[w] = "qwait" /\ w \in waiting)
  /\ tilesDone = NumTiles => terminate \/ \E w \in Workers : pc[w] = "terminate"

Busy == /\ \A w \in Workers : Suits(w)
        /\ OneEach /\ InOrder /\ Parsed /\ TilesCounted /\ Mapped /\ RowsCounted
        /\ \A r \in Rows : LpfOf(r)
        /\ \A w \in waiting : Asleep(w)
        /\ Served

AtRest == /\ \A w \in Workers : pc[w] = "done"
          /\ waiting = {}
          /\ AllJobsTaken /\ CleanIsComplete

\* The inductive invariant.
IndInv == /\ TypeOK
          /\ main = "busy" => Busy
          /\ main = "idle" => AtRest
=============================================================================
