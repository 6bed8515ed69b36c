------------------------------ MODULE Vp9EncMt ------------------------------
(***************************************************************************)
(* The encoding of a frame by several workers: vp9/encoder/vp9_ethread.c   *)
(* and vp9/encoder/vp9_multi_thread.c, with vp9_init_tile_data() and the   *)
(* row loops of vp9/encoder/vp9_encodeframe.c.  Without row_mt a worker    *)
(* encodes every num_workers-th tile.  With row_mt the superblock rows of  *)
(* each tile column are a queue of jobs, and a row follows the one above   *)
(* it at the distance published in cur_col.  The memory for the row jobs   *)
(* is kept from frame to frame while it is large enough.                   *)
(***************************************************************************)
EXTENDS Integers, FiniteSets, FiniteSetsExt

CONSTANTS
  Streams,     \* what is encoded: [svc, tileColumns, shapes]; tileColumns is
               \* oxcf.tile_columns > 0, and a shape of a frame is
               \* [tileCols, tileRows, sbRows, width], the last one in
               \* superblocks of one tile column
  MaxThreads   \* oxcf.max_threads

Shapes == UNION {s.shapes : s \in Streams}

\* With several threads set_encoder_config() takes one tile row, but only when
\* tile columns are asked for.
ASSUME EncMtAssumption ==
  /\ MaxThreads \in Nat /\ MaxThreads > 1 /\ IsFiniteSet(Shapes)
  /\ \A s \in Streams : /\ {s.svc, s.tileColumns} \subseteq BOOLEAN
                        /\ s.tileColumns => \A f \in s.shapes : f.tileRows = 1
  /\ \A f \in Shapes : /\ {f.tileCols, f.tileRows, f.width} \subseteq Nat \ {0}
                       /\ f.sbRows \in Nat /\ f.sbRows >= f.tileRows

Workers == 0 .. MaxThreads - 1
Cols    == 0 .. Max({f.tileCols : f \in Shapes}) - 1
Rows    == 0 .. Max({f.sbRows : f \in Shapes}) - 1
Tiles   == 0 .. Max({f.tileCols * f.tileRows : f \in Shapes}) - 1

\* sync_range of vp9_row_mt_sync_mem_alloc().
SyncRange == 1

\* The cur_col that lets every column of the next row pass.
Past(w) == w + SyncRange

VARIABLES
  stream,      \* the configuration
  numWorkers,  \* cpi->num_workers
  frame, mode, \* what is being encoded: "rows", "arnr" or "tiles"
  tiles,       \* allocated_tiles
  alloc,       \* allocated_tile_cols, _tile_rows and _vert_unit_rows
  vertSbs,     \* num_tile_vert_sbs
  sync,        \* of every element of tile_data: whose cur_col it points to
  curCol,      \* cur_col of every row_mt_sync that is allocated
  jobs,        \* of every tile column: how many were acquired
  tileRow,     \* tile_row_id of the job for a row
  pc, tile, row, col,
  finished,    \* tile_completion_status
  scan, most,  \* the loop over the tile columns in vp9_get_tiles_proc_status()
  encoded      \* history: superblocks encoded, by tile column and row

memory == <<tiles, alloc, vertSbs, sync>>
frameVars == <<stream, numWorkers, frame, mode, memory, tileRow>>
scanVars == <<finished, scan, most>>
place == <<tile, row, col>>
encVars == <<frameVars, curCol, jobs, pc, place, scanVars, encoded>>

None == -1
NoMemory == [cols |-> 0, rows |-> 0, vert |-> 0]
NoJobs == [tile |-> None, jobs |-> 0]
Nothing == [c \in Cols |-> [r \in Rows |-> 0]]
All(x) == [t \in Workers |-> x]

EncInit ==
  /\ stream \in Streams /\ frame \in stream.shapes
  /\ numWorkers = 0 /\ mode = "none"
  /\ tiles = 0 /\ alloc = NoMemory
  /\ vertSbs = [r \in Rows |-> 0] /\ sync = [i \in Tiles |-> None]
  /\ curCol = Nothing /\ encoded = Nothing
  /\ jobs = [c \in Cols |-> 0] /\ tileRow = [r \in Rows |-> 0]
  /\ pc = All("idle") /\ tile = All(0) /\ row = All(0) /\ col = All(0)
  /\ finished = All({}) /\ scan = All(0) /\ most = All(NoJobs)

Goto(t, l) == pc' = [pc EXCEPT ![t] = l]

Idle == pc = All("idle")

-----------------------------------------------------------------------------
(* Memory for the tiles and the row jobs.                                  *)

\* get_tile_offset: the superblock row at which a tile row begins.
TileRowStart(f, i) == (i * f.sbRows) \div f.tileRows

\* get_num_vert_units
VertUnits(f, i) == TileRowStart(f, i + 1) - TileRowStart(f, i)

NumTiles(f) == f.tileCols * f.tileRows

\* The condition for vp9_row_mt_mem_dealloc() and vp9_row_mt_mem_alloc(); the
\* rows are counted in macroblocks there.
TooSmall(f) ==
  alloc.cols < f.tileCols \/ alloc.rows < f.tileRows \/ alloc.vert < f.sbRows

\* vp9_row_mt_mem_alloc: the tile rows of a tile column share a row_mt_sync.
\* cur_col is not initialised.
MemAlloc(f) ==
  /\ alloc' = [cols |-> f.tileCols, rows |-> f.tileRows, vert |-> f.sbRows]
  /\ sync' = [i \in Tiles |-> IF i < NumTiles(f) THEN i % f.tileCols ELSE None]
  /\ vertSbs' = [r \in Rows |-> IF r < f.tileRows THEN VertUnits(f, r) ELSE 0]

\* vp9_row_mt_mem_dealloc
MemDealloc ==
  /\ alloc' = NoMemory /\ sync' = [i \in Tiles |-> None]
  /\ UNCHANGED vertSbs

\* vp9_init_tile_data: more tiles than before need a new tile_data, and the
\* memory for the row jobs goes with the old one.
TileData(f) ==
  /\ tiles' = Max({tiles, NumTiles(f)})
  /\ IF tiles < NumTiles(f) THEN MemDealloc
     ELSE UNCHANGED <<alloc, sync, vertSbs>>

-----------------------------------------------------------------------------
(* A frame begins.                                                         *)

Fewer(a, b) == Min({a, b})

\* get_max_tile_cols: of the largest resolution.
MaxTileCols == Max({f.tileCols : f \in stream.shapes})

\* create_enc_workers: without row_mt SVC takes what the largest frame needs.
EncWorkers(n) == IF stream.svc THEN Fewer(MaxThreads, MaxTileCols) ELSE n

\* The workers that are launched, n of them.
Launch(n, l) ==
  pc' = [t \in Workers |-> IF t < n THEN l ELSE "idle"]

\* vp9_encode_tiles_mt: tiles to several workers ...
StartTiles(f) ==
  LET n == Fewer(MaxThreads, f.tileCols)
  IN  /\ Idle /\ n > 1
      /\ TileData(f)
      /\ numWorkers' = EncWorkers(n)
      /\ frame' = f /\ mode' = "tiles" /\ encoded' = Nothing
      /\ Launch(n, "tile") /\ tile' = [t \in Workers |-> t]
      /\ UNCHANGED <<stream, tileRow, curCol, jobs, row, col, scanVars>>

\* ... or encode_tiles, all of them in order.
EncodeTiles(f) ==
  /\ Idle /\ f.tileCols = 1
  /\ TileData(f)
  /\ frame' = f /\ mode' = "tiles"
  /\ encoded' = [c \in Cols |-> [r \in Rows |->
       IF c < f.tileCols /\ r < f.sbRows THEN f.width ELSE 0]]
  /\ UNCHANGED <<stream, numWorkers, tileRow, curCol, jobs, pc, place,
                 scanVars>>

\* vp9_prepare_job_queue counts the rows off with num_tile_vert_sbs, at least
\* one for every tile row.
TileIds(v) ==
  LET end[i \in Rows] == (IF i = 0 THEN 0 ELSE end[i - 1]) + Max({v[i], 1})
  IN  [r \in Rows |-> Cardinality({i \in Rows : end[i] <= r})]

\* Mutant of CurColInit: the row counters of the last frame are kept.
CurColInitNever(f, cur, s) == cur

\* vp9_multi_thread_tile_init: cur_col of the first tile_cols tiles.
CurColInit(f, cur, s) ==
  [c \in Cols |-> [r \in Rows |->
     IF r < f.sbRows /\ \E i \in 0 .. f.tileCols - 1 : s[i] = c
       THEN -1 ELSE cur[c][r]]]

\* vp9_assign_tile_to_thread
FirstTile(f, t) == t % f.tileCols

\* vp9_encode_tiles_row_mt and vp9_encode_fp_row_mt (m = "rows"), and
\* vp9_temporal_filter_row_mt (m = "arnr"), with what malloc left in new memory.
StartRows(f, m, garbage) ==
  /\ Idle
  /\ tiles' = Max({tiles, NumTiles(f)})
  /\ IF TooSmall(f) THEN MemAlloc(f) ELSE UNCHANGED <<alloc, sync, vertSbs>>
  /\ LET cur == IF TooSmall(f) THEN [c \in Cols |-> [r \in Rows |-> garbage]]
                ELSE curCol
     IN  curCol' = IF m = "rows" THEN CurColInit(f, cur, sync') ELSE cur
  /\ numWorkers' = IF m = "rows" THEN MaxThreads ELSE Max({numWorkers, 1})
  /\ frame' = f /\ mode' = m /\ encoded' = Nothing
  /\ jobs' = [c \in Cols |-> 0]
  /\ tileRow' = IF m = "rows" THEN TileIds(vertSbs') ELSE [r \in Rows |-> 0]
  /\ Launch(numWorkers', "get")
  /\ tile' = [t \in Workers |-> FirstTile(f, t)]
  /\ finished' = All({})
  /\ UNCHANGED <<stream, row, col, scan, most>>

-----------------------------------------------------------------------------
(* enc_worker_hook                                                         *)

TileRowsOf(f, i) == {r \in Rows : TileRowStart(f, i) <= r
                                  /\ r < TileRowStart(f, i + 1)}

\* vp9_encode_tile, and the next tile of this worker.
EncodeTile(t) ==
  /\ pc[t] = "tile"
  /\ IF tile[t] < NumTiles(frame)
       THEN LET c == tile[t] % frame.tileCols
                i == tile[t] \div frame.tileCols
            IN  /\ encoded' = [encoded EXCEPT ![c] = [r \in Rows |->
                     IF r \in TileRowsOf(frame, i) THEN frame.width ELSE @[r]]]
                /\ tile' = [tile EXCEPT ![t] = @ + numWorkers]
                /\ UNCHANGED pc
       ELSE Goto(t, "idle") /\ tile' = [tile EXCEPT ![t] = 0]
            /\ UNCHANGED encoded
  /\ UNCHANGED <<frameVars, curCol, jobs, row, col, scanVars>>

-----------------------------------------------------------------------------
(* enc_row_mt_worker_hook, first_pass_worker_hook and                      *)
(* temporal_filter_worker_hook                                             *)

\* vp9_enc_grp_get_next_job: the next row of this tile column, or none.
GetNextJob(t) ==
  /\ pc[t] = "get"
  /\ IF jobs[tile[t]] < frame.sbRows
       THEN /\ row' = [row EXCEPT ![t] = jobs[tile[t]]]
            /\ jobs' = [jobs EXCEPT ![tile[t]] = @ + 1]
            /\ Goto(t, IF mode = "arnr" THEN "filter" ELSE "read")
            /\ UNCHANGED scanVars
       ELSE /\ Goto(t, "status")
            /\ finished' = [finished EXCEPT ![t] = @ \cup {tile[t]}]
            /\ UNCHANGED <<row, jobs, scan, most>>
  /\ UNCHANGED <<frameVars, curCol, tile, col, encoded>>

\* Mutant of TilesLeft: the columns after the first are not looked at.
TilesLeftFirst(t) == scan[t] < 1

TilesLeft(t) == scan[t] < frame.tileCols

\* vp9_get_tiles_proc_status: looks at one tile column after the other ...
TileStatus(t) ==
  LET c == scan[t]
      left == frame.sbRows - jobs[c]
  IN  /\ pc[t] = "status" /\ TilesLeft(t)
      /\ scan' = [scan EXCEPT ![t] = @ + 1]
      /\ most' = IF c \notin finished[t] /\ left > most[t].jobs
                   THEN [most EXCEPT ![t] = [tile |-> c, jobs |-> left]]
                   ELSE most
      /\ finished' = IF left = 0 THEN [finished EXCEPT ![t] = @ \cup {c}]
                     ELSE finished
      /\ UNCHANGED <<frameVars, curCol, jobs, pc, place, encoded>>

\* ... and takes the one with most jobs left, if any.
NextTile(t) ==
  /\ pc[t] = "status" /\ ~TilesLeft(t)
  /\ IF most[t].tile = None
       THEN Goto(t, "idle") /\ tile' = [tile EXCEPT ![t] = 0]
       ELSE Goto(t, "get") /\ tile' = [tile EXCEPT ![t] = most[t].tile]
  /\ scan' = [scan EXCEPT ![t] = 0] /\ most' = [most EXCEPT ![t] = NoJobs]
  /\ UNCHANGED <<frameVars, curCol, jobs, row, col, finished, encoded>>

\* vp9_temporal_filter_iterate_row_c needs no other row.
FilterRow(t) ==
  /\ pc[t] = "filter"
  /\ encoded' = [encoded EXCEPT ![tile[t]][row[t]] = @ + frame.width]
  /\ row' = [row EXCEPT ![t] = 0]
  /\ Goto(t, "get")
  /\ UNCHANGED <<frameVars, curCol, jobs, tile, col, scanVars>>

\* row_mt_sync of this job's tile.
SyncOf(t) == sync[tileRow[row[t]] * frame.tileCols + tile[t]]

\* while (c > row_mt_sync->cur_col[r - 1] - nsync + 1)
MustWait(t) ==
  /\ row[t] > 0 /\ col[t] % SyncRange = 0
  /\ col[t] > curCol[SyncOf(t)][row[t] - 1] - SyncRange + 1

\* vp9_row_mt_sync_read: tested under the mutex.
SyncRead(t) ==
  /\ pc[t] = "read"
  /\ Goto(t, IF MustWait(t) THEN "asleep" ELSE "encode")
  /\ UNCHANGED <<frameVars, curCol, jobs, place, scanVars, encoded>>

\* A superblock of encode_rd_sb_row() or encode_nonrd_sb_row().
EncodeSb(t) ==
  /\ pc[t] = "encode"
  /\ encoded' = [encoded EXCEPT ![tile[t]][row[t]] = @ + 1]
  /\ Goto(t, "write")
  /\ UNCHANGED <<frameVars, curCol, jobs, place, scanVars>>

\* The waiters on cond[r] of a row_mt_sync.
Sleepers(s, r) == {u \in Workers : pc[u] = "asleep" /\ SyncOf(u) = s
                                   /\ row[u] = r + 1}

\* Mutant of Signals: the last column is not told.
SignalsNoEnd(c) == c < frame.width - 1 /\ c % SyncRange = SyncRange - 1

\* "Only signal when there are enough encoded blocks for next row to run."
Signals(c) == c = frame.width - 1 \/ c % SyncRange = SyncRange - 1

\* vp9_row_mt_sync_write: the column is published, and one waiter signalled.
\* Then the next superblock, or the next job.
SyncWrite(t) ==
  LET last == col[t] = frame.width - 1
      sig  == Signals(col[t])
      cur  == IF last THEN Past(frame.width) ELSE col[t]
  IN  /\ pc[t] = "write"
      /\ curCol' = IF sig THEN [curCol EXCEPT ![SyncOf(t)][row[t]] = cur]
                   ELSE curCol
      /\ \E W \in IF sig /\ Sleepers(SyncOf(t), row[t]) # {}
                    THEN {{u} : u \in Sleepers(SyncOf(t), row[t])} ELSE {{}} :
           pc' = [u \in Workers |->
             IF u = t THEN IF last THEN "get" ELSE "read"
             ELSE IF u \in W THEN "read" ELSE pc[u]]
      /\ col' = [col EXCEPT ![t] = IF last THEN 0 ELSE @ + 1]
      /\ row' = [row EXCEPT ![t] = IF last THEN 0 ELSE @]
      /\ UNCHANGED <<frameVars, jobs, tile, scanVars, encoded>>

-----------------------------------------------------------------------------
WorkerStep(t) ==
  \/ EncodeTile(t) \/ GetNextJob(t) \/ TileStatus(t) \/ NextTile(t)
  \/ FilterRow(t) \/ SyncRead(t) \/ EncodeSb(t) \/ SyncWrite(t)

Start ==
  \E f \in stream.shapes :
    \/ StartTiles(f) \/ EncodeTiles(f)
    \/ \E m \in {"rows", "arnr"}, garbage \in {-1, Past(f.width)} :
         StartRows(f, m, garbage)

EncNext == Start \/ \E t \in Workers : WorkerStep(t)

\* Every worker is a thread that runs.
EncFairness == \A t \in Workers : WF_encVars(WorkerStep(t))

EncSpec == EncInit /\ [][EncNext]_encVars /\ EncFairness

-----------------------------------------------------------------------------
(* Properties.                                                             *)

\* What is above (r, c) in the same tile column has been encoded up to column c.
EncodedAbove(c, r, n) == r > 0 => encoded[c][r - 1] >= n

\* A superblock is encoded after the one above it, from which it takes modes,
\* motion vectors and pixels; a tile after the one above it, for the same
\* reason.
AboveEncoded ==
  \A t \in Workers :
    /\ pc[t] = "encode" => EncodedAbove(tile[t], row[t], col[t] + 1)
    /\ pc[t] = "tile" /\ tile[t] < NumTiles(frame) =>
         EncodedAbove(tile[t] % frame.tileCols,
                      TileRowStart(frame, tile[t] \div frame.tileCols),
                      frame.width)

\* When the workers are done every superblock was encoded once, whatever the
\* sizes of the frames before: "Encoding ends".
EveryRowOnce ==
  Idle /\ mode # "none" =>
    \A c \in 0 .. frame.tileCols - 1, r \in 0 .. frame.sbRows - 1 :
      encoded[c][r] = frame.width

\* The workers come to an end with every frame: each waits only for a row that
\* another one has taken before.
FrameEnds == ~Idle ~> Idle

-----------------------------------------------------------------------------
(* What is said about the encoder and does not hold.                       *)

\* vp9/encoder/vp9_multi_thread.c: the number of vertical units in the given
\* tile row, by which a job gets the tile row its superblocks are in.
TileRowOfJob ==
  mode = "rows" => \A r \in 0 .. frame.sbRows - 1 :
                     r \in TileRowsOf(frame, tileRow[r])
=============================================================================
