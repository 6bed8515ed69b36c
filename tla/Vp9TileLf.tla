------------------------------ MODULE Vp9TileLf ------------------------------
(***************************************************************************)
(* Decoding the tile columns of a frame in parallel while the same workers *)
(* filter its rows (decode_tiles_mt() with lpf_mt_opt): a worker that has  *)
(* decoded its tiles takes the next superblock row to filter, waits until  *)
(* every tile has decoded that row and the one below, and filters it in    *)
(* step with the row above.  A tile that turns out to be corrupt must not  *)
(* leave anybody waiting: its worker counts the rows of all the tiles it   *)
(* will not decode.                                                        *)
(*                                                                         *)
(* A frame that is not filtered here (no lpf_mt_opt or filter level) needs *)
(* none of this and is left out.  Rows and columns are superblocks.  The   *)
(* tile buffers are dealt out to the workers in consecutive groups;        *)
(* sorting them by size permutes the columns, which nothing here tells     *)
(* apart.                                                                  *)
(***************************************************************************)
EXTENDS Integers, FiniteSets

CONSTANTS
  NumTiles,      \* 1 << cm->log2_tile_cols
  NumWorkers,    \* VPXMIN(pbi->max_threads, tile_cols)
  NumRows,       \* superblock rows
  NumCols,       \* superblock columns
  SyncRange,     \* lf_sync->sync_range
  SpuriousRecon  \* whether the wait for a decoded row may return unasked

ASSUME TileAssumption ==
  /\ NumWorkers \in Nat \ {0} /\ NumTiles \in Nat /\ NumWorkers <= NumTiles
  /\ NumRows \in Nat \ {0} /\ NumCols \in Nat \ {0} /\ SyncRange \in Nat \ {0}
  /\ SpuriousRecon \in BOOLEAN

Rows    == 0 .. NumRows - 1
Tiles   == 0 .. NumTiles - 1
Workers == 0 .. NumWorkers - 1

VARIABLES
  main,         \* main thread: "idle" or in decode_tiles_mt(), "busy"
  launched,     \* n, the workers launched for this frame
  bufStart,     \* buf_start, the first tile buffer not dealt out yet
  buf,          \* tile_data->buf_start and buf_end of every worker
  lfCorrupted,  \* lf_sync->corrupted
  tilesDone,    \* lf_sync->num_tiles_done
  lfRow,        \* cm->lf_row
  curSbCol,     \* lf_sync->cur_sb_col
  pc,           \* where each worker is
  tile,         \* n, the tile buffer a worker is at
  row, col,     \* the superblock it is at, decoding or filtering
  left,         \* num_tiles_left in set_rows_after_error(), -1 outside
  bad,          \* tile_data->xd.corrupted
  waiting,      \* workers blocked on a condition variable
  reported,     \* pbi->mb.corrupted of the last frame
  decoded,      \* history: rows of each tile decoded, up to the first corrupt one
  filtered      \* history: superblocks of each row filtered

syncVars  == <<lfCorrupted, tilesDone, lfRow, curSbCol, waiting>>
placeVars == <<tile, row, col, left>>
mainVars  == <<main, launched, bufStart, buf, reported>>
vars == <<syncVars, placeVars, mainVars, pc, bad, decoded, filtered>>

\* The main thread has come to decode_tiles_mt() for the first time, and is
\* through init_mt() and vp9_lpf_mt_init().
Init ==
  /\ main = "busy" /\ launched = 0 /\ reported = FALSE
  /\ bufStart = 0 /\ buf = [w \in Workers |-> [start |-> 0, end |-> 0]]
  /\ lfCorrupted = FALSE /\ lfRow = 0
  /\ tilesDone = [r \in Rows |-> 0] /\ curSbCol = [r \in Rows |-> -1]
  /\ pc = [w \in Workers |-> "done"] /\ waiting = {}
  /\ tile = [w \in Workers |-> 0] /\ row = [w \in Workers |-> 0]
  /\ col = [w \in Workers |-> 0] /\ left = [w \in Workers |-> -1]
  /\ bad = [w \in Workers |-> FALSE]
  /\ decoded = [t \in Tiles |-> 0] /\ filtered = [r \in Rows |-> 0]

-----------------------------------------------------------------------------
(* The main thread: decode_tiles_mt().                                     *)

\* init_mt() with vp9_lpf_mt_init(), for the next frame.
StartFrame ==
  /\ main = "idle"
  /\ main' = "busy" /\ launched' = 0 /\ bufStart' = 0
  /\ lfCorrupted' = FALSE /\ lfRow' = 0
  /\ tilesDone' = [r \in Rows |-> 0] /\ curSbCol' = [r \in Rows |-> -1]
  /\ bad' = [w \in Workers |-> FALSE]
  /\ decoded' = [t \in Tiles |-> 0] /\ filtered' = [r \in Rows |-> 0]
  /\ UNCHANGED <<buf, waiting, placeVars, pc, reported>>

\* base + (remain + n) / num_workers
Count(n) == NumTiles \div NumWorkers
              + ((NumTiles % NumWorkers) + n) \div NumWorkers

\* A worker gets the next tile buffers.  The last one runs on this thread.
LaunchWorker ==
  LET end == bufStart + Count(launched) IN
  /\ main = "busy" /\ launched < NumWorkers
  /\ launched' = launched + 1 /\ bufStart' = end
  /\ buf' = [buf EXCEPT ![launched] = [start |-> bufStart, end |-> end - 1]]
  /\ pc' = [pc EXCEPT ![launched] = "decode"]
  /\ tile' = [tile EXCEPT ![launched] = bufStart]
  /\ row' = [row EXCEPT ![launched] = 0]
  /\ left' = [left EXCEPT ![launched] = -1]
  /\ UNCHANGED <<syncVars, col, main, reported, bad, decoded, filtered>>

\* Mutant of SomeHookFailed: the result of the last sync() stands.
LastHookFailed == bad[0]

\* A hook that returned 0.
SomeHookFailed == \E w \in Workers : bad[w]

\* sync() of every worker: a hook that failed makes the frame corrupt.  The
\* variables of the hooks are gone.
EndFrame ==
  /\ main = "busy" /\ launched = NumWorkers
  /\ \A w \in Workers : pc[w] = "done"
  /\ main' = "idle"
  /\ reported' = SomeHookFailed
  /\ tile' = [w \in Workers |-> 0] /\ row' = [w \in Workers |-> 0]
  /\ col' = [w \in Workers |-> 0] /\ left' = [w \in Workers |-> -1]
  /\ UNCHANGED <<syncVars, pc, bad, launched, bufStart, buf, decoded, filtered>>

-----------------------------------------------------------------------------
(* A worker: tile_worker_hook().                                           *)

\* pthread_cond_signal() for the workers of S.
Signal(S) == IF S = {} THEN UNCHANGED waiting
             ELSE \E v \in S : waiting' = waiting \ {v}

GoTo(w, p) == pc' = [pc EXCEPT ![w] = p]

\* num_tiles_left, when n is the first tile whose rows must still be counted.
TilesLeft(w, n) == buf[w].end - n

\* After the rows of a tile: the next tile, the rest of the tiles when this one
\* was corrupt, or the filter.
EndTile(w) ==
  IF tile[w] < buf[w].end
    THEN /\ tile' = [tile EXCEPT ![w] = @ + 1]
         /\ row' = [row EXCEPT ![w] = 0]
         /\ IF bad[w]
              THEN /\ left' = [left EXCEPT ![w] = TilesLeft(w, tile[w] + 1)]
                   /\ GoTo(w, "count")
              ELSE UNCHANGED left /\ GoTo(w, "decode")
    ELSE /\ GoTo(w, IF bad[w] THEN "done" ELSE "next")
         /\ UNCHANGED <<tile, row, left>>

\* The loop of set_rows_after_error() over the tiles that are left.
NextLeft(w) ==
  /\ left' = [left EXCEPT ![w] = @ - 1]
  /\ IF left[w] > 0
       THEN row' = [row EXCEPT ![w] = 0] /\ GoTo(w, "count")
       ELSE UNCHANGED row /\ GoTo(w, "done")
  /\ UNCHANGED tile

\* The row after this one, decoded or only counted.
NextRow(w) ==
  IF row[w] + 1 < NumRows
    THEN /\ row' = [row EXCEPT ![w] = @ + 1]
         /\ GoTo(w, IF left[w] >= 0 THEN "count" ELSE "decode")
         /\ UNCHANGED <<tile, left>>
    ELSE IF left[w] >= 0 THEN NextLeft(w) ELSE EndTile(w)

\* A row of a tile is decoded, or the bool decoder finds that it ran past its
\* data, which is noted and the tile decoded to the end all the same; then the
\* first half of vp9_set_row() records the corruption.
DecodeRow(w, corrupt) ==
  LET b == bad[w] \/ corrupt IN
  /\ pc[w] = "decode"
  /\ bad' = [bad EXCEPT ![w] = b]
  /\ decoded' = IF b THEN decoded ELSE [decoded EXCEPT ![tile[w]] = @ + 1]
  /\ lfCorrupted' = (lfCorrupted \/ b)
  /\ GoTo(w, "count")
  /\ UNCHANGED <<tilesDone, lfRow, curSbCol, waiting, placeVars, mainVars,
                 filtered>>

\* longjmp() out of the row, or out of setup_token_decoder() before row 0.  In
\* set_rows_after_error() the corruption need be recorded only once.
DecodeError(w) ==
  /\ pc[w] = "decode"
  /\ bad' = [bad EXCEPT ![w] = TRUE]
  /\ left' = [left EXCEPT ![w] = TilesLeft(w, tile[w])]
  /\ lfCorrupted' = TRUE
  /\ GoTo(w, "count")
  /\ UNCHANGED <<tilesDone, lfRow, curSbCol, waiting, tile, row, col, mainVars,
                 decoded, filtered>>

\* Mutant of NeededRow: the row below is not waited for.
NeededRowSame(r) == r

\* The row that must be decoded before row r is filtered: the next one, whose
\* intra prediction reads the unfiltered pixels of row r.
NeededRow(r) == IF r + 1 < NumRows THEN r + 1 ELSE r

ReconWaiters(r) == {v \in waiting : pc[v] = "rwait" /\ NeededRow(row[v]) = r}

\* Two rows wait for the last one.
WakeRecon(r) == IF r = NumRows - 1 THEN waiting' = waiting \ ReconWaiters(r)
                ELSE Signal(ReconWaiters(r))

\* The other half: the row is counted.
SetRowCount(w) ==
  /\ pc[w] = "count"
  /\ tilesDone' = [tilesDone EXCEPT ![row[w]] = @ + 1]
  /\ IF tilesDone[row[w]] + 1 = NumTiles THEN WakeRecon(row[w])
     ELSE UNCHANGED waiting
  /\ NextRow(w)
  /\ UNCHANGED <<lfCorrupted, lfRow, curSbCol, col, mainVars, bad, decoded,
                 filtered>>

-----------------------------------------------------------------------------
(* The filter: vp9_loopfilter_rows().                                      *)

\* get_next_row() takes a row ...
TakeRow(w) ==
  /\ pc[w] = "next"
  /\ IF lfRow < NumRows
       THEN /\ row' = [row EXCEPT ![w] = lfRow] /\ lfRow' = lfRow + 1
            /\ GoTo(w, "recon")
       ELSE UNCHANGED <<row, lfRow>> /\ GoTo(w, "done")
  /\ UNCHANGED <<lfCorrupted, tilesDone, curSbCol, waiting, tile, col, left,
                 mainVars, bad, decoded, filtered>>

\* ... and waits, once, for it to be decoded ...
ReconTest(w) ==
  /\ pc[w] = "recon"
  /\ IF tilesDone[NeededRow(row[w])] < NumTiles
       THEN waiting' = waiting \cup {w} /\ GoTo(w, "rwait")
       ELSE UNCHANGED waiting /\ GoTo(w, "check")
  /\ UNCHANGED <<lfCorrupted, tilesDone, lfRow, curSbCol, placeVars, mainVars,
                 bad, decoded, filtered>>

\* The workers waiting on cond[r].
RowWaiters(r) == {v \in waiting : pc[v] = "wait" /\ row[v] = r + 1}

\* Past every column of a row.
INT_MAX == NumCols + SyncRange

\* Mutant of GiveUpRow: the row is given up without telling the next one.
GiveUpRowSilently(r) == UNCHANGED <<curSbCol, waiting>>

\* A row that will not be filtered does not hold up the one below.
GiveUpRow(r) ==
  /\ curSbCol' = [curSbCol EXCEPT ![r] = INT_MAX]
  /\ Signal(RowWaiters(r))

\* pthread_cond_wait() has returned to w, which was waiting at p.
Woken(w, p) == pc[w] = p /\ w \notin waiting

\* ... and gives it up when some tile was corrupt.
CheckCorrupted(w) ==
  /\ pc[w] = "check" \/ Woken(w, "rwait")
  /\ IF lfCorrupted THEN GiveUpRow(row[w]) /\ GoTo(w, "done")
     ELSE UNCHANGED <<curSbCol, waiting>> /\ GoTo(w, "read")
  /\ col' = [col EXCEPT ![w] = 0]
  /\ UNCHANGED <<lfCorrupted, tilesDone, lfRow, tile, row, left, mainVars, bad,
                 decoded, filtered>>

\* sync_read: while (c > cur_sb_col[r - 1] - nsync) wait
AboveDone(r, c) == c <= curSbCol[r - 1] - SyncRange

SyncRead(w) ==
  /\ pc[w] = "read" \/ Woken(w, "wait")
  /\ IF row[w] = 0 \/ col[w] % SyncRange # 0 \/ AboveDone(row[w], col[w])
       THEN UNCHANGED waiting /\ GoTo(w, "filter")
       ELSE waiting' = waiting \cup {w} /\ GoTo(w, "wait")
  /\ UNCHANGED <<lfCorrupted, tilesDone, lfRow, curSbCol, placeVars, mainVars,
                 bad, decoded, filtered>>

\* A superblock is filtered; sync_write, and the next column or row.
FilterSb(w) ==
  LET r == row[w]
      c == col[w]
      last == c = NumCols - 1
  IN
  /\ pc[w] = "filter"
  /\ filtered' = [filtered EXCEPT ![r] = @ + 1]
  /\ IF last \/ c % SyncRange = 0
       THEN /\ curSbCol' = [curSbCol EXCEPT ![r] =
                              IF last THEN NumCols + SyncRange ELSE c]
            /\ Signal(RowWaiters(r))
       ELSE UNCHANGED <<curSbCol, waiting>>
  /\ col' = [col EXCEPT ![w] = IF last THEN 0 ELSE c + 1]
  /\ GoTo(w, IF last THEN "next" ELSE "read")
  /\ UNCHANGED <<lfCorrupted, tilesDone, lfRow, tile, row, left, mainVars, bad,
                 decoded>>

\* pthread_cond_wait() returns without a signal.
SpuriousWakeup(w) ==
  /\ w \in waiting /\ (pc[w] = "wait" \/ SpuriousRecon)
  /\ waiting' = waiting \ {w}
  /\ UNCHANGED <<lfCorrupted, tilesDone, lfRow, curSbCol, placeVars, mainVars,
                 pc, bad, decoded, filtered>>

-----------------------------------------------------------------------------
Decode(w) == (\E c \in BOOLEAN : DecodeRow(w, c)) \/ DecodeError(w)

WorkerStep(w) ==
  \/ Decode(w) \/ SetRowCount(w)
  \/ TakeRow(w) \/ ReconTest(w) \/ CheckCorrupted(w)
  \/ SyncRead(w) \/ FilterSb(w)

Next == \/ StartFrame \/ LaunchWorker \/ EndFrame
        \/ \E w \in Workers : WorkerStep(w) \/ SpuriousWakeup(w)

\* The threads that were launched are scheduled; nothing obliges the
\* application to hand over another frame.
Fairness == /\ WF_vars(LaunchWorker) /\ WF_vars(EndFrame)
            /\ \A w \in Workers : WF_vars(WorkerStep(w))

Spec == Init /\ [][Next]_vars /\ Fairness

-----------------------------------------------------------------------------
(* Properties.                                                             *)

\* A superblock is filtered only when every tile has decoded its row and the row
\* below without an error: the filter would destroy pixels that intra prediction
\* still needs, or run on the modes of a corrupt tile.
FilterAfterDecode ==
  \A w \in Workers : pc[w] = "filter" =>
    \A t \in Tiles : decoded[t] >= row[w] + 2 \/ decoded[t] = NumRows

\* A frame that decode_tiles_mt() does not report as corrupt is decoded, and
\* filtered exactly once, everywhere.
CleanIsComplete ==
  main = "idle" /\ ~reported =>
    /\ \A t \in Tiles : decoded[t] = NumRows
    /\ \A r \in Rows : filtered[r] = NumCols

\* Every frame comes to an end: no worker waits for a row that a corrupt tile
\* will never decode, or for one that is given up.
FrameEnds == main = "busy" ~> main = "idle"
-----------------------------------------------------------------------------
(* What the properties rest on.                                            *)

Decoding(w)  == pc[w] \in {"decode", "count"}
Filtering(w) == pc[w] \in {"read", "wait", "filter"}
InHand(w)    == pc[w] \in {"recon", "rwait", "check"} \/ Filtering(w)

MainType ==
  /\ main \in {"idle", "busy"} /\ launched \in 0 .. NumWorkers
  /\ bufStart \in Nat /\ buf \in [Workers -> [start : Nat, end : Int]]

SyncType ==
  /\ lfRow \in 0 .. NumRows
  /\ tilesDone \in [Rows -> Nat] /\ curSbCol \in [Rows -> Int]
  /\ waiting \in SUBSET Workers

Labels == {"decode", "count", "next", "recon", "rwait", "check", "read",
           "wait", "filter", "done"}

PlaceType ==
  /\ pc \in [Workers -> Labels]
  /\ tile \in [Workers -> Nat] /\ left \in [Workers -> Int]
  /\ row \in [Workers -> Rows] /\ col \in [Workers -> 0 .. NumCols - 1]

HistoryType ==
  decoded \in [Tiles -> 0 .. NumRows] /\ filtered \in [Rows -> 0 .. NumCols]

FlagType ==
  /\ reported \in BOOLEAN /\ lfCorrupted \in BOOLEAN
  /\ bad \in [Workers -> BOOLEAN]

TypeOK == MainType /\ SyncType /\ PlaceType /\ HistoryType /\ FlagType

\* The tile buffers dealt out to the first n workers: the last ones get one more.
Dealt(n) ==
  LET even == NumWorkers - (NumTiles % NumWorkers)
  IN  n * (NumTiles \div NumWorkers) + (IF n > even THEN n - even ELSE 0)

Launched == 0 .. launched - 1
Own(w)   == buf[w].start .. buf[w].end

\* The tile buffers are dealt out to the workers that were launched, each to one.
TilesDealt ==
  /\ bufStart = Dealt(launched)
  /\ \A w \in Launched : buf[w].start <= buf[w].end /\ buf[w].end < bufStart
  /\ \A v, w \in Launched : v < w => buf[v].end < buf[w].start
  /\ \A t \in 0 .. bufStart - 1 : \E w \in Launched : t \in Own(w)

\* No tile is touched before it is dealt out.
Untouched == \A t \in Tiles : t >= bufStart => decoded[t] = 0

\* The tile whose rows w decodes or counts.
At(w) == IF left[w] >= 0 THEN buf[w].end - left[w] ELSE tile[w]

\* Where a worker can be, and what it has seen of errors.
Place(w) ==
  /\ w \notin Launched => pc[w] = "done" /\ ~bad[w]
  /\ Decoding(w) => At(w) \in Own(w)
  /\ pc[w] = "decode" => left[w] = -1
  /\ left[w] >= -1 /\ (left[w] >= 0 => bad[w])
  /\ pc[w] = "next" \/ InHand(w) => ~bad[w]
  /\ bad[w] => lfCorrupted
  /\ w \in waiting => pc[w] \in {"rwait", "wait"}

\* A worker that met no error has decoded its tiles up to where it is.
OwnDecoded(w) ==
  ~bad[w] => \A t \in Own(w) :
    decoded[t] = IF ~Decoding(w) \/ t < tile[w] THEN NumRows
                 ELSE IF t > tile[w] THEN 0
                 ELSE IF pc[w] = "count" THEN row[w] + 1 ELSE row[w]

\* w has not counted row r of its tile t yet.
Owes(w, t, r) == Decoding(w) /\ (t > At(w) \/ (t = At(w) /\ r >= row[w]))

\* The tiles whose row r was counted, decoded or not.
Counted(r) == {t \in Tiles : \E w \in Launched : t \in Own(w) /\ ~Owes(w, t, r)}

\* w need not wait any more for the rows it filters.
Cleared(w) ==
  /\ pc[w] = "check" \/ Woken(w, "rwait") =>
       SpuriousRecon \/ tilesDone[NeededRow(row[w])] = NumTiles
  /\ Filtering(w) =>
       \/ SpuriousRecon
       \/ \A t \in Tiles : decoded[t] >= row[w] + 2 \/ decoded[t] = NumRows

\* The rows below lfRow are each filtered, in one worker's hands or given up.
RowState(r) ==
  IF r >= lfRow THEN filtered[r] = 0
  ELSE lfCorrupted \/ filtered[r] = NumCols \/ \E w \in Workers : InHand(w) /\ row[w] = r

OwnRow(w) ==
  /\ InHand(w) =>
       /\ row[w] < lfRow
       /\ filtered[row[w]] = IF Filtering(w) THEN col[w] ELSE 0
       /\ \A v \in Workers : InHand(v) /\ row[v] = row[w] => v = w
  /\ w \in Launched /\ pc[w] = "done" => lfRow = NumRows \/ lfCorrupted

\* Between two frames.
Between ==
  main = "idle" =>
    /\ launched = NumWorkers /\ reported = SomeHookFailed
    /\ \A w \in Workers : pc[w] = "done" /\ left[w] = -1

IndInv ==
  /\ TypeOK /\ TilesDealt /\ Untouched /\ Between
  /\ lfCorrupted => SomeHookFailed
  /\ \A w \in Workers : Place(w) /\ Cleared(w) /\ OwnRow(w)
  /\ \A w \in Launched : OwnDecoded(w)
  /\ \A r \in Rows : RowState(r) /\ tilesDone[r] = Cardinality(Counted(r))
=============================================================================
