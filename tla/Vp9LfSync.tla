------------------------------ MODULE Vp9LfSync ------------------------------
(***************************************************************************)
(* The row-parallel loop filter of vp9/common/vp9_thread_common.c:         *)
(* loop_filter_rows_mt() deals the superblock rows out to the workers in   *)
(* turn, and a worker may filter superblock (r, c) only when the one above *)
(* and to the right of it, (r-1, c+1), is filtered.  sync_read() waits for *)
(* that on the counter cur_sb_col[r-1], but only at every sync_range-th    *)
(* column; sync_write() publishes the counter, also only there.            *)
(*                                                                         *)
(* Frame after frame goes through the same VP9LfSync.  Its arrays and      *)
(* sync_range are set up again only when the number of rows changes or     *)
(* more workers are needed, so a frame may run with the sync_range of      *)
(* another width.                                                          *)
(***************************************************************************)
EXTENDS Integers, FiniteSets

CONSTANTS
  Frames,      \* frame sizes: [rows, cols in superblocks, range for the width]
  MaxRows,     \* bound: the largest frame height in superblock rows
  MaxWorkers   \* bound: the number of tile workers there are

ASSUME FrameAssumption ==
  /\ MaxRows \in Nat \ {0} /\ MaxWorkers \in Nat \ {0}
  /\ Frames \subseteq [rows : 1 .. MaxRows, cols : Nat \ {0},
                       range : Nat \ {0}]

Rows    == 0 .. MaxRows - 1
Workers == 0 .. MaxWorkers - 1

VARIABLES
  frame,       \* the frame being filtered, or the last one
  main,        \* main thread: "idle" or in loop_filter_rows_mt, "busy"
  syncRange,   \* lf_sync->sync_range, 0 before the first allocation
  syncRows,    \* lf_sync->rows
  numWorkers,  \* lf_sync->num_workers, the allocated lfdata
  numActive,   \* lf_sync->num_active_workers
  curSbCol,    \* lf_sync->cur_sb_col
  launched,    \* workers launched for this frame
  pc,          \* where each worker is
  row, col,    \* the superblock each worker is at
  waiting,     \* workers blocked in sync_read() on cond[row - 1]
  filtered     \* history: superblocks of each row filtered in this frame

vars == <<frame, main, syncRange, syncRows, numWorkers, numActive, curSbCol,
          launched, pc, row, col, waiting, filtered>>

frameVars == <<frame, syncRange, syncRows, numWorkers, numActive>>

Init ==
  /\ frame \in Frames
  /\ main = "idle"
  /\ syncRange = 0 /\ syncRows = 0 /\ numWorkers = 0 /\ numActive = 0
  /\ curSbCol = [r \in Rows |-> -1]
  /\ launched = 0
  /\ pc = [w \in Workers |-> "done"]
  /\ row = [w \in Workers |-> 0] /\ col = [w \in Workers |-> 0]
  /\ waiting = {}
  /\ filtered = [r \in Rows |-> frame.cols]

-----------------------------------------------------------------------------
(* The main thread: loop_filter_rows_mt().                                 *)

\* lf_sync must be allocated again for n workers and frame f.
MustRealloc(f, n) == syncRange = 0 \/ f.rows # syncRows \/ n > numWorkers

\* num_workers is at most the number of superblock rows (and of tile columns).
StartFrame(f, n) ==
  /\ main = "idle"
  /\ n <= f.rows
  /\ frame' = f /\ main' = "busy"
  /\ IF MustRealloc(f, n)
       THEN syncRange' = f.range /\ syncRows' = f.rows /\ numWorkers' = n
       ELSE UNCHANGED <<syncRange, syncRows, numWorkers>>
  /\ numActive' = n
  /\ curSbCol' = [r \in Rows |-> -1]
  /\ filtered' = [r \in Rows |-> 0]
  /\ launched' = 0
  /\ UNCHANGED <<pc, row, col, waiting>>

\* lf_data->start = start + i * MI_BLOCK_SIZE
FirstRow(i) == i

\* Set up and start worker number `launched'; the last one runs on the calling
\* thread.
LaunchWorker ==
  /\ main = "busy" /\ launched < numActive
  /\ pc' = [pc EXCEPT ![launched] = "read"]
  /\ row' = [row EXCEPT ![launched] = FirstRow(launched)]
  /\ col' = [col EXCEPT ![launched] = 0]
  /\ launched' = launched + 1
  /\ UNCHANGED <<main, curSbCol, waiting, filtered, frameVars>>

\* winterface->sync() for every worker.
EndFrame ==
  /\ main = "busy" /\ launched = numActive
  /\ \A w \in Workers : pc[w] = "done"
  /\ main' = "idle"
  /\ UNCHANGED <<curSbCol, launched, pc, row, col, waiting, filtered,
                 frameVars>>

-----------------------------------------------------------------------------
(* A worker: thread_loop_filter_rows().                                    *)

\* Mutant of AboveDone: an off-by-one in the comparison.
AboveDoneTooEarly(r, c) == c <= curSbCol[r - 1] - syncRange + 1

\* sync_read: while (c > cur_sb_col[r - 1] - nsync) wait
AboveDone(r, c) == c <= curSbCol[r - 1] - syncRange

SyncRead(w) ==
  /\ pc[w] = "read"
  /\ IF row[w] = 0 \/ col[w] % syncRange # 0 \/ AboveDone(row[w], col[w])
       THEN pc' = [pc EXCEPT ![w] = "filter"] /\ UNCHANGED waiting
       ELSE pc' = [pc EXCEPT ![w] = "wait"] /\ waiting' = waiting \cup {w}
  /\ UNCHANGED <<main, curSbCol, launched, row, col, filtered, frameVars>>

\* pthread_cond_wait returns and the condition is tested again.
Wake(w) ==
  /\ pc[w] = "wait" /\ w \notin waiting
  /\ pc' = [pc EXCEPT ![w] = "read"]
  /\ UNCHANGED <<main, curSbCol, launched, row, col, waiting, filtered,
                 frameVars>>

SpuriousWakeup(w) ==
  /\ w \in waiting
  /\ waiting' = waiting \ {w}
  /\ UNCHANGED <<main, curSbCol, launched, pc, row, col, filtered, frameVars>>

FilterSb(w) ==
  /\ pc[w] = "filter"
  /\ filtered' = [filtered EXCEPT ![row[w]] = @ + 1]
  /\ pc' = [pc EXCEPT ![w] = "write"]
  /\ UNCHANGED <<main, curSbCol, launched, row, col, waiting, frameVars>>

\* The workers waiting on cond[r].
WaitersOn(r) == {v \in waiting : row[v] = r + 1}

\* Mutant of Published: the end of a row is published like any other column.
PublishedNoEnd(c) == c

\* cur: past the end of the row, every column of the next row may go on.
Published(c) == IF c < frame.cols - 1 THEN c ELSE frame.cols + syncRange

\* Mutant of NextRow: the stride is the number of allocated workers.
NextRowAllocated(r) == r + numWorkers

\* mi_row += num_active_workers * MI_BLOCK_SIZE
NextRow(r) == r + numActive

\* mi_row < stop
InFrame(r) == r < frame.rows

\* sync_write, and the advance of the two loops over rows and columns.
SyncWrite(w) ==
  LET r == row[w]
      c == col[w]
  IN
  /\ pc[w] = "write"
  /\ IF c = frame.cols - 1 \/ c % syncRange = 0
       THEN /\ curSbCol' = [curSbCol EXCEPT ![r] = Published(c)]
            /\ IF WaitersOn(r) = {} THEN UNCHANGED waiting
               ELSE \E v \in WaitersOn(r) : waiting' = waiting \ {v}
       ELSE UNCHANGED <<curSbCol, waiting>>
  /\ IF c < frame.cols - 1
       THEN /\ col' = [col EXCEPT ![w] = c + 1]
            /\ pc' = [pc EXCEPT ![w] = "read"]
            /\ UNCHANGED row
       ELSE IF InFrame(NextRow(r))
       THEN /\ row' = [row EXCEPT ![w] = NextRow(r)]
            /\ col' = [col EXCEPT ![w] = 0]
            /\ pc' = [pc EXCEPT ![w] = "read"]
       ELSE /\ pc' = [pc EXCEPT ![w] = "done"]
            /\ UNCHANGED <<row, col>>
  /\ UNCHANGED <<main, launched, filtered, frameVars>>

-----------------------------------------------------------------------------
WorkerStep(w) == SyncRead(w) \/ Wake(w) \/ FilterSb(w) \/ SyncWrite(w)

Next == \/ \E f \in Frames, n \in 1 .. MaxWorkers : StartFrame(f, n)
        \/ LaunchWorker \/ EndFrame
        \/ \E w \in Workers : WorkerStep(w) \/ SpuriousWakeup(w)

\* The threads that were launched are scheduled; nothing obliges the
\* application to hand over another frame.
Fairness == /\ WF_vars(LaunchWorker) /\ WF_vars(EndFrame)
            /\ \A w \in Workers : WF_vars(WorkerStep(w))

Spec == Init /\ [][Next]_vars /\ Fairness

-----------------------------------------------------------------------------
(* Properties.                                                             *)

\* The type invariant: no worker's row is ever beyond the allocated cur_sb_col
\* and mutex arrays.
TypeOK ==
  /\ frame \in Frames
  /\ main \in {"idle", "busy"}
  /\ syncRange \in Nat /\ syncRows \in Nat
  /\ numWorkers \in Nat /\ numActive \in 0 .. MaxWorkers
  /\ curSbCol \in [Rows -> Int]
  /\ launched \in 0 .. MaxWorkers
  /\ pc \in [Workers -> {"read", "wait", "filter", "write", "done"}]
  /\ row \in [Workers -> Rows] /\ col \in [Workers -> Nat]
  /\ waiting \subseteq Workers
  /\ filtered \in [Rows -> Nat]

\* At least n superblocks of row r are filtered, or all of it.
FilteredUpTo(r, n) == filtered[r] >= n \/ filtered[r] = frame.cols

\* When superblock (r, c) is being filtered, the row above is filtered up to
\* and including column c + 1, whose left edge reaches into the pixels above
\* (r, c): what the row synchronisation is for, also when sync_range was
\* chosen for a frame of another width.
AboveRightFiltered ==
  \A w \in Workers :
    pc[w] = "filter" /\ row[w] > 0
      => FilteredUpTo(row[w] - 1, col[w] + 2)

\* Nothing is filtered that the counter of its row already announces, or twice:
\* a published counter is never ahead of the filter.
PublishedIsFiltered ==
  main = "busy" => \A r \in Rows : r < frame.rows =>
    /\ curSbCol[r] < frame.cols => curSbCol[r] < filtered[r]
    /\ curSbCol[r] >= frame.cols => filtered[r] = frame.cols

\* When loop_filter_rows_mt() returns, every superblock of every row has been
\* filtered exactly once, whatever the number of workers.
WholeFrameFiltered ==
  main = "idle" => \A r \in Rows : r < frame.rows => filtered[r] = frame.cols

\* At most one worker waits on the condition variable of a row, so that the
\* signal in sync_write() cannot be consumed by another one.
OneWaiterPerRow ==
  \A r \in Rows : Cardinality(WaitersOn(r)) <= 1

\* Why the above hold.  The rows of a frame are dealt out by their number modulo
\* the number of active workers, ...
Owner(r) == r % numActive

Assignment ==
  /\ main = "busy" => /\ numActive \in 1 .. frame.rows /\ syncRange > 0
                     /\ launched <= numActive
  /\ main = "idle" => \A w \in Workers : pc[w] = "done"
  /\ \A w \in Workers : pc[w] # "done" =>
       /\ w < launched
       /\ row[w] < frame.rows /\ col[w] < frame.cols
       /\ Owner(row[w]) = w
  /\ \A w \in waiting : pc[w] = "wait"

\* ... the owner w of row r has filtered it if it is past it or done, and has
\* not touched it if it has yet to come there, ...
RowProgress(r, w) ==
  /\ w >= launched => filtered[r] = 0
  /\ w < launched /\ pc[w] = "done" => filtered[r] = frame.cols
  /\ w < launched /\ pc[w] # "done" /\ r > row[w] => filtered[r] = 0
  /\ w < launched /\ pc[w] # "done" /\ r < row[w] => filtered[r] = frame.cols

\* ... a worker has filtered its current row up to its column, ...
Progress ==
  /\ \A w \in Workers : pc[w] # "done" =>
       filtered[row[w]] = IF pc[w] = "write" THEN col[w] + 1 ELSE col[w]
  /\ main = "busy" =>
       \A r \in Rows : r < frame.rows => RowProgress(r, Owner(r))

\* ... and past a synchronisation point the row above stays sync_range columns
\* ahead of that point until the next one.
StayBehind ==
  \A w \in Workers :
    /\ row[w] > 0
    /\ pc[w] \in {"filter", "write"} \/ (pc[w] \in {"read", "wait"}
                                        /\ col[w] % syncRange # 0)
    => FilteredUpTo(row[w] - 1, col[w] - (col[w] % syncRange) + syncRange + 1)

\* The inductive invariant.
IndInv == /\ TypeOK /\ Assignment /\ Progress /\ PublishedIsFiltered
          /\ StayBehind /\ WholeFrameFiltered

\* Every frame is filtered to the end: no cycle of rows waiting for each other
\* and no lost wakeup at the columns where nothing is signalled.
FrameEnds == main = "busy" ~> main = "idle"
=============================================================================
