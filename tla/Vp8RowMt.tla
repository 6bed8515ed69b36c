------------------------------ MODULE Vp8RowMt ------------------------------
(***************************************************************************)
(* Multithreaded decoding of a VP8 frame: vp8/decoder/threading.c and the  *)
(* part of vp8/decoder/decodeframe.c that calls it.  The rows of a frame   *)
(* are dealt out to the calling thread (0) and the decoding threads        *)
(* (1 .. decoding_thread_count); a row follows the one above it at a       *)
(* distance published in mt_current_mb_col.  Threads start on a semaphore  *)
(* each and end on a common one.  A thread that meets a corrupt reference  *)
(* or missing data gives up its rows and jumps out.                        *)
(***************************************************************************)
EXTENDS Integers, FiniteSets

CONSTANTS Frames,      \* shapes: [rows, cols, nsync, parts]
          MaxThreads   \* decoding threads wanted

ASSUME ShapeAssumption ==
  /\ MaxThreads \in Nat \ {0}
  /\ \A f \in Frames : /\ f.rows \in Nat \ {0} /\ f.cols \in Nat \ {0}
                       /\ f.nsync \in {1, 2, 4, 8, 16, 32}
                       /\ f.parts \in {1, 2, 4, 8}

Threads == 0 .. MaxThreads
Workers == 1 .. MaxThreads
Rows    == UNION {0 .. f.rows - 1 : f \in Frames}

VARIABLES
  mt,         \* b_multithreaded_rd
  allocated,  \* allocated_decoding_thread_count
  count,      \* decoding_thread_count
  startSem,   \* h_event_start_decoding
  endSem,     \* h_event_end_decoding
  pc,
  row, col,   \* mb_row and mb_col of every thread, 0 when it has none
  frame,      \* shape of the current frame
  key,        \* it is a key frame
  mbCol,      \* mt_current_mb_col
  corrupted,  \* mbd.corrupted of every thread
  keyDone,    \* decoded_key_frame
  refBad,     \* some reference frame is marked as corrupted
  result,     \* of the last frame: "clean", "corrupt", "error", or "resync"
              \* when only a key frame is decoded next
  turn,       \* next thread to be started or joined, posts waited for
  decoded,    \* history: macroblocks decoded of every row
  missing     \* history: data was missing in some macroblock of the frame

shape == <<frame, key, keyDone, refBad>>
sems == <<startSem, endSem>>
history == <<decoded, missing>>
vars == <<mt, allocated, count, sems, pc, row, col, shape, mbCol, corrupted,
          result, turn, history>>

Smallest(S) == CHOOSE x \in S : \A y \in S : x <= y

Init ==
  /\ mt = FALSE /\ allocated = 0 /\ count = 0
  /\ startSem = [t \in Workers |-> 0] /\ endSem = 0
  /\ pc = [t \in Threads |-> IF t = 0 THEN "restart" ELSE "none"]
  /\ row = [t \in Threads |-> 0] /\ col = [t \in Threads |-> 0]
  /\ frame \in Frames /\ key = TRUE
  /\ mbCol = [r \in Rows |-> 0]
  /\ corrupted = [t \in Threads |-> FALSE]
  /\ keyDone = FALSE /\ refBad = FALSE /\ result = "resync" /\ turn = 0
  /\ decoded = [r \in Rows |-> 0] /\ missing = FALSE

Goto(t, l) == pc' = [pc EXCEPT ![t] = l]

-----------------------------------------------------------------------------
(* Creating and removing the threads.                                      *)

\* vp8_decoder_create_threads: n of the threads can be created.  With less than
\* all of them the call fails, and removes those that were.
CreateThreads(n) ==
  /\ pc[0] = "restart"
  /\ mt' = TRUE /\ allocated' = n /\ count' = MaxThreads
  /\ startSem' = [t \in Workers |-> 0] /\ endSem' = 0
  /\ corrupted' = [t \in Threads |-> IF t = 0 THEN corrupted[0] ELSE FALSE]
  /\ pc' = [t \in Threads |-> IF t = 0
                                THEN IF n = MaxThreads THEN "between"
                                     ELSE "remove"
                                ELSE IF t <= n THEN "top" ELSE "none"]
  /\ turn' = 1
  /\ UNCHANGED <<row, col, shape, mbCol, result, history>>

\* vp8_destroy: a decoder that is created later starts from the beginning.
Destroy ==
  /\ pc[0] = "between"
  /\ Goto(0, "remove") /\ turn' = 1
  /\ result' = "resync" /\ keyDone' = FALSE /\ refBad' = FALSE
  /\ UNCHANGED <<mt, allocated, count, sems, row, col, frame, key, mbCol,
                 corrupted, history>>

\* vp8_decoder_remove_threads: the flag, then for each thread ...
Remove ==
  /\ pc[0] = "remove"
  /\ mt' = FALSE
  /\ IF turn <= allocated
       THEN /\ startSem' = [startSem EXCEPT ![turn] = @ + 1]
            /\ Goto(0, "join")
       ELSE Goto(0, "restart") /\ UNCHANGED startSem
  /\ UNCHANGED <<allocated, count, endSem, row, col, shape, mbCol, corrupted,
                 result, turn, history>>

\* ... pthread_join.
Join ==
  /\ pc[0] = "join" /\ pc[turn] = "exited"
  /\ pc' = [pc EXCEPT ![0] = "remove", ![turn] = "none"]
  /\ turn' = turn + 1
  /\ UNCHANGED <<mt, allocated, count, sems, row, col, shape, mbCol, corrupted,
                 result, history>>

-----------------------------------------------------------------------------
(* A frame, on the calling thread.                                         *)

\* The clamp in setup_token_decoder().
Clamped(f) == Smallest({count, f.parts - 1, f.rows - 1})

\* Mutant of ResetColumns: the counters of the last frame are kept.
ResetColumnsNever(f) == mbCol

\* setup_decoding_thread_data: mt_current_mb_col is reset.
ResetColumns(f) == [r \in Rows |-> IF r < f.rows THEN -1 ELSE mbCol[r]]

\* An inter frame has the size of the last key frame, which there has to be one
\* of since the resolution was cleared.
Decodable(f, k) ==
  k \/ /\ result # "resync"
       /\ [f EXCEPT !.parts = 0] = [frame EXCEPT !.parts = 0]

\* vp8_decode_frame with several partitions: the rows go to several threads.
\* xd->corrupted, which is the flag of the calling thread only, is reset; it is
\* set again when the first partition ends in the header (lost).
StartFrame(f, k, lost) ==
  /\ pc[0] = "between" /\ f.parts > 1
  /\ Decodable(f, k)
  /\ frame' = f /\ key' = k
  /\ count' = Clamped(f)
  /\ corrupted' = [corrupted EXCEPT ![0] = lost]
  /\ mbCol' = ResetColumns(f)
  /\ decoded' = [r \in Rows |-> 0] /\ missing' = lost
  /\ turn' = 1 /\ Goto(0, "start")
  /\ UNCHANGED <<mt, allocated, sems, row, col, keyDone, refBad, result>>

\* The end of vp8_decode_frame(): the frame is marked as corrupted or not.  The
\* first frame has to be a complete key frame, or the last frame is marked.
\* After a clean inter frame some other reference may still be marked.
Collect(bad, k) ==
  IF ~keyDone /\ (bad \/ ~k)
    THEN result' = "error" /\ refBad' = TRUE /\ UNCHANGED keyDone
    ELSE /\ result' = IF bad THEN "corrupt" ELSE "clean"
         /\ keyDone' = TRUE
         /\ refBad' \in IF bad THEN {TRUE} ELSE IF k THEN {FALSE}
                        ELSE {FALSE, refBad}

\* With one partition decode_mb_rows() decodes the frame on this thread: with
\* data missing (lost), and using a marked reference (use).
SerialFrame(f, k, lost, use) ==
  /\ pc[0] = "between" /\ f.parts = 1
  /\ Decodable(f, k)
  /\ use => ~k /\ refBad
  /\ frame' = f /\ key' = k
  /\ count' = Clamped(f)
  /\ corrupted' = [corrupted EXCEPT ![0] = lost \/ use]
  /\ decoded' = [r \in Rows |-> IF r < f.rows THEN f.cols ELSE 0]
  /\ missing' = lost
  /\ Collect(lost \/ use, k)
  /\ UNCHANGED <<mt, allocated, sems, pc, row, col, mbCol, turn>>

\* vp8mt_decode_mb_rows: h_event_start_decoding of every thread; then the rows
\* of thread 0.
PostStart ==
  /\ pc[0] = "start"
  /\ IF turn <= count
       THEN /\ startSem' = [startSem EXCEPT ![turn] = @ + 1]
            /\ turn' = turn + 1
            /\ UNCHANGED <<pc, row, col>>
       ELSE /\ Goto(0, "publish")
            /\ row' = [row EXCEPT ![0] = 0] /\ col' = [col EXCEPT ![0] = 0]
            /\ UNCHANGED <<startSem, turn>>
  /\ UNCHANGED <<mt, allocated, count, endSem, shape, mbCol, corrupted, result,
                 history>>

-----------------------------------------------------------------------------
(* mt_decode_mb_rows, on every thread.                                     *)

\* ((mb_col - 1) % nsync) == 0, where the remainder of -1 is -1 but for nsync 1
PublishesBefore(c) ==
  IF c = 0 THEN frame.nsync = 1 ELSE (c - 1) % frame.nsync = 0

\* The column to the left of the one that is begun is done.
Publish(t) ==
  /\ pc[t] = "publish"
  /\ mbCol' = IF PublishesBefore(col[t])
                THEN [mbCol EXCEPT ![row[t]] = col[t] - 1] ELSE mbCol
  /\ Goto(t, "wait")
  /\ UNCHANGED <<mt, allocated, count, sems, row, col, shape, corrupted, result,
                 turn, history>>

\* vp8_atomic_spin_wait: while (mb_col > *last_row_current_mb_col - nsync)
MayGoOn(r, c) == c <= mbCol[r - 1] - frame.nsync

\* The wait for the row above, and the test for corruption; the macroblock may
\* use a reference that is marked (use).
Wait(t, use) ==
  /\ pc[t] = "wait"
  /\ row[t] > 0 /\ col[t] % frame.nsync = 0 => MayGoOn(row[t], col[t])
  /\ use => ~key /\ refBad
  /\ corrupted' = [corrupted EXCEPT ![t] = @ \/ use]
  /\ Goto(t, IF corrupted'[t] THEN "release" ELSE "mb")
  /\ UNCHANGED <<mt, allocated, count, sems, row, col, shape, mbCol, result,
                 turn, history>>

\* mt_decode_macroblock and the loop filter; the partition may end here (lost).
DecodeMb(t, lost) ==
  /\ pc[t] = "mb"
  /\ decoded' = [decoded EXCEPT ![row[t]] = @ + 1]
  /\ corrupted' = [corrupted EXCEPT ![t] = @ \/ lost]
  /\ missing' = (missing \/ lost)
  /\ col' = [col EXCEPT ![t] = @ + 1]
  /\ Goto(t, IF col[t] + 1 < frame.cols THEN "publish" ELSE "end")
  /\ UNCHANGED <<mt, allocated, count, sems, row, shape, mbCol, result, turn>>

NextRow(t) == row[t] + count + 1

\* The end of a row is published; the next one, or h_event_end_decoding.
RowEnd(t) ==
  /\ pc[t] = "end"
  /\ mbCol' = [mbCol EXCEPT ![row[t]] = frame.cols + frame.nsync]
  /\ IF NextRow(t) < frame.rows
       THEN /\ row' = [row EXCEPT ![t] = NextRow(t)]
            /\ col' = [col EXCEPT ![t] = 0]
            /\ Goto(t, "publish")
       ELSE /\ Goto(t, "post")
            /\ row' = [row EXCEPT ![t] = 0] /\ col' = [col EXCEPT ![t] = 0]
  /\ UNCHANGED <<mt, allocated, count, sems, shape, corrupted, result, turn,
                 history>>

\* Mutant of Releases: only the row in hand is given up.
ReleasesOne(t) == FALSE

\* More rows to be released.
Releases(t) == NextRow(t) < frame.rows

\* A corrupt macroblock: all rows of this thread are published as done, one
\* after the other; then the longjmp.  A worker's handler posts the end, the
\* calling thread's does not and waits for the workers only.
Release(t) ==
  /\ pc[t] = "release"
  /\ mbCol' = [mbCol EXCEPT ![row[t]] = frame.cols + frame.nsync]
  /\ IF Releases(t)
       THEN row' = [row EXCEPT ![t] = NextRow(t)] /\ UNCHANGED <<pc, turn>>
       ELSE /\ row' = [row EXCEPT ![t] = 0]
            /\ IF t = 0 THEN Goto(0, "drain") /\ turn' = 1
                        ELSE Goto(t, "post") /\ UNCHANGED turn
  /\ col' = [col EXCEPT ![t] = 0]
  /\ UNCHANGED <<mt, allocated, count, sems, shape, corrupted, result,
                 history>>

\* for (i = 0; i < decoding_thread_count + 1; ++i)
FirstWait == 0

\* vp8_sem_post(&pbi->h_event_end_decoding)
PostEnd(t) ==
  /\ pc[t] = "post"
  /\ endSem' = endSem + 1
  /\ IF t = 0 THEN Goto(0, "finish") /\ turn' = FirstWait
              ELSE Goto(t, "top") /\ UNCHANGED turn
  /\ UNCHANGED <<mt, allocated, count, startSem, row, col, shape, mbCol,
                 corrupted, result, history>>

-----------------------------------------------------------------------------
(* The calling thread waits for the others.                                *)

\* Mutant of CorruptTokens: the flags of the threads are not collected.
CorruptTokensDropped == FALSE

\* The flags of the threads that took part, without the calling one.
CorruptTokens == \E t \in 1 .. count : corrupted[t]

\* All threads post, this one too.
Finish ==
  /\ pc[0] = "finish"
  /\ IF turn <= count
       THEN /\ endSem > 0 /\ endSem' = endSem - 1 /\ turn' = turn + 1
            /\ UNCHANGED <<pc, result, keyDone, refBad>>
       ELSE /\ Goto(0, "between")
            /\ Collect(CorruptTokens, key)
            /\ UNCHANGED <<endSem, turn>>
  /\ UNCHANGED <<mt, allocated, count, startSem, row, col, frame, key, mbCol,
                 corrupted, history>>

\* Mutant of Drained: an error is returned at once.
DrainedAtOnce == TRUE

Drained == turn > count

\* After an error only the others post.  The threads are removed then and
\* started again, and the last frame is marked.
Drain ==
  /\ pc[0] = "drain"
  /\ IF Drained
       THEN /\ Goto(0, "remove") /\ turn' = 1
            /\ result' = "resync" /\ refBad' = TRUE
            /\ UNCHANGED endSem
       ELSE /\ endSem > 0 /\ endSem' = endSem - 1 /\ turn' = turn + 1
            /\ UNCHANGED <<pc, result, refBad>>
  /\ UNCHANGED <<mt, allocated, count, startSem, row, col, frame, key, keyDone,
                 mbCol, corrupted, history>>

-----------------------------------------------------------------------------
(* thread_decoding_proc                                                    *)

\* b_multithreaded_rd is tested, ...
Top(t) ==
  /\ pc[t] = "top"
  /\ Goto(t, IF mt THEN "sleep" ELSE "exited")
  /\ UNCHANGED <<mt, allocated, count, sems, row, col, shape, mbCol, corrupted,
                 result, turn, history>>

\* ... h_event_start_decoding waited for, and the flag tested again.
WakeUp(t) ==
  /\ pc[t] = "sleep" /\ startSem[t] > 0
  /\ startSem' = [startSem EXCEPT ![t] = @ - 1]
  /\ row' = [row EXCEPT ![t] = t] /\ col' = [col EXCEPT ![t] = 0]
  /\ Goto(t, IF ~mt THEN "exited"
             ELSE IF t < frame.rows THEN "publish" ELSE "post")
  /\ UNCHANGED <<mt, allocated, count, endSem, shape, mbCol, corrupted, result,
                 turn, history>>

-----------------------------------------------------------------------------
RowStep(t) ==
  \/ Publish(t) \/ RowEnd(t) \/ Release(t) \/ PostEnd(t)
  \/ \E use \in BOOLEAN : Wait(t, use)
  \/ \E lost \in BOOLEAN : DecodeMb(t, lost)

MainStep == \/ RowStep(0) \/ PostStart \/ Finish \/ Drain \/ Remove \/ Join

WorkerStep(t) == RowStep(t) \/ Top(t) \/ WakeUp(t)

Next == \/ \E n \in 0 .. MaxThreads : CreateThreads(n)
        \/ \E f \in Frames, k, lost \in BOOLEAN : StartFrame(f, k, lost)
        \/ \E f \in Frames, k, lost, use \in BOOLEAN :
             SerialFrame(f, k, lost, use)
        \/ Destroy
        \/ MainStep
        \/ \E t \in Workers : WorkerStep(t)

\* Every thread runs: a spinning one sleeps for the others.
Fairness == WF_vars(MainStep) /\ \A t \in Workers : WF_vars(WorkerStep(t))

Spec == Init /\ [][Next]_vars /\ Fairness

-----------------------------------------------------------------------------
(* Properties.                                                             *)

InFrame == {"start", "publish", "wait", "mb", "end", "release",
            "post", "finish", "drain"}

\* The thread that row r belongs to has given its rows up.
GivenUp(r) == corrupted[r % (count + 1)]

\* When macroblock (r, c) is decoded and filtered, the row above is complete up
\* to column c + 1, whose filter and prediction reach into the same pixels,
\* unless its thread met an error: what the published columns are for.
AboveRightDecoded ==
  \A t \in Threads :
    pc[t] = "mb" /\ row[t] > 0 /\ ~GivenUp(row[t] - 1)
      => decoded[row[t] - 1] >= Smallest({col[t] + 2, frame.cols})

\* vp8mt_decode_mb_rows() returns, with or without an error, only when no other
\* thread is decoding this frame any more: "This prevents other threads decoding
\* the current frame while the main thread starts decoding the next frame".
OthersFinished ==
  pc[0] \notin InFrame =>
    \A t \in Workers : pc[t] \in {"none", "top", "sleep", "exited"}

\* A frame that is delivered as clean has all its macroblocks decoded, however
\* many threads it was dealt to and whatever the frames before it did.
CleanIsComplete ==
  pc[0] = "between" /\ result = "clean" =>
    \A r \in Rows : r < frame.rows => decoded[r] = frame.cols

\* Every frame ends: threads wait for rows above them and for posts, also when
\* one of them gives up in the middle, and removed threads can be joined.
FrameEnds == pc[0] \in InFrame \cup {"remove", "join"}
               ~> pc[0] \in {"between", "restart"}

-----------------------------------------------------------------------------
(* What the properties rest on.                                            *)

InRow == {"publish", "wait", "mb", "end"}

AtRest == {"none", "top", "sleep", "exited"}

TypeOK ==
  /\ mt \in BOOLEAN /\ key \in BOOLEAN /\ keyDone \in BOOLEAN
  /\ refBad \in BOOLEAN /\ missing \in BOOLEAN
  /\ allocated \in 0 .. MaxThreads /\ count \in 0 .. MaxThreads
  /\ startSem \in [Workers -> Nat] /\ endSem \in Nat /\ turn \in Nat
  /\ pc \in [Threads -> InFrame \cup AtRest
                           \cup {"restart", "between", "remove", "join"}]
  /\ pc[0] \notin AtRest
  /\ \A t \in Workers : pc[t] \in InRow \cup {"release", "post"} \cup AtRest
  /\ row \in [Threads -> Nat] /\ col \in [Threads -> Nat]
  /\ frame \in Frames
  /\ mbCol \in [Rows -> Int] /\ decoded \in [Rows -> Nat]
  /\ corrupted \in [Threads -> BOOLEAN]
  /\ result \in {"clean", "corrupt", "error", "resync"}

\* Thread t has not begun with the rows of this frame: its start is not posted,
\* or it has not noticed.
Unbegun(t) ==
  IF t = 0 THEN pc[0] = "start"
  ELSE startSem[t] = 1 \/ (pc[0] = "start" /\ turn <= t)

\* A thread that is created waits for its start with nothing left over.
Resting(t) == pc[t] \in {"top", "sleep"} /\ startSem[t] = 0

\* Between frames all threads rest, and within a frame those that have no row
\* and those that are not started.
Started ==
  /\ pc[0] \in {"restart", "join"} => ~mt
  /\ pc[0] = "remove" /\ mt => \A t \in Workers : startSem[t] = 0
  /\ pc[0] \in {"restart", "remove", "join"} =>
       result = "resync" /\ \A t \in Workers : pc[t] \in AtRest
  /\ pc[0] = "between" => mt /\ endSem = 0 /\ \A t \in Workers : Resting(t)
  /\ pc[0] \in InFrame =>
       /\ mt /\ count < frame.rows
       /\ \A t \in Workers :
            /\ startSem[t] \in {0, 1}
            /\ pc[t] \notin {"none", "exited"}
            /\ count < t => Resting(t)
            /\ pc[0] = "start" /\ turn <= t => startSem[t] = 0
            /\ Unbegun(t) => pc[t] \in {"top", "sleep"}
  /\ pc[0] = "start" => turn \in 1 .. count + 1

\* The threads that have posted the end of this frame.
Finished == {t \in 1 .. count : ~Unbegun(t) /\ pc[t] \in {"top", "sleep"}}

\* Each of them has posted once, and the calling thread too unless it failed.
Posted ==
  /\ pc[0] \in InFrame \ {"finish", "drain"} => endSem = Cardinality(Finished)
  /\ pc[0] = "finish" => /\ turn <= count + 1
                         /\ endSem + turn = Cardinality(Finished) + 1
  /\ pc[0] = "drain" => /\ turn \in 1 .. count + 1
                        /\ endSem + turn = Cardinality(Finished) + 1

\* The row in hand is one of the thread's own, and released for a reason.
OwnRow(t) ==
  /\ pc[t] \in InRow \cup {"release"} =>
       row[t] < frame.rows /\ row[t] % (count + 1) = t
  /\ pc[t] \in {"publish", "wait", "mb"} => col[t] < frame.cols
  /\ pc[t] = "end" => col[t] = frame.cols
  /\ pc[t] = "release" => corrupted[t]

InHand == pc[0] \in InFrame => \A t \in 0 .. count : OwnRow(t)

\* What is decoded and published of row r, which is dealt to thread t.
RowState(t, r) ==
  /\ mbCol[r] <= frame.cols + frame.nsync
  /\ Unbegun(t) => decoded[r] = 0 /\ mbCol[r] = -1
  /\ ~Unbegun(t) /\ pc[t] \in InRow =>
       /\ r < row[t] => decoded[r] = frame.cols
       /\ r = row[t] => decoded[r] = col[t] /\ mbCol[r] < col[t]
       /\ r > row[t] => decoded[r] = 0 /\ mbCol[r] = -1
  /\ ~Unbegun(t) /\ pc[t] \notin InRow \cup {"release"} =>
       \/ decoded[r] = frame.cols
       \/ corrupted[t] /\ (t = 0 => pc[0] = "drain")

\* Every row is done, in hand, untouched, or given up.
RowStates ==
  pc[0] \in InFrame =>
    \A r \in 0 .. frame.rows - 1 : RowState(r % (count + 1), r)

\* From one wait to the next, the row above is published as far as needed.
Behind(t) ==
  /\ row[t] > 0
  /\ \/ pc[t] = "mb"
     \/ pc[t] \in {"publish", "wait"} /\ col[t] % frame.nsync # 0
  => mbCol[row[t] - 1] >= col[t] - (col[t] % frame.nsync) + frame.nsync

StaysBehind == pc[0] \in InFrame => \A t \in 0 .. count : Behind(t)

IndInv ==
  /\ TypeOK /\ Started /\ Posted /\ InHand /\ RowStates /\ StaysBehind
  /\ CleanIsComplete

-----------------------------------------------------------------------------
(* What is said about the decoder and does not hold.                       *)

\* vp8/decoder/decodeframe.c: a frame starts with no corruption, so a key frame
\* whose data is complete is clean.
CompleteKeyIsClean ==
  pc[0] = "between" /\ key /\ ~missing => result # "corrupt"

\* vp8/decoder/decodeframe.c: all information about corruption is collected, so
\* a frame with missing data is not clean.
MissingIsNoticed == pc[0] = "between" /\ missing => result # "clean"
=============================================================================
