# libvpx: specifications of threads, frame buffers and accounts

libvpx is the VP8 and VP9 codec library; this copy of it also has `vp8/o3vpx.c`, a codec for
stereo video on small consoles. Most of its code computes: transforms, prediction, entropy
coding, rate control. Its tests check that computation by comparing decoded frames with
checksums. What they hardly reach is the *control* around it: threads that wait for each
other's rows, a job queue that ends while others are still filling it, reference counts on an
error path, the lifetime of a frame that the application still looks at, a budget that several
passes correct. This project models that control in TLA+, checks it with TLC on small
instances, and proves the safety properties with TLAPS for every value of the constants.

Contents: [Inventory](#inventory), [Modules and code](#modules-and-code),
[Runs](#runs), [Disagreements found](#disagreements-found),
[Fairness](#fairness), [Proofs](#proofs), [Not modelled](#not-modelled), [Plan](#plan).

## Inventory

| Part | State it keeps | Operations | Interacts with | What is hard | What makes it correct |
|---|---|---|---|---|---|
| VPxWorker, `vpx_util/vpx_thread.c` | status, hook and data, error flag, a mutex, one condition variable | init, reset, sync, launch, execute, end; the thread loop | every multithreaded part of VP9 is a client | one condition variable for both directions, hooks outside the mutex, any order of calls | no launch or failure is lost; calls return; data belongs to one side at a time |
| Row-parallel loop filter, `vp9/common/vp9_thread_common.c` | a column counter, mutex and condition variable per row; `sync_range` | filter a frame; `sync_read`, `sync_write` | decoder, encoder, and the two parallel decoders below | counters published only at some columns; synchronisation objects kept across sizes | the row above is ahead; each superblock once; no worker stuck |
| VP9 frame buffers and references, `vp9/decoder/vp9_decoder.c`, `vp9_decodeframe.c`, `vp9_dx_iface.c` | pool of counted buffers, two reference maps, resynchronisation flags | decode, get frame, destroy; the frame buffer callbacks | the application and its memory | an error can be raised (by `longjmp`) between any two updates of the counts | memory is exclusive and comes back; predictions read decoded frames; images stay valid |
| Parallel tiles with row filter, `decode_tiles_mt` | tiles done per row, next row to filter, corrupted flag | decode a row of a tile, count it, take a row, filter it | VPxWorker, row filter | the same threads decode and filter; errors must release all who wait | filtering follows decoding; errors are reported; frames end |
| Row-based decoding, `decode_tiles_row_wise_mt`, `vp9_job_queue.c` | job queue, map of reconstructed superblocks, counters | parse, reconstruct and filter jobs | VPxWorker, row filter | jobs wait for jobs that may still be queued; termination races with queueing | no deadlock among the jobs; everything queued is run |
| VP8 references, `vp8/decoder/onyxd_if.c`, `vp8_dx_iface.c` | four counted buffers, three references, the size and the fragments collected | decode (whole or fragmented), get frame, set a reference | the application | the order of the copies; errors and new sizes between them | counts exact; a free buffer; references as in the stream |
| VP8 threads, `vp8/decoder/threading.c` | atomic column per row, two kinds of semaphores, a corruption flag per thread | decode rows, give rows up, create and remove threads | VP8 buffers | spinning; an error has to release rows and semaphores | neighbours decoded first; no endless spin; no thread left in an old frame |
| VP9 encoder threads, `vp9_ethread.c`, `vp9_multi_thread.c` | job queue per tile column, column counter per row, both kept from frame to frame | encode tiles or rows, first pass, temporal filter | VPxWorker | queues shared while they empty; another comparison than the filter's; stale memory | order of rows; each row once; frames end |
| Lookahead, `vp9_lookahead.c` | ring of frames | push, pop, pop of a layer, peek | encoder | a past frame kept behind the read position | nothing overwritten, nothing out of order |
| o3vpx encoder, `vp8/o3vpx.c` | key plan, budget, estimate of a frame | plan, deal, encode, repair | its own decoder | accounts corrected by three passes; unsigned and floating point | never out of bytes; target kept |
| o3vpx decoder, `vp8/o3vpx.c` | two frame buffers that are swapped | init, reset, next frame, write out | the encoder's reconstruction | forms of a block without a length; buffers swapped here and copied there | the same picture on both sides; eyes apart |
| Serial tiles with a filter thread, `decode_tiles` | rows filtered so far | launch the filter a few rows behind | VPxWorker | the filter must stay behind intra prediction | as for the parallel tiles |
| Superframe index, `vp9_parse_superframe_index` | none | parse sizes of frames | buffers (several frames a call) | sums of sizes against what is left | every frame lies inside the data |
| Codec API, `vpx/src` | the context | init, decode, get frame, destroy | all codecs | order of calls | errors are sticky as documented |
| Rate control, SVC, mode decision, entropy coding, DSP | numeric | | | arithmetic | outside the reach of model checking |

The hazards in `PROJECT.json` list, line by line, what can go wrong in these parts and is
hard to test, and which property would show it.

## Modules and code

State variables carry the name of the field they stand for, and each declaration names it.
An action is the code between two points where another thread (or another call) can see or
change the state; a critical section of a mutex is one action, except in `VpxWorker`, where
the mutex itself is modelled. Program counters (`pc`) name the places between actions.
*History* variables are not in the program; they record what was decoded, filtered or shown,
so that the properties can speak about it without the pixels.

**`VpxWorker`** models `vpx_thread.c` as built with `CONFIG_MULTITHREAD`: the client thread
(`ResetCreates`, `ResetUnlocks`, `ResetRunning`, `ExecuteInline`, `Call` for sync, launch and
end, then `change_state()` step by step) and `thread_loop()`. Lock, test, wait and the return from a wait are steps of
their own; a wait may return without a signal; the hook runs without the mutex and may fail;
`had_error |= ...` is a read and a write around the hook. The client keeps to the contract of
`vpx_thread.h` (it does not touch the job between launch and sync) but calls the operations
in any order: launch after launch, end without sync, reset while the hook is running.

**`AsyncTask`** is what a client may rely on: a slot for one job that runs once with the data
it was submitted with. `VpxWorker` implements it under the mapping `phase`; a worker that has
run its hook but not yet stored `OK` already counts as idle.

**`Vp9LfSync`** models `vp9_loop_filter_frame_mt()`: `StartFrame` (with the reallocation of
the synchronisation object when the rows or workers change, and *not* when only the width
does), `LaunchWorker`, then per worker `SyncRead`, `FilterSb`, `SyncWrite`, and `EndFrame`,
the sync of all workers. Frames of different sizes follow each other through one object.

**`Vp9RefBuffers`** models the life of frame buffers through
`vpx_codec_decode()`: `Receive` claims a buffer, the header actions (`KeyHeader`,
`IntraHeader`, `InterHeader`, `ShowExisting`) parse and obtain memory, `HoldRefs` makes the
next reference map, `DecodeTiles` decodes, `SwapFrameBuffers` exchanges the maps. Between
any two of them an error can occur (`HeaderError`, `HeaderTruncated`, `DecodeError`), and
`ErrorExit` is the handler after `longjmp`. `GetFrame` and `Destroy` are the application's.
A frame is its kind, the slots it refreshes and the slots it predicts from; what can be wrong
with its size, format or data is a failure at the place that detects it. The get and release
callbacks lend and take back elements of `Mems`.

**`Vp9TileLf`** models `decode_tiles_mt()` with `lpf_mt_opt`: `DecodeRow` and `DecodeError`
for rows of tiles, `SetRowCount` (`vp9_set_row()`), after an error also for the tiles that
are not going to be decoded (`set_rows_after_error()`); `LaunchWorker` deals out the tile buffers
(`buf`, `bufStart`) as the loop of the main thread does; then `TakeRow`, `ReconTest`,
`CheckCorrupted` (`get_next_row()`), and the filter's `SyncRead` and `FilterSb`.

**`Vp9RowMt`** models `decode_tiles_row_wise_mt()`, `row_decode_worker_hook()` and
`vp9_job_queue.c`. Each critical section of the queue, the reconstruction map and the row
counters is an action; so are parsing a row, reconstructing a superblock and filtering one.
The queue is the buffer the code has: written once from start to end, never wrapped.

**`Vp8Decoder`** models `vp8_decode()` and what it calls. A call begins with `Decode` (a whole
frame), `AddFragment` or `Flush` (which decodes the fragments collected), peeks at the size,
accepts or refuses, and goes through `AllocFrameBuffers` for a new size, `Receive` (claim a
free buffer) and one of the outcomes of `vp8_decode_frame()`: `FrameDecoded` with
`SwapFrameBuffers`, `FrameFails` (a `longjmp`), `NoKeyFrame`. `AllocFails` is memory running out
in one of the places `MayFail` names. `GetFrame` and `SetReference` are the application's
calls. A picture is the number of the call that made it, so that buffers that hold the same
picture can be told from buffers that do not.

**`Vp8Refs`** is what the bitstream means, without buffers: three references to pictures, which
a frame copies to each other and then replaces. `Vp8Decoder` implements it with the contents of
the buffers the three indices name.

**`Vp8RowMt`** models `threading.c`. Rows are dealt out to the calling thread, 0, and the others;
per macroblock `Publish`, `Wait` (spin until the row above is `nsync` ahead) and `DecodeMb`, then
`RowEnd`. A thread that finds a corrupt reference or runs out of data gives up: `Release` opens
its remaining rows one by one, `PostEnd` signals its end. The calling thread starts the others
with `PostStart`, and waits for them in `Finish` or, after an error of its own, in `Drain`.
`CreateThreads`, `Remove`, `Join` and `Destroy` are the life of the threads. `Collect` is the
report of corruption at the end of `vp8_decode_frame()`.

**`Vp9EncMt`** models one frame after another through the encoder's threads. `StartTiles` and
`EncodeTiles` encode by tiles; `StartRows` is `vp9_encode_tiles_row_mt()`, the first pass
(`vp9_encode_fp_row_mt()`), or the temporal filter, whose rows do not wait for each other. It
reallocates the row memory only when it is too small, and the counters in new memory hold
garbage until they are initialised. Workers take jobs (`GetNextJob`), look through the tile
columns when theirs is empty (`TileStatus`, `NextTile`), and encode a row superblock by
superblock (`SyncRead`, `EncodeSb`, `SyncWrite`).

**`Vp9Lookahead`** is the ring: `Push`, `Pop` (by layers too), and peeks as the operators `Forward`
and `Backward`. A frame may be pushed while another still has layers to come, as it is after an
error in the encoder. **`FrameQueue`** is what it promises: a queue, and the frame it gave out last.

**`O3vpxBudget`** is the outer loop of `vp8_o3vpx_encode_file()`: the key plan (`PlanKey`), the
budget (`PlanBudget`), the deal to the P frames (`DealP`), and the frames (`EncodeKey`,
`EncodeP`), where a P frame takes *any* number of bytes its budget allows. Floating-point weights
are any weights. **`O3vpxRepair`** is one P frame: the three passes over candidates that replace
each other, with the running estimate, and the writing of the macroblocks. Which candidate comes
next, and which is passed over, is left open. **`O3vpxEncoder`** composes the two, and is shown to
implement `O3vpxBudget`: what a P frame takes really is within its budget.

**`O3vpxRes4`** has the pure functions: the five forms of a repaired block written and read back,
their cost, and the four shortened transforms next to the full one, in 16-bit arithmetic where
the code has shorts. **`O3vpxCodec`** runs encoder and decoder over the same macroblocks. Positions,
half-pixel vectors, the bounds of an eye and the macroblocks a block reads from are those of the
code with smaller macroblocks. The pixels of a plane of a macroblock are one value and the set of
eyes that went into it.

`MC*.tla` extend these for TLC with the sets and symmetries the `.cfg` files use, and
`*Proofs.tla` hold the theorems. Operators marked *Mutant* are plausible mistakes in the
definition that follows them. Each property of a passing run is violated when one of these
replaces its original; `PROJECT.json` pairs them.

Definitions of external code are marked so in `PROJECT.json`: `pthread_cond_signal` wakes one
waiter if there is one, and `pthread_cond_wait` may return without a signal.

### Abstractions that are common to all

* Pixels, coefficients and modes are left out, except in `O3vpxRes4`. A superblock or macroblock
  is decoded, reconstructed, encoded or filtered as a whole. What it reads of others is what the
  code waits for: intra prediction the superblock above, the filter the filtered one above and to
  the right.
* Memory accesses inside a critical section are atomic. Outside one, the only data that is
  written without a lock and read by another thread are pixels, represented by the history
  variables, the atomic counters of `Vp8RowMt`, one access a step, and `had_error`, which
  `VpxWorker` reads and writes in separate steps.
* The workers of a VP9 frame are launched and synchronised through `VPxWorker`; the frame-level
  modules use its contract (a launched hook runs once, sync returns when it has), which is
  what `VpxWorker` and `AsyncTask` establish.

## Runs

| Run | Instance | Question | Properties | Result |
|---|---|---|---|---|
| `worker` | 2 data values, 3 launches | lost failures, destruction in use, calls that never return, refinement of `AsyncTask` | `FailureKept`, `SafeDestroy`, `CallsReturn`, `TaskSpec` | holds |
| `lf_rows` | frames of 3 or 4 rows and 2 to 6 columns, `sync_range` 1, 2 and 4, 3 workers | order of filtering, also with a stale `sync_range`; completeness; termination | `AboveRightFiltered`, `WholeFrameFiltered`, `FrameEnds` | holds |
| `ref_buffers` | 2 slots, 3 buffers, 3 pieces of memory, all kinds of frames | memory, predictions, images and counts, through errors | `MemoryExclusive`, `RefsDecoded`, `ImageValid`, `MemoryReturned` | holds; counts until an error, and again from the key frame that flushes the pool |
| `tile_lf` | 4 tiles, 3 workers, 4 rows, 2 columns, errors anywhere | decode before filter, reporting, termination | `FilterAfterDecode`, `CleanIsComplete`, `FrameEnds` | holds without spurious wakeups of one wait, see below |
| `row_mt` | 2 tiles of 2 columns, 3 rows, 2 workers, errors in parsing and in one row's reconstruction | neighbours reconstructed, filter after reconstruction, no deadlock, room in the queue, jobs left behind, reporting | `ReconBelowRecon`, `FilterAfterRecon`, `NotAllWaiting`, `NoJobLost`, `CleanIsComplete` | holds; not for errors in any row, see the last run |
| `vp8_decoder` | 2 sizes, 4 pictures, fragments, every pair of copy flags that matters, failing allocation | counts, a free buffer, sizes, images, refinement of `Vp8Refs` | `CountsExact`, `FreeBufferExists`, `BufferSizeMatches`, `ImageIsLatest`, `RefsSpec` | holds when creating the decoder or allocating the frame buffers fails; not for the threads or the last allocation (`MayFail`), see below |
| `vp8_row_mt` | frames of 2 to 4 rows, `nsync` 1 and 2, 1 to 4 partitions, 2 threads and the caller | order, reporting, threads left behind, termination | `AboveRightDecoded`, `OthersFinished`, `CleanIsComplete`, `FrameEnds` | holds |
| `enc_mt` | three streams of frames that grow and shrink, with tile columns, layers, or tile rows; 3 workers | order, each row once, termination | `AboveEncoded`, `EveryRowOnce`, `FrameEnds` | holds for frames that have tile columns or tile rows, not both; see below |
| `lookahead` | depth 3, 3 images, 2 sizes, 2 layers | the last frame kept, refinement of `FrameQueue` | `LastIsKept`, `QueueSpec` | holds |
| `o3vpx_encoder` | up to 4 frames, 3 targets, one macroblock with 3 blocks | accounts, target, refinement of `O3vpxBudget` | `AccountsHold`, `StreamWithinTarget`, `BudgetSpec` | holds |
| `o3vpx_codec` | 4 by 2 macroblocks of 2 pixels, two eyes; 244 blocks, in pairs | same picture, eyes apart, blocks read back, transforms exact | `InSync`, `EyesApart`, `RoundTrip`, `RepairsExact` | holds |
| `row_mt_invalid_refs` | 1 tile of 1 column, 3 rows, 2 workers, errors in the reconstruction of any row | termination | `FrameEnds` | **violated** |

### Why these bounds are enough

* `worker`: `MaxLaunch` bounds the counters of launches, nothing in the code. With three, a
  launch can follow another with and without a sync between them, before and after an end and
  a new start. Two values of the data tell the data of one job from that of the next.
* `lf_rows`: 4 rows for 3 workers give one worker two rows, and 3 rows give none of them two;
  the sizes contain each pairing of a width with the `sync_range` of another width at the same
  height; 5 and 6 columns exceed the ranges so that there are columns between two published
  ones. The theorems cover all other sizes.
* `ref_buffers`: `REF_FRAMES` 8 and `FRAME_BUFFERS` 12 become 2 and 3: the least for which
  two slots can name the same or different buffers, and a third is being decoded. The theorems
  cover all sizes. Memory is as plentiful as buffers: exhaustion is a failing `get_fb_cb`.
* `tile_lf`: with 4 tiles for 3 workers one worker owns several tiles, which is when
  `num_tiles_left` matters. Three rows would not be enough: a row that is given up then never
  has a row below that is already being filtered; nor would two workers: two rows would never
  wait for the last row at once.
* `row_mt`: with two tiles a row is completed by either worker; with two columns in a tile the
  first and last differ; with three rows a filter job has both a row above and one below. The
  theorems cover all numbers.
* `SyncRange` is 1 in the two decoders: the other ranges are the subject of `lf_rows`.
* `vp8_decoder`: four buffers and three references are the code's own numbers. `MaxCalls` bounds
  the pictures made: with four, each reference and the frame being decoded can differ. The flags
  `toGf` and `toArf` are combined only where one copy reads what the other writes.
* `vp8_row_mt`: the frames have more rows than threads, fewer, and fewer partitions than threads,
  and follow each other in any order; with three columns and `nsync` 2 a column lies between two
  tests.
* `enc_mt`: in each stream a frame can be larger and smaller than the one the memory was
  allocated for, and three workers share two queues or one. The theorems cover all shapes.
* `lookahead`: the ring of four wraps around with any number of frames in it. The theorems cover
  every depth.
* `o3vpx_encoder`: the sizes keep the proportions that decide: a key costs several minimal P
  frames, a raw plane more than a block, several blocks more than a plane. Of the targets one is
  refused, one leaves exactly the minimum and one more. The theorems cover all sizes of the budget.
* `o3vpx_codec`: a vector of half a pixel already reads from two macroblocks, and four columns
  have an inner boundary and the one between the eyes. The constraint `OneEyeMixed` lets a P frame
  start only where one eye has a single colour in both buffers: the other eye's reference and older
  frame are any pair, and every frame can be the result; what the constraint leaves out is that
  both eyes start from mixed contents, between which no prediction reads (`EyesApart`). Blocks
  have every mask of the table, of the shortened transforms and some others, and the values at and
  beyond the limits of a nibble and of a coefficient, with a small and the largest quantiser. The
  theorems cover all sizes, contents, vectors, blocks and quantisers.

## Disagreements found

Where a comment, a header or a guide says something that the model shows not to hold, the
statement is kept as a property. One of them is a run:

* **A decode call that does not return** (`row_mt_invalid_refs`). When reconstruction of a
  row fails, because a block refers to a reference of an unusable size, the handler marks the
  row for the rows below but not for the filter. The filter job of the row above is not
  queued, that of the next row is, and waits for it.

The others have a configuration beside the runs, to be checked as
`tlc -config <file> <MC module>`, or hold as the invariant of a run's configuration in place of
those listed there. TLC finds each violated.

| Property | Check with | What the code does |
|---|---|---|
| `KeyFrameAccepted` | `MCVp9KeyFrameAccepted.cfg` | An error after the next reference map was made leaves the new buffer with one count per slot it was to refresh (`vp9_decoder.c:471`); a key frame resets the counts only once a frame was shown. Twelve key frames that fail at the start of a stream use up the pool for good ones too, where `vp9_decodeframe.c:2783` asks for one "to reset decoder state". |
| `ReleaseWasLent` | `MCVp9ReleaseWasLent.cfg` | The release of the previous buffer (`vp9_decoder.c:444`) and the flush at a key frame do not test `priv`, as `decrease_ref_count()` does: a buffer that never got memory is released to the application. |
| `FilterAfterDecode` | `MCVp9TileLfSpurious.cfg` | `get_next_row()` waits under an `if` (`vp9_thread_common.c:414`): after a spurious wakeup a row is filtered that intra prediction still needs. |
| `ImageUntilNextDecode` | `MCVp8Decoder.cfg` | `vpx_decoder.h:230-232` lets frames be used until the next decode call. A shown frame that refreshes nothing has a count of 0, and `VP8_SET_REFERENCE` takes its buffer (`onyxd_if.c:180`). |
| `OkMeansProcessed` | `MCVp8Decoder.cfg` | A meaningless copy flag makes `swap_frame_buffers()` fail, and the error code is set without changing the return value 0 (`onyxd_if.c:339-342`): the call returns `VPX_CODEC_OK`. |
| `CleanIsSound` | `MCVp8Decoder.cfg` | `decoded_key_frame` survives a reallocation: after a truncated key frame of another size, inter frames predicted from fresh memory are delivered as not corrupt. |
| `BufferSizeMatches` | `MCVp8Size.cfg` | When the threads cannot be allocated for a new size, the size is remembered and the buffers are those of the old one. |
| `FreeBufferExists` | `MCVp8Size.cfg` with `MayFail = {"temp"}` | When the last allocation fails, all buffers stay counted once and none is free. |
| `OnlyLastMarked` | `MCVp8Decoder.cfg` | "last" is the buffer `lst_fb_idx` names (`vp8_dx_iface.c:490-494`), which golden or alternate may share. |
| `FragmentsOfOneFrame` | `MCVp8Decoder.cfg` with `MaxPartitions = 2` | The fragments of a refused frame are kept, and decoded with those of the next (`vp8_dx_iface.c:245`). |
| `CompleteKeyIsClean` | `MCVp8RowMt.cfg` | A worker's corruption flag is never cleared while the threads live: a later complete key frame is still collected as corrupt. |
| `MissingIsNoticed` | `MCVp8RowMt.cfg` | The flag of the calling thread is not among those collected (`decodeframe.c:1217`) when it only missed data. |
| `AboveEncoded` | `MCVp9EncTileRows.cfg`, `MCVp9EncNarrowed.cfg` | Very wide frames have tile columns nobody asked for and may then have tile rows, which different workers encode at once; and the shared counters are those of the width the memory was allocated for (`vp9_multi_thread.c:113`), which only a part of is reset. |
| `EveryRowOnce` | `MCVp9EncSvc.cfg` | With layers the workers are as many as the largest frame needs, and their stride is not that of the tiles of a small one. |
| `TileRowOfJob` | `MCVp9EncMt.cfg` | `num_tile_vert_sbs` is computed when the memory is allocated (`vp9_multi_thread.c:122`), and used for smaller frames after. |
| `OnlyPushed` | `MCVp9LookaheadFails.cfg` | A push whose allocation fails has already counted the frame (`vp9_lookahead.c:110`), and a later pop returns a buffer nothing was copied to. |
| `EveryStreamWithinTarget`, `KeyGap` | `MCO3vpxEncoder.cfg` | `old3ds/O3DS_GUIDE.md` calls `target_mbps` the average budget and `keyint` the largest gap of keys: a stream of keys only is never compared with the target, and a scene that starts soon postpones a key. |

## Fairness

The safety properties need none. The liveness properties assume weak fairness of each thread's
steps, and that is all: threads that can run are scheduled, mutexes are eventually obtained,
hooks terminate (they are loops over a bounded number of blocks). Nothing is assumed of the
application: no frame has to arrive, no call has to be made, no frame has to be good or bad,
and no spurious wakeup has to happen. A thread that has been woken or was never blocked is
enabled until it moves, so that weak fairness is what a scheduler gives. A spinning thread of
`Vp8RowMt` is disabled until the column it waits for is published; columns only grow during a
frame, so that it stays enabled from then on, and `thread_sleep(0)` between two tests lets the
others run.

## Proofs

Proved with TLAPS for all values of the constants that satisfy the `ASSUME`s of the modules:

| Module | Theorem | Establishes |
|---|---|---|
| `VpxThreadProofs` | `Invariance` | `IndInv`, with type correctness |
| | `Asserts` | the asserts of the code |
| | `NeverBothWaiting` | one waiter on the shared condition variable |
| | `JobSafety` | each launch runs once, with its data; failures are kept; quiet after sync |
| | `DestroyedUnused` | mutex and condition variable are destroyed only when nobody uses them |
| | `Refinement` | the safety part of `AsyncTask` |
| | `EncoderInvariance` | `EncInv` of the encoder's workers, with type correctness |
| | `AboveFirst` | rows and tiles are encoded after what is above them |
| | `WholeFrameOnce` | every superblock is encoded once |
| | `EncoderRuns` | the encoder's workers never all sleep |
| `Vp9LfSyncProofs` | `Invariance` | `IndInv`, with type correctness |
| | `FilterOrder` | above-right neighbours are filtered first |
| | `FrameFiltered` | whole frame filtered; counters never ahead of the filter |
| | `SingleWaiter` | at most one waiter per row |
| `Vp9BufferProofs` | `Invariance` | `IndInv`, with type correctness |
| | `Exclusive`, `Returned` | memory is exclusive; it comes back |
| | `References` | predictions read decoded frames and nothing is overwritten |
| | `ImageStays` | an image stays valid until the next call |
| | `Slotted` | slots name decoded, counted frames |
| | `ErrorFree`, `PoolNeverDry` | counts are exact, and a buffer is free, as long as nothing has failed since the pool was last flushed |
| | `RingInv` | `LookaheadInv`, with type correctness |
| | `LastFrameKept` | the frame given out last stays in the ring |
| | `LookaheadIsQueue` | the whole of `FrameQueue` |
| `Vp9TileLfProofs` | `Invariance` | `IndInv`, with type correctness |
| | `FilterOrder` | no superblock is filtered before its row and the next are decoded (without spurious wakeups) |
| | `CleanComplete` | a frame not reported as corrupt is decoded and filtered everywhere, once |
| `Vp9RowMtProofs` | `Invariance` | `IndInv`, with type correctness |
| | `TopReconstructed` | superblocks are reconstructed after the ones above |
| | `FilteredWhenReady` | rows are filtered when they and the next are reconstructed |
| | `NoJobLeft`, `QueueNeverFull`, `EveryJobTaken` | no job is left in the queue, none finds it full, and so none is lost |
| | `CleanFrameComplete` | a frame not reported as corrupt is reconstructed and filtered everywhere, once |
| | `SomebodyRuns` | the workers never all wait |
| `Vp8DecoderProofs` | `Invariance` | `IndInv`, with type correctness |
| | `CountsStayExact`, `FreeBuffer` | counts are exact; there is always a free buffer |
| | `RightSize` | the buffers have the size of the stream |
| | `LatestImage` | the image handed out is the frame just decoded |
| | `Refinement` | the three references are those of `Vp8Refs` |
| `Vp8RowMtProofs` | `Invariance` | `IndInv`, with type correctness |
| | `KeptBehind` | macroblocks stay behind the ones above and to the right |
| | `ReturnsAlone` | the call returns only when every thread has finished |
| | `CleanComplete` | a frame reported as clean is decoded to the end |
| `O3vpxProofs` | `AccountsInv` | `IndInv`, with type correctness |
| | `NeverDies` | the encoder never gives up because of its accounts |
| | `TargetKept` | a stream with P frames is within the target |
| | `EstimateCovers` | `EncoderInv`: the estimate covers what is written |
| | `EncoderRefinement`, `EncoderKeepsAccounts` | the encoder implements the accounts, and has their properties |
| | `CodecInvariance` | `CodecInv`, with type correctness |
| | `DecoderFollows` | encoder and decoder have the same pictures |
| | `EyesNeverMix` | nothing is predicted across the border of the eyes |
| | `RepairsAlike` | the shortened transforms are exact |
| | `RepairsReadBack` | blocks are read back as written, and end where the encoder counted on it |

The assumptions on the constants are those the code's types and checks give: sizes and counts are
natural numbers (`MbW` even, as two eyes share a row; `Size` even, as chroma is halved), a shape
with several tile rows has as many superblock rows, blocks are what `eval_res4_candidate()` makes
(a nonempty mask, coefficients that `quantize_i8()` clamped) and `res_q` is a positive byte. The
theorems on the encoder's workers have one more hypothesis, `ColumnsAsked`; those that have an
assumption about failures or wakeups say so below.

**The worker.** That both threads never wait together is not inductive. `WaitsFor` says what
each waits for: the client for the status to leave `WORKING`, the worker for it to leave `OK`,
which excludes the other. That needs every change of the status to be followed by a signal
in the same critical section, and `Locking`, who is inside one. `Lifetime` ties the statuses to
the existence of the thread, `Ownership` the job's data to the status.

**The encoder's workers.** `ColumnsAsked` says that frames have several tile columns only when
columns were asked for. `set_encoder_config()` then takes one tile row, so that tile rows and tile
columns do not come together; without it, in frames too wide for one tile, the theorems are false,
as the configurations for `AboveEncoded` and `EveryRowOnce` under *Disagreements found* show.
`MemoryOK` says that the memory in use was laid out for some frame of the stream, perhaps a larger
one; `OwnSync` that nevertheless, through `tile_row_id` of the job and the pointers in `tile_data`, a
row is synchronised with the rows of its own tile column, which is where `ColumnsAsked` is needed.
The loop that numbers the tile rows of the jobs is followed by induction on the tile row
(`TileIdsBelow`). `CleanSlate` says that a worker keeps nothing of an earlier job. A row with a number below `jobs[c]` is finished or in the hands of exactly one worker
(`RowsOK`, `Apart`), and a worker leaves only when every queue is empty (`Searching`): that is
`WholeFrameOnce`. The tiles without `row_mt` are dealt by `% num_workers`, each to one worker.
`EncoderRuns` needs `Waiting` on top: a worker sleeps only while the counter it reads is behind, so
that no signal is lost, and the row above a sleeper is unfinished, hence with a worker. The topmost
sleeper's is awake.

**The row filter.** The order of filtering rests on arithmetic: a worker passes a
synchronisation point `c` (a multiple of `sync_range`) when the row above has published
`c + sync_range` or more, and need not look again before `c + sync_range`. `StayBehind` carries
that from one point to the next. `PublishedIsFiltered` ties counters to what was filtered.
`Assignment` and `Progress` say that row `r` belongs to worker `r % num_active` and is
untouched, in progress, or complete according to where its owner is. The lemmas about `%`
(`ModUnique`, `ModStep`, `ModGap`, ...) are proved from its definition. The proof needs no relation between `sync_range`
and the width, which is why a stale one does no harm.

**The buffers.** After an error, counts may be too high: that is the leak above. So the invariant
is one-sided: `Counted` says that while no key frame is awaited, a buffer's count is at *least*
the number of slots that name it plus what the current call holds; and exactly that as long as
nothing has failed since the pool was last flushed: the history variable `failed` is cleared where
`flush_all_fb_on_key()` sets the counts back, which needs a key frame that ends a
resynchronisation and a frame shown before it. `CallState` says what the call's own variables are in each phase,
`LentCounted` and `DecodedLent` relate memory, counts and decoded frames, `Resync` the two flags
of decoder and interface. When a key frame is awaited, slots may name buffers that were given
back; the invariant says nothing of them, and the proofs show that nobody predicts from them
and nobody is handed one. The sums of counts use `FS_` theorems on cardinalities of sets of slots.

**The parallel tiles.** Everything rests on what `num_tiles_done[r]` counts, which no variable says.
`Counted(r)` is the set of tiles whose worker no longer *owes* row `r`: it is past it, decoding, or
has counted it after an error without decoding it; the invariant is that the counter is the
cardinality of that set. It needs that each tile has one worker (`TilesDealt`, with a closed form,
`Dealt`, for the loop that deals the buffers out: the last `NumTiles % NumWorkers` workers get one
more), and that a worker that met no error has decoded what it counted (`OwnDecoded`). A full count
means all tiles, and with `lf_sync->corrupted` still clear none of them was given up
(`CountedDecoded`): an error is recorded before its row is counted. That order is the heart of
`FilterOrder`. `RowState` and `OwnRow` follow a row from `cm->lf_row` into one worker's hands and out
of them. `FilterOrder` assumes that the wait for the count is not left without a signal, which is
the assumption the code makes by testing it once; the invariant and `CleanComplete` do not.

**The row-based decoder.** The queue is a sequence that only grows, so that what was queued, taken
and left behind are sets of jobs, and every job is at most once in it (`OneEach`). That bounds the
queue: no more jobs than there are rows of tiles to parse and to reconstruct, and rows to filter
(`QueueNeverFull`), which is what `vp9_jobq_alloc()` makes room for. `Parsed`, `Mapped` and `LpfOf`
say of each row of each tile what its jobs have done according to where they are; `TilesCounted` and
`RowsCounted` give the two counters as cardinalities, as for the parallel tiles. A row is complete
for the filter *before* its last superblock is in the map, so `RowsCounted` counts by place and not
by the map. `FilteredWhenReady` follows: the filter job of a row is queued by the one worker that
made the count of the row below full. `InOrder` says that rows are queued from the top, within a
tile for reconstruction and over the frame for the filter. So the row that a worker waits for was
taken before its own, and among the workers that sleep (`Asleep`: the condition they wait for is
really false) the topmost has nobody to wait for; those that wait for a job leave one to take what
is queued or to end the frame (`Served`). That is `SomebodyRuns`. All of it excludes a failed
reconstruction, which marks rows it has not done (`ReconFailed`), and after which workers do get
stuck, as `row_mt_invalid_refs` shows; what is said about parse errors has no such exception.

**The VP8 buffers.** `CountsExact` holds in the invariant's form everywhere between the steps of a
call: a buffer's count is the number of references that name it, plus one for the frame in work.
The exception is a decoder whose last allocation failed (`Stuck`), where all buffers stay counted
once. `CountsStayExact` and `FreeBuffer` assume that this allocation does not fail (`"temp"` is not
in `MayFail`), `RightSize` that the threads can be allocated; these are the failures listed above.
That a buffer is free is then counting: three references and no frame in work name at most three of
four buffers. `Refinement` holds whatever fails: the pictures of the three references are what the
header of a frame says they are, in the order of the copies.

**The VP8 threads.** A thread has not begun the frame, is in one of its rows (`r % (count + 1)`),
releases the rows it will not decode, or has finished; `RowState` says of each row what its counter
stands for according to its owner, and the number of posts of the end semaphore is the number of
threads that have finished and were not waited for, a cardinality (`Posted`). `StaysBehind` is the
argument of the row filter with the other comparison: what a thread saw at the last multiple of
`nsync` is enough up to the next. For `CleanComplete` the flags of corruption are tied to the rows
of the threads that set them.

**The lookahead.** `WriterAhead` says that the writer is `sz` slots ahead of the reader, which with
`sz <= Depth` and a ring of `Depth + 1` slots leaves exactly the slot behind the reader unwritten:
that is `LastIsKept`. For the refinement a push appends to the mapped sequence, because the other
slots between reader and writer are not the one written, and a pop is its tail. The lemmas on the
indices (`%` of the ring) do the arithmetic.

**The accounts.** `kcount` and `alloc` keep the running sums of keys and of promised bytes, so
that "the rest of the plan" is a difference. `Promises` says that every stretch of frames was
promised at least the minimum of its P frames; `Accounts` that what was written and what is left
add up to the target and that what is left covers the minimum of the rest. A frame's budget is
what is left less the reserve for the others, and the reserve is at least their minimum, so that
the next frame is in the same position (`ReserveEnough`, `EncodeFrame`). `TargetKept` reads the
sum off at the end.

**The repairs.** The accounts leave a P frame any number of bytes within its budget, and the
encoder has to show that it takes no more. What it spends is an estimate that each pass corrects by
differences. `RepairInv` says that the cost kept for each macroblock is exactly that of the blocks
it now has (`CostExact`), that there are running totals `p` of what the macroblocks are charged
with, of which the last is the estimate (`Totals`), and that the payload is at most the total of the
macroblocks written so far (`Covered`): payload <= total <= estimate <= budget. The cost of the
blocks is a sum over a finite set, handled by induction on its subsets; as the induction theorems
with an operator as parameter cannot be used here, the predicate is given as a *set*, to the
theorem on well-founded sets. `EncoderRefinement` then maps the last step of a frame to `EncodeP`
and all others to a stutter.

**Encoder and decoder.** Outside a frame the decoder's newer buffer is the encoder's reference;
inside a P frame its older one, which receives the picture, agrees with the encoder's reconstruction
up to the next macroblock (`CodecInv`). Intra prediction reads only macroblocks before that, and the
swap at the end does what `memcpy` does. For the eyes, `mv_in_bounds()` tests the luma block in half
pixels, and the chroma vector is rounded separately: `ChromaInEye` shows that the rounded chroma
block is inside whenever the luma block is (`RoundWithin`), for every even `Size`.

**Blocks.** `RepairsAlike` rests on what a pass of the transform does to zeros: with one coefficient
`Pass(x, 0, 0, 0)` is `x` four times, and the routines for few coefficients leave out passes of that
kind. The intermediate values are shorts, and the products of a coefficient with a quantiser fit one
(`FitsShort`), so that what is left out would not have wrapped; where a pass can wrap, the short
routines wrap at the same place. `RepairsReadBack` goes by the form of a block: a position's rank in
the mask is one-to-one onto the numbers up to the number of coefficients (`RankFacts`), so that the
coefficients written in order are those read in order; nibbles, bytes and bits are found again
(`PackedFacts`, `ByteId`, `BitsFacts`); and what is read depends only on the bytes the block was
written with, whatever follows (`BlockRead`).

Only model-checked: all liveness properties (the proof system has no support for `ENABLED` and
fairness here), with them the liveness part of the refinement of `AsyncTask`; the absence of
deadlock where no theorem above states it; and the properties under *Disagreements found*, which
are false. Every other property of the passing runs is the subject of a theorem.

## Not modelled

* The VP9 encoder's decisions, VP8 encoder, transforms, prediction, entropy coding and SIMD
  kernels: computation on large data, better tested than model-checked.
* The single-threaded build, in which a launch is a call.
* Failing allocation in the VP9 decoder, except that of a frame buffer; a `CHECK_MEM_ERROR` in a
  worker jumps to the stack of another thread (`vp9_decodeframe.c:1927`), which has no defined
  outcome to model.
* Superframes in `Vp9RefBuffers`: each of their frames goes through the modelled path, without
  a `GetFrame` between them. The VP9 controls that copy or set a reference frame. The buffers of
  motion vectors.
* In `Vp9TileLf`, frames that are not filtered in parallel; in `Vp9RowMt`, the tests of
  `lf_sync->corrupted`, which nothing sets in that mode.
* Filtering part of a frame, which nothing requests from several workers.
* In `Vp8Decoder`, error concealment, postprocessing and frame threads, which the default build
  or the default flags leave out.
* Of o3vpx, the motion search and the gains, pixel arithmetic, the quality log, and the modes the
  decoder reads but the encoder never writes; the console program around it in `old3ds`.
* Programs, containers, examples, tests and third-party code.

## Plan

Done: all parts with threads of the VP8 decoder, the VP9 decoder and the VP9 encoder, the frame
buffers of both decoders, the lookahead, and o3vpx are modelled and checked, and every safety
property of their runs is proved.

Next, in this order:

1. An abstract specification of a parallel frame decoder (each superblock reconstructed after
   its neighbours and filtered after those that read it) that `Vp9TileLf`, `Vp9RowMt` and the
   serial decoder implement.
2. The serial decoder with a filter thread, and superframes in `Vp9RefBuffers`.
3. The modes of o3vpx that only its decoder reads.
