---------------------------- MODULE Vp9RefBuffers ----------------------------
(***************************************************************************)
(* The frame buffers of the VP9 decoder: who references a buffer of the    *)
(* pool, when its memory is asked for and given back through the frame     *)
(* buffer callbacks, and what is left of all that when a frame cannot be   *)
(* decoded.                                                                *)
(*                                                                         *)
(* A call of vpx_codec_decode() takes each frame through decode_one() and  *)
(* vp9_receive_compressed_data(): a buffer of the pool is claimed          *)
(* ("header"), the uncompressed header is parsed and memory obtained       *)
(* ("refs"), the next reference map is made and the references are held    *)
(* ("tiles"), and the buffers are swapped ("swap") or, after a longjmp     *)
(* from any of these places, given up ("error").  Between two calls        *)
(* ("idle") the application may take the frame, or destroy the decoder     *)
(* ("gone").                                                               *)
(*                                                                         *)
(* A frame is its kind: "key", "intra" (only), "inter" or "existing" (an   *)
(* earlier frame to be shown).  Pixels, sizes and formats are left out:    *)
(* every error they can cause is a nondeterministic failure at the place   *)
(* where the code detects it.                                              *)
(***************************************************************************)
EXTENDS Integers, FiniteSets

CONSTANTS
  RefFrames,     \* REF_FRAMES, the slots of the reference map
  FrameBuffers,  \* FRAME_BUFFERS, the size of the pool
  Mems,          \* the memory behind the frame buffer callbacks
  Kinds,         \* the kinds of frames the stream has
  Refreshes      \* the refresh_frame_flags it uses in frames that are not key

AllKinds == {"key", "intra", "inter", "existing"}

ASSUME PoolAssumption ==
  /\ RefFrames \in Nat \ {0} /\ FrameBuffers \in Nat
  /\ RefFrames < FrameBuffers
  /\ -1 \notin Mems
  /\ Kinds \subseteq AllKinds
  /\ Refreshes \subseteq SUBSET (0 .. RefFrames - 1)

None  == -1
Slots == 0 .. RefFrames - 1
Bufs  == 0 .. FrameBuffers - 1

VARIABLES
  refCount,    \* frame_bufs[].ref_count
  released,    \* frame_bufs[].released
  priv,        \* frame_bufs[].raw_frame_buffer.priv, None for NULL
  inUse,       \* int_fb[].in_use: whether the callbacks have lent m out
  refMap,      \* cm->ref_frame_map
  nextMap,     \* cm->next_ref_frame_map
  newFb,       \* cm->new_fb_idx
  frameRefs,   \* cm->frame_refs[].idx, the buffers this frame predicts from
  shown,       \* cm->current_video_frame > 0
  refresh,     \* pbi->refresh_frame_flags
  hold,        \* pbi->hold_ref_buf
  needResync,  \* pbi->need_resync
  ready,       \* pbi->ready_for_new_data
  ctxResync,   \* ctx->need_resync
  siKnown,     \* ctx->si.h # 0
  pc,          \* where the call is
  kind,        \* the frame of this call
  show,        \* cm->show_frame
  img,         \* history: buffer of the image the application has, or None
  decoded,     \* history: buffers that hold a completely decoded frame
  failed       \* history: a call has failed since the pool was last flushed

poolVars  == <<refCount, released, priv, inUse>>
mapVars   == <<refMap, nextMap, hold>>
frameVars == <<kind, show, refresh, frameRefs>>
syncVars  == <<needResync, ctxResync, siKnown, shown, failed>>
vars == <<poolVars, mapVars, frameVars, syncVars, newFb, ready, pc, img, decoded>>

\* init_decoder(), vp9_decoder_create() and init_buffer_callbacks(); the pool is
\* zeroed memory.
Init ==
  /\ refCount = [b \in Bufs |-> 0]
  /\ released = [b \in Bufs |-> FALSE]
  /\ priv = [b \in Bufs |-> None]
  /\ inUse = [m \in Mems |-> FALSE]
  /\ refMap = [s \in Slots |-> None] /\ nextMap = [s \in Slots |-> None]
  /\ newFb = None /\ frameRefs = {}
  /\ shown = FALSE /\ refresh = {} /\ hold = FALSE
  /\ needResync = TRUE /\ ctxResync = TRUE /\ ready = TRUE /\ siKnown = FALSE
  /\ pc = "idle" /\ kind = "key" /\ show = FALSE
  /\ img = None /\ decoded = {} /\ failed = FALSE

-----------------------------------------------------------------------------
(* Reference counts and the release callback.                              *)

\* The slots of the reference map that name buffer b.
SlotsOf(b) == {s \in Slots : refMap[s] = b}

\* release_fb_cb() for every buffer of R, and released = 1.
ReleaseOf(R) ==
  /\ released' = [b \in Bufs |-> released[b] \/ b \in R]
  /\ inUse' = [m \in Mems |-> inUse[m] /\ ~ \E b \in R : priv[b] = m]
  /\ decoded' = decoded \ R

\* A reference count after n calls of decrease_ref_count() ...
Decreased(c, n) == IF n >= c THEN 0 ELSE c - n

\* Mutant of ReleasedBy: the released flag is not looked at.
ReleasedByAlways(n) ==
  {b \in Bufs : n[b] > 0 /\ refCount[b] > 0 /\ n[b] >= refCount[b]
                /\ priv[b] # None}

\* ... and the buffers released by them, when n[b] of them are made for b.
ReleasedBy(n) ==
  {b \in Bufs : n[b] > 0 /\ refCount[b] > 0 /\ n[b] >= refCount[b]
                /\ ~released[b] /\ priv[b] # None}

\* What swap_frame_buffers() and release_fb_on_decoder_exit() take off the count
\* of b: the hold of this frame on every slot, and the reference of a slot that
\* is refreshed.
Dropped(b) == Cardinality(SlotsOf(b)) + Cardinality(SlotsOf(b) \cap refresh)

-----------------------------------------------------------------------------
(* A call of the decoder.                                                  *)

\* Until the stream size is known only a key or intra-only frame goes further
\* than the peek at its header.
MayDecode(k) == siKnown \/ k \in {"key", "intra"}

\* Mutant of PreviousUnreferenced: the previous frame is not looked at.
PreviousForgotten == {}

\* The previous frame, when nothing references it: it could not be released as
\* long as the application might ask for it.
PreviousUnreferenced ==
  {b \in Bufs : b = newFb /\ refCount[b] = 0 /\ ~released[b]}

\* get_free_fb() returns b.
IsFreeFb(b) == refCount[b] = 0 /\ \A c \in Bufs : c < b => refCount[c] # 0

Receive(k, b) ==
  /\ pc = "idle" /\ MayDecode(k) /\ IsFreeFb(b)
  /\ ReleaseOf(PreviousUnreferenced)
  /\ refCount' = [refCount EXCEPT ![b] = 1]
  /\ newFb' = b /\ hold' = FALSE /\ ready' = FALSE
  /\ kind' = k /\ siKnown' = TRUE
  /\ img' = None
  /\ pc' = "header"
  /\ UNCHANGED <<priv, refMap, nextMap, show, refresh, frameRefs, needResync,
                 ctxResync, shown, failed>>

\* No buffer is free.  release_fb_on_decoder_exit() has nothing to do: hold is
\* FALSE between calls.
ReceiveNoFreeFb(k) ==
  /\ pc = "idle" /\ MayDecode(k) /\ \A b \in Bufs : refCount[b] # 0
  /\ ReleaseOf(PreviousUnreferenced)
  /\ newFb' = None /\ ready' = TRUE
  /\ needResync' = TRUE /\ ctxResync' = TRUE /\ failed' = TRUE
  /\ siKnown' = TRUE
  /\ img' = None
  /\ UNCHANGED <<refCount, priv, mapVars, frameVars, shown, pc>>

\* The header is refused before memory is obtained: bad syntax, a reference that
\* does not exist or does not fit, show_existing_frame of an empty slot, an inter
\* frame while resynchronising, or get_fb_cb() failing.
HeaderError ==
  /\ pc = "header"
  /\ pc' = "error"
  /\ UNCHANGED <<poolVars, mapVars, frameVars, syncVars, newFb, ready, img,
                 decoded>>

MayShow(s) == refMap[s] # None /\ refCount[refMap[s]] >= 1

\* show_existing_frame: ref_cnt_fb() exchanges the free buffer for the old one.
ShowExisting(s) ==
  LET f == refMap[s] IN
  /\ pc = "header" /\ kind = "existing"
  /\ MayShow(s)
  /\ refCount' = [[refCount EXCEPT ![newFb] = Decreased(@, 1)]
                            EXCEPT ![f] = @ + 1]
  /\ newFb' = f
  /\ refresh' = {} /\ show' = TRUE
  /\ pc' = "swap"
  /\ UNCHANGED <<released, priv, inUse, mapVars, kind, frameRefs, syncVars,
                 ready, img, decoded>>

\* get_fb_cb() lends memory m to the new buffer, and R is released: any memory
\* that is not in use, which vp9_get_frame_buffer() takes in the order of its
\* list and an application as it likes.
SetupFrameSize(m, R) ==
  /\ ~inUse[m]
  /\ priv' = [priv EXCEPT ![newFb] = m]
  /\ released' = [b \in Bufs |-> IF b = newFb THEN FALSE
                                ELSE released[b] \/ b \in R]
  /\ inUse' = [i \in Mems |-> (inUse[i] \/ i = m)
                              /\ ~ \E b \in R : priv[b] = i]
  /\ decoded' = decoded \ (R \cup {newFb})
  /\ pc' = "refs"
  /\ UNCHANGED <<nextMap, hold, kind, newFb, ready, img, ctxResync, siKnown,
                 shown>>

\* flush_all_fb_on_key() does its work.
Flushes == needResync /\ shown

\* Mutant of FlushedCount: the counts are left as they are.
CountNotFlushed(b) == refCount[b]

\* Its effect on the counts, and the buffers it releases.
FlushedCount(b) == IF Flushes /\ b # newFb THEN 0 ELSE refCount[b]

FlushedBufs == IF Flushes THEN {b \in Bufs \ {newFb} : ~released[b]} ELSE {}

ResyncMap == IF needResync THEN [s \in Slots |-> None] ELSE refMap

KeyHeader(m, sh) ==
  /\ pc = "header" /\ kind = "key"
  /\ SetupFrameSize(m, FlushedBufs)
  /\ refCount' = [b \in Bufs |-> FlushedCount(b)]
  /\ refMap' = ResyncMap
  /\ needResync' = FALSE /\ failed' = (failed /\ ~Flushes)
  /\ refresh' = Slots /\ frameRefs' = {} /\ show' = sh

\* An intra-only frame is never shown.
IntraHeader(m, rf) ==
  /\ pc = "header" /\ kind = "intra"
  /\ SetupFrameSize(m, {})
  /\ refMap' = ResyncMap
  /\ needResync' = FALSE
  /\ refresh' = rf /\ show' = FALSE
  /\ UNCHANGED <<refCount, frameRefs, failed>>

\* Mutant of MayPredict: inter frames are decoded without waiting for a key
\* frame.
MayPredictAlways(refs) == \A s \in refs : refMap[s] # None

MayPredict(refs) == ~needResync /\ \A s \in refs : refMap[s] # None

InterHeader(m, rf, refs, sh) ==
  /\ pc = "header" /\ kind = "inter"
  /\ MayPredict(refs)
  /\ SetupFrameSize(m, {})
  /\ frameRefs' = {refMap[s] : s \in refs}
  /\ refresh' = rf /\ show' = sh
  /\ UNCHANGED <<refCount, refMap, needResync, failed>>

\* The rest of the uncompressed header: truncated, or well-formed.
HeaderTruncated ==
  /\ pc = "refs"
  /\ pc' = "error"
  /\ UNCHANGED <<poolVars, mapVars, frameVars, syncVars, newFb, ready, img,
                 decoded>>

\* The count of b with the holds, and the references the next map makes.
HeldCount(b) ==
  refCount[b] + Cardinality(SlotsOf(b))
    + (IF b = newFb THEN Cardinality(refresh) ELSE 0)

HoldRefs ==
  /\ pc = "refs"
  /\ nextMap' = [s \in Slots |-> IF s \in refresh THEN newFb ELSE refMap[s]]
  /\ refCount' = [b \in Bufs |-> HeldCount(b)]
  /\ hold' = TRUE
  /\ pc' = "tiles"
  /\ UNCHANGED <<released, priv, inUse, refMap, frameVars, syncVars, newFb,
                 ready, img, decoded>>

\* The compressed header and the tiles: corrupt, or decoded.
DecodeError ==
  /\ pc = "tiles"
  /\ pc' = "error"
  /\ UNCHANGED <<poolVars, mapVars, frameVars, syncVars, newFb, ready, img,
                 decoded>>

DecodeTiles ==
  /\ pc = "tiles"
  /\ decoded' = decoded \cup {newFb}
  /\ pc' = "swap"
  /\ UNCHANGED <<poolVars, mapVars, frameVars, syncVars, newFb, ready, img>>

\* check_resync().  For an existing frame it looks at the frame type of an
\* earlier frame, but then has nothing to clear.
CheckResync ==
  ctxResync' = (ctxResync /\ (needResync \/ kind \notin {"key", "intra"}))

\* What swap_frame_buffers() takes off the count of b before it gives up its own
\* reference to the new frame.
SwappedOut(b) == IF kind = "existing" THEN 0 ELSE Dropped(b)

\* swap_frame_buffers() and the end of vp9_receive_compressed_data().
SwapFrameBuffers ==
  LET n == [b \in Bufs |-> SwappedOut(b)] IN
  /\ pc = "swap"
  /\ ReleaseOf(ReleasedBy(n))
  /\ refCount' = [b \in Bufs |-> Decreased(refCount[b], n[b])
                                   - (IF b = newFb THEN 1 ELSE 0)]
  /\ refMap' = IF kind = "existing" THEN refMap ELSE nextMap
  /\ hold' = FALSE /\ frameRefs' = {}
  /\ shown' = (shown \/ show)
  /\ CheckResync
  /\ pc' = "idle"
  /\ UNCHANGED <<priv, nextMap, kind, show, refresh, needResync, siKnown,
                 failed, newFb, ready, img>>

\* What the error path takes off the count of b.
GivenUp(b) == (IF hold THEN Dropped(b) ELSE 0) + (IF b = newFb THEN 1 ELSE 0)

\* After longjmp(): release_fb_on_decoder_exit(), the release of the current
\* frame, and decode_one() asking for a key frame.
ErrorExit ==
  LET n == [b \in Bufs |-> GivenUp(b)] IN
  /\ pc = "error"
  /\ ReleaseOf(ReleasedBy(n))
  /\ refCount' = [b \in Bufs |-> Decreased(refCount[b], n[b])]
  /\ hold' = FALSE /\ ready' = TRUE
  /\ needResync' = TRUE /\ ctxResync' = TRUE /\ failed' = TRUE
  /\ pc' = "idle"
  /\ UNCHANGED <<priv, refMap, nextMap, frameVars, siKnown, shown, newFb, img>>

-----------------------------------------------------------------------------
(* The application between two calls.                                      *)

\* Mutant of MayOutput: frames are handed out while resynchronising.
MayOutputAlways == show

MayOutput == show /\ ~ctxResync

\* decoder_get_frame() and vp9_get_raw_frame().
GetFrame ==
  /\ pc = "idle" /\ ~ready
  /\ ready' = TRUE
  /\ img' = IF MayOutput THEN newFb ELSE None
  /\ UNCHANGED <<poolVars, mapVars, frameVars, syncVars, newFb, pc, decoded>>

\* The buffers whose memory vp9_free_ref_frame_buffers() gives back.
LentBufs == {b \in Bufs : ~released[b] /\ priv[b] # None}

\* decoder_destroy().
Destroy ==
  /\ pc = "idle"
  /\ ReleaseOf(LentBufs)
  /\ refCount' = [b \in Bufs |-> IF b \in LentBufs THEN 0 ELSE refCount[b]]
  /\ img' = None
  /\ pc' = "gone"
  /\ UNCHANGED <<priv, mapVars, frameVars, syncVars, newFb, ready>>

\* Nothing more happens to a decoder that is destroyed.
Gone == pc = "gone" /\ UNCHANGED vars

-----------------------------------------------------------------------------
Header ==
  \/ HeaderError
  \/ \E s \in Slots : ShowExisting(s)
  \/ \E m \in Mems, sh \in BOOLEAN : KeyHeader(m, sh)
  \/ \E m \in Mems, rf \in Refreshes : IntraHeader(m, rf)
  \/ \E m \in Mems, rf \in Refreshes, refs \in SUBSET Slots \ {{}},
        sh \in BOOLEAN : InterHeader(m, rf, refs, sh)

Next ==
  \/ \E k \in Kinds, b \in Bufs : Receive(k, b)
  \/ \E k \in Kinds : ReceiveNoFreeFb(k)
  \/ Header \/ HeaderTruncated \/ HoldRefs \/ DecodeError \/ DecodeTiles
  \/ SwapFrameBuffers \/ ErrorExit
  \/ GetFrame \/ Destroy \/ Gone

Spec == Init /\ [][Next]_vars

-----------------------------------------------------------------------------
(* Properties.                                                             *)

\* The type invariant: no reference count goes below zero, and every index in
\* the maps is a buffer of the pool or -1.
TypeOK ==
  /\ refCount \in [Bufs -> Nat]
  /\ released \in [Bufs -> BOOLEAN]
  /\ priv \in [Bufs -> Mems \cup {None}]
  /\ inUse \in [Mems -> BOOLEAN]
  /\ refMap \in [Slots -> Bufs \cup {None}]
  /\ nextMap \in [Slots -> Bufs \cup {None}]
  /\ newFb \in Bufs \cup {None} /\ frameRefs \subseteq Bufs
  /\ refresh \subseteq Slots
  /\ shown \in BOOLEAN /\ hold \in BOOLEAN /\ needResync \in BOOLEAN
  /\ ready \in BOOLEAN /\ ctxResync \in BOOLEAN /\ siKnown \in BOOLEAN
  /\ pc \in {"idle", "header", "refs", "tiles", "swap", "error", "gone"}
  /\ kind \in AllKinds /\ show \in BOOLEAN
  /\ img \in Bufs \cup {None} /\ decoded \subseteq Bufs
  /\ failed \in BOOLEAN

\* The decoder holds memory for buffer b.
Lent(b) == ~released[b] /\ priv[b] # None

\* Two buffers of the pool never share memory, and exactly the memory they hold
\* is in use: no buffer is given back twice, and none is overwritten by another
\* before it is given back.
MemoryExclusive ==
  /\ \A b, c \in Bufs : Lent(b) /\ Lent(c) /\ priv[b] = priv[c] => b = c
  /\ \A m \in Mems : inUse[m] <=> \E b \in Bufs : Lent(b) /\ priv[b] = m

\* An inter frame is predicted from completely decoded frames whose memory is
\* held for as long as it is being decoded, and never from itself.
RefsDecoded ==
  pc \in {"refs", "tiles"} /\ kind = "inter" =>
    \A b \in frameRefs : b \in decoded /\ Lent(b) /\ b # newFb

\* The frame being decoded does not overwrite a frame a slot still names.
RefsNotOverwritten ==
  pc \in {"refs", "tiles"} => \A s \in Slots : refMap[s] # newFb

\* The image vpx_codec_get_frame() returned is a decoded frame and keeps its
\* memory until the next call of vpx_codec_decode().
ImageValid ==
  img # None => img \in decoded /\ Lent(img)

\* The count of a buffer is the number of slots that name it, as long as no call
\* has failed; and what failed calls have left counted is gone with the key frame
\* that flushes the pool, from which on the counts are exact again.
CountsExact ==
  pc = "idle" /\ ~failed =>
    \A b \in Bufs : refCount[b] = Cardinality(SlotsOf(b))

\* Nothing is kept for nobody.  Between calls the memory of every buffer that is not
\* counted has been given back, except that of the frame decoded last, and counts
\* are the references there are, in particular after the flush that follows an
\* error; after vpx_codec_destroy() all memory has been given back.
MemoryReturned ==
  /\ pc = "idle" => \A b \in Bufs :
       Lent(b) => refCount[b] > 0 \/ b = newFb
  /\ CountsExact
  /\ pc = "gone" => \A m \in Mems : ~inUse[m]

\* With exact counts get_free_fb() finds a buffer for the next frame, on a stream decoded
\* without errors and again after the flush that follows them.
PoolSuffices ==
  pc = "idle" /\ ~failed => \E b \in Bufs : refCount[b] = 0

\* The decoder and the interface agree on whether a key frame is awaited, and
\* when none is every slot names a decoded frame that is counted for it.
SlotsValid ==
  pc = "idle" => /\ ctxResync = needResync
                 /\ ~needResync => \A s \in Slots : refMap[s] # None =>
                      /\ refMap[s] \in decoded /\ Lent(refMap[s])
                      /\ refCount[refMap[s]] >= Cardinality(SlotsOf(refMap[s]))

-----------------------------------------------------------------------------
(* The inductive invariant behind these.                                   *)

\* The call is in a state in which its own references are counted.
Holding == pc = "tiles" \/ (pc = "swap" /\ kind # "existing")

Showing == pc = "swap" /\ kind = "existing"

Claiming == pc \in {"header", "refs"} \/ Showing

\* A frame is being decoded into the new buffer.
Decoding == pc = "refs" \/ Holding

\* The references there are to buffer b: of the slots, ...
SlotRefs(b) == Cardinality(SlotsOf(b))

\* ... and of the call.
CallRefs(b) ==
  IF Holding THEN SlotRefs(b) + (IF b = newFb THEN Cardinality(refresh) + 1
                                 ELSE 0)
  ELSE IF Claiming /\ b = newFb THEN 1 ELSE 0

\* While no key frame is awaited every reference is counted, and nothing else as
\* long as nothing has failed.
Counted ==
  pc \notin {"error", "gone"} => \A b \in Bufs :
    /\ ~needResync => refCount[b] >= SlotRefs(b) + CallRefs(b)
    /\ ~failed => refCount[b] = SlotRefs(b) + CallRefs(b)

\* What the code keeps while it goes through a call.
CallState ==
  /\ hold => Holding \/ pc = "error"
  /\ Holding => hold /\ nextMap = [s \in Slots |-> IF s \in refresh THEN newFb
                                                   ELSE refMap[s]]
  /\ pc \notin {"idle", "gone"} => newFb \in Bufs /\ refCount[newFb] >= 1
  /\ pc \notin {"idle", "gone"} => img = None /\ ~ready
  /\ pc = "header" => refCount[newFb] = 1 /\ ~Lent(newFb)
  /\ Decoding => ~needResync /\ Lent(newFb) /\ kind # "existing"
  /\ Decoding \/ (pc = "header" /\ ~needResync)
       => \A s \in Slots : refMap[s] # newFb

\* Nobody is lent memory for nothing.
LentCounted ==
  \A b \in Bufs : Lent(b) => /\ pc # "gone"
                             /\ refCount[b] > 0 \/ (pc = "idle" /\ b = newFb)

\* Decoded frames are in memory, and slots name decoded frames.
DecodedLent ==
  /\ \A b \in decoded : Lent(b)
  /\ ~needResync /\ pc \notin {"error", "gone"} =>
       \A s \in Slots : refMap[s] # None => refMap[s] \in decoded
  /\ Holding /\ pc = "swap" => newFb \in decoded
  /\ pc \in {"refs", "tiles"} /\ kind = "inter" =>
       \A b \in frameRefs : \E s \in Slots : refMap[s] = b

\* The two resynchronisation flags; what may be shown is decoded.
Resync ==
  /\ pc \in {"idle", "header"} \/ Showing => ctxResync = needResync
  /\ Decoding /\ kind = "inter" => ~ctxResync
  /\ needResync /\ ~failed => \A s \in Slots : refMap[s] = None
  /\ Showing /\ ~needResync => newFb \in decoded
  /\ pc = "idle" /\ ~ready /\ ~ctxResync => newFb \in decoded
  /\ img # None => img = newFb /\ img \in decoded /\ pc = "idle"

\* The inductive invariant of the calls of the decoder.
IndInv == /\ TypeOK /\ MemoryExclusive /\ Counted /\ CallState /\ LentCounted
          /\ DecodedLent /\ Resync

-----------------------------------------------------------------------------
(* What the code does not keep.                                            *)

\* What the decoder's message "Keyframe / intra-only frame required to reset
\* decoder state" promises: a key frame can always be decoded.
KeyFrameAccepted == pc = "idle" => \E b \in Bufs : refCount[b] = 0

\* What the test of the external frame buffers expects of its release callback:
\* it is called for memory the application has lent.
ReleaseWasLent ==
  [][\A b \in Bufs : released'[b] /\ ~released[b] => priv[b] # None]_vars
=============================================================================
