----------------------------- MODULE Vp8Decoder -----------------------------
(***************************************************************************)
(* The VP8 decoder as an application drives it: vp8/vp8_dx_iface.c and     *)
(* vp8/decoder/onyxd_if.c, with what vp8/decoder/decodeframe.c decides     *)
(* about references.  A frame goes through vp8_decode() in the steps       *)
(* "alloc" (new buffers for another size), "receive" (find a free buffer)  *)
(* and "decode"; a longjmp out of any of them ends the call.               *)
(*                                                                         *)
(* A picture is a number: n > 0 is what call number n decoded or was given,*)
(* -n what it left behind when it stopped half-way, 0 fresh memory.        *)
(***************************************************************************)
EXTENDS Integers, FiniteSets, Sequences

CONSTANTS Sizes,        \* frame sizes in the stream
          NoSize,       \* width and height 0
          Headers,      \* bound: reference flags of the inter frames in it
          MaxCalls,     \* bound: calls that make a picture
          MaxPartitions,\* MAX_PARTITIONS, fragments of one frame
          MayFail       \* what may run out of memory

Buffers == 0 .. 3                       \* NUM_YV12_BUFFERS
Refs    == {"lst", "gld", "alt"}
None    == -1

VARIABLES
  pc,             \* where vp8_decode() is; "idle": between two calls
  fragmented,     \* fragments.enabled
  fragments,      \* the fragments collected
  decoderInit,    \* decoder_init
  si,             \* si.w and si.h, the size last seen
  restartThreads, \* restart_threads
  bufSize,        \* the size the frame buffers are allocated for
  decodedKey,     \* decoded_key_frame
  idx,            \* lst_fb_idx, gld_fb_idx, alt_fb_idx
  new,            \* new_fb_idx
  cnt,            \* fb_idx_ref_cnt
  pic,            \* what is in the buffers
  corrupted,      \* yv12_fb[].corrupted
  frameToShow,    \* frame_to_show
  ready,          \* ready_for_new_data
  show,           \* show_frame
  res,            \* result of the last frame
  now,            \* number of this call
  lent,           \* the image the application has, and what it was
  event,          \* history: what the last step was, see Vp8Refs
  sound           \* history: pictures decoded from complete data and sound
                  \*   references, or given by the application

stream == <<fragmented, fragments, decoderInit, si, restartThreads>>
buffers == <<bufSize, idx, new, cnt, pic, corrupted>>
output == <<frameToShow, ready, show, lent>>
vars == <<pc, stream, decodedKey, buffers, output, res, now, event, sound>>

NoFlags == [last |-> FALSE, golden |-> FALSE, alt |-> FALSE,
            toGf |-> 0, toArf |-> 0]
KeyFlags == [last |-> TRUE, golden |-> TRUE, alt |-> TRUE,
             toGf |-> 0, toArf |-> 0]

\* What the headers of an inter frame can say: a reference that is refreshed
\* has no copy flag.
InterFlags ==
  {f \in [last : BOOLEAN, golden : BOOLEAN, alt : BOOLEAN,
          toGf : 0 .. 3, toArf : 0 .. 3] :
     (f.golden => f.toGf = 0) /\ (f.alt => f.toArf = 0)}

ASSUME DecoderAssumption ==
  /\ MaxCalls \in Nat /\ MaxPartitions \in Nat
  /\ NoSize \notin Sizes /\ Headers \subseteq InterFlags
  /\ MayFail \subseteq {"create", "threads", "frames", "temp"}

\* What vp8_peek_si_internal() tells apart: a key frame with its size, a key
\* frame without sync code or with a zero size, anything else.
Data == [kind : {"key"}, size : Sizes]
        \cup [kind : {"nosync", "zero", "inter"}, size : {NoSize}]

Event(op, ref, flags) == [op |-> op, pic |-> now, ref |-> ref, flags |-> flags]
NoImage == [buf |-> None, pic |-> 0]

Init ==
  /\ pc = "idle" /\ fragmented \in BOOLEAN /\ fragments = <<>>
  /\ decoderInit = FALSE /\ si = NoSize /\ restartThreads = FALSE
  /\ decodedKey = FALSE
  /\ bufSize = NoSize
  /\ idx = [r \in Refs |-> 0] /\ new = 0 /\ cnt = [b \in Buffers |-> 0]
  /\ pic = [b \in Buffers |-> 0]
  /\ corrupted = [b \in Buffers |-> FALSE]
  /\ frameToShow = None /\ ready = TRUE /\ show = FALSE /\ lent = NoImage
  /\ res = "ok" /\ now = 1
  /\ event = [op |-> "reset", pic |-> 0, ref |-> "none", flags |-> NoFlags]
  /\ sound = {}

-----------------------------------------------------------------------------
(* vp8_decode() up to the frame itself.                                    *)

\* si after vp8_peek_si_internal()
Peeked(d) == IF d.kind = "key" THEN d.size
             ELSE IF d.kind = "zero" THEN NoSize ELSE si

\* Mutant of Accepted: the test for a stream that lost its size is dropped.
AcceptedWithoutSize(d) == d.kind = "key" \/ (d.kind = "inter" /\ decoderInit)

\* res is VPX_CODEC_OK after the checks that follow: inter frames need a
\* decoder, and a key frame after a reset of the size.
Accepted(d) ==
  \/ d.kind = "key"
  \/ d.kind = "inter" /\ decoderInit /\ si # NoSize

\* The call ends with an error before anything is decoded.
Refused(newSi) ==
  /\ si' = newSi /\ res' = "error"
  /\ event' = Event("fail", "none", NoFlags) /\ now' = now + 1
  /\ UNCHANGED <<pc, fragmented, decodedKey, buffers, frameToShow, ready, show,
                 sound>>

\* The checks, the threads to be started again, the decoder to be created.
Start(fs) ==
  LET d == Head(fs).data
  IN
  /\ pc = "idle" /\ now <= MaxCalls
  /\ fragments' = fs /\ lent' = NoImage
  /\ \/ /\ ~Accepted(d)
        /\ Refused(Peeked(d)) /\ UNCHANGED <<decoderInit, restartThreads>>
     \/ /\ Accepted(d) /\ restartThreads /\ "threads" \in MayFail
        /\ Refused(Peeked(d)) /\ UNCHANGED <<decoderInit, restartThreads>>
     \/ /\ Accepted(d) /\ ~decoderInit /\ "create" \in MayFail
        /\ Refused(NoSize) /\ UNCHANGED <<decoderInit, restartThreads>>
     \/ /\ Accepted(d)
        /\ si' = Peeked(d) /\ restartThreads' = FALSE /\ decoderInit' = TRUE
        /\ pc' = IF Peeked(d) # si THEN "alloc" ELSE "receive"
        /\ UNCHANGED <<fragmented, decodedKey, buffers, frameToShow, ready,
                       show, res, now, event, sound>>

\* vp8_decode() with a whole frame
Decode(d) ==
  /\ ~fragmented
  /\ Start(<<[call |-> now, data |-> d]>>)

\* vp8_decode() with a fragment of a frame: update_fragments() only keeps it.
AddFragment(d) ==
  /\ fragmented /\ pc = "idle" /\ now <= MaxCalls
  /\ lent' = NoImage
  /\ IF Len(fragments) >= MaxPartitions
       THEN fragments' = <<>>
       ELSE fragments' = Append(fragments, [call |-> now, data |-> d])
  /\ UNCHANGED <<pc, fragmented, decoderInit, si, restartThreads, decodedKey,
                 buffers, frameToShow, ready, show, res, now, event, sound>>

\* vp8_decode(NULL, 0): the frame is complete.
Flush ==
  /\ fragmented /\ fragments # <<>>
  /\ Start(fragments)

-----------------------------------------------------------------------------
(* Another size: vp8_alloc_frame_buffers() and what follows it.            *)

FreshIdx == [r \in Refs |-> CASE r = "lst" -> 1 [] r = "gld" -> 2
                              [] r = "alt" -> 3]

Fresh ==
  /\ pic' = [b \in Buffers |-> 0] /\ corrupted' = [b \in Buffers |-> FALSE]
  /\ frameToShow' = None

AllocFrameBuffers ==
  /\ pc = "alloc"
  /\ Fresh /\ bufSize' = si
  /\ idx' = FreshIdx /\ new' = 0
  /\ cnt' = [b \in Buffers |-> IF b = 0 THEN 0 ELSE 1]
  /\ pc' = "receive" /\ event' = Event("reset", "none", NoFlags)
  /\ UNCHANGED <<stream, decodedKey, ready, show, lent, res, now, sound>>

\* Memory runs out: in vp8_alloc_frame_buffers(), which then frees everything,
\* or after it in vp8mt_alloc_temp_buffers().
AllocFails(what) ==
  /\ pc = "alloc"
  /\ Fresh /\ bufSize' = IF what = "temp" THEN si ELSE NoSize
  /\ cnt' = [b \in Buffers |-> IF what = "temp" THEN 1 ELSE 0]
  /\ \/ idx' = FreshIdx /\ new' = 0
     \/ what = "frames" /\ UNCHANGED <<idx, new>>
  /\ si' = NoSize /\ res' = "error"
  /\ pc' = "idle" /\ event' = Event("reset", "none", NoFlags) /\ now' = now + 1
  /\ UNCHANGED <<fragmented, fragments, decoderInit, restartThreads,
                 decodedKey, ready, show, lent, sound>>

-----------------------------------------------------------------------------
(* vp8dx_receive_compressed_data().                                        *)

\* Mutant of Free: a buffer with one reference is taken for a free one.
FreeOrShared(b) == cnt[b] <= 1

Free(b) == cnt[b] = 0

\* get_free_fb: the first one
IsFreeFb(b) == Free(b) /\ \A c \in Buffers : c < b => ~Free(c)

\* if (buf[i] > 0) buf[i]--
Drop(buf, i) == [buf EXCEPT ![i] = IF @ > 0 THEN @ - 1 ELSE @]

\* buf[i]++
Add(buf, i) == [buf EXCEPT ![i] = @ + 1]

\* Mutant of RefCntFb: the old buffer keeps its count.
RefCntFbKept(s, r, b) ==
  [idx |-> [s.idx EXCEPT ![r] = b], cnt |-> Add(s.cnt, b)]

\* ref_cnt_fb: reference r moves to buffer b.
RefCntFb(s, r, b) ==
  [idx |-> [s.idx EXCEPT ![r] = b], cnt |-> Add(Drop(s.cnt, s.idx[r]), b)]

\* The buffer for the new frame.
Receive ==
  /\ pc = "receive"
  /\ \E b \in Buffers : /\ IsFreeFb(b)
                        /\ new' = b /\ cnt' = [cnt EXCEPT ![b] = 1]
                        /\ corrupted' = [corrupted EXCEPT ![b] = FALSE]
  /\ pc' = "decode"
  /\ UNCHANGED <<stream, decodedKey, bufSize, idx, pic, output, res, now,
                 event, sound>>

\* Mutant of Released: an error does not give the buffer back.
ReleasedNever == cnt

\* fb_idx_ref_cnt[new_fb_idx]-- where a frame fails
Released == Drop(cnt, new)

\* copy_buffer_to_arf and copy_buffer_to_gf: from the last, from the other one,
\* or a flag without meaning.
CopiedTo(s, r, flag, other) ==
  IF flag = 0 THEN s
  ELSE RefCntFb(s, r, CASE flag = 1 -> s.idx["lst"]
                        [] flag = 2 -> s.idx[other] [] OTHER -> 0)

\* refresh_golden_frame, refresh_alt_ref_frame and refresh_last_frame
Refreshed(s, r, flag) == IF flag THEN RefCntFb(s, r, new) ELSE s

\* swap_frame_buffers: the references and counts after a frame.
SwapFrameBuffers(f) ==
  LET arf == CopiedTo([idx |-> idx, cnt |-> cnt], "alt", f.toArf, "gld")
      gf  == CopiedTo(arf, "gld", f.toGf, "alt")
      all == Refreshed(Refreshed(Refreshed(gf, "gld", f.golden), "alt", f.alt),
                       "lst", f.last)
  IN [idx |-> all.idx, cnt |-> [all.cnt EXCEPT ![new] = @ - 1]]

\* A copy flag that swap_frame_buffers() returns -1 for.
BadCopy(f) == f.toGf = 3 \/ f.toArf = 3

\* Mutant of ShownBuffer: a frame that does not refresh the last is not shown.
ShownLast(f) == SwapFrameBuffers(f).idx["lst"]

\* frame_to_show: lst_fb_idx, which then is new_fb_idx, or new_fb_idx.
ShownBuffer(f) == new

\* vp8_decode_frame() returns 0 and the references are swapped.  The frame uses
\* some of the references; it is corrupt when its data is (err) or one of them.
FrameDecoded(f, used, err, shown) ==
  LET key == Head(fragments).data.kind = "key"
      bad == err \/ \E r \in used : corrupted[idx[r]]
      after == SwapFrameBuffers(f)
  IN
  /\ pc = "decode"
  /\ IF key THEN f = KeyFlags /\ used = {} ELSE f \in Headers
  /\ decodedKey \/ (key /\ ~bad)
  /\ decodedKey' = TRUE
  /\ pic' = [pic EXCEPT ![new] = now]
  /\ corrupted' = [corrupted EXCEPT ![new] = bad]
  /\ idx' = after.idx /\ cnt' = after.cnt
  /\ frameToShow' = ShownBuffer(f) /\ show' = shown
  /\ ready' = (BadCopy(f) /\ ready)
  /\ res' = "ok" /\ fragments' = <<>>
  /\ pc' = "idle" /\ now' = now + 1
  /\ event' = Event("frame", "none", f)
  /\ sound' = IF err \/ \E r \in used : pic[idx[r]] \notin sound
                THEN sound ELSE sound \cup {now}
  /\ UNCHANGED <<fragmented, decoderInit, si, restartThreads, bufSize, new,
                 lent>>

\* vp8_decode_frame() returns -1: there never was a key frame.
NoKeyFrame(shown) ==
  /\ pc = "decode" /\ ~decodedKey /\ Head(fragments).data.kind # "key"
  /\ show' = shown
  /\ cnt' = Released
  /\ res' = "error" /\ fragments' = <<>>
  /\ pc' = "idle" /\ now' = now + 1 /\ event' = Event("fail", "none", NoFlags)
  /\ UNCHANGED <<fragmented, decoderInit, si, restartThreads, decodedKey,
                 bufSize, idx, new, pic, corrupted, frameToShow, ready, lent,
                 sound>>

\* A longjmp out of vp8_decode_frame(): in the header, before or after it set
\* show_frame, or with part of the frame decoded; or since the main one of
\* several threads met missing data or a corrupt reference (Vp8RowMt), and the
\* threads have to be started again.
FrameFails(shown, written, restart) ==
  /\ pc = "decode"
  /\ restart => written
  /\ show' = shown
  /\ pic' = IF written THEN [pic EXCEPT ![new] = -now] ELSE pic
  /\ corrupted' = [corrupted EXCEPT ![idx["lst"]] = TRUE]
  /\ cnt' = Released
  /\ IF restart THEN si' = NoSize /\ restartThreads' = TRUE
                ELSE UNCHANGED <<si, restartThreads>>
  /\ res' = "error"
  /\ pc' = "idle" /\ now' = now + 1 /\ event' = Event("fail", "none", NoFlags)
  /\ UNCHANGED <<fragmented, fragments, decoderInit, decodedKey, bufSize, idx,
                 new, frameToShow, ready, lent, sound>>

-----------------------------------------------------------------------------
(* The other calls.                                                        *)

\* vp8_get_frame, vp8dx_get_raw_frame
GetFrame ==
  /\ pc = "idle" /\ ~ready /\ show
  /\ ready' = TRUE
  /\ lent' = IF frameToShow = None THEN NoImage
             ELSE [buf |-> frameToShow, pic |-> pic[frameToShow]]
  /\ UNCHANGED <<pc, stream, decodedKey, buffers, frameToShow, show, res, now,
                 event, sound>>

\* vp8dx_set_reference, with an image of the right size: to a free buffer.
SetReference(r) ==
  /\ pc = "idle" /\ bufSize # NoSize /\ now <= MaxCalls
  /\ \E b \in Buffers :
       LET s == RefCntFb([idx |-> idx, cnt |-> cnt], r, b)
       IN /\ IsFreeFb(b)
          /\ idx' = s.idx /\ cnt' = s.cnt
          /\ pic' = [pic EXCEPT ![b] = now]
  /\ now' = now + 1 /\ event' = Event("set", r, NoFlags)
  /\ sound' = sound \cup {now}
  /\ UNCHANGED <<pc, stream, decodedKey, bufSize, new, corrupted, output, res>>

-----------------------------------------------------------------------------
DecodeFrame ==
  \/ \E f \in Headers \cup {KeyFlags}, used \in SUBSET Refs,
        err \in BOOLEAN, shown \in BOOLEAN : FrameDecoded(f, used, err, shown)
  \/ \E shown \in BOOLEAN : NoKeyFrame(shown)
  \/ \E shown \in BOOLEAN, written \in BOOLEAN, restart \in BOOLEAN :
        FrameFails(shown, written, restart)

Next == \/ \E d \in Data : Decode(d) \/ AddFragment(d)
        \/ Flush
        \/ AllocFrameBuffers
        \/ \E what \in MayFail \cap {"frames", "temp"} : AllocFails(what)
        \/ Receive \/ DecodeFrame
        \/ GetFrame
        \/ \E r \in Refs : SetReference(r)

Spec == Init /\ [][Next]_vars

-----------------------------------------------------------------------------
(* Properties.                                                             *)

Is(b, i) == IF b = i THEN 1 ELSE 0

\* Buffers exist and the counts are set up, which a failed allocation undoes.
Usable == bufSize # NoSize

\* Every buffer is counted once for each reference to it, and once more while a
\* frame is decoded into it, also after any sequence of frames that failed.
CountsExact ==
  Usable /\ pc # "alloc" =>
    \A b \in Buffers :
      cnt[b] = Is(b, idx["lst"]) + Is(b, idx["gld"]) + Is(b, idx["alt"])
               + (IF pc = "decode" THEN Is(b, new) ELSE 0)

\* The assertion in get_free_fb(): whenever a frame or the application needs a
\* buffer, one of the four is free.
FreeBufferExists ==
  pc = "receive" \/ (pc = "idle" /\ Usable) => \E b \in Buffers : Free(b)

\* The buffers a frame is decoded with have the size of its stream.
BufferSizeMatches == pc \in {"receive", "decode"} => bufSize = si

\* An image taken after a frame was decoded, and before any other call, is that
\* frame, whole, whichever references it refreshed.
ImageIsLatest == lent # NoImage /\ event.op = "frame" => lent.pic = event.pic

\* What a buffer can hold.
Pictures == -MaxCalls .. MaxCalls

\* The three references are the pictures the headers ask for: no buffer that is
\* still a reference is decoded into, given away or swapped in the wrong order.
References == INSTANCE Vp8Refs WITH
  Blank <- 0, last <- pic[idx["lst"]], golden <- pic[idx["gld"]],
  altref <- pic[idx["alt"]]

RefsSpec == References!Spec

-----------------------------------------------------------------------------
(* What the properties rest on: the inductive invariant.                   *)

Fragments == [call : Nat, data : Data]
Events == [op : {"reset", "fail", "frame", "set"}, pic : 0 .. MaxCalls,
           ref : Refs \cup {"none"}, flags : InterFlags]

TypeOK ==
  /\ pc \in {"idle", "alloc", "receive", "decode"}
  /\ fragments \in Seq(Fragments)
  /\ fragmented \in BOOLEAN /\ decoderInit \in BOOLEAN
  /\ restartThreads \in BOOLEAN /\ decodedKey \in BOOLEAN
  /\ ready \in BOOLEAN /\ show \in BOOLEAN
  /\ si \in Sizes \cup {NoSize} /\ bufSize \in Sizes \cup {NoSize}
  /\ idx \in [Refs -> Buffers] /\ new \in Buffers
  /\ cnt \in [Buffers -> Nat] /\ pic \in [Buffers -> Pictures]
  /\ corrupted \in [Buffers -> BOOLEAN]
  /\ frameToShow \in Buffers \cup {None}
  /\ lent \in [buf : Buffers \cup {None}, pic : Pictures]
  /\ res \in {"ok", "error"} /\ now \in 1 .. MaxCalls + 1
  /\ event \in Events
  /\ sound \subseteq 1 .. MaxCalls

\* What a call has settled before it goes on.
InCall ==
  pc # "idle" =>
    /\ si # NoSize /\ ~restartThreads /\ lent = NoImage /\ now <= MaxCalls

\* A size that is remembered has buffers, of that size unless the threads were
\* not started again; threads are only started again when there are buffers.
Sized ==
  /\ pc # "alloc" /\ si # NoSize =>
       Usable /\ ("threads" \in MayFail \/ bufSize = si)
  /\ restartThreads => Usable

\* The last allocation failed: no buffer is free, and only a key frame helps.
Stuck ==
  /\ "temp" \in MayFail /\ pc = "idle" /\ si = NoSize /\ ~restartThreads
  /\ \A b \in Buffers : cnt[b] = 1

Counted == CountsExact \/ Stuck

\* The frame in work is none of the references.
Apart == pc = "decode" => \A r \in Refs : idx[r] # new

\* After a frame the buffer to be shown holds it.
Showable ==
  pc = "idle" /\ event.op = "frame" =>
    frameToShow \in Buffers /\ pic[frameToShow] = event.pic

IndInv == /\ TypeOK /\ InCall /\ Sized /\ Counted /\ Apart /\ Showable
          /\ ImageIsLatest

-----------------------------------------------------------------------------
(* What is said about the decoder and does not hold.                       *)

\* vpx/vpx_decoder.h: the frames available after vpx_codec_decode() remain
\* valid until the next call to it.
ImageUntilNextDecode == lent # NoImage => pic[lent.buf] = lent.pic

\* vpx/vpx_decoder.h: VPX_CODEC_OK means the data was processed completely; a
\* copy flag that has no meaning should be an error.
OkMeansProcessed == event.op = "frame" /\ BadCopy(event.flags) => res = "error"

\* vp8/vp8_dx_iface.c: when a frame fails, only the last buffer is marked as
\* corrupted; a sound golden or alternate picture is not.
OnlyLastMarked ==
  event.op = "fail" => \A r \in {"gld", "alt"} :
    pic[idx[r]] \in sound => ~corrupted[idx[r]]

\* vp8/vp8_dx_iface.c: the fragments are reset for a new frame, so those that
\* are decoded together belong to one frame.
FragmentsOfOneFrame ==
  pc = "decode" => \A i, j \in DOMAIN fragments :
                     fragments[i].call = fragments[j].call

\* vp8/decoder/decodeframe.c: a stream must start with a complete key frame, so
\* what is reported as not corrupt comes from decoded pictures.
CleanIsSound ==
  pc = "idle" /\ event.op = "frame"
    => corrupted[frameToShow] \/ event.pic \in sound
=============================================================================
