-------------------------- MODULE Vp8DecoderProofs --------------------------
(***************************************************************************)
(* Proofs about Vp8Decoder: for any sizes, headers and number of calls,    *)
(* and whatever memory runs out, the references are the pictures the       *)
(* stream asks for; unless the last allocation fails, the counts are exact *)
(* and a buffer is free when one is needed.                                *)
(***************************************************************************)
EXTENDS Vp8Decoder, TLAPS

USE DecoderAssumption

-----------------------------------------------------------------------------
(* References and counts, as ref_cnt_fb() moves them.                      *)

RefStates == [idx : [Refs -> Buffers], cnt : [Buffers -> Nat]]

\* Every buffer is counted for the references to it and for x[b] others.
Exact(s, x) ==
  \A b \in Buffers : s.cnt[b] = Is(b, s.idx["lst"]) + Is(b, s.idx["gld"])
                                + Is(b, s.idx["alt"]) + x[b]

\* Reference r of s is moved to buffer b in t.
Moved(s, t, r, b, x) ==
  t \in RefStates /\ t.idx = [s.idx EXCEPT ![r] = b] /\ Exact(t, x)

\* ref_cnt_fb() keeps exact counts exact.
LEMMA RefCntFbExact ==
  ASSUME NEW s \in RefStates, NEW x \in [Buffers -> 0 .. 1], Exact(s, x),
         NEW r \in Refs, NEW b \in Buffers
  PROVE  Moved(s, RefCntFb(s, r, b), r, b, x)
<1> DEFINE o == s.idx[r]
           i == [s.idx EXCEPT ![r] = b]
           c == Add(Drop(s.cnt, o), b)
<1>1. RefCntFb(s, r, b) = [idx |-> i, cnt |-> c]
  BY DEF RefCntFb
<1>2. s.idx \in [Refs -> Buffers] /\ s.cnt \in [Buffers -> Nat] /\ o \in Buffers
  BY DEF RefStates
<1>3. s.cnt[o] > 0
  <2>1. s.cnt[o] = Is(o, s.idx["lst"]) + Is(o, s.idx["gld"])
                   + Is(o, s.idx["alt"]) + x[o]
    BY <1>2 DEF Exact
  <2>2. r = "lst" \/ r = "gld" \/ r = "alt"
    BY DEF Refs
  <2> QED
    BY <1>2, <2>1, <2>2 DEF Is
<1>4. Drop(s.cnt, o) = [s.cnt EXCEPT ![o] = s.cnt[o] - 1]
      /\ s.cnt[o] - 1 \in Nat
  BY <1>2, <1>3 DEF Drop
<1>5. Drop(s.cnt, o) \in [Buffers -> Nat]
  BY <1>2, <1>4
<1>6. i \in [Refs -> Buffers] /\ c \in [Buffers -> Nat]
  BY <1>2, <1>5 DEF Add
<1>7. ASSUME NEW d \in Buffers
      PROVE  c[d] = s.cnt[d] - Is(d, o) + Is(d, b)
  BY <1>2, <1>4, <1>5 DEF Is, Add
<1>8. ASSUME NEW d \in Buffers
      PROVE  Is(d, i["lst"]) + Is(d, i["gld"]) + Is(d, i["alt"])
               = Is(d, s.idx["lst"]) + Is(d, s.idx["gld"]) + Is(d, s.idx["alt"])
                 - Is(d, o) + Is(d, b)
  BY <1>2 DEF Is, Refs
<1>9. Exact([idx |-> i, cnt |-> c], x)
  <2> SUFFICES ASSUME NEW d \in Buffers
               PROVE  c[d] = Is(d, i["lst"]) + Is(d, i["gld"]) + Is(d, i["alt"])
                             + x[d]
    BY DEF Exact
  <2>1. s.cnt[d] = Is(d, s.idx["lst"]) + Is(d, s.idx["gld"])
                   + Is(d, s.idx["alt"]) + x[d]
    BY DEF Exact
  <2>2. /\ Is(d, s.idx["lst"]) \in 0 .. 1 /\ Is(d, s.idx["gld"]) \in 0 .. 1
        /\ Is(d, s.idx["alt"]) \in 0 .. 1 /\ x[d] \in 0 .. 1
        /\ Is(d, o) \in 0 .. 1 /\ Is(d, b) \in 0 .. 1
    BY DEF Is
  <2> HIDE DEF o, i, c
  <2> QED
    BY <1>7, <1>8, <2>1, <2>2
<1> QED
  BY <1>1, <1>6, <1>9 DEF RefStates, Moved

\* What a copy makes of reference r: the place of the picture it then names.
CopyIdx(flag, own, lst, other) ==
  IF flag = 0 THEN own ELSE IF flag = 1 THEN lst
  ELSE IF flag = 2 THEN other ELSE 0

LEMMA CopiedToExact ==
  ASSUME NEW s \in RefStates, NEW x \in [Buffers -> 0 .. 1], Exact(s, x),
         NEW r \in Refs, NEW other \in Refs, NEW flag \in 0 .. 3
  PROVE  Moved(s, CopiedTo(s, r, flag, other), r,
               CopyIdx(flag, s.idx[r], s.idx["lst"], s.idx[other]), x)
<1> DEFINE b == CASE flag = 1 -> s.idx["lst"]
                  [] flag = 2 -> s.idx[other] [] OTHER -> 0
<1>0. s.idx \in [Refs -> Buffers]
  BY DEF RefStates
<1>1. CASE flag = 0
  BY <1>0, <1>1 DEF CopiedTo, CopyIdx, Moved
<1>2. CASE flag # 0
  <2>1. b = CopyIdx(flag, s.idx[r], s.idx["lst"], s.idx[other])
    BY <1>2 DEF CopyIdx
  <2>2. b \in Buffers
    BY <1>0 DEF Refs, Buffers
  <2>3. CopiedTo(s, r, flag, other) = RefCntFb(s, r, b)
    BY <1>2 DEF CopiedTo
  <2> HIDE DEF b
  <2> QED
    BY <2>1, <2>2, <2>3, RefCntFbExact
<1> QED
  BY <1>1, <1>2

LEMMA RefreshedExact ==
  ASSUME NEW s \in RefStates, NEW x \in [Buffers -> 0 .. 1], Exact(s, x),
         NEW r \in Refs, NEW flag \in BOOLEAN, new \in Buffers
  PROVE  Moved(s, Refreshed(s, r, flag), r, IF flag THEN new ELSE s.idx[r], x)
<1>0. s.idx \in [Refs -> Buffers]
  BY DEF RefStates
<1>1. CASE flag
  BY <1>1, RefCntFbExact DEF Refreshed
<1>2. CASE ~flag
  BY <1>0, <1>2 DEF Refreshed, Moved
<1> QED
  BY <1>1, <1>2

\* The references after a frame, with the copies in the order of the code.
ArfIdx(f) == CopyIdx(f.toArf, idx["alt"], idx["lst"], idx["gld"])
GfIdx(f) == CopyIdx(f.toGf, idx["gld"], idx["lst"], ArfIdx(f))

\* The counts that are exact before a frame, with one for the frame in work, are
\* exact after it without.
LEMMA SwapExact ==
  ASSUME idx \in [Refs -> Buffers], cnt \in [Buffers -> Nat], new \in Buffers,
         NEW f \in InterFlags,
         Exact([idx |-> idx, cnt |-> cnt], [b \in Buffers |-> Is(b, new)])
  PROVE  /\ SwapFrameBuffers(f).idx \in [Refs -> Buffers]
         /\ SwapFrameBuffers(f).cnt \in [Buffers -> Nat]
         /\ Exact(SwapFrameBuffers(f), [b \in Buffers |-> 0])
         /\ SwapFrameBuffers(f).idx["lst"] = IF f.last THEN new ELSE idx["lst"]
         /\ SwapFrameBuffers(f).idx["gld"] = IF f.golden THEN new ELSE GfIdx(f)
         /\ SwapFrameBuffers(f).idx["alt"] = IF f.alt THEN new ELSE ArfIdx(f)
<1> DEFINE x == [b \in Buffers |-> Is(b, new)]
           s0 == [idx |-> idx, cnt |-> cnt]
           s1 == CopiedTo(s0, "alt", f.toArf, "gld")
           s2 == CopiedTo(s1, "gld", f.toGf, "alt")
           s3 == Refreshed(s2, "gld", f.golden)
           s4 == Refreshed(s3, "alt", f.alt)
           s5 == Refreshed(s4, "lst", f.last)
<1>0. SwapFrameBuffers(f)
        = [idx |-> s5.idx, cnt |-> [s5.cnt EXCEPT ![new] = @ - 1]]
  BY DEF SwapFrameBuffers
<1>1. /\ f.toArf \in 0 .. 3 /\ f.toGf \in 0 .. 3
      /\ f.golden \in BOOLEAN /\ f.alt \in BOOLEAN /\ f.last \in BOOLEAN
  BY DEF InterFlags
<1>2. "lst" \in Refs /\ "gld" \in Refs /\ "alt" \in Refs
  BY DEF Refs
<1>3. x \in [Buffers -> 0 .. 1]
  BY DEF Is
<1>4. s0 \in RefStates /\ Exact(s0, x) /\ s0.idx = idx
  BY DEF RefStates
<1> HIDE DEF x, s0
<1>5. Moved(s0, s1, "alt", CopyIdx(f.toArf, s0.idx["alt"], s0.idx["lst"],
                                   s0.idx["gld"]), x)
  BY <1>1, <1>2, <1>3, <1>4, CopiedToExact
<1>5a. s1 \in RefStates /\ Exact(s1, x)
  BY <1>5 DEF Moved
<1> HIDE DEF s1
<1>6. Moved(s1, s2, "gld", CopyIdx(f.toGf, s1.idx["gld"], s1.idx["lst"],
                                   s1.idx["alt"]), x)
  BY <1>1, <1>2, <1>3, <1>5a, CopiedToExact
<1>6a. s2 \in RefStates /\ Exact(s2, x)
  BY <1>6 DEF Moved
<1> HIDE DEF s2
<1>7. Moved(s2, s3, "gld", IF f.golden THEN new ELSE s2.idx["gld"], x)
  BY <1>1, <1>2, <1>3, <1>6a, RefreshedExact
<1>7a. s3 \in RefStates /\ Exact(s3, x)
  BY <1>7 DEF Moved
<1> HIDE DEF s3
<1>8. Moved(s3, s4, "alt", IF f.alt THEN new ELSE s3.idx["alt"], x)
  BY <1>1, <1>2, <1>3, <1>7a, RefreshedExact
<1>8a. s4 \in RefStates /\ Exact(s4, x)
  BY <1>8 DEF Moved
<1> HIDE DEF s4
<1>9. Moved(s4, s5, "lst", IF f.last THEN new ELSE s4.idx["lst"], x)
  BY <1>1, <1>2, <1>3, <1>8a, RefreshedExact
<1> HIDE DEF s5
<1>10. /\ s1.idx \in [Refs -> Buffers] /\ s2.idx \in [Refs -> Buffers]
       /\ s3.idx \in [Refs -> Buffers] /\ s4.idx \in [Refs -> Buffers]
       /\ s5.idx \in [Refs -> Buffers] /\ s5.cnt \in [Buffers -> Nat]
  BY <1>5, <1>6, <1>7, <1>8, <1>9 DEF RefStates, Moved
<1>11. s1.idx["alt"] = ArfIdx(f) /\ s1.idx["lst"] = idx["lst"]
       /\ s1.idx["gld"] = idx["gld"]
  BY <1>2, <1>4, <1>5 DEF Moved, ArfIdx
<1>12. s2.idx["gld"] = GfIdx(f) /\ s2.idx["alt"] = ArfIdx(f)
       /\ s2.idx["lst"] = idx["lst"]
  BY <1>2, <1>6, <1>10, <1>11 DEF GfIdx, Moved
<1>13. /\ s5.idx["lst"] = IF f.last THEN new ELSE idx["lst"]
       /\ s5.idx["gld"] = IF f.golden THEN new ELSE GfIdx(f)
       /\ s5.idx["alt"] = IF f.alt THEN new ELSE ArfIdx(f)
  BY <1>2, <1>7, <1>8, <1>9, <1>10, <1>12 DEF Moved
<1>14. ASSUME NEW b \in Buffers
       PROVE  s5.cnt[b] = Is(b, s5.idx["lst"]) + Is(b, s5.idx["gld"])
                          + Is(b, s5.idx["alt"]) + Is(b, new)
  BY <1>9 DEF Exact, x, Moved
<1>15. s5.cnt[new] >= 1
  BY <1>10, <1>14 DEF Is
<1>16. [s5.cnt EXCEPT ![new] = @ - 1] \in [Buffers -> Nat]
  BY <1>10, <1>15
<1>17. ASSUME NEW b \in Buffers
       PROVE  [s5.cnt EXCEPT ![new] = @ - 1][b] =
                Is(b, s5.idx["lst"]) + Is(b, s5.idx["gld"])
                + Is(b, s5.idx["alt"]) + [d \in Buffers |-> 0][b]
  BY <1>10, <1>14 DEF Is
<1> QED
  BY <1>0, <1>10, <1>13, <1>16, <1>17 DEF Exact

-----------------------------------------------------------------------------
(* The inductive invariant.                                                *)

LEMMA HeadType ==
  ASSUME NEW S, NEW s \in Seq(S), s # <<>>
  PROVE  Head(s) \in S
  OBVIOUS

LEMMA AppendType ==
  ASSUME NEW S, NEW s \in Seq(S), NEW e \in S
  PROVE  <<>> \in Seq(S) /\ Append(s, e) \in Seq(S)
  OBVIOUS

LEMMA NoImageType ==
  NoImage \in [buf : Buffers \cup {None}, pic : Pictures]
  BY DEF NoImage, Pictures

LEMMA FlagTypes == NoFlags \in InterFlags /\ KeyFlags \in InterFlags
  BY DEF NoFlags, KeyFlags, InterFlags

LEMMA EventType ==
  ASSUME NEW op \in {"reset", "fail", "frame", "set"}, now \in 1 .. MaxCalls,
         NEW ref \in Refs \cup {"none"}, NEW f \in InterFlags
  PROVE  Event(op, ref, f) \in Events
  BY DEF Event, Events

LEMMA InitInv == Init => IndInv
<1> SUFFICES ASSUME Init PROVE IndInv
  OBVIOUS
<1>1. event \in Events
  BY FlagTypes DEF Init, Events
<1>2. TypeOK
  <2>1. /\ idx \in [Refs -> Buffers] /\ new \in Buffers
        /\ cnt \in [Buffers -> Nat] /\ pic \in [Buffers -> Pictures]
        /\ corrupted \in [Buffers -> BOOLEAN]
    BY DEF Init, Buffers, Pictures
  <2>2. fragments \in Seq(Fragments) /\ now \in 1 .. MaxCalls + 1
    BY DEF Init
  <2> QED
    BY <1>1, <2>1, <2>2, NoImageType DEF Init, TypeOK
<1>3. InCall /\ Sized /\ Counted /\ Apart /\ Showable /\ ImageIsLatest
  BY DEF Init, InCall, Sized, Counted, CountsExact, Usable, Apart, Showable,
         ImageIsLatest
<1> QED
  BY <1>2, <1>3 DEF IndInv

\* What vp8_peek_si_internal() makes of the size.
LEMMA PeekedSize ==
  ASSUME TypeOK, NEW d \in Data
  PROVE  /\ Peeked(d) \in Sizes \cup {NoSize}
         /\ ~Accepted(d) => Peeked(d) = si \/ Peeked(d) = NoSize
         /\ Accepted(d) => /\ Peeked(d) # NoSize
                           /\ d.kind = "key" \/ Peeked(d) = si
  BY DEF TypeOK, Data, Peeked, Accepted

\* A call that is refused changes nothing but the size.
LEMMA RefusedInv ==
  ASSUME IndInv, pc = "idle", now <= MaxCalls, NEW n \in Sizes \cup {NoSize},
         Refused(n), UNCHANGED <<decoderInit, restartThreads>>,
         fragments' \in Seq(Fragments), lent' = NoImage,
         n = si \/ n = NoSize \/ (restartThreads /\ "threads" \in MayFail)
  PROVE  IndInv'
<1> USE DEF IndInv, Refused, buffers
<1>1. TypeOK'
  <2>0. now \in 1 .. MaxCalls
    BY DEF TypeOK
  <2>1. event' \in Events
    BY <2>0, FlagTypes, EventType
  <2> QED
    BY <2>1, NoImageType DEF TypeOK
<1>2. InCall' /\ Apart' /\ Showable' /\ ImageIsLatest'
  BY DEF InCall, Apart, Showable, ImageIsLatest, Event
<1>3. Sized'
  BY DEF Sized, Usable
<1>4. Counted'
  BY DEF Counted, Stuck, CountsExact, Usable
<1> QED
  BY <1>1, <1>2, <1>3, <1>4

\* The checks at the beginning of a frame.
LEMMA StartInv ==
  ASSUME IndInv, NEW fs \in Seq(Fragments), fs # <<>>,
         Start(fs), UNCHANGED fragmented
  PROVE  IndInv'
<1> DEFINE d == Head(fs).data
<1>0. d \in Data
  <2>1. Head(fs) \in Fragments
    BY HeadType
  <2> QED
    BY <2>1 DEF Fragments
<1>1. /\ pc = "idle" /\ now <= MaxCalls
      /\ fragments' \in Seq(Fragments) /\ lent' = NoImage
  BY DEF Start
<1>2. TypeOK
  BY DEF IndInv
<1>3. CASE /\ ~Accepted(d)
           /\ Refused(Peeked(d)) /\ UNCHANGED <<decoderInit, restartThreads>>
  BY <1>0, <1>1, <1>2, <1>3, PeekedSize, RefusedInv
<1>4. CASE /\ Accepted(d) /\ restartThreads /\ "threads" \in MayFail
           /\ Refused(Peeked(d)) /\ UNCHANGED <<decoderInit, restartThreads>>
  BY <1>0, <1>1, <1>2, <1>4, PeekedSize, RefusedInv
<1>5. CASE Refused(NoSize) /\ UNCHANGED <<decoderInit, restartThreads>>
  BY <1>1, <1>5, RefusedInv
<1>6. CASE /\ Accepted(d)
           /\ si' = Peeked(d) /\ restartThreads' = FALSE /\ decoderInit' = TRUE
           /\ pc' = IF Peeked(d) # si THEN "alloc" ELSE "receive"
           /\ UNCHANGED <<fragmented, decodedKey, buffers, frameToShow, ready,
                          show, res, now, event, sound>>
  <2>1. Peeked(d) \in Sizes /\ Peeked(d) # NoSize
    BY <1>0, <1>2, <1>6, PeekedSize
  <2> HIDE DEF d
  <2>2. pc' \in {"alloc", "receive"}
    BY <1>6
  <2>3. TypeOK'
    BY <1>1, <1>2, <1>6, <2>1, <2>2, NoImageType DEF TypeOK, buffers
  <2>4. InCall' /\ Apart' /\ Showable' /\ ImageIsLatest'
    BY <1>1, <1>6, <2>1, <2>2
       DEF InCall, Apart, Showable, ImageIsLatest, buffers
  <2>5. pc' = "receive" => si # NoSize /\ si' = si /\ Usable
    BY <1>1, <1>6, <2>1 DEF IndInv, Sized
  <2>6. Sized'
    BY <1>1, <1>6, <2>2, <2>5 DEF IndInv, Sized, Usable, buffers
  <2>7. Counted'
    BY <1>1, <1>6, <2>2, <2>5
       DEF IndInv, Counted, Stuck, CountsExact, Usable, buffers
  <2> QED
    BY <2>3, <2>4, <2>6, <2>7 DEF IndInv
<1> QED
  BY <1>3, <1>4, <1>5, <1>6 DEF Start

\* A fragment is only kept.
LEMMA AddFragmentInv ==
  ASSUME IndInv, NEW d \in Data, AddFragment(d)
  PROVE  IndInv'
<1>1. fragments' \in Seq(Fragments)
  <2>1. [call |-> now, data |-> d] \in Fragments
    BY DEF IndInv, TypeOK, Fragments
  <2>2. fragments \in Seq(Fragments)
    BY DEF IndInv, TypeOK
  <2>3. <<>> \in Seq(Fragments)
        /\ Append(fragments, [call |-> now, data |-> d]) \in Seq(Fragments)
    BY <2>1, <2>2, AppendType
  <2> QED
    BY <2>3 DEF AddFragment
<1>2. /\ lent' = NoImage /\ pc' = pc /\ pc = "idle"
      /\ UNCHANGED <<fragmented, decoderInit, si, restartThreads, decodedKey,
                     buffers, frameToShow, ready, show, res, now, event, sound>>
  BY DEF AddFragment
<1>3. TypeOK'
  BY <1>1, <1>2, NoImageType DEF IndInv, TypeOK, buffers
<1>4. InCall' /\ Sized' /\ Apart' /\ Showable' /\ ImageIsLatest'
  BY <1>2 DEF IndInv, InCall, Sized, Apart, Showable, ImageIsLatest, Usable,
              buffers
<1>5. Counted'
  BY <1>2 DEF IndInv, Counted, Stuck, CountsExact, Usable, buffers
<1> QED
  BY <1>3, <1>4, <1>5 DEF IndInv

LEMMA FreshType == FreshIdx \in [Refs -> Buffers]
  BY DEF FreshIdx, Refs, Buffers

\* New buffers: three of them are references to nothing yet.
LEMMA AllocFrameBuffersInv ==
  ASSUME IndInv, AllocFrameBuffers
  PROVE  IndInv'
<1>0. now \in 1 .. MaxCalls
  BY DEF IndInv, TypeOK, InCall, AllocFrameBuffers
<1>1. /\ pc = "alloc" /\ pc' = "receive" /\ bufSize' = si /\ si' = si
      /\ si # NoSize /\ restartThreads' = restartThreads
      /\ lent' = lent /\ now' = now /\ event'.op = "reset"
      /\ frameToShow' = None
  BY DEF IndInv, InCall, AllocFrameBuffers, stream, Event, Fresh
<1>2. TypeOK'
  <2>1. event' \in Events
    BY <1>0, FlagTypes, EventType DEF AllocFrameBuffers
  <2>2. /\ idx' \in [Refs -> Buffers] /\ new' \in Buffers
        /\ cnt' \in [Buffers -> Nat] /\ pic' \in [Buffers -> Pictures]
        /\ corrupted' \in [Buffers -> BOOLEAN]
    BY FreshType DEF AllocFrameBuffers, Fresh, Pictures, Buffers
  <2> QED
    BY <1>1, <2>1, <2>2 DEF IndInv, TypeOK, AllocFrameBuffers, stream
<1>3. InCall' /\ Sized' /\ Apart' /\ Showable' /\ ImageIsLatest'
  BY <1>1 DEF IndInv, InCall, Sized, Apart, Showable, ImageIsLatest, Usable
<1>4. Counted'
  <2>1. idx'["lst"] = 1 /\ idx'["gld"] = 2 /\ idx'["alt"] = 3
    BY DEF AllocFrameBuffers, FreshIdx, Refs
  <2>2. \A b \in Buffers : cnt'[b] = IF b = 0 THEN 0 ELSE 1
    BY DEF AllocFrameBuffers
  <2>3. CountsExact'
    BY <1>1, <2>1, <2>2 DEF CountsExact, Is, Buffers
  <2> QED
    BY <2>3 DEF Counted
<1> QED
  BY <1>2, <1>3, <1>4 DEF IndInv

\* Memory runs out: nothing is left, or no buffer is free.
LEMMA AllocFailsInv ==
  ASSUME IndInv, NEW what \in MayFail \cap {"frames", "temp"}, AllocFails(what)
  PROVE  IndInv'
<1>0. now \in 1 .. MaxCalls
  BY DEF IndInv, TypeOK, InCall, AllocFails
<1>1. /\ pc' = "idle" /\ si' = NoSize /\ ~restartThreads' /\ lent' = NoImage
      /\ now' = now + 1 /\ event'.op = "reset" /\ frameToShow' = None
      /\ restartThreads' = restartThreads
  BY DEF IndInv, InCall, AllocFails, Fresh, Event
<1>2. TypeOK'
  <2>1. event' \in Events
    BY <1>0, FlagTypes, EventType DEF AllocFails
  <2>2. /\ idx' \in [Refs -> Buffers] /\ new' \in Buffers
    BY FreshType DEF IndInv, TypeOK, AllocFails, Buffers
  <2>3. /\ cnt' \in [Buffers -> Nat] /\ pic' \in [Buffers -> Pictures]
        /\ corrupted' \in [Buffers -> BOOLEAN]
    BY DEF AllocFails, Fresh, Pictures
  <2>4. bufSize' \in Sizes \cup {NoSize} /\ now' \in 1 .. MaxCalls + 1
    BY <1>0, <1>1 DEF IndInv, TypeOK, AllocFails
  <2> QED
    BY <1>1, <2>1, <2>2, <2>3, <2>4, NoImageType DEF IndInv, TypeOK, AllocFails
<1>3. InCall' /\ Sized' /\ Apart' /\ Showable' /\ ImageIsLatest'
  BY <1>1 DEF InCall, Sized, Apart, Showable, ImageIsLatest
<1>4. Counted'
  BY <1>1 DEF AllocFails, Counted, Stuck, CountsExact, Usable
<1> QED
  BY <1>2, <1>3, <1>4 DEF IndInv

\* Exact counts leave a buffer free when no frame is in work.
LEMMA SomeFree ==
  ASSUME TypeOK, CountsExact, Usable, pc \in {"idle", "receive"}
  PROVE  \E b \in Buffers : Free(b)
<1>1. /\ idx["lst"] \in Buffers /\ idx["gld"] \in Buffers
      /\ idx["alt"] \in Buffers
  BY DEF TypeOK, Refs
<1>2. PICK b \in Buffers : b # idx["lst"] /\ b # idx["gld"] /\ b # idx["alt"]
  BY <1>1 DEF Buffers
<1>3. cnt[b] = 0
  BY <1>2 DEF CountsExact, Is
<1> QED
  BY <1>3 DEF Free

\* A free buffer is not a reference.
LEMMA FreeIsApart ==
  ASSUME TypeOK, CountsExact, Usable, pc \in {"idle", "receive"},
         NEW b \in Buffers, Free(b), NEW r \in Refs
  PROVE  idx[r] # b
<1>1. 0 = Is(b, idx["lst"]) + Is(b, idx["gld"]) + Is(b, idx["alt"])
  BY DEF CountsExact, Free, Is
<1>2. r = "lst" \/ r = "gld" \/ r = "alt"
  BY DEF Refs
<1> QED
  BY <1>1, <1>2 DEF Is

\* A buffer for the new frame.
LEMMA ReceiveInv ==
  ASSUME IndInv, Receive
  PROVE  IndInv'
<1>0. PICK b \in Buffers : /\ IsFreeFb(b)
                           /\ new' = b /\ cnt' = [cnt EXCEPT ![b] = 1]
                           /\ corrupted' = [corrupted EXCEPT ![b] = FALSE]
  BY DEF Receive
<1>1. /\ pc = "receive" /\ pc' = "decode"
      /\ UNCHANGED <<stream, decodedKey, bufSize, idx, pic, output, res, now,
                     event, sound>>
  BY DEF Receive
<1>2. TypeOK /\ Usable /\ CountsExact
  BY <1>1 DEF IndInv, InCall, Sized, Counted, Stuck
<1>3. Free(b) /\ cnt \in [Buffers -> Nat]
  BY <1>0, <1>2 DEF IsFreeFb, TypeOK
<1>4. TypeOK'
  BY <1>0, <1>1, <1>2 DEF TypeOK, stream, output
<1>5. InCall' /\ Sized' /\ Showable' /\ ImageIsLatest'
  BY <1>1 DEF IndInv, InCall, Sized, Showable, ImageIsLatest, Usable, stream,
              output
<1>6. Apart'
  BY <1>0, <1>1, <1>2, <1>3, FreeIsApart DEF Apart
<1>7. Counted'
  <2>1. ASSUME NEW d \in Buffers
        PROVE  cnt'[d] = cnt[d] + Is(d, b)
    BY <1>0, <1>3 DEF Free, Is
  <2>2. ASSUME NEW d \in Buffers
        PROVE  cnt[d] = Is(d, idx["lst"]) + Is(d, idx["gld"]) + Is(d, idx["alt"])
    BY <1>1, <1>2 DEF CountsExact, Is
  <2>3. CountsExact'
    BY <1>0, <1>1, <2>1, <2>2 DEF CountsExact, Is
  <2> QED
    BY <2>3 DEF Counted
<1> QED
  BY <1>4, <1>5, <1>6, <1>7 DEF IndInv

\* A frame that fails gives its buffer back.
LEMMA ReleasedExact ==
  ASSUME IndInv, pc = "decode"
  PROVE  /\ Released \in [Buffers -> Nat]
         /\ \A b \in Buffers : Released[b] = Is(b, idx["lst"])
                               + Is(b, idx["gld"]) + Is(b, idx["alt"])
<1>1. /\ Usable /\ CountsExact /\ new \in Buffers /\ cnt \in [Buffers -> Nat]
  BY DEF IndInv, TypeOK, InCall, Sized, Counted, Stuck
<1>2. ASSUME NEW b \in Buffers
      PROVE  cnt[b] = Is(b, idx["lst"]) + Is(b, idx["gld"])
                      + Is(b, idx["alt"]) + Is(b, new)
  BY <1>1 DEF CountsExact
<1>3. cnt[new] > 0
  BY <1>1, <1>2 DEF Is
<1>4. Released = [cnt EXCEPT ![new] = cnt[new] - 1] /\ cnt[new] - 1 \in Nat
  BY <1>1, <1>3 DEF Released, Drop
<1> QED
  BY <1>1, <1>2, <1>4 DEF Is

\* What is common to the frames that fail.
LEMMA FailedInv ==
  ASSUME IndInv, pc = "decode", pc' = "idle", now' = now + 1, cnt' = Released,
         event' = Event("fail", "none", NoFlags), show' \in BOOLEAN,
         fragments' \in Seq(Fragments),
         pic' \in [Buffers -> Pictures], corrupted' \in [Buffers -> BOOLEAN],
         res' = "error",
         UNCHANGED <<si, restartThreads>>
           \/ (si' = NoSize /\ restartThreads' = TRUE),
         UNCHANGED <<fragmented, decoderInit, decodedKey, bufSize, idx, new,
                     frameToShow, ready, lent, sound>>
  PROVE  IndInv'
<1>0. now \in 1 .. MaxCalls /\ Usable
  BY DEF IndInv, TypeOK, InCall, Sized
<1>1. TypeOK'
  <2>1. event' \in Events
    BY <1>0, FlagTypes, EventType
  <2>2. cnt' \in [Buffers -> Nat] /\ now' \in 1 .. MaxCalls + 1
    BY <1>0, ReleasedExact
  <2>3. si' \in Sizes \cup {NoSize} /\ restartThreads' \in BOOLEAN
    BY DEF IndInv, TypeOK
  <2> QED
    BY <2>1, <2>2, <2>3 DEF IndInv, TypeOK
<1>2. InCall' /\ Sized' /\ Apart' /\ Showable' /\ ImageIsLatest'
  BY <1>0 DEF IndInv, InCall, Sized, Apart, Showable, ImageIsLatest, Usable,
              Event
<1>3. Counted'
  BY ReleasedExact DEF Counted, CountsExact, Is
<1> QED
  BY <1>1, <1>2, <1>3 DEF IndInv

LEMMA NoKeyFrameInv ==
  ASSUME IndInv, NEW shown \in BOOLEAN, NoKeyFrame(shown)
  PROVE  IndInv'
<1>1. /\ pic \in [Buffers -> Pictures] /\ corrupted \in [Buffers -> BOOLEAN]
      /\ <<>> \in Seq(Fragments)
  BY DEF IndInv, TypeOK
<1> QED
  BY <1>1, FailedInv DEF NoKeyFrame

LEMMA FrameFailsInv ==
  ASSUME IndInv, NEW shown \in BOOLEAN, NEW written \in BOOLEAN,
         NEW restart \in BOOLEAN, FrameFails(shown, written, restart)
  PROVE  IndInv'
<1>1. pc = "decode" /\ now \in 1 .. MaxCalls /\ new \in Buffers
      /\ pic \in [Buffers -> Pictures] /\ fragments \in Seq(Fragments)
  BY DEF IndInv, TypeOK, InCall, FrameFails
<1>2. -now \in Pictures
  BY <1>1 DEF Pictures
<1>3. pic' \in [Buffers -> Pictures]
  BY <1>1, <1>2 DEF FrameFails
<1>4. corrupted' \in [Buffers -> BOOLEAN]
  BY DEF IndInv, TypeOK, FrameFails
<1>5. UNCHANGED <<si, restartThreads>> \/ (si' = NoSize /\ restartThreads' = TRUE)
  BY DEF FrameFails
<1> QED
  BY <1>1, <1>3, <1>4, <1>5, FailedInv DEF FrameFails

\* The references move, and the frame is counted only for them.
LEMMA FrameDecodedInv ==
  ASSUME IndInv, NEW f \in Headers \cup {KeyFlags}, NEW used \in SUBSET Refs,
         NEW err \in BOOLEAN, NEW shown \in BOOLEAN,
         FrameDecoded(f, used, err, shown)
  PROVE  IndInv'
<1>0. f \in InterFlags
  BY FlagTypes
<1>1. /\ pc = "decode" /\ pc' = "idle" /\ now' = now + 1
      /\ idx' = SwapFrameBuffers(f).idx /\ cnt' = SwapFrameBuffers(f).cnt
      /\ pic' = [pic EXCEPT ![new] = now] /\ frameToShow' = new
      /\ event' = Event("frame", "none", f) /\ lent' = lent
      /\ UNCHANGED <<fragmented, decoderInit, si, restartThreads, bufSize, new,
                     lent>>
  BY DEF FrameDecoded, ShownBuffer
<1>2. /\ TypeOK /\ Usable /\ CountsExact /\ now \in 1 .. MaxCalls
      /\ lent = NoImage /\ new \in Buffers
  BY <1>1 DEF IndInv, TypeOK, InCall, Sized, Counted, Stuck
<1>3. Exact([idx |-> idx, cnt |-> cnt], [b \in Buffers |-> Is(b, new)])
  BY <1>1, <1>2 DEF CountsExact, Exact
<1>4. /\ idx' \in [Refs -> Buffers] /\ cnt' \in [Buffers -> Nat]
      /\ Exact(SwapFrameBuffers(f), [b \in Buffers |-> 0])
  BY <1>0, <1>1, <1>2, <1>3, SwapExact DEF TypeOK
<1>5. TypeOK'
  <2>1. event' \in Events
    BY <1>0, <1>1, <1>2, EventType
  <2>2. now \in Pictures /\ pic' \in [Buffers -> Pictures]
    BY <1>1, <1>2 DEF TypeOK, Pictures
  <2>3. /\ sound' \subseteq 1 .. MaxCalls /\ now' \in 1 .. MaxCalls + 1
        /\ fragments' \in Seq(Fragments)
    BY <1>1, <1>2 DEF FrameDecoded, TypeOK
  <2>4. corrupted' \in [Buffers -> BOOLEAN] /\ ready' \in BOOLEAN
        /\ show' \in BOOLEAN /\ decodedKey' \in BOOLEAN /\ res' = "ok"
    BY <1>2 DEF FrameDecoded, TypeOK
  <2> QED
    BY <1>1, <1>2, <1>4, <2>1, <2>2, <2>3, <2>4 DEF TypeOK
<1>6. InCall' /\ Sized' /\ Apart'
  BY <1>1 DEF IndInv, InCall, Sized, Apart, Usable
<1>7. Showable' /\ ImageIsLatest'
  BY <1>1, <1>2 DEF TypeOK, Showable, ImageIsLatest, Event
<1>8. Counted'
  <2>1. CountsExact'
    BY <1>1, <1>4 DEF Exact, CountsExact
  <2> QED
    BY <2>1 DEF Counted
<1> QED
  BY <1>5, <1>6, <1>7, <1>8 DEF IndInv

\* The application takes an image: only what it has changes.
LEMMA GetFrameInv ==
  ASSUME IndInv, GetFrame
  PROVE  IndInv'
<1>1. /\ pc = "idle" /\ ready' = TRUE
      /\ UNCHANGED <<pc, stream, decodedKey, buffers, frameToShow, show, res,
                     now, event, sound>>
  BY DEF GetFrame
<1>2. lent' \in [buf : Buffers \cup {None}, pic : Pictures]
  <2>1. CASE frameToShow = None
    BY <2>1, NoImageType DEF GetFrame
  <2>2. CASE frameToShow # None
    BY <2>2 DEF GetFrame, IndInv, TypeOK
  <2> QED
    BY <2>1, <2>2
<1>3. TypeOK'
  BY <1>1, <1>2 DEF IndInv, TypeOK, stream, buffers
<1>4. InCall' /\ Sized' /\ Apart' /\ Showable'
  BY <1>1 DEF IndInv, InCall, Sized, Apart, Showable, Usable, stream, buffers
<1>5. ImageIsLatest'
  BY <1>1 DEF IndInv, TypeOK, Showable, GetFrame, ImageIsLatest
<1>6. Counted'
  BY <1>1 DEF IndInv, Counted, Stuck, CountsExact, Usable, stream, buffers
<1> QED
  BY <1>3, <1>4, <1>5, <1>6 DEF IndInv

\* The application gives a reference: a free buffer takes its place.
LEMMA SetReferenceInv ==
  ASSUME IndInv, NEW r \in Refs, SetReference(r)
  PROVE  IndInv'
<1>0. PICK b \in Buffers :
        LET s == RefCntFb([idx |-> idx, cnt |-> cnt], r, b)
        IN  /\ IsFreeFb(b)
            /\ idx' = s.idx /\ cnt' = s.cnt
            /\ pic' = [pic EXCEPT ![b] = now]
  BY DEF SetReference
<1>1. /\ pc = "idle" /\ Usable /\ now <= MaxCalls /\ now' = now + 1
      /\ event' = Event("set", r, NoFlags) /\ sound' = sound \cup {now}
      /\ UNCHANGED <<pc, stream, decodedKey, bufSize, new, corrupted, output,
                     res>>
  BY DEF SetReference, Usable
<1>2. TypeOK /\ cnt[b] = 0 /\ now \in 1 .. MaxCalls
  BY <1>0, <1>1 DEF IndInv, TypeOK, IsFreeFb, Free
<1>3. CountsExact
  BY <1>2 DEF IndInv, Counted, Stuck
<1>4. /\ [idx |-> idx, cnt |-> cnt] \in RefStates
      /\ Exact([idx |-> idx, cnt |-> cnt], [d \in Buffers |-> 0])
      /\ [d \in Buffers |-> 0] \in [Buffers -> 0 .. 1]
  BY <1>1, <1>2, <1>3 DEF TypeOK, RefStates, CountsExact, Exact
<1>5. /\ idx' \in [Refs -> Buffers] /\ cnt' \in [Buffers -> Nat]
      /\ Exact([idx |-> idx', cnt |-> cnt'], [d \in Buffers |-> 0])
  <2> DEFINE t == RefCntFb([idx |-> idx, cnt |-> cnt], r, b)
  <2>1. Moved([idx |-> idx, cnt |-> cnt], t, r, b, [d \in Buffers |-> 0])
    BY <1>4, RefCntFbExact
  <2>2. idx' = t.idx /\ cnt' = t.cnt
    BY <1>0
  <2> HIDE DEF t
  <2> QED
    BY <2>1, <2>2 DEF Moved, RefStates, Exact
<1>6. TypeOK'
  <2>1. event' \in Events
    BY <1>1, <1>2, FlagTypes, EventType
  <2>2. /\ pic' \in [Buffers -> Pictures] /\ sound' \subseteq 1 .. MaxCalls
        /\ now' \in 1 .. MaxCalls + 1
    BY <1>0, <1>1, <1>2 DEF TypeOK, Pictures
  <2> QED
    BY <1>1, <1>2, <1>5, <2>1, <2>2 DEF TypeOK, stream, output
<1>7. InCall' /\ Sized' /\ Apart' /\ Showable' /\ ImageIsLatest'
  BY <1>1 DEF IndInv, InCall, Sized, Apart, Showable, ImageIsLatest, Usable,
              stream, output, Event
<1>8. Counted'
  <2>1. CountsExact'
    BY <1>1, <1>5 DEF Exact, CountsExact
  <2> QED
    BY <2>1 DEF Counted
<1> QED
  BY <1>6, <1>7, <1>8 DEF IndInv

LEMMA NextInv == IndInv /\ [Next]_vars => IndInv'
<1> SUFFICES ASSUME IndInv, [Next]_vars PROVE IndInv'
  OBVIOUS
<1>1. ASSUME NEW d \in Data, Decode(d) PROVE IndInv'
  <2> DEFINE fs == <<[call |-> now, data |-> d]>>
  <2>1. [call |-> now, data |-> d] \in Fragments
    BY DEF IndInv, TypeOK, Fragments
  <2>2. fs \in Seq(Fragments) /\ fs # <<>>
    BY <2>1
  <2>3. Start(fs) /\ UNCHANGED fragmented
    BY <1>1 DEF Decode, Start, Refused
  <2> HIDE DEF fs
  <2> QED
    BY <2>2, <2>3, StartInv
<1>2. ASSUME Flush PROVE IndInv'
  <2>1. fragments \in Seq(Fragments) /\ fragments # <<>>
    BY <1>2 DEF IndInv, TypeOK, Flush
  <2>2. Start(fragments) /\ UNCHANGED fragmented
    BY <1>2 DEF Flush, Start, Refused
  <2> QED
    BY <2>1, <2>2, StartInv
<1>3. ASSUME DecodeFrame PROVE IndInv'
  BY <1>3, FrameDecodedInv, NoKeyFrameInv, FrameFailsInv DEF DecodeFrame
<1>4. ASSUME UNCHANGED vars PROVE IndInv'
  <2>1. /\ TypeOK' /\ InCall' /\ Sized' /\ Apart' /\ Showable'
        /\ ImageIsLatest'
    BY <1>4 DEF IndInv, vars, TypeOK, InCall, Sized, Usable, Apart, Showable,
                ImageIsLatest, stream, buffers, output
  <2>2. Counted'
    BY <1>4 DEF IndInv, vars, Counted, Stuck, CountsExact, Usable, stream,
                buffers
  <2> QED
    BY <2>1, <2>2 DEF IndInv
<1> QED
  BY <1>1, <1>2, <1>3, <1>4, AddFragmentInv, AllocFrameBuffersInv,
     AllocFailsInv, ReceiveInv, GetFrameInv, SetReferenceInv DEF Next

\* The inductive invariant of the decoder's buffers, through every error and
\* whatever runs out of memory.
THEOREM Invariance == Spec => []IndInv
<1>1. Init => IndInv
  BY InitInv
<1>2. IndInv /\ [Next]_vars => IndInv'
  BY NextInv
<1> QED
  BY <1>1, <1>2, PTL DEF Spec

-----------------------------------------------------------------------------
(* The properties.                                                         *)

\* fb_idx_ref_cnt counts exactly the references and the frame in work, after
\* any frames, copies, errors and new sizes, as long as what is allocated after
\* the frame buffers can be (onyxd_if.c, vp8_dx_iface.c).
THEOREM CountsStayExact ==
  ASSUME "temp" \notin MayFail
  PROVE  Spec => []CountsExact
<1>1. IndInv => CountsExact
  BY DEF IndInv, Counted, Stuck
<1> QED
  BY <1>1, Invariance, PTL

\* get_free_fb() always finds a buffer, under the same assumption.
THEOREM FreeBuffer ==
  ASSUME "temp" \notin MayFail
  PROVE  Spec => []FreeBufferExists
<1>1. IndInv => FreeBufferExists
  <2> SUFFICES ASSUME IndInv, pc = "receive" \/ (pc = "idle" /\ Usable)
               PROVE  \E b \in Buffers : Free(b)
    BY DEF FreeBufferExists
  <2>1. TypeOK /\ CountsExact /\ Usable
    BY DEF IndInv, InCall, Sized, Counted, Stuck
  <2> QED
    BY <2>1, SomeFree
<1> QED
  BY <1>1, Invariance, PTL

\* A frame is decoded into buffers of its own size, as long as the threads can
\* be started again.
THEOREM RightSize ==
  ASSUME "threads" \notin MayFail
  PROVE  Spec => []BufferSizeMatches
<1>1. IndInv => BufferSizeMatches
  BY DEF IndInv, InCall, Sized, BufferSizeMatches
<1> QED
  BY <1>1, Invariance, PTL

\* The image vp8_get_frame() hands out after a frame is that frame.
THEOREM LatestImage == Spec => []ImageIsLatest
<1>1. IndInv => ImageIsLatest
  BY DEF IndInv
<1> QED
  BY <1>1, Invariance, PTL

-----------------------------------------------------------------------------
(* The refinement of Vp8Refs.                                              *)

RefStep == [References!Next]_<<event, References!refs>>

\* A step that leaves references and their pictures alone.
LEMMA SameRefs ==
  ASSUME UNCHANGED <<idx, pic>>,
         UNCHANGED event \/ event' = Event("fail", "none", NoFlags)
  PROVE  RefStep
<1>1. UNCHANGED References!refs
  BY DEF References!refs
<1>2. CASE UNCHANGED event
  BY <1>1, <1>2 DEF RefStep
<1>3. CASE event' = Event("fail", "none", NoFlags)
  <2>1. event'.op = "fail"
    BY <1>3 DEF Event
  <2> QED
    BY <1>1, <2>1 DEF RefStep, References!Next
<1> QED
  BY <1>2, <1>3

\* Fresh memory: the references are blank.
LEMMA FreshRefs ==
  ASSUME idx' \in [Refs -> Buffers], pic' = [b \in Buffers |-> 0],
         event' = Event("reset", "none", NoFlags)
  PROVE  RefStep
<1>1. /\ idx'["lst"] \in Buffers /\ idx'["gld"] \in Buffers
      /\ idx'["alt"] \in Buffers
  BY DEF Refs
<1>2. References!Reset
  BY <1>1 DEF References!Reset
<1>3. event'.op = "reset"
  BY DEF Event
<1> QED
  BY <1>2, <1>3 DEF RefStep, References!Next

\* A frame that fails leaves the references alone: what it wrote is in a buffer
\* that is none of them.
LEMMA FailedRefs ==
  ASSUME IndInv, pc = "decode", idx' = idx,
         NEW n, pic' = pic \/ pic' = [pic EXCEPT ![new] = n],
         event' = Event("fail", "none", NoFlags)
  PROVE  RefStep
<1>1. /\ idx \in [Refs -> Buffers] /\ pic \in [Buffers -> Pictures]
      /\ \A r \in Refs : idx[r] # new
  BY DEF IndInv, TypeOK, Apart
<1>2. \A r \in Refs : pic'[idx'[r]] = pic[idx[r]]
  BY <1>1
<1>3. UNCHANGED References!refs
  BY <1>2 DEF References!refs, Refs
<1>4. event'.op = "fail"
  BY DEF Event
<1> QED
  BY <1>3, <1>4 DEF RefStep, References!Next

\* The copies and refreshes of a frame, on the pictures.
LEMMA FrameDecodedRefs ==
  ASSUME IndInv, NEW f \in Headers \cup {KeyFlags}, NEW used \in SUBSET Refs,
         NEW err \in BOOLEAN, NEW shown \in BOOLEAN,
         FrameDecoded(f, used, err, shown)
  PROVE  RefStep
<1>0. f \in InterFlags
  BY FlagTypes
<1>1. /\ pc = "decode" /\ idx' = SwapFrameBuffers(f).idx
      /\ pic' = [pic EXCEPT ![new] = now] /\ event' = Event("frame", "none", f)
  BY DEF FrameDecoded
<1>2. /\ TypeOK /\ Usable /\ CountsExact /\ new \in Buffers
      /\ now \in 1 .. MaxCalls /\ \A r \in Refs : idx[r] # new
  BY <1>1 DEF IndInv, TypeOK, InCall, Sized, Counted, Stuck, Apart
<1>3. Exact([idx |-> idx, cnt |-> cnt], [b \in Buffers |-> Is(b, new)])
  BY <1>1, <1>2 DEF CountsExact, Exact
<1>4. /\ idx'["lst"] = IF f.last THEN new ELSE idx["lst"]
      /\ idx'["gld"] = IF f.golden THEN new ELSE GfIdx(f)
      /\ idx'["alt"] = IF f.alt THEN new ELSE ArfIdx(f)
  BY <1>0, <1>1, <1>2, <1>3, SwapExact DEF TypeOK
<1>5. event'.op = "frame" /\ event'.pic = now /\ event'.flags = f
  BY <1>1 DEF Event
<1> DEFINE L == pic[idx["lst"]]
           G == pic[idx["gld"]]
           A == pic[idx["alt"]]
           other == pic'[0]
           Copied(flag, own, fromOther) ==
             IF flag = 0 THEN own ELSE IF flag = 1 THEN L
             ELSE IF flag = 2 THEN fromOther ELSE other
           arf == Copied(f.toArf, A, G)
           gf  == Copied(f.toGf, G, arf)
<1>6. /\ pic'[idx["lst"]] = L /\ pic'[idx["gld"]] = G /\ pic'[idx["alt"]] = A
      /\ pic'[new] = now
  BY <1>1, <1>2 DEF TypeOK, Refs
<1>7. other \in Pictures
  BY <1>1, <1>2 DEF TypeOK, Pictures, Buffers
<1>8. pic'[ArfIdx(f)] = arf
  BY <1>6 DEF ArfIdx, CopyIdx
<1>9. pic'[GfIdx(f)] = gf
  BY <1>6, <1>8 DEF GfIdx, CopyIdx
<1>10. /\ pic'[idx'["lst"]] = IF f.last THEN now ELSE L
       /\ pic'[idx'["gld"]] = IF f.golden THEN now ELSE gf
       /\ pic'[idx'["alt"]] = IF f.alt THEN now ELSE arf
  BY <1>4, <1>6, <1>8, <1>9
<1>11. References!Frame(now, f)
  BY <1>7, <1>10 DEF References!Frame
<1> QED
  BY <1>5, <1>11 DEF RefStep, References!Next

\* VP8_SET_REFERENCE replaces one picture.
LEMMA SetReferenceRefs ==
  ASSUME IndInv, NEW r \in Refs, SetReference(r)
  PROVE  RefStep
<1>0. PICK b \in Buffers :
        LET s == RefCntFb([idx |-> idx, cnt |-> cnt], r, b)
        IN  /\ IsFreeFb(b)
            /\ idx' = s.idx /\ cnt' = s.cnt
            /\ pic' = [pic EXCEPT ![b] = now]
  BY DEF SetReference
<1>1. pc = "idle" /\ Usable /\ event' = Event("set", r, NoFlags)
  BY DEF SetReference, Usable
<1>2. TypeOK /\ Free(b) /\ cnt[b] = 0
  BY <1>0 DEF IndInv, IsFreeFb, Free
<1>3. CountsExact
  BY <1>2 DEF IndInv, Counted, Stuck
<1>4. \A q \in Refs : idx[q] # b
  BY <1>1, <1>2, <1>3, FreeIsApart
<1>5. idx' = [idx EXCEPT ![r] = b]
  BY <1>0 DEF RefCntFb
<1>6. ASSUME NEW q \in Refs
      PROVE  pic'[idx'[q]] = IF q = r THEN now ELSE pic[idx[q]]
  BY <1>0, <1>2, <1>4, <1>5 DEF TypeOK
<1>7. event'.op = "set" /\ event'.pic = now /\ event'.ref = r
  BY <1>1 DEF Event
<1>8. References!SetReference(now, r)
  BY <1>6 DEF References!SetReference, Refs
<1> QED
  BY <1>7, <1>8 DEF RefStep, References!Next

\* Every step of the decoder is one of the references, or none.
LEMMA NextRefs == IndInv /\ IndInv' /\ [Next]_vars => RefStep
<1> SUFFICES ASSUME IndInv, IndInv', [Next]_vars PROVE RefStep
  OBVIOUS
<1>1. ASSUME NEW fs, Start(fs) PROVE RefStep
  BY <1>1, SameRefs DEF Start, Refused, buffers
<1>2. ASSUME NEW d \in Data, Decode(d) PROVE RefStep
  BY <1>1, <1>2 DEF Decode
<1>3. ASSUME NEW d \in Data, AddFragment(d) PROVE RefStep
  BY <1>3, SameRefs DEF AddFragment, buffers
<1>4. ASSUME Flush PROVE RefStep
  BY <1>1, <1>4 DEF Flush
<1>5. ASSUME AllocFrameBuffers PROVE RefStep
  BY <1>5, FreshRefs DEF AllocFrameBuffers, Fresh, IndInv, TypeOK
<1>6. ASSUME NEW what \in MayFail \cap {"frames", "temp"}, AllocFails(what)
      PROVE  RefStep
  BY <1>6, FreshRefs DEF AllocFails, Fresh, IndInv, TypeOK
<1>7. ASSUME Receive PROVE RefStep
  BY <1>7, SameRefs DEF Receive
<1>8. ASSUME NEW shown \in BOOLEAN, NoKeyFrame(shown) PROVE RefStep
  BY <1>8, FailedRefs DEF NoKeyFrame
<1>9. ASSUME NEW shown \in BOOLEAN, NEW written \in BOOLEAN,
             NEW restart \in BOOLEAN, FrameFails(shown, written, restart)
      PROVE  RefStep
  BY <1>9, FailedRefs DEF FrameFails
<1>10. ASSUME DecodeFrame PROVE RefStep
  BY <1>8, <1>9, <1>10, FrameDecodedRefs DEF DecodeFrame
<1>11. ASSUME GetFrame PROVE RefStep
  BY <1>11, SameRefs DEF GetFrame, buffers
<1>12. ASSUME UNCHANGED vars PROVE RefStep
  BY <1>12, SameRefs DEF vars, buffers
<1> QED
  BY <1>2, <1>3, <1>4, <1>5, <1>6, <1>7, <1>10, <1>11, <1>12,
     SetReferenceRefs DEF Next

\* The buffers implement the references of the stream: through copies, refreshes
\* in the order of swap_frame_buffers(), errors, new sizes and references set by
\* the application, and whatever runs out of memory.
THEOREM Refinement == Spec => RefsSpec
<1>1. Init => References!Init
  BY DEF Init, References!Init, Refs, Buffers
<1>2. IndInv /\ IndInv' /\ [Next]_vars
        => [References!Next]_<<event, References!refs>>
  BY NextRefs DEF RefStep
<1> QED
  BY <1>1, <1>2, Invariance, PTL DEF Spec, RefsSpec, References!Spec
=============================================================================
