--------------------------- MODULE Vp9BufferProofs ---------------------------
(***************************************************************************)
(* Proofs about the two sets of frame buffers of VP9: the decoder's pool   *)
(* with its reference slots (Vp9RefBuffers), for every number of slots and *)
(* buffers, and the encoder's ring of source frames (Vp9Lookahead), for    *)
(* every depth of the queue and every number of layers.                    *)
(***************************************************************************)
EXTENDS Vp9RefBuffers, Vp9Lookahead, Sequences, FiniteSetTheorems, TLAPS

-----------------------------------------------------------------------------
(* Slots, buffers and how many slots name a buffer.                        *)

\* Buffers are integers and None is not one of them.
LEMMA BufFacts ==
  /\ None \notin Bufs /\ None \notin Mems
  /\ \A b \in Bufs : b \in Int
  /\ Bufs # {} /\ Slots # {}
<1>1. None \notin Bufs /\ None \notin Mems /\ \A b \in Bufs : b \in Int
  BY PoolAssumption DEF None, Bufs
<1>2. 0 \in Bufs /\ 0 \in Slots
  BY PoolAssumption DEF Bufs, Slots
<1>3. QED  BY <1>1, <1>2

\* The slots are a finite set.
LEMMA SlotsFinite == IsFiniteSet(Slots) /\ Cardinality(Slots) = RefFrames
<1>1. RefFrames - 1 \in Int /\ 0 \in Int /\ RefFrames \in Nat /\ RefFrames > 0
  BY PoolAssumption
<1>2. QED  BY <1>1, FS_Interval DEF Slots

\* The buffers are a finite set, larger than that of the slots.
LEMMA BufsFinite == IsFiniteSet(Bufs) /\ Cardinality(Bufs) = FrameBuffers
<1>1. FrameBuffers - 1 \in Int /\ 0 \in Int /\ FrameBuffers \in Nat
      /\ FrameBuffers > 0
  BY PoolAssumption
<1>2. QED  BY <1>1, FS_Interval DEF Bufs

\* Every set of slots has a cardinality, which is zero only for the empty set.
LEMMA SlotSets ==
  ASSUME NEW S \in SUBSET Slots
  PROVE  IsFiniteSet(S) /\ Cardinality(S) \in Nat
         /\ (Cardinality(S) = 0 <=> S = {})
<1>1. IsFiniteSet(S)  BY SlotsFinite, FS_Subset
<1>2. QED  BY <1>1, FS_CardinalityType, FS_EmptySet

\* The number of slots that name b.
LEMMA SlotRefsFacts ==
  ASSUME NEW b
  PROVE  /\ SlotRefs(b) \in Nat
         /\ SlotRefs(b) = 0 <=> \A s \in Slots : refMap[s] # b
<1>1. SlotsOf(b) \in SUBSET Slots  BY DEF SlotsOf
<1>2. SlotRefs(b) \in Nat /\ (SlotRefs(b) = 0 <=> SlotsOf(b) = {})
  BY <1>1, SlotSets DEF SlotRefs
<1>3. SlotsOf(b) = {} <=> \A s \in Slots : refMap[s] # b  BY DEF SlotsOf
<1>4. QED  BY <1>2, <1>3

\* A set of slots splits into those that are refreshed and the others.
LEMMA RefreshSplit ==
  ASSUME NEW S \in SUBSET Slots, refresh \subseteq Slots
  PROVE  /\ Cardinality(S \cap refresh) \in Nat
         /\ Cardinality(S \ refresh) \in Nat
         /\ Cardinality(S) = Cardinality(S \cap refresh)
                             + Cardinality(S \ refresh)
<1>1. IsFiniteSet(S \cap refresh) /\ IsFiniteSet(S \ refresh)
      /\ Cardinality(S \cap refresh) \in Nat
      /\ Cardinality(S \ refresh) \in Nat
  BY SlotSets
<1>2. (S \cap refresh) \cup (S \ refresh) = S
      /\ (S \cap refresh) \cap (S \ refresh) = {}
  OBVIOUS
<1>3. Cardinality((S \cap refresh) \cup (S \ refresh))
        = Cardinality(S \cap refresh) + Cardinality(S \ refresh)
          - Cardinality((S \cap refresh) \cap (S \ refresh))
  BY <1>1, FS_Union
<1>4. Cardinality((S \cap refresh) \cap (S \ refresh)) = 0
  BY <1>2, FS_EmptySet
<1>5. Cardinality((S \cap refresh) \cup (S \ refresh)) = Cardinality(S)
  BY <1>2
<1>6. QED  BY <1>1, <1>3, <1>4, <1>5

\* The number of references of the slots does not change while the map does not.
LEMMA SameMap ==
  ASSUME refMap' = refMap, NEW b
  PROVE  SlotsOf(b)' = SlotsOf(b) /\ SlotRefs(b)' = SlotRefs(b)
BY DEF SlotsOf, SlotRefs

-----------------------------------------------------------------------------
(* The inductive invariant.                                                *)

\* It holds of a new decoder.
LEMMA InitIndInv == Init => IndInv
<1> SUFFICES ASSUME Init PROVE IndInv
  OBVIOUS
<1>1. \A b \in Bufs : SlotRefs(b) = 0
  <2>1. \A b \in Bufs, s \in Slots : refMap[s] # b
    BY BufFacts DEF Init
  <2>2. QED  BY <2>1, SlotRefsFacts
<1>2. TypeOK  BY DEF Init, TypeOK, AllKinds
<1>3. \A b \in Bufs : ~Lent(b)  BY DEF Init, Lent
<1>4. MemoryExclusive  BY <1>3 DEF Init, MemoryExclusive
<1>5. Counted
  BY <1>1 DEF Init, Counted, CallRefs, Holding, Claiming, Showing
<1>6. CallState /\ LentCounted /\ DecodedLent /\ Resync
  BY <1>3 DEF Init, CallState, LentCounted, DecodedLent, Resync, Holding,
     Decoding, Showing
<1>7. QED  BY <1>2, <1>4, <1>5, <1>6 DEF IndInv

\* A longjmp to the error path: nothing but the program counter changes.
LEMMA LongjmpIndInv ==
  ASSUME IndInv, HeaderError \/ HeaderTruncated \/ DecodeError
  PROVE  IndInv'
<1> USE DEF HeaderError, HeaderTruncated, DecodeError, poolVars, mapVars,
        frameVars, syncVars
<1>1. pc' = "error" /\ pc \in {"header", "refs", "tiles"}
      /\ newFb' = newFb /\ decoded' = decoded /\ refCount' = refCount
      /\ UNCHANGED <<poolVars, mapVars, frameVars, syncVars, ready, img>>
  OBVIOUS
<1>2. TypeOK'  BY <1>1 DEF IndInv, TypeOK
<1>3. \A b : Lent(b)' = Lent(b)  BY <1>1 DEF Lent
<1>4. MemoryExclusive'  BY <1>1, <1>3 DEF IndInv, MemoryExclusive
<1>5. Counted'  BY <1>1 DEF Counted
<1>6. CallState' /\ LentCounted' /\ DecodedLent' /\ Resync'
  BY <1>1, <1>3 DEF IndInv, CallState, LentCounted, DecodedLent, Resync,
     Holding, Decoding, Showing
<1>7. QED  BY <1>2, <1>4, <1>5, <1>6 DEF IndInv

\* Releasing buffers that were not released keeps the memory exclusive.
LEMMA ReleaseKeeps ==
  ASSUME TypeOK, MemoryExclusive, NEW R \in SUBSET Bufs, ReleaseOf(R),
         \A b \in R : ~released[b], priv' = priv
  PROVE  /\ released' \in [Bufs -> BOOLEAN] /\ inUse' \in [Mems -> BOOLEAN]
         /\ decoded' \subseteq Bufs
         /\ \A b \in Bufs : Lent(b)' <=> Lent(b) /\ b \notin R
         /\ MemoryExclusive'
<1>1. released' \in [Bufs -> BOOLEAN] /\ inUse' \in [Mems -> BOOLEAN]
      /\ decoded' \subseteq Bufs
  BY DEF TypeOK, ReleaseOf
<1>2. \A b \in Bufs : Lent(b)' <=> Lent(b) /\ b \notin R
  BY DEF ReleaseOf, Lent
<1>3. \A b, c \in Bufs :
        Lent(b)' /\ Lent(c)' /\ priv'[b] = priv'[c] => b = c
  BY <1>2 DEF MemoryExclusive
<1>4. ASSUME NEW m \in Mems
      PROVE  inUse'[m] <=> \E b \in Bufs : Lent(b)' /\ priv'[b] = m
  <2>1. inUse'[m] <=> inUse[m] /\ ~ \E b \in R : priv[b] = m
    BY DEF ReleaseOf
  <2>2. inUse[m] <=> \E b \in Bufs : Lent(b) /\ priv[b] = m
    BY DEF MemoryExclusive
  <2>3. ASSUME NEW b \in Bufs, Lent(b), priv[b] = m, b \notin R
        PROVE  ~ \E c \in R : priv[c] = m
    <3> SUFFICES ASSUME NEW c \in R, priv[c] = m PROVE FALSE
      OBVIOUS
    <3>1. Lent(c)  BY <2>3, BufFacts DEF Lent
    <3>2. QED  BY <3>1, <2>3 DEF MemoryExclusive
  <2>4. QED  BY <1>2, <2>1, <2>2, <2>3
<1>5. QED  BY <1>1, <1>2, <1>3, <1>4 DEF MemoryExclusive

\* A free buffer is claimed.
LEMMA ReceiveIndInv ==
  ASSUME IndInv, NEW k \in Kinds, NEW b \in Bufs, Receive(k, b)
  PROVE  IndInv'
<1> DEFINE R == PreviousUnreferenced
<1>1. TypeOK /\ MemoryExclusive  BY DEF IndInv
<1>2. R \in SUBSET Bufs /\ \A c \in R : ~released[c] /\ refCount[c] = 0
  BY DEF PreviousUnreferenced
<1>3. pc = "idle" /\ pc' = "header" /\ refCount[b] = 0 /\ ReleaseOf(R)
      /\ refCount' = [refCount EXCEPT ![b] = 1] /\ newFb' = b
      /\ hold' = FALSE /\ ready' = FALSE /\ kind' = k /\ siKnown' = TRUE
      /\ img' = None
      /\ UNCHANGED <<priv, refMap, nextMap, show, refresh, frameRefs,
                     needResync, ctxResync, shown, failed>>
  BY DEF Receive, IsFreeFb
<1> HIDE DEF R
<1>4. /\ released' \in [Bufs -> BOOLEAN] /\ inUse' \in [Mems -> BOOLEAN]
      /\ decoded' \subseteq Bufs
      /\ \A c \in Bufs : Lent(c)' <=> Lent(c) /\ c \notin R
      /\ MemoryExclusive'
  BY <1>1, <1>2, <1>3, ReleaseKeeps
<1>5. TypeOK'
  BY <1>1, <1>3, <1>4, PoolAssumption DEF TypeOK
<1>6. \A c \in Bufs : refCount[c] \in Nat /\ SlotRefs(c) \in Nat
                      /\ SlotRefs(c)' = SlotRefs(c)
  BY <1>1, <1>3, SlotRefsFacts, SameMap DEF TypeOK
<1>7. \A c \in Bufs : /\ ~needResync => refCount[c] >= SlotRefs(c)
                      /\ ~failed => refCount[c] = SlotRefs(c)
  BY <1>3, <1>6 DEF IndInv, Counted, CallRefs, Holding, Claiming, Showing
<1>8. Counted'
  <2> SUFFICES ASSUME NEW c \in Bufs
               PROVE  /\ ~needResync => refCount'[c] >= SlotRefs(c)'
                                                       + CallRefs(c)'
                      /\ ~failed => refCount'[c] = SlotRefs(c)' + CallRefs(c)'
    BY <1>3 DEF Counted
  <2>1. CallRefs(c)' = IF c = b THEN 1 ELSE 0
    BY <1>3 DEF CallRefs, Holding, Claiming, Showing
  <2>2. refCount'[c] = IF c = b THEN 1 ELSE refCount[c]
    BY <1>1, <1>3 DEF TypeOK
  <2>3. QED  BY <1>3, <1>6, <1>7, <2>1, <2>2
<1>9. ~Lent(b)'
  <2>1. Lent(b) => b = newFb  BY <1>3 DEF IndInv, LentCounted
  <2>2. Lent(b) => b \in R
    BY <2>1, <1>3 DEF R, PreviousUnreferenced, Lent
  <2>3. QED  BY <1>4, <2>2
<1>10. ~needResync => \A s \in Slots : refMap[s] # b
  BY <1>3, <1>6, <1>7, SlotRefsFacts
<1>11. CallState'
  <2>1. refCount'[b] = 1  BY <1>1, <1>3 DEF TypeOK
  <2>2. QED
    BY <1>3, <1>9, <1>10, <2>1 DEF CallState, Holding, Decoding, Showing
<1>12. LentCounted'
  <2> SUFFICES ASSUME NEW c \in Bufs, Lent(c)' PROVE refCount'[c] > 0
    BY <1>3 DEF LentCounted
  <2>1. Lent(c) /\ c \notin R /\ c # b  BY <1>4, <1>9
  <2>2. refCount[c] > 0 \/ c = newFb  BY <1>3, <2>1 DEF IndInv, LentCounted
  <2>3. refCount[c] > 0
    BY <2>1, <2>2, <1>6 DEF R, PreviousUnreferenced, Lent
  <2>4. QED  BY <2>1, <2>3, <1>1, <1>3 DEF TypeOK
<1>13. DecodedLent'
  <2>1. \A c \in decoded' : Lent(c)'
    BY <1>3, <1>4 DEF IndInv, DecodedLent, ReleaseOf
  <2>2. ASSUME ~needResync, NEW s \in Slots, refMap[s] # None
        PROVE  refMap[s] \in decoded'
    <3>1. refMap[s] \in decoded /\ refMap[s] \in Bufs
      BY <1>1, <1>3, <2>2 DEF IndInv, DecodedLent, TypeOK
    <3>2. SlotRefs(refMap[s]) # 0  BY SlotRefsFacts
    <3>3. refCount[refMap[s]] # 0  BY <1>6, <1>7, <2>2, <3>1, <3>2
    <3>4. QED  BY <1>2, <1>3, <3>1, <3>3 DEF ReleaseOf
  <2>3. QED
    BY <1>3, <2>1, <2>2 DEF DecodedLent, Holding
<1>14. Resync'
  BY <1>3 DEF IndInv, Resync, Holding, Decoding, Showing
<1>15. QED
  BY <1>4, <1>5, <1>8, <1>11, <1>12, <1>13, <1>14 DEF IndInv

\* No buffer is free.
LEMMA ReceiveNoFreeFbIndInv ==
  ASSUME IndInv, NEW k \in Kinds, ReceiveNoFreeFb(k)
  PROVE  IndInv'
<1>1. TypeOK /\ MemoryExclusive  BY DEF IndInv
<1>2. pc = "idle" /\ pc' = "idle" /\ (\A b \in Bufs : refCount[b] # 0)
      /\ ReleaseOf(PreviousUnreferenced)
      /\ newFb' = None /\ ready' = TRUE /\ needResync' = TRUE
      /\ ctxResync' = TRUE /\ failed' = TRUE /\ siKnown' = TRUE /\ img' = None
      /\ UNCHANGED <<refCount, priv, refMap, nextMap, hold, frameVars, shown>>
  BY DEF ReceiveNoFreeFb, mapVars
<1>3. PreviousUnreferenced = {}  BY <1>2 DEF PreviousUnreferenced
<1>4. /\ released' \in [Bufs -> BOOLEAN] /\ inUse' \in [Mems -> BOOLEAN]
      /\ decoded' = decoded
      /\ \A c \in Bufs : Lent(c)' <=> Lent(c)
      /\ MemoryExclusive'
  <2>1. {} \in SUBSET Bufs /\ ReleaseOf({}) /\ \A b \in {} : ~released[b]
    BY <1>2, <1>3
  <2>2. QED  BY <2>1, <1>1, <1>2, ReleaseKeeps DEF ReleaseOf
<1>5. TypeOK'  BY <1>1, <1>2, <1>4 DEF TypeOK, frameVars
<1>6. Counted'  BY <1>2 DEF Counted
<1>7. CallState' /\ DecodedLent' /\ Resync'
  BY <1>1, <1>2, <1>4 DEF IndInv, TypeOK, CallState, DecodedLent, Resync,
     Holding, Decoding, Showing
<1>8. LentCounted'
  BY <1>1, <1>2 DEF TypeOK, LentCounted
<1>9. QED  BY <1>4, <1>5, <1>6, <1>7, <1>8 DEF IndInv

\* An existing frame is shown instead of the buffer that was claimed.
LEMMA ShowExistingIndInv ==
  ASSUME IndInv, NEW s \in Slots, ShowExisting(s)
  PROVE  IndInv'
<1> DEFINE f == refMap[s]
<1>1. TypeOK /\ MemoryExclusive  BY DEF IndInv
<1>2. pc = "header" /\ kind = "existing" /\ pc' = "swap" /\ f # None
      /\ refCount' = [[refCount EXCEPT ![newFb] = Decreased(@, 1)]
                                EXCEPT ![f] = @ + 1]
      /\ newFb' = f /\ refresh' = {} /\ show' = TRUE
      /\ UNCHANGED <<released, priv, inUse, mapVars, kind, frameRefs, syncVars,
                     ready, img, decoded>>
  BY DEF ShowExisting, MayShow
<1>3. f \in Bufs /\ newFb \in Bufs /\ refCount[newFb] = 1 /\ ~Lent(newFb)
  BY <1>1, <1>2 DEF TypeOK, IndInv, CallState
<1>4. \A c \in Bufs : refCount'[c] = refCount[c] - (IF c = newFb THEN 1 ELSE 0)
                                       + (IF c = f THEN 1 ELSE 0)
  BY <1>1, <1>2, <1>3 DEF TypeOK, Decreased
<1>5. TypeOK'
  <2>1. refCount' \in [Bufs -> Nat]
    BY <1>1, <1>2, <1>3 DEF TypeOK, Decreased
  <2>2. QED
    BY <1>1, <1>2, <1>3, <2>1 DEF TypeOK, mapVars, syncVars
<1>6. \A c : Lent(c)' = Lent(c)  BY <1>2 DEF Lent
<1>7. MemoryExclusive'  BY <1>1, <1>2, <1>6 DEF MemoryExclusive
<1>8. Counted'
  <2> SUFFICES ASSUME NEW c \in Bufs
               PROVE  /\ ~needResync => refCount'[c] >= SlotRefs(c)'
                                                       + CallRefs(c)'
                      /\ ~failed => refCount'[c] = SlotRefs(c)' + CallRefs(c)'
    BY <1>2 DEF Counted, syncVars
  <2>1. SlotRefs(c)' = SlotRefs(c) /\ SlotRefs(c) \in Nat
    BY <1>2, SameMap, SlotRefsFacts DEF mapVars
  <2>2. CallRefs(c)' = IF c = f THEN 1 ELSE 0
    BY <1>2 DEF CallRefs, Holding, Claiming, Showing
  <2>3. CallRefs(c) = IF c = newFb THEN 1 ELSE 0
    BY <1>2 DEF CallRefs, Holding, Claiming, Showing
  <2>4. /\ ~needResync => refCount[c] >= SlotRefs(c) + CallRefs(c)
        /\ ~failed => refCount[c] = SlotRefs(c) + CallRefs(c)
    BY <1>2 DEF IndInv, Counted
  <2>5. refCount[c] \in Nat  BY <1>1 DEF TypeOK
  <2>6. QED  BY <1>4, <2>1, <2>2, <2>3, <2>4, <2>5
<1>9. CallState'
  <2>1. refCount'[f] >= 1
    BY <1>1, <1>3, <1>4, <1>2 DEF TypeOK, ShowExisting, MayShow
  <2>2. QED
    BY <1>2, <1>3, <2>1 DEF IndInv, CallState, Holding, Decoding, Showing,
       mapVars
<1>10. LentCounted'
  <2> SUFFICES ASSUME NEW c \in Bufs, Lent(c) PROVE refCount'[c] > 0
    BY <1>2, <1>6 DEF LentCounted
  <2>1. c # newFb /\ refCount[c] > 0 /\ refCount[c] \in Nat
    BY <1>1, <1>2, <1>3 DEF IndInv, LentCounted, TypeOK
  <2>2. QED  BY <1>4, <2>1
<1>11. DecodedLent'
  BY <1>2, <1>6 DEF IndInv, DecodedLent, Holding, mapVars, syncVars
<1>12. Resync'
  BY <1>2 DEF IndInv, CallState, DecodedLent, Resync, Holding, Decoding,
     Showing, mapVars, syncVars
<1>13. QED
  BY <1>5, <1>7, <1>8, <1>9, <1>10, <1>11, <1>12 DEF IndInv

\* Memory is lent to the new buffer.
LEMMA SetupKeeps ==
  ASSUME TypeOK, MemoryExclusive, NEW m \in Mems, NEW R \in SUBSET Bufs,
         SetupFrameSize(m, R), newFb \in Bufs, ~Lent(newFb), newFb \notin R,
         \A b \in R : ~released[b], \A b \in decoded : Lent(b)
  PROVE  /\ released' \in [Bufs -> BOOLEAN] /\ inUse' \in [Mems -> BOOLEAN]
         /\ priv' \in [Bufs -> Mems \cup {None}] /\ decoded' \subseteq Bufs
         /\ \A b \in Bufs : Lent(b)' <=> b = newFb \/ (Lent(b) /\ b \notin R)
         /\ MemoryExclusive'
         /\ \A b \in decoded' : Lent(b)'
<1>1. released' \in [Bufs -> BOOLEAN] /\ inUse' \in [Mems -> BOOLEAN]
      /\ priv' \in [Bufs -> Mems \cup {None}] /\ decoded' \subseteq Bufs
  BY DEF TypeOK, SetupFrameSize
<1>2. \A b \in Bufs : priv'[b] = IF b = newFb THEN m ELSE priv[b]
  BY DEF TypeOK, SetupFrameSize
<1>3. \A b \in Bufs : Lent(b)' <=> b = newFb \/ (Lent(b) /\ b \notin R)
  BY <1>2, BufFacts DEF SetupFrameSize, Lent
<1>4. ~inUse[m] /\ \A b \in Bufs : Lent(b) => priv[b] # m
  BY DEF SetupFrameSize, MemoryExclusive
<1>5. \A b, c \in Bufs :
        Lent(b)' /\ Lent(c)' /\ priv'[b] = priv'[c] => b = c
  BY <1>2, <1>3, <1>4 DEF MemoryExclusive
<1>6. ASSUME NEW i \in Mems
      PROVE  inUse'[i] <=> \E b \in Bufs : Lent(b)' /\ priv'[b] = i
  <2>1. inUse'[i] <=> (inUse[i] \/ i = m) /\ ~ \E b \in R : priv[b] = i
    BY DEF SetupFrameSize
  <2>2. inUse[i] <=> \E b \in Bufs : Lent(b) /\ priv[b] = i
    BY DEF MemoryExclusive
  <2>3. \A c \in R : priv[c] = i => Lent(c)  BY BufFacts DEF Lent
  <2>4. ASSUME NEW b \in Bufs, Lent(b), priv[b] = i, b \notin R
        PROVE  ~ \E c \in R : priv[c] = i
    BY <2>3, <2>4 DEF MemoryExclusive
  <2>5. CASE i = m
    <3>1. ~ \E c \in R : priv[c] = m  BY <1>4, <2>3, <2>5
    <3>2. QED  BY <1>2, <1>3, <2>1, <2>5, <3>1
  <2>6. CASE i # m
    <3>1. (\E b \in Bufs : Lent(b)' /\ priv'[b] = i)
            <=> \E b \in Bufs : Lent(b) /\ b \notin R /\ priv[b] = i
      BY <1>2, <1>3, <2>6
    <3>2. QED  BY <2>1, <2>2, <2>4, <2>6, <3>1
  <2>7. QED  BY <2>5, <2>6
<1>7. \A b \in decoded' : Lent(b)'
  BY <1>1, <1>3 DEF SetupFrameSize, TypeOK
<1>8. QED  BY <1>1, <1>3, <1>5, <1>6, <1>7 DEF MemoryExclusive

\* What the three kinds of header have in common: R is released, the map is set
\* back when a key frame is awaited, and the counts still cover it.
LEMMA HeaderIndInv ==
  ASSUME IndInv, NEW m \in Mems, NEW R \in SUBSET Bufs, SetupFrameSize(m, R),
         pc = "header", kind # "existing", kind = "inter" => ~needResync,
         R = IF kind = "key" THEN FlushedBufs ELSE {},
         refCount' = [b \in Bufs |-> IF kind = "key" THEN FlushedCount(b)
                                     ELSE refCount[b]],
         refMap' = ResyncMap, needResync' = FALSE,
         failed' = (failed /\ ~(kind = "key" /\ Flushes)),
         refresh' \subseteq Slots, frameRefs' \subseteq Bufs, show' \in BOOLEAN,
         kind = "inter" => \A b \in frameRefs' : \E s \in Slots : refMap[s] = b
  PROVE  IndInv'
<1>1. TypeOK /\ MemoryExclusive  BY DEF IndInv
<1>2. newFb \in Bufs /\ refCount[newFb] = 1 /\ ~Lent(newFb) /\ ~hold
      /\ img = None /\ ~ready /\ ctxResync = needResync
  BY DEF IndInv, CallState, Resync, Holding
<1>3. pc' = "refs"
      /\ UNCHANGED <<nextMap, hold, kind, newFb, ready, img, ctxResync, siKnown,
                     shown>>
      /\ decoded' = decoded \ (R \cup {newFb})
  BY DEF SetupFrameSize
<1>4. newFb \notin R /\ (\A b \in R : ~released[b])
      /\ (~needResync => R = {})
  BY DEF FlushedBufs, Flushes
<1>5. \A b \in decoded : Lent(b)  BY DEF IndInv, DecodedLent
<1>6. /\ released' \in [Bufs -> BOOLEAN] /\ inUse' \in [Mems -> BOOLEAN]
      /\ priv' \in [Bufs -> Mems \cup {None}] /\ decoded' \subseteq Bufs
      /\ \A b \in Bufs : Lent(b)' <=> b = newFb \/ (Lent(b) /\ b \notin R)
      /\ MemoryExclusive'
      /\ \A b \in decoded' : Lent(b)'
  BY <1>1, <1>2, <1>4, <1>5, SetupKeeps
<1>7. \A b \in Bufs : /\ refCount'[b] \in Nat /\ refCount[b] \in Nat
                      /\ b = newFb \/ ~(kind = "key" /\ Flushes)
                           => refCount'[b] = refCount[b]
                      /\ b # newFb /\ kind = "key" /\ Flushes => refCount'[b] = 0
  BY <1>1 DEF TypeOK, FlushedCount
<1>8. refMap' \in [Slots -> Bufs \cup {None}]
      /\ (needResync => \A s \in Slots : refMap'[s] = None)
      /\ (~needResync => refMap' = refMap)
  BY <1>1 DEF ResyncMap, TypeOK
<1>9. TypeOK'
  <2>1. refCount' \in [Bufs -> Nat]  BY <1>7
  <2>2. QED  BY <1>1, <1>3, <1>6, <1>8, <2>1 DEF TypeOK
<1>10. Counted'
  <2> SUFFICES ASSUME NEW c \in Bufs
               PROVE  /\ refCount'[c] >= SlotRefs(c)' + CallRefs(c)'
                      /\ ~failed' => refCount'[c] = SlotRefs(c)' + CallRefs(c)'
    BY <1>3 DEF Counted
  <2>1. CallRefs(c) = (IF c = newFb THEN 1 ELSE 0)
        /\ CallRefs(c)' = (IF c = newFb THEN 1 ELSE 0)
    BY <1>3 DEF CallRefs, Holding, Claiming, Showing
  <2>2. /\ ~needResync => refCount[c] >= SlotRefs(c) + CallRefs(c)
        /\ ~failed => refCount[c] = SlotRefs(c) + CallRefs(c)
    BY DEF IndInv, Counted
  <2>3. SlotRefs(c) \in Nat  BY SlotRefsFacts
  <2>4. CASE needResync
    <3>1. SlotRefs(c)' = 0
      <4>1. SlotsOf(c)' = {}  BY <1>8, <2>4, BufFacts DEF SlotsOf
      <4>2. QED  BY <4>1, FS_EmptySet DEF SlotRefs
    <3>2. ~failed => SlotRefs(c) = 0
      BY <2>4, SlotRefsFacts, BufFacts DEF IndInv, Resync
    <3>3. ~failed' => refCount'[c] = IF c = newFb THEN 1 ELSE 0
      <4>1. CASE kind = "key" /\ Flushes
        BY <1>2, <1>7, <4>1
      <4>2. CASE ~(kind = "key" /\ Flushes)
        <5>1. ~failed' => ~failed  BY <4>2
        <5>2. refCount'[c] = refCount[c]  BY <1>7, <4>2
        <5>3. QED  BY <1>2, <2>1, <2>2, <3>2, <5>1, <5>2, <1>7
      <4>3. QED  BY <4>1, <4>2
    <3>4. refCount'[c] >= IF c = newFb THEN 1 ELSE 0
      BY <1>2, <1>7
    <3>5. QED  BY <2>1, <3>1, <3>3, <3>4, <1>7
  <2>5. CASE ~needResync
    <3>1. SlotRefs(c)' = SlotRefs(c)  BY <1>8, <2>5, SameMap
    <3>2. refCount'[c] = refCount[c] /\ (~failed' => ~failed)
      BY <1>4, <1>7, <2>5 DEF Flushes
    <3>3. QED  BY <2>1, <2>2, <2>3, <2>5, <3>1, <3>2, <1>7
  <2>6. QED  BY <2>4, <2>5
<1>11. CallState'
  <2>1. refCount'[newFb] = 1  BY <1>2, <1>7
  <2>2. \A s \in Slots : refMap'[s] # newFb
    BY <1>2, <1>8, BufFacts DEF IndInv, CallState
  <2>3. QED
    BY <1>2, <1>3, <1>6, <2>1, <2>2 DEF CallState, Holding, Decoding, Showing
<1>12. LentCounted'
  <2> SUFFICES ASSUME NEW c \in Bufs, Lent(c)' PROVE refCount'[c] > 0
    BY <1>3 DEF LentCounted
  <2>1. CASE c = newFb  BY <2>1, <1>2, <1>7
  <2>2. CASE c # newFb
    <3>1. Lent(c) /\ c \notin R  BY <1>6, <2>2
    <3>2. refCount[c] > 0  BY <3>1 DEF IndInv, LentCounted
    <3>3. ~(kind = "key" /\ Flushes)
      BY <2>2, <3>1 DEF FlushedBufs, Lent
    <3>4. R = {}  BY <3>3 DEF FlushedBufs
    <3>5. QED  BY <1>7, <3>2, <3>3, <3>4
  <2>3. QED  BY <2>1, <2>2
<1>13. DecodedLent'
  <2>1. ASSUME NEW s \in Slots, refMap'[s] # None
        PROVE  refMap'[s] \in decoded'
    <3>1. ~needResync /\ refMap'[s] = refMap[s] /\ R = {}
      BY <1>4, <1>8, <2>1
    <3>2. refMap[s] \in decoded  BY <2>1, <3>1 DEF IndInv, DecodedLent
    <3>3. refMap[s] # newFb  BY <1>5, <1>2, <3>2
    <3>4. QED  BY <1>3, <3>1, <3>2, <3>3
  <2>2. kind = "inter" => \A b \in frameRefs' : \E s \in Slots : refMap'[s] = b
    BY <1>8
  <2>3. QED  BY <1>3, <1>6, <2>1, <2>2 DEF DecodedLent, Holding
<1>14. Resync'
  BY <1>2, <1>3 DEF Resync, Decoding, Holding, Showing
<1>15. QED
  BY <1>6, <1>9, <1>10, <1>11, <1>12, <1>13, <1>14 DEF IndInv

\* A key frame.
LEMMA KeyHeaderIndInv ==
  ASSUME IndInv, NEW m \in Mems, NEW sh \in BOOLEAN, KeyHeader(m, sh)
  PROVE  IndInv'
<1>1. FlushedBufs \in SUBSET Bufs  BY DEF FlushedBufs
<1>2. pc = "header" /\ kind = "key" /\ SetupFrameSize(m, FlushedBufs)
      /\ refCount' = [b \in Bufs |-> FlushedCount(b)] /\ refMap' = ResyncMap
      /\ needResync' = FALSE /\ refresh' = Slots /\ frameRefs' = {}
      /\ show' = sh /\ failed' = (failed /\ ~Flushes)
  BY DEF KeyHeader
<1>3. refCount' = [b \in Bufs |-> IF kind = "key" THEN FlushedCount(b)
                                  ELSE refCount[b]]
  BY <1>2
<1>4. QED  BY <1>1, <1>2, <1>3, HeaderIndInv

\* An intra-only frame.
LEMMA IntraHeaderIndInv ==
  ASSUME IndInv, NEW m \in Mems, NEW rf \in Refreshes, IntraHeader(m, rf)
  PROVE  IndInv'
<1>1. {} \in SUBSET Bufs  OBVIOUS
<1>2. pc = "header" /\ kind = "intra" /\ SetupFrameSize(m, {})
      /\ refMap' = ResyncMap /\ needResync' = FALSE /\ refresh' = rf
      /\ show' = FALSE /\ refCount' = refCount /\ frameRefs' = frameRefs
      /\ failed' = failed
  BY DEF IntraHeader
<1>3. refCount' = [b \in Bufs |-> IF kind = "key" THEN FlushedCount(b)
                                  ELSE refCount[b]]
  BY <1>2 DEF IndInv, TypeOK
<1>4. rf \subseteq Slots  BY PoolAssumption DEF Slots
<1>5. frameRefs' \subseteq Bufs  BY <1>2 DEF IndInv, TypeOK
<1>6. failed' = (failed /\ ~(kind = "key" /\ Flushes))
  BY <1>2 DEF IndInv, TypeOK
<1>7. QED  BY <1>1, <1>2, <1>3, <1>4, <1>5, <1>6, HeaderIndInv

\* An inter frame.
LEMMA InterHeaderIndInv ==
  ASSUME IndInv, NEW m \in Mems, NEW rf \in Refreshes,
         NEW refs \in SUBSET Slots, NEW sh \in BOOLEAN,
         InterHeader(m, rf, refs, sh)
  PROVE  IndInv'
<1>1. {} \in SUBSET Bufs  OBVIOUS
<1>2. pc = "header" /\ kind = "inter" /\ ~needResync
      /\ (\A s \in refs : refMap[s] # None) /\ SetupFrameSize(m, {})
      /\ frameRefs' = {refMap[s] : s \in refs} /\ refresh' = rf /\ show' = sh
      /\ refCount' = refCount /\ refMap' = refMap /\ needResync' = needResync
      /\ failed' = failed
  BY DEF InterHeader, MayPredict
<1>3. refCount' = [b \in Bufs |-> IF kind = "key" THEN FlushedCount(b)
                                  ELSE refCount[b]]
  BY <1>2 DEF IndInv, TypeOK
<1>4. rf \subseteq Slots  BY PoolAssumption DEF Slots
<1>5. frameRefs' \subseteq Bufs  BY <1>2 DEF IndInv, TypeOK
<1>6. refMap' = ResyncMap /\ needResync' = FALSE
  BY <1>2 DEF ResyncMap, IndInv, TypeOK
<1>7. failed' = (failed /\ ~(kind = "key" /\ Flushes))
  BY <1>2 DEF IndInv, TypeOK
<1>8. QED  BY <1>1, <1>2, <1>3, <1>4, <1>5, <1>6, <1>7, HeaderIndInv

\* The references are held while the frame is decoded.
LEMMA HoldRefsIndInv ==
  ASSUME IndInv, HoldRefs
  PROVE  IndInv'
<1>1. TypeOK /\ MemoryExclusive  BY DEF IndInv
<1>2. pc = "refs" /\ pc' = "tiles" /\ hold' = TRUE
      /\ nextMap' = [s \in Slots |-> IF s \in refresh THEN newFb ELSE refMap[s]]
      /\ refCount' = [b \in Bufs |-> HeldCount(b)]
      /\ UNCHANGED <<released, priv, inUse, refMap, kind, show, refresh,
                     frameRefs, syncVars, newFb, ready, img, decoded>>
  BY DEF HoldRefs, frameVars
<1>3. newFb \in Bufs /\ ~needResync /\ kind # "existing" /\ Lent(newFb)
      /\ (\A s \in Slots : refMap[s] # newFb)
  BY <1>2 DEF IndInv, CallState, Decoding
<1>4. Cardinality(refresh) \in Nat  BY <1>1, SlotSets DEF TypeOK
<1>5. \A b \in Bufs : refCount[b] \in Nat /\ SlotRefs(b) \in Nat
                      /\ SlotRefs(b)' = SlotRefs(b)
  BY <1>1, <1>2, SlotRefsFacts, SameMap DEF TypeOK
<1>6. \A b \in Bufs :
        refCount'[b] = refCount[b] + SlotRefs(b)
                         + (IF b = newFb THEN Cardinality(refresh) ELSE 0)
  BY <1>2 DEF HeldCount, SlotRefs
<1>7. \A b \in Bufs : refCount'[b] \in Nat /\ refCount'[b] >= refCount[b]
  BY <1>4, <1>5, <1>6
<1>8. TypeOK'
  <2>1. refCount' \in [Bufs -> Nat]  BY <1>2, <1>7
  <2>2. QED  BY <1>1, <1>2, <1>3, <2>1 DEF TypeOK, syncVars
<1>9. \A b : Lent(b)' = Lent(b)  BY <1>2 DEF Lent
<1>10. MemoryExclusive'  BY <1>1, <1>2, <1>9 DEF MemoryExclusive
<1>11. Counted'
  <2> SUFFICES ASSUME NEW c \in Bufs
               PROVE  /\ refCount'[c] >= SlotRefs(c)' + CallRefs(c)'
                      /\ ~failed => refCount'[c] = SlotRefs(c)' + CallRefs(c)'
    BY <1>2 DEF Counted, syncVars
  <2>1. CallRefs(c) = IF c = newFb THEN 1 ELSE 0
    BY <1>2 DEF CallRefs, Holding, Claiming, Showing
  <2>2. CallRefs(c)' = SlotRefs(c) + (IF c = newFb
                                      THEN Cardinality(refresh) + 1 ELSE 0)
    BY <1>2, <1>5 DEF CallRefs, Holding
  <2>3. refCount[c] >= SlotRefs(c) + CallRefs(c)
        /\ (~failed => refCount[c] = SlotRefs(c) + CallRefs(c))
    BY <1>2, <1>3 DEF IndInv, Counted
  <2>4. QED  BY <1>4, <1>5, <1>6, <2>1, <2>2, <2>3
<1>12. CallState'
  <2>1. refCount'[newFb] >= 1
    BY <1>2, <1>3, <1>5, <1>7 DEF IndInv, CallState
  <2>2. QED
    BY <1>2, <1>3, <1>9, <2>1 DEF IndInv, CallState, Holding, Decoding,
       Showing, syncVars
<1>13. LentCounted'
  <2> SUFFICES ASSUME NEW c \in Bufs, Lent(c) PROVE refCount'[c] > 0
    BY <1>2, <1>9 DEF LentCounted
  <2>1. refCount[c] > 0  BY <1>2 DEF IndInv, LentCounted
  <2>2. QED  BY <1>5, <1>7, <2>1
<1>14. DecodedLent'
  BY <1>2, <1>3, <1>9 DEF IndInv, DecodedLent, Holding, syncVars
<1>15. Resync'
  BY <1>2, <1>3 DEF IndInv, Resync, Holding, Decoding, Showing, syncVars
<1>16. QED
  BY <1>8, <1>10, <1>11, <1>12, <1>13, <1>14, <1>15 DEF IndInv

\* The frame is decoded.
LEMMA DecodeTilesIndInv ==
  ASSUME IndInv, DecodeTiles
  PROVE  IndInv'
<1>1. TypeOK /\ MemoryExclusive  BY DEF IndInv
<1>2. pc = "tiles" /\ pc' = "swap" /\ decoded' = decoded \cup {newFb}
      /\ UNCHANGED <<refCount, released, priv, inUse, refMap, nextMap, hold,
                     kind, show, refresh, frameRefs, needResync, ctxResync,
                     siKnown, shown, failed, newFb, ready, img>>
  BY DEF DecodeTiles, poolVars, mapVars, frameVars, syncVars
<1>3. newFb \in Bufs /\ ~needResync /\ kind # "existing" /\ Lent(newFb)
  BY <1>2 DEF IndInv, CallState, Decoding, Holding
<1>4. \A b : Lent(b)' = Lent(b)  BY <1>2 DEF Lent
<1>5. TypeOK'  BY <1>1, <1>2, <1>3 DEF TypeOK
<1>6. MemoryExclusive'  BY <1>1, <1>2, <1>4 DEF MemoryExclusive
<1>7. Counted'
  <2>1. \A b : CallRefs(b)' = CallRefs(b) /\ SlotRefs(b)' = SlotRefs(b)
    BY <1>2, <1>3, SameMap DEF CallRefs, Holding
  <2>2. QED  BY <1>2, <2>1 DEF IndInv, Counted
<1>8. CallState' /\ LentCounted' /\ DecodedLent' /\ Resync'
  <2>1. CallState'
    BY <1>2, <1>3, <1>4 DEF IndInv, CallState, Holding, Decoding, Showing
  <2>2. LentCounted'  BY <1>2, <1>4 DEF IndInv, LentCounted
  <2>3. DecodedLent'
    BY <1>2, <1>3, <1>4 DEF IndInv, DecodedLent, Holding
  <2>4. Resync'
    BY <1>2, <1>3 DEF IndInv, Resync, CallState, Holding, Decoding, Showing
  <2>5. QED  BY <2>1, <2>2, <2>3, <2>4
<1>9. QED  BY <1>5, <1>6, <1>7, <1>8 DEF IndInv

\* Decrements that bring a count to zero release the buffer, those that do not
\* leave a reference.
LEMMA DecreaseKeeps ==
  ASSUME TypeOK, NEW n \in [Bufs -> Nat], LentCounted, pc # "idle",
         NEW c \in Bufs, Lent(c), c \notin ReleasedBy(n)
  PROVE  Decreased(refCount[c], n[c]) > 0
<1>1. refCount[c] \in Nat /\ n[c] \in Nat  BY DEF TypeOK
<1>2. refCount[c] > 0  BY DEF LentCounted
<1>3. ~(n[c] > 0 /\ n[c] >= refCount[c])
  BY <1>2 DEF ReleasedBy, Lent
<1>4. QED  BY <1>1, <1>2, <1>3 DEF Decreased

\* The error path gives everything up and asks for a key frame.
LEMMA ErrorExitIndInv ==
  ASSUME IndInv, ErrorExit
  PROVE  IndInv'
<1> DEFINE n == [b \in Bufs |-> GivenUp(b)]
           R == ReleasedBy(n)
<1>1. TypeOK /\ MemoryExclusive /\ LentCounted  BY DEF IndInv
<1>2. pc = "error" /\ pc' = "idle" /\ ReleaseOf(R)
      /\ refCount' = [b \in Bufs |-> Decreased(refCount[b], n[b])]
      /\ hold' = FALSE /\ ready' = TRUE /\ needResync' = TRUE
      /\ ctxResync' = TRUE /\ failed' = TRUE
      /\ UNCHANGED <<priv, refMap, nextMap, kind, show, refresh, frameRefs,
                     siKnown, shown, newFb, img>>
  BY DEF ErrorExit, frameVars
<1>3. n \in [Bufs -> Nat]
  <2> SUFFICES ASSUME NEW b \in Bufs PROVE GivenUp(b) \in Nat
    OBVIOUS
  <2>1. SlotsOf(b) \in SUBSET Slots /\ SlotsOf(b) \cap refresh \in SUBSET Slots
    BY DEF SlotsOf
  <2>2. Dropped(b) \in Nat  BY <2>1, SlotSets DEF Dropped
  <2>3. QED  BY <2>2 DEF GivenUp
<1>4. R \in SUBSET Bufs /\ \A b \in R : ~released[b]  BY DEF ReleasedBy
<1> HIDE DEF n
<1>5. \A c \in Bufs : Lent(c) /\ c \notin R => Decreased(refCount[c], n[c]) > 0
  BY <1>1, <1>2, <1>3, DecreaseKeeps
<1> HIDE DEF R
<1>6. /\ released' \in [Bufs -> BOOLEAN] /\ inUse' \in [Mems -> BOOLEAN]
      /\ decoded' \subseteq Bufs
      /\ \A b \in Bufs : Lent(b)' <=> Lent(b) /\ b \notin R
      /\ MemoryExclusive'
  BY <1>1, <1>2, <1>4, ReleaseKeeps
<1>7. TypeOK'
  <2>1. \A b \in Bufs : Decreased(refCount[b], n[b]) \in Nat
    BY <1>1, <1>3 DEF TypeOK, Decreased
  <2>2. refCount' \in [Bufs -> Nat]  BY <1>2, <2>1
  <2>3. QED  BY <1>1, <1>2, <1>6, <2>2 DEF TypeOK
<1>8. Counted'  BY <1>2 DEF Counted
<1>9. CallState'  BY <1>2 DEF CallState, Holding, Decoding
<1>10. LentCounted'  BY <1>2, <1>5, <1>6 DEF LentCounted
<1>11. DecodedLent'
  BY <1>1, <1>2, <1>6 DEF IndInv, DecodedLent, ReleaseOf, Holding, TypeOK
<1>12. Resync'
  BY <1>2 DEF IndInv, CallState, Resync, Holding, Decoding, Showing
<1>13. QED
  BY <1>6, <1>7, <1>8, <1>9, <1>10, <1>11, <1>12 DEF IndInv

\* The application takes the frame.
LEMMA GetFrameIndInv ==
  ASSUME IndInv, GetFrame
  PROVE  IndInv'
<1>1. TypeOK /\ MemoryExclusive  BY DEF IndInv
<1>2. pc = "idle" /\ pc' = "idle" /\ ~ready /\ ready' = TRUE
      /\ img' = (IF MayOutput THEN newFb ELSE None)
      /\ UNCHANGED <<refCount, released, priv, inUse, refMap, nextMap, hold,
                     kind, show, refresh, frameRefs, needResync, ctxResync,
                     siKnown, shown, failed, newFb, decoded>>
  BY DEF GetFrame, poolVars, mapVars, frameVars, syncVars
<1>3. \A b : Lent(b)' = Lent(b)  BY <1>2 DEF Lent
<1>4. TypeOK'  BY <1>1, <1>2 DEF TypeOK
<1>5. MemoryExclusive'  BY <1>1, <1>2, <1>3 DEF MemoryExclusive
<1>6. Counted'
  <2>1. \A b : CallRefs(b)' = CallRefs(b) /\ SlotRefs(b)' = SlotRefs(b)
    BY <1>2, SameMap DEF CallRefs, Holding, Claiming, Showing
  <2>2. QED  BY <1>2, <2>1 DEF IndInv, Counted
<1>7. CallState' /\ LentCounted' /\ DecodedLent'
  BY <1>2, <1>3 DEF IndInv, CallState, LentCounted, DecodedLent, Holding,
     Decoding, Showing
<1>8. Resync'
  BY <1>2 DEF IndInv, Resync, MayOutput, Holding, Decoding, Showing
<1>9. QED  BY <1>4, <1>5, <1>6, <1>7, <1>8 DEF IndInv

\* The decoder is destroyed.
LEMMA DestroyIndInv ==
  ASSUME IndInv, Destroy
  PROVE  IndInv'
<1>1. TypeOK /\ MemoryExclusive  BY DEF IndInv
<1>2. pc = "idle" /\ pc' = "gone" /\ ReleaseOf(LentBufs) /\ img' = None
      /\ refCount' = [b \in Bufs |-> IF b \in LentBufs THEN 0 ELSE refCount[b]]
      /\ UNCHANGED <<priv, refMap, nextMap, hold, kind, show, refresh,
                     frameRefs, needResync, ctxResync, siKnown, shown, failed,
                     newFb, ready>>
  BY DEF Destroy, mapVars, frameVars, syncVars
<1>3. LentBufs \in SUBSET Bufs /\ (\A b \in LentBufs : ~released[b])
      /\ \A b \in Bufs : Lent(b) <=> b \in LentBufs
  BY DEF LentBufs, Lent
<1>4. /\ released' \in [Bufs -> BOOLEAN] /\ inUse' \in [Mems -> BOOLEAN]
      /\ decoded' \subseteq Bufs
      /\ \A b \in Bufs : Lent(b)' <=> Lent(b) /\ b \notin LentBufs
      /\ MemoryExclusive'
  BY <1>1, <1>2, <1>3, ReleaseKeeps
<1>5. TypeOK'  BY <1>1, <1>2, <1>4 DEF TypeOK
<1>6. \A b \in Bufs : ~Lent(b)'  BY <1>3, <1>4
<1>7. decoded' = {}
  BY <1>1, <1>2, <1>3 DEF IndInv, DecodedLent, ReleaseOf, TypeOK
<1>8. Counted' /\ CallState' /\ LentCounted' /\ DecodedLent' /\ Resync'
  BY <1>2, <1>6, <1>7 DEF IndInv, Counted, CallState, LentCounted, DecodedLent,
     Resync, Holding, Decoding, Showing
<1>9. QED  BY <1>4, <1>5, <1>8 DEF IndInv

\* The references of the next map: the refreshed slots for the new buffer, for
\* another one those of its slots that are not refreshed.
LEMMA NextSlotRefs ==
  ASSUME TypeOK, Holding, CallState, refMap' = nextMap, NEW b \in Bufs
  PROVE  SlotRefs(b)' = IF b = newFb THEN Cardinality(refresh)
                        ELSE Cardinality(SlotsOf(b) \ refresh)
<1>1. nextMap = [s \in Slots |-> IF s \in refresh THEN newFb ELSE refMap[s]]
      /\ (\A s \in Slots : refMap[s] # newFb) /\ refresh \subseteq Slots
  BY DEF CallState, Decoding, TypeOK
<1>2. SlotsOf(b)' = {s \in Slots : nextMap[s] = b}  BY DEF SlotsOf
<1>3. b = newFb => SlotsOf(b)' = refresh  BY <1>1, <1>2
<1>4. b # newFb => SlotsOf(b)' = SlotsOf(b) \ refresh
  BY <1>1, <1>2 DEF SlotsOf
<1>5. QED  BY <1>3, <1>4 DEF SlotRefs

\* The swap after showing an existing frame.
LEMMA SwapExistingIndInv ==
  ASSUME IndInv, SwapFrameBuffers, kind = "existing"
  PROVE  IndInv'
<1> DEFINE n == [b \in Bufs |-> SwappedOut(b)]
<1>1. TypeOK /\ MemoryExclusive  BY DEF IndInv
<1>2. pc = "swap" /\ pc' = "idle" /\ ReleaseOf(ReleasedBy(n))
      /\ refCount' = [b \in Bufs |-> Decreased(refCount[b], n[b])
                                      - (IF b = newFb THEN 1 ELSE 0)]
      /\ refMap' = refMap /\ hold' = FALSE /\ frameRefs' = {}
      /\ shown' = (shown \/ show) /\ CheckResync
      /\ UNCHANGED <<priv, nextMap, kind, show, refresh, needResync, siKnown,
                     failed, newFb, ready, img>>
  BY DEF SwapFrameBuffers
<1>3. \A b \in Bufs : n[b] = 0  BY DEF SwappedOut
<1>4. ReleasedBy(n) = {}
  <2>1. \A b \in Bufs : ~(n[b] > 0)  BY <1>3
  <2>2. QED  BY <2>1 DEF ReleasedBy
<1> HIDE DEF n
<1>5. newFb \in Bufs /\ refCount[newFb] >= 1 /\ ctxResync = needResync
      /\ img = None
  BY <1>2 DEF IndInv, CallState, Resync, Showing
<1>6. \A b \in Bufs :
        /\ refCount'[b] = refCount[b] - (IF b = newFb THEN 1 ELSE 0)
        /\ refCount[b] \in Nat /\ refCount'[b] \in Nat
  BY <1>1, <1>2, <1>3, <1>5 DEF TypeOK, Decreased
<1>7. /\ released' \in [Bufs -> BOOLEAN] /\ inUse' \in [Mems -> BOOLEAN]
      /\ decoded' = decoded
      /\ \A b \in Bufs : Lent(b)' <=> Lent(b)
      /\ MemoryExclusive'
  <2>1. {} \in SUBSET Bufs /\ ReleaseOf({}) /\ \A b \in {} : ~released[b]
    BY <1>2, <1>4
  <2>2. QED  BY <2>1, <1>1, <1>2, ReleaseKeeps DEF ReleaseOf
<1>8. ctxResync' = needResync  BY <1>1, <1>2, <1>5 DEF CheckResync, TypeOK
<1>9. TypeOK'
  <2>1. refCount' \in [Bufs -> Nat]  BY <1>2, <1>6
  <2>2. QED  BY <1>1, <1>2, <1>7, <1>8, <2>1 DEF TypeOK
<1>10. Counted'
  <2> SUFFICES ASSUME NEW c \in Bufs
               PROVE  /\ ~needResync => refCount'[c] >= SlotRefs(c)'
                                                       + CallRefs(c)'
                      /\ ~failed => refCount'[c] = SlotRefs(c)' + CallRefs(c)'
    BY <1>2 DEF Counted
  <2>1. CallRefs(c)' = 0  BY <1>2 DEF CallRefs, Holding, Claiming, Showing
  <2>2. CallRefs(c) = IF c = newFb THEN 1 ELSE 0
    BY <1>2 DEF CallRefs, Holding, Claiming, Showing
  <2>3. /\ ~needResync => refCount[c] >= SlotRefs(c) + CallRefs(c)
        /\ ~failed => refCount[c] = SlotRefs(c) + CallRefs(c)
    BY <1>2 DEF IndInv, Counted
  <2>4. SlotRefs(c)' = SlotRefs(c) /\ SlotRefs(c) \in Nat
    BY <1>2, SameMap, SlotRefsFacts
  <2>5. QED  BY <1>6, <2>1, <2>2, <2>3, <2>4
<1>11. CallState'  BY <1>2 DEF CallState, Holding, Decoding
<1>12. LentCounted'
  <2> SUFFICES ASSUME NEW c \in Bufs, Lent(c), c # newFb PROVE refCount'[c] > 0
    BY <1>2, <1>7 DEF LentCounted
  <2>1. refCount[c] > 0  BY <1>2 DEF IndInv, LentCounted
  <2>2. QED  BY <1>6, <2>1
<1>13. DecodedLent'
  BY <1>1, <1>2, <1>7 DEF IndInv, DecodedLent, Holding, TypeOK
<1>14. Resync'
  BY <1>2, <1>5, <1>7, <1>8 DEF IndInv, Resync, Holding, Decoding, Showing
<1>15. QED
  BY <1>7, <1>9, <1>10, <1>11, <1>12, <1>13, <1>14 DEF IndInv

\* Of the slots that name b, those that are refreshed and those that are not; and
\* the count b has while the call holds its references.
Fresh(b) == Cardinality(SlotsOf(b) \cap refresh)
Kept(b)  == Cardinality(SlotsOf(b) \ refresh)
Due(b)   == 2 * SlotRefs(b) + (IF b = newFb THEN Cardinality(refresh) + 1 ELSE 0)

\* The swap after decoding a frame.
LEMMA SwapDecodedIndInv ==
  ASSUME IndInv, SwapFrameBuffers, kind # "existing"
  PROVE  IndInv'
<1> DEFINE n == [b \in Bufs |-> SwappedOut(b)]
           R == ReleasedBy(n)
<1>1. TypeOK /\ MemoryExclusive /\ LentCounted /\ CallState  BY DEF IndInv
<1>2. pc = "swap" /\ pc' = "idle" /\ ReleaseOf(R)
      /\ refCount' = [b \in Bufs |-> Decreased(refCount[b], n[b])
                                      - (IF b = newFb THEN 1 ELSE 0)]
      /\ refMap' = nextMap /\ hold' = FALSE /\ frameRefs' = {}
      /\ shown' = (shown \/ show) /\ CheckResync
      /\ UNCHANGED <<priv, nextMap, kind, show, refresh, needResync, siKnown,
                     failed, newFb, ready, img>>
  BY DEF SwapFrameBuffers
<1>3. Holding /\ newFb \in Bufs /\ ~needResync /\ newFb \in decoded
      /\ img = None /\ (\A s \in Slots : refMap[s] # newFb)
      /\ nextMap = [s \in Slots |-> IF s \in refresh THEN newFb ELSE refMap[s]]
  BY <1>2 DEF IndInv, CallState, DecodedLent, Decoding, Holding
<1>4. \A b \in Bufs : /\ SlotRefs(b) \in Nat /\ refCount[b] \in Nat
                      /\ Fresh(b) \in Nat /\ Kept(b) \in Nat
                      /\ SlotRefs(b) = Fresh(b) + Kept(b)
                      /\ n[b] = SlotRefs(b) + Fresh(b)
  <2> SUFFICES ASSUME NEW b \in Bufs
               PROVE  /\ SlotRefs(b) \in Nat /\ refCount[b] \in Nat
                      /\ Fresh(b) \in Nat /\ Kept(b) \in Nat
                      /\ SlotRefs(b) = Fresh(b) + Kept(b)
                      /\ n[b] = SlotRefs(b) + Fresh(b)
    OBVIOUS
  <2>1. SlotsOf(b) \in SUBSET Slots /\ refresh \subseteq Slots
    BY <1>1 DEF SlotsOf, TypeOK
  <2>2. n[b] = Dropped(b)  BY DEF SwappedOut
  <2>3. QED
    BY <1>1, <2>1, <2>2, RefreshSplit, SlotSets
       DEF SlotRefs, Dropped, TypeOK, Fresh, Kept
<1>5. n \in [Bufs -> Nat]
  <2>1. \A b \in Bufs : SwappedOut(b) = SlotRefs(b) + Fresh(b)  BY <1>4
  <2>2. \A b \in Bufs : SwappedOut(b) \in Nat  BY <1>4, <2>1
  <2>3. QED  BY <2>2
<1>6. R \in SUBSET Bufs /\ (\A b \in R : ~released[b] /\ n[b] >= refCount[b]
                                         /\ refCount[b] > 0)
  BY DEF ReleasedBy
<1> HIDE DEF n
<1>7. \A c \in Bufs : Lent(c) /\ c \notin R => Decreased(refCount[c], n[c]) > 0
  BY <1>1, <1>2, <1>5, DecreaseKeeps
<1> HIDE DEF R
<1>8. Cardinality(refresh) \in Nat  BY <1>1, SlotSets DEF TypeOK
<1>9. \A b \in Bufs : /\ refCount[b] >= Due(b)
                      /\ ~failed => refCount[b] = Due(b)
  <2> SUFFICES ASSUME NEW b \in Bufs
               PROVE  refCount[b] >= Due(b) /\ (~failed => refCount[b] = Due(b))
    OBVIOUS
  <2>1. CallRefs(b) = SlotRefs(b)
                  + (IF b = newFb THEN Cardinality(refresh) + 1 ELSE 0)
    BY <1>3 DEF CallRefs
  <2>2. refCount[b] >= SlotRefs(b) + CallRefs(b)
        /\ (~failed => refCount[b] = SlotRefs(b) + CallRefs(b))
    BY <1>2, <1>3 DEF IndInv, Counted
  <2>3. QED  BY <1>4, <1>8, <2>1, <2>2 DEF Due
<1>10. SlotRefs(newFb) = 0  BY <1>3, SlotRefsFacts
<1>11. n[newFb] = 0 /\ refCount[newFb] >= 1 /\ newFb \notin R
  <2> newFb \in Bufs  BY <1>3
  <2>1. Fresh(newFb) = 0  BY <1>4, <1>10
  <2>2. n[newFb] = 0  BY <1>4, <1>10, <2>1
  <2>3. Due(newFb) >= 1  BY <1>8, <1>10 DEF Due
  <2>4. Due(newFb) \in Nat  BY <1>8, <1>10 DEF Due
  <2>5. refCount[newFb] >= 1  BY <1>4, <1>9, <2>3, <2>4
  <2>6. QED  BY <1>4, <1>6, <2>2, <2>5
<1>12. \A b \in Bufs : /\ refCount'[b] = refCount[b] - n[b]
                                         - (IF b = newFb THEN 1 ELSE 0)
                       /\ refCount'[b] \in Nat
  <2> SUFFICES ASSUME NEW b \in Bufs
               PROVE  /\ refCount'[b] = refCount[b] - n[b]
                                         - (IF b = newFb THEN 1 ELSE 0)
                      /\ refCount'[b] \in Nat
    OBVIOUS
  <2>1. n[b] <= refCount[b] /\ (b = newFb => n[b] = 0 /\ refCount[b] >= 1)
    BY <1>4, <1>8, <1>9, <1>11 DEF Due
  <2>2. Decreased(refCount[b], n[b]) = refCount[b] - n[b]
    BY <1>4, <2>1 DEF Decreased
  <2>3. QED  BY <1>2, <1>4, <2>1, <2>2
<1>13. /\ released' \in [Bufs -> BOOLEAN] /\ inUse' \in [Mems -> BOOLEAN]
       /\ decoded' \subseteq Bufs
       /\ \A b \in Bufs : Lent(b)' <=> Lent(b) /\ b \notin R
       /\ MemoryExclusive'
  BY <1>1, <1>2, <1>6, ReleaseKeeps
<1>14. ctxResync' = FALSE
  <2>1. kind = "inter" => ~ctxResync
    BY <1>3 DEF IndInv, Resync, Decoding
  <2>2. kind \in {"key", "intra", "inter"}  BY <1>1 DEF TypeOK, AllKinds
  <2>3. QED  BY <1>1, <1>2, <1>3, <2>1, <2>2 DEF CheckResync, TypeOK
<1>15. TypeOK'
  <2>1. refCount' \in [Bufs -> Nat]  BY <1>2, <1>12
  <2>2. QED  BY <1>1, <1>2, <1>13, <1>14, <2>1 DEF TypeOK
<1>16. Counted'
  <2> SUFFICES ASSUME NEW c \in Bufs
               PROVE  /\ refCount'[c] >= SlotRefs(c)' + CallRefs(c)'
                      /\ ~failed => refCount'[c] = SlotRefs(c)' + CallRefs(c)'
    BY <1>2 DEF Counted
  <2>1. CallRefs(c)' = 0  BY <1>2 DEF CallRefs, Holding, Claiming, Showing
  <2>2. SlotRefs(c)' = IF c = newFb THEN Cardinality(refresh)
                       ELSE Kept(c)
    BY <1>1, <1>2, <1>3, NextSlotRefs DEF Kept
  <2>3. CASE c = newFb
    <3>1. refCount'[c] = refCount[c] - 1
      <4>1. n[c] = 0 /\ refCount[c] \in Nat  BY <1>4, <1>11, <2>3
      <4>2. refCount'[c] = refCount[c] - n[c] - 1  BY <1>12, <2>3
      <4>3. QED  BY <4>1, <4>2
    <3>2. Due(c) = Cardinality(refresh) + 1  BY <1>8, <1>10, <2>3 DEF Due
    <3>3. QED  BY <1>4, <1>8, <1>9, <2>1, <2>2, <2>3, <3>1, <3>2
  <2>4. CASE c # newFb
    BY <1>4, <1>9, <1>12, <2>1, <2>2, <2>4 DEF Due
  <2>5. QED  BY <2>3, <2>4
<1>17. CallState'  BY <1>2 DEF CallState, Holding, Decoding
<1>18. LentCounted'
  <2> SUFFICES ASSUME NEW c \in Bufs, Lent(c)', c # newFb PROVE refCount'[c] > 0
    BY <1>2 DEF LentCounted
  <2>1. Decreased(refCount[c], n[c]) > 0  BY <1>7, <1>13
  <2>2. refCount'[c] = Decreased(refCount[c], n[c]) - 0  BY <1>2
  <2>3. Decreased(refCount[c], n[c]) \in Int
    BY <1>4, <1>5 DEF Decreased
  <2>4. QED  BY <2>1, <2>2, <2>3
<1>19. DecodedLent'
  <2>1. \A b \in decoded' : Lent(b)'
    BY <1>1, <1>2, <1>13 DEF IndInv, DecodedLent, ReleaseOf, TypeOK
  <2>2. ASSUME NEW s \in Slots, nextMap[s] # None
        PROVE  nextMap[s] \in decoded'
    <3>1. CASE s \in refresh
      BY <1>2, <1>3, <1>11, <3>1 DEF ReleaseOf
    <3>2. CASE s \notin refresh
      <4>1. nextMap[s] = refMap[s] /\ refMap[s] \in Bufs
            /\ refMap[s] \in decoded
        BY <1>1, <1>2, <1>3, <2>2, <3>2 DEF IndInv, DecodedLent, TypeOK
      <4>2. s \in SlotsOf(refMap[s]) \ refresh  BY <3>2 DEF SlotsOf
      <4>3. SlotsOf(refMap[s]) \ refresh \in SUBSET Slots  BY DEF SlotsOf
      <4>4. Kept(refMap[s]) # 0  BY <4>2, <4>3, SlotSets DEF Kept
      <4>5. refMap[s] # newFb  BY <1>3
      <4>6. n[refMap[s]] < refCount[refMap[s]]
        BY <1>4, <1>9, <4>1, <4>4, <4>5 DEF Due
      <4>7. refMap[s] \notin R  BY <1>4, <1>5, <1>6, <4>1, <4>6
      <4>8. QED  BY <1>2, <4>1, <4>7 DEF ReleaseOf
    <3>3. QED  BY <3>1, <3>2
  <2>3. QED  BY <1>2, <2>1, <2>2 DEF DecodedLent, Holding
<1>20. Resync'
  <2>1. newFb \in decoded'  BY <1>2, <1>3, <1>11 DEF ReleaseOf
  <2>2. QED
    BY <1>1, <1>2, <1>3, <1>14, <2>1
       DEF Resync, Decoding, Holding, Showing, TypeOK
<1>21. QED
  BY <1>13, <1>15, <1>16, <1>17, <1>18, <1>19, <1>20 DEF IndInv

-----------------------------------------------------------------------------
(* The theorems.                                                           *)

\* Every step of the decoder and of the application keeps the invariant.
LEMMA NextIndInv == IndInv /\ [Next]_vars => IndInv'
<1> SUFFICES ASSUME IndInv, [Next]_vars PROVE IndInv'
  OBVIOUS
<1>1. CASE \E k \in Kinds, b \in Bufs : Receive(k, b)
  BY <1>1, ReceiveIndInv
<1>2. CASE \E k \in Kinds : ReceiveNoFreeFb(k)
  BY <1>2, ReceiveNoFreeFbIndInv
<1>3. CASE Header
  <2>1. CASE HeaderError  BY <2>1, LongjmpIndInv
  <2>2. CASE \E s \in Slots : ShowExisting(s)  BY <2>2, ShowExistingIndInv
  <2>3. CASE \E m \in Mems, sh \in BOOLEAN : KeyHeader(m, sh)
    BY <2>3, KeyHeaderIndInv
  <2>4. CASE \E m \in Mems, rf \in Refreshes : IntraHeader(m, rf)
    BY <2>4, IntraHeaderIndInv
  <2>5. CASE \E m \in Mems, rf \in Refreshes, refs \in SUBSET Slots \ {{}},
                sh \in BOOLEAN : InterHeader(m, rf, refs, sh)
    BY <2>5, InterHeaderIndInv
  <2>6. QED  BY <1>3, <2>1, <2>2, <2>3, <2>4, <2>5 DEF Header
<1>4. CASE HeaderTruncated \/ DecodeError  BY <1>4, LongjmpIndInv
<1>5. CASE HoldRefs  BY <1>5, HoldRefsIndInv
<1>6. CASE DecodeTiles  BY <1>6, DecodeTilesIndInv
<1>7. CASE SwapFrameBuffers
  BY <1>7, SwapExistingIndInv, SwapDecodedIndInv
<1>8. CASE ErrorExit  BY <1>8, ErrorExitIndInv
<1>9. CASE GetFrame  BY <1>9, GetFrameIndInv
<1>10. CASE Destroy  BY <1>10, DestroyIndInv
<1>11. CASE Gone \/ UNCHANGED vars
  <2>1. UNCHANGED vars  BY <1>11 DEF Gone
  <2>2. UNCHANGED <<refCount, released, priv, inUse, refMap, nextMap, hold,
                    kind, show, refresh, frameRefs, needResync, ctxResync,
                    siKnown, shown, failed, newFb, ready, pc, img, decoded>>
    BY <2>1 DEF vars, poolVars, mapVars, frameVars, syncVars
  <2>3. \A b : Lent(b)' = Lent(b)  BY <2>2 DEF Lent
  <2>4. \A b : CallRefs(b)' = CallRefs(b) /\ SlotRefs(b)' = SlotRefs(b)
    BY <2>2, SameMap DEF CallRefs, Holding, Claiming, Showing
  <2>5. TypeOK' /\ MemoryExclusive'
    BY <2>2, <2>3 DEF IndInv, TypeOK, MemoryExclusive
  <2>6. Counted'  BY <2>2, <2>4 DEF IndInv, Counted
  <2>7. CallState' /\ LentCounted' /\ DecodedLent' /\ Resync'
    BY <2>2, <2>3 DEF IndInv, CallState, LentCounted, DecodedLent, Resync,
       Holding, Decoding, Showing
  <2>8. QED  BY <2>5, <2>6, <2>7 DEF IndInv
<1>12. QED
  BY <1>1, <1>2, <1>3, <1>4, <1>5, <1>6, <1>7, <1>8, <1>9, <1>10, <1>11
     DEF Next

\* The invariant holds throughout, whatever frames are decoded and wherever they
\* fail, for every number of slots and every larger pool.
THEOREM Invariance == Spec => []IndInv
BY InitIndInv, NextIndInv, PTL DEF Spec

\* Two buffers never share memory, and memory is given back exactly once.
THEOREM Exclusive == Spec => []MemoryExclusive
<1>1. IndInv => MemoryExclusive  BY DEF IndInv
<1>2. QED  BY <1>1, Invariance, PTL

\* Inter frames are predicted from completely decoded frames that stay in memory,
\* and a frame is never decoded over one that a slot names.
THEOREM References == Spec => [](RefsDecoded /\ RefsNotOverwritten)
<1>1. IndInv => RefsDecoded /\ RefsNotOverwritten
  <2> SUFFICES ASSUME IndInv PROVE RefsDecoded /\ RefsNotOverwritten
    OBVIOUS
  <2>1. RefsNotOverwritten
    BY DEF IndInv, CallState, Decoding, Holding, RefsNotOverwritten
  <2>2. ASSUME pc \in {"refs", "tiles"}, kind = "inter", NEW b \in frameRefs
        PROVE  b \in decoded /\ Lent(b) /\ b # newFb
    <3>1. PICK s \in Slots : refMap[s] = b
      BY <2>2 DEF IndInv, DecodedLent
    <3>2. b # None  BY <2>2, BufFacts DEF IndInv, TypeOK
    <3>3. ~needResync /\ b # newFb
      BY <2>2, <3>1 DEF IndInv, CallState, Decoding, Holding
    <3>4. b \in decoded
      BY <2>2, <3>1, <3>2, <3>3 DEF IndInv, DecodedLent
    <3>5. QED  BY <3>3, <3>4 DEF IndInv, DecodedLent
  <2>3. QED  BY <2>1, <2>2 DEF RefsDecoded
<1>2. QED  BY <1>1, Invariance, PTL

\* An image the application was given stays decoded and in memory until the next
\* call of the decoder.
THEOREM ImageStays == Spec => []ImageValid
<1>1. IndInv => ImageValid  BY DEF IndInv, Resync, DecodedLent, ImageValid
<1>2. QED  BY <1>1, Invariance, PTL

\* Both resynchronisation flags agree between calls, and when no key frame is
\* awaited every slot names a decoded frame in memory that is counted for it.
THEOREM Slotted == Spec => []SlotsValid
<1>1. IndInv => SlotsValid
  <2> SUFFICES ASSUME IndInv, pc = "idle"
               PROVE  /\ ctxResync = needResync
                      /\ ~needResync => \A s \in Slots : refMap[s] # None =>
                           /\ refMap[s] \in decoded /\ Lent(refMap[s])
                           /\ refCount[refMap[s]] >= SlotRefs(refMap[s])
    BY DEF SlotsValid, SlotRefs
  <2>1. ctxResync = needResync  BY DEF IndInv, Resync
  <2>2. ASSUME ~needResync, NEW s \in Slots, refMap[s] # None
        PROVE  /\ refMap[s] \in decoded /\ Lent(refMap[s])
               /\ refCount[refMap[s]] >= SlotRefs(refMap[s])
    <3>1. refMap[s] \in Bufs  BY <2>2 DEF IndInv, TypeOK
    <3>2. refMap[s] \in decoded /\ Lent(refMap[s])
      BY <2>2 DEF IndInv, DecodedLent
    <3>3. CallRefs(refMap[s]) = 0
      BY DEF CallRefs, Holding, Claiming, Showing
    <3>4. SlotRefs(refMap[s]) \in Nat  BY SlotRefsFacts
    <3>5. refCount[refMap[s]] >= SlotRefs(refMap[s]) + CallRefs(refMap[s])
      BY <2>2, <3>1 DEF IndInv, Counted
    <3>6. QED  BY <3>2, <3>3, <3>4, <3>5
  <2>3. QED  BY <2>1, <2>2
<1>2. QED  BY <1>1, Invariance, PTL

\* Without errors since the pool was flushed the counts are exact, ...
LEMMA ExactCounts == IndInv => CountsExact
<1> SUFFICES ASSUME IndInv, pc = "idle", ~failed, NEW b \in Bufs
             PROVE  refCount[b] = SlotRefs(b)
  BY DEF CountsExact, SlotRefs
<1>1. CallRefs(b) = 0  BY DEF CallRefs, Holding, Claiming, Showing
<1>2. refCount[b] = SlotRefs(b) + CallRefs(b)  BY DEF IndInv, Counted
<1>3. QED  BY <1>1, <1>2, SlotRefsFacts

\* ... and, since there are more buffers than slots, one is free for the next
\* frame.
LEMMA FreeBuffer == IndInv => PoolSuffices
<1> SUFFICES ASSUME IndInv, pc = "idle", ~failed,
                    \A b \in Bufs : refCount[b] # 0
             PROVE  FALSE
  BY DEF PoolSuffices
<1> DEFINE S == {s \in Slots : refMap[s] # None}
           f == [s \in S |-> refMap[s]]
<1>1. \A b \in Bufs : \E s \in Slots : refMap[s] = b
  <2>1. \A b \in Bufs : SlotRefs(b) # 0
    BY ExactCounts DEF CountsExact, SlotRefs
  <2>2. QED  BY <2>1, SlotRefsFacts
<1>2. f \in Surjection(S, Bufs)
  <2>1. f \in [S -> Bufs]  BY DEF IndInv, TypeOK
  <2>2. \A b \in Bufs : \E s \in S : f[s] = b  BY <1>1, BufFacts
  <2>3. QED  BY <2>1, <2>2 DEF Surjection
<1>3. IsFiniteSet(S) /\ Cardinality(S) <= Cardinality(Slots)
  <2>1. S \subseteq Slots  OBVIOUS
  <2>2. QED  BY <2>1, SlotsFinite, FS_Subset
<1>4. Cardinality(Bufs) <= Cardinality(S)  BY <1>2, <1>3, FS_Surjection
<1>5. Cardinality(S) \in Nat  BY <1>3, FS_CardinalityType
<1>6. QED
  BY <1>3, <1>4, <1>5, SlotsFinite, BufsFinite, PoolAssumption

\* Memory nobody references has been given back, and counts are the references
\* there are, again once an error has been flushed; all memory has been given back
\* after the decoder is destroyed.
THEOREM Returned == Spec => []MemoryReturned
<1>1. IndInv => MemoryReturned
  <2> SUFFICES ASSUME IndInv PROVE MemoryReturned
    OBVIOUS
  <2>1. pc = "idle" => \A b \in Bufs :
          Lent(b) => refCount[b] > 0 \/ b = newFb
    BY DEF IndInv, LentCounted
  <2>2. pc = "gone" => \A m \in Mems : ~inUse[m]
    BY DEF IndInv, LentCounted, MemoryExclusive
  <2>3. QED  BY <2>1, <2>2, ExactCounts DEF MemoryReturned
<1>2. QED  BY <1>1, Invariance, PTL

\* As long as nothing has failed since the pool was last flushed, the reference
\* counts of the decoder are exact, for every size of the pool.
THEOREM ErrorFree == Spec => []CountsExact
<1>1. QED  BY ExactCounts, Invariance, PTL

\* Then get_free_fb() finds a buffer, for every pool with more buffers than slots.
THEOREM PoolNeverDry == Spec => []PoolSuffices
<1>1. QED  BY FreeBuffer, Invariance, PTL

-----------------------------------------------------------------------------
(* The lookahead: the ring keeps the last frame and implements the queue. *)

USE DEF MAX_PRE_FRAMES

\* Indices: a position in the ring is a slot.
LEMMA ForwardInRing ==
  ASSUME readIdx \in Entries, NEW i \in 0 .. Depth
  PROVE  Forward(i) \in Entries
BY LookaheadAssumption DEF Forward, Entries, MaxSz

\* Different positions are different slots.
LEMMA ForwardDistinct ==
  ASSUME readIdx \in Entries, NEW i \in 0 .. Depth, NEW j \in 0 .. Depth, i # j
  PROVE  Forward(i) # Forward(j)
BY LookaheadAssumption DEF Forward, Entries, MaxSz

\* The slot behind the read index is the last position of the ring.
LEMMA BackwardIsLast ==
  ASSUME readIdx \in Entries
  PROVE  Backward = Forward(Depth)
BY LookaheadAssumption DEF Forward, Backward, Entries, MaxSz

\* A step of the index.
LEMMA AfterForward ==
  ASSUME readIdx \in Entries, NEW i \in 0 .. Depth - 1
  PROVE  After(Forward(i)) = Forward(i + 1)
BY LookaheadAssumption DEF After, Forward, Entries, MaxSz

LEMMA AfterInRing ==
  ASSUME NEW i \in Entries
  PROVE  After(i) \in Entries
BY LookaheadAssumption DEF After, Entries, MaxSz

\* What is not full has a position left besides that of the last frame.
LEMMA NotFull ==
  ASSUME LookaheadTypeOK, ~Full
  PROVE  sz \in 0 .. Depth - 1
BY LookaheadAssumption DEF LookaheadTypeOK, Full, MaxSz

\* What the queue holds after the read index moved on.
LEMMA Moved ==
  ASSUME readIdx \in Entries, readIdx' = After(readIdx), NEW i \in 0 .. Depth - 1
  PROVE  Forward(i)' = Forward(i + 1)
BY LookaheadAssumption DEF After, Forward, Entries, MaxSz

LEMMA MovedBehind ==
  ASSUME readIdx \in Entries, readIdx' = After(readIdx)
  PROVE  Backward' = readIdx
BY LookaheadAssumption DEF After, Backward, Entries, MaxSz

LEMMA InitInv == LookaheadInit => LookaheadInv
<1> SUFFICES ASSUME LookaheadInit PROVE LookaheadInv
  OBVIOUS
<1>1. LookaheadTypeOK
  BY LookaheadAssumption DEF LookaheadInit, LookaheadTypeOK, Entries, MaxSz
<1>2. WriterAhead /\ LastIsKept
  BY LookaheadAssumption DEF LookaheadInit, WriterAhead, LastIsKept, Forward, MaxSz
<1> QED
  BY <1>1, <1>2 DEF LookaheadInv

LEMMA PushInv ==
  ASSUME LookaheadInv, NEW i \in Images, NEW s \in Sizes, Push(i, s)
  PROVE  LookaheadInv'
<1> USE DEF LookaheadInv
<1>0. sz \in 0 .. Depth - 1 /\ readIdx \in Entries /\ writeIdx = Forward(sz)
  BY NotFull DEF Push, LookaheadTypeOK, WriterAhead
<1>1. sz \in 0 .. Depth /\ Depth \in 0 .. Depth /\ sz # Depth
  BY <1>0, LookaheadAssumption
<1>2. LookaheadTypeOK'
  <2>1. sz' \in 0 .. Depth
    BY <1>0, LookaheadAssumption DEF Push
  <2>2. writeIdx' \in Entries
    BY AfterInRing DEF Push, LookaheadTypeOK
  <2>3. buf' \in [Entries -> [img : Images \cup {NoImage}, size : Sizes]]
    BY DEF Push, LookaheadTypeOK
  <2> QED
    BY <2>1, <2>2, <2>3 DEF Push, LookaheadTypeOK
<1>3. WriterAhead'
  <2>1. writeIdx' = Forward(sz + 1)
    BY <1>0, AfterForward DEF Push
  <2> QED
    BY <2>1 DEF Push, WriterAhead, Forward
<1>4. LastIsKept'
  <2>1. writeIdx # Backward
    BY <1>0, <1>1, ForwardDistinct, BackwardIsLast
  <2>2. Backward' = Backward
    BY DEF Push, Backward
  <2>3. Backward \in Entries
    BY <1>0, <1>1, BackwardIsLast, ForwardInRing
  <2> QED
    BY <2>1, <2>2, <2>3 DEF Push, LastIsKept, LookaheadTypeOK
<1> QED
  BY <1>2, <1>3, <1>4

LEMMA PopInv ==
  ASSUME LookaheadInv, NEW drain \in BOOLEAN, Pop(drain)
  PROVE  LookaheadInv'
<1> USE DEF LookaheadInv
<1>0. sz \in 1 .. Depth /\ readIdx \in Entries /\ Forward(0) = readIdx
  BY LookaheadAssumption DEF Pop, LookaheadTypeOK, Forward, Entries, MaxSz
<1>1. CASE TopLayer
  <2>1. /\ readIdx' = After(readIdx) /\ sz' = sz - 1 /\ layer' = 0
        /\ last' = buf[readIdx].img /\ source' = buf[readIdx].img
        /\ writeIdx' = writeIdx /\ buf' = buf
    BY <1>0, <1>1 DEF Pop
  <2>2. buf[readIdx].img \in Images \cup {NoImage}
    BY <1>0 DEF LookaheadTypeOK
  <2>3. LookaheadTypeOK'
    BY <1>0, <2>1, <2>2, AfterInRing, LookaheadAssumption DEF LookaheadTypeOK
  <2>4. WriterAhead'
    BY <1>0, <2>1, LookaheadAssumption
       DEF WriterAhead, Forward, After, Entries, MaxSz
  <2>5. LastIsKept'
    BY <1>0, <2>1, MovedBehind DEF LastIsKept
  <2> QED
    BY <2>3, <2>4, <2>5
<1>2. CASE ~TopLayer
  <2>1. /\ layer' = layer + 1 /\ source' = buf[readIdx].img
        /\ UNCHANGED <<readIdx, sz, last, writeIdx, buf>>
    BY <1>0, <1>2 DEF Pop
  <2>2. layer' \in 0 .. Layers - 1
    BY <1>2, <2>1, LookaheadAssumption DEF TopLayer, LookaheadTypeOK
  <2>3. source' \in Images \cup {NoImage}
    BY <1>0, <2>1 DEF LookaheadTypeOK
  <2> QED
    BY <2>1, <2>2, <2>3
       DEF LookaheadTypeOK, WriterAhead, LastIsKept, Forward, Backward
<1> QED
  BY <1>1, <1>2

\* The inductive invariant of the ring.
THEOREM RingInv == LookaheadSpec => []LookaheadInv
<1>1. LookaheadInit => LookaheadInv
  BY InitInv
<1>2. LookaheadInv /\ [LookaheadNext]_lookaheadVars => LookaheadInv'
  <2> SUFFICES ASSUME LookaheadInv, [LookaheadNext]_lookaheadVars PROVE LookaheadInv'
    OBVIOUS
  <2>1. CASE UNCHANGED lookaheadVars
    BY <2>1 DEF lookaheadVars, LookaheadInv, LookaheadTypeOK, WriterAhead,
                  LastIsKept, Forward, Backward
  <2> QED
    BY <2>1, PushInv, PopInv DEF LookaheadNext
<1> QED
  BY <1>1, <1>2, PTL DEF LookaheadSpec

\* The frame that was removed last is never overwritten: a peek at -1 returns it.
THEOREM LastFrameKept == LookaheadSpec => []LastIsKept
BY RingInv, PTL DEF LookaheadInv

-----------------------------------------------------------------------------
(* The ring implements the queue.                                          *)

\* The frames in the queue.
Queued == [i \in 1 .. sz |-> buf[Forward(i - 1)].img]

\* A sequence is the function of its elements.
LEMMA SeqAsFunction ==
  ASSUME NEW S, NEW q \in Seq(S)
  PROVE  q = [j \in 1 .. Len(q) |-> q[j]]
<1>1. q \in [1 .. Len(q) -> S]
  OBVIOUS
<1> QED
  BY <1>1, Zenon

LEMMA QueuedIsSeq ==
  ASSUME LookaheadTypeOK
  PROVE  Queued \in Seq(Images \cup {NoImage}) /\ Len(Queued) = sz
<1>1. \A i \in 1 .. sz : buf[Forward(i - 1)].img \in Images \cup {NoImage}
  <2> SUFFICES ASSUME NEW i \in 1 .. sz
               PROVE  buf[Forward(i - 1)].img \in Images \cup {NoImage}
    OBVIOUS
  <2>1. i - 1 \in 0 .. Depth
    BY LookaheadAssumption DEF LookaheadTypeOK
  <2>2. Forward(i - 1) \in Entries
    BY <2>1, ForwardInRing DEF LookaheadTypeOK
  <2> QED
    BY <2>2 DEF LookaheadTypeOK
<1>2. sz \in Nat
  BY LookaheadAssumption DEF LookaheadTypeOK
<1> QED
  BY <1>1, <1>2 DEF Queued

\* The frames in the queue are those of the refinement mapping.
LEMMA InitQueue == LookaheadInit => Abstract!QueueInit
<1> SUFFICES ASSUME LookaheadInit PROVE Abstract!QueueInit
  OBVIOUS
<1>1. [i \in 1 .. sz |-> buf[Forward(i - 1)].img] = <<>>
  BY DEF LookaheadInit
<1> QED
  BY <1>1 DEF LookaheadInit, Abstract!QueueInit, NoImage, Abstract!None

\* A push appends to the queue.
LEMMA PushQueue ==
  ASSUME LookaheadInv, NEW i \in Images, NEW s \in Sizes, Push(i, s)
  PROVE  Abstract!Enqueue(i)
<1>0. /\ sz \in 0 .. Depth - 1 /\ readIdx \in Entries /\ writeIdx = Forward(sz)
      /\ sz' = sz + 1 /\ readIdx' = readIdx
      /\ buf' = [buf EXCEPT ![writeIdx] = [img |-> i, size |-> s]]
  BY NotFull DEF Push, LookaheadInv, LookaheadTypeOK, WriterAhead
<1>1. \A j \in 1 .. sz : buf'[Forward(j - 1)] = buf[Forward(j - 1)]
  <2> SUFFICES ASSUME NEW j \in 1 .. sz
               PROVE  buf'[Forward(j - 1)] = buf[Forward(j - 1)]
    OBVIOUS
  <2>1. j - 1 \in 0 .. Depth /\ sz \in 0 .. Depth /\ j - 1 # sz
    BY <1>0, LookaheadAssumption
  <2>2. Forward(j - 1) # writeIdx
    BY <1>0, <2>1, ForwardDistinct
  <2>3. Forward(j - 1) \in Entries
    BY <1>0, <2>1, ForwardInRing
  <2> QED
    BY <1>0, <2>2, <2>3 DEF LookaheadInv, LookaheadTypeOK
<1>2. buf'[Forward(sz)].img = i
  <2>1. writeIdx \in Entries
    BY DEF LookaheadInv, LookaheadTypeOK
  <2> QED
    BY <1>0, <2>1 DEF LookaheadInv, LookaheadTypeOK
<1>3. \A j \in Nat : Forward(j)' = Forward(j)
  BY <1>0 DEF Forward
<1>4. Queued' = Append(Queued, i)
  <2>1. Queued' = [j \in 1 .. sz + 1 |-> buf'[Forward(j - 1)].img]
    <3>1. \A j \in 1 .. sz + 1 : j - 1 \in Nat
      BY <1>0, LookaheadAssumption
    <3> QED
      BY <1>0, <1>3, <3>1 DEF Queued
  <2>2. Queued \in Seq(Images \cup {NoImage}) /\ Len(Queued) = sz
    BY QueuedIsSeq DEF LookaheadInv
  <2>3. Append(Queued, i) \in Seq(Images \cup {NoImage})
        /\ Len(Append(Queued, i)) = sz + 1
    BY <2>2
  <2>4. \A j \in 1 .. sz + 1 :
          Append(Queued, i)[j] = buf'[Forward(j - 1)].img
    <3> SUFFICES ASSUME NEW j \in 1 .. sz + 1
                 PROVE  Append(Queued, i)[j] = buf'[Forward(j - 1)].img
      OBVIOUS
    <3>1. CASE j = sz + 1
      <4>1. j - 1 = sz
        BY <1>0, <3>1, LookaheadAssumption
      <4>2. Append(Queued, i)[j] = i
        BY <2>2, <3>1
      <4> QED
        BY <1>2, <4>1, <4>2
    <3>2. CASE j # sz + 1
      <4>1. j \in 1 .. sz
        BY <1>0, <3>2, LookaheadAssumption
      <4>2. Append(Queued, i)[j] = Queued[j]
        BY <2>2, <4>1
      <4>3. Queued[j] = buf[Forward(j - 1)].img
        BY <4>1 DEF Queued
      <4> QED
        BY <1>1, <4>1, <4>2, <4>3
    <3> QED
      BY <3>1, <3>2
  <2>5. Append(Queued, i) = [j \in 1 .. sz + 1 |-> Append(Queued, i)[j]]
    BY <2>3, SeqAsFunction, Zenon
  <2> QED
    BY <2>1, <2>4, <2>5
<1>5. Len(Queued) < Depth
  BY <1>0, QueuedIsSeq, LookaheadAssumption DEF LookaheadInv
<1> QED
  BY <1>4, <1>5 DEF Queued, Abstract!Enqueue, Push

\* A pop takes the head of the queue, or leaves the queue as it is.
LEMMA PopQueue ==
  ASSUME LookaheadInv, NEW drain \in BOOLEAN, Pop(drain)
  PROVE  Abstract!Dequeue
<1>0. sz \in 1 .. Depth /\ readIdx \in Entries /\ Forward(0) = readIdx
  BY LookaheadAssumption DEF Pop, LookaheadInv, LookaheadTypeOK, Forward, Entries, MaxSz
<1>1. Queued \in Seq(Images \cup {NoImage}) /\ Len(Queued) = sz
  BY QueuedIsSeq DEF LookaheadInv
<1>2. Queued # <<>>
  BY <1>0, <1>1, LookaheadAssumption
<1>3. Head(Queued) = buf[readIdx].img
  <2>1. 1 \in 1 .. sz /\ 1 - 1 = 0
    BY <1>0, LookaheadAssumption
  <2>2. Queued[1] = buf[Forward(0)].img
    BY <2>1 DEF Queued
  <2> QED
    BY <1>0, <1>1, <2>2
<1>4. source' = Head(Queued)
  BY <1>0, <1>3 DEF Pop
<1>5. CASE TopLayer
  <2>1. /\ readIdx' = After(readIdx) /\ sz' = sz - 1 /\ layer' = 0
        /\ last' = buf[readIdx].img /\ buf' = buf
    BY <1>5 DEF Pop
  <2>2. \A j \in 1 .. sz - 1 : Forward(j - 1)' = Forward(j)
    <3> SUFFICES ASSUME NEW j \in 1 .. sz - 1
                 PROVE  Forward(j - 1)' = Forward(j)
      OBVIOUS
    <3>1. j - 1 \in 0 .. Depth - 1 /\ j - 1 + 1 = j
      BY <1>0, LookaheadAssumption
    <3> QED
      BY <1>0, <2>1, <3>1, Moved
  <2>3. Queued' = [j \in 1 .. sz - 1 |-> buf[Forward(j)].img]
    BY <2>1, <2>2 DEF Queued
  <2>4. Tail(Queued) \in Seq(Images \cup {NoImage}) /\ Len(Tail(Queued)) = sz - 1
    BY <1>0, <1>1, <1>2, LookaheadAssumption
  <2>5. \A j \in 1 .. sz - 1 : Tail(Queued)[j] = buf[Forward(j)].img
    <3> SUFFICES ASSUME NEW j \in 1 .. sz - 1
                 PROVE  Tail(Queued)[j] = buf[Forward(j)].img
      OBVIOUS
    <3>1. j + 1 \in 1 .. sz /\ j + 1 - 1 = j
      BY <1>0, LookaheadAssumption
    <3>2. Tail(Queued)[j] = Queued[j + 1]
      BY <1>0, <1>1, <1>2, LookaheadAssumption
    <3>3. Queued[j + 1] = buf[Forward(j)].img
      BY <3>1 DEF Queued
    <3> QED
      BY <3>2, <3>3
  <2>6. Tail(Queued) = [j \in 1 .. sz - 1 |-> Tail(Queued)[j]]
    BY <2>4, SeqAsFunction, Zenon
  <2>7. Queued' = Tail(Queued)
    BY <2>3, <2>5, <2>6
  <2> QED
    BY <1>2, <1>3, <1>4, <1>5, <2>1, <2>7
       DEF Queued, Abstract!Dequeue, TopLayer
<1>6. CASE ~TopLayer
  <2>1. layer' = layer + 1 /\ UNCHANGED <<readIdx, sz, last, buf>>
    BY <1>6 DEF Pop
  <2>2. Queued' = Queued
    BY <2>1 DEF Queued, Forward
  <2> QED
    BY <1>2, <1>4, <1>6, <2>1, <2>2 DEF Queued, Abstract!Dequeue, TopLayer
<1> QED
  BY <1>5, <1>6

\* The ring buffer of the lookahead implements the queue, for every depth and
\* number of layers: frames come out complete, in order, and for the highest
\* layer once.
THEOREM LookaheadIsQueue == LookaheadSpec => QueueSpec
<1>1. LookaheadInit => Abstract!QueueInit
  BY InitQueue
<1>2. LookaheadInv /\ [LookaheadNext]_lookaheadVars => [Abstract!QueueNext]_(Abstract!QueueVars)
  <2> SUFFICES ASSUME LookaheadInv, [LookaheadNext]_lookaheadVars
               PROVE  [Abstract!QueueNext]_(Abstract!QueueVars)
    OBVIOUS
  <2>1. CASE UNCHANGED lookaheadVars
    <3>1. Queued' = Queued
      BY <2>1 DEF lookaheadVars, Queued, Forward
    <3> QED
      BY <2>1, <3>1 DEF lookaheadVars, Queued, Abstract!QueueVars
  <2> QED
    BY <2>1, PushQueue, PopQueue DEF LookaheadNext, Abstract!QueueNext
<1> QED
  BY <1>1, <1>2, RingInv, PTL DEF LookaheadSpec, QueueSpec, Abstract!QueueSpec
=============================================================================
