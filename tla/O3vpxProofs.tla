---------------------------- MODULE O3vpxProofs ----------------------------
(***************************************************************************)
(* The wrapper for small consoles.  Its accounts hold and the stream keeps *)
(* its target, for every number of frames, key plan, target, deal of the   *)
(* budget and payload; the encoder, repair by repair, implements those     *)
(* accounts, because its estimate covers what it writes; and encoder and   *)
(* decoder stay together and keep the two eyes apart, for pictures of any  *)
(* size.  A repaired block is read back as it was written and changes the  *)
(* picture as the full transform would, whatever its coefficients.         *)
(***************************************************************************)
EXTENDS O3vpxEncoder, O3vpxCodec, FiniteSetTheorems, SequenceTheorems,
        WellFoundedInduction, TLAPS

(* P frames among the first i.                                              *)
Ps(i) == i - kcount[i]

TypeOK ==
  /\ pc \in {"keys", "deal", "encode", "done", "refused", "died"}
  /\ frames \in 1..MaxFrames /\ keyint \in Nat /\ target \in Nat
  /\ scene \in [Indices -> BOOLEAN]
  /\ fno \in 0..frames /\ lastKey \in Nat
  /\ key \in [Indices -> BOOLEAN]
  /\ kcount \in [Indices -> Nat] /\ alloc \in [Indices -> Int]
  /\ pTotal \in Int /\ pBudget \in Int
  /\ remaining \in Int /\ pLeft \in Int /\ bytes \in Int

(* How far the loop over the keys has come.                                 *)
Counted == IF pc = "keys" THEN fno ELSE frames

(* key_count counts the keys, and therefore neither falls nor outruns the   *)
(* frames.                                                                  *)
CountsKeys ==
  /\ kcount[0] = 0
  /\ \A i \in Indices : i < Counted =>
       kcount[i + 1] = kcount[i] + (IF key[i] THEN 1 ELSE 0)
  /\ \A i, j \in Indices : i <= j /\ j <= Counted =>
       Ps(i) <= Ps(j)

Planned == pc \in {"deal", "encode", "done"}

(* How far the budget is dealt out.                                         *)
Dealt == IF pc = "deal" THEN fno ELSE frames

(* Any stretch of frames was promised at least the minimum of its P frames. *)
Promises ==
  Planned /\ PCount > 0 =>
    \A i, j \in Indices : i <= j /\ j <= Dealt =>
      alloc[j] - alloc[i] >= MinPayload * (Ps(j) - Ps(i))

(* How far the stream is written.                                           *)
Encoded == IF pc = "deal" THEN 0 ELSE fno

(* The bytes written are those of the frames passed and of what was taken   *)
(* from the budget, which still covers the frames to come.                  *)
Accounts ==
  Planned =>
    /\ pTotal = PayloadBudget /\ pBudget \in Nat
    /\ pLeft = PCount - Ps(Encoded)
    /\ remaining >= MinPayload * pLeft
    /\ bytes = FileHeader + kcount[Encoded] * (KeyPayload + FrameHeader)
               + Ps(Encoded) * FrameHeader + (pTotal - remaining)
    /\ pc = "done" => fno = frames

Unwritten == pc = "keys" => bytes = FileHeader

IndInv == Unwritten /\ TypeOK /\ CountsKeys /\ Promises /\ Accounts /\ AccountsHold

LEMMA ShareCovers ==
  ASSUME NEW a \in Int, NEW b \in Nat, b > 0, NEW m \in Nat, a \div b >= m
  PROVE  a >= m * b
<1> DEFINE q == a \div b
<1>1. q \in Int /\ a >= q * b
  OBVIOUS
<1>2. q * b >= m * b
  <2> HIDE DEF q
  <2>1. \E d \in Nat : q = m + d
    <3>1. q - m \in Nat
      BY <1>1 DEF q
    <3> QED BY <3>1, <1>1
  <2>2. PICK d \in Nat : q = m + d
    BY <2>1
  <2>3. d * b \in Nat /\ (m + d) * b = m * b + d * b
    OBVIOUS
  <2> QED BY <2>2, <2>3
<1> QED BY <1>1, <1>2

LEMMA OneMore ==
  ASSUME NEW m \in Int, NEW x \in Int
  PROVE  m * x \in Int /\ m * (x + 1) = m * x + m
OBVIOUS

LEMMA InitInv == Init => IndInv
<1> SUFFICES ASSUME Init PROVE IndInv
  OBVIOUS
<1> USE BudgetAssumption
<1>1. TypeOK
  BY DEF Init, TypeOK, Indices
<1>2. CountsKeys
  BY DEF Init, CountsKeys, Counted, Ps, Indices
<1>3. Promises /\ Accounts /\ AccountsHold /\ Unwritten
  BY DEF Init, Promises, Accounts, AccountsHold, Planned, Unwritten
<1> QED BY <1>1, <1>2, <1>3 DEF IndInv

(* A step that leaves the plan of the keys alone and does not go back to it. *)
LEMMA KeysKept ==
  ASSUME IndInv, UNCHANGED <<frames, key, kcount>>, Counted' = Counted
  PROVE  CountsKeys'
BY DEF IndInv, CountsKeys, Ps, Indices

LEMMA PlanKeyInv == IndInv /\ PlanKey => IndInv'
<1> SUFFICES ASSUME IndInv, PlanKey PROVE IndInv'
  OBVIOUS
<1> USE BudgetAssumption
<1>0. TypeOK /\ CountsKeys
  BY DEF IndInv
<1>1. /\ fno \in Indices /\ fno + 1 \in Indices /\ fno' = fno + 1
      /\ pc = "keys" /\ pc' = "keys" /\ fno < frames /\ UNCHANGED frames
  BY <1>0 DEF PlanKey, TypeOK, Indices, planVars
<1>2. IsKey(fno) \in BOOLEAN
  BY DEF IsKey, SceneKey, MaxIntervalKey
<1>3. TypeOK'
  BY <1>0, <1>1, <1>2 DEF PlanKey, TypeOK, planVars, dealVars, spendVars
<1>4. CountsKeys'
  <2>1. kcount'[fno + 1] = kcount[fno] + (IF key'[fno] THEN 1 ELSE 0)
    BY <1>0, <1>1, <1>2 DEF PlanKey, TypeOK
  <2>2. \A i \in Indices : i # fno + 1 => kcount'[i] = kcount[i]
    BY <1>0, <1>1 DEF PlanKey, TypeOK
  <2>3. \A i \in Indices : i # fno => key'[i] = key[i]
    BY <1>0, <1>1 DEF PlanKey, TypeOK
  <2>4. kcount \in [Indices -> Nat] /\ key' \in [Indices -> BOOLEAN]
    BY <1>0, <1>3 DEF TypeOK
  <2>5. Counted = fno /\ Counted' = fno + 1
    BY <1>1 DEF Counted
  <2>6. kcount'[0] = 0
    BY <2>2, <1>0, <1>1 DEF CountsKeys, Indices, TypeOK
  <2>7. ASSUME NEW i \in Indices, i < fno + 1
        PROVE  kcount'[i + 1] = kcount'[i] + (IF key'[i] THEN 1 ELSE 0)
    <3>1. CASE i = fno
      BY <3>1, <2>1, <2>2, <1>1
    <3>2. CASE i # fno
      <4>1. i < fno /\ i + 1 \in Indices /\ i + 1 # fno + 1 /\ i # fno + 1
        BY <3>2, <2>7, <1>1, <1>0 DEF Indices, TypeOK
      <4> QED BY <4>1, <2>2, <2>3, <2>5, <1>0 DEF CountsKeys
    <3> QED BY <3>1, <3>2
  <2>8. ASSUME NEW i \in Indices, NEW j \in Indices, i <= j, j <= fno + 1
        PROVE  i - kcount'[i] <= j - kcount'[j]
    <3>1. CASE j # fno + 1
      <4>1. j <= fno /\ i # fno + 1
        BY <3>1, <2>8, <1>1 DEF Indices
      <4> QED BY <4>1, <3>1, <2>2, <2>5, <2>8, <1>0 DEF CountsKeys, Ps
    <3>2. CASE j = fno + 1 /\ i = fno + 1
      BY <3>2, <2>1, <2>4, <1>1
    <3>3. CASE j = fno + 1 /\ i # fno + 1
      <4>1. i <= fno
        BY <3>3, <2>8, <1>1 DEF Indices
      <4>2. i - kcount[i] <= fno - kcount[fno]
        BY <4>1, <2>5, <1>0, <1>1 DEF CountsKeys, Ps, Indices
      <4>3. kcount'[i] = kcount[i]
        BY <3>3, <2>2
      <4>4. kcount'[j] <= kcount[fno] + 1 /\ kcount'[j] \in Nat
        BY <3>3, <2>1, <2>4, <1>1
      <4> QED BY <4>2, <4>3, <4>4, <3>3, <2>4, <1>1 DEF Indices
    <3> QED BY <3>1, <3>2, <3>3
  <2> QED BY <2>5, <2>6, <2>7, <2>8 DEF CountsKeys, Ps
<1>5. Promises' /\ Accounts' /\ AccountsHold' /\ Unwritten'
  BY <1>1 DEF Promises, Accounts, AccountsHold, Planned, Unwritten, IndInv,
              PlanKey, spendVars
<1> QED BY <1>3, <1>4, <1>5 DEF IndInv

(* The number of P frames is that of the frames without a key.              *)
LEMMA PFrames ==
  ASSUME IndInv, pc # "keys" \/ fno = frames
  PROVE  /\ KeyCount \in Nat /\ PCount \in Nat /\ PCount = Ps(frames)
         /\ Ps(0) = 0 /\ frames \in Indices /\ 0 \in Indices
         /\ \A i \in Indices : i <= frames => Ps(i) \in Nat /\ Ps(i) <= PCount
<1> USE BudgetAssumption
<1>1. TypeOK /\ CountsKeys /\ Counted = frames
  BY DEF IndInv, Counted
<1>2. /\ frames \in Indices /\ 0 \in Indices /\ kcount \in [Indices -> Nat]
      /\ frames \in Nat
  BY <1>1 DEF TypeOK, Indices
<1>3. Ps(0) = 0 /\ Ps(0) <= Ps(frames) /\ KeyCount \in Nat
  BY <1>1, <1>2 DEF CountsKeys, Ps, KeyCount
<1>4. \A i \in Indices : i <= frames =>
        Ps(0) <= Ps(i) /\ Ps(i) <= Ps(frames) /\ Ps(i) \in Int
  BY <1>1, <1>2 DEF CountsKeys, Ps, Indices
<1>5. PCount = Ps(frames) /\ PCount \in Int
  BY <1>2 DEF PCount, Ps, KeyCount
<1> QED BY <1>2, <1>3, <1>4, <1>5

LEMMA PlanBudgetInv == IndInv /\ PlanBudget => IndInv'
<1> SUFFICES ASSUME IndInv, PlanBudget PROVE IndInv'
  OBVIOUS
<1> USE BudgetAssumption
<1>0. TypeOK /\ pc = "keys" /\ fno = frames
  BY DEF IndInv, PlanBudget
<1>1. /\ KeyCount \in Nat /\ PCount \in Nat /\ PCount = Ps(frames)
      /\ Ps(0) = 0 /\ frames \in Indices /\ 0 \in Indices
  BY <1>0, PFrames
<1>2. UNCHANGED <<planVars, keyVars>> /\ pc' \in {"deal", "encode", "refused"}
  BY DEF PlanBudget
<1>3. /\ frames' = frames /\ key' = key /\ kcount' = kcount /\ target' = target
      /\ PCount' = PCount /\ KeyCount' = KeyCount
      /\ PayloadBudget' = PayloadBudget
  BY <1>2 DEF planVars, keyVars, PCount, KeyCount, PayloadBudget
<1>4. PayloadBudget \in Int
  <2>1. KeyCount * (KeyPayload + FrameHeader) \in Int /\ PCount * FrameHeader \in Int
    BY <1>1
  <2> QED BY <2>1, <1>0, <1>1 DEF PayloadBudget, TypeOK
<1>5. CountsKeys'
  <2>1. Counted' = Counted
    BY <1>0, <1>2, <1>3 DEF Counted
  <2> QED BY <2>1, <1>3, KeysKept
<1>6. CASE ~MayPlan
  <2>1. pc' = "refused" /\ UNCHANGED <<fno, dealVars, spendVars>>
    BY <1>6 DEF PlanBudget
  <2>2. TypeOK'
    BY <2>1, <1>0, <1>2 DEF TypeOK, planVars, keyVars, dealVars, spendVars
  <2>3. Promises' /\ Accounts' /\ AccountsHold' /\ Unwritten'
    BY <2>1 DEF Promises, Accounts, AccountsHold, Planned, Unwritten
  <2> QED BY <2>2, <2>3, <1>5 DEF IndInv
<1>7. CASE MayPlan
  <2>1. /\ pc' = (IF PCount > 0 THEN "deal" ELSE "encode") /\ fno' = 0
        /\ pTotal' = PayloadBudget /\ pBudget' = Share
        /\ remaining' = PayloadBudget /\ pLeft' = PCount
        /\ alloc' = alloc /\ bytes' = bytes
    BY <1>7 DEF PlanBudget
  <2>2. Share \in Nat /\ PayloadBudget >= MinPayload * PCount
    <3>1. CASE PCount > 0
      <4>1. Share = PayloadBudget \div PCount /\ Share >= MinPayload
        BY <3>1, <1>7 DEF MayPlan, Share
      <4>2. Share \in Nat
        BY <4>1, <3>1, <1>1, <1>4
      <4>3. PayloadBudget >= MinPayload * PCount
        BY <4>1, <3>1, <1>1, <1>4, ShareCovers
      <4> QED BY <4>2, <4>3
    <3>2. CASE ~(PCount > 0)
      <4>1. PCount = 0
        BY <3>2, <1>1
      <4> QED BY <4>1 DEF Share, PayloadBudget
    <3> QED BY <3>1, <3>2
  <2>3. TypeOK'
    BY <2>1, <2>2, <1>0, <1>1, <1>2, <1>4 DEF TypeOK, planVars, keyVars
  <2>4. Planned' /\ Encoded' = 0 /\ Unwritten' /\ AccountsHold'
    BY <2>1 DEF Planned, Encoded, Unwritten, AccountsHold
  <2>5. Accounts'
    <3>1. Ps(0)' = 0 /\ kcount'[0] = 0
      BY <1>3, <1>1 DEF Ps, IndInv, CountsKeys
    <3>2. bytes' = FileHeader
      BY <2>1, <1>0 DEF IndInv, Unwritten
    <3>3. pc' # "done"
      BY <2>1
    <3>4. /\ pTotal' = PayloadBudget' /\ pBudget' \in Nat
          /\ pLeft' = PCount' - Ps(0)' /\ remaining' >= MinPayload * pLeft'
      BY <3>1, <2>1, <2>2, <1>1, <1>3
    <3>5. bytes' = FileHeader + kcount'[0] * (KeyPayload + FrameHeader)
                   + Ps(0)' * FrameHeader + (pTotal' - remaining')
      BY <3>1, <3>2, <2>1, <1>4
    <3> QED BY <3>3, <3>4, <3>5, <2>4 DEF Accounts, Ps
  <2>6. Promises'
    <3>1. CASE PCount > 0
      <4>1. Dealt' = 0
        BY <3>1, <2>1 DEF Dealt
      <4>2. ASSUME NEW i \in Indices, NEW j \in Indices, i <= j, j <= 0
            PROVE  alloc'[j] - alloc'[i] >= MinPayload * (Ps(j)' - Ps(i)')
        <5>1. i = 0 /\ j = 0
          BY <4>2 DEF Indices
        <5>2. alloc'[0] \in Int /\ Ps(0)' = 0
          BY <2>3, <1>1, <1>3 DEF TypeOK, Ps
        <5> QED BY <5>1, <5>2
      <4> QED BY <4>1, <4>2 DEF Promises
    <3>2. CASE ~(PCount > 0)
      BY <3>2, <1>3 DEF Promises
    <3> QED BY <3>1, <3>2
  <2> QED BY <2>3, <2>4, <2>5, <2>6, <1>5 DEF IndInv
<1> QED BY <1>6, <1>7

(* One frame further, the P frames passed are one more unless it is a key.  *)
LEMMA OneFurther ==
  ASSUME IndInv, pc # "keys", fno < frames
  PROVE  /\ fno \in Indices /\ fno + 1 \in Indices
         /\ kcount[fno] \in Nat /\ kcount[fno + 1] \in Nat
         /\ key[fno] => /\ kcount[fno + 1] = kcount[fno] + 1
                        /\ Ps(fno + 1) = Ps(fno)
         /\ ~key[fno] => /\ kcount[fno + 1] = kcount[fno]
                         /\ Ps(fno + 1) = Ps(fno) + 1
<1> USE BudgetAssumption
<1>1. TypeOK /\ CountsKeys /\ Counted = frames
  BY DEF IndInv, Counted
<1>2. fno \in Indices /\ fno + 1 \in Indices /\ fno \in Nat
  BY <1>1 DEF TypeOK, Indices
<1>3. /\ kcount[fno] \in Nat /\ kcount[fno + 1] \in Nat
      /\ kcount[fno + 1] = kcount[fno] + (IF key[fno] THEN 1 ELSE 0)
  BY <1>1, <1>2 DEF TypeOK, CountsKeys
<1> QED BY <1>2, <1>3 DEF Ps

(* Allocating up to n keeps the promises when that adds a frame's minimum.  *)
LEMMA PromiseOneMore ==
  ASSUME IndInv, pc = "deal", fno < frames, PCount > 0, NEW n \in Int,
         n - alloc[fno] >= MinPayload * (Ps(fno + 1) - Ps(fno)),
         alloc' = [alloc EXCEPT ![fno + 1] = n],
         pc' = pc, fno' = fno + 1, UNCHANGED <<frames, kcount>>
  PROVE  Promises'
<1> USE BudgetAssumption
<1>1. /\ fno \in Indices /\ fno + 1 \in Indices /\ fno \in Nat
      /\ alloc \in [Indices -> Int] /\ kcount \in [Indices -> Nat]
  BY OneFurther DEF IndInv, TypeOK
<1>2. \A i \in Indices : i # fno + 1 => alloc'[i] = alloc[i]
  BY <1>1
<1>3. alloc'[fno + 1] = n
  BY <1>1
<1>4. \A i \in Indices : Ps(i)' = Ps(i) /\ Ps(i) \in Int
  BY <1>1 DEF Ps, Indices
<1>5. \A i, j \in Indices : i <= j /\ j <= fno =>
        alloc[j] - alloc[i] >= MinPayload * (Ps(j) - Ps(i))
  BY DEF IndInv, Promises, Planned, Dealt
<1>6. ASSUME NEW i \in Indices, NEW j \in Indices, i <= j, j <= fno + 1
      PROVE  alloc'[j] - alloc'[i] >= MinPayload * (Ps(j) - Ps(i))
  <2>1. CASE j # fno + 1
    <3>1. j <= fno /\ i # fno + 1
      BY <2>1, <1>6, <1>1 DEF Indices
    <3> QED BY <3>1, <2>1, <1>2, <1>5, <1>6
  <2>2. CASE j = fno + 1 /\ i = fno + 1
    <3>1. alloc'[j] - alloc'[i] = 0 /\ Ps(j) - Ps(i) = 0
      BY <2>2, <1>1, <1>3, <1>4
    <3> QED BY <3>1
  <2>3. CASE j = fno + 1 /\ i # fno + 1
    <3>1. i <= fno
      BY <2>3, <1>6, <1>1 DEF Indices
    <3>2. alloc[fno] - alloc[i] >= MinPayload * (Ps(fno) - Ps(i))
      BY <3>1, <1>5, <1>1
    <3>3. alloc'[i] = alloc[i] /\ alloc'[j] = n
      BY <2>3, <1>2, <1>3
    <3>4. MinPayload * (Ps(fno) - Ps(i)) + MinPayload * (Ps(fno + 1) - Ps(fno))
          = MinPayload * (Ps(fno + 1) - Ps(i))
      <4>1. Ps(fno) \in Int /\ Ps(i) \in Int /\ Ps(fno + 1) \in Int
        BY <1>1, <1>4
      <4> QED BY <4>1
    <3>5. /\ alloc[fno] \in Int /\ alloc[i] \in Int
          /\ MinPayload * (Ps(fno) - Ps(i)) \in Int
          /\ MinPayload * (Ps(fno + 1) - Ps(fno)) \in Int
      BY <1>1, <1>4
    <3>6. n - alloc[i] >= MinPayload * (Ps(fno + 1) - Ps(i))
      BY <3>2, <3>4, <3>5
    <3> QED BY <3>6, <3>3, <2>3
  <2> QED BY <2>1, <2>2, <2>3
<1>7. Dealt' = fno + 1
  BY DEF Dealt
<1> QED BY <1>4, <1>6, <1>7 DEF Promises, Indices

(* Dealing leaves everything else as it is.                                 *)
LEMMA DealFrame ==
  ASSUME IndInv, pc = "deal", pc' = pc \/ pc' = "encode", fno' \in 0..frames,
         pc' = "encode" => fno' = 0,
         alloc' \in [Indices -> Int],
         UNCHANGED <<planVars, keyVars, pTotal, pBudget, spendVars>>
  PROVE  /\ TypeOK' /\ CountsKeys' /\ Accounts' /\ AccountsHold' /\ Unwritten'
         /\ PCount' = PCount /\ kcount' = kcount /\ frames' = frames
         /\ \A i : Ps(i)' = Ps(i)
<1>1. TypeOK'
  BY DEF IndInv, TypeOK, planVars, keyVars, spendVars
<1>2. /\ frames' = frames /\ key' = key /\ kcount' = kcount
      /\ PCount' = PCount /\ PayloadBudget' = PayloadBudget
      /\ \A i : Ps(i)' = Ps(i)
  BY DEF planVars, keyVars, PCount, KeyCount, PayloadBudget, Ps
<1>3. Counted' = Counted /\ Encoded' = 0 /\ Encoded = 0
  BY <1>2 DEF Counted, Encoded
<1>4. CountsKeys'
  BY <1>2, <1>3, KeysKept
<1>5. Planned /\ Accounts
  BY DEF IndInv, Planned
<1>6. Accounts'
  BY <1>2, <1>3, <1>5 DEF Accounts, Ps, spendVars
<1> QED BY <1>1, <1>2, <1>4, <1>6 DEF AccountsHold, Unwritten

LEMMA DealKeyInv == IndInv /\ DealKey => IndInv'
<1> SUFFICES ASSUME IndInv, DealKey PROVE IndInv'
  OBVIOUS
<1> USE BudgetAssumption
<1>1. /\ pc = "deal" /\ pc' = pc /\ fno < frames /\ fno' = fno + 1 /\ key[fno]
      /\ alloc' = [alloc EXCEPT ![fno + 1] = alloc[fno]]
      /\ UNCHANGED <<planVars, keyVars, pTotal, pBudget, spendVars>>
  BY DEF DealKey
<1>2. fno \in Indices /\ fno + 1 \in Indices /\ Ps(fno + 1) = Ps(fno)
  BY <1>1, OneFurther
<1>3. fno' \in 0..frames /\ alloc' \in [Indices -> Int] /\ alloc[fno] \in Int
  BY <1>1, <1>2 DEF IndInv, TypeOK
<1>4. /\ TypeOK' /\ CountsKeys' /\ Accounts' /\ AccountsHold' /\ Unwritten'
      /\ PCount' = PCount /\ kcount' = kcount /\ frames' = frames
  BY <1>1, <1>3, DealFrame
<1>5. Promises'
  <2>1. CASE PCount > 0
    <3>1. Ps(fno) \in Int
      BY <1>2 DEF IndInv, TypeOK, Ps, Indices
    <3>2. alloc[fno] - alloc[fno] >= MinPayload * (Ps(fno + 1) - Ps(fno))
      BY <3>1, <1>2, <1>3
    <3> QED BY <3>2, <2>1, <1>1, <1>3, <1>4, PromiseOneMore
  <2>2. CASE ~(PCount > 0)
    BY <2>2, <1>4 DEF Promises
  <2> QED BY <2>1, <2>2
<1> QED BY <1>4, <1>5 DEF IndInv

LEMMA DealPInv == IndInv /\ DealP => IndInv'
<1> SUFFICES ASSUME IndInv, DealP PROVE IndInv'
  OBVIOUS
<1> USE BudgetAssumption
<1>1. /\ pc = "deal" /\ pc' = pc /\ fno < frames /\ fno' = fno + 1 /\ ~key[fno]
      /\ UNCHANGED <<planVars, keyVars, pTotal, pBudget, spendVars>>
  BY DEF DealP
<1>2. fno \in Indices /\ fno + 1 \in Indices /\ Ps(fno + 1) = Ps(fno) + 1
  BY <1>1, OneFurther
<1>3. PICK scaled \in 0..pTotal :
        alloc' = [alloc EXCEPT ![fno + 1] = alloc[fno] + PlanOf(fno, scaled)]
  BY DEF DealP
<1>4. alloc[fno] \in Int /\ pTotal \in Int /\ scaled \in Int
  BY <1>2, <1>3 DEF IndInv, TypeOK
<1>5. PlanOf(fno, scaled) \in Int /\ PlanOf(fno, scaled) >= MinPayload
  BY <1>4 DEF PlanOf, AtLeastMin
<1>6. fno' \in 0..frames /\ alloc' \in [Indices -> Int]
  BY <1>1, <1>2, <1>3, <1>4, <1>5 DEF IndInv, TypeOK
<1>7. /\ TypeOK' /\ CountsKeys' /\ Accounts' /\ AccountsHold' /\ Unwritten'
      /\ PCount' = PCount /\ kcount' = kcount /\ frames' = frames
  BY <1>1, <1>6, DealFrame
<1>8. Promises'
  <2>1. CASE PCount > 0
    <3>1. Ps(fno) \in Int
      BY <1>2 DEF IndInv, TypeOK, Ps, Indices
    <3>2. MinPayload * (Ps(fno + 1) - Ps(fno)) = MinPayload
      <4>1. Ps(fno + 1) - Ps(fno) = 1
        BY <3>1, <1>2
      <4> QED BY <4>1
    <3>3. /\ alloc[fno] + PlanOf(fno, scaled) \in Int
          /\ (alloc[fno] + PlanOf(fno, scaled)) - alloc[fno]
             >= MinPayload * (Ps(fno + 1) - Ps(fno))
      BY <3>2, <1>4, <1>5
    <3> QED BY <3>3, <2>1, <1>1, <1>3, <1>7, PromiseOneMore
  <2>2. CASE ~(PCount > 0)
    BY <2>2, <1>7 DEF Promises
  <2> QED BY <2>1, <2>2
<1> QED BY <1>7, <1>8 DEF IndInv

LEMMA DealDoneInv == IndInv /\ DealDone => IndInv'
<1> SUFFICES ASSUME IndInv, DealDone PROVE IndInv'
  OBVIOUS
<1> USE BudgetAssumption
<1>1. /\ pc = "deal" /\ pc' = "encode" /\ fno = frames /\ fno' = 0
      /\ UNCHANGED <<planVars, keyVars, dealVars, spendVars>>
  BY DEF DealDone
<1>2. fno' \in 0..frames /\ alloc' = alloc /\ alloc' \in [Indices -> Int]
  BY <1>1 DEF IndInv, TypeOK, dealVars
<1>3. /\ TypeOK' /\ CountsKeys' /\ Accounts' /\ AccountsHold' /\ Unwritten'
      /\ PCount' = PCount /\ frames' = frames /\ \A i : Ps(i)' = Ps(i)
  BY <1>1, <1>2, DealFrame DEF dealVars
<1>4. Dealt = frames /\ Dealt' = frames /\ Planned
  BY <1>1, <1>3 DEF Dealt, Planned
<1>5. Promises'
  BY <1>2, <1>3, <1>4 DEF Promises, IndInv
<1> QED BY <1>3, <1>5 DEF IndInv

(* Writing a frame leaves the plan as it is.                                *)
LEMMA EncodeFrame ==
  ASSUME IndInv, pc = "encode", pc' \in {"encode", "done"}, fno' \in 0..frames,
         remaining' \in Int, pLeft' \in Int, bytes' \in Int,
         UNCHANGED <<planVars, keyVars, dealVars>>
  PROVE  /\ TypeOK' /\ CountsKeys' /\ Promises' /\ AccountsHold' /\ Unwritten'
         /\ PCount' = PCount /\ PayloadBudget' = PayloadBudget
         /\ kcount' = kcount /\ frames' = frames /\ \A i : Ps(i)' = Ps(i)
         /\ pTotal' = pTotal /\ pBudget' = pBudget
<1>1. TypeOK'
  BY DEF IndInv, TypeOK, planVars, keyVars, dealVars
<1>2. /\ frames' = frames /\ key' = key /\ kcount' = kcount /\ alloc' = alloc
      /\ PCount' = PCount /\ PayloadBudget' = PayloadBudget
      /\ pTotal' = pTotal /\ pBudget' = pBudget
      /\ \A i : Ps(i)' = Ps(i)
  BY DEF planVars, keyVars, dealVars, PCount, KeyCount, PayloadBudget, Ps
<1>3. Counted' = Counted /\ Dealt' = Dealt /\ Planned
  BY <1>2 DEF Counted, Dealt, Planned
<1>4. CountsKeys'
  BY <1>2, <1>3, KeysKept
<1>5. Promises'
  BY <1>2, <1>3 DEF IndInv, Promises
<1> QED BY <1>1, <1>2, <1>4, <1>5 DEF AccountsHold, Unwritten

LEMMA EncodeKeyInv == IndInv /\ EncodeKey => IndInv'
<1> SUFFICES ASSUME IndInv, EncodeKey PROVE IndInv'
  OBVIOUS
<1> USE BudgetAssumption
<1>1. /\ pc = "encode" /\ pc' = pc /\ fno < frames /\ fno' = fno + 1 /\ key[fno]
      /\ bytes' = bytes + FrameHeader + KeyPayload
      /\ UNCHANGED <<planVars, keyVars, dealVars, remaining, pLeft>>
  BY DEF EncodeKey
<1>2. /\ kcount[fno] \in Nat /\ kcount[fno + 1] = kcount[fno] + 1
      /\ Ps(fno + 1) = Ps(fno)
  BY <1>1, OneFurther
<1>3. /\ fno' \in 0..frames /\ bytes' \in Int /\ bytes \in Int
      /\ remaining' \in Int /\ pLeft' \in Int /\ pTotal \in Int
  BY <1>1 DEF IndInv, TypeOK
<1>4. /\ TypeOK' /\ CountsKeys' /\ Promises' /\ AccountsHold' /\ Unwritten'
      /\ PCount' = PCount /\ PayloadBudget' = PayloadBudget
      /\ kcount' = kcount /\ frames' = frames /\ \A i : Ps(i)' = Ps(i)
      /\ pTotal' = pTotal /\ pBudget' = pBudget
  BY <1>1, <1>3, EncodeFrame
<1>5. Planned /\ Encoded = fno /\ Encoded' = fno + 1 /\ pc' # "done"
  BY <1>1 DEF Planned, Encoded
<1>6. Accounts'
  <2>1. /\ pTotal = PayloadBudget /\ pBudget \in Nat
        /\ pLeft = PCount - Ps(fno) /\ remaining >= MinPayload * pLeft
        /\ bytes = FileHeader + kcount[fno] * (KeyPayload + FrameHeader)
                   + Ps(fno) * FrameHeader + (pTotal - remaining)
    BY <1>5 DEF IndInv, Accounts
  <2>2. (kcount[fno] + 1) * (KeyPayload + FrameHeader)
        = kcount[fno] * (KeyPayload + FrameHeader) + (KeyPayload + FrameHeader)
    BY <1>2
  <2>3. Ps(fno) \in Int
    BY <1>2, <1>3 DEF Ps, IndInv, TypeOK
  <2>4. Ps(fno) * FrameHeader \in Int
        /\ kcount[fno] * (KeyPayload + FrameHeader) \in Int
    BY <2>3, <1>2
  <2>5. bytes' = FileHeader + kcount[fno + 1] * (KeyPayload + FrameHeader)
                 + Ps(fno + 1) * FrameHeader + (pTotal - remaining)
    <3>1. kcount[fno + 1] * (KeyPayload + FrameHeader)
          = kcount[fno] * (KeyPayload + FrameHeader) + (KeyPayload + FrameHeader)
      BY <2>2, <1>2
    <3>2. remaining \in Int
      BY DEF IndInv, TypeOK
    <3> QED BY <3>1, <3>2, <2>1, <2>4, <1>1, <1>2, <1>3
  <2>6. Ps(Encoded)' = Ps(fno + 1) /\ kcount'[Encoded'] = kcount[fno + 1]
    BY <1>4, <1>5 DEF Ps
  <2> QED BY <2>1, <2>5, <2>6, <1>1, <1>2, <1>4, <1>5 DEF Accounts
<1> QED BY <1>4, <1>6 DEF IndInv

(* What is reserved leaves the frame its minimum, and the frames to come    *)
(* theirs.                                                                  *)
LEMMA ReserveEnough ==
  ASSUME IndInv, pc = "encode", fno < frames, ~key[fno]
  PROVE  /\ pLeft > 0 /\ pLeft \in Int /\ remaining \in Int
         /\ Reserved(fno) \in Int
         /\ Reserved(fno) >= MinPayload * (pLeft - 1)
         /\ remaining >= Reserved(fno) + MinPayload
<1> USE BudgetAssumption
<1>1. /\ fno + 1 \in Indices /\ fno \in Indices /\ kcount[fno + 1] \in Nat
      /\ kcount[fno] \in Nat /\ Ps(fno + 1) = Ps(fno) + 1
  BY OneFurther
<1>2. /\ frames \in Indices /\ PCount \in Nat /\ PCount = Ps(frames)
      /\ Ps(fno) \in Nat /\ Ps(fno + 1) \in Nat /\ Ps(fno + 1) <= PCount
  BY <1>1, PFrames DEF IndInv, TypeOK
<1>3. /\ pLeft = PCount - Ps(fno) /\ remaining >= MinPayload * pLeft
      /\ Planned
  BY DEF IndInv, Accounts, Planned, Encoded
<1>4. /\ remaining \in Int /\ Ps(fno) \in Int /\ alloc \in [Indices -> Int]
      /\ frames \in Int /\ fno \in Int
  BY <1>1, SMTT(30) DEF IndInv, TypeOK, Ps, Indices
<1>5. pLeft \in Int /\ pLeft > 0 /\ pLeft - 1 = PCount - Ps(fno + 1)
  BY <1>1, <1>2, <1>3, <1>4
<1>6. Future(fno) \in Int /\ Future(fno) >= MinPayload * (pLeft - 1)
  <2>1. PCount > 0 /\ Dealt = frames /\ fno + 1 <= frames
    BY <1>1, <1>2, <1>3, <1>4, <1>5 DEF Dealt
  <2>2. alloc[frames] - alloc[fno + 1]
        >= MinPayload * (Ps(frames) - Ps(fno + 1))
    BY <2>1, <1>1, <1>2, <1>3, <1>4 DEF IndInv, Promises
  <2> QED BY <2>2, <1>1, <1>2, <1>4, <1>5 DEF Future
<1>7. /\ MinPayload * pLeft = MinPayload * (pLeft - 1) + MinPayload
      /\ MinFuture = MinPayload * (pLeft - 1) /\ MinPayload * (pLeft - 1) \in Int
  BY <1>5 DEF MinFuture
<1>8. CASE remaining < Future(fno) + MinPayload
  <2>1. Reserved(fno) = MinFuture
    BY <1>8 DEF Reserved
  <2> QED BY <2>1, <1>3, <1>4, <1>5, <1>7
<1>9. CASE ~(remaining < Future(fno) + MinPayload)
  <2>1. Reserved(fno) = Future(fno)
    BY <1>9 DEF Reserved
  <2> QED BY <2>1, <1>4, <1>5, <1>6, <1>9
<1> QED BY <1>8, <1>9

LEMMA EncodePInv == IndInv /\ EncodeP => IndInv'
<1> SUFFICES ASSUME IndInv, EncodeP PROVE IndInv'
  OBVIOUS
<1> USE BudgetAssumption
<1>1. /\ pc = "encode" /\ fno < frames /\ ~key[fno]
      /\ UNCHANGED <<planVars, keyVars, dealVars>>
  BY DEF EncodeP
<1>2. PICK burst \in Bursts : \E spent \in 0..FrameBudget(fno, burst) :
        IF pLeft <= 0 \/ Exhausted(fno) \/ spent > remaining
        THEN pc' = "died" /\ UNCHANGED <<fno, spendVars>>
        ELSE /\ bytes' = bytes + FrameHeader + spent
             /\ remaining' = remaining - spent
             /\ pLeft' = pLeft - 1
             /\ fno' = fno + 1
             /\ UNCHANGED pc
  BY DEF EncodeP
<1>3. PICK spent \in 0..FrameBudget(fno, burst) :
        IF pLeft <= 0 \/ Exhausted(fno) \/ spent > remaining
        THEN pc' = "died" /\ UNCHANGED <<fno, spendVars>>
        ELSE /\ bytes' = bytes + FrameHeader + spent
             /\ remaining' = remaining - spent
             /\ pLeft' = pLeft - 1
             /\ fno' = fno + 1
             /\ UNCHANGED pc
  BY <1>2
<1>4. /\ pLeft > 0 /\ pLeft \in Int /\ remaining \in Int
      /\ Reserved(fno) \in Int /\ Reserved(fno) >= MinPayload * (pLeft - 1)
      /\ remaining >= Reserved(fno) + MinPayload
  BY <1>1, ReserveEnough
<1>5. /\ burst \in Int /\ spent \in Nat
      /\ spent <= remaining - Reserved(fno)
  <2>1. burst \in Int
    BY <1>2 DEF Bursts, IndInv, TypeOK
  <2>2. /\ FrameBudget(fno, burst) \in Int
        /\ FrameBudget(fno, burst) <= remaining - Reserved(fno)
    BY <2>1, <1>4 DEF FrameBudget, AtLeastMin
  <2> QED BY <2>1, <2>2, <1>3, <1>4
<1>6. MinPayload * (pLeft - 1) >= 0 /\ MinPayload * (pLeft - 1) \in Int
  <2>1. pLeft - 1 \in Nat
    BY <1>4
  <2> QED BY <2>1
<1>7. ~(pLeft <= 0 \/ Exhausted(fno) \/ spent > remaining)
  BY <1>4, <1>5, <1>6 DEF Exhausted
<1>8. /\ bytes' = bytes + FrameHeader + spent
      /\ remaining' = remaining - spent /\ pLeft' = pLeft - 1
      /\ fno' = fno + 1 /\ pc' = pc
  BY <1>3, <1>7
<1>9. /\ kcount[fno] \in Nat /\ kcount[fno + 1] = kcount[fno]
      /\ Ps(fno + 1) = Ps(fno) + 1
  BY <1>1, OneFurther
<1>10. /\ fno' \in 0..frames /\ bytes' \in Int /\ bytes \in Int
       /\ remaining' \in Int /\ pLeft' \in Int /\ pTotal \in Int
  BY <1>1, <1>4, <1>5, <1>8 DEF IndInv, TypeOK
<1>11. /\ TypeOK' /\ CountsKeys' /\ Promises' /\ AccountsHold' /\ Unwritten'
       /\ PCount' = PCount /\ PayloadBudget' = PayloadBudget
       /\ kcount' = kcount /\ frames' = frames /\ \A i : Ps(i)' = Ps(i)
       /\ pTotal' = pTotal /\ pBudget' = pBudget
  BY <1>1, <1>8, <1>10, EncodeFrame
<1>12. Planned /\ Encoded = fno /\ Encoded' = fno + 1 /\ pc' # "done"
  BY <1>1, <1>8 DEF Planned, Encoded
<1>13. Accounts'
  <2>1. /\ pTotal = PayloadBudget /\ pBudget \in Nat /\ pLeft = PCount - Ps(fno)
        /\ bytes = FileHeader + kcount[fno] * (KeyPayload + FrameHeader)
                   + Ps(fno) * FrameHeader + (pTotal - remaining)
    BY <1>12 DEF IndInv, Accounts
  <2>2. Ps(fno) \in Int /\ PCount \in Int
    BY <1>1, <1>9, <1>10, PFrames DEF Ps, IndInv, TypeOK
  <2>3. pLeft' = PCount - Ps(fno + 1) /\ remaining' >= MinPayload * pLeft'
    BY <2>1, <2>2, <1>4, <1>5, <1>6, <1>8, <1>9
  <2>4. /\ (Ps(fno) + 1) * FrameHeader = Ps(fno) * FrameHeader + FrameHeader
        /\ Ps(fno) * FrameHeader \in Int
        /\ kcount[fno] * (KeyPayload + FrameHeader) \in Int
    BY <2>2, <1>9
  <2>5. bytes' = FileHeader + kcount[fno + 1] * (KeyPayload + FrameHeader)
                 + Ps(fno + 1) * FrameHeader + (pTotal - remaining')
    <3>1. Ps(fno + 1) * FrameHeader = Ps(fno) * FrameHeader + FrameHeader
      BY <2>4, <1>9
    <3> QED BY <3>1, <2>1, <2>4, <1>4, <1>5, <1>8, <1>9, <1>10
  <2>6. Ps(Encoded)' = Ps(fno + 1) /\ kcount'[Encoded'] = kcount[fno + 1]
    BY <1>11, <1>12 DEF Ps
  <2> QED BY <2>1, <2>3, <2>5, <2>6, <1>11, <1>12 DEF Accounts
<1> QED BY <1>11, <1>13 DEF IndInv

LEMMA EncodeDoneInv == IndInv /\ EncodeDone => IndInv'
<1> SUFFICES ASSUME IndInv, EncodeDone PROVE IndInv'
  OBVIOUS
<1>1. /\ pc = "encode" /\ pc' = "done" /\ fno = frames /\ fno' = fno
      /\ UNCHANGED <<planVars, keyVars, dealVars, spendVars>>
  BY DEF EncodeDone
<1>2. /\ fno' \in 0..frames /\ bytes' = bytes /\ remaining' = remaining
      /\ pLeft' = pLeft /\ bytes' \in Int /\ remaining' \in Int /\ pLeft' \in Int
  BY <1>1 DEF IndInv, TypeOK, spendVars
<1>3. /\ TypeOK' /\ CountsKeys' /\ Promises' /\ AccountsHold' /\ Unwritten'
      /\ PCount' = PCount /\ PayloadBudget' = PayloadBudget
      /\ kcount' = kcount /\ frames' = frames /\ \A i : Ps(i)' = Ps(i)
      /\ pTotal' = pTotal /\ pBudget' = pBudget
  BY <1>1, <1>2, EncodeFrame
<1>4. Planned /\ Encoded = fno /\ Encoded' = fno
  BY <1>1 DEF Planned, Encoded
<1>5. Accounts'
  BY <1>1, <1>2, <1>3, <1>4 DEF IndInv, Accounts, Ps
<1> QED BY <1>3, <1>5 DEF IndInv

LEMMA StutterInv == IndInv /\ UNCHANGED vars => IndInv'
BY DEF IndInv, vars, planVars, keyVars, dealVars, spendVars, Unwritten, TypeOK,
       CountsKeys, Counted, Ps, Promises, Planned, PCount, KeyCount, Dealt,
       Accounts, PayloadBudget, Encoded, AccountsHold

(* The accounts are inductive: whatever the frames, the shares and the      *)
(* payloads are, the bytes left cover the minimum of every P frame to come. *)
THEOREM AccountsInv == Spec => []IndInv
<1>1. Init => IndInv
  BY InitInv
<1>2. IndInv /\ [Next]_vars => IndInv'
  BY PlanKeyInv, PlanBudgetInv, DealKeyInv, DealPInv, DealDoneInv,
     EncodeKeyInv, EncodePInv, EncodeDoneInv, StutterInv DEF Next
<1> QED BY <1>1, <1>2, PTL DEF Spec

(* The encoder never dies on its own accounts.                              *)
THEOREM NeverDies == Spec => []AccountsHold
<1>1. IndInv => AccountsHold
  BY DEF IndInv
<1> QED BY <1>1, AccountsInv, PTL

(* A finished stream with P frames keeps the target.                        *)
THEOREM TargetKept == Spec => []StreamWithinTarget
<1>1. IndInv => StreamWithinTarget
  <2> SUFFICES ASSUME IndInv, pc = "done", PCount > 0 PROVE bytes <= target
    BY DEF StreamWithinTarget
  <2> USE BudgetAssumption
  <2>1. /\ KeyCount \in Nat /\ PCount \in Nat /\ PCount = Ps(frames)
    BY PFrames
  <2>2. Planned /\ Encoded = fno /\ fno = frames /\ Accounts
    BY DEF IndInv, Accounts, Planned, Encoded
  <2>3. /\ pLeft = PCount - PCount /\ remaining >= MinPayload * pLeft
        /\ bytes = FileHeader + KeyCount * (KeyPayload + FrameHeader)
                   + PCount * FrameHeader + (pTotal - remaining)
        /\ pTotal = PayloadBudget
    BY <2>1, <2>2 DEF Accounts, KeyCount
  <2>4. pLeft = 0 /\ MinPayload * pLeft = 0
    BY <2>1, <2>3
  <2>5. remaining \in Int /\ remaining >= 0 /\ target \in Int
    BY <2>3, <2>4 DEF IndInv, TypeOK
  <2>6. KeyCount * (KeyPayload + FrameHeader) \in Int
        /\ PCount * FrameHeader \in Int
    BY <2>1
  <2>7. pTotal = target - FileHeader - KeyCount * (KeyPayload + FrameHeader)
                 - PCount * FrameHeader
    BY <2>3 DEF PayloadBudget
  <2> QED BY <2>3, <2>5, <2>6, <2>7
<1> QED BY <1>1, AccountsInv, PTL
-----------------------------------------------------------------------------
(* Sums.  SumFunction() folds a function over its domain, taking away an    *)
(* element at a time.                                                       *)

(* Induction over numbers, with the numbers it holds for as a set.          *)
LEMMA NumberInduction ==
  ASSUME NEW T \in SUBSET Nat, 0 \in T, \A n \in T : n + 1 \in T
  PROVE  T = Nat
<1> SUFFICES ASSUME Nat \ T # {} PROVE FALSE
  OBVIOUS
<1>1. IsWellFoundedOn(OpToRel(<, Nat), Nat)
  BY NatLessThanWellFounded
<1>2. Nat \ T \subseteq Nat
  OBVIOUS
<1>3. PICK n \in Nat \ T : \A m \in Nat \ T : ~(<<m, n>> \in OpToRel(<, Nat))
  BY <1>1, <1>2, WFMin
<1>4. \A m \in Nat \ T : ~(m < n)
  BY <1>3 DEF OpToRel
<1>5. n \in Nat /\ n \notin T /\ n # 0
  OBVIOUS
<1>6. n - 1 \in Nat /\ n - 1 < n /\ (n - 1) + 1 = n
  BY <1>5
<1> QED BY <1>4, <1>5, <1>6

Pick(s) == CHOOSE x \in s : TRUE

(* The sum over every subset of the domain, as the fold computes it.        *)
Unfolds(f, g) ==
  g = [s \in SUBSET DOMAIN f |->
         IF s = {} THEN 0 ELSE f[Pick(s)] + g[s \ {Pick(s)}]]

LEMMA SumUnfolded ==
  ASSUME NEW f
  PROVE  SumFunction(f) = (CHOOSE g : Unfolds(f, g))[DOMAIN f]
BY DEF SumFunction, SumFunctionOnSet, FoldFunctionOnSet, MapThenFoldSet, Pick, Unfolds

LEMMA TakeAway ==
  ASSUME NEW D, IsFiniteSet(D), NEW s \in SUBSET D, s # {}
  PROVE  /\ Pick(s) \in s /\ Pick(s) \in D /\ s \ {Pick(s)} \in SUBSET D
         /\ Cardinality(s) \in Nat /\ Cardinality(s) # 0
         /\ Cardinality(s \ {Pick(s)}) = Cardinality(s) - 1
<1>1. Pick(s) \in s
  BY DEF Pick
<1>2. IsFiniteSet(s)
  BY FS_Subset
<1>3. Cardinality(s) \in Nat /\ Cardinality(s) # 0
  BY <1>2, FS_CardinalityType, FS_EmptySet
<1>4. Cardinality(s \ {Pick(s)}) = Cardinality(s) - 1
  BY <1>1, <1>2, FS_RemoveElement
<1> QED BY <1>1, <1>3, <1>4

(* Induction over the subsets of a finite set.                              *)
LEMMA SubsetInduction ==
  ASSUME NEW D, IsFiniteSet(D), NEW P \in SUBSET (SUBSET D), {} \in P,
         \A s \in SUBSET D : s # {} /\ s \ {Pick(s)} \in P => s \in P
  PROVE  P = SUBSET D
<1> DEFINE T == {n \in Nat : \A s \in SUBSET D : Cardinality(s) = n => s \in P}
<1>1. 0 \in T
  BY TakeAway
<1>2. \A n \in T : n + 1 \in T
  <2> SUFFICES ASSUME NEW n \in T, NEW s \in SUBSET D, Cardinality(s) = n + 1
               PROVE  s \in P
    OBVIOUS
  <2>1. n \in Nat /\ s # {}
    BY FS_EmptySet
  <2>2. s \ {Pick(s)} \in SUBSET D /\ Cardinality(s \ {Pick(s)}) = n
    BY <2>1, TakeAway
  <2> QED BY <2>1, <2>2
<1> HIDE DEF T
<1>3. T \in SUBSET Nat
  BY DEF T
<1>4. T = Nat
  BY <1>1, <1>2, <1>3, NumberInduction
<1>5. \A s \in SUBSET D : Cardinality(s) \in Nat
  BY FS_Subset, FS_CardinalityType
<1> QED BY <1>4, <1>5 DEF T

(* The fold is well defined on a finite domain.                             *)
LEMMA UnfoldingExists ==
  ASSUME NEW D, IsFiniteSet(D), NEW f \in [D -> Nat]
  PROVE  \E g : Unfolds(f, g)
<1> DEFINE Up(n) == {s \in SUBSET D : Cardinality(s) <= n}
           Value(g, s) == IF s = {} THEN 0 ELSE f[Pick(s)] + g[s \ {Pick(s)}]
           T == {n \in Nat : \E g \in [Up(n) -> Nat] :
                               \A s \in Up(n) : g[s] = Value(g, s)}
<1>1. \A s \in SUBSET D : Cardinality(s) \in Nat /\ (Cardinality(s) = 0 <=> s = {})
  BY FS_Subset, FS_CardinalityType, FS_EmptySet
<1>2. \A n \in Nat : \A s \in Up(n) :
        s # {} => /\ s \ {Pick(s)} \in Up(n) /\ Pick(s) \in D
                  /\ n # 0 /\ s \ {Pick(s)} \in Up(n - 1)
  <2> SUFFICES ASSUME NEW n \in Nat, NEW s \in Up(n), s # {}
               PROVE  /\ s \ {Pick(s)} \in Up(n) /\ Pick(s) \in D
                      /\ n # 0 /\ s \ {Pick(s)} \in Up(n - 1)
    OBVIOUS
  <2> QED BY TakeAway
<1>3. 0 \in T
  <2> DEFINE g == [s \in Up(0) |-> 0]
  <2>1. g \in [Up(0) -> Nat] /\ \A s \in Up(0) : s = {} /\ g[s] = 0
    BY <1>1
  <2> QED BY <2>1
<1>4. \A n \in T : n + 1 \in T
  <2> SUFFICES ASSUME NEW n \in T PROVE n + 1 \in T
    OBVIOUS
  <2>1. PICK g \in [Up(n) -> Nat] : \A s \in Up(n) : g[s] = Value(g, s)
    OBVIOUS
  <2> DEFINE h == [s \in Up(n + 1) |-> Value(g, s)]
  <2>2. \A s \in Up(n + 1) : s # {} => s \ {Pick(s)} \in Up(n) /\ Pick(s) \in D
    BY <1>2
  <2>3. h \in [Up(n + 1) -> Nat]
    BY <2>2
  <2>4. \A s \in Up(n) : s \in Up(n + 1)
    BY <1>1
  <2>5. \A s \in Up(n) : h[s] = g[s]
    BY <2>1, <2>4
  <2>6. \A s \in Up(n + 1) : h[s] = Value(h, s)
    BY <2>2, <2>5
  <2>7. n + 1 \in Nat
    OBVIOUS
  <2> HIDE DEF h, Up, Value
  <2> QED BY <2>3, <2>6, <2>7
<1> DEFINE N == Cardinality(D)
<1>5. N \in T
  <2> HIDE DEF T
  <2>1. T \in SUBSET Nat
    BY DEF T
  <2>2. T = Nat
    BY <1>3, <1>4, <2>1, NumberInduction
  <2> QED BY <2>2, FS_CardinalityType
<1>6. Up(N) = SUBSET D
  BY FS_Subset
<1>7. PICK g \in [Up(N) -> Nat] : \A s \in Up(N) : g[s] = Value(g, s)
  BY <1>5
<1>8. g = [s \in SUBSET D |-> Value(g, s)]
  BY <1>6, <1>7
<1>9. DOMAIN f = D
  OBVIOUS
<1> QED BY <1>8, <1>9 DEF Unfolds

Sums(f) == CHOOSE g : Unfolds(f, g)

LEMMA SumsUnfold ==
  ASSUME NEW D, IsFiniteSet(D), NEW f \in [D -> Nat]
  PROVE  /\ SumFunction(f) = Sums(f)[D]
         /\ Sums(f)[{}] = 0
         /\ \A s \in SUBSET D : s # {} =>
              Sums(f)[s] = f[Pick(s)] + Sums(f)[s \ {Pick(s)}]
<1>1. DOMAIN f = D
  OBVIOUS
<1>2. SumFunction(f) = Sums(f)[D]
  BY <1>1, SumUnfolded DEF Sums
<1>3. Unfolds(f, Sums(f))
  BY UnfoldingExists DEF Sums
<1>4. Sums(f) = [s \in SUBSET D |->
                   IF s = {} THEN 0 ELSE f[Pick(s)] + Sums(f)[s \ {Pick(s)}]]
  BY <1>1, <1>3 DEF Unfolds
<1> QED BY <1>2, <1>4

(* A sum of natural numbers is one, and that of zeros is zero.              *)
LEMMA SumNat ==
  ASSUME NEW D, IsFiniteSet(D), NEW f \in [D -> Nat]
  PROVE  /\ SumFunction(f) \in Nat
         /\ (\A x \in D : f[x] = 0) => SumFunction(f) = 0
<1> DEFINE P == {s \in SUBSET D : /\ Sums(f)[s] \in Nat
                                  /\ (\A x \in D : f[x] = 0) => Sums(f)[s] = 0}
<1>1. {} \in P
  BY SumsUnfold
<1>2. \A s \in SUBSET D : s # {} /\ s \ {Pick(s)} \in P => s \in P
  <2> SUFFICES ASSUME NEW s \in SUBSET D, s # {}, s \ {Pick(s)} \in P
               PROVE  s \in P
    OBVIOUS
  <2>1. Pick(s) \in D
    BY TakeAway
  <2>2. Sums(f)[s] = f[Pick(s)] + Sums(f)[s \ {Pick(s)}]
    BY SumsUnfold, SMTT(30)
  <2> QED BY <2>1, <2>2
<1>3. P \in SUBSET (SUBSET D)
  OBVIOUS
<1> HIDE DEF P
<1>4. P = SUBSET D
  BY <1>1, <1>2, <1>3, SubsetInduction
<1>5. D \in P
  BY <1>4
<1> QED BY <1>5, SumsUnfold DEF P

(* What is added to one value is added to the sum.                          *)
LEMMA SumRaised ==
  ASSUME NEW D, IsFiniteSet(D), NEW f \in [D -> Nat], NEW x \in D, NEW b \in Nat,
         NEW h \in [D -> Nat], \A y \in D : h[y] = IF y = x THEN f[y] + b ELSE f[y]
  PROVE  SumFunction(h) = SumFunction(f) + b
<1> DEFINE P == {s \in SUBSET D :
                   /\ Sums(f)[s] \in Nat
                   /\ Sums(h)[s] = Sums(f)[s] + (IF x \in s THEN b ELSE 0)}
<1>1. {} \in P
  BY SumsUnfold
<1>2. \A s \in SUBSET D : s # {} /\ s \ {Pick(s)} \in P => s \in P
  <2> SUFFICES ASSUME NEW s \in SUBSET D, s # {}, s \ {Pick(s)} \in P
               PROVE  s \in P
    OBVIOUS
  <2> DEFINE c == Pick(s)
  <2>1. c \in s /\ c \in D
    BY TakeAway
  <2>2. /\ Sums(f)[s] = f[c] + Sums(f)[s \ {c}]
        /\ Sums(h)[s] = h[c] + Sums(h)[s \ {c}]
    <3>1. Sums(f)[s] = f[c] + Sums(f)[s \ {c}]
      BY SumsUnfold
    <3>2. Sums(h)[s] = h[c] + Sums(h)[s \ {c}]
      BY SumsUnfold
    <3> QED BY <3>1, <3>2
  <2>3. /\ Sums(f)[s \ {c}] \in Nat
        /\ Sums(h)[s \ {c}] = Sums(f)[s \ {c}] + (IF x \in s \ {c} THEN b ELSE 0)
    OBVIOUS
  <2> HIDE DEF c
  <2>4. CASE x = c
    <3>1. h[c] = f[c] + b /\ x \notin s \ {c} /\ x \in s
      BY <2>1, <2>4
    <3> QED BY <2>1, <2>2, <2>3, <3>1
  <2>5. CASE x # c
    <3>1. h[c] = f[c] /\ (x \in s \ {c} <=> x \in s)
      BY <2>1, <2>5
    <3> QED BY <2>1, <2>2, <2>3, <3>1
  <2> QED BY <2>4, <2>5
<1>3. P \in SUBSET (SUBSET D)
  OBVIOUS
<1> HIDE DEF P
<1>4. P = SUBSET D
  BY <1>1, <1>2, <1>3, SubsetInduction
<1>5. D \in P
  BY <1>4
<1> QED BY <1>5, SumsUnfold DEF P

-----------------------------------------------------------------------------
(* A P frame: the estimate is what will be written at most.                 *)

RawModes == {"none", "raw", "rawY", "rawUv", "dc", "resRawUv"}

RepairTypeOK ==
  /\ pass \in {"idle", "res", "dc", "uv", "write"}
  /\ budget \in Int /\ estimate \in Int
  /\ rawMode \in [MbIndices -> RawModes]
  /\ blocks \in [MbIndices -> [Slots -> Nat]]
  /\ cost \in [MbIndices -> Int]
  /\ next \in 0..Mbs /\ payload \in Nat

(* The cost kept with a macroblock is that of its blocks, and raw chroma    *)
(* leaves luma blocks only.                                                 *)
CostExact(m) ==
  /\ rawMode[m] = "resRawUv" =>
       /\ cost[m] = 1 + RawUvBytes + BlockBytes(m)
       /\ \A s \in ChromaSlots : blocks[m][s] = 0
  /\ rawMode[m] # "resRawUv" =>
       cost[m] = IF rawMode[m] = "none" /\ HasBlocks(m) THEN 1 + BlockBytes(m) ELSE 0

(* What the estimate has for a macroblock.                                  *)
Charge(m) ==
  CopyBytes + (CASE rawMode[m] = "raw"   -> RawMbExtra
                 [] rawMode[m] = "rawY"  -> RawYExtra
                 [] rawMode[m] = "rawUv" -> RawUvExtra
                 [] rawMode[m] = "dc"    -> DcExtra
                 [] OTHER                -> cost[m])

(* p[i] is what the estimate has for the first i macroblocks.               *)
Totals(p) ==
  /\ p \in [0..Mbs -> Int]
  /\ p[0] = 0 /\ p[Mbs] = estimate
  /\ \A i \in MbIndices : p[i + 1] = p[i] + Charge(i)

(* The bytes written are at most the estimate of the macroblocks written,   *)
(* and the whole estimate is within the budget.                             *)
Covered == \E p : Totals(p) /\ payload <= p[next]

RepairInv ==
  /\ RepairTypeOK
  /\ \A m \in MbIndices : CostExact(m)
  /\ pass = "idle" =>
       \A m \in MbIndices : rawMode[m] = "none" /\ blocks[m] = NoBlocks
  /\ pass # "idle" => estimate <= budget /\ Covered
  /\ pass \in {"res", "dc", "uv"} => next = 0 /\ payload = 0

LEMMA SlotsFinite == IsFiniteSet(Slots)
BY RepairAssumption, FS_Union DEF Slots

LEMMA NoBlocksCost == NoBlocks \in [Slots -> Nat] /\ SumFunction(NoBlocks) = 0
<1>1. NoBlocks \in [Slots -> Nat] /\ \A s \in Slots : NoBlocks[s] = 0
  BY DEF NoBlocks
<1> HIDE DEF NoBlocks
<1> QED BY <1>1, SlotsFinite, SumNat

LEMMA BlockBytesNat ==
  ASSUME RepairTypeOK, NEW m \in MbIndices
  PROVE  BlockBytes(m) \in Nat
<1>1. blocks[m] \in [Slots -> Nat]
  BY DEF RepairTypeOK
<1> QED BY <1>1, SlotsFinite, SumNat DEF BlockBytes

LEMMA ExtraInt ==
  /\ RawMbExtra \in Int /\ RawYExtra \in Int /\ RawUvExtra \in Int /\ DcExtra \in Int
  /\ CopyBytes = 3 /\ Mbs \in Nat /\ Mbs > 0
BY RepairAssumption DEF RawMbExtra, RawYExtra, RawUvExtra, DcExtra, CopyBytes

LEMMA ChargeInt ==
  ASSUME RepairTypeOK, NEW m \in MbIndices
  PROVE  Charge(m) \in Int
<1>1. cost[m] \in Int /\ rawMode[m] \in RawModes
  BY DEF RepairTypeOK
<1> QED BY <1>1, ExtraInt DEF Charge, RawModes

(* A macroblock is charged d bytes more.                                    *)
LEMMA Recharged ==
  ASSUME RepairTypeOK, RepairTypeOK', Covered, next = 0, payload = 0,
         next' = next, payload' = payload,
         NEW m \in MbIndices, NEW d \in Int,
         Charge(m)' = Charge(m) + d,
         \A i \in MbIndices : i # m => Charge(i)' = Charge(i),
         estimate' = estimate + d
  PROVE  Covered'
<1>1. PICK p : Totals(p)
  BY DEF Covered
<1> DEFINE q == [i \in 0..Mbs |-> IF i > m THEN p[i] + d ELSE p[i]]
<1>2. Mbs \in Nat /\ m \in Int /\ 0 <= m /\ m < Mbs /\ MbIndices = 0..(Mbs - 1)
  BY ExtraInt DEF MbIndices
<1>3. p \in [0..Mbs -> Int] /\ p[0] = 0 /\ p[Mbs] = estimate
      /\ \A i \in MbIndices : p[i + 1] = p[i] + Charge(i)
  BY <1>1 DEF Totals
<1>4. q \in [0..Mbs -> Int] /\ q[0] = 0 /\ q[Mbs] = estimate'
  BY <1>2, <1>3
<1>5. \A i \in MbIndices : q[i + 1] = q[i] + Charge(i)'
  <2> SUFFICES ASSUME NEW i \in MbIndices PROVE q[i + 1] = q[i] + Charge(i)'
    OBVIOUS
  <2>1. i \in 0..Mbs /\ i + 1 \in 0..Mbs /\ i \in Int
    BY <1>2
  <2>2. p[i + 1] = p[i] + Charge(i) /\ Charge(i) \in Int /\ p[i] \in Int
    BY <1>3, <2>1, ChargeInt
  <2>3. CASE i = m
    BY <1>2, <2>1, <2>2, <2>3
  <2>4. CASE i < m
    <3>1. Charge(i)' = Charge(i)
      BY <1>2, <2>1, <2>4
    <3> QED BY <1>2, <2>1, <2>2, <2>4, <3>1
  <2>5. CASE i > m
    <3>1. Charge(i)' = Charge(i)
      BY <1>2, <2>1, <2>5
    <3> QED BY <1>2, <2>1, <2>2, <2>5, <3>1
  <2> QED BY <1>2, <2>1, <2>3, <2>4, <2>5
<1> HIDE DEF q
<1>6. Totals(q)'
  BY <1>4, <1>5 DEF Totals
<1>7. payload' <= q[next']
  BY <1>4
<1> QED BY <1>6, <1>7 DEF Covered

(* One macroblock is repaired in another way; the estimate moves with it.   *)
LEMMA ChangeOne ==
  ASSUME RepairInv, pass \in {"res", "dc", "uv"},
         pass' = pass, budget' = budget, next' = next, payload' = payload,
         NEW m \in MbIndices, NEW mode \in RawModes, NEW bs \in [Slots -> Nat],
         NEW c \in Int, NEW d \in Int,
         rawMode' = [rawMode EXCEPT ![m] = mode],
         blocks' = [blocks EXCEPT ![m] = bs],
         cost' = [cost EXCEPT ![m] = c],
         CostExact(m)', Charge(m)' = Charge(m) + d,
         estimate' = estimate + d, estimate' <= budget
  PROVE  RepairInv'
<1>1. RepairTypeOK
  BY DEF RepairInv
<1>2. RepairTypeOK'
  BY <1>1 DEF RepairTypeOK
<1>3. \A i \in MbIndices : i # m =>
        rawMode'[i] = rawMode[i] /\ blocks'[i] = blocks[i] /\ cost'[i] = cost[i]
  BY <1>1 DEF RepairTypeOK
<1>4. \A i \in MbIndices : i # m => CostExact(i)'
  BY <1>3 DEF RepairInv, CostExact, BlockBytes, HasBlocks
<1>5. \A i \in MbIndices : i # m => Charge(i)' = Charge(i)
  BY <1>3 DEF Charge
<1>6. Covered /\ next = 0 /\ payload = 0
  BY DEF RepairInv
<1>7. Covered'
  BY <1>1, <1>2, <1>5, <1>6, Recharged
<1> QED BY <1>2, <1>4, <1>6, <1>7 DEF RepairInv

(* The bytes of a raw mode are those its name says.                         *)
RawExtra(mode) ==
  CASE mode = "raw"   -> RawMbExtra
    [] mode = "rawY"  -> RawYExtra
    [] mode = "rawUv" -> RawUvExtra
    [] OTHER          -> DcExtra

LEMMA ReplaceInv ==
  ASSUME RepairInv, pass \in {"res", "dc", "uv"}, NEW m \in MbIndices,
         NEW mode \in {"raw", "rawY", "rawUv", "dc"},
         Replace(m, mode, RawExtra(mode)),
         UNCHANGED <<pass, budget, next, payload>>
  PROVE  RepairInv'
<1> DEFINE d == RawExtra(mode) - cost[m]
<1>1. /\ rawMode \in [MbIndices -> RawModes] /\ blocks \in [MbIndices -> [Slots -> Nat]]
      /\ cost \in [MbIndices -> Int] /\ cost[m] \in Int /\ estimate \in Int
  BY DEF RepairInv, RepairTypeOK
<1>2. RawExtra(mode) \in Int /\ d \in Int
  BY <1>1, ExtraInt DEF RawExtra
<1>3. /\ rawMode[m] = "none" /\ rawMode' = [rawMode EXCEPT ![m] = mode]
      /\ blocks' = [blocks EXCEPT ![m] = NoBlocks] /\ cost' = [cost EXCEPT ![m] = 0]
      /\ estimate' = estimate - cost[m] + RawExtra(mode)
      /\ estimate' <= budget
  BY DEF Replace, Fits
<1>4. rawMode'[m] = mode /\ blocks'[m] = NoBlocks /\ cost'[m] = 0
  BY <1>1, <1>3
<1>5. CostExact(m)'
  BY <1>4 DEF CostExact, HasBlocks
<1>6. Charge(m) = CopyBytes + cost[m] /\ Charge(m)' = CopyBytes + RawExtra(mode)
  BY <1>3, <1>4 DEF Charge, RawExtra
<1>7. estimate' = estimate + d /\ Charge(m)' = Charge(m) + d
  BY <1>1, <1>2, <1>3, <1>6, ExtraInt
<1>8. NoBlocks \in [Slots -> Nat] /\ mode \in RawModes
  BY NoBlocksCost DEF RawModes
<1>9. pass' = pass /\ budget' = budget /\ next' = next /\ payload' = payload
      /\ 0 \in Int
  OBVIOUS
<1> HIDE DEF d
<1> QED BY <1>2, <1>3, <1>5, <1>7, <1>8, <1>9, ChangeOne

LEMMA AddBlockInv ==
  ASSUME RepairInv, NEW m \in MbIndices, NEW s \in Slots, NEW b \in BlockCosts,
         AddBlock(m, s, b)
  PROVE  RepairInv'
<1> DEFINE d == ExtraCost(m, b)
           bs == [blocks[m] EXCEPT ![s] = b]
           c == cost[m] + d
<1>1. /\ rawMode \in [MbIndices -> RawModes] /\ blocks \in [MbIndices -> [Slots -> Nat]]
      /\ cost \in [MbIndices -> Int] /\ cost[m] \in Int /\ estimate \in Int
      /\ blocks[m] \in [Slots -> Nat]
  BY DEF RepairInv, RepairTypeOK
<1>2. b \in Nat /\ b > 0 /\ d \in Int /\ c \in Int
  BY <1>1, RepairAssumption DEF ExtraCost
<1>3. /\ pass = "res" /\ rawMode[m] = "none" /\ blocks[m][s] = 0
      /\ blocks' = [blocks EXCEPT ![m] = bs] /\ cost' = [cost EXCEPT ![m] = c]
      /\ estimate' = estimate + d /\ estimate' <= budget
      /\ rawMode' = rawMode
      /\ pass' = pass /\ budget' = budget /\ next' = next /\ payload' = payload
  BY DEF AddBlock, Fits
<1>4. rawMode' = [rawMode EXCEPT ![m] = "none"]
  BY <1>1, <1>3
<1>5. bs \in [Slots -> Nat] /\ bs # NoBlocks
      /\ \A y \in Slots : bs[y] = IF y = s THEN blocks[m][y] + b ELSE blocks[m][y]
  BY <1>1, <1>2, <1>3 DEF NoBlocks
<1> HIDE DEF bs
<1>6. SumFunction(bs) = BlockBytes(m) + b
  <2> DEFINE f == blocks[m]
  <2>1. f \in [Slots -> Nat]
        /\ \A y \in Slots : bs[y] = IF y = s THEN f[y] + b ELSE f[y]
    BY <1>1, <1>5
  <2>2. BlockBytes(m) = SumFunction(f)
    BY DEF BlockBytes
  <2> HIDE DEF f
  <2>3. SumFunction(bs) = SumFunction(f) + b
    BY <1>2, <1>5, <2>1, SlotsFinite, SumRaised
  <2> QED BY <2>2, <2>3
<1>7. rawMode'[m] = "none" /\ blocks'[m] = bs /\ cost'[m] = c
  BY <1>1, <1>3
<1>8. BlockBytes(m) \in Nat /\ (~HasBlocks(m) => BlockBytes(m) = 0)
  BY BlockBytesNat, NoBlocksCost DEF BlockBytes, HasBlocks, RepairInv
<1>9. cost[m] = IF HasBlocks(m) THEN 1 + BlockBytes(m) ELSE 0
  BY <1>3 DEF RepairInv, CostExact
<1>10. c = 1 + SumFunction(bs)
  BY <1>2, <1>6, <1>8, <1>9 DEF ExtraCost
<1>11. CostExact(m)'
  BY <1>5, <1>7, <1>10 DEF CostExact, HasBlocks, BlockBytes
<1>12. Charge(m)' = Charge(m) + d
  <2>1. Charge(m) = CopyBytes + cost[m] /\ Charge(m)' = CopyBytes + c
    BY <1>3, <1>7 DEF Charge
  <2> HIDE DEF d
  <2> QED BY <1>1, <1>2, <2>1, ExtraInt
<1>13. "none" \in RawModes
  BY DEF RawModes
<1> HIDE DEF c, d
<1> QED BY <1>2, <1>3, <1>4, <1>5, <1>11, <1>12, <1>13, ChangeOne

LEMMA KeepLumaInv ==
  ASSUME RepairInv, NEW m \in MbIndices, TakeRawUvKeepLuma(m)
  PROVE  RepairInv'
<1> DEFINE bs == LumaBlocks(m)
           c == ComboCost(m)
           d == c - cost[m]
<1>1. /\ rawMode \in [MbIndices -> RawModes] /\ blocks \in [MbIndices -> [Slots -> Nat]]
      /\ cost \in [MbIndices -> Int] /\ cost[m] \in Int /\ estimate \in Int
      /\ blocks[m] \in [Slots -> Nat]
  BY DEF RepairInv, RepairTypeOK
<1>2. bs \in [Slots -> Nat] /\ \A s \in ChromaSlots : bs[s] = 0
  BY <1>1, RepairAssumption DEF LumaBlocks, Slots
<1>3. c = 1 + RawUvBytes + SumFunction(bs)
  BY DEF ComboCost, LumaCost
<1> HIDE DEF bs
<1>4. c \in Int /\ d \in Int
  <2>1. SumFunction(bs) \in Nat
    BY <1>2, SlotsFinite, SumNat
  <2> QED BY <1>1, <1>3, <2>1, RepairAssumption
<1> HIDE DEF c
<1>5. /\ pass = "uv" /\ rawMode[m] = "none"
      /\ rawMode' = [rawMode EXCEPT ![m] = "resRawUv"]
      /\ blocks' = [blocks EXCEPT ![m] = bs] /\ cost' = [cost EXCEPT ![m] = c]
      /\ estimate' = estimate - cost[m] + c /\ estimate' <= budget
      /\ pass' = pass /\ budget' = budget /\ next' = next /\ payload' = payload
  BY DEF TakeRawUvKeepLuma, Fits, bs, c
<1>6. rawMode'[m] = "resRawUv" /\ blocks'[m] = bs /\ cost'[m] = c
  BY <1>1, <1>5
<1>7. CostExact(m)'
  BY <1>2, <1>3, <1>6 DEF CostExact, BlockBytes
<1>8. Charge(m) = CopyBytes + cost[m] /\ Charge(m)' = CopyBytes + c
  BY <1>5, <1>6 DEF Charge
<1>9. Charge(m)' = Charge(m) + d /\ estimate' = estimate + d
  BY <1>1, <1>4, <1>5, <1>8, ExtraInt
<1>10. "resRawUv" \in RawModes
  BY DEF RawModes
<1> HIDE DEF d
<1> QED BY <1>2, <1>4, <1>5, <1>7, <1>9, <1>10, ChangeOne

(* A macroblock takes no more bytes than it was charged with.               *)
LEMMA BytesCharged ==
  ASSUME RepairInv, NEW m \in MbIndices, NEW b \in MbBytes(m)
  PROVE  b \in Nat /\ b <= Charge(m)
<1>1. rawMode[m] \in RawModes /\ BlockBytes(m) \in Nat /\ CostExact(m)
  BY BlockBytesNat DEF RepairInv, RepairTypeOK
<1>2. RawYBytes \in Nat /\ RawUvBytes \in Nat
  BY RepairAssumption
<1>3. CASE rawMode[m] = "none" /\ HasBlocks(m)
  BY <1>1, <1>2, <1>3 DEF MbBytes, Charge, CostExact, CopyBytes
<1>4. CASE rawMode[m] = "none" /\ ~HasBlocks(m)
  BY <1>1, <1>2, <1>4 DEF MbBytes, Charge, CostExact, CopyBytes
<1>5. CASE rawMode[m] = "resRawUv"
  BY <1>1, <1>2, <1>5 DEF MbBytes, Charge, CostExact, CopyBytes
<1>6. CASE rawMode[m] = "raw"
  <2>1. b = 1 + RawYBytes + RawUvBytes
    BY <1>6 DEF MbBytes
  <2>2. Charge(m) = CopyBytes + RawMbExtra
    BY <1>6 DEF Charge
  <2> QED BY <1>2, <2>1, <2>2 DEF CopyBytes, RawMbExtra
<1>7. CASE rawMode[m] = "rawY"
  <2>1. b = 3 + RawYBytes
    BY <1>7 DEF MbBytes
  <2>2. Charge(m) = CopyBytes + RawYExtra
    BY <1>7 DEF Charge
  <2> QED BY <1>2, <2>1, <2>2 DEF CopyBytes, RawYExtra
<1>8. CASE rawMode[m] = "rawUv"
  <2>1. b = 3 + RawUvBytes
    BY <1>8 DEF MbBytes
  <2>2. Charge(m) = CopyBytes + RawUvExtra
    BY <1>8 DEF Charge
  <2> QED BY <1>2, <2>1, <2>2 DEF CopyBytes, RawUvExtra
<1>9. CASE rawMode[m] = "dc"
  <2>1. b = 6
    BY <1>9 DEF MbBytes
  <2>2. Charge(m) = CopyBytes + DcExtra
    BY <1>9 DEF Charge
  <2> QED BY <1>2, <2>1, <2>2 DEF CopyBytes, DcExtra
<1> QED BY <1>1, <1>3, <1>4, <1>5, <1>6, <1>7, <1>8, <1>9 DEF RawModes

(* A step of a P frame.                                                     *)
LEMMA RepairStepInv ==
  ASSUME RepairInv, RepairStep
  PROVE  RepairInv' /\ pass # "idle" /\ pass' # "idle" /\ budget' = budget
<1>1. ASSUME NEW m \in MbIndices, NEW s \in Slots, NEW b \in BlockCosts,
             AddBlock(m, s, b)
      PROVE  RepairInv' /\ pass # "idle" /\ pass' # "idle" /\ budget' = budget
  BY <1>1, AddBlockInv DEF AddBlock
<1>2. ASSUME NEW m \in MbIndices,
             TakeRawMb(m) \/ TakeRawY(m) \/ TakeDc(m) \/ TakeRawUv(m)
      PROVE  RepairInv' /\ pass # "idle" /\ pass' # "idle" /\ budget' = budget
  <2>1. /\ pass \in {"res", "dc", "uv"} /\ UNCHANGED <<pass, budget, next, payload>>
        /\ \E mode \in {"raw", "rawY", "rawUv", "dc"} :
             Replace(m, mode, RawExtra(mode))
    BY <1>2 DEF TakeRawMb, TakeRawY, TakeDc, TakeRawUv, RawExtra
  <2> QED BY <2>1, ReplaceInv
<1>3. ASSUME NEW m \in MbIndices, TakeRawUvKeepLuma(m)
      PROVE  RepairInv' /\ pass # "idle" /\ pass' # "idle" /\ budget' = budget
  BY <1>3, KeepLumaInv DEF TakeRawUvKeepLuma
<1>4. CASE EndPass
  <2>1. /\ pass \in {"res", "dc", "uv"} /\ pass' \in {"dc", "uv", "write"}
        /\ UNCHANGED <<budget, rawMode, blocks, cost, estimate, next, payload>>
    BY <1>4 DEF EndPass, chosen
  <2>2. \A i \in MbIndices : Charge(i)' = Charge(i) /\ CostExact(i)' = CostExact(i)
    BY <2>1 DEF Charge, CostExact, BlockBytes, HasBlocks
  <2>3. RepairTypeOK'
    BY <2>1 DEF RepairInv, RepairTypeOK
  <2>4. Covered'
    BY <2>1, <2>2 DEF RepairInv, Covered, Totals
  <2> QED BY <2>1, <2>2, <2>3, <2>4 DEF RepairInv
<1>5. CASE WriteMb
  <2>1. /\ pass = "write" /\ next < Mbs /\ next' = next + 1
        /\ UNCHANGED <<pass, budget, rawMode, blocks, cost, estimate>>
    BY <1>5 DEF WriteMb, chosen
  <2>2. PICK b \in MbBytes(next) : payload' = payload + b
    BY <1>5 DEF WriteMb
  <2>3. next \in MbIndices /\ next \in Int /\ next' \in 0..Mbs
    BY <2>1, ExtraInt DEF RepairInv, RepairTypeOK, MbIndices
  <2>4. b \in Nat /\ b <= Charge(next) /\ Charge(next) \in Int
    BY <2>2, <2>3, BytesCharged, ChargeInt DEF RepairInv
  <2>5. \A i \in MbIndices : Charge(i)' = Charge(i) /\ CostExact(i)' = CostExact(i)
    BY <2>1 DEF Charge, CostExact, BlockBytes, HasBlocks
  <2>6. RepairTypeOK'
    BY <2>1, <2>2, <2>3, <2>4 DEF RepairInv, RepairTypeOK
  <2>7. PICK p : Totals(p) /\ payload <= p[next]
    BY <2>1 DEF RepairInv, Covered
  <2>8. p[next] \in Int /\ p[next'] = p[next] + Charge(next)
    BY <2>1, <2>3, <2>7 DEF Totals, RepairInv, RepairTypeOK
  <2>9. payload' <= p[next']
    BY <2>2, <2>4, <2>7, <2>8 DEF RepairInv, RepairTypeOK
  <2>10. Totals(p)'
    BY <2>1, <2>5, <2>7 DEF Totals
  <2>11. Covered'
    BY <2>9, <2>10 DEF Covered
  <2> QED BY <2>1, <2>5, <2>6, <2>11 DEF RepairInv
<1> QED BY <1>1, <1>2, <1>3, <1>4, <1>5 DEF RepairStep

(* A frame begins with a copy of every macroblock, which its budget covers. *)
LEMMA BeginFrameInv ==
  ASSUME RepairInv, NEW b \in Int, BeginFrame(b), Mbs * CopyBytes <= b
  PROVE  RepairInv' /\ pass' = "res" /\ budget' = b
<1>1. /\ pass = "idle" /\ pass' = "res" /\ budget' = b
      /\ estimate' = Mbs * CopyBytes /\ next' = 0 /\ payload' = 0
      /\ UNCHANGED <<rawMode, blocks, cost>>
  BY DEF BeginFrame
<1>2. Mbs * CopyBytes = 3 * Mbs /\ Mbs \in Nat /\ Mbs * CopyBytes \in Int
  BY ExtraInt
<1>3. RepairTypeOK'
  BY <1>1, <1>2 DEF RepairInv, RepairTypeOK
<1>4. \A i \in MbIndices : CostExact(i)'
  BY <1>1 DEF RepairInv, CostExact, BlockBytes, HasBlocks
<1>5. \A i \in MbIndices : Charge(i)' = 3
  <2> SUFFICES ASSUME NEW i \in MbIndices PROVE Charge(i)' = 3
    OBVIOUS
  <2>1. rawMode'[i] = "none" /\ cost'[i] = 0
    BY <1>1 DEF RepairInv, CostExact, HasBlocks
  <2> QED BY <2>1, ExtraInt DEF Charge
<1> DEFINE p == [i \in 0..Mbs |-> 3 * i]
<1>6. Totals(p)'
  <2>1. p \in [0..Mbs -> Int] /\ p[0] = 0 /\ p[Mbs] = estimate'
    BY <1>1, <1>2
  <2>2. \A i \in MbIndices : p[i + 1] = p[i] + 3
    BY <1>2 DEF MbIndices
  <2> HIDE DEF p
  <2> QED BY <1>5, <2>1, <2>2 DEF Totals
<1>7. payload' <= p[next']
  BY <1>1, <1>2
<1> HIDE DEF p
<1>8. Covered'
  BY <1>6, <1>7 DEF Covered
<1> QED BY <1>1, <1>3, <1>4, <1>8 DEF RepairInv
-----------------------------------------------------------------------------
(* The encoder implements its budget.                                       *)

(* A P frame is encoded with a budget O3vpxBudget allows it.                *)
Started ==
  pass # "idle" =>
    InP /\ \E burst \in Bursts : budget = FrameBudget(fno, burst)

EncoderInv == IndInv /\ RepairInv /\ Started

LEMMA BudgetInt ==
  ASSUME IndInv, InP, NEW burst \in Bursts
  PROVE  FrameBudget(fno, burst) \in Int /\ MinPayload <= FrameBudget(fno, burst)
<1>1. remaining \in Int /\ Reserved(fno) \in Int
  BY ReserveEnough DEF InP
<1>2. burst \in Int
  BY DEF Bursts, IndInv, TypeOK
<1> QED BY <1>1, <1>2, BudgetAssumption DEF FrameBudget, AtLeastMin

LEMMA NotExhausted ==
  ASSUME IndInv, InP
  PROVE  ~(pLeft <= 0 \/ Exhausted(fno))
<1>1. /\ pLeft > 0 /\ pLeft \in Int /\ remaining \in Int /\ Reserved(fno) \in Int
      /\ remaining >= Reserved(fno) + MinPayload
  BY ReserveEnough DEF InP
<1> QED BY <1>1, BudgetAssumption DEF Exhausted

LEMMA BeginPStep == EncoderInv /\ BeginP => EncoderInv' /\ UNCHANGED vars
<1> SUFFICES ASSUME EncoderInv, BeginP PROVE EncoderInv' /\ UNCHANGED vars
  OBVIOUS
<1>1. IndInv /\ InP /\ RepairInv
  BY DEF EncoderInv, BeginP
<1>2. ~(pLeft <= 0 \/ Exhausted(fno))
  BY <1>1, NotExhausted
<1>3. UNCHANGED vars
  BY <1>2 DEF BeginP, vars
<1>4. PICK burst \in Bursts : BeginFrame(FrameBudget(fno, burst))
  BY <1>2 DEF BeginP
<1>5. PICK b \in Int : b = FrameBudget(fno, burst) /\ MinPayload <= b
  BY <1>1, BudgetInt
<1>6. BeginFrame(b) /\ Mbs * CopyBytes <= b
  BY <1>4, <1>5, EncoderAssumption
<1>7. RepairInv' /\ budget' = b
  BY <1>1, <1>6, BeginFrameInv
<1>8. IndInv'
  BY <1>1, <1>3, StutterInv
<1>9. Started'
  BY <1>1, <1>3, <1>5, <1>7 DEF Started, InP, Bursts, FrameBudget, AtLeastMin, Reserved,
     MinFuture, Future, vars, planVars, keyVars, dealVars, spendVars
<1> QED BY <1>3, <1>7, <1>8, <1>9 DEF EncoderInv

LEMMA RepairPStep == EncoderInv /\ RepairP => EncoderInv' /\ UNCHANGED vars
<1> SUFFICES ASSUME EncoderInv, RepairP PROVE EncoderInv' /\ UNCHANGED vars
  OBVIOUS
<1>1. IndInv /\ RepairInv /\ Started
  BY DEF EncoderInv
<1>2. ~(pass = "write" /\ next < Mbs /\ ChromaAmongLuma(next))
  <2> SUFFICES ASSUME pass = "write", next < Mbs, ChromaAmongLuma(next) PROVE FALSE
    OBVIOUS
  <2>1. next \in MbIndices
    BY <1>1, ExtraInt DEF RepairInv, RepairTypeOK, MbIndices
  <2> QED BY <1>1, <2>1 DEF RepairInv, CostExact, ChromaAmongLuma
<1>3. RepairStep /\ UNCHANGED vars
  BY <1>2 DEF RepairP, vars
<1>4. RepairInv' /\ pass # "idle" /\ pass' # "idle" /\ budget' = budget
  BY <1>1, <1>3, RepairStepInv
<1>5. IndInv'
  BY <1>1, <1>3, StutterInv
<1>6. Started'
  BY <1>1, <1>3, <1>4 DEF Started, InP, Bursts, FrameBudget, AtLeastMin, Reserved,
     MinFuture, Future, vars, planVars, keyVars, dealVars, spendVars
<1> QED BY <1>3, <1>4, <1>5, <1>6 DEF EncoderInv

(* What was written is within the budget: the end of the frame is a step    *)
(* EncodeP.                                                                 *)
LEMMA EndPStep == EncoderInv /\ EndP => EncoderInv' /\ EncodeP
<1> SUFFICES ASSUME EncoderInv, EndP PROVE EncoderInv' /\ EncodeP
  OBVIOUS
<1>1. IndInv /\ RepairInv /\ Started /\ InP /\ EndFrame
  BY DEF EncoderInv, EndP
<1>2. pass = "write" /\ next = Mbs
  BY <1>1 DEF EndFrame
<1>3. PICK burst \in Bursts : budget = FrameBudget(fno, burst)
  BY <1>1, <1>2 DEF Started
<1>4. payload \in 0..FrameBudget(fno, burst)
  <2>1. PICK p : Totals(p) /\ payload <= p[next]
    BY <1>1, <1>2 DEF RepairInv, Covered
  <2>2. payload <= estimate /\ estimate <= budget
    BY <1>1, <1>2, <2>1 DEF RepairInv, Totals
  <2> QED BY <1>1, <1>3, <2>2 DEF RepairInv, RepairTypeOK
<1>5. ~(pLeft <= 0 \/ Exhausted(fno))
  BY <1>1, NotExhausted
<1>6. IF pLeft <= 0 \/ Exhausted(fno) \/ payload > remaining
      THEN pc' = "died" /\ UNCHANGED <<fno, spendVars>>
      ELSE /\ bytes' = bytes + FrameHeader + payload
           /\ remaining' = remaining - payload
           /\ pLeft' = pLeft - 1
           /\ fno' = fno + 1
           /\ UNCHANGED pc
  BY <1>5 DEF EndP
<1>7. EncodeP
  <2>1. PICK spent : spent = payload
    OBVIOUS
  <2>2. spent \in 0..FrameBudget(fno, burst)
        /\ IF pLeft <= 0 \/ Exhausted(fno) \/ spent > remaining
           THEN pc' = "died" /\ UNCHANGED <<fno, spendVars>>
           ELSE /\ bytes' = bytes + FrameHeader + spent
                /\ remaining' = remaining - spent
                /\ pLeft' = pLeft - 1
                /\ fno' = fno + 1
                /\ UNCHANGED pc
    BY <1>4, <1>6, <2>1
  <2>3. UNCHANGED <<planVars, keyVars, dealVars>>
    BY DEF EndP
  <2> QED BY <1>1, <1>3, <2>2, <2>3 DEF EncodeP, InP
<1>8. IndInv'
  BY <1>1, <1>7, EncodePInv
<1>9. pass' = "idle" /\ RepairTypeOK'
      /\ \A m \in MbIndices : /\ rawMode'[m] = "none" /\ blocks'[m] = NoBlocks
                              /\ cost'[m] = 0
  BY <1>1, NoBlocksCost, ExtraInt DEF EndFrame, RepairTypeOK, RawModes
<1>10. RepairInv' /\ Started'
  BY <1>9 DEF RepairInv, Started, CostExact, HasBlocks
<1> QED BY <1>7, <1>8, <1>10 DEF EncoderInv

(* The plan and the keys: no P frame is under way.                          *)
LEMMA PlanAndKeysStep == EncoderInv /\ PlanAndKeys => EncoderInv' /\ Next
<1> SUFFICES ASSUME EncoderInv, PlanAndKeys PROVE EncoderInv' /\ Next
  OBVIOUS
<1>1. IndInv /\ RepairInv /\ Started /\ UNCHANGED repairVars
  BY DEF EncoderInv, PlanAndKeys
<1>2. Next
  BY DEF PlanAndKeys, Next
<1>3. IndInv'
  BY <1>1, PlanKeyInv, PlanBudgetInv, DealKeyInv, DealPInv, DealDoneInv,
     EncodeKeyInv, EncodeDoneInv DEF PlanAndKeys
<1>4. ~InP
  <2>1. fno \in Int /\ frames \in Int
    BY <1>1 DEF IndInv, TypeOK
  <2> QED BY <2>1 DEF PlanAndKeys, InP, PlanKey, PlanBudget, DealKey, DealP, DealDone,
         EncodeKey, EncodeDone
<1>5. pass = "idle" /\ pass' = "idle"
  BY <1>1, <1>4 DEF Started, repairVars
<1>6. RepairInv' /\ Started'
  BY <1>1, <1>5 DEF RepairInv, RepairTypeOK, Started, CostExact, HasBlocks, BlockBytes,
     repairVars
<1> QED BY <1>2, <1>3, <1>6 DEF EncoderInv

LEMMA EncoderStep ==
  EncoderInv /\ [EncoderNext]_<<vars, repairVars>> => EncoderInv' /\ [Next]_vars
<1> SUFFICES ASSUME EncoderInv, [EncoderNext]_<<vars, repairVars>>
             PROVE  EncoderInv' /\ [Next]_vars
  OBVIOUS
<1>1. CASE EncoderNext
  <2>1. CASE PlanAndKeys
    BY <2>1, PlanAndKeysStep
  <2>2. CASE BeginP
    BY <2>2, BeginPStep
  <2>3. CASE RepairP
    BY <2>3, RepairPStep
  <2>4. CASE EndP
    BY <2>4, EndPStep DEF Next
  <2> QED BY <1>1, <2>1, <2>2, <2>3, <2>4 DEF EncoderNext
<1>2. CASE UNCHANGED <<vars, repairVars>>
  <2>1. UNCHANGED vars /\ UNCHANGED repairVars
    BY <1>2
  <2>2. IndInv'
    BY <2>1, StutterInv DEF EncoderInv
  <2>3. \A i \in MbIndices : Charge(i)' = Charge(i) /\ CostExact(i)' = CostExact(i)
    BY <2>1 DEF Charge, CostExact, BlockBytes, HasBlocks, repairVars
  <2>4. Covered' = Covered
    BY <2>1, <2>3 DEF Covered, Totals, repairVars
  <2>5. RepairInv'
    BY <2>1, <2>3, <2>4 DEF EncoderInv, RepairInv, RepairTypeOK, repairVars
  <2>6. Started'
    BY <2>1 DEF EncoderInv, Started, InP, Bursts, FrameBudget, AtLeastMin, Reserved,
       MinFuture, Future, vars, planVars, keyVars, dealVars, spendVars, repairVars
  <2> QED BY <2>1, <2>2, <2>5, <2>6 DEF EncoderInv
<1> QED BY <1>1, <1>2

LEMMA EncoderInitInv == EncoderInit => EncoderInv /\ Init
<1> SUFFICES ASSUME EncoderInit PROVE EncoderInv /\ Init
  OBVIOUS
<1>1. Init /\ IndInv
  BY InitInv DEF EncoderInit
<1>2. RepairInv /\ Started
  BY NoBlocksCost, ExtraInt DEF EncoderInit, RepairInit, RepairInv, RepairTypeOK,
     RawModes, Started, CostExact, HasBlocks
<1> QED BY <1>1, <1>2 DEF EncoderInv

(* The estimate of a P frame covers what is written of it, in every pass,   *)
(* and stays within the budget the frame was given.                         *)
THEOREM EstimateCovers == EncoderSpec => []EncoderInv
<1> QED BY EncoderInitInv, EncoderStep, PTL DEF EncoderSpec

(* The encoder with its three passes implements the accounts: no frame      *)
(* takes more than its budget, and neither the accounts nor the blocks kept *)
(* beside raw chroma ever make it die.                                      *)
THEOREM EncoderRefinement == EncoderSpec => BudgetSpec
<1> QED BY EncoderInitInv, EncoderStep, EstimateCovers, PTL
     DEF EncoderSpec, BudgetSpec, Spec

(* So what holds of the accounts holds of the encoder.                      *)
THEOREM EncoderKeepsAccounts ==
  EncoderSpec => [](AccountsHold /\ StreamWithinTarget)
BY EncoderRefinement, NeverDies, TargetKept, PTL DEF BudgetSpec
-----------------------------------------------------------------------------
(* Multiples and quotients.                                                 *)

LEMMA MulMono ==
  ASSUME NEW a \in Int, NEW b \in Int, NEW s \in Nat, a <= b
  PROVE  a * s \in Int /\ b * s \in Int /\ a * s <= b * s
<1>1. PICK d \in Nat : b = a + d
  <2> WITNESS b - a \in Nat
  <2> QED OBVIOUS
<1>2. d * s \in Nat
  OBVIOUS
<1>3. b * s = a * s + d * s
  BY <1>1
<1> QED
  BY <1>2, <1>3

(* What lies between two multiples of s has its quotient between them.      *)
LEMMA DivWithin ==
  ASSUME NEW a \in Int, NEW lo \in Int, NEW hi \in Int, NEW s \in Nat, s > 0,
         lo * s <= a, a < hi * s
  PROVE  a \div s \in Int /\ lo <= a \div s /\ a \div s < hi
<1> DEFINE q == a \div s
<1>1. q \in Int /\ a = s * q + (a % s) /\ 0 <= a % s /\ a % s < s /\ a % s \in Int
  OBVIOUS
<1> HIDE DEF q
<1>2. q * s \in Int /\ q * s <= a /\ a < q * s + s /\ (q + 1) * s = q * s + s
  BY <1>1
<1>3. ~(q < lo)
  <2> SUFFICES ASSUME q + 1 <= lo PROVE FALSE
    BY <1>1
  <2>1. (q + 1) * s <= lo * s
    BY <1>1, MulMono
  <2> QED BY <1>2, <2>1
<1>4. ~(hi <= q)
  <2> SUFFICES ASSUME hi <= q PROVE FALSE
    OBVIOUS
  <2>1. hi * s <= q * s /\ hi * s \in Int
    BY <1>1, MulMono
  <2> QED BY <1>2, <2>1
<1> QED BY <1>1, <1>3, <1>4 DEF q

(* Column and row of a macroblock, and back.                                *)
LEMMA Position ==
  ASSUME NEW m \in Macroblocks
  PROVE  /\ X(m) \in 0..(MbW - 1) /\ Y(m) \in 0..(MbH - 1)
         /\ Y(m) * MbW \in Int /\ m = Y(m) * MbW + X(m)
<1> USE CodecAssumption
<1>1. /\ MbW * MbH \in Int /\ m \in Int /\ 0 <= m /\ m < MbW * MbH
      /\ 0 * MbW = 0 /\ MbH * MbW = MbW * MbH
  BY DEF Macroblocks
<1>2. Y(m) \in 0..(MbH - 1)
  BY <1>1, DivWithin DEF Y
<1>3. m = MbW * (m \div MbW) + (m % MbW) /\ m % MbW \in 0..(MbW - 1)
  BY <1>1
<1> QED BY <1>2, <1>3 DEF X, Y

LEMMA PositionUnique ==
  ASSUME NEW x \in 0..(MbW - 1), NEW y \in Int, NEW m \in Int, m = y * MbW + x
  PROVE  X(m) = x /\ Y(m) = y
<1> USE CodecAssumption
<1>1. y * MbW \in Int /\ (y + 1) * MbW = y * MbW + MbW
  OBVIOUS
<1>2. y <= m \div MbW /\ m \div MbW < y + 1 /\ m \div MbW \in Int
  BY <1>1, DivWithin
<1>3. Y(m) = y
  BY <1>2 DEF Y
<1>4. m = MbW * (m \div MbW) + (m % MbW) /\ m % MbW \in Int
  OBVIOUS
<1> QED BY <1>1, <1>3, <1>4 DEF X, Y

(* The eye a column lies in: its columns are EyeMinX .. EyeMaxX.            *)
LEMMA EyeRange ==
  ASSUME NEW x \in 0..(MbW - 1)
  PROVE  /\ EyeMinX(x) \in 0..x /\ EyeMaxX(x) \in x..(MbW - 1)
         /\ \A c \in EyeMinX(x)..EyeMaxX(x) :
              c < MbW \div 2 <=> x < MbW \div 2
BY CodecAssumption DEF EyeMinX, EyeMaxX

(* Columns of the same eye.                                                 *)
LEMMA SameEye ==
  ASSUME NEW m \in Macroblocks, NEW n \in Macroblocks,
         X(n) \in EyeMinX(X(m))..EyeMaxX(X(m))
  PROVE  EyeOf(n) = EyeOf(m)
BY Position, EyeRange DEF EyeOf
-----------------------------------------------------------------------------
(* What a prediction reads.                                                 *)

(* The n pixels from a on, when they lie in the macroblocks lo .. hi.       *)
LEMMA OverlapWithin ==
  ASSUME NEW a \in Int, NEW n \in Nat, n > 0, NEW s \in Nat, s > 0,
         NEW lo \in Int, NEW hi \in Int,
         lo * s <= a, a + n <= (hi + 1) * s
  PROVE  Overlapped(a, n, s) \subseteq lo..hi
<1>1. lo * s \in Int /\ (hi + 1) * s \in Int /\ a + n - 1 \in Int
  OBVIOUS
<1>2. lo * s <= a /\ a < (hi + 1) * s /\ a + n - 1 < (hi + 1) * s /\ lo * s <= a + n - 1
  BY <1>1
<1>3. a \div s \in Int /\ lo <= a \div s
  BY <1>1, <1>2, DivWithin
<1>4. (a + n - 1) \div s \in Int /\ (a + n - 1) \div s < hi + 1
  <2> DEFINE b == a + n - 1
  <2>1. b \in Int /\ lo * s <= b /\ b < (hi + 1) * s
    BY <1>1, <1>2
  <2> HIDE DEF b
  <2>2. b \div s \in Int /\ b \div s < hi + 1
    BY <2>1, DivWithin
  <2> QED BY <2>2 DEF b
<1> QED BY <1>3, <1>4 DEF Overlapped

LEMMA Halves ==
  ASSUME NEW v \in Int
  PROVE  v \div 2 \in Int /\ v = 2 * (v \div 2) + (v % 2) /\ v % 2 \in 0..1
OBVIOUS

(* A vector that MvInBounds() lets pass keeps the luma of the block, the    *)
(* pixel that half pixels need included, inside the eye.                    *)
LEMMA LumaInEye ==
  ASSUME NEW m \in Macroblocks, NEW mv \in Mvs, MvInBounds(m, mv),
         NEW n \in LumaRead(m, mv)
  PROVE  n \in Macroblocks /\ EyeOf(n) = EyeOf(m)
<1> USE CodecAssumption
<1> DEFINE x2 == X(m) * 2 * Size + mv.col
           y2 == Y(m) * 2 * Size + mv.row
           lo == EyeMinX(X(m))
           hi == EyeMaxX(X(m))
<1>1. X(m) \in 0..(MbW - 1) /\ Y(m) \in 0..(MbH - 1)
  BY Position
<1>2. lo \in Int /\ hi \in Int
  BY <1>1, EyeRange
<1>3. /\ x2 >= lo * Size * 2
      /\ x2 \div 2 + Size + (x2 % 2) <= (hi + 1) * Size
  BY DEF MvInBounds
<1>4. n \in Macroblocks
      /\ X(n) \in Overlapped(x2 \div 2, Size + (x2 % 2), Size)
  BY DEF LumaRead, MbsAt
<1>5. x2 \in Int
  BY <1>1
<1> HIDE DEF x2, lo, hi
<1>6. x2 \div 2 \in Int /\ x2 = 2 * (x2 \div 2) + (x2 % 2) /\ x2 % 2 \in 0..1
  BY <1>5, Halves
<1>7. lo * Size \in Int /\ (hi + 1) * Size \in Int /\ lo * Size * 2 = 2 * (lo * Size)
  BY <1>2
<1>8. lo * Size <= x2 \div 2
  BY <1>3, <1>6, <1>7
<1>9. X(n) \in lo..hi
  <2> DEFINE a == x2 \div 2
             w == Size + (x2 % 2)
  <2>1. a \in Int /\ w \in Nat /\ w > 0 /\ lo * Size <= a /\ a + w <= (hi + 1) * Size
        /\ X(n) \in Overlapped(a, w, Size) /\ Size \in Nat /\ Size > 0
    BY <1>3, <1>4, <1>6, <1>7, <1>8
  <2> HIDE DEF a, w
  <2> QED BY <1>2, <2>1, OverlapWithin
<1> QED BY <1>4, <1>9, SameEye DEF lo, hi

(* A quarter of a vector, rounded: it stays within what whole pixels allow. *)
LEMMA RoundWithin ==
  ASSUME NEW v \in Int, NEW j \in Nat, NEW k \in Nat, -4 * j <= v, v <= 4 * k
  PROVE  RoundDiv4(v) \in Int /\ -j <= RoundDiv4(v) /\ RoundDiv4(v) <= k
<1>1. CASE v >= 0
  BY <1>1 DEF RoundDiv4
<1>2. CASE v < 0
  BY <1>2 DEF RoundDiv4
<1> QED BY <1>1, <1>2

(* The chroma block, whose vector is rounded instead, stays inside as well. *)
LEMMA ChromaInEye ==
  ASSUME NEW m \in Macroblocks, NEW mv \in Mvs, MvInBounds(m, mv),
         NEW n \in ChromaRead(m, mv)
  PROVE  n \in Macroblocks /\ EyeOf(n) = EyeOf(m)
<1> USE CodecAssumption
<1> DEFINE x == X(m)
           h == Size \div 2
           x2 == x * 2 * Size + mv.col
           lo == EyeMinX(x)
           hi == EyeMaxX(x)
           c == RoundDiv4(mv.col)
<1>1. x \in 0..(MbW - 1) /\ Y(m) \in 0..(MbH - 1)
  BY Position
<1>2. lo \in Int /\ hi \in Int /\ lo <= x /\ x <= hi
  BY <1>1, EyeRange
<1>3. /\ x2 >= lo * Size * 2
      /\ x2 \div 2 + Size + (x2 % 2) <= (hi + 1) * Size
  BY DEF MvInBounds
<1>4. n \in Macroblocks /\ X(n) \in Overlapped(x * h + c, h, h)
  BY DEF ChromaRead, MbsAt
<1>5. x2 \in Int /\ h \in Nat /\ h > 0 /\ Size = 2 * h /\ mv.col \in Int
      /\ x2 = x * 2 * Size + mv.col /\ x \in Int
  BY <1>1
<1> HIDE DEF x2, lo, hi, h, x
<1>6. x2 \div 2 \in Int /\ x2 = 2 * (x2 \div 2) + (x2 % 2) /\ x2 % 2 \in 0..1
  BY <1>5, Halves
<1>7. /\ x * h \in Int /\ lo * h \in Int /\ hi * h \in Int
      /\ x * 2 * Size = 4 * (x * h) /\ lo * Size * 2 = 4 * (lo * h)
      /\ (hi + 1) * Size = 2 * (hi * h) + 2 * h
      /\ (hi + 1) * h = hi * h + h
  BY <1>2, <1>5
<1>8. lo * h <= x * h /\ x * h <= hi * h
  BY <1>2, <1>5, MulMono
<1> DEFINE j == x * h - lo * h
           k == hi * h - x * h
<1>9. j \in Nat /\ k \in Nat /\ -4 * j <= mv.col /\ mv.col <= 4 * k
  <2>1. PICK at \in Int, left \in Int, right \in Int, d \in Int, r \in 0..1, v \in Int :
           at = x * h /\ left = lo * h /\ right = hi * h
             /\ d = x2 \div 2 /\ r = x2 % 2 /\ v = mv.col
    BY <1>5, <1>6, <1>7
  <2>2. x2 = 4 * at + v /\ x2 >= 4 * left /\ x2 = 2 * d + r
    BY <1>3, <1>5, <1>6, <1>7, <2>1
  <2>3. d + 2 * h + r <= 2 * right + 2 * h
    BY <1>3, <1>5, <1>7, <2>1
  <2>4. left <= at /\ at <= right
    BY <1>8, <2>1
  <2>5. -4 * (at - left) <= v /\ v <= 4 * (right - at)
    BY ONLY <2>2, <2>3, <1>5, at \in Int, left \in Int, right \in Int, d \in Int,
            r \in 0..1, v \in Int
  <2> QED BY <2>1, <2>4, <2>5
<1>10. c \in Int /\ -j <= c /\ c <= k
  <2> HIDE DEF j, k
  <2> QED BY <1>5, <1>9, RoundWithin
<1>11. lo * h <= x * h + c /\ x * h + c + h <= (hi + 1) * h
  BY <1>5, <1>7, <1>10
<1>12. X(n) \in lo..hi
  <2> DEFINE a == x * h + c
  <2>1. a \in Int /\ lo * h <= a /\ a + h <= (hi + 1) * h
        /\ X(n) \in Overlapped(a, h, h)
    BY <1>4, <1>7, <1>10, <1>11
  <2> HIDE DEF a
  <2> QED BY <1>2, <1>5, <2>1, OverlapWithin
<1> QED BY <1>4, <1>12, SameEye DEF lo, hi, x

(* Intra prediction reads macroblocks of the eye that come earlier.         *)
LEMMA NeighboursInEye ==
  ASSUME NEW m \in Macroblocks, NEW mode, NEW n \in Neighbours(m, mode)
  PROVE  n \in Macroblocks /\ n < m /\ EyeOf(n) = EyeOf(m)
<1> DEFINE x == X(m)
           y == Y(m)
<1>1. /\ x \in 0..(MbW - 1) /\ y \in 0..(MbH - 1)
      /\ y * MbW \in Int /\ m = y * MbW + x
  BY Position
<1>2. EyeMinX(x) \in 0..x /\ EyeMaxX(x) \in x..(MbW - 1)
  BY <1>1, EyeRange
<1>3. m \in Int /\ MbW * MbH \in Int /\ 0 <= m /\ m < MbW * MbH
      /\ MbW \in Nat /\ MbW > 0 /\ MbH \in Nat
  BY CodecAssumption DEF Macroblocks
<1> HIDE DEF x, y
<1>4. CASE y > 0 /\ n = m - MbW
  <2>1. y - 1 \in Int /\ 0 <= y - 1 /\ (y - 1) * MbW = y * MbW - MbW /\ 0 * MbW = 0
    BY <1>1, <1>3, <1>4
  <2>2. 0 * MbW <= (y - 1) * MbW
    BY <1>3, <2>1, MulMono
  <2>3. n \in Int /\ n = (y - 1) * MbW + x /\ 0 <= n /\ n < m
    BY <1>1, <1>3, <1>4, <2>1, <2>2
  <2>4. n \in Macroblocks
    BY <1>3, <2>3 DEF Macroblocks
  <2>5. X(n) = x
    BY <1>1, <2>1, <2>3, PositionUnique
  <2>6. X(n) \in EyeMinX(X(m))..EyeMaxX(X(m))
    BY <1>1, <1>2, <2>5 DEF x
  <2> QED BY <2>3, <2>4, <2>6, SameEye
<1>5. CASE x > EyeMinX(x) /\ n = m - 1
  <2>1. x - 1 \in 0..(MbW - 1) /\ n \in Int /\ n = y * MbW + (x - 1) /\ n < m
        /\ y \in Int /\ 0 <= y /\ 0 * MbW = 0
    BY <1>1, <1>2, <1>3, <1>5
  <2>2. 0 * MbW <= y * MbW
    BY <1>3, <2>1, MulMono
  <2>3. n \in Macroblocks
    BY <1>1, <1>3, <2>1, <2>2 DEF Macroblocks
  <2>4. X(n) = x - 1
    BY <2>1, PositionUnique
  <2>5. X(n) \in EyeMinX(X(m))..EyeMaxX(X(m))
    BY <1>1, <1>2, <1>5, <2>4 DEF x
  <2> QED BY <2>1, <2>3, <2>5, SameEye
<1>6. (y > 0 /\ n = m - MbW) \/ (x > EyeMinX(x) /\ n = m - 1)
  <2> DEFINE top == IF HaveTop(m) THEN {m - MbW} ELSE {}
             left == IF HaveLeft(m) THEN {m - 1} ELSE {}
  <2>1. Neighbours(m, mode) \subseteq top \cup left
    <3>1. Neighbours(m, mode) =
            CASE mode = "intraV" /\ HaveTop(m) -> top
              [] mode = "intraH" /\ HaveLeft(m) -> left
              [] OTHER -> top \cup left
      BY DEF Neighbours
    <3> HIDE DEF top, left
    <3>2. CASE mode = "intraV" /\ HaveTop(m)
      BY <3>1, <3>2
    <3>3. CASE mode = "intraH" /\ HaveLeft(m)
      BY <3>1, <3>3
    <3>4. CASE ~(mode = "intraV" /\ HaveTop(m)) /\ ~(mode = "intraH" /\ HaveLeft(m))
      BY <3>1, <3>4
    <3> QED BY <3>2, <3>3, <3>4
  <2>2. CASE n \in top
    BY <2>2 DEF HaveTop, y
  <2>3. CASE n \in left
    BY <2>3 DEF HaveLeft, x
  <2> QED BY <2>1, <2>2, <2>3
<1> QED BY <1>4, <1>5, <1>6

-----------------------------------------------------------------------------
(* The reconstruction of a macroblock.                                      *)

(* A mix depends on the macroblocks that are mixed alone.                   *)
LEMMA MixSame ==
  ASSUME NEW f, NEW g, NEW plane, NEW m, NEW S, \A n \in S : f[n] = g[n]
  PROVE  MixOf(f, plane, m, S) = MixOf(g, plane, m, S)
<1>1. [n \in S |-> f[n][plane].v] = [n \in S |-> g[n][plane].v]
  OBVIOUS
<1>2. UNION {f[n][plane].eyes : n \in S} = UNION {g[n][plane].eyes : n \in S}
  OBVIOUS
<1> QED BY <1>1, <1>2 DEF MixOf

(* The eyes of a plane are those of its macroblock.                         *)
OwnEye(p, m) == p.eyes \subseteq {EyeOf(m)}

Picture(f) ==
  /\ f = [m \in Macroblocks |-> f[m]]
  /\ \A m \in Macroblocks : OwnEye(f[m].y, m) /\ OwnEye(f[m].uv, m)

LEMMA MixEyesY ==
  ASSUME NEW f, NEW m, NEW S, \A n \in S : f[n].y.eyes \subseteq {EyeOf(m)}
  PROVE  OwnEye(MixOf(f, "y", m, S), m)
<1>1. \A n \in S : f[n]["y"].eyes \subseteq {EyeOf(m)}
  OBVIOUS
<1>2. UNION {f[n]["y"].eyes : n \in S} \subseteq {EyeOf(m)}
  BY <1>1
<1>3. MixOf(f, "y", m, S).eyes = {EyeOf(m)} \cup UNION {f[n]["y"].eyes : n \in S}
  BY DEF MixOf
<1> QED BY <1>2, <1>3 DEF OwnEye

LEMMA MixEyesUv ==
  ASSUME NEW f, NEW m, NEW S, \A n \in S : f[n].uv.eyes \subseteq {EyeOf(m)}
  PROVE  OwnEye(MixOf(f, "uv", m, S), m)
<1>1. \A n \in S : f[n]["uv"].eyes \subseteq {EyeOf(m)}
  OBVIOUS
<1>2. UNION {f[n]["uv"].eyes : n \in S} \subseteq {EyeOf(m)}
  BY <1>1
<1>3. MixOf(f, "uv", m, S).eyes = {EyeOf(m)} \cup UNION {f[n]["uv"].eyes : n \in S}
  BY DEF MixOf
<1> QED BY <1>2, <1>3 DEF OwnEye

LEMMA PlusEyes ==
  ASSUME NEW f, NEW m, NEW S, NEW plane, NEW d, OwnEye(MixOf(f, plane, m, S), m)
  PROVE  OwnEye(Plus(MixOf(f, plane, m, S), plane, d), m)
BY DEF OwnEye, Plus, MixOf

LEMMA SourceEyes ==
  ASSUME NEW m, NEW v
  PROVE  OwnEye(Source(m, v), m)
BY DEF OwnEye, Source

(* The items whose vector is used.                                          *)
Copied == {"copy", "res", "rawY", "rawUv", "resRawUv"}

LEMMA ItemFacts ==
  ASSUME NEW m \in Macroblocks, NEW it \in Items(m)
  PROVE  \/ it.mode \in Copied /\ it.mv \in Mvs /\ MvInBounds(m, it.mv)
         \/ it.mode \in {"raw", "intraDc", "intraV", "intraH"}
BY DEF Items, ItemsOf, Copied

(* No mode takes pixels of the other eye, whatever the item.                *)
LEMMA ReconstructedEyes ==
  ASSUME NEW ref, NEW recon, NEW m \in Macroblocks, NEW it \in Items(m),
         Picture(ref), Picture(recon)
  PROVE  /\ OwnEye(Reconstructed(ref, recon, m, it).y, m)
         /\ OwnEye(Reconstructed(ref, recon, m, it).uv, m)
<1> DEFINE R == Reconstructed(ref, recon, m, it)
           ly == MixOf(ref, "y", m, LumaRead(m, it.mv))
           cuv == MixOf(ref, "uv", m, ChromaRead(m, it.mv))
<1>1. CASE it.mode \in Copied /\ it.mv \in Mvs /\ MvInBounds(m, it.mv)
  <2>1. OwnEye(ly, m)
    <3>1. \A n \in LumaRead(m, it.mv) : ref[n].y.eyes \subseteq {EyeOf(m)}
      BY <1>1, LumaInEye DEF Picture, OwnEye
    <3> QED BY <3>1, MixEyesY
  <2>2. OwnEye(cuv, m)
    <3>1. \A n \in ChromaRead(m, it.mv) : ref[n].uv.eyes \subseteq {EyeOf(m)}
      BY <1>1, ChromaInEye DEF Picture, OwnEye
    <3> QED BY <3>1, MixEyesUv
  <2>3. OwnEye(Plus(ly, "y", it.y), m) /\ OwnEye(Plus(cuv, "uv", it.uv), m)
    BY <2>1, <2>2, PlusEyes
  <2>4. OwnEye(Source(m, it.y), m) /\ OwnEye(Source(m, it.uv), m)
    BY SourceEyes
  <2> HIDE DEF ly, cuv
  <2>5. CopyFromRef(ref, m, it.mv) = [y |-> ly, uv |-> cuv]
    BY DEF CopyFromRef, ly, cuv
  <2>6. /\ R.y \in {ly, Plus(ly, "y", it.y), Source(m, it.y)}
        /\ R.uv \in {cuv, Plus(cuv, "uv", it.uv), Source(m, it.uv)}
    BY <1>1, <2>5 DEF Reconstructed, Copied
  <2> HIDE DEF R
  <2>7. OwnEye(R.y, m) /\ OwnEye(R.uv, m)
    BY <2>1, <2>2, <2>3, <2>4, <2>6
  <2> QED BY <2>7 DEF R
<1>2. CASE it.mode = "raw"
  BY <1>2, SourceEyes DEF Reconstructed
<1>3. CASE it.mode \in {"intraDc", "intraV", "intraH"}
  <2> DEFINE S == Neighbours(m, it.mode)
  <2>1. \A n \in S : /\ recon[n].y.eyes \subseteq {EyeOf(m)}
                     /\ recon[n].uv.eyes \subseteq {EyeOf(m)}
    BY NeighboursInEye DEF Picture, OwnEye
  <2>2. OwnEye(MixOf(recon, "y", m, S), m) /\ OwnEye(MixOf(recon, "uv", m, S), m)
    BY <2>1, MixEyesY, MixEyesUv
  <2>3. R = [y |-> MixOf(recon, "y", m, S), uv |-> MixOf(recon, "uv", m, S)]
    BY <1>3 DEF Reconstructed, PredictIntra
  <2> QED BY <2>2, <2>3
<1> QED BY <1>1, <1>2, <1>3, ItemFacts

(* Encoder and decoder reconstruct the same macroblock from the same        *)
(* reference and the same macroblocks before it.                            *)
LEMMA ReconstructedSame ==
  ASSUME NEW ref, NEW f, NEW g, NEW m \in Macroblocks, NEW it \in Items(m),
         \A n \in Macroblocks : n < m => f[n] = g[n]
  PROVE  Reconstructed(ref, f, m, it) = Reconstructed(ref, g, m, it)
<1>1. \A n \in Neighbours(m, it.mode) : f[n] = g[n]
  BY NeighboursInEye
<1>2. PredictIntra(f, m, it.mode) = PredictIntra(g, m, it.mode)
  BY <1>1, MixSame DEF PredictIntra
<1> QED BY <1>2 DEF Reconstructed

-----------------------------------------------------------------------------
(* Encoder and decoder side by side.                                        *)

(* The inductive invariant: all four buffers are pictures, the decoder's    *)
(* newer one is the encoder's reference, and inside a P frame its older one *)
(* has become what the encoder reconstructed, up to the next macroblock.    *)
CodecInv ==
  /\ frame \in {"first", "idle", "p"}
  /\ Picture(eref) /\ Picture(erecon) /\ Picture(dref) /\ Picture(drecon)
  /\ frame # "first" => drecon = eref
  /\ frame = "p" =>
       /\ mb \in 0..(MbW * MbH)
       /\ \A n \in Macroblocks : n < mb => dref[n] = erecon[n]

LEMMA BlankPicture == Picture(Blank)
BY SourceEyes DEF Picture, Blank

LEMMA ReplacedPicture ==
  ASSUME NEW f, NEW m \in Macroblocks, NEW r, Picture(f),
         OwnEye(r.y, m), OwnEye(r.uv, m)
  PROVE  Picture([f EXCEPT ![m] = r])
BY DEF Picture

LEMMA SourcePicture ==
  ASSUME NEW src
  PROVE  Picture([m \in Macroblocks |-> [y |-> Source(m, src[m].y),
                                         uv |-> Source(m, src[m].uv)]])
BY SourceEyes DEF Picture

LEMMA KeyFrameInv == CodecInv /\ KeyFrame => CodecInv'
<1> SUFFICES ASSUME CodecInv, KeyFrame PROVE CodecInv'
  OBVIOUS
<1>1. PICK src \in KeySources :
        LET f == [m \in Macroblocks |-> [y |-> Source(m, src[m].y),
                                         uv |-> Source(m, src[m].uv)]]
        IN eref' = f /\ erecon' = f /\ drecon' = f /\ dref' = drecon
  BY DEF KeyFrame
<1>2. Picture(eref') /\ Picture(erecon') /\ Picture(drecon') /\ drecon' = eref'
  BY <1>1, SourcePicture
<1>3. Picture(dref') /\ frame' = "idle"
  BY <1>1 DEF CodecInv, KeyFrame
<1> QED BY <1>2, <1>3 DEF CodecInv, Picture

LEMMA CodeMbInv == CodecInv /\ CodeMb => CodecInv'
<1> SUFFICES ASSUME CodecInv, CodeMb PROVE CodecInv'
  OBVIOUS
<1>1. frame = "p" /\ mb \in Macroblocks /\ mb' = mb + 1 /\ drecon = eref
      /\ eref' = eref /\ drecon' = drecon /\ frame' = frame
  BY DEF CodecInv, CodeMb
<1>2. PICK it \in Items(mb) : EncodeMb(mb, it) /\ DecodeMb(mb, it)
  BY DEF CodeMb
<1> DEFINE e == Reconstructed(eref, erecon, mb, it)
           d == Reconstructed(drecon, dref, mb, it)
<1>3. erecon' = [erecon EXCEPT ![mb] = e] /\ dref' = [dref EXCEPT ![mb] = d]
  BY <1>2 DEF EncodeMb, DecodeMb
<1>4. OwnEye(e.y, mb) /\ OwnEye(e.uv, mb) /\ OwnEye(d.y, mb) /\ OwnEye(d.uv, mb)
  BY <1>1, ReconstructedEyes DEF CodecInv
<1>5. \A n \in Macroblocks : n < mb => dref[n] = erecon[n]
  BY <1>1 DEF CodecInv
<1>6. e = d
  BY <1>1, <1>5, ReconstructedSame
<1> HIDE DEF e, d
<1>7. Picture(erecon') /\ Picture(dref')
  BY <1>1, <1>3, <1>4, ReplacedPicture DEF CodecInv
<1>8. mb \in Int /\ mb' \in 0..(MbW * MbH)
  BY <1>1, CodecAssumption DEF Macroblocks
<1>9. \A n \in Macroblocks : n < mb' => dref'[n] = erecon'[n]
  <2> SUFFICES ASSUME NEW n \in Macroblocks, n < mb' PROVE dref'[n] = erecon'[n]
    OBVIOUS
  <2>1. n \in Int /\ (n < mb \/ n = mb)
    BY <1>1, <1>8 DEF Macroblocks
  <2>2. n \in DOMAIN dref /\ n \in DOMAIN erecon
    BY DEF CodecInv, Picture
  <2> QED BY <1>3, <1>5, <1>6, <2>1, <2>2
<1>10. Picture(eref)' /\ Picture(drecon)' /\ Picture(erecon)' /\ Picture(dref)'
  BY <1>1, <1>7 DEF CodecInv, Picture
<1> QED BY <1>1, <1>8, <1>9, <1>10 DEF CodecInv

LEMMA EndPFrameInv == CodecInv /\ EndPFrame => CodecInv'
<1> SUFFICES ASSUME CodecInv, EndPFrame PROVE CodecInv'
  OBVIOUS
<1>1. /\ frame = "p" /\ frame' = "idle" /\ eref' = erecon /\ erecon' = erecon
      /\ dref' = drecon /\ drecon' = dref
  BY DEF EndPFrame, Swapped
<1>2. mb \in 0..(MbW * MbH) /\ mb \notin Macroblocks
  BY <1>1 DEF CodecInv, EndPFrame
<1>3. \A n \in Macroblocks : n < mb
  BY <1>2, CodecAssumption DEF Macroblocks
<1>4. \A n \in Macroblocks : dref[n] = erecon[n]
  BY <1>1, <1>3 DEF CodecInv
<1>5. dref = erecon
  BY <1>4 DEF CodecInv, Picture
<1>6. Picture(eref') /\ Picture(erecon') /\ Picture(dref') /\ Picture(drecon')
  BY <1>1 DEF CodecInv
<1> QED BY <1>1, <1>5, <1>6 DEF CodecInv, Picture

LEMMA CodecStepInv == CodecInv /\ [CodecNext]_codecVars => CodecInv'
<1> SUFFICES ASSUME CodecInv, [CodecNext]_codecVars PROVE CodecInv'
  OBVIOUS
<1>1. CASE KeyFrame
  BY <1>1, KeyFrameInv
<1>2. CASE BeginPFrame
  <2>1. 0 \in 0..(MbW * MbH) /\ \A n \in Macroblocks : ~(n < 0)
    BY CodecAssumption DEF Macroblocks
  <2> QED BY <1>2, <2>1 DEF CodecInv, Picture, BeginPFrame
<1>3. CASE CodeMb
  BY <1>3, CodeMbInv
<1>4. CASE EndPFrame
  BY <1>4, EndPFrameInv
<1>5. CASE Reset
  BY <1>5, BlankPicture DEF CodecInv, Picture, Reset
<1>6. CASE UNCHANGED codecVars
  BY <1>6 DEF CodecInv, Picture, codecVars
<1> QED BY <1>1, <1>2, <1>3, <1>4, <1>5, <1>6 DEF CodecNext

(* Encoder and decoder stay together, macroblock by macroblock, for every   *)
(* size of the picture and of a macroblock and every set of vectors.        *)
THEOREM CodecInvariance == CodecSpec => []CodecInv
<1>1. CodecInit => CodecInv
  BY BlankPicture DEF CodecInit, CodecInv
<1> QED BY <1>1, CodecStepInv, PTL DEF CodecSpec

(* Between frames the decoder holds the encoder's reference: copying on one *)
(* side and swapping buffers on the other come to the same.                 *)
THEOREM DecoderFollows == CodecSpec => []InSync
<1>1. CodecInv => InSync
  BY DEF CodecInv, InSync
<1> QED BY <1>1, CodecInvariance, PTL

(* No pixel of one eye is ever shown to the other: what MvInBounds() lets   *)
(* pass in half pixels of luma is safe for the rounded vector of chroma.    *)
THEOREM EyesNeverMix == CodecSpec => []EyesApart
<1>1. CodecInv => EyesApart
  BY DEF CodecInv, Picture, OwnEye, EyesApart
<1> QED BY <1>1, CodecInvariance, PTL
-----------------------------------------------------------------------------
(* The routines for few coefficients.                                       *)

Shorts == {v \in Int : -32768 <= v /\ v <= 32767}

(* A product fits a short.                                                  *)
LEMMA FitsShort ==
  ASSUME NEW a \in -127..127, NEW s \in 1..255
  PROVE  a * s \in Shorts
<1>1. 127 * s - a * s >= 0
  <2>1. (127 - a) * s >= 0
    OBVIOUS
  <2>2. (127 - a) * s = 127 * s - a * s
    OBVIOUS
  <2> QED BY <2>1, <2>2
<1>2. a * s + 127 * s >= 0
  <2>1. (a + 127) * s >= 0
    OBVIOUS
  <2>2. (a + 127) * s = a * s + 127 * s
    OBVIOUS
  <2> QED BY <2>1, <2>2
<1>3. a * s \in Int /\ 127 * s <= 32385
  OBVIOUS
<1> QED BY <1>1, <1>2, <1>3 DEF Shorts

LEMMA StepRange ==
  ASSUME NEW b, NEW q \in 1..255, NEW rc \in Positions
  PROVE  QStep(b, q, rc) \in 1..255
BY DEF QStep

(* The dequantised coefficients are shorts, zero outside the mask.          *)
LEMMA DeqFacts ==
  ASSUME NEW b, IsBlock(b), b.type = "res", NEW q \in 1..255
  PROVE  /\ Deq(b, q) \in [Positions -> Shorts]
         /\ \A rc \in Positions :
              (\A z \in Mask(b) : Zigzag[z + 1] # rc) => Deq(b, q)[rc] = 0
<1>1. b.coeffs \in [Mask(b) -> -127..127]
  BY DEF IsBlock
<1>2. ASSUME NEW rc \in Positions, NEW z \in Mask(b)
      PROVE  b.coeffs[z] * QStep(b, q, rc) \in Shorts
  <2>1. PICK a \in -127..127 : a = b.coeffs[z]
    BY <1>1
  <2>2. PICK s \in 1..255 : s = QStep(b, q, rc)
    BY StepRange
  <2> QED BY <2>1, <2>2, FitsShort
<1>3. ASSUME NEW rc \in Positions, \E z \in Mask(b) : Zigzag[z + 1] = rc
      PROVE  (CHOOSE z \in Mask(b) : Zigzag[z + 1] = rc) \in Mask(b)
  BY <1>3
<1>4. ASSUME NEW rc \in Positions
      PROVE  Deq(b, q)[rc] \in Shorts
  <2>1. CASE \E z \in Mask(b) : Zigzag[z + 1] = rc
    <3> DEFINE y == CHOOSE z \in Mask(b) : Zigzag[z + 1] = rc
    <3>1. y \in Mask(b)
      BY <1>3, <2>1
    <3>2. Deq(b, q)[rc] = b.coeffs[y] * QStep(b, q, rc)
      BY <2>1 DEF Deq
    <3> HIDE DEF y
    <3> QED BY <1>2, <3>1, <3>2
  <2>2. CASE ~ \E z \in Mask(b) : Zigzag[z + 1] = rc
    <3>1. Deq(b, q)[rc] = 0
      BY <2>2 DEF Deq
    <3> QED BY <3>1 DEF Shorts
  <2> QED BY <2>1, <2>2
<1>5. Deq(b, q) = [rc \in Positions |-> Deq(b, q)[rc]]
  BY DEF Deq
<1>6. Deq(b, q) \in [Positions -> Shorts]
  BY <1>4, <1>5
<1> QED BY <1>6 DEF Deq

LEMMA ShortId ==
  ASSUME NEW v \in Shorts
  PROVE  Short(v) = v
<1>1. PICK w \in Int : w = v + 32768 /\ 0 <= w /\ w < 65536
  BY DEF Shorts
<1>2. w % 65536 = w
  BY <1>1
<1>3. w - 32768 = v
  BY <1>1 DEF Shorts
<1> QED BY <1>1, <1>2, <1>3 DEF Short

(* One value alone passes through.                                          *)
LEMMA PassAlone ==
  ASSUME NEW v \in Int
  PROVE  Pass(v, 0, 0, 0) = <<v, v, v, v>>
<1>1. SinMul(0) = 0 /\ CosMul(0) = 0
  BY DEF SinMul, CosMul
<1> QED BY <1>1 DEF Pass

(* A column after the first pass, and the second pass over a row.           *)
Down(in, c, r) == Short(Pass(in[c], in[4 + c], in[8 + c], in[12 + c])[r + 1])
Across(in, r) == Pass(Down(in, 0, r), Down(in, 1, r), Down(in, 2, r), Down(in, 3, r))

LEMMA PlaceOf ==
  ASSUME NEW p \in Positions
  PROVE  p \div 4 \in 0..3 /\ p % 4 \in 0..3
BY DEF Positions

LEMMA IdctIs ==
  ASSUME NEW in
  PROVE  Idct(in) = [p \in Positions |-> Rounded(Across(in, p \div 4)[(p % 4) + 1])]
<1> DEFINE v == [c \in 0..3 |-> [r \in 0..3 |->
                   Short(Pass(in[c], in[4 + c], in[8 + c], in[12 + c])[r + 1])]]
<1>1. \A r \in 0..3 : \A c \in {0, 1, 2, 3} : v[c][r] = Down(in, c, r)
  BY DEF Down
<1>2. \A r \in 0..3 : Pass(v[0][r], v[1][r], v[2][r], v[3][r]) = Across(in, r)
  BY <1>1 DEF Across
<1>3. Idct(in) = [p \in Positions |->
        Rounded(Pass(v[0][p \div 4], v[1][p \div 4], v[2][p \div 4], v[3][p \div 4])
                  [(p % 4) + 1])]
  BY DEF Idct
<1> HIDE DEF v
<1> QED BY <1>2, <1>3, PlaceOf

LEMMA AloneAt ==
  ASSUME NEW v \in Int, NEW i \in 0..3
  PROVE  Pass(v, 0, 0, 0)[i + 1] = v
<1>1. Pass(v, 0, 0, 0) = <<v, v, v, v>>
  BY PassAlone
<1>2. i = 0 \/ i = 1 \/ i = 2 \/ i = 3
  OBVIOUS
<1> QED BY <1>1, <1>2

LEMMA ZeroColumn ==
  ASSUME NEW in, NEW c \in 0..3, in[c] = 0, in[4 + c] = 0, in[8 + c] = 0, in[12 + c] = 0,
         NEW r \in 0..3
  PROVE  Down(in, c, r) = 0
<1>1. 0 \in Int /\ 0 \in Shorts
  BY DEF Shorts
<1>2. Pass(0, 0, 0, 0)[r + 1] = 0
  BY <1>1, AloneAt
<1>3. Short(0) = 0
  BY <1>1, ShortId
<1> QED BY <1>2, <1>3 DEF Down

LEMMA AloneColumn ==
  ASSUME NEW in, NEW c \in 0..3, in[c] \in Shorts, in[4 + c] = 0, in[8 + c] = 0, in[12 + c] = 0,
         NEW r \in 0..3
  PROVE  Down(in, c, r) = in[c]
<1>1. in[c] \in Int
  BY DEF Shorts
<1>2. Pass(in[c], 0, 0, 0)[r + 1] = in[c]
  BY <1>1, AloneAt
<1>3. Short(in[c]) = in[c]
  BY ShortId
<1> QED BY <1>2, <1>3 DEF Down

LEMMA ShortIsInt ==
  ASSUME NEW v \in Int
  PROVE  Short(v) \in Int
BY DEF Short

LEMMA PassInt ==
  ASSUME NEW a \in Int, NEW b \in Int, NEW c \in Int, NEW d \in Int
  PROVE  Pass(a, b, c, d) \in [1..4 -> Int]
<1>1. \A v \in Int : SinMul(v) \in Int /\ CosMul(v) \in Int
  BY DEF SinMul, CosMul
<1> QED BY <1>1 DEF Pass

LEMMA DcOnlyExact ==
  ASSUME NEW in \in [Positions -> Shorts], \A p \in Positions \ {0} : in[p] = 0
  PROVE  DcOnly(in) = Idct(in)
<1>1. in[0] \in Shorts /\ in[0] \in Int
  BY DEF Positions, Shorts
<1>2. ASSUME NEW r \in 0..3, NEW i \in 0..3 PROVE Across(in, r)[i + 1] = in[0]
  <2>1. Down(in, 0, r) = in[0]
    BY <1>1, AloneColumn DEF Positions
  <2>2. Down(in, 1, r) = 0 /\ Down(in, 2, r) = 0 /\ Down(in, 3, r) = 0
    BY ZeroColumn DEF Positions
  <2> QED BY <1>1, <2>1, <2>2, AloneAt DEF Across
<1> QED BY <1>2, IdctIs, PlaceOf DEF DcOnly

LEMMA Col0Exact ==
  ASSUME NEW in \in [Positions -> Shorts],
         \A p \in Positions : p \notin {0, 4, 8, 12} => in[p] = 0
  PROVE  Col0(in) = Idct(in)
<1>1. in[0] \in Int /\ in[4] \in Int /\ in[8] \in Int /\ in[12] \in Int
  BY DEF Positions, Shorts
<1>2. ASSUME NEW r \in 0..3, NEW i \in 0..3
      PROVE  Across(in, r)[i + 1] = Short(Pass(in[0], in[4], in[8], in[12])[r + 1])
  <2>1. Down(in, 0, r) = Short(Pass(in[0], in[4], in[8], in[12])[r + 1])
    BY DEF Down
  <2>2. Down(in, 1, r) = 0 /\ Down(in, 2, r) = 0 /\ Down(in, 3, r) = 0
    BY ZeroColumn DEF Positions
  <2>3. Down(in, 0, r) \in Int
    <3>1. Pass(in[0], in[4], in[8], in[12]) \in [1..4 -> Int]
      BY <1>1, PassInt
    <3>2. Pass(in[0], in[4], in[8], in[12])[r + 1] \in Int
      BY <3>1
    <3> QED BY <2>1, <3>2, ShortIsInt
  <2> QED BY <2>1, <2>2, <2>3, AloneAt DEF Across
<1> QED BY <1>2, IdctIs, PlaceOf DEF Col0

LEMMA Row0Exact ==
  ASSUME NEW in \in [Positions -> Shorts],
         \A p \in Positions : p \notin {0, 1, 2, 3} => in[p] = 0
  PROVE  Row0(in) = Idct(in)
<1>1. ASSUME NEW r \in 0..3, NEW c \in 0..3 PROVE Down(in, c, r) = in[c]
  <2>1. in[c] \in Shorts /\ in[4 + c] = 0 /\ in[8 + c] = 0 /\ in[12 + c] = 0
    BY DEF Positions
  <2> QED BY <2>1, AloneColumn
<1>2. ASSUME NEW r \in 0..3 PROVE Across(in, r) = Pass(in[0], in[1], in[2], in[3])
  BY <1>1 DEF Across
<1> QED BY <1>2, IdctIs, PlaceOf DEF Row0

LEMMA TopLeftExact ==
  ASSUME NEW in \in [Positions -> Shorts],
         \A p \in Positions : p \notin {0, 1, 4, 5} => in[p] = 0
  PROVE  TopLeft(in) = Idct(in)
<1>1. ASSUME NEW r \in 0..3
      PROVE  Across(in, r) = Pass(Short(Pass(in[0], in[4], 0, 0)[r + 1]),
                                  Short(Pass(in[1], in[5], 0, 0)[r + 1]), 0, 0)
  <2>1. Down(in, 2, r) = 0 /\ Down(in, 3, r) = 0
    BY ZeroColumn DEF Positions
  <2>2. in[8] = 0 /\ in[12] = 0 /\ in[9] = 0 /\ in[13] = 0
    BY DEF Positions
  <2>3. Down(in, 0, r) = Short(Pass(in[0], in[4], 0, 0)[r + 1])
    BY <2>2 DEF Down
  <2>4. Down(in, 1, r) = Short(Pass(in[1], in[5], 0, 0)[r + 1])
    BY <2>2 DEF Down
  <2> QED BY <2>1, <2>3, <2>4 DEF Across
<1> QED BY <1>1, IdctIs, PlaceOf DEF TopLeft

(* A block changes the frame by the residual its gain was computed from:    *)
(* each of the routines for few coefficients computes what the general one  *)
(* does, for every mask, coefficient and quantiser.                         *)
LEMMA AppliedExact ==
  ASSUME NEW b, IsBlock(b), b.type = "res", NEW q \in 1..255
  PROVE  Applied(b, q) = Idct(Deq(b, q))
<1>1. PICK in \in [Positions -> Shorts] : in = Deq(b, q)
  BY DeqFacts
<1>2. \A p \in Positions : (\A z \in Mask(b) : Zigzag[z + 1] # p) => in[p] = 0
  BY <1>1, DeqFacts
<1>3. CASE Mask(b) = {0}
  <2>1. \A p \in Positions \ {0} : in[p] = 0
    BY <1>2, <1>3 DEF Zigzag
  <2>2. Mask(b) \subseteq Col0Mask
    BY <1>3 DEF Col0Mask
  <2>3. Applied(b, q) = DcOnly(Deq(b, q))
    BY <1>3, <2>2 DEF Applied
  <2> QED BY <1>1, <2>1, <2>3, DcOnlyExact
<1>4. CASE Mask(b) # {0} /\ Mask(b) \subseteq Col0Mask
  <2>1. \A z \in Col0Mask : Zigzag[z + 1] \in {0, 4, 8, 12}
    BY DEF Col0Mask, Zigzag
  <2>2. \A p \in Positions : p \notin {0, 4, 8, 12} => in[p] = 0
    BY <1>2, <1>4, <2>1
  <2> QED BY <1>1, <1>4, <2>2, Col0Exact DEF Applied
<1>5. CASE ~(Mask(b) \subseteq Col0Mask) /\ Mask(b) \subseteq Row0Mask
  <2>1. \A z \in Row0Mask : Zigzag[z + 1] \in {0, 1, 2, 3}
    BY DEF Row0Mask, Zigzag
  <2>2. \A p \in Positions : p \notin {0, 1, 2, 3} => in[p] = 0
    BY <1>2, <1>5, <2>1
  <2>3. Mask(b) # {0}
    BY <1>5 DEF Col0Mask
  <2> QED BY <1>1, <1>5, <2>2, <2>3, Row0Exact DEF Applied
<1>6. CASE ~(Mask(b) \subseteq Col0Mask) /\ ~(Mask(b) \subseteq Row0Mask)
           /\ Mask(b) \subseteq TopLeftMask
  <2>1. \A z \in TopLeftMask : Zigzag[z + 1] \in {0, 1, 4, 5}
    BY DEF TopLeftMask, Zigzag
  <2>2. \A p \in Positions : p \notin {0, 1, 4, 5} => in[p] = 0
    BY <1>2, <1>6, <2>1
  <2>3. Mask(b) # {0}
    BY <1>6 DEF Col0Mask
  <2> QED BY <1>1, <1>6, <2>2, <2>3, TopLeftExact DEF Applied
<1>7. CASE ~(Mask(b) \subseteq Col0Mask) /\ ~(Mask(b) \subseteq Row0Mask)
           /\ ~(Mask(b) \subseteq TopLeftMask)
  <2>1. Mask(b) # {0}
    BY <1>7 DEF Col0Mask
  <2> QED BY <1>7, <2>1 DEF Applied
<1> QED BY <1>3, <1>4, <1>5, <1>6, <1>7

(* A block changes the picture by exactly the residual its gain was         *)
(* computed from: apply_res4_to_frame()'s routines for few coefficients     *)
(* agree with the general transform, for every mask, coefficient and        *)
(* quantiser.                                                               *)
THEOREM RepairsAlike == CodecSpec => []RepairsExact
<1>1. RepairsExact
  BY BlocksAssumption, AppliedExact DEF RepairsExact
<1> QED BY <1>1, PTL
-----------------------------------------------------------------------------
(* Blocks as they are written and read.                                     *)

(* The forms and what they ask of a block.                                  *)
LEMMA FormFacts ==
  ASSUME NEW b, IsBlock(b)
  PROVE  /\ Form(b) \in {"raw", "dc", "bytes", "table", "nibbles"}
         /\ Form(b) = "raw" => b = RawBlock(b.slot, b.raw) /\ b.raw \in [1..16 -> 0..255]
         /\ Form(b) # "raw" => /\ b = ResBlock(b.slot, b.coeffs)
                               /\ Mask(b) \in SUBSET Positions /\ Mask(b) # {}
                               /\ b.coeffs \in [Mask(b) -> -127..127]
         /\ Form(b) = "dc" => Mask(b) = {0}
         /\ Form(b) = "table" => Packed(b) /\ InTable(Mask(b))
         /\ Form(b) = "nibbles" => Packed(b)
         /\ b.slot \in 0..23
<1>1. CASE b.type = "res"
  BY <1>1 DEF IsBlock, Form, ResBlock
<1>2. CASE b.type # "res"
  <2>1. b = RawBlock(b.slot, b.raw) /\ b.raw \in [1..16 -> 0..255] /\ b.slot \in 0..23
    BY <1>2 DEF IsBlock
  <2>2. b.type = "raw"
    BY <2>1 DEF RawBlock
  <2>3. Form(b) = "raw"
    BY <2>2 DEF Form
  <2> QED BY <2>1, <2>3
<1> QED BY <1>1, <1>2

(* What a block is whose form is "raw", and what it is in any other form.   *)
LEMMA RawParts ==
  ASSUME NEW b, IsBlock(b), Form(b) = "raw"
  PROVE  /\ b = RawBlock(b.slot, b.raw)
         /\ b.raw \in [1..16 -> 0..255] /\ b.slot \in 0..23
<1>1. ASSUME b.type = "res" PROVE FALSE
  BY <1>1 DEF Form
<1> QED BY <1>1 DEF IsBlock

LEMMA ResParts ==
  ASSUME NEW b, IsBlock(b), Form(b) # "raw"
  PROVE  /\ b = ResBlock(b.slot, b.coeffs) /\ b.slot \in 0..23
         /\ Mask(b) \in SUBSET Positions /\ Mask(b) # {}
         /\ b.coeffs \in [Mask(b) -> -127..127]
<1>1. b.type = "res"
  <2>1. ASSUME b.type # "res" PROVE FALSE
    <3>1. b = RawBlock(b.slot, b.raw)
      BY <2>1 DEF IsBlock
    <3>2. b.type = "raw"
      BY <3>1 DEF RawBlock
    <3> QED BY <3>2 DEF Form
  <2> QED BY <2>1
<1> QED BY <1>1 DEF IsBlock

LEMMA RawForm ==
  ASSUME NEW b, Form(b) = "raw"
  PROVE  Cost(b) = 17 /\ Written(b) = <<RAW4 + b.slot>> \o b.raw
BY DEF Cost, Written

LEMMA DcForm ==
  ASSUME NEW b, Form(b) = "dc"
  PROVE  Cost(b) = 2 /\ Written(b) = <<DC4 + b.slot, Byte(CoeffsInOrder(b)[1])>>
BY DEF Cost, Written

LEMMA TableForm ==
  ASSUME NEW b, Form(b) = "table"
  PROVE  /\ Cost(b) = 2 + Cardinality(Mask(b)) \div 2
         /\ Written(b) = <<DC4 + NIBBLE + b.slot,
                           16 * TableIndex(Mask(b)) + Nibble(CoeffsInOrder(b)[1])>>
                           \o PackedBytes(Tail(CoeffsInOrder(b)))
BY DEF Cost, Written

LEMMA NibbleForm ==
  ASSUME NEW b, Form(b) = "nibbles"
  PROVE  /\ Cost(b) = 3 + HalfUp(Cardinality(Mask(b)))
         /\ Written(b) = <<NIBBLE + b.slot>> \o MaskBytes(Mask(b)) 
                           \o PackedBytes(CoeffsInOrder(b))
BY DEF Cost, Written

LEMMA ByteForm ==
  ASSUME NEW b, Form(b) = "bytes"
  PROVE  /\ Cost(b) = 3 + Cardinality(Mask(b))
         /\ Written(b) = <<b.slot>> \o MaskBytes(Mask(b))
                           \o [i \in DOMAIN CoeffsInOrder(b) |-> Byte(CoeffsInOrder(b)[i])]
BY DEF Cost, Written

(* The order of the coefficients.                                           *)
LEMMA RankFacts ==
  ASSUME NEW mask \in SUBSET Positions
  PROVE  /\ IsFiniteSet(mask) /\ Cardinality(mask) \in 0..16
         /\ \A z \in mask : Rank(mask, z) \in 1..Cardinality(mask)
         /\ \A y, z \in mask : Rank(mask, y) = Rank(mask, z) => y = z
         /\ \A i \in 1..Cardinality(mask) : \E z \in mask : Rank(mask, z) = i
<1>1. IsFiniteSet(mask) /\ Cardinality(mask) \in 0..16
  <2>1. IsFiniteSet(Positions) /\ Cardinality(Positions) = 16
    <3>1. \A m, n \in Int : m <= n => IsFiniteSet(m..n) /\ Cardinality(m..n) = n - m + 1
      BY FS_Interval
    <3>2. IsFiniteSet(0..15) /\ Cardinality(0..15) = 15 - 0 + 1
      <4>1. 0 \in Int /\ 15 \in Int /\ 0 <= 15
        OBVIOUS
      <4> HIDE DEF Positions
      <4> QED BY ONLY <3>1, <4>1, Zenon
    <3> QED BY <3>2 DEF Positions
  <2> QED BY <2>1, FS_Subset, FS_CardinalityType
<1>2. ASSUME NEW z \in mask
      PROVE  Rank(mask, z) \in 1..Cardinality(mask)
  <2> DEFINE S == {y \in mask : y <= z}
  <2>1. S \subseteq mask /\ z \in S
    BY DEF Positions
  <2>2. IsFiniteSet(S) /\ Cardinality(S) <= Cardinality(mask) /\ Cardinality(S) \in Nat
    BY <1>1, <2>1, FS_Subset, FS_CardinalityType
  <2>3. Cardinality(S) # 0
    BY <2>1, <2>2, FS_EmptySet
  <2> QED BY <2>2, <2>3, <1>1 DEF Rank
<1>3. ASSUME NEW y \in mask, NEW z \in mask, y < z
      PROVE  Rank(mask, y) # Rank(mask, z)
  <2> DEFINE S == {x \in mask : x <= y}
             T == {x \in mask : x <= z}
  <2>1. S \subseteq T /\ z \in T /\ z \notin S /\ T \subseteq mask
    <3>1. mask \subseteq Int
      BY DEF Positions
    <3>2. y \in Int /\ z \in Int /\ y < z
      BY <3>1, <1>3
    <3>3. z \in T /\ z \notin S
      BY <3>2
    <3>4. ASSUME NEW x \in S
          PROVE  x \in T
      <4>1. x \in mask /\ x \in Int /\ x <= y
        BY <3>1
      <4> QED BY <4>1, <3>2
    <3> QED BY <3>3, <3>4
  <2>2. IsFiniteSet(T)
    BY <2>1, <1>1, FS_Subset
  <2>3. Cardinality(S) # Cardinality(T)
    BY <2>1, <2>2, FS_Subset
  <2> QED BY <2>3 DEF Rank
<1>4. \A y, z \in mask : Rank(mask, y) = Rank(mask, z) => y = z
  BY <1>3 DEF Positions
<1>5. ASSUME NEW i \in 1..Cardinality(mask)
      PROVE  \E z \in mask : Rank(mask, z) = i
  <2> DEFINE f == [z \in mask |-> Rank(mask, z)]
             R == {f[z] : z \in mask}
  <2>1. R \subseteq 1..Cardinality(mask)
    BY <1>2
  <2>2. IsFiniteSet(1..Cardinality(mask)) /\ Cardinality(1..Cardinality(mask)) = Cardinality(mask)
    <3>1. \A m, n \in Int : m <= n => IsFiniteSet(m..n) /\ Cardinality(m..n) = n - m + 1
      BY FS_Interval
    <3>2. Cardinality(mask) \in Int /\ 1 <= Cardinality(mask)
      BY <1>1
    <3> QED BY <3>1, <3>2
  <2>3. f \in Bijection(mask, R)
    BY <1>4 DEF Bijection, Injection, Surjection, IsInjective
  <2>4. Cardinality(R) = Cardinality(mask)
    BY <2>3, <1>1, FS_Bijection DEF ExistsBijection
  <2>5. R = 1..Cardinality(mask)
    BY <2>1, <2>2, <2>4, FS_Subset
  <2> QED BY <2>5
<1> QED BY <1>1, <1>2, <1>4, <1>5

LEMMA InOrder ==
  ASSUME NEW b, Mask(b) \in SUBSET Positions, NEW V,
         \A z \in Mask(b) : b.coeffs[z] \in V
  PROVE  /\ CoeffsInOrder(b) \in [1..Cardinality(Mask(b)) -> V]
         /\ \A z \in Mask(b) : CoeffsInOrder(b)[Rank(Mask(b), z)] = b.coeffs[z]
<1> DEFINE mask == Mask(b)
<1> HIDE DEF mask
<1>0. mask \in SUBSET Positions /\ \A z \in mask : b.coeffs[z] \in V
  BY DEF mask
<1>1. CoeffsInOrder(b) = [i \in 1..Cardinality(mask) |->
                            b.coeffs[CHOOSE z \in mask : Rank(mask, z) = i]]
  BY DEF mask, CoeffsInOrder
<1>2. ASSUME NEW i \in 1..Cardinality(mask)
      PROVE  (CHOOSE z \in mask : Rank(mask, z) = i) \in mask
  BY <1>0, RankFacts
<1>3. ASSUME NEW z \in mask
      PROVE  (CHOOSE y \in mask : Rank(mask, y) = Rank(mask, z)) = z
  <2> DEFINE c == CHOOSE y \in mask : Rank(mask, y) = Rank(mask, z)
  <2>1. c \in mask /\ Rank(mask, c) = Rank(mask, z)
    OBVIOUS
  <2> QED BY <2>1, <1>0, RankFacts
<1>4. \A z \in mask : Rank(mask, z) \in 1..Cardinality(mask)
  BY <1>0, RankFacts
<1>5. CoeffsInOrder(b) \in [1..Cardinality(mask) -> V]
  BY <1>0, <1>1, <1>2
<1>6. \A z \in mask : CoeffsInOrder(b)[Rank(mask, z)] = b.coeffs[z]
  BY <1>1, <1>3, <1>4
<1> QED BY <1>5, <1>6 DEF mask

(* Coefficients as bytes and as nibbles.                                    *)
LEMMA ByteId ==
  ASSUME NEW q \in -127..127
  PROVE  Byte(q) \in 0..255 /\ FromByte(Byte(q)) = q
BY DEF Byte, FromByte

LEMMA NibbleId ==
  ASSUME NEW q \in -8..7
  PROVE  Nibble(q) \in 0..15 /\ FromNibble(Nibble(q)) = q
BY DEF Nibble, FromNibble

LEMMA TwoNibbles ==
  ASSUME NEW a \in 0..15, NEW c \in 0..15
  PROVE  a + 16 * c \in 0..255 /\ (a + 16 * c) % 16 = a /\ (a + 16 * c) \div 16 = c
OBVIOUS

(* What is packed is found at its place.                                    *)
LEMMA PackedFacts ==
  ASSUME NEW n \in Nat, NEW qs \in [1..n -> -8..7], Len(qs) = n
  PROVE  /\ HalfUp(n) \in Nat
         /\ PackedBytes(qs) \in [1..HalfUp(n) -> 0..255]
         /\ \A i \in 1..n :
              LET p == (i - 1) \div 2 + 1
              IN /\ p \in 1..HalfUp(n)
                 /\ (IF i % 2 = 1 THEN PackedBytes(qs)[p] % 16
                     ELSE PackedBytes(qs)[p] \div 16) = Nibble(qs[i])
<1>1. HalfUp(n) \in Nat /\ 2 * HalfUp(n) \in {n, n + 1}
  BY DEF HalfUp
<1>2. PackedBytes(qs) = [i \in 1..HalfUp(n) |-> 
     Nibble(qs[2 * i - 1])
       + (IF 2 * i <= n THEN 16 * Nibble(qs[2 * i]) ELSE 0)]
  BY DEF PackedBytes
<1>3. \A i \in 1..n : Nibble(qs[i]) \in 0..15
  BY NibbleId
<1>4. ASSUME NEW i \in 1..HalfUp(n)
      PROVE  /\ 2 * i - 1 \in 1..n
             /\ PackedBytes(qs)[i] \in 0..255
             /\ PackedBytes(qs)[i] % 16 = Nibble(qs[2 * i - 1])
             /\ 2 * i <= n => PackedBytes(qs)[i] \div 16 = Nibble(qs[2 * i])
  <2>1. 2 * i - 1 \in 1..n
    BY <1>1
  <2>2. Nibble(qs[2 * i - 1]) \in 0..15
    BY <2>1, <1>3
  <2>3. CASE 2 * i <= n
    <3>1. Nibble(qs[2 * i]) \in 0..15
      BY <1>3, <2>3
    <3>2. PackedBytes(qs)[i] = Nibble(qs[2 * i - 1]) + 16 * Nibble(qs[2 * i])
      BY <1>2, <2>3
    <3>3. PICK a \in 0..15, c \in 0..15 : a = Nibble(qs[2 * i - 1]) /\ c = Nibble(qs[2 * i])
      BY <2>2, <3>1
    <3>4. PackedBytes(qs)[i] = a + 16 * c
      BY <3>2, <3>3
    <3>5. a + 16 * c \in 0..255 /\ (a + 16 * c) % 16 = a /\ (a + 16 * c) \div 16 = c
      BY TwoNibbles
    <3> QED BY <2>1, <3>3, <3>4, <3>5
  <2>4. CASE ~(2 * i <= n)
    <3>1. PackedBytes(qs)[i] = Nibble(qs[2 * i - 1]) + 0
      BY <1>2, <2>4
    <3>2. PICK a \in 0..15 : a = Nibble(qs[2 * i - 1])
      BY <2>2
    <3>3. PackedBytes(qs)[i] = a + 0
      BY <3>1, <3>2
    <3>4. a + 0 = a /\ a \in 0..255 /\ a % 16 = a
      OBVIOUS
    <3> QED BY <2>1, <3>2, <3>3, <3>4, <2>4
  <2> QED BY <2>3, <2>4
<1>5. ASSUME NEW i \in 1..n
      PROVE  /\ (i - 1) \div 2 + 1 \in 1..HalfUp(n)
             /\ i % 2 = 1 => PackedBytes(qs)[(i - 1) \div 2 + 1] % 16 = Nibble(qs[i])
             /\ i % 2 # 1 => PackedBytes(qs)[(i - 1) \div 2 + 1] \div 16 = Nibble(qs[i])
  <2>1. PICK p \in Int : p = (i - 1) \div 2 + 1
    OBVIOUS
  <2>2. p \in 1..HalfUp(n) /\ i \in {2 * p - 1, 2 * p} /\ (i % 2 = 1 => i = 2 * p - 1)
          /\ (i % 2 # 1 => i = 2 * p)
    BY <2>1, <1>1
  <2>3. CASE i % 2 = 1
    <3>1. PackedBytes(qs)[p] % 16 = Nibble(qs[2 * p - 1]) /\ 2 * p - 1 = i
      BY <2>2, <2>3, <1>4
    <3> QED BY <2>1, <2>2, <2>3, <3>1
  <2>4. CASE i % 2 # 1
    <3>1. PackedBytes(qs)[p] \div 16 = Nibble(qs[2 * p]) /\ 2 * p = i
      BY <2>2, <2>4, <1>4
    <3> QED BY <2>1, <2>2, <2>4, <3>1
  <2> QED BY <2>3, <2>4
<1> QED BY <1>1, <1>2, <1>4, <1>5

(* A mask is found again in its two bytes.                                  *)
LEMMA BitsFacts ==
  ASSUME NEW S
  PROVE  /\ Bits(S) \in 0..255
         /\ \A z \in 0..7 : Has(Bits(S), 2 ^ z) <=> z \in S
<1> DEFINE d(z) == IF z \in S THEN 1 ELSE 0
<1>1. Bits(S) = d(0) + 2 * d(1) + 4 * d(2) + 8 * d(3)
                  + 16 * d(4) + 32 * d(5) + 64 * d(6) + 128 * d(7)
  BY DEF Bits
<1>2. \A z \in 0..7 : d(z) \in 0..1 /\ (d(z) = 1 <=> z \in S)
  OBVIOUS
<1> HIDE DEF d
<1>3. Bits(S) \in 0..255
  BY <1>1, <1>2
<1>4. 2 ^ 0 = 1 /\ 2 ^ 1 = 2 /\ 2 ^ 2 = 4 /\ 2 ^ 3 = 8 /\ 2 ^ 4 = 16 /\ 2 ^ 5 = 32
        /\ 2 ^ 6 = 64 /\ 2 ^ 7 = 128
  OBVIOUS
<1>5. Has(Bits(S), 1) <=> 0 \in S
  BY <1>1, <1>2 DEF Has
<1>6. Has(Bits(S), 2) <=> 1 \in S
  BY <1>1, <1>2 DEF Has
<1>7. Has(Bits(S), 4) <=> 2 \in S
  BY <1>1, <1>2 DEF Has
<1>8. Has(Bits(S), 8) <=> 3 \in S
  BY <1>1, <1>2 DEF Has
<1>9. Has(Bits(S), 16) <=> 4 \in S
  BY <1>1, <1>2 DEF Has
<1>10. Has(Bits(S), 32) <=> 5 \in S
  BY <1>1, <1>2 DEF Has
<1>11. Has(Bits(S), 64) <=> 6 \in S
  BY <1>1, <1>2 DEF Has
<1>12. Has(Bits(S), 128) <=> 7 \in S
  BY <1>1, <1>2 DEF Has
<1> QED BY <1>3, <1>4, <1>5, <1>6, <1>7, <1>8, <1>9, <1>10, <1>11, <1>12

LEMMA MaskFacts ==
  ASSUME NEW mask \in SUBSET Positions, NEW s, NEW k \in Nat,
         s[k] = MaskBytes(mask)[1], s[k + 1] = MaskBytes(mask)[2]
  PROVE  MaskAt(s, k) = mask
<1> DEFINE high == {z - 8 : z \in mask}
<1>1. s[k] = Bits(mask) /\ s[k + 1] = Bits(high)
  BY DEF MaskBytes
<1>2. ASSUME NEW z \in Positions, z >= 8
      PROVE  z - 8 \in high <=> z \in mask
  BY <1>2 DEF Positions
<1> HIDE DEF high
<1>3. ASSUME NEW z \in Positions
      PROVE  (IF z < 8 THEN Has(s[k], 2 ^ z) ELSE Has(s[k + 1], 2 ^ (z - 8))) <=> z \in mask
  <2>1. CASE z < 8
    <3>1. z \in 0..7
      BY <2>1 DEF Positions
    <3> QED BY <2>1, <3>1, <1>1, BitsFacts
  <2>2. CASE ~(z < 8)
    <3>1. z - 8 \in 0..7 /\ z >= 8
      BY <2>2 DEF Positions
    <3>2. Has(Bits(high), 2 ^ (z - 8)) <=> z - 8 \in high
      BY <3>1, BitsFacts
    <3> QED BY <2>2, <3>1, <3>2, <1>1, <1>2
  <2> QED BY <2>1, <2>2
<1> QED BY <1>3 DEF MaskAt

LEMMA AsSeq ==
  ASSUME NEW S, NEW n \in Nat, NEW f \in [1..n -> S]
  PROVE  f \in Seq(S) /\ Len(f) = n
<1>1. f \in Seq(S)
  BY SeqDef
<1>2. DOMAIN f = 1..Len(f) /\ Len(f) \in Nat
  BY <1>1, LenProperties
<1>3. DOMAIN f = 1..n
  OBVIOUS
<1>4. Len(f) = n
  BY <1>2, <1>3
<1> QED BY <1>1, <1>4

LEMMA Joined ==
  ASSUME NEW S, NEW s \in Seq(S), NEW t \in Seq(S)
  PROVE  /\ s \o t \in Seq(S) /\ Len(s \o t) = Len(s) + Len(t)
         /\ \A i \in 1..Len(s) : (s \o t)[i] = s[i]
         /\ \A i \in 1..Len(t) : (s \o t)[Len(s) + i] = t[i]
<1>1. Len(s) \in Nat /\ Len(t) \in Nat
  BY LenProperties
<1>2. /\ s \o t \in Seq(S) /\ Len(s \o t) = Len(s) + Len(t)
      /\ \A i \in 1..Len(s) + Len(t) :
           (s \o t)[i] = IF i <= Len(s) THEN s[i] ELSE t[i - Len(s)]
  BY ConcatProperties
<1>3. ASSUME NEW i \in 1..Len(s)
      PROVE  (s \o t)[i] = s[i]
  <2>1. i \in 1..Len(s) + Len(t) /\ i <= Len(s)
    BY <1>1
  <2> QED BY <1>2, <2>1
<1>4. ASSUME NEW i \in 1..Len(t)
      PROVE  (s \o t)[Len(s) + i] = t[i]
  <2>1. PICK j \in Int : j = Len(s) + i
    BY <1>1
  <2>2. j \in 1..Len(s) + Len(t) /\ ~(j <= Len(s)) /\ j - Len(s) = i
    BY <1>1, <2>1
  <2>3. (s \o t)[j] = t[j - Len(s)]
    BY <1>2, <2>2
  <2> QED BY <2>1, <2>2, <2>3
<1> QED BY <1>2, <1>3, <1>4

(* The header's checks.                                                     *)
LEMMA Opens ==
  ASSUME NEW s \in Seq(0..255), Len(s) >= 1, s[1] % SlotMask \in 0..23,
         Has(s[1], RAW4) => ~Has(s[1], DC4) /\ ~Has(s[1], NIBBLE),
         ~Has(s[1], RAW4) /\ ~Has(s[1], DC4) => MaskAt(s, 2) # {}
  PROVE  Readable(s)
<1>1. s # <<>>
  BY EmptySeq
<1>2. ~BadSlot(s[1])
  BY DEF BadSlot
<1>3. ~BadFlags(s[1]) /\ ~EmptyMask(s)
  BY DEF BadFlags, EmptyMask
<1> QED BY <1>1, <1>2, <1>3 DEF Readable

(* The bytes of the five forms.                                             *)
LEMMA Flags ==
  ASSUME NEW slot \in 0..23
  PROVE  /\ LET h == RAW4 + slot
            IN /\ h \in 0..255 /\ h % SlotMask = slot
               /\ Has(h, RAW4) /\ ~Has(h, DC4) /\ ~Has(h, NIBBLE)
         /\ LET h == DC4 + slot
            IN /\ h \in 0..255 /\ h % SlotMask = slot
               /\ ~Has(h, RAW4) /\ Has(h, DC4) /\ ~Has(h, NIBBLE)
         /\ LET h == DC4 + NIBBLE + slot
            IN /\ h \in 0..255 /\ h % SlotMask = slot
               /\ ~Has(h, RAW4) /\ Has(h, DC4) /\ Has(h, NIBBLE)
         /\ LET h == NIBBLE + slot
            IN /\ h \in 0..255 /\ h % SlotMask = slot
               /\ ~Has(h, RAW4) /\ ~Has(h, DC4) /\ Has(h, NIBBLE)
         /\ /\ slot \in 0..255 /\ slot % SlotMask = slot
            /\ ~Has(slot, RAW4) /\ ~Has(slot, DC4) /\ ~Has(slot, NIBBLE)
BY DEF RAW4, DC4, NIBBLE, SlotMask, Has

(* A sequence that goes on after w.                                         *)
Begins(s, w) == Len(s) >= Len(w) /\ \A i \in 1..Len(w) : s[i] = w[i]

LEMMA RawRead ==
  ASSUME NEW b, IsBlock(b), Form(b) = "raw"
  PROVE  /\ Written(b) \in Seq(0..255) /\ Len(Written(b)) = Cost(b)
         /\ \A s \in Seq(0..255) : Begins(s, Written(b)) =>
              Readable(s) /\ Read(s) = [block |-> b, bytes |-> Cost(b)]
<1>1. b = RawBlock(b.slot, b.raw) /\ b.raw \in [1..16 -> 0..255] /\ b.slot \in 0..23
  BY RawParts
<1>2. b.raw \in Seq(0..255) /\ Len(b.raw) = 16
  <2>1. PICK n \in Nat : n = 16
    OBVIOUS
  <2>2. b.raw \in [1..n -> 0..255]
    BY <1>1, <2>1
  <2>3. b.raw \in Seq(0..255) /\ Len(b.raw) = n
    BY <2>2, AsSeq
  <2> QED BY <2>1, <2>3
<1>3. PICK h \in 0..255 : h = RAW4 + b.slot
  BY <1>1, Flags
<1>4. h % SlotMask = b.slot /\ Has(h, RAW4) /\ ~Has(h, DC4) /\ ~Has(h, NIBBLE)
  BY <1>1, <1>3, Flags, ZenonT(30)
<1>5. Cost(b) = 17 /\ Written(b) = <<h>> \o b.raw
  BY <1>3, RawForm
<1>6. /\ Written(b) \in Seq(0..255) /\ Len(Written(b)) = 17
      /\ Written(b)[1] = h /\ \A i \in 1..16 : Written(b)[i + 1] = b.raw[i]
  <2>1. PICK r \in Seq(0..255) : r = b.raw /\ Len(r) = 16
    BY <1>2
  <2>2. <<h>> \in Seq(0..255) /\ Len(<<h>>) = 1 /\ <<h>>[1] = h
    OBVIOUS
  <2> DEFINE w == <<h>> \o r
  <2>3. /\ w \in Seq(0..255) /\ Len(w) = Len(<<h>>) + Len(r)
        /\ \A i \in 1..Len(<<h>>) : w[i] = <<h>>[i]
        /\ \A i \in 1..Len(r) : w[Len(<<h>>) + i] = r[i]
    BY <2>2, Joined
  <2> HIDE DEF w
  <2>4. Len(w) = 17 /\ w[1] = h /\ \A i \in 1..16 : w[i + 1] = r[i]
    BY <2>1, <2>2, <2>3
  <2> QED BY <2>1, <2>3, <2>4, <1>5 DEF w
<1>7. ASSUME NEW s \in Seq(0..255), Begins(s, Written(b))
      PROVE  Readable(s) /\ Read(s) = [block |-> b, bytes |-> Cost(b)]
  <2>1. s[1] = h /\ Len(s) >= 17 /\ \A i \in 1..16 : s[i + 1] = b.raw[i]
    BY <1>6, <1>7, SMTT(30) DEF Begins
  <2>2. SubSeq(s, 2, 17) = b.raw
    <3>1. SubSeq(s, 2, 17) = [i \in 1..16 |-> s[i + 1]]
      BY <2>1
    <3> QED BY <3>1, <2>1, <1>1
  <2>3. Readable(s)
    <3>1. Len(s) >= 1 /\ s[1] % SlotMask \in 0..23
      BY <2>1, <1>4, <1>1, LenProperties, SMTT(30)
    <3>2. /\ Has(s[1], RAW4) => ~Has(s[1], DC4) /\ ~Has(s[1], NIBBLE)
          /\ ~Has(s[1], RAW4) /\ ~Has(s[1], DC4) => MaskAt(s, 2) # {}
      BY <2>1, <1>4
    <3> QED BY <3>1, <3>2, Opens
  <2>4. Read(s) = [block |-> RawBlock(b.slot, SubSeq(s, 2, 17)), bytes |-> 17]
    BY <2>1, <1>4 DEF Read
  <2> QED BY <2>2, <2>3, <2>4, <1>1, <1>5
<1> QED BY <1>5, <1>6, <1>7

LEMMA DcRead ==
  ASSUME NEW b, IsBlock(b), Form(b) = "dc"
  PROVE  /\ Written(b) \in Seq(0..255) /\ Len(Written(b)) = Cost(b)
         /\ \A s \in Seq(0..255) : Begins(s, Written(b)) =>
              Readable(s) /\ Read(s) = [block |-> b, bytes |-> Cost(b)]
<1>a. Mask(b) = {0}
  BY FormFacts
<1>1. /\ b = ResBlock(b.slot, b.coeffs) /\ b.slot \in 0..23
      /\ Mask(b) \in SUBSET Positions /\ Mask(b) = {0}
      /\ b.coeffs \in [Mask(b) -> -127..127]
  BY <1>a, ResParts
<1>2. CoeffsInOrder(b)[1] = b.coeffs[0]
  <2>1. \A z \in Mask(b) : CoeffsInOrder(b)[Rank(Mask(b), z)] = b.coeffs[z]
    BY <1>1, InOrder
  <2>2. Rank(Mask(b), 0) = 1
    <3>1. Rank(Mask(b), 0) \in 1..Cardinality(Mask(b))
      BY <1>1, RankFacts
    <3>2. Cardinality(Mask(b)) = 1
      BY <1>1, FS_Singleton
    <3> QED BY <3>1, <3>2
  <2> QED BY <2>1, <2>2, <1>1
<1>3. PICK h \in 0..255 : h = DC4 + b.slot
  BY <1>1, Flags
<1>4. h % SlotMask = b.slot /\ ~Has(h, RAW4) /\ Has(h, DC4) /\ ~Has(h, NIBBLE)
  BY <1>1, <1>3, Flags
<1>5. PICK c \in -127..127 : c = b.coeffs[0]
  BY <1>1
<1>6. Byte(c) \in 0..255 /\ FromByte(Byte(c)) = c
  BY ByteId
<1>7. Cost(b) = 2 /\ Written(b) = <<h, Byte(c)>>
  BY <1>2, <1>3, <1>5, DcForm
<1>8. ASSUME NEW s \in Seq(0..255), Begins(s, Written(b))
      PROVE  Readable(s) /\ Read(s) = [block |-> b, bytes |-> Cost(b)]
  <2>1. s[1] = h /\ Len(s) >= 2 /\ s[2] = Byte(c)
    BY <1>7, <1>8 DEF Begins
  <2>2. [z \in {0} |-> FromByte(s[2])] = b.coeffs
    BY <2>1, <1>1, <1>5, <1>6
  <2>3. Readable(s)
    <3>1. Len(s) >= 1 /\ s[1] % SlotMask \in 0..23
      BY <2>1, <1>4, <1>1, LenProperties, SMTT(30)
    <3>2. /\ Has(s[1], RAW4) => ~Has(s[1], DC4) /\ ~Has(s[1], NIBBLE)
          /\ ~Has(s[1], RAW4) /\ ~Has(s[1], DC4) => MaskAt(s, 2) # {}
      BY <2>1, <1>4
    <3> QED BY <3>1, <3>2, Opens
  <2>4. Read(s) = [block |-> ResBlock(b.slot, [z \in {0} |-> FromByte(s[2])]), bytes |-> 2]
    BY <2>1, <1>4 DEF Read
  <2> QED BY <2>2, <2>3, <2>4, <1>1, <1>7
<1> QED BY <1>6, <1>7, <1>8

LEMMA NibblesFound ==
  ASSUME NEW n \in Nat, NEW qs \in [1..n -> -8..7], NEW s, NEW k \in Nat,
         \A p \in 1..HalfUp(n) : s[k + p] = PackedBytes(qs)[p],
         NEW i \in 1..n
  PROVE  FromNibble(NibbleAt(s, k + 1, i)) = qs[i]
<1>1. PICK p \in Int : p = (i - 1) \div 2 + 1
  OBVIOUS
<1>2. Len(qs) = n
  BY AsSeq
<1>3. /\ p \in 1..HalfUp(n)
      /\ (IF i % 2 = 1 THEN PackedBytes(qs)[p] % 16
                       ELSE PackedBytes(qs)[p] \div 16) = Nibble(qs[i])
  BY <1>1, <1>2, PackedFacts, ZenonT(30)
<1>4. k + 1 + (i - 1) \div 2 = k + p
  BY <1>1
<1>5. s[k + 1 + (i - 1) \div 2] = PackedBytes(qs)[p]
  BY <1>3, <1>4
<1>6. NibbleAt(s, k + 1, i) = Nibble(qs[i])
  BY <1>3, <1>5 DEF NibbleAt
<1>7. qs[i] \in -8..7
  OBVIOUS
<1> QED BY <1>6, <1>7, NibbleId

LEMMA TableRead ==
  ASSUME NEW b, IsBlock(b), Form(b) = "table"
  PROVE  /\ Written(b) \in Seq(0..255) /\ Len(Written(b)) = Cost(b)
         /\ \A s \in Seq(0..255) : Begins(s, Written(b)) =>
              Readable(s) /\ Read(s) = [block |-> b, bytes |-> Cost(b)]
<1>1. PICK mask \in SUBSET Positions : mask = Mask(b)
  BY ResParts
<1>2. /\ b = ResBlock(b.slot, b.coeffs) /\ b.slot \in 0..23
      /\ mask # {} /\ b.coeffs \in [mask -> -127..127]
      /\ Packed(b) /\ InTable(mask)
  <2>1. Packed(b) /\ InTable(Mask(b))
    BY FormFacts
  <2> QED BY <2>1, <1>1, ResParts
<1>3. \A z \in mask : b.coeffs[z] \in -8..7
  BY <1>1, <1>2 DEF Packed
<1>4. PICK n \in 1..16 : n = Cardinality(mask)
  <2>1. IsFiniteSet(mask) /\ Cardinality(mask) \in 0..16
    BY RankFacts
  <2>2. Cardinality(mask) # 0
    BY <1>2, <2>1, FS_EmptySet
  <2> QED BY <2>1, <2>2
<1>5. PICK qs : qs = CoeffsInOrder(b)
  OBVIOUS
<1>6. qs \in [1..n -> -8..7] /\ \A z \in mask : qs[Rank(mask, z)] = b.coeffs[z]
  BY <1>1, <1>3, <1>4, <1>5, InOrder
<1>7. \A z \in mask : Rank(mask, z) \in 1..n
  BY <1>4, RankFacts
<1>8. PICK tl : tl = Tail(qs)
  OBVIOUS
<1>9. tl \in [1..(n - 1) -> -8..7] /\ \A i \in 2..n : tl[i - 1] = qs[i]
  <2>1. qs \in Seq(-8..7) /\ Len(qs) = n
    <3>1. n \in Nat
      OBVIOUS
    <3> QED BY <3>1, <1>6, AsSeq
  <2>2. qs # <<>>
    BY <2>1, EmptySeq
  <2>3. /\ Tail(qs) \in Seq(-8..7) /\ Len(Tail(qs)) = Len(qs) - 1
        /\ \A i \in 1..Len(Tail(qs)) : Tail(qs)[i] = qs[i + 1]
    BY <2>1, <2>2, HeadTailProperties
  <2>4. tl \in [1..Len(tl) -> -8..7] /\ Len(tl) = n - 1
    BY <2>1, <2>3, <1>8, LenProperties
  <2>5. ASSUME NEW i \in 2..n
        PROVE  tl[i - 1] = qs[i]
    <3>1. i - 1 \in 1..Len(tl) /\ (i - 1) + 1 = i
      BY <2>4
    <3> QED BY <3>1, <2>3, <1>8
  <2> QED BY <2>4, <2>5
<1>10. PICK t \in 0..15 : t = TableIndex(mask) /\ MaskTable[t + 1] = mask
  <2>1. DOMAIN MaskTable = 1..16
    BY DEF MaskTable
  <2>2. PICK j \in 1..16 : j = CHOOSE i \in DOMAIN MaskTable : MaskTable[i] = mask
    BY <1>2, <2>1 DEF InTable
  <2>3. MaskTable[j] = mask
    BY <1>2, <2>1, <2>2 DEF InTable
  <2>4. TableIndex(mask) = j - 1
    BY <2>2 DEF TableIndex
  <2> QED BY <2>3, <2>4
<1>11. PICK q1 \in 0..15 : q1 = Nibble(qs[1]) /\ FromNibble(q1) = qs[1]
  <2>1. qs[1] \in -8..7
    BY <1>6
  <2> QED BY <2>1, NibbleId
<1>12. PICK h \in 0..255 : h = DC4 + NIBBLE + b.slot
  BY <1>2, Flags
<1>13. h % SlotMask = b.slot /\ ~Has(h, RAW4) /\ Has(h, DC4) /\ Has(h, NIBBLE)
  BY <1>2, <1>12, Flags, ZenonT(30)
<1>14. PICK c \in 0..255 : c = q1 + 16 * t /\ c % 16 = q1 /\ c \div 16 = t
  BY TwoNibbles
<1>15. PICK m \in Nat : m = n \div 2 /\ m = HalfUp(n - 1)
  BY DEF HalfUp
<1>16. PICK pb \in Seq(0..255) : pb = PackedBytes(tl) /\ Len(pb) = m
  <2>1. n - 1 \in Nat /\ Len(tl) = n - 1
    BY <1>9, AsSeq
  <2>2. PackedBytes(tl) \in [1..HalfUp(n - 1) -> 0..255]
    BY <2>1, <1>9, PackedFacts
  <2>3. PackedBytes(tl) \in [1..m -> 0..255]
    BY <2>2, <1>15
  <2>4. PackedBytes(tl) \in Seq(0..255) /\ Len(PackedBytes(tl)) = m
    BY <2>3, AsSeq
  <2> QED BY <2>4
<1>17. Cost(b) = 2 + m /\ Written(b) = <<h, c>> \o pb
  <2>1. 16 * t + q1 = c
    BY <1>14
  <2>2. /\ Cost(b) = 2 + n \div 2
        /\ Written(b) = <<h, 16 * t + q1>> \o pb
    BY <1>1, <1>4, <1>5, <1>8, <1>10, <1>11, <1>12, <1>16, TableForm
  <2> QED BY <2>1, <2>2, <1>15
<1>18. /\ Written(b) \in Seq(0..255) /\ Len(Written(b)) = 2 + m
       /\ Written(b)[1] = h /\ Written(b)[2] = c
       /\ \A p \in 1..m : Written(b)[2 + p] = pb[p]
  <2>1. <<h, c>> \in Seq(0..255) /\ Len(<<h, c>>) = 2 /\ <<h, c>>[1] = h /\ <<h, c>>[2] = c
    OBVIOUS
  <2> DEFINE w == <<h, c>> \o pb
  <2>2. /\ w \in Seq(0..255) /\ Len(w) = Len(<<h, c>>) + Len(pb)
        /\ \A i \in 1..Len(<<h, c>>) : w[i] = <<h, c>>[i]
        /\ \A i \in 1..Len(pb) : w[Len(<<h, c>>) + i] = pb[i]
    BY <2>1, Joined
  <2> HIDE DEF w
  <2>3. Len(w) = 2 + m /\ w[1] = h /\ w[2] = c /\ \A p \in 1..m : w[2 + p] = pb[p]
    BY <2>1, <2>2, <1>16
  <2> QED BY <2>2, <2>3, <1>17 DEF w
<1>19. ASSUME NEW s \in Seq(0..255), Begins(s, Written(b))
       PROVE  Readable(s) /\ Read(s) = [block |-> b, bytes |-> Cost(b)]
  <2>1. Len(s) >= 2 + m /\ s[1] = h /\ s[2] = c /\ \A p \in 1..m : s[2 + p] = pb[p]
    BY <1>18, <1>19 DEF Begins
  <2>2. Readable(s)
    <3>1. Len(s) >= 1 /\ s[1] % SlotMask \in 0..23
      <4>1. Len(s) \in Nat
        BY LenProperties
      <4>2. Len(s) >= 1
        BY <2>1, <4>1
      <4>3. s[1] % SlotMask = b.slot
        BY <2>1, <1>13
      <4> QED BY <4>2, <4>3, <1>2
    <3>2. /\ Has(s[1], RAW4) => ~Has(s[1], DC4) /\ ~Has(s[1], NIBBLE)
          /\ ~Has(s[1], RAW4) /\ ~Has(s[1], DC4) => MaskAt(s, 2) # {}
      BY <2>1, <1>13
    <3> QED BY <3>1, <3>2, Opens
  <2>3. PICK l \in Nat : l = n - 1
    OBVIOUS
  <2>4. tl \in [1..l -> -8..7] /\ \A p \in 1..HalfUp(l) : s[2 + p] = PackedBytes(tl)[p]
    BY <2>3, <2>1, <1>9, <1>15, <1>16
  <2>5. \A j \in 1..l : FromNibble(NibbleAt(s, 3, j)) = tl[j]
    <3>1. PICK k \in Nat : k = 2
      OBVIOUS
    <3>2. \A p \in 1..HalfUp(l) : s[k + p] = PackedBytes(tl)[p]
      BY <3>1, <2>4
    <3>3. \A j \in 1..l : FromNibble(NibbleAt(s, k + 1, j)) = tl[j]
      BY <3>2, <2>4, NibblesFound, ZenonT(30)
    <3>4. k + 1 = 3
      BY <3>1
    <3> QED BY <3>3, <3>4
  <2> DEFINE q(i) == FromNibble(IF i = 1 THEN s[2] % 16 ELSE NibbleAt(s, 3, i - 1))
  <2>6. ASSUME NEW i \in 1..n
        PROVE  q(i) = qs[i]
    <3>1. CASE i = 1
      BY <3>1, <2>1, <1>11, <1>14
    <3>2. CASE i # 1
      <4>1. i - 1 \in 1..l /\ i \in 2..n
        BY <3>2, <2>3
      <4>2. FromNibble(NibbleAt(s, 3, i - 1)) = tl[i - 1]
        BY <4>1, <2>5
      <4> QED BY <4>1, <4>2, <3>2, <1>9
    <3> QED BY <3>1, <3>2
  <2> HIDE DEF q
  <2>7. [z \in mask |-> q(Rank(mask, z))] = b.coeffs
    BY <2>6, <1>2, <1>6, <1>7
  <2>8. MaskTable[s[2] \div 16 + 1] = mask
    BY <2>1, <1>10, <1>14
  <2>9. Read(s) = [block |-> ResBlock(b.slot, [z \in mask |-> q(Rank(mask, z))]),
                   bytes |-> 2 + Cardinality(mask) \div 2]
    BY <2>1, <2>8, <1>13 DEF Read, Placed, q
  <2>10. 2 + Cardinality(mask) \div 2 = Cost(b)
    BY <1>4, <1>15, <1>17
  <2> QED BY <2>2, <2>7, <2>9, <2>10, <1>2
<1> QED BY <1>17, <1>18, <1>19

(* A header, a mask and what follows.                                       *)
Long(h, mask, rest) == <<h>> \o MaskBytes(mask) \o rest

LongParts(w, h, mask, rest) ==
  /\ w \in Seq(0..255) /\ Len(w) = 3 + Len(rest) /\ w[1] = h
  /\ w[2] = MaskBytes(mask)[1] /\ w[3] = MaskBytes(mask)[2]
  /\ \A p \in 1..Len(rest) : w[3 + p] = rest[p]

LEMMA LongForm ==
  ASSUME NEW h \in 0..255, NEW mask \in SUBSET Positions, NEW pb \in Seq(0..255)
  PROVE  LongParts(Long(h, mask, pb), h, mask, pb)
<1>0. PICK w : w = Long(h, mask, pb)
  OBVIOUS
<1>1. PICK k \in 0..255, l \in 0..255 : MaskBytes(mask) = <<k, l>>
  BY BitsFacts DEF MaskBytes
<1>2. PICK u \in Seq(0..255) : u = <<h>> /\ Len(u) = 1 /\ u[1] = h
  <2>1. <<h>> \in Seq(0..255) /\ Len(<<h>>) = 1 /\ <<h>>[1] = h
    OBVIOUS
  <2> QED BY <2>1
<1>3. PICK v \in Seq(0..255) : v = MaskBytes(mask) /\ Len(v) = 2 /\ v[1] = k /\ v[2] = l
  <2>1. <<k, l>> \in Seq(0..255) /\ Len(<<k, l>>) = 2 /\ <<k, l>>[1] = k /\ <<k, l>>[2] = l
    OBVIOUS
  <2> QED BY <2>1, <1>1
<1>4. PICK x : x = u \o v
  OBVIOUS
<1>5. /\ x \in Seq(0..255) /\ Len(x) = Len(u) + Len(v)
      /\ \A i \in 1..Len(u) : x[i] = u[i]
      /\ \A i \in 1..Len(v) : x[Len(u) + i] = v[i]
  BY <1>4, Joined
<1>6. Len(x) = 3 /\ x[1] = h /\ x[2] = k /\ x[3] = l
  <2>1. 1 \in 1..Len(u) /\ 1 \in 1..Len(v) /\ 2 \in 1..Len(v)
          /\ Len(u) + 1 = 2 /\ Len(u) + 2 = 3
    BY <1>2, <1>3
  <2>2. x[2] = v[1] /\ x[3] = v[2] /\ x[1] = u[1]
    BY <1>5, <2>1
  <2> QED BY <2>2, <1>2, <1>3, <1>5
<1>7. /\ w = x \o pb /\ w \in Seq(0..255) /\ Len(w) = Len(x) + Len(pb)
      /\ \A i \in 1..Len(x) : w[i] = x[i]
      /\ \A i \in 1..Len(pb) : w[Len(x) + i] = pb[i]
  <2>1. w = x \o pb
    BY <1>0, <1>2, <1>3, <1>4 DEF Long
  <2> DEFINE y == x \o pb
  <2>2. /\ y \in Seq(0..255) /\ Len(y) = Len(x) + Len(pb)
        /\ \A i \in 1..Len(x) : y[i] = x[i]
        /\ \A i \in 1..Len(pb) : y[Len(x) + i] = pb[i]
    <3>1. x \in Seq(0..255)
      BY <1>5
    <3> QED BY <3>1, Joined
  <2> HIDE DEF y
  <2>3. w = y
    BY <2>1 DEF y
  <2> QED BY <2>1, <2>2, <2>3
<1>8. w[1] = x[1] /\ w[2] = x[2] /\ w[3] = x[3]
  BY <1>6, <1>7
<1>9. LongParts(w, h, mask, pb)
  BY <1>1, <1>3, <1>6, <1>7, <1>8 DEF LongParts
<1> QED BY <1>0, <1>9

LEMMA NibblesRead ==
  ASSUME NEW b, IsBlock(b), Form(b) = "nibbles"
  PROVE  /\ Written(b) \in Seq(0..255) /\ Len(Written(b)) = Cost(b)
         /\ \A s \in Seq(0..255) : Begins(s, Written(b)) =>
              Readable(s) /\ Read(s) = [block |-> b, bytes |-> Cost(b)]
<1>1. PICK mask \in SUBSET Positions : mask = Mask(b)
  BY ResParts
<1>2. /\ b = ResBlock(b.slot, b.coeffs) /\ b.slot \in 0..23
      /\ mask # {} /\ b.coeffs \in [mask -> -127..127]
  BY <1>1, ResParts
<1>3. \A z \in mask : b.coeffs[z] \in -8..7
  <2>1. Packed(b)
    BY FormFacts
  <2> QED BY <2>1, <1>1 DEF Packed
<1>4. PICK n \in Nat : n = Cardinality(mask)
  BY RankFacts
<1>5. PICK qs : qs = CoeffsInOrder(b)
  OBVIOUS
<1>6. qs \in [1..n -> -8..7] /\ \A z \in mask : qs[Rank(mask, z)] = b.coeffs[z]
  BY <1>1, <1>3, <1>4, <1>5, InOrder
<1>7. \A z \in mask : Rank(mask, z) \in 1..n
  BY <1>4, RankFacts
<1>8. PICK h \in 0..255 : h = NIBBLE + b.slot
  BY <1>2, Flags
<1>9. h % SlotMask = b.slot /\ ~Has(h, RAW4) /\ ~Has(h, DC4) /\ Has(h, NIBBLE)
  BY <1>2, <1>8, Flags
<1>10. PICK m \in Nat : m = HalfUp(n)
  BY DEF HalfUp
<1>11. PICK pb \in Seq(0..255) : pb = PackedBytes(qs) /\ Len(pb) = m
  <2>1. Len(qs) = n
    BY <1>6, AsSeq
  <2>2. PackedBytes(qs) \in [1..HalfUp(n) -> 0..255]
    BY <2>1, <1>6, PackedFacts
  <2>3. PackedBytes(qs) \in [1..m -> 0..255]
    BY <2>2, <1>10
  <2>4. PackedBytes(qs) \in Seq(0..255) /\ Len(PackedBytes(qs)) = m
    BY <2>3, AsSeq
  <2> QED BY <2>4
<1>12. Cost(b) = 3 + m /\ Written(b) = <<h>> \o MaskBytes(mask) \o pb
  BY <1>1, <1>4, <1>5, <1>8, <1>10, <1>11, NibbleForm
<1>13. /\ Written(b) \in Seq(0..255) /\ Len(Written(b)) = 3 + m
       /\ Written(b)[1] = h
       /\ Written(b)[2] = MaskBytes(mask)[1] /\ Written(b)[3] = MaskBytes(mask)[2]
       /\ \A p \in 1..m : Written(b)[3 + p] = pb[p]
  <2>1. Written(b) = Long(h, mask, pb)
    BY <1>12 DEF Long
  <2>2. LongParts(Written(b), h, mask, pb)
    BY <2>1, LongForm
  <2> QED BY <2>2, <1>11 DEF LongParts
<1>14. ASSUME NEW s \in Seq(0..255), Begins(s, Written(b))
       PROVE  Readable(s) /\ Read(s) = [block |-> b, bytes |-> Cost(b)]
  <2>1. /\ Len(s) >= 3 + m /\ s[1] = h
        /\ s[2] = MaskBytes(mask)[1] /\ s[3] = MaskBytes(mask)[2]
        /\ \A p \in 1..m : s[3 + p] = pb[p]
    BY <1>13, <1>14 DEF Begins
  <2>2. MaskAt(s, 2) = mask
    <3>1. PICK k \in Nat : k = 2 /\ k + 1 = 3
      OBVIOUS
    <3>2. s[k] = MaskBytes(mask)[1] /\ s[k + 1] = MaskBytes(mask)[2]
      BY <2>1, <3>1
    <3>3. MaskAt(s, k) = mask
      BY <3>2, MaskFacts
    <3> QED BY <3>1, <3>3
  <2>3. Readable(s)
    <3>1. Len(s) >= 1 /\ s[1] % SlotMask \in 0..23
      <4>1. Len(s) \in Nat
        BY LenProperties
      <4>2. Len(s) >= 1
        BY <2>1, <4>1
      <4>3. s[1] % SlotMask = b.slot
        BY <2>1, <1>9
      <4> QED BY <4>2, <4>3, <1>2
    <3>2. /\ Has(s[1], RAW4) => ~Has(s[1], DC4) /\ ~Has(s[1], NIBBLE)
          /\ ~Has(s[1], RAW4) /\ ~Has(s[1], DC4) => MaskAt(s, 2) # {}
      BY <2>1, <2>2, <1>2, <1>9
    <3> QED BY <3>1, <3>2, Opens
  <2>4. \A i \in 1..n : FromNibble(NibbleAt(s, 4, i)) = qs[i]
    <3>1. PICK k \in Nat : k = 3 /\ k + 1 = 4
      OBVIOUS
    <3>2. \A p \in 1..HalfUp(n) : s[k + p] = PackedBytes(qs)[p]
      BY <3>1, <2>1, <1>10, <1>11
    <3>3. \A i \in 1..n : FromNibble(NibbleAt(s, k + 1, i)) = qs[i]
      BY <3>2, <1>6, NibblesFound, ZenonT(30)
    <3> QED BY <3>1, <3>3
  <2> DEFINE q(i) == FromNibble(NibbleAt(s, 4, i))
  <2>5. [z \in mask |-> q(Rank(mask, z))] = b.coeffs
    BY <2>4, <1>2, <1>6, <1>7
  <2>6. Read(s) = [block |-> ResBlock(b.slot, [z \in mask |-> q(Rank(mask, z))]),
                   bytes |-> 3 + HalfUp(Cardinality(mask))]
    BY <2>1, <2>2, <1>9 DEF Read, Placed, q
  <2>7. 3 + HalfUp(Cardinality(mask)) = Cost(b)
    BY <1>4, <1>10, <1>12
  <2> QED BY <2>3, <2>5, <2>6, <2>7, <1>2
<1> QED BY <1>12, <1>13, <1>14

LEMMA BytesRead ==
  ASSUME NEW b, IsBlock(b), Form(b) = "bytes"
  PROVE  /\ Written(b) \in Seq(0..255) /\ Len(Written(b)) = Cost(b)
         /\ \A s \in Seq(0..255) : Begins(s, Written(b)) =>
              Readable(s) /\ Read(s) = [block |-> b, bytes |-> Cost(b)]
<1>1. PICK mask \in SUBSET Positions : mask = Mask(b)
  BY ResParts
<1>2. /\ b = ResBlock(b.slot, b.coeffs) /\ b.slot \in 0..23
      /\ mask # {} /\ b.coeffs \in [mask -> -127..127]
  BY <1>1, ResParts
<1>3. \A z \in mask : b.coeffs[z] \in -127..127
  BY <1>2
<1>4. PICK n \in Nat : n = Cardinality(mask)
  BY RankFacts
<1>5. PICK qs : qs = CoeffsInOrder(b)
  OBVIOUS
<1>6. qs \in [1..n -> -127..127] /\ \A z \in mask : qs[Rank(mask, z)] = b.coeffs[z]
  BY <1>1, <1>3, <1>4, <1>5, InOrder
<1>7. \A z \in mask : Rank(mask, z) \in 1..n
  BY <1>4, RankFacts
<1>8. PICK h \in 0..255 : h = b.slot
  BY <1>2, Flags, ZenonT(30)
<1>9. h % SlotMask = b.slot /\ ~Has(h, RAW4) /\ ~Has(h, DC4) /\ ~Has(h, NIBBLE)
  BY <1>2, <1>8, Flags, ZenonT(30)
<1>10. PICK m \in Nat : m = n
  OBVIOUS
<1>11. PICK pb \in Seq(0..255) : pb = [i \in DOMAIN qs |-> Byte(qs[i])] /\ Len(pb) = m
  <2>1. [i \in DOMAIN qs |-> Byte(qs[i])] \in [1..n -> 0..255]
    <3>1. DOMAIN qs = 1..n /\ \A i \in 1..n : qs[i] \in -127..127
      BY <1>6
    <3>2. \A i \in 1..n : Byte(qs[i]) \in 0..255
      BY <3>1, ByteId
    <3> QED BY <3>1, <3>2
  <2> DEFINE f == [i \in DOMAIN qs |-> Byte(qs[i])]
  <2> HIDE DEF f
  <2>2. f \in [1..m -> 0..255]
    BY <2>1, <1>10 DEF f
  <2>3. f \in Seq(0..255) /\ Len(f) = m
    BY <2>2, AsSeq
  <2> QED BY <2>3 DEF f
<1>12. Cost(b) = 3 + m /\ Written(b) = <<h>> \o MaskBytes(mask) \o pb
  BY <1>1, <1>4, <1>5, <1>8, <1>10, <1>11, ByteForm
<1>13. /\ Written(b) \in Seq(0..255) /\ Len(Written(b)) = 3 + m
       /\ Written(b)[1] = h
       /\ Written(b)[2] = MaskBytes(mask)[1] /\ Written(b)[3] = MaskBytes(mask)[2]
       /\ \A p \in 1..m : Written(b)[3 + p] = pb[p]
  <2>1. Written(b) = Long(h, mask, pb)
    BY <1>12 DEF Long
  <2>2. LongParts(Written(b), h, mask, pb)
    BY <2>1, LongForm
  <2> QED BY <2>2, <1>11 DEF LongParts
<1>14. ASSUME NEW s \in Seq(0..255), Begins(s, Written(b))
       PROVE  Readable(s) /\ Read(s) = [block |-> b, bytes |-> Cost(b)]
  <2>1. /\ Len(s) >= 3 + m /\ s[1] = h
        /\ s[2] = MaskBytes(mask)[1] /\ s[3] = MaskBytes(mask)[2]
        /\ \A p \in 1..m : s[3 + p] = pb[p]
    BY <1>13, <1>14 DEF Begins
  <2>2. MaskAt(s, 2) = mask
    <3>1. PICK k \in Nat : k = 2 /\ k + 1 = 3
      OBVIOUS
    <3>2. s[k] = MaskBytes(mask)[1] /\ s[k + 1] = MaskBytes(mask)[2]
      BY <2>1, <3>1
    <3>3. MaskAt(s, k) = mask
      BY <3>2, MaskFacts
    <3> QED BY <3>1, <3>3
  <2>3. Readable(s)
    <3>1. Len(s) >= 1 /\ s[1] % SlotMask \in 0..23
      <4>1. Len(s) \in Nat
        BY LenProperties
      <4>2. Len(s) >= 1
        BY <2>1, <4>1
      <4>3. s[1] % SlotMask = b.slot
        BY <2>1, <1>9
      <4> QED BY <4>2, <4>3, <1>2
    <3>2. /\ Has(s[1], RAW4) => ~Has(s[1], DC4) /\ ~Has(s[1], NIBBLE)
          /\ ~Has(s[1], RAW4) /\ ~Has(s[1], DC4) => MaskAt(s, 2) # {}
      BY <2>1, <2>2, <1>2, <1>9
    <3> QED BY <3>1, <3>2, Opens
  <2>4. ASSUME NEW i \in 1..n
        PROVE  FromByte(s[3 + i]) = qs[i]
    <3>1. s[3 + i] = pb[i]
      BY <2>1, <1>10
    <3>2. pb[i] = Byte(qs[i]) /\ qs[i] \in -127..127
      BY <1>6, <1>11
    <3> QED BY <3>1, <3>2, ByteId
  <2> DEFINE q(i) == FromByte(s[3 + i])
  <2>5. [z \in mask |-> q(Rank(mask, z))] = b.coeffs
    BY <2>4, <1>2, <1>6, <1>7
  <2>6. Read(s) = [block |-> ResBlock(b.slot, [z \in mask |-> q(Rank(mask, z))]),
                   bytes |-> 3 + Cardinality(mask)]
    BY <2>1, <2>2, <1>9 DEF Read, Placed, q
  <2>7. 3 + Cardinality(mask) = Cost(b)
    BY <1>4, <1>10, <1>12
  <2> QED BY <2>3, <2>5, <2>6, <2>7, <1>2
<1> QED BY <1>12, <1>13, <1>14

(* Whatever follows it, a block is found as it was written, and its end     *)
(* where the encoder counted on it.                                         *)
LEMMA BlockRead ==
  ASSUME NEW b, IsBlock(b)
  PROVE  /\ Written(b) \in Seq(0..255) /\ Len(Written(b)) = Cost(b)
         /\ \A s \in Seq(0..255) : Begins(s, Written(b)) =>
              Readable(s) /\ Read(s) = [block |-> b, bytes |-> Cost(b)]
<1>1. Form(b) \in {"raw", "dc", "bytes", "table", "nibbles"}
  BY FormFacts
<1>2. CASE Form(b) = "raw"
  BY <1>2, RawRead
<1>3. CASE Form(b) = "dc"
  BY <1>3, DcRead
<1>4. CASE Form(b) = "bytes"
  BY <1>4, BytesRead
<1>5. CASE Form(b) = "table"
  BY <1>5, TableRead
<1>6. CASE Form(b) = "nibbles"
  BY <1>6, NibblesRead
<1> QED BY <1>1, <1>2, <1>3, <1>4, <1>5, <1>6

LEMMA PairRead ==
  ASSUME NEW b, NEW c, IsBlock(b), IsBlock(c)
  PROVE  ReadBack(b, c)
<1>1. PICK u \in Seq(0..255), v \in Seq(0..255) : u = Written(b) /\ v = Written(c)
  BY BlockRead
<1>2. Len(u) = Cost(b) /\ Len(v) = Cost(c)
  BY <1>1, BlockRead
<1>3. Len(u) \in Nat /\ Len(v) \in Nat
  BY LenProperties
<1>4. PICK s : s = u \o v
  OBVIOUS
<1>5. /\ s \in Seq(0..255) /\ Len(s) = Len(u) + Len(v)
      /\ \A i \in 1..Len(u) : s[i] = u[i]
      /\ \A i \in 1..Len(v) : s[Len(u) + i] = v[i]
  BY <1>4, Joined
<1>6. Begins(s, u)
  BY <1>3, <1>5 DEF Begins
<1>7. Readable(s) /\ Read(s) = [block |-> b, bytes |-> Cost(b)]
  BY <1>1, <1>5, <1>6, BlockRead
<1>8. SubSeq(s, Len(u) + 1, Len(s)) = v
  <2>1. PICK m \in Int, n \in Int : m = Len(u) + 1 /\ n = Len(s)
    BY <1>3, <1>5
  <2>2. \A i \in m..n : s[i] \in 0..255
    <3>1. \A i \in 1..Len(s) : s[i] \in 0..255
      BY <1>5, ElementOfSeq
    <3> QED BY <3>1, <2>1, <1>3, <1>5
  <2>3. /\ SubSeq(s, m, n) \in Seq(0..255)
        /\ Len(SubSeq(s, m, n)) = IF m <= n THEN n - m + 1 ELSE 0
        /\ \A i \in 1..(n - m + 1) : SubSeq(s, m, n)[i] = s[m + i - 1]
    BY <2>2, SubSeqProperties
  <2>4. Len(SubSeq(s, m, n)) = Len(v) /\ n - m + 1 = Len(v)
    BY <2>1, <2>3, <1>3, <1>5
  <2>5. ASSUME NEW i \in 1..Len(v)
        PROVE  SubSeq(s, m, n)[i] = v[i]
    <3>1. m + i - 1 = Len(u) + i
      BY <2>1, <1>3
    <3> QED BY <3>1, <2>3, <2>4, <1>5
  <2>6. SubSeq(s, m, n) = v
    BY <2>3, <2>4, <2>5, SeqEqual
  <2> QED BY <2>1, <2>6
<1>9. Begins(v, v)
  BY <1>3 DEF Begins
<1>10. Readable(v) /\ Read(v) = [block |-> c, bytes |-> Len(v)]
  BY <1>1, <1>2, <1>9, BlockRead
<1>11. s = Written(b) \o Written(c) /\ SubSeq(s, Cost(b) + 1, Len(s)) = v
  BY <1>1, <1>2, <1>4, <1>8
<1> HIDE DEF Readable, Read
<1> QED BY <1>7, <1>10, <1>11 DEF ReadBack

(* What write_repair4() writes, read_res4() reads: the same block, and its  *)
(* end where res4_encoded_cost() put it, for every pair of blocks.          *)
THEOREM RepairsReadBack == CodecSpec => []RoundTrip
<1>1. RoundTrip
  BY BlocksAssumption, PairRead DEF RoundTrip
<1> QED BY <1>1, PTL
=============================================================================
