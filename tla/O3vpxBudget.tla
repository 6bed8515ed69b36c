--------------------------- MODULE O3vpxBudget ---------------------------
(***************************************************************************)
(* The bytes of an O3VPX stream: vp8_o3vpx_encode_file() of vp8/o3vpx.c     *)
(* first decides which frames are raw keys (build_key_plan), then deals the *)
(* bytes the target bitrate leaves out to the P frames, and encodes frame   *)
(* by frame with a budget computed from what is left.                       *)
(*                                                                          *)
(* Floating point weights are any weights: the share of a frame is any      *)
(* number of bytes up to the whole.  What a P frame takes is any number up  *)
(* to its budget, which is what O3vpxRepair shows of the encoding of one    *)
(* frame.  key_count and allocated are kept with their history: kcount[i]   *)
(* and alloc[i] are their values when the loop reaches frame i, so that     *)
(* sum_future_plan() is a difference of two of them.                        *)
(***************************************************************************)
EXTENDS Integers

CONSTANTS MaxFrames,    \* bound: frames of the input
          Keyints,      \* the values of keyint
          Targets,      \* bytes the target bitrate allows for the stream
          Lookahead,    \* KEY_SCENE_LOOKAHEAD
          FileHeader,   \* bytes of the stream header
          FrameHeader,  \* bytes of a frame header
          KeyPayload,   \* FRAME_SIZE
          MinPayload,   \* MB_COUNT * COPY16_BYTES
          MaxBurst      \* the largest p_burst_mult

ASSUME BudgetAssumption ==
  /\ MaxFrames \in Nat \ {0} /\ Keyints \subseteq Nat \ {0}
  /\ Targets \subseteq Nat /\ Lookahead \in Nat
  /\ FileHeader \in Nat /\ FrameHeader \in Nat
  /\ KeyPayload \in Nat /\ MinPayload \in Nat \ {0}
  /\ MaxBurst \in Nat \ {0}

VARIABLES pc,         \* the loop of vp8_o3vpx_encode_file(), or why it died
          frames,     \* number of frames
          keyint,     \* largest distance of key frames asked for
          target,     \* target_bytes
          scene,      \* mse_by_frame[i] >= scene_mse_threshold > 0
          fno,        \* frame_no of the running loop
          lastKey,    \* last_key of build_key_plan
          key,        \* key_flags
          kcount,     \* key_count, by frame
          pTotal,     \* total_p_payload_budget
          pBudget,    \* p_budget
          plan,       \* planned_p_budget
          alloc,      \* allocated, by frame
          remaining,  \* remaining_p_payload_budget
          pLeft,      \* remaining_p_frames
          bytes       \* total_bytes

planVars == <<frames, keyint, target, scene>>
keyVars == <<lastKey, key, kcount>>
dealVars == <<pTotal, pBudget, plan, alloc>>
spendVars == <<remaining, pLeft, bytes>>
vars == <<pc, fno, planVars, keyVars, dealVars, spendVars>>

Indices == 0..MaxFrames

Init ==
  /\ pc = "keys" /\ fno = 0 /\ lastKey = 0
  /\ frames \in 1..MaxFrames /\ keyint \in Keyints /\ target \in Targets
  /\ scene \in {s \in [Indices -> BOOLEAN] : ~s[0] /\ \A i \in Indices : i >= frames => ~s[i]}
  /\ key = [i \in Indices |-> FALSE]
  /\ kcount = [i \in Indices |-> 0] /\ alloc = [i \in Indices |-> 0]
  /\ plan = [i \in Indices |-> 0]
  /\ pTotal = 0 /\ pBudget = 0
  /\ remaining = 0 /\ pLeft = 0 /\ bytes = FileHeader

(* build_key_plan: a frame is a key when it starts a scene, or when keyint  *)
(* frames have passed and no scene starts within the next few frames.       *)
SceneKey(i) == i > 0 /\ scene[i]

SceneSoon(i) == \E l \in 1..Lookahead : i + l < frames /\ scene[i + l]

MaxIntervalKey(i) == i > 0 /\ i - lastKey >= keyint /\ ~SceneSoon(i)

IsKey(i) == i = 0 \/ SceneKey(i) \/ MaxIntervalKey(i)

PlanKey ==
  /\ pc = "keys" /\ fno < frames
  /\ key' = [key EXCEPT ![fno] = IsKey(fno)]
  /\ lastKey' = IF IsKey(fno) THEN fno ELSE lastKey
  /\ kcount' = [kcount EXCEPT ![fno + 1] =
                  kcount[fno] + (IF IsKey(fno) THEN 1 ELSE 0)]
  /\ fno' = fno + 1
  /\ UNCHANGED <<pc, planVars, dealVars, spendVars>>

KeyCount == kcount[frames]
PCount == frames - KeyCount

(* Mutant: the frame headers of the P frames are forgotten.                 *)
PayloadBudgetNoHeaders ==
  IF PCount > 0
  THEN target - FileHeader - KeyCount * (KeyPayload + FrameHeader)
  ELSE 0

(* What the target leaves for the payloads of the P frames.                 *)
PayloadBudget ==
  IF PCount > 0
  THEN target - FileHeader - KeyCount * (KeyPayload + FrameHeader)
       - PCount * FrameHeader
  ELSE 0

Share == IF PCount > 0 THEN PayloadBudget \div PCount ELSE 0

MayPlan == PayloadBudget >= 0 /\ (PCount > 0 => Share >= MinPayload)

PlanBudget ==
  /\ pc = "keys" /\ fno = frames
  /\ IF MayPlan
     THEN /\ pc' = IF PCount > 0 THEN "deal" ELSE "encode"
          /\ fno' = 0
          /\ pTotal' = PayloadBudget /\ pBudget' = Share
          /\ remaining' = PayloadBudget /\ pLeft' = PCount
          /\ UNCHANGED <<plan, alloc, bytes>>
     ELSE /\ pc' = "refused"
          /\ UNCHANGED <<fno, dealVars, spendVars>>
  /\ UNCHANGED <<planVars, keyVars>>

AtLeastMin(n) == IF n < MinPayload THEN MinPayload ELSE n

IsLastP(i) == ~key[i] /\ \A j \in Indices : i < j /\ j < frames => key[j]

(* The last P frame gets what the others leave.                             *)
PlanOf(i, scaled) ==
  IF IsLastP(i)
  THEN AtLeastMin(IF alloc[i] < pTotal THEN pTotal - alloc[i] ELSE MinPayload)
  ELSE AtLeastMin(scaled)

DealKey ==
  /\ pc = "deal" /\ fno < frames /\ key[fno]
  /\ alloc' = [alloc EXCEPT ![fno + 1] = alloc[fno]]
  /\ fno' = fno + 1
  /\ UNCHANGED <<pc, planVars, keyVars, pTotal, pBudget, plan, spendVars>>

DealP ==
  /\ pc = "deal" /\ fno < frames /\ ~key[fno]
  /\ \E scaled \in 0..pTotal :
       /\ plan' = [plan EXCEPT ![fno] = PlanOf(fno, scaled)]
       /\ alloc' = [alloc EXCEPT ![fno + 1] = alloc[fno] + PlanOf(fno, scaled)]
  /\ fno' = fno + 1
  /\ UNCHANGED <<pc, planVars, keyVars, pTotal, pBudget, spendVars>>

DealDone ==
  /\ pc = "deal" /\ fno = frames
  /\ pc' = "encode" /\ fno' = 0
  /\ UNCHANGED <<planVars, keyVars, dealVars, spendVars>>

EncodeKey ==
  /\ pc = "encode" /\ fno < frames /\ key[fno]
  /\ bytes' = bytes + FrameHeader + KeyPayload
  /\ fno' = fno + 1
  /\ UNCHANGED <<pc, planVars, keyVars, dealVars, remaining, pLeft>>

(* sum_future_plan(), and the minimum for the frames to come when the plan  *)
(* cannot be kept.                                                          *)
Future(i) == alloc[frames] - alloc[i + 1]

MinFuture == (pLeft - 1) * MinPayload

(* Mutant: only the plan counts, kept or not.                               *)
ReservedAsPlanned(i) == Future(i)

Reserved(i) ==
  IF remaining < Future(i) + MinPayload THEN MinFuture ELSE Future(i)

Exhausted(i) == remaining < Reserved(i) + MinPayload

(* p_frame_budget for one value of the burst cap.                           *)
FrameBudget(i, burst) ==
  LET left == remaining - Reserved(i)
      cap == AtLeastMin(burst)
  IN AtLeastMin(IF left > cap THEN cap ELSE left)

Bursts == pBudget..(MaxBurst * pBudget)

(* The three tests at which the encoder gives up on its own accounts.       *)
EncodeP ==
  /\ pc = "encode" /\ fno < frames /\ ~key[fno]
  /\ \E burst \in Bursts : \E payload \in 0..FrameBudget(fno, burst) :
       IF pLeft <= 0 \/ Exhausted(fno) \/ payload > remaining
       THEN /\ pc' = "died"
            /\ UNCHANGED <<fno, spendVars>>
       ELSE /\ bytes' = bytes + FrameHeader + payload
            /\ remaining' = remaining - payload
            /\ pLeft' = pLeft - 1
            /\ fno' = fno + 1
            /\ UNCHANGED pc
  /\ UNCHANGED <<planVars, keyVars, dealVars>>

EncodeDone ==
  /\ pc = "encode" /\ fno = frames
  /\ pc' = "done"
  /\ UNCHANGED <<fno, planVars, keyVars, dealVars, spendVars>>

Next ==
  \/ PlanKey \/ PlanBudget
  \/ DealKey \/ DealP \/ DealDone
  \/ EncodeKey \/ EncodeP \/ EncodeDone

Spec == Init /\ [][Next]_vars
----------------------------------------------------------------------------
(* The encoder never gives up in the middle of a stream because of its own  *)
(* accounts: once the plan is accepted, no sequence of budgets and payloads *)
(* leaves a later frame without the bytes of its motion vectors             *)
(* ("P-frame budget accounting underflow", "P-frame budget exhausted",      *)
(* "P-frame payload exceeded remaining budget" are never reached).          *)
AccountsHold == pc # "died"

(* A finished stream that has P frames is no larger than the target.        *)
StreamWithinTarget == pc = "done" /\ PCount > 0 => bytes <= target

(* As the guide says of target_mbps, for every stream.                      *)
EveryStreamWithinTarget == pc = "done" => bytes <= target

(* As the guide says of keyint: never more than keyint frames from one raw  *)
(* key to the next.                                                         *)
KeyGap ==
  pc \notin {"keys"} =>
    \A i \in 0..(frames - 1) : \E j \in 0..(frames - 1) :
      key[j] /\ j <= i /\ i - j < keyint

=============================================================================
