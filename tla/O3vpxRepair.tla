--------------------------- MODULE O3vpxRepair ---------------------------
(***************************************************************************)
(* One P frame of vp8_o3vpx_encode_file(): three passes over sorted         *)
(* candidates choose how each macroblock is repaired, with an estimate of   *)
(* the payload that is compared with p_frame_budget, and the macroblocks    *)
(* are then written in order.                                               *)
(*                                                                          *)
(* Gains decide in which order the candidates come and which are passed     *)
(* over; here the order is any and a candidate may always be passed over,   *)
(* so that the tests on bytes are the only ones left.                       *)
(***************************************************************************)
EXTENDS Integers, FiniteSets, Functions

CONSTANTS Mbs,          \* MB_COUNT
          LumaSlots,    \* 4x4 blocks of the Y plane of a macroblock
          ChromaSlots,  \* those of U and V
          BlockCosts,   \* bytes a repaired 4x4 block may cost
          RawYBytes,    \* RAW_Y_MB_BYTES
          RawUvBytes    \* RAW_UV_MB_BYTES

ASSUME RepairAssumption ==
  /\ Mbs \in Nat \ {0} /\ RawYBytes \in Nat /\ RawUvBytes \in Nat
  /\ BlockCosts \subseteq Nat \ {0} /\ LumaSlots \cap ChromaSlots = {}
  /\ IsFiniteSet(LumaSlots) /\ IsFiniteSet(ChromaSlots)

VARIABLES pass,      \* "idle", or inside a P frame: "res", "dc", "uv", "write"
          budget,    \* p_frame_budget
          estimate,  \* estimated_payload
          rawMode,   \* analysis[].raw_mode
          blocks,    \* res_state[].blocks: cost by slot, 0 where there is none
          cost,      \* res_state[].cost
          next,      \* the macroblock to write
          payload    \* bytes written

repairVars == <<pass, budget, estimate, rawMode, blocks, cost, next, payload>>
chosen == <<rawMode, blocks, cost, estimate>>

MbIndices == 0..(Mbs - 1)
Slots == LumaSlots \cup ChromaSlots
NoBlocks == [s \in Slots |-> 0]

CopyBytes == 3
RawMbExtra == 1 + RawYBytes + RawUvBytes - CopyBytes
RawYExtra == 1 + 2 + RawYBytes - CopyBytes
RawUvExtra == 1 + 2 + RawUvBytes - CopyBytes
DcExtra == 3

RepairInit ==
  /\ pass = "idle" /\ budget = 0 /\ estimate = 0
  /\ rawMode = [m \in MbIndices |-> "none"]
  /\ blocks = [m \in MbIndices |-> NoBlocks]
  /\ cost = [m \in MbIndices |-> 0]
  /\ next = 0 /\ payload = 0

(* A P frame with b bytes to spend: every macroblock is a copy at first.    *)
BeginFrame(b) ==
  /\ pass = "idle"
  /\ pass' = "res" /\ budget' = b
  /\ estimate' = Mbs * CopyBytes
  /\ next' = 0 /\ payload' = 0
  /\ UNCHANGED <<rawMode, blocks, cost>>

HasBlocks(m) == blocks[m] # NoBlocks

Fits(bytes) == bytes <= budget

(* The macroblock takes a mode of its own instead of its blocks.            *)
Replace(m, mode, extra) ==
  /\ rawMode[m] = "none"
  /\ Fits(estimate - cost[m] + extra)
  /\ rawMode' = [rawMode EXCEPT ![m] = mode]
  /\ estimate' = estimate - cost[m] + extra
  /\ blocks' = [blocks EXCEPT ![m] = NoBlocks]
  /\ cost' = [cost EXCEPT ![m] = 0]

(* First pass, a 4x4 block: the first one also costs the count.             *)
ExtraCost(m, bytes) == (IF HasBlocks(m) THEN 0 ELSE 1) + bytes

AddBlock(m, slot, bytes) ==
  /\ pass = "res" /\ rawMode[m] = "none"
  /\ blocks[m][slot] = 0
  /\ Fits(estimate + ExtraCost(m, bytes))
  /\ blocks' = [blocks EXCEPT ![m][slot] = bytes]
  /\ cost' = [cost EXCEPT ![m] = @ + ExtraCost(m, bytes)]
  /\ estimate' = estimate + ExtraCost(m, bytes)
  /\ UNCHANGED <<pass, budget, rawMode, next, payload>>

(* First pass, the whole macroblock or its luma: only instead of blocks     *)
(* that cost as much, and luma alone never without blocks.                  *)
TakeRawMb(m) ==
  /\ pass = "res"
  /\ HasBlocks(m) => RawMbExtra <= cost[m]
  /\ Replace(m, "raw", RawMbExtra)
  /\ UNCHANGED <<pass, budget, next, payload>>

TakeRawY(m) ==
  /\ pass = "res"
  /\ HasBlocks(m) /\ RawYExtra <= cost[m]
  /\ Replace(m, "rawY", RawYExtra)
  /\ UNCHANGED <<pass, budget, next, payload>>

(* Second pass, an offset for each plane.                                   *)
TakeDc(m) ==
  /\ pass = "dc"
  /\ HasBlocks(m) => DcExtra <= cost[m]
  /\ Replace(m, "dc", DcExtra)
  /\ UNCHANGED <<pass, budget, next, payload>>

HasLuma(m) == \E s \in LumaSlots : blocks[m][s] # 0

(* Third pass, raw chroma: alone, or with the luma blocks kept.             *)
TakeRawUv(m) ==
  /\ pass = "uv" /\ ~HasLuma(m)
  /\ Replace(m, "rawUv", RawUvExtra)
  /\ UNCHANGED <<pass, budget, next, payload>>

LumaBlocks(m) == [s \in Slots |-> IF s \in LumaSlots THEN blocks[m][s] ELSE 0]

LumaCost(m) == SumFunction(LumaBlocks(m))

(* Mutant: the byte of the count is forgotten.                              *)
ComboCostNoCount(m) == RawUvBytes + LumaCost(m)

ComboCost(m) == 1 + RawUvBytes + LumaCost(m)

TakeRawUvKeepLuma(m) ==
  /\ pass = "uv" /\ rawMode[m] = "none" /\ HasLuma(m)
  /\ Fits(estimate - cost[m] + ComboCost(m))
  /\ rawMode' = [rawMode EXCEPT ![m] = "resRawUv"]
  /\ blocks' = [blocks EXCEPT ![m] = LumaBlocks(m)]
  /\ cost' = [cost EXCEPT ![m] = ComboCost(m)]
  /\ estimate' = estimate - cost[m] + ComboCost(m)
  /\ UNCHANGED <<pass, budget, next, payload>>

EndPass ==
  /\ pass \in {"res", "dc", "uv"}
  /\ pass' = CASE pass = "res" -> "dc" [] pass = "dc" -> "uv" [] OTHER -> "write"
  /\ UNCHANGED <<budget, chosen, next, payload>>

(* Bytes of a macroblock in the payload; one without repair is predicted    *)
(* from its neighbours in 1 byte when that is better than the copy.         *)
BlockBytes(m) == SumFunction(blocks[m])

MbBytes(m) ==
  CASE rawMode[m] = "raw"      -> {1 + RawYBytes + RawUvBytes}
    [] rawMode[m] = "rawY"     -> {3 + RawYBytes}
    [] rawMode[m] = "rawUv"    -> {3 + RawUvBytes}
    [] rawMode[m] = "resRawUv" -> {4 + RawUvBytes + BlockBytes(m)}
    [] rawMode[m] = "dc"       -> {6}
    [] rawMode[m] = "none" /\ HasBlocks(m) -> {4 + BlockBytes(m)}
    [] OTHER                   -> {1, CopyBytes}

ChromaAmongLuma(m) ==
  rawMode[m] = "resRawUv" /\ \E s \in ChromaSlots : blocks[m][s] # 0

WriteMb ==
  /\ pass = "write" /\ next < Mbs /\ ~ChromaAmongLuma(next)
  /\ \E b \in MbBytes(next) : payload' = payload + b
  /\ next' = next + 1
  /\ UNCHANGED <<pass, budget, chosen>>

(* The lists of the frame are freed.                                        *)
EndFrame ==
  /\ pass = "write" /\ next = Mbs
  /\ pass' = "idle" /\ budget' = 0 /\ estimate' = 0
  /\ rawMode' = [m \in MbIndices |-> "none"]
  /\ blocks' = [m \in MbIndices |-> NoBlocks]
  /\ cost' = [m \in MbIndices |-> 0]
  /\ next' = 0 /\ payload' = 0

RepairStep ==
  \/ \E m \in MbIndices :
       \/ \E s \in Slots, b \in BlockCosts : AddBlock(m, s, b)
       \/ TakeRawMb(m) \/ TakeRawY(m) \/ TakeDc(m)
       \/ TakeRawUv(m) \/ TakeRawUvKeepLuma(m)
  \/ EndPass \/ WriteMb
=============================================================================
