--------------------------- MODULE O3vpxEncoder ---------------------------
(***************************************************************************)
(* vp8_o3vpx_encode_file() as a whole: the plan and the accounts of         *)
(* O3vpxBudget, with each P frame encoded by the passes of O3vpxRepair      *)
(* instead of taking some bytes or other.  It implements O3vpxBudget, whose *)
(* variables it shares.                                                     *)
(***************************************************************************)
EXTENDS O3vpxBudget, O3vpxRepair

ASSUME EncoderAssumption == MinPayload = Mbs * CopyBytes

EncoderInit == Init /\ RepairInit

InP == pc = "encode" /\ fno < frames /\ ~key[fno]

(* The budget of the frame, or none.                                        *)
BeginP ==
  /\ InP /\ pass = "idle"
  /\ IF pLeft <= 0 \/ Exhausted(fno)
     THEN pc' = "died" /\ UNCHANGED repairVars
     ELSE /\ \E burst \in Bursts : BeginFrame(FrameBudget(fno, burst))
          /\ UNCHANGED pc
  /\ UNCHANGED <<fno, planVars, keyVars, dealVars, spendVars>>

(* A step of the frame; die("rawuv residual not luma").                     *)
RepairP ==
  /\ IF pass = "write" /\ next < Mbs /\ ChromaAmongLuma(next)
     THEN pc' = "died" /\ UNCHANGED repairVars
     ELSE RepairStep /\ UNCHANGED pc
  /\ UNCHANGED <<fno, planVars, keyVars, dealVars, spendVars>>

(* The payload is written and charged.                                      *)
EndP ==
  /\ InP /\ EndFrame
  /\ IF payload > remaining
     THEN /\ pc' = "died"
          /\ UNCHANGED <<fno, spendVars>>
     ELSE /\ bytes' = bytes + FrameHeader + payload
          /\ remaining' = remaining - payload
          /\ pLeft' = pLeft - 1
          /\ fno' = fno + 1
          /\ UNCHANGED pc
  /\ UNCHANGED <<planVars, keyVars, dealVars>>

PlanAndKeys ==
  /\ \/ PlanKey \/ PlanBudget
     \/ DealKey \/ DealP \/ DealDone
     \/ EncodeKey \/ EncodeDone
  /\ UNCHANGED repairVars

EncoderNext == PlanAndKeys \/ BeginP \/ RepairP \/ EndP

EncoderSpec == EncoderInit /\ [][EncoderNext]_<<vars, repairVars>>
----------------------------------------------------------------------------
(* The repairs keep to the budget they were given: whichever replaced       *)
(* which, the frame takes no more bytes than O3vpxBudget allows it, and the *)
(* encoder does what O3vpxBudget says.                                      *)
BudgetSpec == Spec
=============================================================================
