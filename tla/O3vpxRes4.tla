---------------------------- MODULE O3vpxRes4 ----------------------------
(***************************************************************************)
(* The repaired 4x4 blocks of an O3VPX payload, vp8/o3vpx.c: a block is     *)
(* written in one of five forms, of which the encoder has to know the       *)
(* length beforehand (res4_encoded_cost) and the decoder has to find the    *)
(* end, and its coefficients are transformed by one of five routines.       *)
(*                                                                          *)
(* A coefficient mask is the set of the zigzag positions with a coefficient *)
(* (candidates have q # 0 there), a payload is a sequence of bytes.         *)
(***************************************************************************)
EXTENDS Integers, SequencesExt

Zigzag == <<0, 1, 4, 8, 5, 2, 3, 6, 9, 12, 13, 10, 7, 11, 14, 15>>
Positions == 0..15

(* res4_mask_table; its index is one less than the place in the sequence.   *)
MaskTable == <<{0, 2}, {0, 1}, {0, 1, 2}, {0, 2, 3}, {0, 3}, {0, 4}, {0, 5},
               {2}, {0, 1, 2, 4}, {0, 2, 3, 9}, {0, 1, 5}, {0, 1, 4},
               {0, 2, 4}, {1}, {0, 1, 2, 3}, {0, 1, 2, 5}>>

InTable(mask) == \E i \in DOMAIN MaskTable : MaskTable[i] = mask
TableIndex(mask) == (CHOOSE i \in DOMAIN MaskTable : MaskTable[i] = mask) - 1

ResBlock(slot, coeffs) == [type |-> "res", slot |-> slot, coeffs |-> coeffs]
RawBlock(slot, raw) == [type |-> "raw", slot |-> slot, raw |-> raw]

Mask(b) == DOMAIN b.coeffs
Rank(mask, z) == Cardinality({y \in mask : y <= z})
(* What the encoder's candidates are.                                       *)
IsBlock(b) ==
  /\ b.slot \in 0..23
  /\ IF b.type = "res"
       THEN /\ b = ResBlock(b.slot, b.coeffs)
            /\ Mask(b) \in (SUBSET Positions) \ {{}}
            /\ b.coeffs \in [Mask(b) -> -127..127]
       ELSE b = RawBlock(b.slot, b.raw) /\ b.raw \in [1..16 -> 0..255]

Packed(b) == \A z \in Mask(b) : b.coeffs[z] \in -8..7

HalfUp(n) == (n + 1) \div 2

(* The form a block is written in.                                          *)
Form(b) ==
  IF b.type = "raw" THEN "raw"
  ELSE IF Mask(b) = {0} THEN "dc"
  ELSE IF ~Packed(b) THEN "bytes"
  ELSE IF InTable(Mask(b)) THEN "table" ELSE "nibbles"

(* res4_encoded_cost, and that of a raw block.                              *)
(* Mutant: the first coefficient of a table block is counted again.         *)
CostWithFirst(b) ==
  LET nz == Cardinality(Mask(b))
  IN CASE Form(b) = "raw" -> 17
       [] Form(b) = "dc" -> 2
       [] Form(b) = "table" -> 2 + HalfUp(nz)
       [] Form(b) = "nibbles" -> 3 + HalfUp(nz)
       [] Form(b) = "bytes" -> 3 + nz

Cost(b) ==
  LET nz == Cardinality(Mask(b))
  IN CASE Form(b) = "raw" -> 17
       [] Form(b) = "dc" -> 2
       [] Form(b) = "table" -> 2 + nz \div 2
       [] Form(b) = "nibbles" -> 3 + HalfUp(nz)
       [] Form(b) = "bytes" -> 3 + nz
----------------------------------------------------------------------------
(* write_repair4.                                                           *)
RAW4 == 128
NIBBLE == 64
DC4 == 32
SlotMask == 32

Nibble(q) == q % 16
Byte(q) == q % 256

CoeffsInOrder(b) ==
  [i \in 1..Cardinality(Mask(b)) |->
     b.coeffs[CHOOSE z \in Mask(b) : Rank(Mask(b), z) = i]]

(* Two nibbles a byte, the low one first.                                   *)
PackedBytes(qs) ==
  [i \in 1..HalfUp(Len(qs)) |->
     Nibble(qs[2 * i - 1])
       + (IF 2 * i <= Len(qs) THEN 16 * Nibble(qs[2 * i]) ELSE 0)]

(* A mask of eight positions as a byte.                                     *)
Bits(S) ==
  LET bit(z) == IF z \in S THEN 1 ELSE 0
  IN bit(0) + 2 * bit(1) + 4 * bit(2) + 8 * bit(3)
       + 16 * bit(4) + 32 * bit(5) + 64 * bit(6) + 128 * bit(7)

MaskBytes(mask) == <<Bits(mask), Bits({z - 8 : z \in mask})>>

Written(b) ==
  LET qs == CoeffsInOrder(b)
  IN CASE Form(b) = "raw" -> <<RAW4 + b.slot>> \o b.raw
       [] Form(b) = "dc" -> <<DC4 + b.slot, Byte(qs[1])>>
       [] Form(b) = "table" ->
            <<DC4 + NIBBLE + b.slot, 16 * TableIndex(Mask(b)) + Nibble(qs[1])>>
              \o PackedBytes(Tail(qs))
       [] Form(b) = "nibbles" ->
            <<NIBBLE + b.slot>> \o MaskBytes(Mask(b)) \o PackedBytes(qs)
       [] Form(b) = "bytes" ->
            <<b.slot>> \o MaskBytes(Mask(b)) \o [i \in DOMAIN qs |-> Byte(qs[i])]
----------------------------------------------------------------------------
(* read_res4.                                                               *)
Has(byte, flag) == (byte \div flag) % 2 = 1

FromNibble(n) == IF n >= 8 THEN n - 16 ELSE n
FromByte(n) == IF n >= 128 THEN n - 256 ELSE n

(* The i-th nibble from byte s on, i = 1, 2, ...                            *)
NibbleAt(bytes, s, i) ==
  LET byte == bytes[s + (i - 1) \div 2]
  IN IF i % 2 = 1 THEN byte % 16 ELSE byte \div 16

MaskAt(bytes, s) ==
  {z \in Positions : IF z < 8 THEN Has(bytes[s], 2 ^ z) ELSE Has(bytes[s + 1], 2 ^ (z - 8))}

(* Coefficients for the positions of mask, the i-th from q(i).              *)
Placed(mask, q(_)) ==
  [z \in mask |-> q(Rank(mask, z))]

BadFlags(h) == Has(h, RAW4) /\ (Has(h, DC4) \/ Has(h, NIBBLE))
BadSlot(h) == h % SlotMask >= 24
EmptyMask(bytes) ==
  ~Has(bytes[1], RAW4) /\ ~Has(bytes[1], DC4) /\ MaskAt(bytes, 2) = {}

Read(bytes) ==
  LET h == bytes[1]
      slot == h % SlotMask
  IN CASE Has(h, RAW4) ->
            [block |-> RawBlock(slot, SubSeq(bytes, 2, 17)), bytes |-> 17]
       [] ~Has(h, RAW4) /\ Has(h, DC4) /\ Has(h, NIBBLE) ->
            LET mask == MaskTable[bytes[2] \div 16 + 1]
                q(i) == FromNibble(IF i = 1 THEN bytes[2] % 16
                                   ELSE NibbleAt(bytes, 3, i - 1))
            IN [block |-> ResBlock(slot, Placed(mask, q)),
                bytes |-> 2 + Cardinality(mask) \div 2]
       [] ~Has(h, RAW4) /\ Has(h, DC4) /\ ~Has(h, NIBBLE) ->
            [block |-> ResBlock(slot, [z \in {0} |-> FromByte(bytes[2])]), bytes |-> 2]
       [] OTHER ->
            LET mask == MaskAt(bytes, 2)
                nibble(i) == FromNibble(NibbleAt(bytes, 4, i))
                byte(i) == FromByte(bytes[3 + i])
            IN IF Has(h, NIBBLE)
               THEN [block |-> ResBlock(slot, Placed(mask, nibble)),
                     bytes |-> 3 + HalfUp(Cardinality(mask))]
               ELSE [block |-> ResBlock(slot, Placed(mask, byte)),
                     bytes |-> 3 + Cardinality(mask)]
----------------------------------------------------------------------------
(* apply_res4_to_frame: what is added to the 16 pixels of the block.        *)
Chroma(b) == b.slot >= 16

QStep(b, q, rc) ==
  LET plane == IF Chroma(b) THEN (IF q - 2 < 1 THEN 1 ELSE q - 2) ELSE q
      step == IF rc = 0 THEN (plane + 1) \div 2 ELSE plane
  IN IF step < 1 THEN 1 ELSE step

(* Dequantised coefficients, by raster position.                            *)
Deq(b, q) ==
  [rc \in Positions |->
     IF \E z \in Mask(b) : Zigzag[z + 1] = rc
     THEN b.coeffs[CHOOSE z \in Mask(b) : Zigzag[z + 1] = rc] * QStep(b, q, rc)
     ELSE 0]

Short(v) == ((v + 32768) % 65536) - 32768
SinMul(v) == (v * 35468) \div 65536
CosMul(v) == v + (v * 20091) \div 65536
Rounded(v) == (v + 4) \div 8

(* One pass of the transform over four values.                              *)
Pass(i0, i1, i2, i3) ==
  LET a == i0 + i2
      b == i0 - i2
      c == SinMul(i1) - CosMul(i3)
      d == CosMul(i1) + SinMul(i3)
  IN <<a + d, b + c, b - c, a - d>>

(* vp8_short_idct4x4llm_c: columns into shorts, then rows.                  *)
Idct(in) ==
  LET column(c) == Pass(in[c], in[4 + c], in[8 + c], in[12 + c])
      v == [c \in 0..3 |-> [r \in 0..3 |-> Short(column(c)[r + 1])]]
      row(r) == Pass(v[0][r], v[1][r], v[2][r], v[3][r])
  IN [p \in Positions |-> Rounded(row(p \div 4)[(p % 4) + 1])]

(* The routines for few coefficients, and the masks they are used for.      *)
DcOnly(in) == [p \in Positions |-> Rounded(in[0])]

Col0(in) ==
  LET out == Pass(in[0], in[4], in[8], in[12])
  IN [p \in Positions |-> Rounded(Short(out[p \div 4 + 1]))]

Row0(in) ==
  LET out == Pass(in[0], in[1], in[2], in[3])
  IN [p \in Positions |-> Rounded(out[(p % 4) + 1])]

TopLeft(in) ==
  LET c0 == Pass(in[0], in[4], 0, 0)
      c1 == Pass(in[1], in[5], 0, 0)
      row(r) == Pass(Short(c0[r + 1]), Short(c1[r + 1]), 0, 0)
  IN [p \in Positions |-> Rounded(row(p \div 4)[(p % 4) + 1])]

(* Mutant: positions taken for raster positions, not zigzag ones.           *)
Row0MaskRaster == {0, 1, 2, 3}

Row0Mask == {0, 1, 5, 6}
Col0Mask == {0, 2, 3, 9}
TopLeftMask == {0, 1, 2, 4}

Applied(b, q) ==
  CASE Mask(b) = {0} -> DcOnly(Deq(b, q))
    [] Mask(b) # {0} /\ Mask(b) \subseteq Col0Mask -> Col0(Deq(b, q))
    [] ~(Mask(b) \subseteq Col0Mask) /\ Mask(b) \subseteq Row0Mask -> Row0(Deq(b, q))
    [] ~(Mask(b) \subseteq Col0Mask) /\ ~(Mask(b) \subseteq Row0Mask)
         /\ Mask(b) \subseteq TopLeftMask -> TopLeft(Deq(b, q))
    [] OTHER -> Idct(Deq(b, q))
----------------------------------------------------------------------------
Readable(bytes) ==
  /\ bytes # <<>> /\ ~BadFlags(bytes[1]) /\ ~BadSlot(bytes[1])
  /\ ~EmptyMask(bytes)

(* Two blocks written one after the other are read back with the lengths    *)
(* the encoder counted on.                                                  *)
ReadBack(b, c) ==
  LET bytes == Written(b) \o Written(c)
      rest == SubSeq(bytes, Cost(b) + 1, Len(bytes))
  IN /\ Readable(bytes) /\ Read(bytes) = [block |-> b, bytes |-> Cost(b)]
     /\ Readable(rest) /\ Read(rest) = [block |-> c, bytes |-> Len(rest)]
=============================================================================
