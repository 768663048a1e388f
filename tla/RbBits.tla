------------------------------- MODULE RbBits -------------------------------
(***************************************************************************)
(* The bit vectors of frontend/okvs/rb/rows.h: RBBits is an array of u64   *)
(* limbs, and the band of a row is its first `width` bits.  Elimination    *)
(* (RbOkvs) adds a shifted band to another one; here the shift is done     *)
(* limb by limb, with carries and a partial last limb, and is compared     *)
(* with the shift of a set of positions that RbOkvs uses.                  *)
(*                                                                         *)
(* A limb is the set of its one bits, so or, and-not and xor of words are  *)
(* set operations and a shift of a word drops what leaves it.              *)
(***************************************************************************)
EXTENDS Integers

CONSTANTS
    Limbs,     \* bits.size(), 4
    LimbBits,  \* bits of a u64, 64
    Widths     \* band widths, at most Limbs * LimbBits (RBWidth, RBInfoOf)

ASSUME RbBitsAssumption ==
    /\ Limbs \in Nat \ {0}
    /\ LimbBits \in Nat \ {0}
    /\ Widths \subseteq 1 .. Limbs * LimbBits

Limb == 0 .. Limbs - 1
Size == Limbs * LimbBits
Word == SUBSET (0 .. LimbBits - 1)
RBBits == [Limb -> Word]

VARIABLES
    width,   \* bandWidth
    dst,     \* the row that elimination changes
    src      \* the row with the pivot

vars == <<width, dst, src>>

-----------------------------------------------------------------------------
(* Words and limbs.                                                        *)

Xor(a, b) == (a \ b) \union (b \ a)

\* The shifts of C++ on one word.
Shl(w, s) == {b + s : b \in w} \cap (0 .. LimbBits - 1)
Shr(w, s) == {b - s : b \in w} \cap (0 .. LimbBits - 1)

NoBits == [l \in Limb |-> {}]

RBBit(bits, idx) == idx % LimbBits \in bits[idx \div LimbBits]

RBHasBits(bits) == \E l \in Limb : bits[l] # {}

\* Mutant of RBTrimBits: the partial limb is kept whole.
RBTrimBitsWhole(bits, w) ==
    [l \in Limb |-> IF l * LimbBits < w THEN bits[l] ELSE {}]

RBTrimBits(bits, w) ==
    LET full == w \div LimbBits
        rem == w % LimbBits
    IN IF w = Size THEN bits
       ELSE [l \in Limb |->
               IF l >= full + (IF rem # 0 THEN 1 ELSE 0) THEN {}
               ELSE IF rem # 0 /\ l = full THEN bits[l] \cap (0 .. rem - 1)
               ELSE bits[l]]

\* Mutant of RBEnsureBits: the empty mask is left empty.
RBEnsureBitsNot(bits) == bits

RBEnsureBits(bits) == IF RBHasBits(bits) THEN bits ELSE [bits EXCEPT ![0] = {0}]

\* The band of a hash.
RBMaskBits(m, w) == RBEnsureBits(RBTrimBits(m, w))

Lowest(w) == CHOOSE b \in w : \A c \in w : b <= c

\* The first limb that is not zero, and the lowest bit there.
RBLead(bits, w) ==
    IF ~RBHasBits(bits) THEN w
    ELSE LET l == Lowest({m \in Limb : bits[m] # {}}) IN l * LimbBits + Lowest(bits[l])

RBZeroBelow(bits, idx) ==
    LET limb == idx \div LimbBits
        off == idx % LimbBits
    IN [l \in Limb |->
          IF l < limb THEN {}
          ELSE IF l = limb /\ off # 0 THEN bits[l] \ (0 .. off - 1)
          ELSE bits[l]]

\* Limb l of the result is made of the limb limbShift below it and the bits
\* that the limb below that one carries over.
RBShiftLeft(bits, shift) ==
    LET limbShift == shift \div LimbBits
        bitShift == shift % LimbBits
        from(l) == l - limbShift
    IN IF shift >= Size THEN NoBits
       ELSE [l \in Limb |->
               (IF from(l) >= 0 THEN Shl(bits[from(l)], bitShift) ELSE {})
               \union (IF bitShift # 0 /\ from(l) >= 1
                       THEN Shr(bits[from(l) - 1], LimbBits - bitShift) ELSE {})]

\* Mutant of RBShiftRight: no bits are carried over from the next limb.
RBShiftRightNoCarry(bits, shift) ==
    [l \in Limb |-> IF l + (shift \div LimbBits) < Limbs
                    THEN Shr(bits[l + (shift \div LimbBits)], shift % LimbBits) ELSE {}]

RBShiftRight(bits, shift) ==
    LET limbShift == shift \div LimbBits
        bitShift == shift % LimbBits
        from(l) == l + limbShift
    IN IF shift >= Size THEN NoBits
       ELSE [l \in Limb |->
               (IF from(l) < Limbs THEN Shr(bits[from(l)], bitShift) ELSE {})
               \union (IF bitShift # 0 /\ from(l) + 1 < Limbs
                       THEN Shl(bits[from(l) + 1], LimbBits - bitShift) ELSE {})]

RBXorShifted(d, dstOff, s, srcOff, w) ==
    LET tmp == RBZeroBelow(s, srcOff)
        moved == IF dstOff >= srcOff THEN RBShiftLeft(tmp, dstOff - srcOff)
                                     ELSE RBShiftRight(tmp, srcOff - dstOff)
        cut == RBTrimBits(moved, w)
    IN [l \in Limb |-> Xor(d[l], cut[l])]

-----------------------------------------------------------------------------
(* Two rows of RBEncode.                                                   *)

\* Two hashes, cut to the band.
Init ==
    /\ width \in Widths
    /\ \E m, n \in RBBits : dst = RBMaskBits(m, width) /\ src = RBMaskBits(n, width)

\* Elimination at column off of dst, which has a one there.  Sorted rows only
\* need off <= lead, a shift to the right; the helper is checked both ways.
Eliminate(off) ==
    /\ RBHasBits(src)
    /\ RBBit(dst, off)
    /\ dst' = RBXorShifted(dst, off, src, RBLead(src, width), width)
    /\ UNCHANGED <<width, src>>

\* The outer loop gets to dst, if it has bits left, and dst clears the row
\* that follows it.
NextRow ==
    /\ RBHasBits(dst)
    /\ src' = dst
    /\ dst' = src
    /\ UNCHANGED width

Next == (\E off \in 0 .. width - 1 : Eliminate(off)) \/ NextRow

Spec == Init /\ [][Next]_vars

-----------------------------------------------------------------------------
(* Properties.                                                             *)

\* The positions that RBBit reads as one.
Ones(bits) == {j \in 0 .. Size - 1 : RBBit(bits, j)}

\* No operation leaves a one beyond the band, where decoding and back-fill
\* do not look: the limbs hold a band of `width` bits and nothing else.
Trimmed == dst \in RBBits /\ Ones(dst) \subseteq 0 .. width - 1 /\ Ones(src) \subseteq 0 .. width - 1

\* A row that can be a pivot has a lead in the band, and it is its lowest one.
LeadIsLowest ==
    /\ RBHasBits(src)
    /\ RBLead(src, width) \in Ones(src)
    /\ \A j \in Ones(src) : RBLead(src, width) <= j

\* Elimination, limb by limb, is the addition of a shifted set of positions
\* (RBXorShifted of RbOkvs), and clears the column it was called for.
ShiftIsExact ==
    [][\A off \in 0 .. width - 1 : Eliminate(off) =>
         LET lead == RBLead(src, width) IN
         /\ Ones(dst') = Xor(Ones(dst), {b + off - lead : b \in Ones(src)} \cap (0 .. width - 1))
         /\ ~RBBit(dst', off)]_vars
=============================================================================
