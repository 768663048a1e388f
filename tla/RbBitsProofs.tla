---------------------------- MODULE RbBitsProofs ----------------------------
(***************************************************************************)
(* Proofs about the bit vectors of rows.h (module RbBits), for every       *)
(* number of limbs, every size of a limb and every width of the band: what *)
(* the limb-by-limb operations do to the set of positions that are one.    *)
(***************************************************************************)
EXTENDS RbBits, WellFoundedInduction, TLAPS

-----------------------------------------------------------------------------
(* A position is a limb and an offset in it.                               *)

\* A product with a larger factor is larger by at least the other factor.
LEMMA NextLimb ==
    ASSUME NEW t \in Nat, NEW u \in Nat, t < u, NEW c \in Nat
    PROVE  t * c + c <= u * c
<1>1. PICK d \in Nat : u = t + 1 + d
  <2>1. u - t - 1 \in Nat /\ u = t + 1 + (u - t - 1)
    OBVIOUS
  <2> QED
    BY <2>1
<1>2. u * c = t * c + c + d * c
  BY <1>1
<1>3. d * c \in Nat /\ t * c \in Nat
  BY <1>1
<1> QED
  BY <1>2, <1>3

\* idx / 64 and idx % 64 make up the index again.
LEMMA Split ==
    ASSUME NEW j \in Nat
    PROVE  /\ j \div LimbBits \in Nat /\ j % LimbBits \in 0 .. LimbBits - 1
           /\ j = (j \div LimbBits) * LimbBits + (j % LimbBits)
<1>1. LimbBits \in Nat \ {0}
  BY RbBitsAssumption
<1>2. j \div LimbBits \in Nat /\ j % LimbBits \in 0 .. LimbBits - 1
      /\ j = LimbBits * (j \div LimbBits) + (j % LimbBits)
  BY <1>1
<1> QED
  BY <1>1, <1>2

\* They are the only such numbers.
LEMMA Joined ==
    ASSUME NEW l \in Nat, NEW c \in 0 .. LimbBits - 1
    PROVE  (l * LimbBits + c) \div LimbBits = l /\ (l * LimbBits + c) % LimbBits = c
<1> DEFINE j == l * LimbBits + c
           m == j \div LimbBits
           d == j % LimbBits
<1>0. LimbBits \in Nat \ {0} /\ l * LimbBits \in Nat
  BY RbBitsAssumption
<1>1. j \in Nat
  BY <1>0
<1>2. m \in Nat /\ d \in 0 .. LimbBits - 1 /\ j = m * LimbBits + d
  BY <1>1, Split
<1> HIDE DEF m, d
<1>3. m * LimbBits \in Nat
  BY <1>0, <1>2
<1>4. ~(l < m)
  BY <1>0, <1>2, <1>3, NextLimb
<1>5. ~(m < l)
  BY <1>0, <1>2, <1>3, NextLimb
<1>6. m = l
  BY <1>2, <1>4, <1>5
<1>7. d = c
  BY <1>0, <1>2, <1>6
<1> QED
  BY <1>6, <1>7 DEF m, d

\* An offset in a limb is a position, and a position lies in a limb.
LEMMA InLimb ==
    /\ \A l \in Limb, c \in 0 .. LimbBits - 1 : l * LimbBits + c \in 0 .. Size - 1
    /\ \A j \in 0 .. Size - 1 :
         /\ j \div LimbBits \in Limb /\ j % LimbBits \in 0 .. LimbBits - 1
         /\ j = (j \div LimbBits) * LimbBits + (j % LimbBits)
<1>0. LimbBits \in Nat \ {0} /\ Limbs \in Nat \ {0} /\ Limbs * LimbBits \in Nat
  BY RbBitsAssumption
<1>1. ASSUME NEW l \in Limb, NEW c \in 0 .. LimbBits - 1
      PROVE  l * LimbBits + c \in 0 .. Size - 1
  <2>1. l \in Nat /\ l < Limbs /\ l * LimbBits \in Nat
    BY <1>0 DEF Limb
  <2>2. l * LimbBits + LimbBits <= Limbs * LimbBits
    BY <1>0, <2>1, NextLimb
  <2> QED
    BY <1>0, <2>1, <2>2 DEF Size
<1>2. ASSUME NEW j \in 0 .. Size - 1
      PROVE  /\ j \div LimbBits \in Limb /\ j % LimbBits \in 0 .. LimbBits - 1
             /\ j = (j \div LimbBits) * LimbBits + (j % LimbBits)
  <2> DEFINE m == j \div LimbBits
             d == j % LimbBits
  <2>1. j \in Nat /\ j < Limbs * LimbBits
    BY <1>0 DEF Size
  <2>2. m \in Nat /\ d \in 0 .. LimbBits - 1 /\ j = m * LimbBits + d
    BY <2>1, Split
  <2> HIDE DEF m, d
  <2>3. Limbs = m \/ Limbs < m \/ m < Limbs
    BY <1>0, <2>2
  <2>4. m * LimbBits \in Nat
    BY <1>0, <2>2
  <2>5. ~(Limbs < m)
    BY <1>0, <2>1, <2>2, <2>4, NextLimb
  <2>6. Limbs # m
    BY <1>0, <2>1, <2>2, <2>4
  <2>7. m \in Limb
    BY <1>0, <2>2, <2>3, <2>5, <2>6 DEF Limb
  <2> QED
    BY <2>2, <2>7 DEF m, d
<1> QED
  BY <1>1, <1>2

\* RBBit at an offset of a limb.
LEMMA BitAt ==
    ASSUME NEW bits, NEW l \in Limb, NEW c \in 0 .. LimbBits - 1
    PROVE  RBBit(bits, l * LimbBits + c) <=> c \in bits[l]
<1>1. l \in Nat
  BY RbBitsAssumption DEF Limb
<1> QED
  BY <1>1, Joined DEF RBBit

\* A nonempty set of naturals has a least element.
LEMMA Least ==
    ASSUME NEW T \in SUBSET Nat, T # {}
    PROVE  \E x \in T : \A y \in T : x <= y
<1> DEFINE R == {ss \in Nat \X Nat : ss[1] < ss[2]}
<1>1. IsWellFoundedOn(R, Nat)
  BY NatLessThanWellFounded DEF OpToRel
<1>2. PICK x \in T : \A y \in T : ~ (<<y, x>> \in R)
  <2> HIDE DEF R
  <2> QED
    BY <1>1, WFMin
<1>3. ASSUME NEW y \in T PROVE x <= y
  <2>1. x \in Nat /\ y \in Nat
    OBVIOUS
  <2>2. <<y, x>> \in Nat \X Nat /\ <<y, x>>[1] = y /\ <<y, x>>[2] = x
    BY <2>1
  <2>3. y < x => <<y, x>> \in R
    BY <2>1, <2>2
  <2>4. ~(y < x)
    <3> HIDE DEF R
    <3> QED
      BY <1>2, <2>3
  <2> QED
    BY <2>1, <2>4
<1> QED
  BY <1>3

-----------------------------------------------------------------------------
(* The operations, position by position.                                   *)

\* RBTrimBits keeps the positions below w and no other.
LEMMA TrimBit ==
    ASSUME NEW bits \in RBBits, NEW w \in 0 .. Size
    PROVE  /\ RBTrimBits(bits, w) \in RBBits
           /\ \A j \in 0 .. Size - 1 : RBBit(RBTrimBits(bits, w), j) <=> RBBit(bits, j) /\ j < w
<1> DEFINE t == RBTrimBits(bits, w)
           full == w \div LimbBits
           rem == w % LimbBits
<1>0. LimbBits \in Nat \ {0} /\ w \in Nat
  BY RbBitsAssumption DEF Size
<1>1. full \in Nat /\ rem \in 0 .. LimbBits - 1 /\ w = full * LimbBits + rem
  BY <1>0, Split
<1>2. CASE w = Size
  <2>1. t = bits
    BY <1>2 DEF RBTrimBits
  <2>2. \A j \in 0 .. Size - 1 : j < w
    BY <1>0, <1>2
  <2> QED
    BY <2>1, <2>2
<1>3. CASE w # Size
  <2>1. t = [l \in Limb |->
               IF l >= full + (IF rem # 0 THEN 1 ELSE 0) THEN {}
               ELSE IF rem # 0 /\ l = full THEN bits[l] \cap (0 .. rem - 1)
               ELSE bits[l]]
    BY <1>3 DEF RBTrimBits
  <2> HIDE DEF t, full, rem
  <2>2. t \in RBBits
    BY <2>1 DEF RBBits, Word
  <2>3. ASSUME NEW j \in 0 .. Size - 1
        PROVE  RBBit(t, j) <=> RBBit(bits, j) /\ j < w
    <3> DEFINE l == j \div LimbBits
               c == j % LimbBits
    <3>1. l \in Limb /\ c \in 0 .. LimbBits - 1 /\ j = l * LimbBits + c
      BY InLimb
    <3> HIDE DEF l, c
    <3>2. l \in Nat /\ l * LimbBits \in Nat /\ full * LimbBits \in Nat
      BY <1>0, <1>1, <3>1, RbBitsAssumption DEF Limb
    <3>3. (RBBit(t, j) <=> c \in t[l]) /\ (RBBit(bits, j) <=> c \in bits[l])
      BY <3>1, BitAt
    <3>4. CASE l < full
      <4>1. l * LimbBits + LimbBits <= full * LimbBits
        BY <1>0, <1>1, <3>2, <3>4, NextLimb
      <4>2. j < w
        BY <1>0, <1>1, <3>1, <3>2, <4>1
      <4>3. t[l] = bits[l]
        BY <1>1, <2>1, <3>1, <3>2, <3>4
      <4> QED
        BY <3>3, <4>2, <4>3
    <3>5. CASE full < l
      <4>1. full * LimbBits + LimbBits <= l * LimbBits
        BY <1>0, <1>1, <3>2, <3>5, NextLimb
      <4>2. ~(j < w)
        BY <1>0, <1>1, <3>1, <3>2, <4>1
      <4>3. t[l] = {}
        BY <1>1, <2>1, <3>1, <3>2, <3>5
      <4> QED
        BY <3>3, <4>2, <4>3
    <3>6. CASE l = full
      <4>1. j < w <=> c < rem
        BY <1>0, <1>1, <3>1, <3>2, <3>6
      <4>2. c \in t[l] <=> c \in bits[l] /\ c < rem
        BY <1>1, <2>1, <3>1, <3>2, <3>6
      <4> QED
        BY <3>3, <4>1, <4>2
    <3> QED
      BY <1>1, <3>2, <3>4, <3>5, <3>6
  <2> QED
    BY <2>2, <2>3 DEF t
<1> QED
  BY <1>2, <1>3

\* RBZeroBelow keeps the positions from idx on and no other.
LEMMA ZeroBelowBit ==
    ASSUME NEW bits \in RBBits, NEW idx \in 0 .. Size - 1
    PROVE  /\ RBZeroBelow(bits, idx) \in RBBits
           /\ \A j \in 0 .. Size - 1 : RBBit(RBZeroBelow(bits, idx), j) <=> RBBit(bits, j) /\ idx <= j
<1> DEFINE t == RBZeroBelow(bits, idx)
           limb == idx \div LimbBits
           off == idx % LimbBits
<1>0. LimbBits \in Nat \ {0} /\ idx \in Nat
  BY RbBitsAssumption DEF Size
<1>1. limb \in Nat /\ off \in 0 .. LimbBits - 1 /\ idx = limb * LimbBits + off
  BY <1>0, Split
<1>2. t = [l \in Limb |->
             IF l < limb THEN {}
             ELSE IF l = limb /\ off # 0 THEN bits[l] \ (0 .. off - 1)
             ELSE bits[l]]
  BY DEF RBZeroBelow
<1> HIDE DEF t, limb, off
<1>3. t \in RBBits
  BY <1>2 DEF RBBits, Word
<1>4. ASSUME NEW j \in 0 .. Size - 1
      PROVE  RBBit(t, j) <=> RBBit(bits, j) /\ idx <= j
  <2> DEFINE l == j \div LimbBits
             c == j % LimbBits
  <2>1. l \in Limb /\ c \in 0 .. LimbBits - 1 /\ j = l * LimbBits + c
    BY InLimb
  <2> HIDE DEF l, c
  <2>2. l \in Nat /\ l * LimbBits \in Nat /\ limb * LimbBits \in Nat
    BY <1>0, <1>1, <2>1, RbBitsAssumption DEF Limb
  <2>3. (RBBit(t, j) <=> c \in t[l]) /\ (RBBit(bits, j) <=> c \in bits[l])
    BY <2>1, BitAt
  <2>4. CASE l < limb
    <3>1. l * LimbBits + LimbBits <= limb * LimbBits
      BY <1>0, <1>1, <2>2, <2>4, NextLimb
    <3>2. ~(idx <= j)
      BY <1>0, <1>1, <2>1, <2>2, <3>1
    <3>3. t[l] = {}
      BY <1>2, <2>1, <2>4
    <3> QED
      BY <2>3, <3>2, <3>3
  <2>5. CASE limb < l
    <3>1. limb * LimbBits + LimbBits <= l * LimbBits
      BY <1>0, <1>1, <2>2, <2>5, NextLimb
    <3>2. idx <= j
      BY <1>0, <1>1, <2>1, <2>2, <3>1
    <3>3. t[l] = bits[l]
      BY <1>1, <1>2, <2>1, <2>2, <2>5
    <3> QED
      BY <2>3, <3>2, <3>3
  <2>6. CASE l = limb
    <3>1. idx <= j <=> off <= c
      BY <1>0, <1>1, <2>1, <2>2, <2>6
    <3>2. c \in t[l] <=> c \in bits[l] /\ off <= c
      BY <1>1, <1>2, <2>1, <2>2, <2>6
    <3> QED
      BY <2>3, <3>1, <3>2
  <2> QED
    BY <1>1, <2>2, <2>4, <2>5, <2>6
<1> QED
  BY <1>3, <1>4 DEF t

\* A word shifted left: bit c comes from bit c - s of the word.
LEMMA ShlBit ==
    ASSUME NEW w \in Word, NEW s \in 0 .. LimbBits, NEW c \in 0 .. LimbBits - 1
    PROVE  c \in Shl(w, s) <=> s <= c /\ c - s \in w
<1>0. LimbBits \in Nat
  BY RbBitsAssumption
<1>1. ASSUME c \in Shl(w, s) PROVE s <= c /\ c - s \in w
  <2>1. PICK b \in w : c = b + s
    BY <1>1 DEF Shl
  <2>2. b \in Nat
    BY <1>0 DEF Word
  <2> QED
    BY <1>0, <2>1, <2>2
<1>2. ASSUME s <= c, c - s \in w PROVE c \in Shl(w, s)
  <2>1. c = (c - s) + s
    BY <1>0
  <2> QED
    BY <1>2, <2>1 DEF Shl
<1> QED
  BY <1>1, <1>2

\* A word shifted right: bit c comes from bit c + s of the word.
LEMMA ShrBit ==
    ASSUME NEW w \in Word, NEW s \in 0 .. LimbBits, NEW c \in 0 .. LimbBits - 1
    PROVE  c \in Shr(w, s) <=> c + s < LimbBits /\ c + s \in w
<1>0. LimbBits \in Nat
  BY RbBitsAssumption
<1>1. ASSUME c \in Shr(w, s) PROVE c + s < LimbBits /\ c + s \in w
  <2>1. PICK b \in w : c = b - s
    BY <1>1 DEF Shr
  <2>2. b \in 0 .. LimbBits - 1
    BY DEF Word
  <2> QED
    BY <1>0, <2>1, <2>2
<1>2. ASSUME c + s \in w PROVE c \in Shr(w, s)
  <2>1. c = (c + s) - s
    BY <1>0
  <2> QED
    BY <1>2, <2>1 DEF Shr
<1> QED
  BY <1>1, <1>2

\* A shift of the limbs to the left moves every position up by shift, carries
\* included, and drops the ones that leave the last limb.
LEMMA ShiftLeftBit ==
    ASSUME NEW bits \in RBBits, NEW shift \in 0 .. Size - 1
    PROVE  /\ RBShiftLeft(bits, shift) \in RBBits
           /\ \A j \in 0 .. Size - 1 :
                RBBit(RBShiftLeft(bits, shift), j) <=> shift <= j /\ RBBit(bits, j - shift)
<1> DEFINE t == RBShiftLeft(bits, shift)
           f == shift \div LimbBits
           r == shift % LimbBits
<1>0. LimbBits \in Nat \ {0} /\ Limbs \in Nat \ {0} /\ Size \in Nat /\ shift \in Nat /\ shift < Size
  BY RbBitsAssumption DEF Size
<1>1. f \in Nat /\ r \in 0 .. LimbBits - 1 /\ shift = f * LimbBits + r
  BY <1>0, Split
<1>2. t = [l \in Limb |->
             (IF l - f >= 0 THEN Shl(bits[l - f], r) ELSE {})
             \union (IF r # 0 /\ l - f >= 1
                     THEN Shr(bits[l - f - 1], LimbBits - r) ELSE {})]
  BY <1>0 DEF RBShiftLeft
<1> HIDE DEF t, f, r
<1>3. t \in RBBits
  <2>1. \A w, s : Shl(w, s) \in Word /\ Shr(w, s) \in Word
    BY DEF Shl, Shr, Word
  <2>2. {} \in Word /\ \A v, w \in Word : v \union w \in Word
    BY DEF Word
  <2>3. ASSUME NEW l \in Limb PROVE t[l] \in Word
    BY <1>2, <2>1, <2>2
  <2> QED
    BY <1>2, <2>3 DEF RBBits
<1>4. ASSUME NEW j \in 0 .. Size - 1
      PROVE  RBBit(t, j) <=> shift <= j /\ RBBit(bits, j - shift)
  <2> DEFINE l == j \div LimbBits
             c == j % LimbBits
  <2>1. l \in Limb /\ c \in 0 .. LimbBits - 1 /\ j = l * LimbBits + c
    BY InLimb
  <2> HIDE DEF l, c
  <2>2. l \in Nat /\ l < Limbs /\ l * LimbBits \in Nat /\ f * LimbBits \in Nat
    BY <1>0, <1>1, <2>1 DEF Limb
  <2>3. RBBit(t, j) <=> c \in t[l]
    BY <2>1, BitAt
  <2>4. CASE r <= c /\ f <= l
    <3> DEFINE m == l - f
    <3>1. m \in Limb /\ c - r \in 0 .. LimbBits - 1
      BY <1>0, <1>1, <2>1, <2>2, <2>4 DEF Limb
    <3>2. m * LimbBits = l * LimbBits - f * LimbBits
      BY <1>0, <1>1, <2>2
    <3>3. j - shift = m * LimbBits + (c - r) /\ shift <= j
      <4>1. f = l \/ f * LimbBits + LimbBits <= l * LimbBits
        BY <1>0, <1>1, <2>2, <2>4, NextLimb
      <4> QED
        BY <1>0, <1>1, <2>1, <2>2, <2>4, <3>2, <4>1
    <3>4. RBBit(bits, j - shift) <=> c - r \in bits[m]
      <4> HIDE DEF m
      <4> QED
        BY <3>1, <3>3, BitAt
    <3>5. bits[m] \in Word
      BY <3>1 DEF RBBits
    <3>6. c \in Shl(bits[m], r) <=> c - r \in bits[m]
      <4>1. r \in 0 .. LimbBits
        BY <1>0, <1>1
      <4> QED
        BY <2>1, <2>4, <3>5, <4>1, ShlBit
    <3>7. r # 0 /\ m >= 1 => c \notin Shr(bits[m - 1], LimbBits - r)
      <4> SUFFICES ASSUME r # 0, m >= 1 PROVE c \notin Shr(bits[m - 1], LimbBits - r)
        OBVIOUS
      <4>1. bits[m - 1] \in Word
        BY <1>0, <3>1 DEF RBBits, Limb
      <4>2. LimbBits - r \in 0 .. LimbBits
        BY <1>0, <1>1
      <4>3. ~(c + (LimbBits - r) < LimbBits)
        BY <1>0, <1>1, <2>1, <2>4
      <4> QED
        BY <2>1, <4>1, <4>2, <4>3, ShrBit
    <3>8. c \in t[l] <=> c \in Shl(bits[m], r)
      BY <1>2, <2>1, <2>2, <1>1, <2>4, <3>7
    <3> QED
      BY <2>3, <3>3, <3>4, <3>6, <3>8
  <2>5. CASE c < r /\ f < l
    <3> DEFINE m == l - f - 1
    <3>1. m \in Limb /\ c - r + LimbBits \in 0 .. LimbBits - 1
      BY <1>0, <1>1, <2>1, <2>2, <2>5 DEF Limb
    <3>2. m * LimbBits = l * LimbBits - f * LimbBits - LimbBits
      BY <1>0, <1>1, <2>2
    <3>3. j - shift = m * LimbBits + (c - r + LimbBits) /\ shift <= j
      <4>1. f * LimbBits + LimbBits <= l * LimbBits
        BY <1>0, <1>1, <2>2, <2>5, NextLimb
      <4> QED
        BY <1>0, <1>1, <2>1, <2>2, <2>5, <3>2, <4>1
    <3>4. RBBit(bits, j - shift) <=> c - r + LimbBits \in bits[m]
      <4> HIDE DEF m
      <4> QED
        BY <3>1, <3>3, BitAt
    <3>5. bits[m] \in Word /\ bits[l - f] \in Word
      BY <1>0, <1>1, <2>1, <2>2, <2>5, <3>1 DEF RBBits, Limb
    <3>6. c \in Shr(bits[m], LimbBits - r) <=> c - r + LimbBits \in bits[m]
      <4>1. LimbBits - r \in 0 .. LimbBits
        BY <1>0, <1>1
      <4>2. c + (LimbBits - r) = c - r + LimbBits /\ c + (LimbBits - r) < LimbBits
        BY <1>0, <1>1, <2>1, <2>5
      <4> QED
        BY <2>1, <3>5, <4>1, <4>2, ShrBit
    <3>7. c \notin Shl(bits[l - f], r)
      <4>1. r \in 0 .. LimbBits /\ ~(r <= c)
        BY <1>0, <1>1, <2>1, <2>5
      <4> QED
        BY <2>1, <3>5, <4>1, ShlBit
    <3>8. c \in t[l] <=> c \in Shr(bits[m], LimbBits - r)
      <4>1. r # 0 /\ l - f >= 1 /\ l - f >= 0
        BY <1>1, <2>1, <2>2, <2>5
      <4> QED
        BY <1>2, <2>1, <3>7, <4>1
    <3> QED
      BY <2>3, <3>3, <3>4, <3>6, <3>8
  <2>6. CASE l < f \/ (l = f /\ c < r)
    <3>1. ~(shift <= j)
      <4>1. l = f \/ l * LimbBits + LimbBits <= f * LimbBits
        BY <1>0, <1>1, <2>2, <2>6, NextLimb
      <4> QED
        BY <1>0, <1>1, <2>1, <2>2, <2>6, <4>1
    <3>2. ~(l - f >= 1)
      BY <1>1, <2>2, <2>6
    <3>3. CASE l < f
      <4>1. ~(l - f >= 0)
        BY <1>1, <2>2, <3>3
      <4>2. t[l] = {}
        BY <1>2, <2>1, <3>2, <4>1
      <4> QED
        BY <2>3, <3>1, <4>2
    <3>4. CASE l = f /\ c < r
      <4>1. bits[l - f] \in Word
        BY <1>0, <1>1, <2>2, <3>4 DEF RBBits, Limb
      <4>2. c \notin Shl(bits[l - f], r)
        <5>1. r \in 0 .. LimbBits /\ ~(r <= c)
          BY <1>0, <1>1, <2>1, <3>4
        <5> QED
          BY <2>1, <4>1, <5>1, ShlBit
      <4>3. c \notin t[l]
        BY <1>2, <2>1, <3>2, <4>2
      <4> QED
        BY <2>3, <3>1, <4>3
    <3> QED
      BY <2>6, <3>3, <3>4
  <2> QED
    BY <1>1, <2>1, <2>2, <2>4, <2>5, <2>6
<1> QED
  BY <1>3, <1>4 DEF t

\* A shift of the limbs to the right moves every position down by shift,
\* carries included, and drops the ones below shift.
LEMMA ShiftRightBit ==
    ASSUME NEW bits \in RBBits, NEW shift \in 0 .. Size - 1
    PROVE  /\ RBShiftRight(bits, shift) \in RBBits
           /\ \A j \in 0 .. Size - 1 :
                RBBit(RBShiftRight(bits, shift), j) <=> j + shift < Size /\ RBBit(bits, j + shift)
<1> DEFINE t == RBShiftRight(bits, shift)
           f == shift \div LimbBits
           r == shift % LimbBits
<1>0. LimbBits \in Nat \ {0} /\ Limbs \in Nat \ {0} /\ Size \in Nat /\ shift \in Nat /\ shift < Size
      /\ Size = Limbs * LimbBits
  BY RbBitsAssumption DEF Size
<1>1. f \in Nat /\ r \in 0 .. LimbBits - 1 /\ shift = f * LimbBits + r
  BY <1>0, Split
<1>2. t = [l \in Limb |->
             (IF l + f < Limbs THEN Shr(bits[l + f], r) ELSE {})
             \union (IF r # 0 /\ l + f + 1 < Limbs
                     THEN Shl(bits[l + f + 1], LimbBits - r) ELSE {})]
  BY <1>0 DEF RBShiftRight
<1> HIDE DEF t, f, r
<1>3. t \in RBBits
  <2>1. \A w, s : Shl(w, s) \in Word /\ Shr(w, s) \in Word
    BY DEF Shl, Shr, Word
  <2>2. {} \in Word /\ \A v, w \in Word : v \union w \in Word
    BY DEF Word
  <2>3. ASSUME NEW l \in Limb PROVE t[l] \in Word
    BY <1>2, <2>1, <2>2
  <2> QED
    BY <1>2, <2>3 DEF RBBits
<1>4. ASSUME NEW j \in 0 .. Size - 1
      PROVE  RBBit(t, j) <=> j + shift < Size /\ RBBit(bits, j + shift)
  <2> DEFINE l == j \div LimbBits
             c == j % LimbBits
  <2>1. l \in Limb /\ c \in 0 .. LimbBits - 1 /\ j = l * LimbBits + c
    BY InLimb
  <2> HIDE DEF l, c
  <2>2. l \in Nat /\ l < Limbs /\ l * LimbBits \in Nat /\ f * LimbBits \in Nat
    BY <1>0, <1>1, <2>1 DEF Limb
  <2>3. RBBit(t, j) <=> c \in t[l]
    BY <2>1, BitAt
  <2>4. CASE c + r < LimbBits /\ l + f < Limbs
    <3> DEFINE m == l + f
    <3>1. m \in Limb /\ c + r \in 0 .. LimbBits - 1
      BY <1>0, <1>1, <2>1, <2>2, <2>4 DEF Limb
    <3>2. m * LimbBits = l * LimbBits + f * LimbBits
      BY <1>0, <1>1, <2>2
    <3>3. j + shift = m * LimbBits + (c + r)
      BY <1>0, <1>1, <2>1, <2>2, <3>2
    <3>4. RBBit(bits, j + shift) <=> c + r \in bits[m]
      <4> HIDE DEF m
      <4> QED
        BY <3>1, <3>3, BitAt
    <3>5. j + shift < Size
      <4> HIDE DEF m
      <4>1. m * LimbBits + (c + r) \in 0 .. Size - 1
        BY <3>1, InLimb
      <4> QED
        BY <1>0, <3>3, <4>1
    <3>6. c \in Shr(bits[m], r) <=> c + r \in bits[m]
      <4>1. r \in 0 .. LimbBits /\ bits[m] \in Word
        BY <1>0, <1>1, <3>1 DEF RBBits
      <4> QED
        BY <2>1, <2>4, <4>1, ShrBit
    <3>7. r # 0 /\ m + 1 < Limbs => c \notin Shl(bits[m + 1], LimbBits - r)
      <4> SUFFICES ASSUME r # 0, m + 1 < Limbs PROVE c \notin Shl(bits[m + 1], LimbBits - r)
        OBVIOUS
      <4>1. bits[m + 1] \in Word
        BY <1>0, <3>1 DEF RBBits, Limb
      <4>2. LimbBits - r \in 0 .. LimbBits
        BY <1>0, <1>1
      <4>3. ~(LimbBits - r <= c)
        BY <1>0, <1>1, <2>1, <2>4
      <4> QED
        BY <2>1, <4>1, <4>2, <4>3, ShlBit
    <3>8. c \in t[l] <=> c \in Shr(bits[m], r)
      BY <1>2, <2>1, <2>4, <3>7
    <3> QED
      BY <2>3, <3>4, <3>5, <3>6, <3>8
  <2>5. CASE LimbBits <= c + r /\ l + f + 1 < Limbs
    <3> DEFINE m == l + f + 1
    <3>1. m \in Limb /\ c + r - LimbBits \in 0 .. LimbBits - 1
      BY <1>0, <1>1, <2>1, <2>2, <2>5 DEF Limb
    <3>2. m * LimbBits = l * LimbBits + f * LimbBits + LimbBits
      BY <1>0, <1>1, <2>2
    <3>3. j + shift = m * LimbBits + (c + r - LimbBits)
      BY <1>0, <1>1, <2>1, <2>2, <3>2
    <3>4. RBBit(bits, j + shift) <=> c + r - LimbBits \in bits[m]
      <4> HIDE DEF m
      <4> QED
        BY <3>1, <3>3, BitAt
    <3>5. j + shift < Size
      <4> HIDE DEF m
      <4>1. m * LimbBits + (c + r - LimbBits) \in 0 .. Size - 1
        BY <3>1, InLimb
      <4> QED
        BY <1>0, <3>3, <4>1
    <3>6. c \in Shl(bits[m], LimbBits - r) <=> c + r - LimbBits \in bits[m]
      <4>1. LimbBits - r \in 0 .. LimbBits /\ bits[m] \in Word
        BY <1>0, <1>1, <3>1 DEF RBBits
      <4>2. c - (LimbBits - r) = c + r - LimbBits /\ LimbBits - r <= c
        BY <1>0, <1>1, <2>1, <2>5
      <4> QED
        BY <2>1, <4>1, <4>2, ShlBit
    <3>7. c \notin Shr(bits[l + f], r)
      <4>1. r \in 0 .. LimbBits /\ ~(c + r < LimbBits)
        BY <1>0, <1>1, <2>1, <2>5
      <4>2. bits[l + f] \in Word
        BY <1>0, <1>1, <2>2, <2>5 DEF RBBits, Limb
      <4> QED
        BY <2>1, <4>1, <4>2, ShrBit
    <3>8. c \in t[l] <=> c \in Shl(bits[m], LimbBits - r)
      <4>1. r # 0 /\ l + f < Limbs
        BY <1>0, <1>1, <2>1, <2>2, <2>5
      <4> QED
        BY <1>2, <2>1, <2>5, <3>7, <4>1
    <3> QED
      BY <2>3, <3>4, <3>5, <3>6, <3>8
  <2>6. CASE Limbs <= l + f \/ (LimbBits <= c + r /\ Limbs <= l + f + 1)
    <3>1. ~(j + shift < Size)
      <4> DEFINE m == l + f
      <4>1. m * LimbBits = l * LimbBits + f * LimbBits /\ m \in Nat /\ m * LimbBits \in Nat
        BY <1>0, <1>1, <2>2
      <4>2. j + shift = m * LimbBits + (c + r)
        BY <1>0, <1>1, <2>1, <2>2, <4>1
      <4> HIDE DEF m
      <4>3. CASE Limbs <= m
        <5>1. Limbs = m \/ Limbs * LimbBits + LimbBits <= m * LimbBits
          BY <1>0, <4>1, <4>3, NextLimb
        <5> QED
          BY <1>0, <1>1, <2>1, <4>1, <4>2, <5>1
      <4>4. CASE LimbBits <= c + r /\ Limbs = m + 1
        <5>1. Limbs * LimbBits = m * LimbBits + LimbBits
          BY <1>0, <4>1, <4>4
        <5> QED
          BY <1>0, <1>1, <2>1, <4>1, <4>2, <4>4, <5>1
      <4>5. Limbs <= m \/ (LimbBits <= c + r /\ Limbs = m + 1)
        BY <1>0, <4>1, <2>6, <2>2, <1>1 DEF m
      <4> QED
        BY <4>3, <4>4, <4>5
    <3>2. ~(l + f + 1 < Limbs)
      BY <1>0, <1>1, <2>2, <2>6
    <3>3. CASE Limbs <= l + f
      <4>1. ~(l + f < Limbs)
        BY <1>0, <1>1, <2>2, <3>3
      <4>2. t[l] = {}
        BY <1>2, <2>1, <3>2, <4>1
      <4> QED
        BY <2>3, <3>1, <4>2
    <3>4. CASE LimbBits <= c + r /\ l + f < Limbs
      <4>1. c \notin Shr(bits[l + f], r)
        <5>1. r \in 0 .. LimbBits /\ ~(c + r < LimbBits)
          BY <1>0, <1>1, <2>1, <3>4
        <5>2. bits[l + f] \in Word
          BY <1>0, <1>1, <2>2, <3>4 DEF RBBits, Limb
        <5> QED
          BY <2>1, <5>1, <5>2, ShrBit
      <4>2. c \notin t[l]
        BY <1>2, <2>1, <3>2, <4>1
      <4> QED
        BY <2>3, <3>1, <4>2
    <3> QED
      BY <1>0, <1>1, <2>2, <2>6, <3>3, <3>4
  <2> QED
    BY <1>0, <1>1, <2>1, <2>2, <2>4, <2>5, <2>6
<1> QED
  BY <1>3, <1>4 DEF t

\* RBHasBits, RBLead: a vector that is not zero has a lead, and it is the
\* lowest position that is one.
LEMMA LeadLeast ==
    ASSUME NEW bits \in RBBits, RBHasBits(bits), NEW w
    PROVE  RBLead(bits, w) \in Ones(bits) /\ \A j \in Ones(bits) : RBLead(bits, w) <= j
<1> DEFINE T == {m \in Limb : bits[m] # {}}
           l == Lowest(T)
           c == Lowest(bits[l])
<1>0. LimbBits \in Nat \ {0} /\ Limbs \in Nat \ {0} /\ Size \in Nat
  BY RbBitsAssumption DEF Size
<1>1. T \in SUBSET Nat /\ T # {}
  BY <1>0 DEF RBHasBits, Limb
<1>2. l \in T /\ \A m \in T : l <= m
  <2> HIDE DEF T
  <2>1. \E x \in T : \A y \in T : x <= y
    BY <1>1, Least
  <2> QED
    BY <2>1 DEF Lowest
<1>3. bits[l] \in SUBSET (0 .. LimbBits - 1) /\ bits[l] # {} /\ l \in Limb
  <2> HIDE DEF l
  <2> QED
    BY <1>2 DEF RBBits, Word
<1> HIDE DEF l
<1>4. c \in bits[l] /\ \A d \in bits[l] : c <= d
  <2>1. \E x \in bits[l] : \A y \in bits[l] : x <= y
    BY <1>0, <1>3, Least
  <2> QED
    BY <2>1 DEF Lowest
<1> HIDE DEF c
<1>5. RBLead(bits, w) = l * LimbBits + c
  BY DEF RBLead, l, c
<1>6. c \in 0 .. LimbBits - 1
  BY <1>3, <1>4
<1>7. l * LimbBits + c \in Ones(bits)
  BY <1>3, <1>4, <1>6, BitAt, InLimb DEF Ones
<1>8. ASSUME NEW j \in Ones(bits) PROVE l * LimbBits + c <= j
  <2> DEFINE m == j \div LimbBits
             d == j % LimbBits
  <2>1. j \in 0 .. Size - 1 /\ RBBit(bits, j)
    BY DEF Ones
  <2>2. m \in Limb /\ d \in 0 .. LimbBits - 1 /\ j = m * LimbBits + d /\ d \in bits[m]
    BY <2>1, InLimb DEF RBBit
  <2> HIDE DEF m, d
  <2>3. m \in Nat /\ l \in Nat /\ l <= m /\ m * LimbBits \in Nat /\ l * LimbBits \in Nat
    BY <1>0, <1>2, <1>3, <2>2 DEF Limb
  <2>4. CASE l = m
    BY <1>0, <1>4, <1>6, <2>2, <2>3, <2>4
  <2>5. CASE l < m
    <3>1. l * LimbBits + LimbBits <= m * LimbBits
      BY <1>0, <2>3, <2>5, NextLimb
    <3> QED
      BY <1>0, <1>6, <2>2, <2>3, <3>1
  <2> QED
    BY <2>3, <2>4, <2>5
<1> QED
  BY <1>5, <1>7, <1>8

\* A vector with a one in a position is not zero.
LEMMA OneHasBits ==
    ASSUME NEW bits \in RBBits, NEW j \in Ones(bits)
    PROVE  RBHasBits(bits)
<1>1. j \in 0 .. Size - 1 /\ RBBit(bits, j)
  BY DEF Ones
<1>2. j \div LimbBits \in Limb
  BY <1>1, InLimb
<1> QED
  BY <1>1, <1>2 DEF RBBit, RBHasBits

\* RBXorShifted adds, position by position, the row s moved from its lead to
\* column off and cut to the band.
LEMMA XorShiftedBit ==
    ASSUME NEW d \in RBBits, NEW s \in RBBits, NEW w \in 0 .. Size,
           NEW off \in 0 .. Size - 1, NEW lead \in 0 .. Size - 1,
           \A j \in Ones(s) : lead <= j
    PROVE  /\ RBXorShifted(d, off, s, lead, w) \in RBBits
           /\ \A j \in 0 .. Size - 1 :
                RBBit(RBXorShifted(d, off, s, lead, w), j)
                  <=> ~(RBBit(d, j) <=> j < w /\ j - off + lead \in Ones(s))
<1> DEFINE tmp == RBZeroBelow(s, lead)
           moved == IF off >= lead THEN RBShiftLeft(tmp, off - lead)
                                   ELSE RBShiftRight(tmp, lead - off)
           cut == RBTrimBits(moved, w)
           res == RBXorShifted(d, off, s, lead, w)
<1>0. Size \in Nat /\ off \in Nat /\ lead \in Nat /\ off < Size /\ lead < Size
  BY RbBitsAssumption DEF Size
<1>1. res = [l \in Limb |-> Xor(d[l], cut[l])]
  BY DEF RBXorShifted
<1>2. /\ tmp \in RBBits
      /\ \A j \in 0 .. Size - 1 : RBBit(tmp, j) <=> j \in Ones(s)
  <2>1. \A j \in 0 .. Size - 1 : RBBit(tmp, j) <=> RBBit(s, j) /\ lead <= j
    BY ZeroBelowBit
  <2> QED
    BY <2>1, ZeroBelowBit DEF Ones
<1> HIDE DEF tmp
<1>3. /\ moved \in RBBits
      /\ \A j \in 0 .. Size - 1 : RBBit(moved, j) <=> j - off + lead \in Ones(s)
  <2>0. Ones(s) \subseteq 0 .. Size - 1
    BY DEF Ones
  <2>1. CASE off >= lead
    <3>1. off - lead \in 0 .. Size - 1
      BY <1>0, <2>1
    <3>2. moved = RBShiftLeft(tmp, off - lead)
      BY <2>1
    <3> HIDE DEF moved
    <3>3. moved \in RBBits
      BY <1>2, <3>1, <3>2, ShiftLeftBit
    <3>4. ASSUME NEW j \in 0 .. Size - 1
          PROVE  RBBit(moved, j) <=> j - off + lead \in Ones(s)
      <4>1. RBBit(moved, j) <=> off - lead <= j /\ RBBit(tmp, j - (off - lead))
        BY <1>2, <3>1, <3>2, ShiftLeftBit
      <4>2. j - (off - lead) = j - off + lead
        BY <1>0
      <4>3. off - lead <= j <=> j - off + lead \in 0 .. Size - 1
        BY <1>0, <2>1
      <4> QED
        BY <1>2, <2>0, <4>1, <4>2, <4>3
    <3> QED
      BY <3>3, <3>4
  <2>2. CASE off < lead
    <3>1. lead - off \in 0 .. Size - 1
      BY <1>0, <2>2
    <3>2. moved = RBShiftRight(tmp, lead - off)
      BY <1>0, <2>2
    <3> HIDE DEF moved
    <3>3. moved \in RBBits
      BY <1>2, <3>1, <3>2, ShiftRightBit
    <3>4. ASSUME NEW j \in 0 .. Size - 1
          PROVE  RBBit(moved, j) <=> j - off + lead \in Ones(s)
      <4>1. RBBit(moved, j) <=> j + (lead - off) < Size /\ RBBit(tmp, j + (lead - off))
        BY <1>2, <3>1, <3>2, ShiftRightBit
      <4>2. j + (lead - off) = j - off + lead
        BY <1>0
      <4>3. j + (lead - off) < Size <=> j - off + lead \in 0 .. Size - 1
        BY <1>0, <2>2
      <4> QED
        BY <1>2, <2>0, <4>1, <4>2, <4>3
    <3> QED
      BY <3>3, <3>4
  <2> QED
    BY <1>0, <2>1, <2>2
<1> HIDE DEF moved
<1>4. /\ cut \in RBBits
      /\ \A j \in 0 .. Size - 1 : RBBit(cut, j) <=> RBBit(moved, j) /\ j < w
  BY <1>3, TrimBit
<1> HIDE DEF cut, res
<1>5. res \in RBBits
  <2>1. \A l \in Limb : Xor(d[l], cut[l]) \in Word
    BY <1>4 DEF Xor, RBBits, Word
  <2> QED
    BY <1>1, <2>1 DEF RBBits
<1>6. ASSUME NEW j \in 0 .. Size - 1
      PROVE  RBBit(res, j) <=> ~(RBBit(d, j) <=> j < w /\ j - off + lead \in Ones(s))
  <2> DEFINE l == j \div LimbBits
             c == j % LimbBits
  <2>1. l \in Limb
    BY InLimb
  <2>2. res[l] = Xor(d[l], cut[l])
    BY <1>1, <2>1
  <2>3. RBBit(res, j) <=> ~(RBBit(d, j) <=> RBBit(cut, j))
    BY <2>2 DEF RBBit, Xor
  <2> QED
    BY <1>3, <1>4, <2>3
<1> QED
  BY <1>5, <1>6 DEF res

-----------------------------------------------------------------------------
(* The rows of the elimination.                                            *)

\* A row: a vector of limbs with no one beyond the band.
Row(bits) == bits \in RBBits /\ Ones(bits) \subseteq 0 .. width - 1

\* The inductive invariant: two rows, the pivot not zero.
BitsInv ==
    /\ width \in Widths
    /\ Row(dst)
    /\ Row(src)
    /\ RBHasBits(src)

LEMMA WidthFacts ==
    ASSUME NEW w \in Widths
    PROVE  w \in Nat /\ w >= 1 /\ w <= Size /\ Size \in Nat
BY RbBitsAssumption DEF Size

\* RBMaskBits: the band of a hash is a row, and never zero.
LEMMA MaskRow ==
    ASSUME NEW w \in Widths, NEW m \in RBBits
    PROVE  /\ RBMaskBits(m, w) \in RBBits
           /\ Ones(RBMaskBits(m, w)) \subseteq 0 .. w - 1
           /\ RBHasBits(RBMaskBits(m, w))
<1> DEFINE t == RBTrimBits(m, w)
           r == RBEnsureBits(t)
<1>0. w \in Nat /\ w >= 1 /\ w <= Size /\ Size \in Nat /\ LimbBits \in Nat \ {0} /\ 0 \in Limb
  BY WidthFacts, RbBitsAssumption DEF Limb
<1>1. t \in RBBits /\ \A j \in 0 .. Size - 1 : RBBit(t, j) <=> RBBit(m, j) /\ j < w
  <2>1. w \in 0 .. Size
    BY <1>0
  <2> QED
    BY <2>1, TrimBit
<1> HIDE DEF t
<1>2. CASE RBHasBits(t)
  <2>1. r = t
    BY <1>2 DEF RBEnsureBits
  <2>2. Ones(t) \subseteq 0 .. w - 1
    BY <1>0, <1>1 DEF Ones
  <2> QED
    BY <1>1, <1>2, <2>1, <2>2 DEF RBMaskBits, t
<1>3. CASE ~RBHasBits(t)
  <2>1. r = [t EXCEPT ![0] = {0}]
    BY <1>3 DEF RBEnsureBits
  <2> HIDE DEF r
  <2>2. \A l \in Limb : t[l] = {}
    BY <1>3 DEF RBHasBits
  <2>3. r \in RBBits /\ r[0] = {0} /\ \A l \in Limb : l # 0 => r[l] = {}
    <3>1. {0} \in Word
      BY <1>0 DEF Word
    <3> QED
      BY <1>0, <1>1, <2>1, <2>2, <3>1 DEF RBBits
  <2>4. RBHasBits(r)
    BY <1>0, <2>3 DEF RBHasBits
  <2>5. ASSUME NEW j \in Ones(r) PROVE j = 0
    <3> DEFINE l == j \div LimbBits
               c == j % LimbBits
    <3>1. j \in 0 .. Size - 1 /\ c \in r[l]
      BY DEF Ones, RBBit
    <3>2. l \in Limb /\ c \in 0 .. LimbBits - 1 /\ j = l * LimbBits + c
      BY <3>1, InLimb
    <3> HIDE DEF l, c
    <3>3. l = 0 /\ c = 0
      BY <2>3, <3>1, <3>2
    <3> QED
      BY <1>0, <3>2, <3>3
  <2>6. Ones(r) \subseteq 0 .. w - 1
    BY <1>0, <2>5
  <2> QED
    BY <2>3, <2>4, <2>6 DEF RBMaskBits, r, t
<1> QED
  BY <1>2, <1>3

LEMMA BitsInit == Init => BitsInv
<1> SUFFICES ASSUME Init PROVE BitsInv
  OBVIOUS
<1>1. width \in Widths
  BY DEF Init
<1>2. PICK m, n \in RBBits : dst = RBMaskBits(m, width) /\ src = RBMaskBits(n, width)
  BY DEF Init
<1> QED
  BY <1>1, <1>2, MaskRow DEF BitsInv, Row

\* Elimination as the addition of a shifted set of positions.
LEMMA EliminateOnes ==
    ASSUME BitsInv, NEW off \in 0 .. width - 1, Eliminate(off)
    PROVE  /\ dst' \in RBBits
           /\ Ones(dst') = Xor(Ones(dst), {b + off - RBLead(src, width) : b \in Ones(src)} \cap (0 .. width - 1))
           /\ Ones(dst') \subseteq 0 .. width - 1
           /\ ~RBBit(dst', off)
<1> DEFINE lead == RBLead(src, width)
           moved == {b + off - lead : b \in Ones(src)} \cap (0 .. width - 1)
           res == RBXorShifted(dst, off, src, lead, width)
<1>0. width \in Nat /\ width >= 1 /\ width <= Size /\ Size \in Nat
  BY WidthFacts DEF BitsInv
<1>1. dst \in RBBits /\ src \in RBBits /\ Ones(dst) \subseteq 0 .. width - 1 /\ Ones(src) \subseteq 0 .. width - 1
  BY DEF BitsInv, Row
<1>2. lead \in Ones(src) /\ \A j \in Ones(src) : lead <= j
  BY <1>1, LeadLeast DEF BitsInv
<1> HIDE DEF lead
<1>3. lead \in 0 .. Size - 1 /\ off \in 0 .. Size - 1 /\ width \in 0 .. Size /\ lead \in Nat /\ off \in Nat
  BY <1>0, <1>1, <1>2
<1>4. dst' = res
  BY DEF Eliminate, lead
<1>5. /\ res \in RBBits
      /\ \A j \in 0 .. Size - 1 :
           RBBit(res, j) <=> ~(RBBit(dst, j) <=> j < width /\ j - off + lead \in Ones(src))
  BY <1>1, <1>2, <1>3, XorShiftedBit
<1> HIDE DEF res
<1>6. ASSUME NEW j \in 0 .. Size - 1
      PROVE  j \in moved <=> j < width /\ j - off + lead \in Ones(src)
  <2>1. ASSUME j \in moved PROVE j < width /\ j - off + lead \in Ones(src)
    <3>1. PICK b \in Ones(src) : j = b + off - lead
      BY <2>1
    <3>2. b \in Nat
      BY <1>0, <1>1
    <3>3. j - off + lead = b
      BY <1>3, <3>1, <3>2
    <3> QED
      BY <1>0, <2>1, <3>3
  <2>2. ASSUME j < width, j - off + lead \in Ones(src) PROVE j \in moved
    <3>1. j = (j - off + lead) + off - lead /\ j \in 0 .. width - 1
      BY <1>0, <1>3, <2>2
    <3> QED
      BY <2>2, <3>1
  <2> QED
    BY <2>1, <2>2
<1>7. moved \subseteq 0 .. width - 1
  OBVIOUS
<1> HIDE DEF moved
<1>8. ASSUME NEW j \in 0 .. Size - 1
      PROVE  RBBit(res, j) <=> ~(j \in Ones(dst) <=> j \in moved)
  BY <1>5, <1>6 DEF Ones
<1>9. Ones(res) = Xor(Ones(dst), moved)
  <2>1. Ones(dst) \subseteq 0 .. Size - 1 /\ moved \subseteq 0 .. Size - 1
    BY <1>0, <1>1, <1>7
  <2>2. \A j : j \in Ones(res) <=> j \in 0 .. Size - 1 /\ RBBit(res, j)
    BY DEF Ones
  <2>3. \A j : j \in Ones(res) <=> j \in Xor(Ones(dst), moved)
    BY <1>8, <2>1, <2>2 DEF Xor
  <2> QED
    BY <2>3
<1>10. Ones(res) \subseteq 0 .. width - 1
  BY <1>1, <1>7, <1>9 DEF Xor
<1>11. ~RBBit(res, off)
  <2>1. off - off + lead = lead /\ off < width
    BY <1>0, <1>3
  <2>2. off \in moved
    BY <1>2, <1>3, <1>6, <2>1
  <2>3. RBBit(dst, off)
    BY DEF Eliminate
  <2>4. off \in Ones(dst)
    BY <1>3, <2>3 DEF Ones
  <2> QED
    BY <1>3, <1>8, <2>2, <2>4
<1> QED
  BY <1>4, <1>5, <1>9, <1>10, <1>11 DEF moved, lead

LEMMA BitsStep == BitsInv /\ [Next]_vars => BitsInv'
<1> SUFFICES ASSUME BitsInv, [Next]_vars PROVE BitsInv'
  OBVIOUS
<1>1. CASE \E off \in 0 .. width - 1 : Eliminate(off)
  <2>1. PICK off \in 0 .. width - 1 : Eliminate(off)
    BY <1>1
  <2>2. width' = width /\ src' = src
    BY <2>1 DEF Eliminate
  <2>3. dst' \in RBBits /\ Ones(dst') \subseteq 0 .. width - 1
    BY <2>1, EliminateOnes
  <2>4. Row(dst)'
    BY <2>2, <2>3 DEF Row
  <2>5. Row(src)'
    BY <2>2 DEF Row, BitsInv
  <2> QED
    BY <2>2, <2>4, <2>5 DEF BitsInv
<1>2. CASE NextRow
  <2>1. width' = width /\ src' = dst /\ dst' = src /\ RBHasBits(dst)
    BY <1>2 DEF NextRow
  <2>2. Row(dst)' /\ Row(src)'
    BY <2>1 DEF Row, BitsInv
  <2>3. RBHasBits(src)'
    BY <2>1
  <2> QED
    BY <2>1, <2>2, <2>3 DEF BitsInv
<1>3. CASE UNCHANGED vars
  BY <1>3 DEF vars, BitsInv, Row
<1> QED
  BY <1>1, <1>2, <1>3 DEF Next

\* Elimination and RBTrimBits leave no one beyond the band, for every width
\* and number of limbs.
THEOREM TrimmedAlways == Spec => []Trimmed
<1>1. BitsInv => Trimmed
  BY DEF BitsInv, Row, Trimmed
<1> QED
  BY BitsInit, BitsStep, <1>1, PTL DEF Spec

\* The lead of a pivot row is its lowest one, so that RBZeroBelow of
\* RBXorShifted never cuts a bit of the pivot off.
THEOREM LeadIsLowestAlways == Spec => []LeadIsLowest
<1>1. BitsInv => LeadIsLowest
  BY LeadLeast DEF BitsInv, Row, LeadIsLowest
<1> QED
  BY BitsInit, BitsStep, <1>1, PTL DEF Spec

\* RBXorShifted on limbs, with carries and a partial last limb, is the sum of
\* a set of positions and a shifted one: what RbOkvs takes it to be.
THEOREM ShiftIsExactAlways == Spec => ShiftIsExact
<1> DEFINE Exact == \A off \in 0 .. width - 1 : Eliminate(off) =>
                      LET lead == RBLead(src, width) IN
                      /\ Ones(dst') = Xor(Ones(dst), {b + off - lead : b \in Ones(src)} \cap (0 .. width - 1))
                      /\ ~RBBit(dst', off)
<1>1. BitsInv /\ [Next]_vars => [Exact]_vars
  BY EliminateOnes
<1> QED
  BY BitsInit, BitsStep, <1>1, PTL DEF Spec, ShiftIsExact
=============================================================================
