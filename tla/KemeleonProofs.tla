---------------------------- MODULE KemeleonProofs ----------------------------
(* Proofs about module Kemeleon, for every q, length and byte width.       *)
EXTENDS Kemeleon, WellFoundedInduction, TLAPS

-----------------------------------------------------------------------------
(* Quotients and remainders.                                               *)

\* A quotient and a remainder make up the number again.
LEMMA Euclid ==
    ASSUME NEW a \in Nat, NEW b \in Nat \ {0}
    PROVE  a \div b \in Nat /\ a % b \in 0 .. b - 1 /\ a = (a \div b) * b + (a % b)
<1>1. a \div b \in Nat /\ a % b \in 0 .. b - 1 /\ a = b * (a \div b) + (a % b)
  OBVIOUS
<1> QED
  BY <1>1

\* They are the only such numbers.
LEMMA Digit ==
    ASSUME NEW a \in Nat, NEW b \in Nat \ {0}, NEW d \in 0 .. b - 1
    PROVE  (a * b + d) \div b = a /\ (a * b + d) % b = d
<1> DEFINE s == a * b + d
           p == s \div b
           r == s % b
<1>1. s \in Nat
  OBVIOUS
<1>2. p \in Nat /\ r \in 0 .. b - 1 /\ s = p * b + r
  BY <1>1, Euclid
<1> HIDE DEF p, r
<1>3. ASSUME NEW u \in Nat, NEW v \in Nat, u < v PROVE u * b + b <= v * b
  <2>1. PICK e \in Nat : v = u + 1 + e
    <3>1. v - u - 1 \in Nat /\ v = u + 1 + (v - u - 1)
      BY <1>3
    <3> QED
      BY <3>1
  <2>2. v * b = u * b + b + e * b
    BY <2>1
  <2>3. e * b \in Nat /\ u * b \in Nat
    BY <2>1
  <2> QED
    BY <2>2, <2>3
<1>4. p * b \in Nat /\ a * b \in Nat
  BY <1>2
<1>5. ~ (p < a)
  BY <1>2, <1>3, <1>4
<1>6. ~ (a < p)
  BY <1>2, <1>3, <1>4
<1>7. p = a
  BY <1>2, <1>5, <1>6
<1>8. r = d
  BY <1>2, <1>4, <1>7
<1> QED
  BY <1>7, <1>8 DEF p, r

\* A number below a product has its quotient below the other factor.
LEMMA QuotientBelow ==
    ASSUME NEW a \in Nat, NEW b \in Nat \ {0}, NEW c \in Nat, a < c * b
    PROVE  a \div b < c
<1> DEFINE p == a \div b
<1>1. p \in Nat /\ a % b \in Nat /\ a = p * b + (a % b)
  BY Euclid
<1> HIDE DEF p
<1>2. SUFFICES ASSUME c <= p PROVE FALSE
  BY <1>1 DEF p
<1>3. PICK e \in Nat : p = c + e
  <2>1. p - c \in Nat /\ p = c + (p - c)
    BY <1>1, <1>2
  <2> QED
    BY <2>1
<1>4. p * b = c * b + e * b /\ e * b \in Nat /\ c * b \in Nat
  BY <1>3
<1> QED
  BY <1>1, <1>4

-----------------------------------------------------------------------------
(* Binary digits.                                                          *)

\* A nonempty set of naturals has a least element.
LEMMA Least ==
    ASSUME NEW T \in SUBSET Nat, T # {}
    PROVE  \E a \in T : \A y \in T : a <= y
<1> DEFINE R == {ss \in Nat \X Nat : ss[1] < ss[2]}
<1>1. IsWellFoundedOn(R, Nat)
  BY NatLessThanWellFounded DEF OpToRel
<1>2. PICK a \in T : \A y \in T : ~ (<<y, a>> \in R)
  <2> HIDE DEF R
  <2> QED BY <1>1, WFMin
<1>3. ASSUME NEW y \in T PROVE a <= y
  <2>1. a \in Nat /\ y \in Nat
    OBVIOUS
  <2>2. <<y, a>> \in Nat \X Nat /\ <<y, a>>[1] = y /\ <<y, a>>[2] = a
    BY <2>1
  <2>3. y < a => <<y, a>> \in R
    BY <2>1, <2>2
  <2>4. ~(y < a)
    <3> HIDE DEF R
    <3> QED BY <1>2, <2>3
  <2> QED BY <2>1, <2>4
<1> QED BY <1>3

\* What holds at zero and is handed on holds up to the limit.
LEMMA UpTo ==
    ASSUME NEW lim \in Nat, NEW H \in SUBSET Nat,
           0 \in H, \A b \in 0 .. lim - 1 : b \in H => b + 1 \in H
    PROVE  0 .. lim \subseteq H
<1> DEFINE T == {b \in 0 .. lim : b \notin H}
<1> SUFFICES ASSUME T # {} PROVE FALSE
  OBVIOUS
<1>1. T \in SUBSET Nat
  OBVIOUS
<1>2. PICK a \in T : \A y \in T : a <= y
  <2> HIDE DEF T
  <2> QED BY <1>1, Least
<1>3. a # 0 /\ a \in 0 .. lim /\ a \notin H
  BY <1>2
<1>4. a - 1 \in 0 .. lim - 1 /\ a - 1 + 1 = a /\ ~ (a <= a - 1)
  BY <1>3
<1>5. a - 1 \notin T
  BY <1>2, <1>4
<1>6. a - 1 \in H
  BY <1>4, <1>5
<1> QED BY <1>3, <1>4, <1>6

\* f lists the powers of two up to the limit.
Powers(f, lim) ==
    /\ lim \in Nat /\ f \in [0 .. lim -> Nat] /\ f[0] = 1
    /\ \A b \in 0 .. lim - 1 : f[b + 1] = 2 * f[b]

LEMMA PowAbove ==
    ASSUME NEW f, NEW lim, Powers(f, lim)
    PROVE  \A b \in 0 .. lim : f[b] \in Nat \ {0} /\ f[b] >= b + 1
<1> DEFINE H == {b \in 0 .. lim : f[b] >= b + 1}
<1>1. lim \in Nat /\ H \in SUBSET Nat /\ 0 \in H /\ \A b \in 0 .. lim : f[b] \in Nat
  BY DEF Powers
<1>2. ASSUME NEW b \in 0 .. lim - 1, b \in H PROVE b + 1 \in H
  <2>1. f[b + 1] = 2 * f[b] /\ f[b] \in Nat /\ f[b] >= b + 1 /\ b + 1 \in 0 .. lim
    BY <1>1, <1>2 DEF Powers
  <2> QED BY <2>1
<1> HIDE DEF H
<1>3. 0 .. lim \subseteq H
  BY <1>1, <1>2, UpTo
<1>4. ASSUME NEW b \in 0 .. lim PROVE f[b] \in Nat \ {0} /\ f[b] >= b + 1
  <2>1. f[b] \in Nat /\ f[b] >= b + 1 /\ b >= 0 /\ b \in Int
    BY <1>1, <1>3 DEF H
  <2> QED BY <2>1
<1> QED BY <1>4

\* The bits of a half are those of the number, one up.
LEMMA HalfDiv ==
    ASSUME NEW j \in Nat, NEW g \in Nat \ {0}
    PROVE  (j \div 2) \div g = j \div (2 * g)
<1> DEFINE h == j \div 2
           e == j % 2
           a == h \div g
           c == h % g
<1>1. h \in Nat /\ e \in 0 .. 1 /\ j = h * 2 + e
  BY Euclid
<1> HIDE DEF h, e
<1>2. a \in Nat /\ c \in 0 .. g - 1 /\ h = a * g + c
  BY <1>1, Euclid
<1> HIDE DEF a, c
<1>3. 2 * c + e \in 0 .. (2 * g) - 1 /\ 2 * g \in Nat \ {0}
  BY <1>1, <1>2
<1>4. j = a * (2 * g) + (2 * c + e)
  <2>1. PICK ag \in Nat : ag = a * g /\ a * (2 * g) = 2 * ag
    <3>1. a * g \in Nat /\ a * (2 * g) = 2 * (a * g)
      BY <1>2
    <3> QED BY <3>1
  <2> QED BY <1>1, <1>2, <2>1
<1>5. (a * (2 * g) + (2 * c + e)) \div (2 * g) = a
  <2>1. PICK d \in 0 .. (2 * g) - 1 : d = 2 * c + e
    BY <1>3
  <2>2. PICK b \in Nat \ {0} : b = 2 * g
    BY <1>3
  <2>3. (a * b + d) \div b = a
    BY <1>2, <2>1, <2>2, Digit
  <2> QED BY <2>1, <2>2, <2>3
<1> QED BY <1>4, <1>5 DEF a, h

\* Every set of positions is that of the one bits of a number.
LEMMA BitsExist ==
    ASSUME NEW f, NEW lim, Powers(f, lim), NEW m \in 0 .. lim, NEW B \in SUBSET Nat
    PROVE  \E y \in Nat : y < f[m] /\ \A b \in 0 .. m - 1 : (y \div f[b]) % 2 = 1 <=> b \in B
<1> DEFINE Has(y, S, w) == y < f[w] /\ \A b \in 0 .. w - 1 : (y \div f[b]) % 2 = 1 <=> b \in S
           H == {w \in 0 .. lim : \A S \in SUBSET Nat : \E y \in Nat : Has(y, S, w)}
<1>1. /\ lim \in Nat /\ f[0] = 1 /\ \A b \in 0 .. lim - 1 : f[b + 1] = 2 * f[b]
  BY DEF Powers
<1>2. \A b \in 0 .. lim : f[b] \in Nat \ {0}
  BY PowAbove
<1>3. H \in SUBSET Nat /\ 0 \in H
  <2>1. ASSUME NEW S \in SUBSET Nat PROVE Has(0, S, 0)
    BY <1>1
  <2> HIDE DEF Has
  <2> QED BY <1>1, <2>1
<1>4. ASSUME NEW w \in 0 .. lim - 1, w \in H PROVE w + 1 \in H
  <2>1. w + 1 \in 0 .. lim
    BY <1>1
  <2> SUFFICES ASSUME NEW S \in SUBSET Nat PROVE \E y \in Nat : Has(y, S, w + 1)
    <3> HIDE DEF Has
    <3> QED BY <2>1
  <2> DEFINE Lower == {b \in Nat : b + 1 \in S}
             e == IF 0 \in S THEN 1 ELSE 0
  <2>2. PICK z \in Nat : Has(z, Lower, w)
    <3>1. Lower \in SUBSET Nat
      OBVIOUS
    <3> HIDE DEF Has, Lower
    <3> QED BY <1>4, <3>1
  <2>3. f[w] \in Nat \ {0} /\ f[w + 1] = 2 * f[w] /\ z < f[w]
    BY <1>1, <1>2, <2>2
  <2>4. e \in 0 .. 1 /\ (e = 1 <=> 0 \in S)
    OBVIOUS
  <2> HIDE DEF e
  <2>5. PICK y \in Nat : y = 2 * z + e
    BY <2>4
  <2>6. y \div 2 = z /\ y % 2 = e /\ y < f[w + 1]
    BY <2>3, <2>4, <2>5
  <2>7. ASSUME NEW b \in 0 .. (w + 1) - 1 PROVE (y \div f[b]) % 2 = 1 <=> b \in S
    <3>1. CASE b = 0
      <4>1. y \div 1 = y
        OBVIOUS
      <4> QED BY <1>1, <2>4, <2>6, <3>1, <4>1
    <3>2. CASE b # 0
      <4>1. PICK c \in 0 .. w - 1 : b = c + 1
        <5>1. b - 1 \in 0 .. w - 1 /\ b = b - 1 + 1
          BY <3>2
        <5> QED BY <5>1
      <4>2. c \in Nat /\ c \in 0 .. lim - 1 /\ c \in 0 .. lim
        BY <1>1
      <4>3. f[c] \in Nat \ {0} /\ f[b] = 2 * f[c]
        BY <1>1, <1>2, <4>1, <4>2
      <4>4. z \div f[c] = y \div f[b]
        BY <2>6, <4>3, HalfDiv
      <4>5. (z \div f[c]) % 2 = 1 <=> c \in Lower
        BY <2>2
      <4>6. c \in Lower <=> b \in S
        BY <4>1, <4>2
      <4> QED BY <4>4, <4>5, <4>6
    <3> QED BY <3>1, <3>2
  <2> QED BY <2>6, <2>7
<1> HIDE DEF H
<1>5. m \in H
  BY <1>1, <1>3, <1>4, UpTo
<1>6. \A S \in SUBSET Nat : \E y \in Nat : Has(y, S, m)
  BY <1>5 DEF H
<1> QED BY <1>6
-----------------------------------------------------------------------------
(* Packing.                                                                *)

\* The size of a byte.
LEMMA ByteSize == Half \in Nat \ {0} /\ Byte \in Nat \ {0} /\ Byte = Half * Half
<1>1. Half \in Nat \ {0}
  BY KemeleonAssumption
<1>2. Half * Half \in Nat
  BY <1>1
<1>3. Half * Half # 0
  BY <1>1
<1> QED
  BY <1>1, <1>2, <1>3 DEF Byte

\* Splitting a number below a product.
LEMMA Split ==
    ASSUME NEW a \in Nat, NEW b \in Nat \ {0}, NEW c \in Nat, a < c * b
    PROVE  /\ a % b \in 0 .. b - 1
           /\ a \div b \in 0 .. c - 1
           /\ a = (a \div b) * b + (a % b)
           /\ (a % b) + (a \div b) * b = a
<1>1. a \div b \in Nat /\ a % b \in 0 .. b - 1 /\ a = (a \div b) * b + (a % b)
  BY Euclid
<1>2. a \div b < c
  BY QuotientBelow
<1> DEFINE p == a \div b
           r == a % b
<1> HIDE DEF p, r
<1>3. p \in Nat /\ r \in 0 .. b - 1 /\ a = p * b + r /\ p < c
  BY <1>1, <1>2 DEF p, r
<1>4. p \in 0 .. c - 1 /\ r + p * b = a
  BY <1>3
<1> QED
  BY <1>1, <1>4 DEF p, r

\* Putting two parts together and taking them apart.
LEMMA Join ==
    ASSUME NEW lo, NEW hi \in Nat, NEW b \in Nat \ {0}, lo \in 0 .. b - 1
    PROVE  (lo + hi * b) % b = lo /\ (lo + hi * b) \div b = hi
<1>1. (hi * b + lo) \div b = hi /\ (hi * b + lo) % b = lo
  BY Digit
<1>2. lo + hi * b = hi * b + lo
  OBVIOUS
<1> QED
  BY <1>1, <1>2

\* Where the bytes and the coefficients of a pair are.
LEMMA Places ==
    ASSUME NEW m \in Modes
    PROVE  /\ vecSize(m) \in Nat
           /\ \A j \in KeyByte(m) :
                /\ Pair(j) \in Coef(m) /\ Pair(j) + 1 \in Coef(m)
                /\ Pair(j) % 2 = 1 /\ (Pair(j) + 1) % 2 = 0
                /\ First(Pair(j)) = First(Pair(j) + 1)
                /\ j % 3 = 1 => j = First(Pair(j))
                /\ j % 3 = 2 => j = First(Pair(j)) + 1
                /\ j % 3 = 0 => j = First(Pair(j)) + 2
                /\ j % 3 \in {0, 1, 2}
           /\ \A c \in Coef(m) :
                /\ First(c) \in KeyByte(m) /\ First(c) + 1 \in KeyByte(m) /\ First(c) + 2 \in KeyByte(m)
                /\ First(c) % 3 = 1 /\ (First(c) + 1) % 3 = 2 /\ (First(c) + 2) % 3 = 0
                /\ Pair(First(c)) = Pair(First(c) + 1) /\ Pair(First(c)) = Pair(First(c) + 2)
                /\ c % 2 = 1 => c = Pair(First(c))
                /\ c % 2 = 0 => c = Pair(First(c)) + 1
                /\ c % 2 \in {0, 1}
<1>1. vecSize(m) \in Nat /\ vecSize(m) % 2 = 0
  BY KemeleonAssumption
<1>2. PICK h \in Nat : vecSize(m) = 2 * h /\ vecSize(m) \div 2 = h
  BY <1>1
<1>3. Coef(m) = 1 .. 2 * h /\ KeyByte(m) = 1 .. 3 * h
  BY <1>2 DEF Coef, KeyByte
<1>4. ASSUME NEW j \in 1 .. 3 * h
      PROVE  /\ Pair(j) \in Coef(m) /\ Pair(j) + 1 \in Coef(m)
             /\ Pair(j) % 2 = 1 /\ (Pair(j) + 1) % 2 = 0
             /\ First(Pair(j)) = First(Pair(j) + 1)
             /\ j % 3 = 1 => j = First(Pair(j))
             /\ j % 3 = 2 => j = First(Pair(j)) + 1
             /\ j % 3 = 0 => j = First(Pair(j)) + 2
             /\ j % 3 \in {0, 1, 2}
  <2>1. PICK g \in 0 .. h - 1 : j \in {3 * g + 1, 3 * g + 2, 3 * g + 3}
    <3> DEFINE d == (j - 1) \div 3
    <3>1. d \in 0 .. h - 1 /\ j \in {3 * d + 1, 3 * d + 2, 3 * d + 3}
      BY <1>2
    <3> QED
      BY <3>1
  <2>2. Pair(j) = 2 * g + 1
    BY <2>1 DEF Pair
  <2>3. First(2 * g + 1) = 3 * g + 1 /\ First(2 * g + 2) = 3 * g + 1
    BY <2>1 DEF First
  <2> QED
    BY <1>2, <1>3, <2>1, <2>2, <2>3
<1>5. ASSUME NEW c \in 1 .. 2 * h
      PROVE  /\ First(c) \in KeyByte(m) /\ First(c) + 1 \in KeyByte(m) /\ First(c) + 2 \in KeyByte(m)
             /\ First(c) % 3 = 1 /\ (First(c) + 1) % 3 = 2 /\ (First(c) + 2) % 3 = 0
             /\ Pair(First(c)) = Pair(First(c) + 1) /\ Pair(First(c)) = Pair(First(c) + 2)
             /\ c % 2 = 1 => c = Pair(First(c))
             /\ c % 2 = 0 => c = Pair(First(c)) + 1
             /\ c % 2 \in {0, 1}
  <2>1. PICK g \in 0 .. h - 1 : c \in {2 * g + 1, 2 * g + 2}
    <3> DEFINE d == (c - 1) \div 2
    <3>1. d \in 0 .. h - 1 /\ c \in {2 * d + 1, 2 * d + 2}
      BY <1>2
    <3> QED
      BY <3>1
  <2>2. First(c) = 3 * g + 1
    BY <2>1 DEF First
  <2>3. Pair(3 * g + 1) = 2 * g + 1 /\ Pair(3 * g + 2) = 2 * g + 1 /\ Pair(3 * g + 3) = 2 * g + 1
    BY <2>1 DEF Pair
  <2> QED
    BY <1>2, <1>3, <2>1, <2>2, <2>3
<1> QED
  BY <1>1, <1>3, <1>4, <1>5

\* Unpacking and packing again gives the same bytes.
LEMMA PackUnpack ==
    ASSUME NEW m \in Modes, NEW b \in [KeyByte(m) -> 0 .. Byte - 1]
    PROVE  packPolyBytes(m, unpackPolyBytes(m, b)) = b
<1> DEFINE t == unpackPolyBytes(m, b)
<1>1. ASSUME NEW j \in KeyByte(m) PROVE packPolyBytes(m, t)[j] = b[j]
  <2> DEFINE c == Pair(j)
             f == First(c)
             b0 == b[f]
             b1 == b[f + 1]
             b2 == b[f + 2]
  <2>1. c \in Coef(m) /\ c + 1 \in Coef(m) /\ c % 2 = 1 /\ (c + 1) % 2 = 0 /\ First(c + 1) = f
    BY Places
  <2>2. f \in KeyByte(m) /\ f + 1 \in KeyByte(m) /\ f + 2 \in KeyByte(m)
    BY <2>1, Places
  <2>3. b0 \in 0 .. Byte - 1 /\ b1 \in 0 .. Byte - 1 /\ b2 \in 0 .. Byte - 1
    BY <2>2
  <2>4. t[c] = b0 + (b1 % Half) * Byte /\ t[c + 1] = (b1 \div Half) + b2 * Half
    BY <2>1 DEF unpackPolyBytes
  <2>5. /\ packPolyBytes(m, t)[j] = IF j % 3 = 1 THEN t[c] % Byte
                                    ELSE IF j % 3 = 2 THEN (t[c] \div Byte) + (t[c + 1] % Half) * Half
                                    ELSE t[c + 1] \div Half
    BY DEF packPolyBytes
  <2> HIDE DEF b0, b1, b2, c, t
  <2>6. /\ b1 % Half \in 0 .. Half - 1 /\ b1 \div Half \in 0 .. Half - 1
        /\ (b1 % Half) + (b1 \div Half) * Half = b1
    <3>1. b1 < Half * Half /\ b1 \in Nat /\ Half \in Nat \ {0} /\ Half \in Nat
      BY <2>3, ByteSize
    <3> QED
      BY <3>1, Split
  <2> DEFINE lo == b1 % Half
             hi == b1 \div Half
  <2> HIDE DEF lo, hi
  <2>7. /\ t[c] % Byte = b0 /\ t[c] \div Byte = lo
    <3>1. lo \in Nat /\ Byte \in Nat \ {0} /\ b0 \in 0 .. Byte - 1
      BY <2>3, <2>6, ByteSize DEF lo
    <3>2. (b0 + lo * Byte) % Byte = b0 /\ (b0 + lo * Byte) \div Byte = lo
      BY <3>1, Join
    <3> QED
      BY <2>4, <3>2 DEF lo
  <2>8. /\ t[c + 1] % Half = hi /\ t[c + 1] \div Half = b2
    <3>1. hi \in 0 .. Half - 1 /\ b2 \in Nat /\ Half \in Nat \ {0}
      BY <2>3, <2>6, ByteSize DEF hi
    <3>2. (hi + b2 * Half) % Half = hi /\ (hi + b2 * Half) \div Half = b2
      BY <3>1, Join
    <3> QED
      BY <2>4, <3>2 DEF hi
  <2>9. lo + hi * Half = b1
    BY <2>6 DEF lo, hi
  <2>10. /\ j % 3 = 1 => b[j] = b0
         /\ j % 3 = 2 => b[j] = b1
         /\ j % 3 \notin {1, 2} => b[j] = b2
    BY Places DEF b0, b1, b2, c
  <2> QED
    BY <2>5, <2>7, <2>8, <2>9, <2>10
<1> HIDE DEF t
<1>2. packPolyBytes(m, t) = [j \in KeyByte(m) |-> packPolyBytes(m, t)[j]]
  BY DEF packPolyBytes
<1> QED
  BY <1>1, <1>2 DEF t

\* Packed coefficients are bytes, and unpacking gives the coefficients back.
LEMMA UnpackPack ==
    ASSUME NEW m \in Modes, NEW t \in [Coef(m) -> 0 .. Q - 1]
    PROVE  /\ \A j \in KeyByte(m) : packPolyBytes(m, t)[j] \in 0 .. Byte - 1
           /\ unpackPolyBytes(m, packPolyBytes(m, t)) = t
<1> DEFINE b == packPolyBytes(m, t)
<1>1. ASSUME NEW a \in 0 .. Q - 1
      PROVE  /\ a \in Nat
             /\ a % Byte \in 0 .. Byte - 1 /\ a \div Byte \in 0 .. Half - 1
             /\ (a % Byte) + (a \div Byte) * Byte = a
             /\ a % Half \in 0 .. Half - 1 /\ a \div Half \in 0 .. Byte - 1
             /\ (a % Half) + (a \div Half) * Half = a
  <2>1. a \in Nat /\ a < Byte * Half
    BY ByteSize, PowerAssumption, KemeleonAssumption
  <2>2. Byte * Half = Half * Byte
    BY ByteSize
  <2>3. Byte \in Nat /\ Half \in Nat /\ Byte \in Nat \ {0} /\ Half \in Nat \ {0}
    BY ByteSize
  <2>4. a % Byte \in 0 .. Byte - 1 /\ a \div Byte \in 0 .. Half - 1
        /\ (a % Byte) + (a \div Byte) * Byte = a
    BY <2>1, <2>2, <2>3, Split
  <2>5. a % Half \in 0 .. Half - 1 /\ a \div Half \in 0 .. Byte - 1
        /\ (a % Half) + (a \div Half) * Half = a
    BY <2>1, <2>3, Split
  <2> QED
    BY <2>1, <2>4, <2>5
<1>2. ASSUME NEW u \in 0 .. Half - 1, NEW v \in 0 .. Half - 1
      PROVE  /\ u + v * Half \in 0 .. Byte - 1
             /\ (u + v * Half) % Half = u /\ (u + v * Half) \div Half = v
  <2>1. u + v * Half = v * Half + u
    BY ByteSize
  <2>2. v * Half + Half <= Half * Half
    <3>1. PICK e \in Nat : Half = v + 1 + e
      <4>1. Half - v - 1 \in Nat /\ Half = v + 1 + (Half - v - 1)
        BY ByteSize
      <4> QED
        BY <4>1
    <3>2. Half * Half = (v + 1 + e) * Half
      BY <3>1
    <3>3. (v + 1 + e) * Half = v * Half + Half + e * Half /\ e * Half \in Nat
      BY <3>1, ByteSize
    <3>4. v * Half \in Nat
      BY ByteSize
    <3> QED
      BY <3>2, <3>3, <3>4, ByteSize
  <2>3. v * Half \in Nat
    BY ByteSize
  <2> QED
    BY <2>1, <2>2, <2>3, ByteSize, Digit
<1>3. ASSUME NEW j \in KeyByte(m) PROVE b[j] \in 0 .. Byte - 1
  <2> DEFINE a0 == t[Pair(j)]
             a1 == t[Pair(j) + 1]
  <2>1. a0 \in 0 .. Q - 1 /\ a1 \in 0 .. Q - 1
    BY Places
  <2>2. b[j] = IF j % 3 = 1 THEN a0 % Byte
               ELSE IF j % 3 = 2 THEN (a0 \div Byte) + (a1 % Half) * Half ELSE a1 \div Half
    BY DEF packPolyBytes
  <2> HIDE DEF a0, a1, b
  <2> QED
    BY <2>1, <2>2, <1>1, <1>2
<1>4. ASSUME NEW c \in Coef(m) PROVE unpackPolyBytes(m, b)[c] = t[c]
  <2> DEFINE f == First(c)
             a0 == t[Pair(f)]
             a1 == t[Pair(f) + 1]
  <2>1. f \in KeyByte(m) /\ f + 1 \in KeyByte(m) /\ f + 2 \in KeyByte(m)
    BY Places
  <2>2. a0 \in 0 .. Q - 1 /\ a1 \in 0 .. Q - 1
    BY <2>1, Places
  <2>3. /\ b[f] = a0 % Byte
        /\ b[f + 1] = (a0 \div Byte) + (a1 % Half) * Half
        /\ b[f + 2] = a1 \div Half
    BY <2>1, Places DEF packPolyBytes
  <2>4. unpackPolyBytes(m, b)[c] = IF c % 2 = 1 THEN b[f] + (b[f + 1] % Half) * Byte
                                   ELSE (b[f + 1] \div Half) + b[f + 2] * Half
    BY DEF unpackPolyBytes
  <2>5. /\ b[f + 1] % Half = a0 \div Byte
        /\ b[f + 1] \div Half = a1 % Half
    <3> HIDE DEF a0, a1, b, f
    <3> QED
      BY <2>2, <2>3, <1>1, <1>2
  <2>6. /\ (a0 % Byte) + (a0 \div Byte) * Byte = a0
        /\ (a1 % Half) + (a1 \div Half) * Half = a1
    BY <2>2, <1>1
  <2>7. /\ c % 2 = 1 => t[c] = a0
        /\ c % 2 # 1 => t[c] = a1
    BY Places
  <2> HIDE DEF a0, a1, b, f
  <2> QED
    BY <2>3, <2>4, <2>5, <2>6, <2>7
<1> HIDE DEF b
<1>5. unpackPolyBytes(m, b) = [c \in Coef(m) |-> unpackPolyBytes(m, b)[c]]
  BY DEF unpackPolyBytes
<1>6. unpackPolyBytes(m, b) = t
  BY <1>4, <1>5
<1> QED
  BY <1>3, <1>6 DEF b

-----------------------------------------------------------------------------
(* Compressed coefficients.                                                *)

PowersOf2(lim) == [b \in 0 .. lim |-> 2 ^ b]

LEMMA ModePowers ==
    ASSUME NEW m \in Modes, NEW f, f = PowersOf2(m.du)
    PROVE  /\ Powers(f, m.du) /\ m.du \in Nat \ {0} /\ f[m.du] = 2 ^ m.du
           /\ 2 ^ m.du \in Nat \ {0} /\ 2 ^ m.du <= Q
           /\ \A b \in 0 .. m.du : f[b] = 2 ^ b
<1>1. /\ m.du \in Nat \ {0} /\ 2 ^ m.du <= Q /\ 2 ^ 0 = 1
      /\ \A b \in 0 .. m.du : 2 ^ b \in Nat /\ 2 ^ (b + 1) = 2 * 2 ^ b
  BY PowerAssumption
<1>2. \A b \in 0 .. m.du : f[b] = 2 ^ b
  BY DEF PowersOf2
<1>3. f \in [0 .. m.du -> Nat]
  BY <1>1 DEF PowersOf2
<1>4. 0 \in 0 .. m.du /\ m.du \in 0 .. m.du
  BY <1>1
<1>5. ASSUME NEW b \in 0 .. m.du - 1 PROVE f[b + 1] = 2 * f[b]
  <2>1. b \in 0 .. m.du /\ b + 1 \in 0 .. m.du
    BY <1>1
  <2>2. f[b] = 2 ^ b /\ f[b + 1] = 2 ^ (b + 1) /\ 2 ^ (b + 1) = 2 * 2 ^ b
    BY <1>1, <1>2, <2>1
  <2> QED BY <2>2
<1>6. f[0] = 1
  BY <1>1, <1>2, <1>4
<1>7. Powers(f, m.du)
  BY <1>1, <1>3, <1>5, <1>6 DEF Powers
<1>8. f[m.du] = 2 ^ m.du /\ f[m.du] \in Nat \ {0}
  BY <1>2, <1>4, <1>7, PowAbove
<1> QED BY <1>1, <1>2, <1>7, <1>8

\* What unpackBits gives: the coefficient with the bits it is chosen for.
LEMMA UnpackedBits ==
    ASSUME NEW m \in Modes, NEW src, NEW c \in Coef(m), NEW y, y = unpackBits(m, src)[c]
    PROVE  /\ y \in 0 .. 2 ^ m.du - 1 /\ y \in Nat
           /\ \A j \in 0 .. m.du - 1 : (y \div 2 ^ j) % 2 = 1 <=> (c - 1) * m.du + j \in src
<1> DEFINE f == PowersOf2(m.du)
           B == BitsOf(c, m.du, src)
           Fits(u) == \A j \in 0 .. m.du - 1 : (u \div 2 ^ j) % 2 = 1 <=> j \in B
<1>1. /\ Powers(f, m.du) /\ m.du \in Nat \ {0} /\ f[m.du] = 2 ^ m.du
      /\ 2 ^ m.du \in Nat \ {0} /\ \A b \in 0 .. m.du : f[b] = 2 ^ b
  BY ModePowers
<1>2. B \in SUBSET Nat /\ m.du \in 0 .. m.du
  BY <1>1 DEF BitsOf
<1> HIDE DEF f, B
<1>3. PICK u \in Nat : u < f[m.du] /\ \A b \in 0 .. m.du - 1 : (u \div f[b]) % 2 = 1 <=> b \in B
  BY <1>1, <1>2, BitsExist
<1>4. u \in 0 .. 2 ^ m.du - 1
  BY <1>1, <1>3
<1>5. Fits(u)
  <2> SUFFICES ASSUME NEW j \in 0 .. m.du - 1 PROVE (u \div 2 ^ j) % 2 = 1 <=> j \in B
    OBVIOUS
  <2>1. j \in 0 .. m.du
    BY <1>1
  <2>2. f[j] = 2 ^ j
    BY <1>1, <2>1
  <2>3. (u \div f[j]) % 2 = 1 <=> j \in B
    BY <1>3
  <2> QED BY <2>2, <2>3, Zenon
<1>6. y = CHOOSE v \in 0 .. 2 ^ m.du - 1 : Fits(v)
  BY DEF unpackBits, B
<1>7. y \in 0 .. 2 ^ m.du - 1 /\ Fits(y)
  <2> HIDE DEF Fits
  <2> QED BY <1>4, <1>5, <1>6
<1>8. \A j \in 0 .. m.du - 1 : j \in B <=> (c - 1) * m.du + j \in src
  BY DEF B, BitsOf
<1> QED BY <1>1, <1>7, <1>8

\* Packing puts the bits back where they came from.
LEMMA PackedBits ==
    ASSUME NEW m \in Modes, NEW src \in SUBSET (0 .. vecSize(m) * m.du - 1)
    PROVE  packBits(m, unpackBits(m, src)) = src
<1>1. m.du \in Nat \ {0} /\ vecSize(m) \in Nat
  BY ModePowers, KemeleonAssumption
<1>2. ASSUME NEW p \in 0 .. vecSize(m) * m.du - 1
      PROVE  (unpackBits(m, src)[(p \div m.du) + 1] \div 2 ^ (p % m.du)) % 2 = 1 <=> p \in src
  <2> DEFINE a == p \div m.du
             j == p % m.du
  <2>1. p \in Nat /\ p < vecSize(m) * m.du
    BY <1>1
  <2>2. a \in 0 .. vecSize(m) - 1 /\ j \in 0 .. m.du - 1 /\ p = a * m.du + j
    BY <1>1, <2>1, Split
  <2> HIDE DEF a, j
  <2>3. a + 1 \in Coef(m) /\ a + 1 - 1 = a
    BY <1>1, <2>2 DEF Coef
  <2>4. (unpackBits(m, src)[a + 1] \div 2 ^ j) % 2 = 1 <=> (a + 1 - 1) * m.du + j \in src
    BY <2>2, <2>3, UnpackedBits
  <2> QED BY <2>2, <2>3, <2>4 DEF a, j
<1> QED BY <1>2 DEF packBits

\* Every compressed value has a preimage: the least number whose product
\* with 2^du, q/2 added, is not below that many times q.
LEMMA Preimage ==
    ASSUME NEW m \in Modes, NEW v \in 0 .. 2 ^ m.du - 1
    PROVE  \E y \in 0 .. Q - 1 : compressValue(y, m.du) = v
<1> DEFINE S == 2 ^ m.du
           h == Q \div 2
<1>1. S \in Nat \ {0} /\ S <= Q /\ v \in 0 .. S - 1 /\ Q \in Nat \ {0, 1}
  BY ModePowers, KemeleonAssumption
<1>2. h \in Nat /\ h < Q
  BY <1>1
<1>3. \A y : compressValue(y, m.du) = ((y * S + h) \div Q) % S
  BY DEF compressValue
<1> HIDE DEF S, h
<1>4. v % S = v
  <2>1. (0 * S + v) % S = v
    BY <1>1, Digit
  <2> QED BY <1>1, <2>1
<1>5. ASSUME NEW y \in Nat, NEW e \in 0 .. Q - 1, y * S + h = v * Q + e
      PROVE  compressValue(y, m.du) = v
  <2>1. (v * Q + e) \div Q = v
    <3>1. v \in Nat /\ Q \in Nat \ {0}
      BY <1>1
    <3> QED BY <3>1, <1>5, Digit
  <2> QED BY <1>3, <1>4, <1>5, <2>1
<1>6. CASE v = 0
  <2>1. 0 * S + h = 0 * Q + h /\ h \in 0 .. Q - 1 /\ 0 \in 0 .. Q - 1
    BY <1>1, <1>2
  <2> QED BY <1>5, <1>6, <2>1
<1>7. CASE v # 0
  <2>1. PICK vq \in Nat : vq = v * Q /\ vq >= Q /\ vq + Q <= S * Q
    <3>1. PICK e \in Nat : v = 1 + e
      <4>1. v - 1 \in Nat /\ v = 1 + (v - 1)
        BY <1>1, <1>7
      <4> QED BY <4>1
    <3>2. PICK g \in Nat : S = v + 1 + g
      <4>1. S - v - 1 \in Nat /\ S = v + 1 + (S - v - 1)
        BY <1>1
      <4> QED BY <4>1
    <3>3. v * Q \in Nat /\ v * Q = Q + e * Q /\ e * Q \in Nat
      BY <1>1, <3>1
    <3>4. S * Q = v * Q + Q + g * Q /\ g * Q \in Nat
      BY <1>1, <3>2
    <3> QED BY <1>1, <3>3, <3>4
  <2>2. PICK n \in Nat : n = (vq - h) + S - 1
    BY <1>1, <1>2, <2>1
  <2> DEFINE y == n \div S
             e == n % S
  <2>3. y \in Nat /\ e \in 0 .. S - 1 /\ n = y * S + e
    BY <1>1, <2>2, Euclid
  <2> HIDE DEF y, e
  <2>4. PICK ys \in Nat : ys = y * S
    BY <1>1, <2>3
  <2>5. PICK d \in 0 .. Q - 1 : ys + h = vq + d
    <3>1. (S - 1) - e \in 0 .. Q - 1 /\ ys + h = vq + ((S - 1) - e)
      BY <1>1, <1>2, <2>1, <2>2, <2>3, <2>4
    <3> QED BY <3>1
  <2>6. compressValue(y, m.du) = v
    BY <1>5, <2>1, <2>3, <2>4, <2>5
  <2>7. y < Q
    <3> SUFFICES ASSUME ~ (y < Q) PROVE FALSE
      OBVIOUS
    <3>1. PICK g \in Nat : y = Q + g
      <4>1. y - Q \in Nat /\ y = Q + (y - Q)
        BY <1>1, <2>3
      <4> QED BY <4>1
    <3>2. y * S = S * Q + g * S /\ g * S \in Nat
      BY <1>1, <3>1
    <3>3. ys >= S * Q /\ S * Q \in Nat
      BY <1>1, <2>4, <3>2
    <3> QED BY <1>1, <1>2, <2>1, <2>2, <2>3, <2>4, <3>3
  <2> QED BY <1>1, <2>3, <2>6, <2>7
<1> QED BY <1>6, <1>7

-----------------------------------------------------------------------------
(* The inductive invariant: acc is the list of the partial integers of the *)
(* encoding loop, and the decoding loop goes through it backwards.         *)

Unpacked == unpackPolyBytes(mode, raw.t)
Horner(c) == acc[c] = acc[c + 1] * Q + Unpacked[c]

IdleInv ==
    /\ mode \in Modes
    /\ job = "none" => at = "idle"
    /\ at = "idle" => /\ job = "none"
                      /\ vec \in [Coef(mode) -> Nat]
                      /\ acc = [c \in 1 .. vecSize(mode) + 1 |-> 0]
                      /\ table = mode.du

KeyInv ==
    /\ raw.t \in Keys[mode] /\ raw = [t |-> raw.t]
    /\ acc \in [1 .. vecSize(mode) + 1 -> Nat] /\ acc[vecSize(mode) + 1] = 0
    /\ vec \in [Coef(mode) -> Nat]
    /\ at \in {"encode", "coded", "decode", "decoded", "rejected"}
    /\ at = "encode" => /\ vec = Unpacked
                        /\ i \in 0 .. vecSize(mode) /\ x = acc[i + 1]
                        /\ \A c \in i + 1 .. vecSize(mode) : Horner(c)
    /\ at \in {"coded", "decode"} => \A c \in Coef(mode) : Horner(c)
    /\ at = "coded" => acc[1] < Capacity(mode) /\ \E h \in Nat : code.r = h * Capacity(mode) + acc[1]
    /\ at = "decode" => /\ i \in 1 .. vecSize(mode) + 1 /\ x = acc[i]
                        /\ \A c \in 1 .. i - 1 : vec[c] = Unpacked[c]
    /\ at = "decoded" => back = raw

NoiseInv ==
    /\ vec \in [Coef(mode) -> Nat]
    /\ code.r \in Nat
    /\ at \in {"coded", "decode", "decoded"}
    /\ at = "decode" => /\ i \in 1 .. vecSize(mode) + 1
                        /\ x \in Nat /\ x < Q ^ (vecSize(mode) + 1 - i)
                        /\ \A c \in 1 .. i - 1 : vec[c] < Q
    /\ NoiseDecodes

\* The coefficients of the ciphertext, and an integer that has a preimage of
\* one of them as its digit.
Wanted == unpackBits(mode, raw.c1)
DigitFor(c) ==
    \E y \in 0 .. Q - 1 : acc[c] = acc[c + 1] * Q + y /\ compressValue(y, mode.du) = Wanted[c]

CipherInv ==
    /\ raw = [c1 |-> raw.c1, c2 |-> raw.c2] /\ raw.c1 \in SUBSET (0 .. vecSize(mode) * mode.du - 1)
    /\ table = mode.du
    /\ acc \in [1 .. vecSize(mode) + 1 -> Nat] /\ acc[vecSize(mode) + 1] = 0
    /\ vec \in [Coef(mode) -> Nat]
    /\ at \in {"encode", "coded", "decode", "decoded", "rejected"}
    /\ at = "encode" => /\ vec = Wanted
                        /\ i \in 0 .. vecSize(mode) /\ x = acc[i + 1]
                        /\ \A c \in i + 1 .. vecSize(mode) : DigitFor(c)
    /\ at \in {"coded", "decode"} => code.c2 = raw.c2 /\ \A c \in Coef(mode) : DigitFor(c)
    /\ at = "coded" => code.r = acc[1] /\ acc[1] < Capacity(mode)
    /\ at = "decode" => /\ i \in 1 .. vecSize(mode) + 1 /\ x = acc[i]
                        /\ \A c \in 1 .. i - 1 : compressValue(vec[c], mode.du) = Wanted[c]
    /\ at = "decoded" => back = raw

KemInv ==
    /\ IdleInv
    /\ job \in {"none", "key", "cipher", "noise"}
    /\ job = "key" => KeyInv
    /\ job = "cipher" => CipherInv
    /\ job = "noise" => NoiseInv

\* What unpacking a key gives.
LEMMA UnpackedKey ==
    ASSUME NEW m \in Modes, NEW key \in Keys[m]
    PROVE  unpackPolyBytes(m, key) \in [Coef(m) -> 0 .. Q - 1]
<1>1. key \in [KeyByte(m) -> 0 .. Byte - 1]
  BY KemeleonAssumption
<1>2. ASSUME NEW c \in Coef(m) PROVE unpackPolyBytes(m, key)[c] \in 0 .. Q - 1
  <2> DEFINE f == First(c)
  <2>1. f \in KeyByte(m) /\ f + 1 \in KeyByte(m) /\ f + 2 \in KeyByte(m)
    BY Places
  <2>2. key[f] \in Nat /\ key[f + 1] \in Nat /\ key[f + 2] \in Nat
    BY <1>1, <2>1, ByteSize
  <2>3. key[f + 1] \div Half \in Nat /\ key[f + 1] % Half \in Nat
    <3>1. key[f + 1] \in Nat /\ Half \in Nat \ {0}
      BY <2>2, ByteSize
    <3>2. key[f + 1] \div Half \in Nat /\ key[f + 1] % Half \in 0 .. Half - 1
      BY <3>1, Euclid
    <3> QED
      BY <3>1, <3>2
  <2>4. (key[f + 1] % Half) * Byte \in Nat /\ key[f + 2] * Half \in Nat
    BY <2>2, <2>3, ByteSize
  <2>5. unpackPolyBytes(m, key)[c] \in Nat
    BY <2>2, <2>3, <2>4 DEF unpackPolyBytes
  <2>6. unpackPolyBytes(m, key)[c] < Q
    BY KemeleonAssumption
  <2> QED
    BY <2>5, <2>6, KemeleonAssumption
<1>3. unpackPolyBytes(m, key) = [c \in Coef(m) |-> unpackPolyBytes(m, key)[c]]
  BY DEF unpackPolyBytes
<1> QED
  BY <1>2, <1>3

\* The constants of a mode.
LEMMA ModeFacts ==
    ASSUME NEW m \in Modes
    PROVE  /\ vecSize(m) \in Nat /\ Capacity(m) \in Nat \ {0} /\ Spare(m) \in Nat \ {0}
           /\ Coef(m) = 1 .. vecSize(m)
           /\ Q \in Nat \ {0, 1}
           /\ Capacity(m) <= Q ^ vecSize(m)
           /\ Q ^ 0 = 1
           /\ \A j \in 1 .. vecSize(m) : Q ^ (j - 1) \in Nat /\ Q ^ j = Q ^ (j - 1) * Q
<1>1. /\ vecSize(m) \in Nat /\ Capacity(m) \in Nat \ {0} /\ Spare(m) \in Nat \ {0}
      /\ Q \in Nat \ {0, 1} /\ Q ^ 0 = 1
      /\ \A j \in 1 .. vecSize(m) : Q ^ (j - 1) \in Nat /\ Q ^ j = Q ^ (j - 1) * Q
  BY KemeleonAssumption, PowerAssumption DEF Coef
<1>2. Capacity(m) <= Q ^ vecSize(m)
  <2> DEFINE top == Q ^ vecSize(m) + 1
             b == bitLen(top)
  <2>1. Q ^ vecSize(m) \in Nat
    <3>1. CASE vecSize(m) = 0
      BY <1>1, <3>1
    <3>2. CASE vecSize(m) # 0
      <4>1. vecSize(m) \in 1 .. vecSize(m)
        BY <1>1, <3>2
      <4>2. Q ^ (vecSize(m) - 1) \in Nat /\ Q ^ vecSize(m) = Q ^ (vecSize(m) - 1) * Q
        BY <1>1, <4>1
      <4> HIDE DEF top
      <4>3. ASSUME NEW u \in Nat, NEW v \in Nat PROVE u * v \in Nat
        BY <4>3
      <4> QED
        BY <1>1, <4>2, <4>3
    <3> QED
      BY <3>1, <3>2
  <2>2. b \in 0 .. top /\ top < 2 ^ b /\ (b > 0 => 2 ^ (b - 1) <= top)
    BY PowerAssumption DEF bitLen
  <2>3. 2 ^ (b - 1) # top /\ 2 ^ 0 = 1
    BY PowerAssumption
  <2>4. Capacity(m) = 2 ^ (b - 1)
    BY DEF Capacity, vecBits
  <2>5. top \in Nat /\ top >= 1 /\ top - 1 = Q ^ vecSize(m)
    BY <2>1
  <2> HIDE DEF top, b
  <2>6. b # 0
    <3>1. ASSUME b = 0 PROVE 2 ^ b = 1
      BY <2>3, <3>1, Zenon
    <3>2. top < 2 ^ b
      BY <2>2
    <3> QED
      BY <2>5, <3>1, <3>2
  <2>7. b > 0
    BY <2>2, <2>5, <2>6
  <2> QED
    BY <1>1, <2>2, <2>3, <2>4, <2>5, <2>7
<1> QED
  BY <1>1, <1>2 DEF Coef

\* The invariant holds at the start.
LEMMA KemInit == Init => KemInv
BY KemeleonAssumption, ModeFacts DEF Init, KemInv, IdleInv, Coef

\* Calls that start an operation.
LEMMA KemStart ==
    ASSUME KemInv, at = "idle", Start
    PROVE  KemInv'
<1> mode \in Modes /\ job = "none" /\ vec \in [Coef(mode) -> Nat] /\ table = mode.du
    /\ acc = [c \in 1 .. vecSize(mode) + 1 |-> 0]
  BY DEF KemInv, IdleInv
<1>1. ASSUME NEW m \in Modes, setMode(m) PROVE KemInv'
  BY <1>1 DEF setMode, KemInv, IdleInv
<1>2. ASSUME NEW key \in Keys[mode], encodeKey(key) PROVE KemInv'
  <2>1. unpackPolyBytes(mode, key) \in [Coef(mode) -> 0 .. Q - 1]
    BY UnpackedKey
  <2>2. vecSize(mode) \in Nat /\ Q \in Nat
    BY ModeFacts
  <2>3. /\ raw' = [t |-> key] /\ vec' = unpackPolyBytes(mode, key) /\ x' = 0 /\ i' = vecSize(mode)
        /\ job' = "key" /\ at' = "encode" /\ mode' = mode /\ acc' = acc
    BY <1>2 DEF encodeKey, BeginEncode
  <2>4. KeyInv'
    BY <2>1, <2>2, <2>3 DEF KeyInv, Unpacked, Horner
  <2> QED
    BY <2>3, <2>4 DEF KemInv, IdleInv
<1>3. ASSUME NEW c1 \in SUBSET (0 .. vecSize(mode) * mode.du - 1), NEW c2, encodeCipher(c1, c2)
      PROVE  KemInv'
  <2>1. vecSize(mode) \in Nat /\ Coef(mode) = 1 .. vecSize(mode)
    BY ModeFacts
  <2>2. /\ raw' = [c1 |-> c1, c2 |-> c2] /\ vec' = unpackBits(mode, c1) /\ x' = 0 /\ i' = vecSize(mode)
        /\ job' = "cipher" /\ at' = "encode" /\ mode' = mode /\ acc' = acc /\ table' = table
    BY <1>3 DEF encodeCipher, BeginEncode
  <2>3. unpackBits(mode, c1) \in [Coef(mode) -> Nat]
    <3>1. \A c \in Coef(mode) : unpackBits(mode, c1)[c] \in Nat
      BY UnpackedBits
    <3> DEFINE g(c) == CHOOSE y \in 0 .. 2 ^ mode.du - 1 :
                          \A j \in 0 .. mode.du - 1 : (y \div 2 ^ j) % 2 = 1 <=> j \in BitsOf(c, mode.du, c1)
    <3>2. unpackBits(mode, c1) = [c \in Coef(mode) |-> g(c)]
      BY DEF unpackBits
    <3> HIDE DEF g
    <3> QED BY <3>1, <3>2
  <2>4. CipherInv'
    BY <2>1, <2>2, <2>3 DEF CipherInv, Wanted
  <2> QED
    BY <2>2, <2>4 DEF KemInv, IdleInv
<1>4. ASSUME NEW r \in 0 .. Capacity(mode) * Spare(mode) - 1, NoiseRow(r) PROVE KemInv'
  <2>1. r \in Nat
    <3>1. Capacity(mode) \in Nat /\ Spare(mode) \in Nat
      BY ModeFacts
    <3>2. Capacity(mode) * Spare(mode) \in Nat
      BY <3>1
    <3> QED
      BY <3>2
  <2>2. NoiseInv'
    BY <1>4, <2>1 DEF NoiseRow, NoiseInv, NoiseDecodes
  <2> QED
    BY <1>4, <2>2 DEF NoiseRow, KemInv, IdleInv
<1> QED
  BY <1>1, <1>2, <1>3, <1>4 DEF Start

\* The encoding loop of a ciphertext: it always finds a preimage.
LEMMA KemEncodeCipher ==
    ASSUME KemInv, job = "cipher", EncodeDigit \/ Overflow \/ FinishKey \/ RejectZero \/ FinishCipher
    PROVE  CipherInv'
<1> mode \in Modes
  BY DEF KemInv, IdleInv
<1>a. vecSize(mode) \in Nat /\ Q \in Nat \ {0} /\ Coef(mode) = 1 .. vecSize(mode)
  BY ModeFacts
<1>b. CipherInv /\ at = "encode" /\ UNCHANGED <<mode, table, raw, vec>>
  BY DEF KemInv, EncodeDigit, Overflow, FinishKey, RejectZero, FinishCipher
<1>c. /\ vec = Wanted /\ i \in 0 .. vecSize(mode) /\ x = acc[i + 1] /\ table = mode.du
      /\ \A c \in i + 1 .. vecSize(mode) : DigitFor(c)
      /\ acc \in [1 .. vecSize(mode) + 1 -> Nat] /\ acc[vecSize(mode) + 1] = 0
  BY <1>b DEF CipherInv
<1>d. Wanted' = Wanted
  BY <1>b DEF Wanted
<1>1. CASE EncodeDigit
  <2>1. i \in Coef(mode) /\ i \in 1 .. vecSize(mode)
    BY <1>1, <1>a, <1>c DEF EncodeDigit
  <2>2. Digits(i) = Preimages(mode.du, vec[i]) /\ vec[i] = unpackBits(mode, raw.c1)[i]
    BY <1>c DEF Digits, Wanted
  <2>3. vec[i] \in 0 .. 2 ^ mode.du - 1
    BY <2>1, <2>2, UnpackedBits
  <2>4. Digits(i) # {}
    BY <2>2, <2>3, Preimage DEF Preimages
  <2>5. PICK y \in Digits(i) : x' = x * Q + y /\ acc' = [acc EXCEPT ![i] = x * Q + y]
    BY <1>1, <2>4 DEF EncodeDigit
  <2>6. i' = i - 1 /\ at' = at
    BY <1>1, <2>4 DEF EncodeDigit
  <2>7. y \in 0 .. Q - 1 /\ compressValue(y, mode.du) = Wanted[i]
    BY <2>2, <2>5, <1>c DEF Preimages
  <2>8. PICK v \in Nat : v = x * Q + y /\ v = acc[i + 1] * Q + y
    <3>1. x \in Nat /\ y \in Nat
      BY <1>a, <1>c, <2>1, <2>7
    <3>2. x * Q + y \in Nat
      BY <1>a, <3>1
    <3> QED
      BY <1>c, <3>2
  <2>9. /\ acc' \in [1 .. vecSize(mode) + 1 -> Nat] /\ acc'[vecSize(mode) + 1] = 0
        /\ acc'[i] = v
        /\ \A c \in i + 1 .. vecSize(mode) + 1 : acc'[c] = acc[c]
    BY <1>a, <1>c, <2>1, <2>5, <2>8
  <2>10. ASSUME NEW c \in i .. vecSize(mode) PROVE DigitFor(c)'
    <3>1. CASE c = i
      <4>1. acc'[i] = acc'[i + 1] * Q + y
        BY <1>a, <2>1, <2>8, <2>9
      <4> QED
        BY <1>b, <1>d, <2>7, <3>1, <4>1 DEF DigitFor
    <3>2. CASE c # i
      <4>1. c \in i + 1 .. vecSize(mode)
        BY <2>1, <3>2
      <4>2. PICK u \in 0 .. Q - 1 : acc[c] = acc[c + 1] * Q + u /\ compressValue(u, mode.du) = Wanted[c]
        BY <1>c, <4>1 DEF DigitFor
      <4>3. acc'[c] = acc[c] /\ acc'[c + 1] = acc[c + 1]
        BY <1>a, <2>1, <2>9, <4>1
      <4>4. acc'[c] = acc'[c + 1] * Q + u
        BY <4>2, <4>3
      <4> QED
        BY <1>b, <1>d, <4>2, <4>4 DEF DigitFor
    <3> QED
      BY <3>1, <3>2
  <2>11. i' \in 0 .. vecSize(mode) /\ i' + 1 = i
    BY <1>a, <2>1, <2>6
  <2>12. x' = acc'[i' + 1]
    BY <2>5, <2>8, <2>9, <2>11
  <2>13. \A c \in i' + 1 .. vecSize(mode') : DigitFor(c)'
    BY <1>b, <2>10, <2>11
  <2> QED
    BY <1>b, <1>c, <1>d, <2>6, <2>9, <2>11, <2>12, <2>13 DEF CipherInv
<1>2. CASE Overflow \/ RejectZero
  <2>1. at' = "rejected" /\ acc' = acc
    BY <1>2 DEF Overflow, RejectZero
  <2> QED
    BY <1>b, <1>c, <2>1 DEF CipherInv
<1>3. CASE FinishCipher
  <2>1. i = 0 /\ x < Capacity(mode) /\ at' = "coded" /\ code' = [r |-> x, c2 |-> raw.c2] /\ acc' = acc
    BY <1>3 DEF FinishCipher
  <2>2. x = acc[1] /\ \A c \in Coef(mode) : DigitFor(c)
    BY <1>a, <1>c, <2>1
  <2>3. \A c \in Coef(mode) : DigitFor(c)'
    BY <1>b, <1>d, <2>1, <2>2 DEF DigitFor
  <2> QED
    BY <1>b, <1>c, <2>1, <2>2, <2>3 DEF CipherInv
<1> QED
  BY <1>1, <1>2, <1>3 DEF FinishKey

\* The encoding loop and its ends.
LEMMA KemEncode ==
    ASSUME KemInv, EncodeDigit \/ Overflow \/ FinishKey \/ RejectZero \/ FinishCipher
    PROVE  KemInv'
<1> mode \in Modes
  BY DEF KemInv, IdleInv
<1>a. vecSize(mode) \in Nat /\ Capacity(mode) \in Nat \ {0} /\ Q \in Nat /\ Coef(mode) = 1 .. vecSize(mode)
  BY ModeFacts
<1>b. at = "encode" /\ mode' = mode /\ job' = job /\ at' # "idle"
  BY DEF EncodeDigit, Overflow, FinishKey, RejectZero, FinishCipher
<1>c. job # "noise"
  BY <1>b DEF KemInv, NoiseInv
<1>d. IdleInv' /\ job' \in {"none", "key", "cipher", "noise"}
  BY <1>b DEF KemInv, IdleInv
<1>1. job # "none"
  BY <1>b DEF KemInv, IdleInv
<1>3. CASE job = "cipher"
  BY <1>3, <1>b, <1>c, <1>d, KemEncodeCipher DEF KemInv
<1>2. CASE job = "key"
  <2>1. KeyInv /\ vec = Unpacked /\ i \in 0 .. vecSize(mode) /\ x = acc[i + 1]
        /\ \A c \in i + 1 .. vecSize(mode) : Horner(c)
    BY <1>2, <1>b DEF KemInv, KeyInv
  <2>2. Unpacked \in [Coef(mode) -> 0 .. Q - 1]
    BY <2>1, UnpackedKey DEF KeyInv, Unpacked
  <2>3. CASE EncodeDigit
    <3>1. i \in 1 .. vecSize(mode) /\ i \in Coef(mode)
      BY <1>a, <2>1, <2>3 DEF EncodeDigit
    <3>2. Digits(i) = {vec[i]}
      BY <1>2 DEF Digits
    <3>3. /\ x' = x * Q + vec[i] /\ acc' = [acc EXCEPT ![i] = x * Q + vec[i]] /\ i' = i - 1 /\ at' = at
          /\ UNCHANGED <<mode, job, raw, vec>>
      BY <2>3, <3>2 DEF EncodeDigit
    <3>4. x \in Nat /\ vec[i] \in Nat
      BY <1>a, <2>1, <2>2, <3>1 DEF KeyInv
    <3>5. x * Q + vec[i] \in Nat
      BY <1>a, <3>4
    <3> DEFINE y == x * Q + vec[i]
    <3> HIDE DEF y
    <3>6. y \in Nat /\ y = acc[i + 1] * Q + Unpacked[i]
      BY <3>5, <2>1 DEF y
    <3>7. /\ acc' \in [1 .. vecSize(mode) + 1 -> Nat] /\ acc'[vecSize(mode) + 1] = 0
          /\ acc'[i] = y
          /\ \A c \in i + 1 .. vecSize(mode) + 1 : acc'[c] = acc[c]
      BY <1>a, <2>1, <3>1, <3>3, <3>6 DEF KeyInv, y
    <3>8. Unpacked' = Unpacked
      BY <3>3 DEF Unpacked
    <3>9. \A c \in i' + 1 .. vecSize(mode) : Horner(c)'
      <4> SUFFICES ASSUME NEW c \in i .. vecSize(mode) PROVE acc'[c] = acc'[c + 1] * Q + Unpacked[c]
        BY <3>1, <3>3, <3>8 DEF Horner
      <4>1. CASE c = i
        BY <4>1, <3>1, <3>6, <3>7, <1>a
      <4>2. CASE c # i
        BY <4>2, <2>1, <3>1, <3>7, <1>a DEF Horner
      <4> QED
        BY <4>1, <4>2
    <3>10. x' = acc'[i' + 1] /\ i' \in 0 .. vecSize(mode)
      BY <3>1, <3>3, <3>7, <1>a DEF y
    <3>11. KeyInv'
      BY <1>a, <1>b, <2>1, <3>3, <3>7, <3>8, <3>9, <3>10 DEF KeyInv
    <3> QED
      BY <1>2, <1>b, <1>c, <1>d, <3>11 DEF KemInv
  <2>4. CASE Overflow
    <3>1. KeyInv'
      BY <2>1, <2>4 DEF Overflow, KeyInv
    <3> QED
      BY <1>2, <1>b, <1>c, <1>d, <3>1 DEF KemInv
  <2>5. CASE FinishKey
    <3>1. i = 0 /\ x < Capacity(mode) /\ at' = "coded" /\ UNCHANGED <<mode, raw, vec, acc, job>>
      BY <2>5 DEF FinishKey
    <3>2. PICK h \in 0 .. Spare(mode) - 1 : code' = [r |-> x + h * Capacity(mode), c2 |-> <<>>]
      BY <2>5 DEF FinishKey
    <3>3. h \in Nat
      BY <3>2, ModeFacts
    <3>4. x = acc[1] /\ acc[1] \in Nat
      BY <1>a, <2>1, <3>1 DEF KeyInv
    <3>5. code'.r = h * Capacity(mode) + acc[1]
      BY <1>a, <3>2, <3>3, <3>4
    <3>6. \A c \in Coef(mode) : Horner(c)'
      BY <1>a, <2>1, <3>1 DEF Horner, Unpacked
    <3>7. KeyInv'
      BY <2>1, <3>1, <3>3, <3>4, <3>5, <3>6 DEF KeyInv
    <3> QED
      BY <1>2, <1>b, <1>c, <1>d, <3>7 DEF KemInv
  <2> QED
    BY <1>2, <2>3, <2>4, <2>5 DEF RejectZero, FinishCipher
<1> QED
  BY <1>1, <1>2, <1>3, <1>c DEF KemInv

\* Decoding a key.
LEMMA KemDecodeKey ==
    ASSUME KemInv, job = "key", BeginDecode \/ DecodeDigit \/ FinishDecode
    PROVE  KeyInv'
<1> mode \in Modes
  BY DEF KemInv, IdleInv
<1>a. vecSize(mode) \in Nat /\ Capacity(mode) \in Nat \ {0} /\ Q \in Nat \ {0} /\ Coef(mode) = 1 .. vecSize(mode)
  BY ModeFacts
<1>b. KeyInv
  BY DEF KemInv
<1>c. mode' = mode /\ raw' = raw /\ acc' = acc /\ job' = job
  BY DEF BeginDecode, DecodeDigit, FinishDecode
<1>d. Unpacked \in [Coef(mode) -> 0 .. Q - 1]
  BY <1>b, UnpackedKey DEF KeyInv, Unpacked
<1>e. Unpacked' = Unpacked /\ \A c \in Coef(mode) : Horner(c) => Horner(c)'
  BY <1>c DEF Unpacked, Horner
<1>f. \A c \in 1 .. vecSize(mode) + 1 : acc[c] \in Nat
  BY <1>b DEF KeyInv
<1>1. CASE BeginDecode
  <2>1. at = "coded" /\ acc[1] < Capacity(mode) /\ acc[1] \in Nat
    BY <1>1, <1>a, <1>b, <1>f DEF BeginDecode, KeyInv
  <2>2. PICK h \in Nat : code.r = h * Capacity(mode) + acc[1]
    BY <1>b, <2>1 DEF KeyInv
  <2>3. code.r % Capacity(mode) = acc[1]
    <3>1. acc[1] \in 0 .. Capacity(mode) - 1
      BY <1>a, <2>1
    <3>2. (h * Capacity(mode) + acc[1]) % Capacity(mode) = acc[1]
      BY <1>a, <3>1, Digit
    <3> QED
      BY <2>2, <3>2
  <2>4. x' = acc[1] /\ at' = "decode" /\ i' = 1 /\ vec' = vec
    BY <1>1, <1>a, <2>1, <2>3 DEF BeginDecode, clearKeyHighBits
  <2> QED
    BY <1>a, <1>b, <1>c, <1>e, <2>1, <2>4 DEF KeyInv
<1>2. CASE DecodeDigit
  <2>1. at = "decode" /\ i \in Coef(mode) /\ x = acc[i] /\ Horner(i)
        /\ vec' = [vec EXCEPT ![i] = x % Q] /\ x' = x \div Q /\ i' = i + 1 /\ at' = at
    BY <1>2, <1>a, <1>b DEF DecodeDigit, KeyInv
  <2>2. acc[i + 1] \in Nat /\ Unpacked[i] \in 0 .. Q - 1 /\ x = acc[i + 1] * Q + Unpacked[i]
    BY <1>a, <1>d, <1>f, <2>1 DEF Horner
  <2>3. x \div Q = acc[i + 1] /\ x % Q = Unpacked[i]
    <3>1. /\ (acc[i + 1] * Q + Unpacked[i]) \div Q = acc[i + 1]
          /\ (acc[i + 1] * Q + Unpacked[i]) % Q = Unpacked[i]
      BY <1>a, <2>2, Digit
    <3> QED
      BY <2>2, <3>1
  <2>4. Unpacked[i] \in Nat
    BY <1>a, <2>2
  <2>5. /\ vec' \in [Coef(mode) -> Nat] /\ \A c \in 1 .. i : vec'[c] = Unpacked[c]
    <3>1. vec' = [vec EXCEPT ![i] = Unpacked[i]] /\ i \in 1 .. vecSize(mode)
      BY <1>a, <2>1, <2>3
    <3>2. vec \in [Coef(mode) -> Nat] /\ \A c \in 1 .. i - 1 : vec[c] = Unpacked[c]
      BY <1>b, <2>1 DEF KeyInv
    <3>3. vec' \in [Coef(mode) -> Nat]
      BY <2>4, <3>1, <3>2
    <3>4. ASSUME NEW c \in 1 .. i PROVE vec'[c] = Unpacked[c]
      <4>1. c \in Coef(mode) /\ (c = i \/ c \in 1 .. i - 1)
        BY <1>a, <3>1
      <4> QED
        BY <3>1, <3>2, <4>1
    <3> QED
      BY <3>3, <3>4
  <2>6. i' \in 1 .. vecSize(mode) + 1 /\ i' - 1 = i
    BY <1>a, <2>1
  <2> QED
    BY <1>b, <1>c, <1>e, <2>1, <2>3, <2>5, <2>6 DEF KeyInv
<1>3. CASE FinishDecode
  <2>1. at = "decode" /\ i = vecSize(mode) + 1 /\ x = 0
        /\ \A c \in Coef(mode) : vec[c] = Unpacked[c]
    BY <1>3, <1>a, <1>b DEF FinishDecode, KeyInv
  <2>2. vec = Unpacked
    BY <1>b, <1>d, <2>1 DEF KeyInv
  <2>3. raw.t \in [KeyByte(mode) -> 0 .. Byte - 1]
    BY <1>b, KemeleonAssumption DEF KeyInv
  <2>4. packPolyBytes(mode, vec) = raw.t
    BY <2>2, <2>3, PackUnpack DEF Unpacked
  <2>5. at' = "decoded" /\ back' = [t |-> raw.t] /\ vec' = vec
    BY <1>3, <2>1, <2>4 DEF FinishDecode
  <2> QED
    BY <1>b, <1>c, <1>e, <2>5 DEF KeyInv
<1> QED
  BY <1>1, <1>2, <1>3

\* Decoding noise.
LEMMA KemDecodeNoise ==
    ASSUME KemInv, job = "noise", BeginDecode \/ DecodeDigit \/ FinishDecode
    PROVE  NoiseInv'
<1> mode \in Modes
  BY DEF KemInv, IdleInv
<1>a. /\ vecSize(mode) \in Nat /\ Capacity(mode) \in Nat \ {0} /\ Q \in Nat \ {0}
      /\ Coef(mode) = 1 .. vecSize(mode)
      /\ Capacity(mode) <= Q ^ vecSize(mode) /\ Q ^ 0 = 1
      /\ \A j \in 1 .. vecSize(mode) : Q ^ (j - 1) \in Nat /\ Q ^ j = Q ^ (j - 1) * Q
  BY ModeFacts
<1>b. NoiseInv
  BY DEF KemInv
<1>c. mode' = mode /\ code' = code /\ job' = job
  BY DEF BeginDecode, DecodeDigit, FinishDecode
<1>1. CASE BeginDecode
  <2>1. code.r \in Nat
    BY <1>b DEF NoiseInv
  <2>2. code.r % Capacity(mode) \in 0 .. Capacity(mode) - 1
    BY <1>a, <2>1, Euclid
  <2>3. x' = code.r % Capacity(mode) /\ at' = "decode" /\ i' = 1 /\ vec' = vec
    BY <1>1, <1>a, <2>2 DEF BeginDecode, clearKeyHighBits
  <2>4. x' \in Nat /\ x' < Capacity(mode)
    BY <1>a, <2>2, <2>3
  <2>5. Q ^ vecSize(mode) \in Nat
    <3>1. CASE vecSize(mode) = 0
      BY <3>1, <1>a
    <3>2. CASE vecSize(mode) # 0
      <4>1. vecSize(mode) \in 1 .. vecSize(mode)
        BY <3>2, <1>a
      <4>2. Q ^ (vecSize(mode) - 1) \in Nat /\ Q ^ vecSize(mode) = Q ^ (vecSize(mode) - 1) * Q
        BY <4>1, <1>a
      <4> QED
        BY <4>2, <1>a
    <3> QED
      BY <3>1, <3>2
  <2>6. vecSize(mode) + 1 - i' = vecSize(mode)
    BY <1>a, <2>3
  <2>7. x' < Q ^ (vecSize(mode) + 1 - i')
    BY <1>a, <2>4, <2>5, <2>6
  <2> QED
    BY <1>a, <1>b, <1>c, <2>3, <2>4, <2>7 DEF NoiseInv, NoiseDecodes
<1>2. CASE DecodeDigit
  <2> DEFINE j == vecSize(mode) + 1 - i
  <2>1. at = "decode" /\ i \in Coef(mode) /\ x \in Nat /\ x < Q ^ j
        /\ vec' = [vec EXCEPT ![i] = x % Q] /\ x' = x \div Q /\ i' = i + 1 /\ at' = at
    BY <1>2, <1>a, <1>b DEF DecodeDigit, NoiseInv
  <2>2. j \in 1 .. vecSize(mode) /\ vecSize(mode) + 1 - i' = j - 1
    BY <1>a, <2>1
  <2> HIDE DEF j
  <2>3. Q ^ (j - 1) \in Nat /\ x < Q ^ (j - 1) * Q
    BY <1>a, <2>1, <2>2
  <2>4. x' < Q ^ (j - 1)
    BY <1>a, <2>1, <2>3, QuotientBelow
  <2>5. x' \in Nat /\ x % Q \in 0 .. Q - 1
    BY <1>a, <2>1, Euclid
  <2>6. x % Q \in Nat /\ x % Q < Q
    BY <1>a, <2>5
  <2>7. vec' \in [Coef(mode) -> Nat] /\ \A c \in 1 .. i : vec'[c] < Q
    <3>1. vec \in [Coef(mode) -> Nat] /\ \A c \in 1 .. i - 1 : vec[c] < Q
      BY <1>b, <2>1 DEF NoiseInv
    <3>2. vec' \in [Coef(mode) -> Nat] /\ i \in 1 .. vecSize(mode)
      BY <1>a, <2>1, <2>6, <3>1
    <3>3. ASSUME NEW c \in 1 .. i PROVE vec'[c] < Q
      <4>1. c \in Coef(mode) /\ (c = i \/ c \in 1 .. i - 1)
        BY <1>a, <3>2
      <4> QED
        BY <2>1, <2>6, <3>1, <4>1
    <3> QED
      BY <3>2, <3>3
  <2>8. i' \in 1 .. vecSize(mode) + 1 /\ i' - 1 = i
    BY <1>a, <2>1
  <2> QED
    BY <1>b, <1>c, <2>1, <2>2, <2>4, <2>5, <2>7, <2>8 DEF NoiseInv, NoiseDecodes
<1>3. CASE FinishDecode
  <2>1. at = "decode" /\ i = vecSize(mode) + 1 /\ x \in Nat /\ x < Q ^ (vecSize(mode) + 1 - i)
        /\ \A c \in Coef(mode) : vec[c] < Q
    BY <1>3, <1>a, <1>b DEF FinishDecode, NoiseInv
  <2>2. vecSize(mode) + 1 - i = 0
    BY <1>a, <2>1
  <2>3. x = 0
    BY <1>a, <2>1, <2>2
  <2>4. vec \in [Coef(mode) -> 0 .. Q - 1]
    BY <1>a, <1>b, <2>1 DEF NoiseInv
  <2>5. at' = "decoded" /\ back' = [t |-> packPolyBytes(mode, vec)] /\ vec' = vec
    BY <1>3, <2>3 DEF FinishDecode
  <2>6. /\ \A j \in KeyByte(mode) : packPolyBytes(mode, vec)[j] \in 0 .. Byte - 1
        /\ unpackPolyBytes(mode, packPolyBytes(mode, vec)) = vec
    BY <2>4, UnpackPack
  <2>7. NoiseDecodes'
    BY <1>c, <2>1, <2>5, <2>6 DEF NoiseDecodes
  <2> QED
    BY <1>b, <1>c, <2>5, <2>7 DEF NoiseInv
<1> QED
  BY <1>1, <1>2, <1>3

\* Decoding a ciphertext.
LEMMA KemDecodeCipher ==
    ASSUME KemInv, job = "cipher", BeginDecode \/ DecodeDigit \/ FinishDecode
    PROVE  CipherInv'
<1> mode \in Modes
  BY DEF KemInv, IdleInv
<1>a. vecSize(mode) \in Nat /\ Capacity(mode) \in Nat \ {0} /\ Q \in Nat \ {0} /\ Coef(mode) = 1 .. vecSize(mode)
  BY ModeFacts
<1>b. CipherInv /\ UNCHANGED <<mode, raw, acc, table, code>>
  BY DEF KemInv, BeginDecode, DecodeDigit, FinishDecode
<1>c. Wanted' = Wanted
  BY <1>b DEF Wanted
<1>d. \A c \in Coef(mode) : DigitFor(c) => DigitFor(c)'
  BY <1>b, <1>c DEF DigitFor
<1>e. \A c \in 1 .. vecSize(mode) + 1 : acc[c] \in Nat
  BY <1>b DEF CipherInv
<1>1. CASE BeginDecode
  <2>1. at = "coded" /\ code.r = acc[1] /\ acc[1] < Capacity(mode) /\ acc[1] \in Nat
    BY <1>1, <1>a, <1>b, <1>e DEF BeginDecode, CipherInv
  <2>2. x' = acc[1] /\ at' = "decode" /\ i' = 1 /\ vec' = vec
    BY <1>1, <1>a, <2>1 DEF BeginDecode
  <2> QED
    BY <1>a, <1>b, <1>c, <1>d, <2>1, <2>2 DEF CipherInv
<1>2. CASE DecodeDigit
  <2>1. at = "decode" /\ i \in Coef(mode) /\ x = acc[i] /\ DigitFor(i)
        /\ vec' = [vec EXCEPT ![i] = x % Q] /\ x' = x \div Q /\ i' = i + 1 /\ at' = at
    BY <1>2, <1>a, <1>b DEF DecodeDigit, CipherInv
  <2>2. PICK y \in 0 .. Q - 1 : acc[i] = acc[i + 1] * Q + y /\ compressValue(y, mode.du) = Wanted[i]
    BY <2>1 DEF DigitFor
  <2>3. x \div Q = acc[i + 1] /\ x % Q = y
    <3>1. acc[i + 1] \in Nat
      BY <1>a, <1>e, <2>1
    <3>2. (acc[i + 1] * Q + y) \div Q = acc[i + 1] /\ (acc[i + 1] * Q + y) % Q = y
      BY <1>a, <2>2, <3>1, Digit
    <3> QED
      BY <2>1, <2>2, <3>2
  <2>4. /\ vec' \in [Coef(mode) -> Nat]
        /\ \A c \in 1 .. i : compressValue(vec'[c], mode.du) = Wanted[c]
    <3>0. vec' = [vec EXCEPT ![i] = y]
      BY <2>1, <2>3
    <3>1. vec' = [vec EXCEPT ![i] = y] /\ i \in 1 .. vecSize(mode) /\ y \in Nat
      <4>1. i \in 1 .. vecSize(mode)
        BY <1>a, <2>1
      <4>2. y \in Nat
        BY <1>a, <2>2
      <4> QED
        BY <3>0, <4>1, <4>2
    <3>2. vec \in [Coef(mode) -> Nat] /\ \A c \in 1 .. i - 1 : compressValue(vec[c], mode.du) = Wanted[c]
      BY <1>b, <2>1 DEF CipherInv
    <3>3. vec' \in [Coef(mode) -> Nat]
      BY <3>1, <3>2
    <3>4. ASSUME NEW c \in 1 .. i PROVE compressValue(vec'[c], mode.du) = Wanted[c]
      <4>1. c \in Coef(mode) /\ (c = i \/ c \in 1 .. i - 1)
        BY <1>a, <3>1
      <4>2. vec'[c] = IF c = i THEN y ELSE vec[c]
        BY <3>1, <3>2, <4>1
      <4> QED
        BY <2>2, <3>2, <4>1, <4>2
    <3> QED
      BY <3>3, <3>4
  <2>5. i' \in 1 .. vecSize(mode) + 1 /\ i' - 1 = i
    BY <1>a, <2>1
  <2> QED
    BY <1>b, <1>c, <1>d, <2>1, <2>3, <2>4, <2>5 DEF CipherInv
<1>3. CASE FinishDecode
  <2>1. at = "decode" /\ i = vecSize(mode) + 1 /\ x = 0 /\ code.c2 = raw.c2
        /\ \A c \in Coef(mode) : compressValue(vec[c], mode.du) = Wanted[c]
    BY <1>3, <1>a, <1>b DEF FinishDecode, CipherInv
  <2>2. Compressed = Wanted
    BY <2>1 DEF Compressed, Wanted, unpackBits
  <2>3. packBits(mode, Compressed) = raw.c1
    BY <1>b, <2>2, PackedBits DEF CipherInv, Wanted
  <2>4. at' = "decoded" /\ back' = [c1 |-> raw.c1, c2 |-> raw.c2] /\ vec' = vec
    BY <1>3, <2>1, <2>3 DEF FinishDecode
  <2> QED
    BY <1>b, <2>4 DEF CipherInv
<1> QED
  BY <1>1, <1>2, <1>3

\* Every step keeps the invariant.
LEMMA KemNext == KemInv /\ [Next]_vars => KemInv'
<1> SUFFICES ASSUME KemInv, [Next]_vars PROVE KemInv'
  OBVIOUS
<1>1. CASE at = "idle" /\ Start
  BY <1>1, KemStart
<1>2. CASE EncodeDigit \/ Overflow \/ FinishKey \/ RejectZero \/ FinishCipher
  BY <1>2, KemEncode
<1>3. CASE BeginDecode \/ DecodeDigit \/ FinishDecode
  <2>1. at # "idle" /\ at' # "idle" /\ job' = job /\ mode' = mode
    BY <1>3 DEF BeginDecode, DecodeDigit, FinishDecode
  <2>2. IdleInv' /\ job' \in {"none", "key", "cipher", "noise"}
    BY <2>1 DEF KemInv, IdleInv
  <2>3. job' = "key" => KeyInv'
    BY <1>3, <2>1, KemDecodeKey
  <2>4. job' = "noise" => NoiseInv'
    BY <1>3, <2>1, KemDecodeNoise
  <2>5. job' = "cipher" => CipherInv'
    BY <1>3, <2>1, KemDecodeCipher
  <2> QED
    BY <2>2, <2>3, <2>4, <2>5 DEF KemInv
<1>4. CASE UNCHANGED vars
  <2>1. mode' = mode /\ table' = table /\ job' = job /\ at' = at /\ raw' = raw /\ code' = code /\ vec' = vec
        /\ x' = x /\ i' = i /\ acc' = acc /\ back' = back
    BY <1>4 DEF vars
  <2>2. IdleInv' /\ job' \in {"none", "key", "cipher", "noise"}
    BY <2>1 DEF KemInv, IdleInv
  <2>3. job' = "key" => KeyInv'
    BY <2>1 DEF KemInv, KeyInv, Unpacked, Horner
  <2>4. job' = "noise" => NoiseInv'
    BY <2>1 DEF KemInv, NoiseInv, NoiseDecodes
  <2>5. job' = "cipher" => CipherInv'
    BY <2>1 DEF KemInv, CipherInv, Wanted, DigitFor
  <2> QED
    BY <2>2, <2>3, <2>4, <2>5 DEF KemInv
<1> QED
  BY <1>1, <1>2, <1>3, <1>4 DEF Next, Ended

\* The invariant holds in every reachable state.
LEMMA KemCorrect == Spec => []KemInv
BY KemInit, KemNext, PTL DEF Spec

\* For every q, every number of coefficients and every byte width: a key that
\* Kemeleon::encodeKey accepts comes back from decodeKey byte for byte,
\* whatever was put in the free bits.
THEOREM KeyRoundTripHolds == Spec => []KeyRoundTrip
<1>1. KemInv => KeyRoundTrip
  BY DEF KemInv, KeyInv, KeyRoundTrip
<1> QED
  BY <1>1, KemCorrect, PTL

\* For every q whose power has room for the capacity: decodeKey accepts every
\* string, so encapMlKem does not throw on a row that holds noise.
THEOREM NoiseDecodesHolds == Spec => []NoiseDecodes
<1>1. KemInv => NoiseDecodes
  BY DEF KemInv, NoiseInv, NoiseDecodes
<1> QED
  BY <1>1, KemCorrect, PTL

\* For every q and every du whose compressed values are no more than q:
\* encodeCipher never throws for want of a preimage, and a ciphertext that it
\* accepts comes back from decodeCipher bit for bit, whichever preimages
\* were drawn.
THEOREM CipherRoundTripHolds == Spec => []CipherRoundTrip
<1>1. KemInv => CipherRoundTrip
  BY DEF KemInv, IdleInv, KeyInv, CipherInv, NoiseInv, CipherRoundTrip
<1> QED
  BY <1>1, KemCorrect, PTL
=============================================================================
