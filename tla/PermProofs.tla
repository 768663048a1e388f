----------------------------- MODULE PermProofs -----------------------------
(***************************************************************************)
(* decryptBytes undoes encryptBytes, for every row width, every small      *)
(* permutation and step the constructor accepts, every number of Feistel   *)
(* rounds and every state of Xoodoo; and no two rounds of ConsPi flip the  *)
(* same bits.                                                              *)
(***************************************************************************)
EXTENDS Perm, Integers, SequenceTheorems, WellFoundedInduction, TLAPS

-----------------------------------------------------------------------------
(* Rows and offsets.                                                       *)

LEMMA XorTwice ==
    ASSUME NEW a, NEW b
    PROVE  Xor(Xor(a, b), b) = a
BY DEF Xor

LEMMA XorIn ==
    ASSUME NEW S, NEW a \in SUBSET S, NEW b \in SUBSET S
    PROVE  Xor(a, b) \in SUBSET S
BY DEF Xor

LEMMA WrapPos ==
    ASSUME NEW i \in Pos, NEW j \in 0 .. N
    PROVE  Wrap(i + j) \in Pos
BY PermAssumption DEF Wrap, Pos

\* A rotation moves no two positions to the same place.
LEMMA WrapInjective ==
    ASSUME NEW o \in Pos, NEW i \in Pos, NEW j \in Pos, Wrap(o + i) = Wrap(o + j)
    PROVE  i = j
BY PermAssumption DEF Wrap, Pos

\* Rotations commute.
LEMMA WrapCommutes ==
    ASSUME NEW e \in Pos, NEW q \in Pos, NEW i \in 0 .. N
    PROVE  Wrap(Wrap(e + i) + q) = Wrap(Wrap(e + q) + i)
BY PermAssumption DEF Wrap, Pos

\* The remainder of a sum of an offset and a step.
LEMMA ModWrap ==
    ASSUME NEW i \in Pos, NEW j \in 0 .. N
    PROVE  (i + j) % N = Wrap(i + j)
<1>1. N \in Nat \ {0} /\ i \in Int /\ j \in Int /\ 0 <= i /\ i < N /\ 0 <= j /\ j <= N
  BY PermAssumption DEF Pos
<1>2. CASE i + j < N
  BY <1>1, <1>2 DEF Wrap
<1>3. CASE i + j >= N
  BY <1>1, <1>3 DEF Wrap
<1> QED BY <1>1, <1>2, <1>3

-----------------------------------------------------------------------------
(* The window of ConsPi.                                                   *)

\* What the constructor has checked.
Made == n \in Widths /\ n < N /\ s \in 1 .. n /\ Steps(n) # {} /\ s = bestStep(n)

LEMMA Quotient ==
    ASSUME NEW a \in Nat, NEW b \in Nat \ {0}
    PROVE  a \div b \in Nat
OBVIOUS

LEMMA MadeFacts ==
    ASSUME Made
    PROVE  /\ n \in Nat /\ s \in Nat /\ N \in Nat
           /\ 1 <= s /\ s <= n /\ n < N
           /\ t \in Nat /\ t >= 1
           /\ r \in Nat /\ r >= 3
<1>1. n \in Nat /\ s \in Nat /\ N \in Nat /\ 1 <= s /\ s <= n /\ n < N
  BY PermAssumption DEF Made
<1>2. (N - n) \div s \in Nat
  BY <1>1, Quotient
<1>3. t \in Nat /\ t >= 1
  BY <1>2 DEF t
<1> QED BY <1>1, <1>3 DEF r

LEMMA PackIn ==
    ASSUME Made, NEW d, NEW o \in Pos
    PROVE  packShifted(d, o) \in SUBSET (0 .. n - 1)
BY DEF packShifted

LEMMA UnpackIn ==
    ASSUME NEW b, NEW d, NEW o
    PROVE  unpackShifted(b, d, o) \in SUBSET Pos
BY DEF unpackShifted

LEMMA ShiftIn ==
    ASSUME NEW d, NEW o
    PROVE  applyShift(d, o) \in SUBSET Pos
BY UnpackIn DEF applyShift

LEMMA InvShiftIn ==
    ASSUME NEW d, NEW o
    PROVE  applyInvShift(d, o) \in SUBSET Pos
BY UnpackIn DEF applyInvShift

\* What is laid into the window is what lies in it,
LEMMA PackUnpack ==
    ASSUME Made, NEW d, NEW o \in Pos, NEW b \in SUBSET (0 .. n - 1)
    PROVE  packShifted(unpackShifted(b, d, o), o) = b
<1> DEFINE Y == unpackShifted(b, d, o)
<1>0. 0 .. n - 1 \subseteq Pos /\ 0 .. n - 1 \subseteq 0 .. N
  BY MadeFacts DEF Pos
<1>1. ASSUME NEW i \in 0 .. n - 1
      PROVE  Wrap(o + i) \in Y <=> i \in b
  <2>1. Wrap(o + i) \in Pos
    BY <1>0, WrapPos
  <2>2. Wrap(o + i) \in Y <=> \E k \in b : Wrap(o + i) = Wrap(o + k)
    BY <2>1 DEF unpackShifted
  <2>3. ASSUME NEW k \in b, Wrap(o + i) = Wrap(o + k)
        PROVE  i = k
    BY <1>0, <2>3, WrapInjective
  <2> QED BY <2>2, <2>3
<1> HIDE DEF Y
<1>2. packShifted(Y, o) = b
  BY <1>1 DEF packShifted
<1> QED BY <1>2 DEF Y

\* and laying back what lay in it restores the row.
LEMMA UnpackPack ==
    ASSUME Made, NEW d \in SUBSET Pos, NEW c, NEW o \in Pos
    PROVE  unpackShifted(packShifted(d, o), unpackShifted(c, d, o), o) = d
<1> DEFINE Y == unpackShifted(c, d, o)
           b == packShifted(d, o)
           In(j) == \E i \in 0 .. n - 1 : j = Wrap(o + i)
<1>1. ASSUME NEW j \in Pos, ~ In(j)
      PROVE  j \in Y <=> j \in d
  BY <1>1 DEF unpackShifted
<1>2. ASSUME NEW j \in Pos, In(j)
      PROVE  (\E i \in b : j = Wrap(o + i)) <=> j \in d
  BY <1>2 DEF packShifted
<1> HIDE DEF Y, b
<1>3. unpackShifted(b, Y, o) = {j \in Pos : IF In(j) THEN \E i \in b : j = Wrap(o + i) ELSE j \in Y}
  BY DEF unpackShifted
<1> HIDE DEF In
<1>4. unpackShifted(b, Y, o) = d
  BY <1>1, <1>2, <1>3
<1> QED BY <1>4 DEF Y, b

LEMMA ShiftUndone ==
    ASSUME Made, NEW d \in SUBSET Pos, NEW o \in Pos
    PROVE  applyInvShift(applyShift(d, o), o) = d
<1> DEFINE b == packShifted(d, o)
           c == apply(n, b)
<1>1. b \in SUBSET (0 .. n - 1)
  BY PackIn
<1>2. c \in SUBSET (0 .. n - 1) /\ invert(n, c) = b
  BY <1>1, PrimitiveAssumption DEF Made
<1>3. packShifted(applyShift(d, o), o) = c
  BY <1>2, PackUnpack DEF applyShift
<1>4. applyInvShift(applyShift(d, o), o) = unpackShifted(b, applyShift(d, o), o)
  BY <1>2, <1>3 DEF applyInvShift
<1> QED BY <1>4, UnpackPack DEF applyShift

-----------------------------------------------------------------------------
(* A row that materialize has rotated, seen through a moved window.        *)

\* Two positions of a window meet in the row exactly if they meet in the
\* rotated row.
LEMMA Rotated ==
    ASSUME NEW e \in Pos, NEW q \in Pos, NEW i \in 0 .. N, NEW j \in Pos
    PROVE  j = Wrap(e + i) <=> Wrap(j + q) = Wrap(Wrap(e + q) + i)
<1>1. Wrap(e + i) \in Pos
  BY WrapPos
<1>2. Wrap(Wrap(e + i) + q) = Wrap(Wrap(e + q) + i)
  BY WrapCommutes
<1>3. Wrap(j + q) = Wrap(Wrap(e + i) + q) => j = Wrap(e + i)
  BY <1>1, WrapInjective, PermAssumption DEF Pos
<1> QED BY <1>2, <1>3

LEMMA PackRotated ==
    ASSUME Made, NEW d, NEW q \in Pos, NEW e \in Pos
    PROVE  packShifted(materialize(d, q), e) = packShifted(d, Wrap(e + q))
<1>0. 0 .. n - 1 \subseteq 0 .. N
  BY MadeFacts
<1>1. ASSUME NEW i \in 0 .. n - 1
      PROVE  Wrap(e + i) \in materialize(d, q) <=> Wrap(Wrap(e + q) + i) \in d
  BY <1>0, WrapPos, WrapCommutes DEF materialize
<1> QED BY <1>1 DEF packShifted

LEMMA UnpackRotated ==
    ASSUME Made, NEW d, NEW q \in Pos, NEW e \in Pos, NEW b \in SUBSET (0 .. n - 1)
    PROVE  unpackShifted(b, materialize(d, q), e)
             = materialize(unpackShifted(b, d, Wrap(e + q)), q)
<1> DEFINE E == Wrap(e + q)
           In(S, j, o) == \E i \in S : j = Wrap(o + i)
           W == 0 .. n - 1
<1>0. W \subseteq 0 .. N /\ b \subseteq W
  BY MadeFacts
<1>1. ASSUME NEW j \in Pos, NEW S \in SUBSET W
      PROVE  In(S, j, e) <=> In(S, Wrap(j + q), E)
  BY <1>0, Rotated
<1>2. ASSUME NEW j \in Pos
      PROVE  Wrap(j + q) \in Pos /\ (j \in materialize(d, q) <=> Wrap(j + q) \in d)
  BY WrapPos, PermAssumption DEF materialize, Pos
<1>3. ASSUME NEW x, NEW o, NEW j \in Pos
      PROVE  j \in unpackShifted(b, x, o) <=> IF In(W, j, o) THEN In(b, j, o) ELSE j \in x
  BY DEF unpackShifted
<1> HIDE DEF In
<1>4. ASSUME NEW j \in Pos
      PROVE  j \in unpackShifted(b, materialize(d, q), e) <=> Wrap(j + q) \in unpackShifted(b, d, E)
  <2>1. In(W, j, e) <=> In(W, Wrap(j + q), E)
    BY <1>1
  <2>2. In(b, j, e) <=> In(b, Wrap(j + q), E)
    BY <1>0, <1>1
  <2>3. j \in unpackShifted(b, materialize(d, q), e)
          <=> IF In(W, j, e) THEN In(b, j, e) ELSE j \in materialize(d, q)
    BY <1>3
  <2>4. Wrap(j + q) \in unpackShifted(b, d, E)
          <=> IF In(W, Wrap(j + q), E) THEN In(b, Wrap(j + q), E) ELSE Wrap(j + q) \in d
    BY <1>2, <1>3
  <2> QED BY <2>1, <2>2, <2>3, <2>4, <1>2
<1>5. unpackShifted(b, materialize(d, q), e) \in SUBSET Pos
  BY UnpackIn
<1>6. materialize(unpackShifted(b, d, E), q) = {i \in Pos : Wrap(i + q) \in unpackShifted(b, d, E)}
  BY DEF materialize
<1> HIDE DEF E
<1>7. unpackShifted(b, materialize(d, q), e) = materialize(unpackShifted(b, d, E), q)
  BY <1>4, <1>5, <1>6
<1> QED BY <1>7 DEF E

LEMMA InvShiftRotated ==
    ASSUME Made, NEW d, NEW q \in Pos, NEW e \in Pos,
           invert(n, packShifted(d, Wrap(e + q))) \in SUBSET (0 .. n - 1)
    PROVE  applyInvShift(materialize(d, q), e) = materialize(applyInvShift(d, Wrap(e + q)), q)
BY PackRotated, UnpackRotated DEF applyInvShift

LEMMA XorRoundIn ==
    ASSUME Made, NEW d \in SUBSET Pos, NEW o \in Pos, NEW k
    PROVE  xorRound(d, o, k) \in SUBSET Pos
<1>1. RoundConst(party, k) \in SUBSET (0 .. N) /\ s \in 0 .. N
  BY MadeFacts DEF RoundConst, Xor
<1>2. Wrap(o + s) \in Pos
  BY <1>1, WrapPos
<1>3. {Wrap(Wrap(o + s) + b) : b \in RoundConst(party, k)} \in SUBSET Pos
  BY <1>1, <1>2, WrapPos
<1> QED BY <1>3, XorIn DEF xorRound

LEMMA XorRoundUndone ==
    ASSUME NEW d, NEW o, NEW k
    PROVE  xorRound(xorRound(d, o, k), o, k) = d
BY XorTwice DEF xorRound

LEMMA XorRoundRotated ==
    ASSUME Made, NEW d, NEW q \in Pos, NEW e \in Pos, NEW k
    PROVE  xorRound(materialize(d, q), e, k) = materialize(xorRound(d, Wrap(e + q), k), q)
<1> DEFINE B == RoundConst(party, k)
           E == Wrap(e + q)
           flips(o) == {Wrap(Wrap(o + s) + b) : b \in B}
<1>1. B \in SUBSET (0 .. N) /\ s \in 0 .. N
  BY MadeFacts DEF RoundConst, Xor
<1>2. Wrap(e + s) \in Pos /\ E \in Pos
  BY <1>1, WrapPos, PermAssumption DEF Pos
<1>3. Wrap(Wrap(e + s) + q) = Wrap(E + s)
  BY <1>1, WrapCommutes
<1> HIDE DEF B
<1>4. ASSUME NEW j \in Pos
      PROVE  j \in flips(e) <=> Wrap(j + q) \in flips(E)
  <2>1. ASSUME NEW b \in B
        PROVE  j = Wrap(Wrap(e + s) + b) <=> Wrap(j + q) = Wrap(Wrap(E + s) + b)
    BY <1>1, <1>2, <1>3, Rotated
  <2> QED BY <2>1
<1>5. flips(e) \in SUBSET Pos
  BY <1>1, <1>2, WrapPos
<1> HIDE DEF flips, E
<1>6. Xor(materialize(d, q), flips(e)) = materialize(Xor(d, flips(E)), q)
  BY <1>4, <1>5 DEF materialize, Xor
<1> QED BY <1>6 DEF xorRound, flips, B, E

LEMMA Unrotated ==
    ASSUME NEW d \in SUBSET Pos, NEW q \in Pos, NEW e \in Pos, Wrap(e + q) = 0
    PROVE  materialize(materialize(d, q), e) = d
<1>1. ASSUME NEW i \in Pos
      PROVE  Wrap(i + e) \in Pos /\ Wrap(Wrap(i + e) + q) = i
  BY <1>1, PermAssumption DEF Wrap, Pos
<1> QED BY <1>1 DEF materialize

\* Going back a step reaches the offset before it, seen in the rotated row.
LEMMA StepBack ==
    ASSUME Made, NEW e \in Pos, NEW q \in Pos, NEW a \in Pos, Wrap(e + q) = (a + s) % N
    PROVE  /\ (e + N - s) % N \in Pos
           /\ Wrap(((e + N - s) % N) + q) = a
<1>1. s \in 0 .. N /\ N - s \in 0 .. N /\ s \in Int /\ 1 <= s /\ s < N
  BY MadeFacts
<1>2. (e + (N - s)) % N = Wrap(e + (N - s))
  BY <1>1, ModWrap
<1>3. e + N - s = e + (N - s)
  BY <1>1, PermAssumption DEF Pos
<1>4. (a + s) % N = Wrap(a + s)
  BY <1>1, ModWrap
<1>5. Wrap(e + q) = Wrap(a + s)
  BY <1>4
<1>6. Wrap(Wrap(e + (N - s)) + q) = a
  BY <1>1, <1>5, PermAssumption DEF Wrap, Pos
<1> QED BY <1>1, <1>2, <1>3, <1>6, WrapPos

\* The window of a rotated row is put back.
LEMMA LastUndone ==
    ASSUME Made, NEW d \in SUBSET Pos, NEW q \in Pos, NEW e \in Pos, NEW a \in Pos,
           Wrap(e + q) = a
    PROVE  applyInvShift(materialize(applyShift(d, a), q), e) = materialize(d, q)
<1> DEFINE b == packShifted(d, a)
           c == apply(n, b)
<1>1. b \in SUBSET (0 .. n - 1)
  BY PackIn
<1>2. c \in SUBSET (0 .. n - 1) /\ invert(n, c) = b
  BY <1>1, PrimitiveAssumption DEF Made
<1>3. packShifted(applyShift(d, a), a) = c
  BY <1>2, PackUnpack DEF applyShift
<1>4. applyInvShift(materialize(applyShift(d, a), q), e)
        = materialize(applyInvShift(applyShift(d, a), a), q)
  BY <1>1, <1>2, <1>3, InvShiftRotated
<1> QED BY <1>4, ShiftUndone

\* A round of encryptBytes is undone by one of decryptBytes at the moved
\* offset of the rotated row.
LEMMA RoundUndone ==
    ASSUME Made, NEW d \in SUBSET Pos, NEW q \in Pos, NEW e \in Pos, NEW a \in Pos, NEW k,
           Wrap(e + q) = a
    PROVE  applyInvShift(xorRound(materialize(xorRound(applyShift(d, a), a, k), q), e, k), e)
             = materialize(d, q)
<1>1. xorRound(materialize(xorRound(applyShift(d, a), a, k), q), e, k)
        = materialize(applyShift(d, a), q)
  BY XorRoundRotated, XorRoundUndone
<1>2. applyInvShift(materialize(applyShift(d, a), q), e) = materialize(d, q)
  BY LastUndone
<1> QED BY <1>1, <1>2

-----------------------------------------------------------------------------
(* Binary digits.                                                          *)

LEMMA Euclid ==
    ASSUME NEW a \in Nat, NEW b \in Nat \ {0}
    PROVE  a \div b \in Nat /\ a % b \in 0 .. b - 1 /\ a = (a \div b) * b + (a % b)
<1>1. a \div b \in Nat /\ a % b \in 0 .. b - 1 /\ a = b * (a \div b) + (a % b)
  OBVIOUS
<1> QED BY <1>1

LEMMA Digit ==
    ASSUME NEW a \in Nat, NEW b \in Nat \ {0}, NEW d \in 0 .. b - 1
    PROVE  (a * b + d) \div b = a /\ (a * b + d) % b = d
<1> DEFINE u == a * b + d
           p == u \div b
           m == u % b
<1>1. u \in Nat
  OBVIOUS
<1>2. p \in Nat /\ m \in 0 .. b - 1 /\ u = p * b + m
  BY <1>1, Euclid
<1> HIDE DEF p, m
<1>3. ASSUME NEW v \in Nat, NEW w \in Nat, v < w PROVE v * b + b <= w * b
  <2>1. PICK e \in Nat : w = v + 1 + e
    <3>1. w - v - 1 \in Nat /\ w = v + 1 + (w - v - 1)
      BY <1>3
    <3> QED BY <3>1
  <2>2. w * b = v * b + b + e * b
    BY <2>1
  <2>3. e * b \in Nat /\ v * b \in Nat
    BY <2>1
  <2> QED BY <2>2, <2>3
<1>4. p * b \in Nat /\ a * b \in Nat
  BY <1>2
<1>5. ~ (p < a) /\ ~ (a < p)
  BY <1>2, <1>3, <1>4
<1>6. p = a /\ m = d
  BY <1>2, <1>4, <1>5
<1> QED BY <1>6 DEF p, m

\* A nonempty set of naturals has a least element.
LEMMA Least ==
    ASSUME NEW T \in SUBSET Nat, T # {}
    PROVE  \E x \in T : \A y \in T : x <= y
<1> DEFINE R == {ss \in Nat \X Nat : ss[1] < ss[2]}
<1>1. IsWellFoundedOn(R, Nat)
  BY NatLessThanWellFounded DEF OpToRel
<1>2. PICK x \in T : \A y \in T : ~ (<<y, x>> \in R)
  <2> HIDE DEF R
  <2> QED BY <1>1, WFMin
<1>3. ASSUME NEW y \in T PROVE x <= y
  <2>1. x \in Nat /\ y \in Nat
    OBVIOUS
  <2>2. <<y, x>> \in Nat \X Nat /\ <<y, x>>[1] = y /\ <<y, x>>[2] = x
    BY <2>1
  <2>3. y < x => <<y, x>> \in R
    BY <2>1, <2>2
  <2>4. ~(y < x)
    <3> HIDE DEF R
    <3> QED BY <1>2, <2>3
  <2> QED BY <2>1, <2>4
<1> QED BY <1>3

\* What holds at zero and is handed on holds up to the limit.
LEMMA UpTo ==
    ASSUME NEW lim \in Nat, NEW H \in SUBSET Nat,
           0 \in H, \A b \in 0 .. lim - 1 : b \in H => b + 1 \in H
    PROVE  0 .. lim \subseteq H
<1> DEFINE T == {b \in 0 .. lim : b \notin H}
<1> SUFFICES ASSUME T # {} PROVE FALSE
  OBVIOUS
<1>1. T \in SUBSET Nat
  OBVIOUS
<1>2. PICK x \in T : \A y \in T : x <= y
  <2> HIDE DEF T
  <2> QED BY <1>1, Least
<1>3. x # 0 /\ x \in 0 .. lim /\ x \notin H
  BY <1>2
<1>4. x - 1 \in 0 .. lim - 1 /\ x - 1 + 1 = x /\ ~ (x <= x - 1)
  BY <1>3
<1>5. x - 1 \notin T
  BY <1>2, <1>4
<1>6. x - 1 \in H
  BY <1>4, <1>5
<1> QED BY <1>3, <1>4, <1>6

\* f lists the powers of two up to the limit.
Powers(f, lim) ==
    /\ lim \in Nat /\ f \in [0 .. lim -> Nat] /\ f[0] = 1
    /\ \A b \in 0 .. lim - 1 : f[b + 1] = 2 * f[b]

LEMMA PowAbove ==
    ASSUME NEW f, NEW lim, Powers(f, lim)
    PROVE  \A b \in 0 .. lim : f[b] \in Nat \ {0} /\ f[b] >= b + 1
<1> DEFINE H == {b \in 0 .. lim : f[b] >= b + 1}
<1>1. lim \in Nat /\ H \in SUBSET Nat /\ 0 \in H /\ \A b \in 0 .. lim : f[b] \in Nat
  BY DEF Powers
<1>2. ASSUME NEW b \in 0 .. lim - 1, b \in H PROVE b + 1 \in H
  <2>1. f[b + 1] = 2 * f[b] /\ f[b] \in Nat /\ f[b] >= b + 1 /\ b + 1 \in 0 .. lim
    BY <1>1, <1>2 DEF Powers
  <2> QED BY <2>1
<1> HIDE DEF H
<1>3. 0 .. lim \subseteq H
  BY <1>1, <1>2, UpTo
<1>4. ASSUME NEW b \in 0 .. lim PROVE f[b] \in Nat \ {0} /\ f[b] >= b + 1
  <2>1. f[b] \in Nat /\ f[b] >= b + 1 /\ b >= 0 /\ b \in Int
    BY <1>1, <1>3 DEF H
  <2> QED BY <2>1
<1> QED BY <1>4

LEMMA PowMono ==
    ASSUME NEW f, NEW lim, Powers(f, lim), NEW a \in 0 .. lim
    PROVE  \A b \in 0 .. lim : a <= b => f[a] <= f[b]
<1> DEFINE H == {b \in 0 .. lim : a <= b => f[a] <= f[b]}
<1>1. lim \in Nat /\ H \in SUBSET Nat /\ 0 \in H /\ \A b \in 0 .. lim : f[b] \in Nat
  BY DEF Powers
<1>2. ASSUME NEW b \in 0 .. lim - 1, b \in H PROVE b + 1 \in H
  <2>1. f[b + 1] = 2 * f[b] /\ f[b] \in Nat /\ f[a] \in Nat /\ b + 1 \in 0 .. lim /\ (a <= b => f[a] <= f[b])
    BY <1>1, <1>2 DEF Powers
  <2>2. CASE a <= b
    BY <2>1, <2>2
  <2>3. CASE ~ (a <= b)
    <3>1. a = b + 1 \/ ~ (a <= b + 1)
      BY <2>3
    <3> QED BY <2>1, <3>1
  <2> QED BY <2>2, <2>3
<1> HIDE DEF H
<1>3. 0 .. lim \subseteq H
  BY <1>1, <1>2, UpTo
<1> QED BY <1>3 DEF H

\* The bits of a half are those of the number, one up.
LEMMA HalfDiv ==
    ASSUME NEW j \in Nat, NEW g \in Nat \ {0}
    PROVE  (j \div 2) \div g = j \div (2 * g)
<1> DEFINE h == j \div 2
           e == j % 2
           a == h \div g
           c == h % g
<1>1. h \in Nat /\ e \in 0 .. 1 /\ j = h * 2 + e
  BY Euclid
<1> HIDE DEF h, e
<1>2. a \in Nat /\ c \in 0 .. g - 1 /\ h = a * g + c
  BY <1>1, Euclid
<1> HIDE DEF a, c
<1>3. 2 * c + e \in 0 .. (2 * g) - 1 /\ 2 * g \in Nat \ {0}
  BY <1>1, <1>2
<1>4. j = a * (2 * g) + (2 * c + e)
  <2>1. PICK ag \in Nat : ag = a * g /\ a * (2 * g) = 2 * ag
    <3>1. a * g \in Nat /\ a * (2 * g) = 2 * (a * g)
      BY <1>2
    <3> QED BY <3>1
  <2> QED BY <1>1, <1>2, <2>1
<1>5. (a * (2 * g) + (2 * c + e)) \div (2 * g) = a
  <2>1. PICK d \in 0 .. (2 * g) - 1 : d = 2 * c + e
    BY <1>3
  <2>2. PICK b \in Nat \ {0} : b = 2 * g
    BY <1>3
  <2>3. (a * b + d) \div b = a
    BY <1>2, <2>1, <2>2, Digit
  <2> QED BY <2>1, <2>2, <2>3
<1> QED BY <1>4, <1>5 DEF a, h

\* Numbers with the same bits below a power of two that is above both.
LEMMA SameBits ==
    ASSUME NEW f, NEW lim, Powers(f, lim), NEW m \in 0 .. lim, NEW j \in Nat, NEW k \in Nat,
           j < f[m], k < f[m], \A b \in 0 .. m - 1 : (j \div f[b]) % 2 = (k \div f[b]) % 2
    PROVE  j = k
<1> DEFINE Agree(x, y, w) == \A b \in 0 .. w - 1 : (x \div f[b]) % 2 = (y \div f[b]) % 2
           H == {w \in 0 .. lim : \A x, y \in Nat : x < f[w] /\ y < f[w] /\ Agree(x, y, w) => x = y}
<1>1. /\ lim \in Nat /\ f[0] = 1 /\ \A b \in 0 .. lim - 1 : f[b + 1] = 2 * f[b]
  BY DEF Powers
<1>2. \A b \in 0 .. lim : f[b] \in Nat \ {0}
  BY PowAbove
<1>3. H \in SUBSET Nat /\ 0 \in H
  BY <1>1
<1>4. ASSUME NEW w \in 0 .. lim - 1, w \in H PROVE w + 1 \in H
  <2>1. w + 1 \in 0 .. lim
    BY <1>1
  <2> SUFFICES ASSUME NEW x \in Nat, NEW y \in Nat, x < f[w + 1], y < f[w + 1], Agree(x, y, w + 1)
               PROVE  x = y
    BY <2>1
  <2>2. f[w] \in Nat \ {0} /\ f[w + 1] = 2 * f[w]
    BY <1>1, <1>2
  <2>3. x \div 2 \in Nat /\ y \div 2 \in Nat /\ x \div 2 < f[w] /\ y \div 2 < f[w]
    BY <2>2
  <2>4. ASSUME NEW b \in 0 .. w - 1
        PROVE  ((x \div 2) \div f[b]) % 2 = ((y \div 2) \div f[b]) % 2
    <3>1. b \in 0 .. lim - 1 /\ b \in 0 .. lim /\ b + 1 \in 0 .. (w + 1) - 1
      BY <1>1
    <3>2. f[b] \in Nat \ {0} /\ f[b + 1] = 2 * f[b]
      BY <1>1, <1>2, <3>1
    <3>3. (x \div 2) \div f[b] = x \div f[b + 1] /\ (y \div 2) \div f[b] = y \div f[b + 1]
      BY <3>2, HalfDiv
    <3>4. (x \div f[b + 1]) % 2 = (y \div f[b + 1]) % 2
      BY <3>1
    <3> QED BY <3>3, <3>4
  <2>5. x \div 2 = y \div 2
    BY <1>4, <2>3, <2>4
  <2>6. x % 2 = y % 2
    <3>1. 0 \in 0 .. (w + 1) - 1
      BY <1>1
    <3>2. (x \div f[0]) % 2 = (y \div f[0]) % 2
      BY <3>1
    <3>3. x \div 1 = x /\ y \div 1 = y
      OBVIOUS
    <3> QED BY <1>1, <3>2, <3>3
  <2> QED BY <2>5, <2>6
<1> HIDE DEF H
<1>5. m \in H
  BY <1>1, <1>3, <1>4, UpTo
<1> QED BY <1>5 DEF H

-----------------------------------------------------------------------------
(* The round constants of ConsPi.                                          *)

PowersOf2(lim) == [b \in 0 .. lim |-> 2 ^ b]

LEMMA WindowPowers ==
    ASSUME Made
    PROVE  /\ Powers(PowersOf2(n + r), n + r)
           /\ s < n /\ r <= PowersOf2(n + r)[n - s - 1]
           /\ \A b \in 0 .. n + r : PowersOf2(n + r)[b] = 2 ^ b
<1>1. n \in Nat /\ s \in Nat /\ r \in Nat /\ 1 <= s
  BY MadeFacts
<1>2. r = 5 * (((N - n) \div bestStep(n)) + 1) - 2
  BY DEF Made, r, t
<1>3. /\ bestStep(n) < n
      /\ r <= 2 ^ (n - bestStep(n) - 1)
      /\ 2 ^ 0 = 1
      /\ \A b \in 0 .. n + r : 2 ^ b \in Nat /\ 2 ^ (b + 1) = 2 * 2 ^ b
  BY <1>2, WindowAssumption DEF Made
<1>4. \A b \in 0 .. n + r : PowersOf2(n + r)[b] = 2 ^ b
  BY DEF PowersOf2
<1>5. PowersOf2(n + r) \in [0 .. n + r -> Nat]
  BY <1>3 DEF PowersOf2
<1>6. 0 \in 0 .. n + r /\ (n - s) - 1 \in 0 .. n + r /\ s < n
      /\ \A b \in 0 .. (n + r) - 1 : b \in 0 .. n + r /\ b + 1 \in 0 .. n + r
  BY <1>1, <1>3 DEF Made
<1>7. Powers(PowersOf2(n + r), n + r)
  <2>1. PowersOf2(n + r)[0] = 1
    BY <1>3, <1>4, <1>6
  <2>2. ASSUME NEW b \in 0 .. (n + r) - 1
        PROVE  PowersOf2(n + r)[b + 1] = 2 * PowersOf2(n + r)[b]
    <3>1. b \in 0 .. n + r /\ b + 1 \in 0 .. n + r
      BY <1>6
    <3>2. PowersOf2(n + r)[b] = 2 ^ b /\ PowersOf2(n + r)[b + 1] = 2 ^ (b + 1)
      BY <1>4, <3>1
    <3>3. 2 ^ (b + 1) = 2 * 2 ^ b
      BY <1>3, <3>1
    <3> QED BY <3>2, <3>3
  <2>3. n + r \in Nat
    BY <1>1
  <2> QED BY <1>5, <2>1, <2>2, <2>3 DEF Powers
<1> QED BY <1>3, <1>4, <1>6, <1>7 DEF Made

\* bitsNeeded finds a number of bits, below the bits that windows share.
LEMMA RoundBits ==
    ASSUME Made, NEW f, f = PowersOf2(n + r)
    PROVE  roundBits \in 1 .. (n - s) - 1 /\ r - 1 < f[roundBits]
<1> DEFINE m == (n - s) - 1
           x == r - 1
           T == {b \in 1 .. m : x < f[b]}
           Fits(b) == x < 2 ^ b /\ (b = 1 \/ x >= 2 ^ (b - 1))
<1>1. n \in Nat /\ s \in Nat /\ r \in Nat /\ 1 <= s /\ r >= 3
  BY MadeFacts
<1>2. Powers(f, n + r) /\ s < n /\ r <= f[m] /\ \A b \in 0 .. n + r : f[b] = 2 ^ b
  BY WindowPowers
<1>3. /\ f[0] = 1 /\ n + r \in Nat /\ m \in Nat /\ x \in Nat /\ x >= 2 /\ m \in 0 .. n + r
  BY <1>1, <1>2 DEF Powers
<1>4. \A b \in 0 .. n + r : f[b] \in Nat \ {0} /\ f[b] >= b + 1
  BY <1>2, PowAbove
<1>5. m # 0 /\ m \in T
  BY <1>1, <1>2, <1>3, <1>4
<1>6. PICK c \in T : \A b \in T : c <= b
  <2>1. T \in SUBSET Nat /\ T # {}
    BY <1>5
  <2> HIDE DEF T
  <2> QED BY <2>1, Least
<1>7. c \in 1 .. m /\ x < f[c] /\ c - 1 \in 0 .. n + r /\ c \in 0 .. n + r
  BY <1>1, <1>3, <1>6
<1>8. c = 1 \/ x >= f[c - 1]
  <2> SUFFICES ASSUME c # 1, ~ (x >= f[c - 1]) PROVE FALSE
    OBVIOUS
  <2>1. c - 1 \in T
    BY <1>3, <1>4, <1>7
  <2> QED BY <1>6, <1>7, <2>1
<1>9. c \in 1 .. x + 1
  <2>1. c = 1 \/ c <= x
    BY <1>3, <1>4, <1>7, <1>8
  <2> QED BY <1>3, <1>7, <2>1
<1>10. Fits(c)
  BY <1>2, <1>7, <1>8
<1> DEFINE d == CHOOSE b \in 1 .. x + 1 : Fits(b)
<1>11. roundBits = d
  BY DEF roundBits, bitsNeeded
<1>12. d \in 1 .. x + 1 /\ Fits(d)
  <2> HIDE DEF Fits
  <2> QED BY <1>9, <1>10
<1> HIDE DEF d
<1>13. d \in 0 .. n + r /\ d - 1 \in 0 .. n + r /\ x < f[d] /\ (d = 1 \/ x >= f[d - 1])
  BY <1>1, <1>2, <1>3, <1>12
<1>14. d <= m
  <2> SUFFICES ASSUME ~ (d <= m) PROVE FALSE
    BY <1>3, <1>13
  <2>1. m <= d - 1 /\ d # 1
    BY <1>3, <1>5, <1>13
  <2>2. f[m] <= f[d - 1]
    BY <1>2, <1>3, <1>13, <2>1, PowMono
  <2> QED BY <1>1, <1>2, <1>3, <1>4, <1>13, <2>1, <2>2
<1> QED BY <1>11, <1>12, <1>13, <1>14

\* Two rounds that flip the same bits are the same round of the same party.
LEMMA ConstantsDiffer ==
    ASSUME Made, NEW p1 \in {0, 1}, NEW p2 \in {0, 1}, NEW j \in 1 .. r - 1, NEW k \in 1 .. r - 1,
           RoundConst(p1, j) = RoundConst(p2, k)
    PROVE  p1 = p2 /\ j = k
<1> DEFINE f == PowersOf2(n + r)
           Bit(x, b) == (x \div f[b]) % 2
<1>1. n \in Nat /\ s \in Nat /\ r \in Nat /\ 1 <= s /\ s < n
  BY MadeFacts, WindowPowers
<1>2. Powers(f, n + r) /\ \A b \in 0 .. n + r : f[b] = 2 ^ b
  BY WindowPowers
<1>3. roundBits \in 1 .. (n - s) - 1 /\ r - 1 < f[roundBits]
  BY RoundBits
<1> HIDE DEF f
<1>4. \A b \in 0 .. n + r : f[b] \in Nat \ {0}
  BY <1>2, PowAbove
<1>5. /\ roundBits \in 0 .. (n - s) - 1 /\ roundBits \in 0 .. n + r
      /\ \A b \in 0 .. roundBits - 1 : b \in 0 .. (n - s) - 1 /\ b # roundBits
      /\ \A b \in 0 .. (n - s) - 1 : b \in 0 .. n + r
  BY <1>1, <1>3
<1>6. ASSUME NEW p \in {0, 1}, NEW x \in 1 .. r - 1
      PROVE  /\ roundBits \in RoundConst(p, x) <=> p # 0
             /\ \A b \in 0 .. roundBits - 1 : b \in RoundConst(p, x) <=> Bit(x, b) = 1
             /\ x \in Nat /\ x < f[roundBits]
  <2>1. x \in Nat /\ x < f[roundBits] /\ f[roundBits] \in Nat \ {0}
    BY <1>1, <1>3, <1>4, <1>5
  <2>2. Bit(x, roundBits) = 0
    <3>1. ASSUME NEW g \in Nat \ {0}, x < g PROVE x \div g = 0
      <4>1. (0 * g + x) \div g = 0
        <5>1. x \in 0 .. g - 1
          BY <2>1, <3>1
        <5> QED BY <5>1, Digit
      <4> QED BY <2>1, <4>1
    <3>2. x \div f[roundBits] = 0
      BY <2>1, <3>1
    <3> QED BY <3>2
  <2>3. ASSUME NEW b \in 0 .. (n - s) - 1 PROVE (x \div 2 ^ b) % 2 = Bit(x, b)
    <3>1. f[b] = 2 ^ b
      BY <1>2, <1>5
    <3> QED BY <3>1, Zenon
  <2> HIDE DEF Bit
  <2>4. \A b \in 0 .. (n - s) - 1 :
            b \in RoundConst(p, x) <=> ((Bit(x, b) = 1) # (p # 0 /\ b = roundBits))
    BY <2>3 DEF RoundConst, Xor
  <2> QED BY <1>5, <2>1, <2>2, <2>4
<1>7. p1 = p2
  BY <1>6
<1>8. j \in Nat /\ k \in Nat /\ j < f[roundBits] /\ k < f[roundBits]
      /\ \A b \in 0 .. roundBits - 1 : Bit(j, b) = 1 <=> Bit(k, b) = 1
  <2> HIDE DEF Bit
  <2> QED BY <1>6
<1>9. ASSUME NEW b \in 0 .. roundBits - 1 PROVE Bit(j, b) = Bit(k, b)
  <2>1. b \in 0 .. n + r
    BY <1>5, <1>9
  <2>2. f[b] \in Nat \ {0}
    BY <1>4, <2>1
  <2>3. j \div f[b] \in Nat /\ k \div f[b] \in Nat
    BY <1>8, <2>2, Euclid
  <2>4. Bit(j, b) \in 0 .. 1 /\ Bit(k, b) \in 0 .. 1
    BY <2>3
  <2>5. Bit(j, b) = 1 <=> Bit(k, b) = 1
    BY <1>8
  <2> HIDE DEF Bit
  <2> QED BY <2>4, <2>5
<1>10. j = k
  BY <1>2, <1>5, <1>8, <1>9, SameBits
<1> QED BY <1>7, <1>10

-----------------------------------------------------------------------------
(* The inductive invariant.                                                *)

Entry == [data : SUBSET Pos, off : Pos]

\* A round of encryptBytes leads from one entry of the trace to the next.
Leads(a, b, k) ==
    /\ b.data = xorRound(applyShift(a.data, a.off), a.off, k)
    /\ b.off = (a.off + s) % N

Now == [data |-> data, off |-> off]
FirstEntry == [data |-> input, off |-> 0]

PiLog ==
    /\ trace \in Seq(Entry)
    /\ trace # <<>> => trace[1] = FirstEntry
    /\ \A k \in Nat : \A a, b \in Entry :
          k >= 1 /\ k + 1 <= Len(trace) /\ a = trace[k] /\ b = trace[k + 1] => Leads(a, b, k)

PiMake == n \in Widths /\ trace = <<>> /\ off = 0 /\ data = input

PiEncrypt ==
    /\ round \in 1 .. r /\ Len(trace) = round - 1
    /\ Now \in Entry
    /\ round = 1 => Now = FirstEntry
    /\ \A k \in Nat : \A a, b \in Entry :
          k >= 1 /\ k = Len(trace) /\ a = trace[k] /\ b = Now => Leads(a, b, k)

PiTurn ==
    /\ Len(trace) = r /\ off = 0
    /\ \A q \in Entry :
          q = trace[r] => data = materialize(applyShift(q.data, q.off), q.off)

\* The row is the one of the encryption at this round, rotated as the whole
\* encryption has rotated it, and the offset is the one of that round.
PiDecrypt ==
    /\ Len(trace) = r /\ round \in 0 .. r - 1 /\ off \in Pos
    /\ \A q, b \in Entry :
          q = trace[r] /\ b = trace[round + 1] =>
              data = materialize(b.data, q.off) /\ Wrap(off + q.off) = b.off

PiInv ==
    /\ at \in {"make", "refused", "encrypt", "turn", "decrypt", "done"}
    /\ input \in SUBSET Pos
    /\ at = "make" => PiMake
    /\ at \in {"encrypt", "turn", "decrypt"} => Made /\ PiLog
    /\ at = "encrypt" => PiEncrypt
    /\ at = "turn" => PiTurn
    /\ at = "decrypt" => PiDecrypt
    /\ at = "done" => data = input

\* Feistel: the row is a round further than the last entry of the trace that
\* has not been undone.
FeistelStep(d, k) == Halves(Upper(d), Xor(Lower(d), roundMask(k, Upper(d))))

FeistelLog ==
    /\ trace \in Seq([data : SUBSET Pos, off : {0}])
    /\ trace # <<>> => trace[1].data = input
    /\ \A k \in Nat : \A a, b \in SUBSET Pos :
          k >= 1 /\ k + 1 <= Len(trace) /\ a = trace[k].data /\ b = trace[k + 1].data
              => b = FeistelStep(a, k - 1)

FeistelInv ==
    /\ at \in {"make", "encrypt", "decrypt", "done"}
    /\ input \in SUBSET Pos /\ data \in SUBSET Pos /\ off = 0
    /\ at = "make" => data = input /\ trace = <<>>
    /\ at \in {"encrypt", "decrypt"} =>
          /\ FeistelLog
          /\ round \in 0 .. Rounds
          /\ Len(trace) = IF at = "encrypt" THEN round ELSE Rounds
          /\ round = 0 => data = input
          /\ \A k \in Nat : \A a \in SUBSET Pos :
                k >= 1 /\ k = round /\ a = trace[k].data => data = FeistelStep(a, k - 1)
    /\ at = "done" => data = input

HctrStep(d) ==
    LET rest == d \cap Rest
        mm == Xor(d \cap First, hash(party, rest))
        uu == enc(party, mm)
    IN crypt(mm, uu, uu, rest)

HctrInv ==
    /\ at \in {"make", "encrypt", "decrypt", "done"}
    /\ input \in SUBSET Pos
    /\ at = "make" => data = input
    /\ at \in {"encrypt", "decrypt"} =>
          /\ round \in {0, 1}
          /\ round = 0 => data = input
          /\ round = 1 => \A d \in SUBSET Pos : d = input => data = HctrStep(d)
    /\ at = "done" => data = input

\* Xoodoo: as Feistel, with rounds that do not depend on the party.
XooStep(d, k) == Round(d, RC[k + 1])

XooLog ==
    /\ trace \in Seq([data : State, off : {0}])
    /\ trace # <<>> => trace[1].data = input
    /\ \A k \in Nat : \A a, b \in State :
          k >= 1 /\ k + 1 <= Len(trace) /\ a = trace[k].data /\ b = trace[k + 1].data
              => b = XooStep(a, k - 1)

XooInv ==
    /\ at \in {"make", "encrypt", "decrypt", "done"}
    /\ input \in State /\ data \in State /\ off = 0
    /\ at = "make" => data = input /\ trace = <<>>
    /\ at \in {"encrypt", "decrypt"} =>
          /\ XooLog
          /\ round \in 0 .. 12
          /\ Len(trace) = IF at = "encrypt" THEN round ELSE 12
          /\ round = 0 => data = input
          /\ \A k \in Nat : \A a \in State :
                k >= 1 /\ k = round /\ a = trace[k].data => data = XooStep(a, k - 1)
    /\ at = "done" => data = input

PermInv ==
    /\ kind \in Kinds /\ party \in {0, 1}
    /\ kind = "ConsPi" => PiInv
    /\ kind = "Feistel" => FeistelInv
    /\ kind = "Hctr" => HctrInv
    /\ kind = "Xoodoo" => XooInv

-----------------------------------------------------------------------------
LEMMA InitInv == Init => PermInv
<1> SUFFICES ASSUME Init PROVE PermInv
  OBVIOUS
<1>1. kind \in Kinds /\ party \in {0, 1}
  BY DEF Init
<1>2. ASSUME kind = "ConsPi" PROVE PiInv
  BY <1>2 DEF Init, PiInv, PiMake
<1>3. ASSUME kind = "Feistel" PROVE FeistelInv
  BY <1>3 DEF Init, FeistelInv
<1>4. ASSUME kind = "Hctr" PROVE HctrInv
  BY <1>4 DEF Init, HctrInv
<1>5. ASSUME kind = "Xoodoo" PROVE XooInv
  BY <1>5, PermAssumption DEF Init, XooInv
<1> QED BY <1>1, <1>2, <1>3, <1>4, <1>5 DEF PermInv

\* What depends on the permutation only does not change with the row.
LEMMA Rigid ==
    ASSUME n' = n, s' = s, party' = party
    PROVE  /\ r' = r
           /\ Made' <=> Made
           /\ \A a, o : applyShift(a, o)' = applyShift(a, o)
           /\ \A a, b, k : Leads(a, b, k)' <=> Leads(a, b, k)
           /\ \A a, k : FeistelStep(a, k)' = FeistelStep(a, k)
           /\ \A a : HctrStep(a)' = HctrStep(a)
<1>1. t' = t /\ r' = r
  BY DEF r, t
<1>2. Made' <=> Made
  BY DEF Made
<1>3. \A a, o : applyShift(a, o)' = applyShift(a, o)
  BY DEF applyShift, packShifted, unpackShifted
<1>4. \A k : RoundConst(party, k)' = RoundConst(party, k)
  BY <1>1 DEF RoundConst, roundBits
<1>5. \A a, b, k : Leads(a, b, k)' <=> Leads(a, b, k)
  BY <1>1, <1>3, <1>4 DEF Leads, xorRound, RoundConst, roundBits
<1>6. \A a, k : FeistelStep(a, k)' = FeistelStep(a, k)
  BY DEF FeistelStep, roundMask
<1>7. \A a : HctrStep(a)' = HctrStep(a)
  BY DEF HctrStep, crypt
<1> QED BY <1>1, <1>2, <1>3, <1>5, <1>6, <1>7

-----------------------------------------------------------------------------
(* ConsPi.                                                                 *)

\* The distances to the width have a least member.
LEMMA BestStepIn ==
    ASSUME NEW w \in Widths, Steps(w) # {}
    PROVE  bestStep(w) \in 1 .. w
<1> DEFINE R == OpToRel(<, Nat)
           Gaps == {w - x : x \in Steps(w)}
<1>1. w \in Nat
  BY PermAssumption
<1>2. Steps(w) \subseteq 1 .. w
  BY DEF Steps
<1>3. \A x, y \in Nat : <<y, x>> \in R <=> y < x
  BY DEF OpToRel
<1>4. IsWellFoundedOn(R, Nat)
  BY NatLessThanWellFounded
<1>5. Gaps \subseteq Nat /\ Gaps # {}
  BY <1>1, <1>2
<1> HIDE DEF R
<1>6. PICK g \in Gaps : \A h \in Gaps : ~(<<h, g>> \in R)
  BY <1>4, <1>5, WFMin
<1>7. PICK x \in Steps(w) : g = w - x
  BY <1>6
<1>8. ASSUME NEW y \in Steps(w)
      PROVE  y <= x
  <2>1. w - y \in Gaps /\ w - y \in Nat /\ g \in Nat /\ x \in Nat /\ y \in Nat
    BY <1>1, <1>2, <1>5
  <2>2. ~(w - y < g)
    BY <1>3, <1>6, <2>1
  <2> QED BY <1>1, <1>7, <2>1, <2>2
<1>9. bestStep(w) \in Steps(w)
  BY <1>8 DEF bestStep
<1> QED BY <1>2, <1>9

LEMMA PiMakeStep ==
    ASSUME PermInv, make, kind = "ConsPi"
    PROVE  PiInv'
<1>1. PiInv /\ PiMake /\ at = "make"
  BY DEF PermInv, PiInv, make
<1>2. CASE N <= n \/ Steps(n) = {}
  BY <1>1, <1>2 DEF make, PiInv
<1>3. CASE ~(N <= n \/ Steps(n) = {})
  <2>1. at' = "encrypt" /\ s' = bestStep(n) /\ round' = 1 /\ UNCHANGED <<n, input, data, off, trace>>
    BY <1>3 DEF make
  <2>2. n \in Nat /\ N \in Nat /\ n < N
    BY <1>1, <1>3, PermAssumption DEF PiMake
  <2>3. Made'
    BY <1>1, <1>3, <2>1, <2>2, BestStepIn DEF Made, PiMake
  <2>4. r' \in Nat /\ r' >= 3
    <3>1. (n' \in Nat /\ s' \in Nat \ {0} /\ N \in Nat /\ n' < N)
      BY <2>1, <2>2, <2>3 DEF Made
    <3>2. PICK a \in Nat : a = N - n'
      <4>1. N - n' \in Nat
        BY <2>1, <2>2
      <4> QED BY <4>1
    <3>3. PICK b \in Nat \ {0} : b = s'
      BY <3>1
    <3>4. a \div b \in Nat
      BY Quotient
    <3> QED BY <3>2, <3>3, <3>4 DEF r, t
  <2>5. 0 \in Pos /\ input \in SUBSET Pos
    BY <1>1, <2>2 DEF Pos, PiInv
  <2>6. PiLog'
    BY <1>1, <2>1 DEF PiLog, PiMake
  <2>7. PiEncrypt'
    BY <1>1, <2>1, <2>4, <2>5 DEF PiEncrypt, PiMake, Now, FirstEntry, Entry
  <2> QED BY <1>1, <2>1, <2>3, <2>6, <2>7 DEF PiInv
<1> QED BY <1>2, <1>3

\* The trace with the entry that Note adds to it.
LEMMA LogGrows ==
    ASSUME PiLog, PiEncrypt, Made, Note, UNCHANGED <<n, s, party, input>>
    PROVE  /\ PiLog'
           /\ Len(trace') = round
           /\ trace'[round] = Now
<1>1. Now \in Entry /\ trace \in Seq(Entry) /\ trace' = Append(trace, Now)
  BY DEF PiLog, PiEncrypt, Note, Now
<1>2. round \in Nat /\ round >= 1 /\ Len(trace) = round - 1
  BY MadeFacts DEF PiEncrypt
<1>3. trace' \in Seq(Entry) /\ Len(trace') = round
  BY <1>1, <1>2
<1>4. trace'[round] = Now /\ \A k \in 1 .. round - 1 : trace'[k] = trace[k]
  BY <1>1, <1>2
<1>5. trace'[1] = FirstEntry' /\ FirstEntry' = FirstEntry
  <2>1. FirstEntry' = FirstEntry
    BY DEF FirstEntry
  <2>2. CASE round = 1
    BY <1>4, <2>1, <2>2 DEF PiEncrypt
  <2>3. CASE round # 1
    BY <1>2, <1>4, <2>1, <2>3 DEF PiLog
  <2> QED BY <2>2, <2>3, <2>1
<1>6. ASSUME NEW k \in Nat, NEW a \in Entry, NEW b \in Entry,
             k >= 1, k + 1 <= round, a = trace'[k], b = trace'[k + 1]
      PROVE  Leads(a, b, k)
  <2>1. CASE k + 1 = round
    BY <1>2, <1>4, <1>6, <2>1 DEF PiEncrypt
  <2>2. CASE k + 1 # round
    BY <1>2, <1>4, <1>6, <2>2 DEF PiLog
  <2> QED BY <2>1, <2>2
<1>7. \A a, b, k : Leads(a, b, k)' <=> Leads(a, b, k)
  BY Rigid
<1>8. PiLog'
  BY <1>3, <1>5, <1>6, <1>7 DEF PiLog
<1> QED BY <1>3, <1>4, <1>8

LEMMA PiRoundStep ==
    ASSUME PermInv, PiRound
    PROVE  PiInv'
<1>1. kind = "ConsPi" /\ PiInv /\ Made /\ PiLog /\ PiEncrypt /\ at = "encrypt"
  BY DEF PermInv, PiInv, PiRound
<1>2. UNCHANGED <<n, s, party, at, input>> /\ round' = round + 1 /\ round < r /\ Note
  BY DEF PiRound
<1>3. PiLog' /\ Len(trace') = round /\ trace'[round] = Now
  BY <1>1, <1>2, LogGrows
<1>4. r' = r /\ Made' /\ \A a, b, k : Leads(a, b, k)' <=> Leads(a, b, k)
  BY <1>1, <1>2, Rigid
<1>5. Now \in Entry /\ data \in SUBSET Pos /\ off \in Pos
  BY <1>1 DEF PiEncrypt, Now, Entry
<1>6. Leads(Now, Now', round)
  BY DEF PiRound, Leads, Now
<1>7. Now' \in Entry
  <2>1. data' \in SUBSET Pos
    BY <1>1, <1>5, ShiftIn, XorRoundIn DEF PiRound
  <2>2. s \in 0 .. N
    BY <1>1, MadeFacts
  <2>3. off' \in Pos
    BY <1>5, <2>2, ModWrap, WrapPos DEF PiRound
  <2> QED BY <2>1, <2>3 DEF Now, Entry
<1>8. round \in Nat /\ round >= 1 /\ r \in Nat
  BY <1>1, MadeFacts DEF PiEncrypt
<1>9. PiEncrypt'
  <2>1. ASSUME NEW k \in Nat, NEW a \in Entry, NEW b \in Entry,
               k = Len(trace'), a = trace'[k], b = Now'
        PROVE  Leads(a, b, k)
    BY <1>3, <1>6, <2>1
  <2>2. round' \in 1 .. r' /\ Len(trace') = round' - 1 /\ round' # 1
    BY <1>2, <1>3, <1>4, <1>8
  <2> QED BY <1>4, <1>7, <2>1, <2>2 DEF PiEncrypt
<1> QED BY <1>1, <1>2, <1>3, <1>4, <1>9 DEF PiInv

\* What the trace says of its last entry, and of the entries before it.
LEMMA LogEntries ==
    ASSUME PiLog, Made, Len(trace) = r
    PROVE  /\ \A k \in 1 .. r : trace[k] \in Entry
           /\ trace[1] = FirstEntry
           /\ \A k \in 1 .. r - 1 : Leads(trace[k], trace[k + 1], k)
<1>1. r \in Nat /\ r >= 3
  BY MadeFacts
<1>2. \A k \in 1 .. r : trace[k] \in Entry
  BY <1>1 DEF PiLog
<1>3. trace # <<>>
  BY <1>1
<1>4. ASSUME NEW k \in 1 .. r - 1
      PROVE  Leads(trace[k], trace[k + 1], k)
  <2>1. k \in Nat /\ k >= 1 /\ k + 1 <= Len(trace) /\ k \in 1 .. r /\ k + 1 \in 1 .. r
    BY <1>1
  <2>2. PICK a \in Entry : a = trace[k]
    BY <1>2, <2>1
  <2>3. PICK b \in Entry : b = trace[k + 1]
    BY <1>2, <2>1
  <2> QED BY <2>1, <2>2, <2>3 DEF PiLog
<1> QED BY <1>2, <1>3, <1>4 DEF PiLog

LEMMA PiLastStep ==
    ASSUME PermInv, PiLast
    PROVE  PiInv'
<1>1. kind = "ConsPi" /\ PiInv /\ Made /\ PiLog /\ PiEncrypt
  BY DEF PermInv, PiInv, PiLast
<1>2. UNCHANGED <<n, s, party, input, round>> /\ round = r /\ Note /\ off' = 0 /\ at' = "turn"
  BY DEF PiLast
<1>3. PiLog' /\ Len(trace') = round /\ trace'[round] = Now
  BY <1>1, <1>2, LogGrows
<1>4. r' = r /\ Made' /\ \A a, o : applyShift(a, o)' = applyShift(a, o)
  BY <1>1, <1>2, Rigid
<1>5. ASSUME NEW q \in Entry, q = trace'[r']
      PROVE  data' = materialize(applyShift(q.data, q.off), q.off)
  <2>1. q.data = data /\ q.off = off
    BY <1>2, <1>3, <1>4, <1>5 DEF Now
  <2> QED BY <2>1 DEF PiLast
<1>6. PiTurn'
  BY <1>2, <1>3, <1>4, <1>5 DEF PiTurn
<1> QED BY <1>1, <1>2, <1>3, <1>4, <1>6 DEF PiInv

\* The trace is only read after the encryption.
LEMMA LogKept ==
    ASSUME PiLog, Made, UNCHANGED <<n, s, party, input, trace>>
    PROVE  PiLog' /\ Made' /\ r' = r
<1>1. \A a, b, k : Leads(a, b, k)' <=> Leads(a, b, k)
  BY Rigid
<1>2. PiLog'
  BY <1>1 DEF PiLog, FirstEntry
<1> QED BY <1>2, Rigid

LEMMA PiInvFirstStep ==
    ASSUME PermInv, PiInvFirst
    PROVE  PiInv'
<1>1. kind = "ConsPi" /\ PiInv /\ Made /\ PiLog /\ PiTurn
  BY DEF PermInv, PiInv, PiInvFirst
<1>2. UNCHANGED <<n, s, party, input, off, trace>> /\ round' = r - 1 /\ at' = "decrypt"
      /\ data' = applyInvShift(data, off) /\ off = 0
  BY <1>1 DEF PiInvFirst, PiTurn
<1>3. PiLog' /\ Made' /\ r' = r
  BY <1>1, <1>2, LogKept
<1>4. r \in Nat /\ r >= 3 /\ Len(trace) = r
  BY <1>1, MadeFacts DEF PiTurn
<1>5. PICK q \in Entry : q = trace[r]
  BY <1>1, <1>4, LogEntries
<1>6. q.data \in SUBSET Pos /\ q.off \in Pos /\ 0 \in Pos
  BY <1>1, MadeFacts DEF Entry, Pos
<1>7. Wrap(0 + q.off) = q.off
  BY <1>6, PermAssumption DEF Wrap, Pos
<1>8. data = materialize(applyShift(q.data, q.off), q.off)
  BY <1>1, <1>5 DEF PiTurn
<1>9. data' = materialize(q.data, q.off)
  BY <1>1, <1>2, <1>6, <1>7, <1>8, LastUndone
<1>10. PiDecrypt'
  <2>1. trace' = trace /\ round' + 1 = r /\ round' \in 0 .. r - 1 /\ off' = 0
    BY <1>2, <1>4
  <2>2. ASSUME NEW p \in Entry, NEW b \in Entry, p = trace'[r'], b = trace'[round' + 1]
        PROVE  data' = materialize(b.data, p.off) /\ Wrap(off' + p.off) = b.off
    <3>1. p = q /\ b = q
      BY <1>3, <1>5, <2>1, <2>2
    <3> QED BY <1>7, <1>9, <2>1, <3>1
  <2> QED BY <1>3, <1>4, <1>6, <2>1, <2>2 DEF PiDecrypt
<1> QED BY <1>1, <1>2, <1>3, <1>10 DEF PiInv

LEMMA PiInvRoundStep ==
    ASSUME PermInv, PiInvRound
    PROVE  PiInv'
<1>1. kind = "ConsPi" /\ PiInv /\ Made /\ PiLog /\ PiDecrypt
  BY DEF PermInv, PiInv, PiInvRound
<1>2. /\ UNCHANGED <<n, s, party, input, trace, at>> /\ at = "decrypt"
      /\ round >= 1 /\ round' = round - 1
      /\ off' = (off + N - s) % N
      /\ data' = applyInvShift(xorRound(data, off', round), off')
  BY DEF PiInvRound
<1>3. PiLog' /\ Made' /\ r' = r
  BY <1>1, <1>2, LogKept
<1>4. r \in Nat /\ r >= 3 /\ Len(trace) = r /\ round \in 1 .. r - 1 /\ off \in Pos
  BY <1>1, <1>2, MadeFacts DEF PiDecrypt
<1>5. PICK q \in Entry : q = trace[r]
  BY <1>1, <1>4, LogEntries
<1>6. PICK a \in Entry : a = trace[round]
  BY <1>1, <1>4, LogEntries
<1>7. PICK b \in Entry : b = trace[round + 1]
  BY <1>1, <1>4, LogEntries
<1>8. Leads(a, b, round)
  BY <1>1, <1>4, <1>6, <1>7, LogEntries
<1>9. data = materialize(b.data, q.off) /\ Wrap(off + q.off) = b.off
  BY <1>1, <1>5, <1>7 DEF PiDecrypt
<1>10. a.data \in SUBSET Pos /\ a.off \in Pos /\ q.off \in Pos
  BY DEF Entry
<1>11. off' \in Pos /\ Wrap(off' + q.off) = a.off
  BY <1>1, <1>2, <1>4, <1>8, <1>9, <1>10, StepBack DEF Leads
<1>12. PICK e \in Pos : e = off'
  BY <1>11
<1>13. data' = materialize(a.data, q.off)
  <2>1. b.data = xorRound(applyShift(a.data, a.off), a.off, round)
    BY <1>8 DEF Leads
  <2>2. applyInvShift(xorRound(materialize(b.data, q.off), e, round), e) = materialize(a.data, q.off)
    BY <1>1, <1>10, <1>11, <1>12, <2>1, RoundUndone
  <2> QED BY <1>2, <1>9, <1>12, <2>2
<1>14. PiDecrypt'
  <2>1. trace' = trace /\ round' + 1 = round /\ round' \in 0 .. r - 1
    BY <1>2, <1>4
  <2>2. ASSUME NEW p \in Entry, NEW c \in Entry, p = trace'[r'], c = trace'[round' + 1]
        PROVE  data' = materialize(c.data, p.off) /\ Wrap(off' + p.off) = c.off
    <3>1. p = q /\ c = a
      BY <1>3, <1>5, <1>6, <2>1, <2>2
    <3> QED BY <1>11, <1>13, <3>1
  <2> QED BY <1>3, <1>4, <1>11, <2>1, <2>2 DEF PiDecrypt
<1> QED BY <1>1, <1>2, <1>3, <1>14 DEF PiInv

LEMMA PiInvLastStep ==
    ASSUME PermInv, PiInvLast
    PROVE  PiInv'
<1>1. kind = "ConsPi" /\ PiInv /\ Made /\ PiLog /\ PiDecrypt /\ round = 0
  BY DEF PermInv, PiInv, PiInvLast
<1>2. r \in Nat /\ r >= 3 /\ Len(trace) = r /\ off \in Pos
  BY <1>1, MadeFacts DEF PiDecrypt
<1>3. PICK q \in Entry : q = trace[r]
  BY <1>1, <1>2, LogEntries
<1>4. PICK b \in Entry : b = trace[1]
  BY <1>1, <1>2, LogEntries
<1>5. b.data = input /\ b.off = 0
  BY <1>1, <1>2, <1>4, LogEntries DEF FirstEntry
<1>6. data = materialize(input, q.off) /\ Wrap(off + q.off) = 0
  BY <1>1, <1>3, <1>4, <1>5 DEF PiDecrypt
<1>7. input \in SUBSET Pos /\ q.off \in Pos
  BY <1>1 DEF PiInv, Entry
<1>8. materialize(data, off) = input
  BY <1>2, <1>6, <1>7, Unrotated
<1> QED BY <1>1, <1>8 DEF PiInvLast, PiInv

-----------------------------------------------------------------------------
(* Feistel.                                                                *)

LEMMA HalvesOf ==
    ASSUME NEW a \in SUBSET (0 .. Half - 1), NEW b \in SUBSET (0 .. Half - 1)
    PROVE  Lower(Halves(a, b)) = a /\ Upper(Halves(a, b)) = b
<1>1. Half \in Nat /\ N = 2 * Half /\ N \in Nat
  <2>1. N \in Nat /\ N = 2 * Half
    BY PermAssumption
  <2> QED BY <2>1 DEF Half
<1>2. ASSUME NEW i \in 0 .. Half - 1
      PROVE  i \in Pos /\ i + Half \in Pos /\ i < Half /\ ~(i + Half < Half) /\ (i + Half) - Half = i
  BY <1>1 DEF Pos
<1>3. Lower(Halves(a, b)) = a
  BY <1>2 DEF Lower, Halves
<1>4. Upper(Halves(a, b)) = b
  BY <1>2 DEF Upper, Halves
<1> QED BY <1>3, <1>4

LEMMA OfHalves ==
    ASSUME NEW d \in SUBSET Pos
    PROVE  Halves(Lower(d), Upper(d)) = d
<1>1. Half \in Nat /\ N = 2 * Half /\ N \in Nat
  <2>1. N \in Nat /\ N = 2 * Half
    BY PermAssumption
  <2> QED BY <2>1 DEF Half
<1>2. ASSUME NEW i \in Pos, ~(i < Half)
      PROVE  i - Half \in 0 .. Half - 1 /\ (i - Half) + Half = i
  BY <1>1, <1>2 DEF Pos
<1>3. ASSUME NEW i \in Pos, i < Half
      PROVE  i \in 0 .. Half - 1
  BY <1>1, <1>3 DEF Pos
<1> QED BY <1>2, <1>3 DEF Halves, Lower, Upper

LEMMA FeistelUndone ==
    ASSUME NEW d \in SUBSET Pos, NEW k \in 0 .. Rounds - 1, party \in {0, 1}
    PROVE  /\ FeistelStep(d, k) \in SUBSET Pos
           /\ Halves(Xor(Upper(FeistelStep(d, k)), roundMask(k, Lower(FeistelStep(d, k)))),
                     Lower(FeistelStep(d, k))) = d
<1> DEFINE lo == Lower(d)
           up == Upper(d)
           m == roundMask(k, up)
<1>1. lo \in SUBSET (0 .. Half - 1) /\ up \in SUBSET (0 .. Half - 1)
  BY DEF Lower, Upper
<1>2. m \in SUBSET (0 .. Half - 1)
  BY <1>1, PrimitiveAssumption DEF roundMask
<1>4. FeistelStep(d, k) = Halves(up, Xor(lo, m))
  BY DEF FeistelStep
<1> HIDE DEF lo, up, m
<1>3. Xor(lo, m) \in SUBSET (0 .. Half - 1)
  BY <1>1, <1>2, XorIn
<1>5. Lower(FeistelStep(d, k)) = up /\ Upper(FeistelStep(d, k)) = Xor(lo, m)
  BY <1>1, <1>3, <1>4, HalvesOf
<1>6. Xor(Xor(lo, m), m) = lo
  BY XorTwice
<1>7. Halves(lo, up) = d
  BY OfHalves DEF lo, up
<1>8. FeistelStep(d, k) \in SUBSET Pos
  BY DEF FeistelStep, Halves
<1> QED BY <1>5, <1>6, <1>7, <1>8 DEF m

LEMMA FeistelMakeStep ==
    ASSUME PermInv, make, kind = "Feistel"
    PROVE  FeistelInv'
<1>1. FeistelInv /\ at = "make" /\ data = input /\ trace = <<>> /\ Rounds \in Nat \ {0}
  BY PermAssumption DEF PermInv, FeistelInv, make
<1>2. at' = "encrypt" /\ round' = 0 /\ UNCHANGED <<input, data, off, trace>>
  BY DEF make
<1>3. FeistelLog'
  BY <1>1, <1>2 DEF FeistelLog
<1> QED BY <1>1, <1>2, <1>3 DEF FeistelInv

LEMMA FeistelRoundStep ==
    ASSUME PermInv, FeistelRound
    PROVE  FeistelInv'
<1>1. kind = "Feistel" /\ FeistelInv /\ FeistelLog /\ at = "encrypt" /\ party \in {0, 1}
  BY DEF PermInv, FeistelInv, FeistelRound
<1>2. /\ UNCHANGED <<n, s, party, at, input, off>> /\ round' = round + 1 /\ round < Rounds
      /\ data' = FeistelStep(data, round) /\ trace' = Append(trace, Now)
  BY DEF FeistelRound, FeistelStep, Note, Now
<1>3. /\ round \in Nat /\ Rounds \in Nat /\ round \in 0 .. Rounds - 1 /\ Len(trace) = round
      /\ data \in SUBSET Pos /\ off = 0
      /\ trace \in Seq([data : SUBSET Pos, off : {0}])
  BY <1>1, <1>2, PermAssumption DEF FeistelInv, FeistelLog
<1>4. Now \in [data : SUBSET Pos, off : {0}] /\ Now.data = data
  BY <1>3 DEF Now
<1>5. /\ trace' \in Seq([data : SUBSET Pos, off : {0}]) /\ Len(trace') = round + 1
      /\ trace'[round + 1] = Now
      /\ \A k \in 1 .. round : trace'[k] = trace[k]
  BY <1>2, <1>3, <1>4
<1>6. \A a, k : FeistelStep(a, k)' = FeistelStep(a, k)
  BY <1>2, Rigid
<1>7. trace'[1].data = input
  <2>1. CASE round = 0
    BY <1>1, <1>4, <1>5, <2>1 DEF FeistelInv
  <2>2. CASE round # 0
    BY <1>1, <1>3, <1>5, <2>2 DEF FeistelLog
  <2> QED BY <2>1, <2>2
<1>8. ASSUME NEW k \in Nat, NEW a \in SUBSET Pos, NEW b \in SUBSET Pos,
             k >= 1, k + 1 <= round + 1, a = trace'[k].data, b = trace'[k + 1].data
      PROVE  b = FeistelStep(a, k - 1)
  <2>1. CASE k = round
    BY <1>1, <1>3, <1>4, <1>5, <1>8, <2>1 DEF FeistelInv
  <2>2. CASE k # round
    <3>1. k \in 1 .. round /\ k + 1 \in 1 .. round /\ k + 1 <= Len(trace)
      BY <1>3, <1>8, <2>2
    <3>2. a = trace[k].data /\ b = trace[k + 1].data
      BY <1>5, <1>8, <3>1
    <3>3. \A j \in Nat : \A x, y \in SUBSET Pos :
             j >= 1 /\ j + 1 <= Len(trace) /\ x = trace[j].data /\ y = trace[j + 1].data
                 => y = FeistelStep(x, j - 1)
      BY <1>1 DEF FeistelLog
    <3> QED BY <1>8, <3>1, <3>2, <3>3
  <2> QED BY <2>1, <2>2
<1>9. FeistelLog'
  <2>1. ASSUME NEW k \in Nat, NEW a \in SUBSET Pos, NEW b \in SUBSET Pos,
               k >= 1, k + 1 <= Len(trace'), a = trace'[k].data, b = trace'[k + 1].data
        PROVE  b = FeistelStep(a, k - 1)'
    BY <1>5, <1>6, <1>8, <2>1
  <2>2. trace' \in Seq([data : SUBSET Pos, off : {0}]) /\ (trace' # <<>> => trace'[1].data = input')
    BY <1>2, <1>5, <1>7
  <2> QED BY <2>1, <2>2 DEF FeistelLog
<1>10. data' \in SUBSET Pos
  BY <1>1, <1>2, <1>3, FeistelUndone
<1>11. ASSUME NEW k \in Nat, NEW a \in SUBSET Pos, k = round', a = trace'[k].data
       PROVE  data' = FeistelStep(a, k - 1)
  <2>1. a = data /\ k - 1 = round
    BY <1>2, <1>3, <1>4, <1>5, <1>11
  <2> QED BY <1>2, <2>1
<1>12. round' \in 0 .. Rounds /\ round' # 0
  BY <1>2, <1>3
<1> QED BY <1>1, <1>2, <1>3, <1>5, <1>6, <1>9, <1>10, <1>11, <1>12 DEF FeistelInv

LEMMA FeistelLogKept ==
    ASSUME FeistelLog, UNCHANGED <<n, s, party, input, trace>>
    PROVE  FeistelLog'
<1>1. \A a, k : FeistelStep(a, k)' = FeistelStep(a, k)
  BY Rigid
<1> QED BY <1>1 DEF FeistelLog

LEMMA FeistelInvRoundStep ==
    ASSUME PermInv, FeistelInvRound
    PROVE  FeistelInv'
<1>1. kind = "Feistel" /\ FeistelInv /\ FeistelLog /\ at = "decrypt" /\ party \in {0, 1}
  BY DEF PermInv, FeistelInv, FeistelInvRound
<1>2. /\ UNCHANGED <<n, s, party, at, input, off, trace>> /\ round' = round - 1 /\ round > 0
      /\ data' = Halves(Xor(Upper(data), roundMask(round - 1, Lower(data))), Lower(data))
  BY DEF FeistelInvRound
<1>3. /\ round \in Nat /\ Rounds \in Nat /\ round - 1 \in 0 .. Rounds - 1 /\ Len(trace) = Rounds
      /\ round \in 1 .. Rounds /\ off = 0
      /\ trace \in Seq([data : SUBSET Pos, off : {0}])
  BY <1>1, <1>2, PermAssumption DEF FeistelInv, FeistelLog
<1>4. PICK a \in SUBSET Pos : a = trace[round].data
  <2> DEFINE Row == [data : SUBSET Pos, off : {0}]
  <2>1. trace \in Seq(Row) /\ round \in 1 .. Len(trace)
    BY <1>3
  <2>2. \A e \in Row : e.data \in SUBSET Pos
    OBVIOUS
  <2> HIDE DEF Row
  <2>3. trace[round] \in Row
    BY <2>1
  <2> QED BY <2>2, <2>3
<1>5. data = FeistelStep(a, round - 1)
  BY <1>1, <1>3, <1>4 DEF FeistelInv
<1>6. data' = a
  BY <1>1, <1>2, <1>3, <1>5, FeistelUndone
<1>7. \A b, k : FeistelStep(b, k)' = FeistelStep(b, k)
  BY <1>2, Rigid
<1>8. FeistelLog'
  BY <1>1, <1>2, FeistelLogKept
<1>9. ASSUME round' = 0
      PROVE  data' = input
  <2>1. round = 1 /\ trace # <<>>
    BY <1>2, <1>3, <1>9
  <2> QED BY <1>1, <1>4, <1>6, <2>1 DEF FeistelLog
<1>10. ASSUME NEW k \in Nat, NEW b \in SUBSET Pos, k >= 1, k = round', b = trace'[k].data
       PROVE  data' = FeistelStep(b, k - 1)
  <2>1. k + 1 = round /\ k + 1 <= Len(trace) /\ b = trace[k].data
    BY <1>2, <1>3, <1>10
  <2> QED BY <1>1, <1>4, <1>6, <1>10, <2>1 DEF FeistelLog
<1>11. round' \in 0 .. Rounds
  BY <1>2, <1>3
<1> QED BY <1>1, <1>2, <1>3, <1>6, <1>7, <1>8, <1>9, <1>10, <1>11 DEF FeistelInv

-----------------------------------------------------------------------------
(* Hctr.                                                                   *)

LEMMA Parts ==
    ASSUME NEW a \in SUBSET First, NEW b \in SUBSET Rest
    PROVE  (a \cup b) \cap First = a /\ (a \cup b) \cap Rest = b
<1>1. BlockBits \in Nat /\ N \in Nat
  BY PermAssumption
<1>2. First \cap Rest = {}
  BY <1>1 DEF First, Rest
<1> QED BY <1>2

LEMMA OfParts ==
    ASSUME NEW d \in SUBSET Pos
    PROVE  (d \cap First) \cup (d \cap Rest) = d
<1>1. Pos \subseteq First \cup Rest
  BY PermAssumption DEF Pos, First, Rest
<1> QED BY <1>1

LEMMA HctrUndone ==
    ASSUME NEW d \in SUBSET Pos, party \in {0, 1}, NEW c, c = HctrStep(d)
    PROVE  LET rest == c \cap Rest
               uu == Xor(c \cap First, hash(party, rest))
               mm == dec(party, uu)
           IN crypt(mm, uu, mm, rest) = d
<1> DEFINE rest == d \cap Rest
           mm == Xor(d \cap First, hash(party, rest))
           uu == enc(party, mm)
           nonce == Xor(Xor(mm, uu), l(party))
           ks == stream(party, nonce)
           next == Xor(rest, ks)
           hh == hash(party, next)
<1>1. rest \in SUBSET Rest /\ hash(party, rest) \in SUBSET First
  BY PrimitiveAssumption
<1>2. mm \in SUBSET First
  <2>1. d \cap First \in SUBSET First
    OBVIOUS
  <2> HIDE DEF rest
  <2> QED BY <1>1, <2>1, XorIn
<1>3. Xor(mm, hash(party, rest)) = d \cap First
  BY XorTwice
<1> HIDE DEF mm
<1>4. uu \in SUBSET First /\ dec(party, uu) = mm
  BY <1>2, PrimitiveAssumption
<1> HIDE DEF uu
<1>5. nonce \in SUBSET First
  <2>1. l(party) \in SUBSET First
    BY PrimitiveAssumption
  <2>2. Xor(mm, uu) \in SUBSET First
    BY <1>2, <1>4, XorIn
  <2> QED BY <2>1, <2>2, XorIn
<1> HIDE DEF nonce
<1>6. ks \in SUBSET Rest
  BY <1>5, PrimitiveAssumption
<1> HIDE DEF ks, rest
<1>7. next \in SUBSET Rest /\ Xor(next, ks) = rest
  BY <1>1, <1>6, XorIn, XorTwice
<1> HIDE DEF next
<1>8. hh \in SUBSET First
  BY <1>7, PrimitiveAssumption
<1>9. c = Xor(uu, hh) \cup next
  BY DEF HctrStep, crypt, rest, mm, uu, nonce, ks, next
<1> HIDE DEF hh
<1>10. Xor(uu, hh) \in SUBSET First
  BY <1>4, <1>8, XorIn
<1>11. c \cap First = Xor(uu, hh) /\ c \cap Rest = next
  BY <1>7, <1>9, <1>10, Parts
<1>12. Xor(c \cap First, hash(party, c \cap Rest)) = uu
  BY <1>11, XorTwice DEF hh
<1>13. crypt(mm, uu, mm, next) = Xor(mm, hash(party, rest)) \cup rest
  BY <1>7 DEF crypt, nonce, ks
<1>14. (d \cap First) \cup rest = d
  BY OfParts DEF rest
<1> QED BY <1>3, <1>4, <1>11, <1>12, <1>13, <1>14

LEMMA HctrEncryptStep ==
    ASSUME PermInv, HctrEncrypt
    PROVE  HctrInv'
<1>1. kind = "Hctr" /\ HctrInv /\ at = "encrypt" /\ data = input /\ round = 0 /\ input \in SUBSET Pos
  BY DEF PermInv, HctrInv, HctrEncrypt
<1>2. UNCHANGED <<n, s, party, at, input>> /\ round' = 1 /\ data' = HctrStep(data)
  BY <1>1 DEF HctrEncrypt, HctrStep
<1>3. \A a : HctrStep(a)' = HctrStep(a)
  BY <1>2, Rigid
<1>4. ASSUME NEW d \in SUBSET Pos, d = input'
      PROVE  data' = HctrStep(d)'
  <2>1. d = data
    BY <1>1, <1>2, <1>4
  <2> QED BY <1>2, <1>3, <2>1
<1> QED BY <1>1, <1>2, <1>4 DEF HctrInv

LEMMA HctrDecryptStep ==
    ASSUME PermInv, HctrDecrypt
    PROVE  HctrInv'
<1>1. kind = "Hctr" /\ HctrInv /\ at = "decrypt" /\ round = 1 /\ input \in SUBSET Pos /\ party \in {0, 1}
  BY DEF PermInv, HctrInv, HctrDecrypt
<1>2. PICK d \in SUBSET Pos : d = input
  BY <1>1
<1>3. data = HctrStep(d)
  BY <1>1, <1>2 DEF HctrInv
<1>4. data' = d
  BY <1>1, <1>3, HctrUndone DEF HctrDecrypt
<1>5. UNCHANGED <<at, input>> /\ round' = 0
  BY <1>1 DEF HctrDecrypt
<1> QED BY <1>1, <1>2, <1>4, <1>5 DEF HctrInv

-----------------------------------------------------------------------------
(* Xoodoo: planes that are moved and rotated.                              *)

LEMMA LaneModulus ==
    ASSUME NEW x \in 0 .. 3, NEW d \in Nat
    PROVE  (x + d) % 4 \in 0 .. 3 /\ (d % 4 = 0 => (x + d) % 4 = x)
OBVIOUS

LEMMA BitModulus ==
    ASSUME NEW z \in 0 .. 31, NEW d \in Nat
    PROVE  (z + d) % 32 \in 0 .. 31 /\ (d % 32 = 0 => (z + d) % 32 = z)
OBVIOUS

\* A bit is a column, and a move of a column is a column.
LEMMA Moved ==
    ASSUME NEW c \in Column, NEW dx \in Nat, NEW dz \in Nat
    PROVE  /\ c = <<c[1], c[2]>> /\ c[1] \in 0 .. 3 /\ c[2] \in 0 .. 31
           /\ <<(c[1] + dx) % 4, (c[2] + dz) % 32>> \in Column
<1>1. c = <<c[1], c[2]>> /\ c[1] \in 0 .. 3 /\ c[2] \in 0 .. 31
  BY DEF Column, LaneBits
<1>2. (c[1] + dx) % 4 \in 0 .. 3 /\ (c[2] + dz) % 32 \in 0 .. 31
  BY <1>1, LaneModulus, BitModulus
<1> QED BY <1>1, <1>2 DEF Column, LaneBits

LEMMA ShiftElements ==
    ASSUME NEW A, NEW dx, NEW dz
    PROVE  Shift(A, dx, dz) = {<<(c[1] + dx) % 4, (c[2] + dz) % 32>> : c \in A}
BY DEF Shift, LaneBits

\* A moved plane is a plane.
LEMMA ShiftIn32 ==
    ASSUME NEW A \in SUBSET Column, NEW dx \in Nat, NEW dz \in Nat
    PROVE  Shift(A, dx, dz) \in SUBSET Column
BY Moved, ShiftElements

\* Moves add up.
LEMMA ShiftShift ==
    ASSUME NEW A \in SUBSET Column, NEW dx \in Nat, NEW dz \in Nat, NEW ex \in Nat, NEW ez \in Nat
    PROVE  Shift(Shift(A, dx, dz), ex, ez) = Shift(A, dx + ex, dz + ez)
<1>1. ASSUME NEW x \in 0 .. 3, NEW z \in 0 .. 31
      PROVE  /\ (((x + dx) % 4) + ex) % 4 = (x + (dx + ex)) % 4
             /\ (((z + dz) % 32) + ez) % 32 = (z + (dz + ez)) % 32
  OBVIOUS
<1> DEFINE f(c) == <<(c[1] + dx) % 4, (c[2] + dz) % 32>>
           g(c) == <<(c[1] + ex) % 4, (c[2] + ez) % 32>>
           h(c) == <<(c[1] + (dx + ex)) % 4, (c[2] + (dz + ez)) % 32>>
<1>2. ASSUME NEW c \in A PROVE g(f(c)) = h(c)
  <2>1. c[1] \in 0 .. 3 /\ c[2] \in 0 .. 31
    BY Moved
  <2>2. f(c)[1] = (c[1] + dx) % 4 /\ f(c)[2] = (c[2] + dz) % 32
    OBVIOUS
  <2> QED BY <1>1, <2>1, <2>2
<1>3. Shift(A, dx, dz) = {f(c) : c \in A} /\ Shift(A, dx + ex, dz + ez) = {h(c) : c \in A}
  BY ShiftElements
<1>4. Shift(Shift(A, dx, dz), ex, ez) = {g(c) : c \in Shift(A, dx, dz)}
  BY ShiftElements
<1> HIDE DEF f, g, h
<1>5. {g(c) : c \in {f(d) : d \in A}} = {g(f(d)) : d \in A}
  OBVIOUS
<1> QED BY <1>2, <1>3, <1>4, <1>5

\* Four lanes and 32 bits are the way round.
LEMMA ShiftPeriod ==
    ASSUME NEW A \in SUBSET Column, NEW dx \in Nat, NEW dz \in Nat, dx % 4 = 0, dz % 32 = 0
    PROVE  Shift(A, dx, dz) = A
<1>1. ASSUME NEW c \in A PROVE <<(c[1] + dx) % 4, (c[2] + dz) % 32>> = c
  <2>1. c = <<c[1], c[2]>> /\ c[1] \in 0 .. 3 /\ c[2] \in 0 .. 31
    BY Moved
  <2>2. (c[1] + dx) % 4 = c[1] /\ (c[2] + dz) % 32 = c[2]
    BY <2>1, LaneModulus, BitModulus
  <2> QED BY <2>1, <2>2
<1>2. Shift(A, dx, dz) = {<<(c[1] + dx) % 4, (c[2] + dz) % 32>> : c \in A}
  BY ShiftElements
<1> QED BY <1>1, <1>2

\* A move is one-to-one.
LEMMA ShiftInjective ==
    ASSUME NEW c \in Column, NEW d \in Column, NEW dx \in Nat, NEW dz \in Nat,
           (c[1] + dx) % 4 = (d[1] + dx) % 4, (c[2] + dz) % 32 = (d[2] + dz) % 32
    PROVE  c = d
<1>1. /\ c = <<c[1], c[2]>> /\ c[1] \in 0 .. 3 /\ c[2] \in 0 .. 31
      /\ d = <<d[1], d[2]>> /\ d[1] \in 0 .. 3 /\ d[2] \in 0 .. 31
  BY Moved
<1>2. c[1] = d[1]
  BY <1>1
<1>3. c[2] = d[2]
  BY <1>1
<1> QED BY <1>1, <1>2, <1>3

\* A move of a sum is the sum of the moved planes.
LEMMA ShiftXor ==
    ASSUME NEW A \in SUBSET Column, NEW B \in SUBSET Column, NEW dx \in Nat, NEW dz \in Nat
    PROVE  Shift(Xor(A, B), dx, dz) = Xor(Shift(A, dx, dz), Shift(B, dx, dz))
<1> DEFINE f(c) == <<(c[1] + dx) % 4, (c[2] + dz) % 32>>
<1>1. ASSUME NEW c \in Column, NEW d \in Column, f(c) = f(d) PROVE c = d
  <2>1. (c[1] + dx) % 4 = (d[1] + dx) % 4 /\ (c[2] + dz) % 32 = (d[2] + dz) % 32
    BY <1>1
  <2> QED BY <2>1, ShiftInjective
<1>2. \A S : Shift(S, dx, dz) = {f(c) : c \in S}
  BY ShiftElements
<1> HIDE DEF f
<1>3. {f(c) : c \in Xor(A, B)} = Xor({f(c) : c \in A}, {f(c) : c \in B})
  <2>1. \A c \in Xor(A, B) : f(c) \in Xor({f(d) : d \in A}, {f(d) : d \in B})
    BY <1>1 DEF Xor
  <2>2. \A y \in Xor({f(d) : d \in A}, {f(d) : d \in B}) : \E c \in Xor(A, B) : y = f(c)
    BY DEF Xor
  <2> QED BY <2>1, <2>2
<1> QED BY <1>2, <1>3

-----------------------------------------------------------------------------
(* Theta and its inverse.                                                  *)

\* What mix adds.
q(A, p) == Xor(Shift(A, p, 5 * p), Shift(A, p, 14 * p))

LEMMA XorLaws ==
    /\ \A A, B : Xor(A, B) = Xor(B, A)
    /\ \A A, B, C : Xor(Xor(A, B), C) = Xor(A, Xor(B, C))
    /\ \A A, B : Xor(A, Xor(A, B)) = B
    /\ \A A : Xor(A, {}) = A /\ Xor(A, A) = {}
BY DEF Xor

LEMMA QIn ==
    ASSUME NEW A \in SUBSET Column, NEW p \in Nat
    PROVE  q(A, p) \in SUBSET Column /\ mix(A, p) \in SUBSET Column
<1>1. 5 * p \in Nat /\ 14 * p \in Nat
  OBVIOUS
<1>2. q(A, p) \in SUBSET Column
  BY <1>1, ShiftIn32, XorIn DEF q
<1> QED BY <1>2, XorIn DEF mix, q

LEMMA QXor ==
    ASSUME NEW A \in SUBSET Column, NEW B \in SUBSET Column, NEW p \in Nat
    PROVE  q(Xor(A, B), p) = Xor(q(A, p), q(B, p))
<1>1. 5 * p \in Nat /\ 14 * p \in Nat
  OBVIOUS
<1>2. /\ Shift(Xor(A, B), p, 5 * p) = Xor(Shift(A, p, 5 * p), Shift(B, p, 5 * p))
      /\ Shift(Xor(A, B), p, 14 * p) = Xor(Shift(A, p, 14 * p), Shift(B, p, 14 * p))
  BY <1>1, ShiftXor
<1>3. \A S, T, U, V : Xor(Xor(S, T), Xor(U, V)) = Xor(Xor(S, U), Xor(T, V))
  BY DEF Xor
<1> QED BY <1>2, <1>3 DEF q

\* Squaring doubles the distance: the two middle terms cancel.
LEMMA QSquare ==
    ASSUME NEW A \in SUBSET Column, NEW p \in Nat
    PROVE  q(q(A, p), p) = q(A, 2 * p)
<1> DEFINE u == 5 * p
           v == 14 * p
<1>1. u \in Nat /\ v \in Nat /\ u + u = 5 * (2 * p) /\ v + v = 14 * (2 * p) /\ u + v = v + u /\ p + p = 2 * p
  OBVIOUS
<1>2. Shift(A, p, u) \in SUBSET Column /\ Shift(A, p, v) \in SUBSET Column
  BY <1>1, ShiftIn32
<1>3. q(q(A, p), p) = Xor(q(Shift(A, p, u), p), q(Shift(A, p, v), p))
  BY <1>2, QXor DEF q
<1>4. /\ q(Shift(A, p, u), p) = Xor(Shift(A, p + p, u + u), Shift(A, p + p, u + v))
      /\ q(Shift(A, p, v), p) = Xor(Shift(A, p + p, v + u), Shift(A, p + p, v + v))
  <2> HIDE DEF u, v
  <2>1. /\ q(Shift(A, p, u), p) = Xor(Shift(Shift(A, p, u), p, u), Shift(Shift(A, p, u), p, v))
        /\ q(Shift(A, p, v), p) = Xor(Shift(Shift(A, p, v), p, u), Shift(Shift(A, p, v), p, v))
    BY DEF q, u, v
  <2> QED BY <1>1, <2>1, ShiftShift
<1>5. q(A, 2 * p) = Xor(Shift(A, p + p, u + u), Shift(A, p + p, v + v))
  BY <1>1 DEF q
<1> HIDE DEF u, v
<1>6. \A S, T, U : Xor(Xor(S, T), Xor(T, U)) = Xor(S, U)
  BY DEF Xor
<1> QED BY <1>1, <1>3, <1>4, <1>5, <1>6

\* Two turns at the same distance are one turn at the double distance.
LEMMA MixMix ==
    ASSUME NEW A \in SUBSET Column, NEW p \in Nat
    PROVE  mix(mix(A, p), p) = mix(A, 2 * p)
<1>1. q(A, p) \in SUBSET Column
  BY QIn
<1>2. q(Xor(A, q(A, p)), p) = Xor(q(A, p), q(A, 2 * p))
  BY <1>1, QXor, QSquare
<1>3. \A B, k : mix(B, k) = Xor(B, q(B, k))
  BY DEF mix, q
<1>4. mix(mix(A, p), p) = Xor(Xor(A, q(A, p)), Xor(q(A, p), q(A, 2 * p)))
  BY <1>2, <1>3
<1>5. \A S, T, U : Xor(Xor(S, T), Xor(T, U)) = Xor(S, U)
  BY DEF Xor
<1> QED BY <1>3, <1>4, <1>5

\* Five turns undo the addition of q: (1 + q)^32 is the identity.
LEMMA MixUndone ==
    ASSUME NEW A \in SUBSET Column
    PROVE  mix(mix(mix(mix(mix(mix(A, 1), 1), 2), 4), 8), 16) = A
<1>1. mix(mix(A, 1), 1) = mix(A, 2 * 1)
  BY MixMix
<1>2. mix(mix(A, 2), 2) = mix(A, 2 * 2)
  BY MixMix
<1>3. mix(mix(A, 4), 4) = mix(A, 2 * 4)
  BY MixMix
<1>4. mix(mix(A, 8), 8) = mix(A, 2 * 8)
  BY MixMix
<1>5. mix(mix(A, 16), 16) = mix(A, 2 * 16)
  BY MixMix
<1>6. 2 * 1 = 2 /\ 2 * 2 = 4 /\ 2 * 4 = 8 /\ 2 * 8 = 16 /\ 2 * 16 = 32
  OBVIOUS
<1>7. mix(A, 32) = A
  <2>1. 5 * 32 = 160 /\ 14 * 32 = 448 /\ 32 % 4 = 0 /\ 160 % 32 = 0 /\ 448 % 32 = 0
    OBVIOUS
  <2>2. Shift(A, 32, 160) = A /\ Shift(A, 32, 448) = A
    BY <2>1, ShiftPeriod
  <2> QED BY <2>1, <2>2, XorLaws DEF mix
<1> QED BY <1>1, <1>2, <1>3, <1>4, <1>5, <1>6, <1>7

\* The parts of a state.
LEMMA StateParts ==
    /\ \A a \in State : /\ a[1] \in SUBSET Column /\ a[2] \in SUBSET Column /\ a[3] \in SUBSET Column
                        /\ a = <<a[1], a[2], a[3]>>
    /\ \A A, B, C \in SUBSET Column : <<A, B, C>> \in State
<1>1. ASSUME NEW a \in State
      PROVE  /\ a[1] \in SUBSET Column /\ a[2] \in SUBSET Column /\ a[3] \in SUBSET Column
             /\ a = <<a[1], a[2], a[3]>>
  <2>1. a[1] \in SUBSET Column /\ a[2] \in SUBSET Column /\ a[3] \in SUBSET Column
    BY DEF State
  <2>2. DOMAIN a = 1 .. 3 /\ a = [i \in 1 .. 3 |-> a[i]]
    BY DEF State
  <2> DEFINE b == <<a[1], a[2], a[3]>>
  <2>3. b \in Seq(SUBSET Column) /\ Len(b) = 3 /\ b[1] = a[1] /\ b[2] = a[2] /\ b[3] = a[3]
    BY <2>1
  <2>4. DOMAIN b = 1 .. 3 /\ b = [i \in 1 .. 3 |-> b[i]]
    BY <2>3
  <2>5. \A i \in 1 .. 3 : b[i] = a[i]
    BY <2>3
  <2> HIDE DEF b
  <2>6. b = a
    BY <2>2, <2>4, <2>5
  <2> QED BY <2>1, <2>6 DEF b
<1>2. ASSUME NEW A \in SUBSET Column, NEW B \in SUBSET Column, NEW C \in SUBSET Column
      PROVE  <<A, B, C>> \in State
  BY DEF State
<1> QED BY <1>1, <1>2

\* theta undoes Theta.
LEMMA ThetaUndone ==
    ASSUME NEW a \in State
    PROVE  Theta(a) \in State /\ theta(Theta(a)) = a
<1> DEFINE P == Parity(a)
           e == q(P, 1)
           b == Theta(a)
<1>1. a[1] \in SUBSET Column /\ a[2] \in SUBSET Column /\ a[3] \in SUBSET Column /\ a = <<a[1], a[2], a[3]>>
  BY StateParts
<1>2. P \in SUBSET Column
  BY <1>1, XorIn DEF Parity
<1>3. e \in SUBSET Column
  BY <1>2, QIn
<1>4. b = <<Xor(a[1], e), Xor(a[2], e), Xor(a[3], e)>>
  BY DEF Theta, AddToAll, q
<1>5. Parity(b) = mix(P, 1)
  <2>1. \A A, B, C, D : Xor(Xor(Xor(A, D), Xor(B, D)), Xor(C, D)) = Xor(Xor(Xor(A, B), C), D)
    BY DEF Xor
  <2>2. mix(P, 1) = Xor(P, e)
    BY DEF mix, q
  <2>3. Parity(b) = Xor(Xor(b[1], b[2]), b[3])
    BY DEF Parity
  <2>4. b[1] = Xor(a[1], e) /\ b[2] = Xor(a[2], e) /\ b[3] = Xor(a[3], e)
    BY <1>4
  <2>5. P = Xor(Xor(a[1], a[2]), a[3])
    BY DEF Parity
  <2> HIDE DEF P, e, b
  <2> QED BY <2>1, <2>2, <2>3, <2>4, <2>5
<1>6. b \in State
  BY <1>1, <1>3, <1>4, XorIn, StateParts
<1>7. theta(b) = AddToAll(b, e)
  <2>1. mix(mix(mix(mix(mix(Parity(b), 1), 2), 4), 8), 16) = P
    BY <1>2, <1>5, MixUndone
  <2>2. mix(P, 1) = Xor(P, e)
    BY DEF mix, q
  <2>3. theta(b) = AddToAll(b, Xor(P, Xor(P, e)))
    <3> HIDE DEF P, b, e
    <3> QED BY <1>5, <2>1, <2>2 DEF theta
  <2> HIDE DEF P, e, b
  <2> QED BY <2>3, XorLaws
<1> HIDE DEF e, b
<1>8. AddToAll(b, e) = <<Xor(Xor(a[1], e), e), Xor(Xor(a[2], e), e), Xor(Xor(a[3], e), e)>>
  BY <1>4 DEF AddToAll
<1> QED BY <1>1, <1>6, <1>7, <1>8, XorTwice DEF b

-----------------------------------------------------------------------------
(* A round of Xoodoo and its inverse.                                      *)

\* ShiftBack undoes Shift: the two moves add up to the way round.
LEMMA ShiftBackUndone ==
    ASSUME NEW A \in SUBSET Column, NEW dx \in Nat, NEW dz \in Nat, NEW ex \in Nat, NEW ez \in Nat,
           dx + ex = 4, dz + ez = 32
    PROVE  ShiftBack(Shift(A, dx, dz), dx, dz) = A
<1>1. Shift(Shift(A, dx, dz), ex, ez) = Shift(A, dx + ex, dz + ez)
  BY ShiftShift
<1>2. 4 % 4 = 0 /\ 32 % 32 = 0
  OBVIOUS
<1>3. Shift(A, 4, 32) = A
  BY <1>2, ShiftPeriod
<1>4. Shift(Shift(A, dx, dz), ex, ez) = A
  BY <1>1, <1>3
<1>5. ex = 4 - dx /\ ez = 32 - dz
  OBVIOUS
<1>6. \A B : ShiftBack(B, dx, dz) = Shift(B, 4 - dx, 32 - dz)
  BY DEF ShiftBack, LaneBits
<1> QED BY <1>4, <1>5, <1>6

LEMMA ShiftUndone32 ==
    ASSUME NEW A \in SUBSET Column
    PROVE  /\ ShiftBack(Shift(A, 1, 0), 1, 0) = A
           /\ ShiftBack(Shift(A, 0, 11), 0, 11) = A
           /\ ShiftBack(Shift(A, 0, 1), 0, 1) = A
           /\ ShiftBack(Shift(A, 2, 8), 2, 8) = A
<1>1. ASSUME NEW dx \in Nat, NEW dz \in Nat, dx <= 4, dz <= 32
      PROVE  ShiftBack(Shift(A, dx, dz), dx, dz) = A
  <2>1. PICK ex \in Nat : dx + ex = 4
    <3>1. 4 - dx \in Nat /\ dx + (4 - dx) = 4
      BY <1>1
    <3> QED BY <3>1
  <2>2. PICK ez \in Nat : dz + ez = 32
    <3>1. 32 - dz \in Nat /\ dz + (32 - dz) = 32
      BY <1>1
    <3> QED BY <3>1
  <2> QED BY <2>1, <2>2, ShiftBackUndone
<1>2. 0 <= 4 /\ 1 <= 4 /\ 2 <= 4 /\ 0 <= 32 /\ 1 <= 32 /\ 8 <= 32 /\ 11 <= 32
      /\ 0 \in Nat /\ 1 \in Nat /\ 2 \in Nat /\ 8 \in Nat /\ 11 \in Nat
  OBVIOUS
<1> QED BY <1>1, <1>2, Zenon

LEMMA WestUndone ==
    ASSUME NEW a \in State
    PROVE  Rho_west(a) \in State /\ rhoWest(Rho_west(a)) = a
<1>1. a[1] \in SUBSET Column /\ a[2] \in SUBSET Column /\ a[3] \in SUBSET Column /\ a = <<a[1], a[2], a[3]>>
  BY StateParts
<1>2. Rho_west(a) = <<a[1], Shift(a[2], 1, 0), Shift(a[3], 0, 11)>>
  BY DEF Rho_west
<1>3. Shift(a[2], 1, 0) \in SUBSET Column /\ Shift(a[3], 0, 11) \in SUBSET Column
  BY <1>1, ShiftIn32
<1>4. ShiftBack(Shift(a[2], 1, 0), 1, 0) = a[2] /\ ShiftBack(Shift(a[3], 0, 11), 0, 11) = a[3]
  BY <1>1, ShiftUndone32
<1>5. rhoWest(Rho_west(a)) = <<a[1], ShiftBack(Shift(a[2], 1, 0), 1, 0), ShiftBack(Shift(a[3], 0, 11), 0, 11)>>
  BY <1>2 DEF rhoWest
<1> QED BY <1>1, <1>2, <1>3, <1>4, <1>5, StateParts

LEMMA EastUndone ==
    ASSUME NEW a \in State
    PROVE  Rho_east(a) \in State /\ rhoEast(Rho_east(a)) = a
<1>1. a[1] \in SUBSET Column /\ a[2] \in SUBSET Column /\ a[3] \in SUBSET Column /\ a = <<a[1], a[2], a[3]>>
  BY StateParts
<1>2. Rho_east(a) = <<a[1], Shift(a[2], 0, 1), Shift(a[3], 2, 8)>>
  BY DEF Rho_east
<1>3. Shift(a[2], 0, 1) \in SUBSET Column /\ Shift(a[3], 2, 8) \in SUBSET Column
  BY <1>1, ShiftIn32
<1>4. ShiftBack(Shift(a[2], 0, 1), 0, 1) = a[2] /\ ShiftBack(Shift(a[3], 2, 8), 2, 8) = a[3]
  BY <1>1, ShiftUndone32
<1>5. rhoEast(Rho_east(a)) = <<a[1], ShiftBack(Shift(a[2], 0, 1), 0, 1), ShiftBack(Shift(a[3], 2, 8), 2, 8)>>
  BY <1>2 DEF rhoEast
<1> QED BY <1>1, <1>2, <1>3, <1>4, <1>5, StateParts

LEMMA IotaUndone ==
    ASSUME NEW a \in State, NEW c \in SUBSET (0 .. 31)
    PROVE  Iota(a, c) \in State /\ Iota(Iota(a, c), c) = a
<1> DEFINE k == {<<0, z>> : z \in c}
<1>1. a[1] \in SUBSET Column /\ a[2] \in SUBSET Column /\ a[3] \in SUBSET Column /\ a = <<a[1], a[2], a[3]>>
  BY StateParts
<1>2. k \in SUBSET Column
  BY DEF Column, LaneBits
<1>3. \A b : Iota(b, c) = <<Xor(b[1], k), b[2], b[3]>>
  BY DEF Iota
<1> HIDE DEF k
<1>4. Iota(a, c) = <<Xor(a[1], k), a[2], a[3]>> /\ Iota(Iota(a, c), c) = <<Xor(Xor(a[1], k), k), a[2], a[3]>>
  BY <1>3
<1>5. Xor(a[1], k) \in SUBSET Column
  BY <1>1, <1>2, XorIn
<1> QED BY <1>1, <1>4, <1>5, XorTwice, StateParts

\* Three sums, column by column, are undone by the same three sums.
LEMMA ChiUndone ==
    ASSUME NEW a \in State
    PROVE  Chi(a) \in State /\ chi(Chi(a)) = a
<1> DEFINE A == a[1]
           B == a[2]
           C == a[3]
           A1 == Xor(A, C \ B)
           B1 == Xor(B, A1 \ C)
           C1 == Xor(C, B1 \ A1)
           b == <<A1, B1, C1>>
<1>1. a[1] \in SUBSET Column /\ a[2] \in SUBSET Column /\ a[3] \in SUBSET Column /\ a = <<a[1], a[2], a[3]>>
  BY StateParts
<1>2. Chi(a) = b
  BY DEF Chi
<1>3. A1 \in SUBSET Column /\ B1 \in SUBSET Column /\ C1 \in SUBSET Column
  BY <1>1 DEF Xor
<1>4. /\ Xor(A1, C1 \ B1) = A /\ Xor(B1, A \ C1) = B /\ Xor(C1, B \ A) = C
  <2>1. A1 = Xor(A, C \ B) /\ B1 = Xor(B, A1 \ C) /\ C1 = Xor(C, B1 \ A1)
    OBVIOUS
  <2> HIDE DEF A, B, C, A1, B1, C1
  <2>2. \A c : (c \in A1) <=> ~((c \in A) <=> (c \in C /\ c \notin B))
    BY <2>1 DEF Xor
  <2>3. \A c : (c \in B1) <=> ~((c \in B) <=> (c \in A1 /\ c \notin C))
    BY <2>1 DEF Xor
  <2>4. \A c : (c \in C1) <=> ~((c \in C) <=> (c \in B1 /\ c \notin A1))
    BY <2>1 DEF Xor
  <2>5. \A c : (c \in Xor(A1, C1 \ B1)) <=> ~((c \in A1) <=> (c \in C1 /\ c \notin B1))
    BY <2>1 DEF Xor
  <2>6. \A c : (c \in Xor(B1, A \ C1)) <=> ~((c \in B1) <=> (c \in A /\ c \notin C1))
    BY <2>1 DEF Xor
  <2>7. \A c : (c \in Xor(C1, B \ A)) <=> ~((c \in C1) <=> (c \in B /\ c \notin A))
    BY <2>1 DEF Xor
  <2>8. \A c : c \in Xor(A1, C1 \ B1) <=> c \in A
    BY <2>2, <2>3, <2>4, <2>5
  <2>9. \A c : c \in Xor(B1, A \ C1) <=> c \in B
    BY <2>2, <2>3, <2>4, <2>6
  <2>20. \A c : c \in Xor(C1, B \ A) <=> c \in C
    BY <2>2, <2>3, <2>4, <2>7
  <2> QED BY <2>8, <2>9, <2>20
<1> HIDE DEF A1, B1, C1
<1>5. b[1] = A1 /\ b[2] = B1 /\ b[3] = C1
  OBVIOUS
<1>6. Chi(b) = <<a[1], a[2], a[3]>>
  <2> HIDE DEF b
  <2> QED BY <1>4, <1>5 DEF Chi
<1> QED BY <1>1, <1>2, <1>3, <1>6, StateParts DEF chi

\* run of xoodoo_inv.h undoes a round of Xoodoo, whatever its constant.
LEMMA XoodooUndone ==
    ASSUME NEW a \in State, NEW c \in SUBSET (0 .. 31)
    PROVE  Round(a, c) \in State /\ run(Round(a, c), c) = a
<1> DEFINE a1 == Theta(a)
           a2 == Rho_west(a1)
           a3 == Iota(a2, c)
           a4 == Chi(a3)
           a5 == Rho_east(a4)
<1>1. a1 \in State /\ theta(a1) = a
  BY ThetaUndone
<1>0. Round(a, c) = a5
  BY DEF Round
<1> HIDE DEF a1
<1>2. a2 \in State /\ rhoWest(a2) = a1
  BY <1>1, WestUndone
<1> HIDE DEF a2
<1>3. a3 \in State /\ Iota(a3, c) = a2
  BY <1>2, IotaUndone
<1> HIDE DEF a3
<1>4. a4 \in State /\ chi(a4) = a3
  BY <1>3, ChiUndone
<1> HIDE DEF a4
<1>5. a5 \in State /\ rhoEast(a5) = a4
  BY <1>4, EastUndone
<1> HIDE DEF a5
<1> QED BY <1>0, <1>1, <1>2, <1>3, <1>4, <1>5 DEF run

\* The twelve constants, which run takes in the reverse order.
LEMMA Constants ==
    /\ Len(RC) = 12 /\ Len(rc) = 12
    /\ \A k \in 1 .. 12 : RC[k] \in SUBSET (0 .. 31) /\ rc[(Len(rc) - k) + 1] = RC[k]
<1>1. Len(RC) = 12
  BY DEF RC
<1>2. Len(rc) = 12
  BY DEF rc
<1>3. /\ RC[1] = {3, 4, 6} /\ RC[2] = {3, 4, 5} /\ RC[3] = {6, 7, 8, 9} /\ RC[4] = {4, 6, 7}
      /\ RC[5] = {5, 8} /\ RC[6] = {2, 4} /\ RC[7] = {5, 6} /\ RC[8] = {2, 3, 5}
      /\ RC[9] = {7, 8, 9} /\ RC[10] = {4, 5, 6, 7} /\ RC[11] = {5, 7, 8} /\ RC[12] = {1, 4}
  BY DEF RC
<1>4. /\ rc[12] = {3, 4, 6} /\ rc[11] = {3, 4, 5} /\ rc[10] = {6, 7, 8, 9} /\ rc[9] = {4, 6, 7}
      /\ rc[8] = {5, 8} /\ rc[7] = {2, 4} /\ rc[6] = {5, 6} /\ rc[5] = {2, 3, 5}
      /\ rc[4] = {7, 8, 9} /\ rc[3] = {4, 5, 6, 7} /\ rc[2] = {5, 7, 8} /\ rc[1] = {1, 4}
  BY DEF rc
<1>5. \A k \in 1 .. 12 : k = 1 \/ k = 2 \/ k = 3 \/ k = 4 \/ k = 5 \/ k = 6 \/ k = 7 \/ k = 8
                         \/ k = 9 \/ k = 10 \/ k = 11 \/ k = 12
  OBVIOUS
<1>6. \A k \in 1 .. 12 : RC[k] \in SUBSET (0 .. 31)
  BY <1>3, <1>5
<1>7. \A k \in 1 .. 12 : (12 - k) + 1 = 13 - k
  OBVIOUS
<1>9. /\ rc[12] = RC[1] /\ rc[11] = RC[2] /\ rc[10] = RC[3] /\ rc[9] = RC[4] /\ rc[8] = RC[5] /\ rc[7] = RC[6]
      /\ rc[6] = RC[7] /\ rc[5] = RC[8] /\ rc[4] = RC[9] /\ rc[3] = RC[10] /\ rc[2] = RC[11] /\ rc[1] = RC[12]
  BY <1>3, <1>4
<1>8. \A k \in 1 .. 12 : rc[13 - k] = RC[k]
  BY <1>5, <1>9
<1> QED BY <1>1, <1>2, <1>6, <1>7, <1>8

LEMMA XooRigid == \A a, k : XooStep(a, k)' = XooStep(a, k)
BY DEF XooStep

LEMMA XooStepUndone ==
    ASSUME NEW a \in State, NEW k \in 0 .. 11
    PROVE  XooStep(a, k) \in State /\ run(XooStep(a, k), rc[(Len(rc) - (k + 1)) + 1]) = a
<1>1. k + 1 \in 1 .. 12
  OBVIOUS
<1>2. RC[k + 1] \in SUBSET (0 .. 31) /\ rc[(Len(rc) - (k + 1)) + 1] = RC[k + 1]
  BY <1>1, Constants
<1> QED BY <1>2, XoodooUndone DEF XooStep

LEMMA XooMakeStep ==
    ASSUME PermInv, make, kind = "Xoodoo"
    PROVE  XooInv'
<1>1. XooInv /\ at = "make" /\ data = input /\ trace = <<>>
  BY DEF PermInv, XooInv, make
<1>2. at' = "encrypt" /\ round' = 0 /\ UNCHANGED <<input, data, off, trace>>
  BY DEF make
<1>3. XooLog'
  BY <1>1, <1>2 DEF XooLog
<1> QED BY <1>1, <1>2, <1>3 DEF XooInv

LEMMA XooRoundStep ==
    ASSUME PermInv, XoodooRound
    PROVE  XooInv'
<1>1. kind = "Xoodoo" /\ XooInv /\ XooLog /\ at = "encrypt" /\ party \in {0, 1}
  BY DEF PermInv, XooInv, XoodooRound
<1>2. /\ UNCHANGED <<n, s, party, at, input, off>> /\ round' = round + 1 /\ round < 12
      /\ data' = XooStep(data, round) /\ trace' = Append(trace, Now)
  BY Constants DEF XoodooRound, XooStep, Note, Now
<1>3. /\ round \in Nat /\ round \in 0 .. 11 /\ Len(trace) = round
      /\ data \in State /\ off = 0
      /\ trace \in Seq([data : State, off : {0}])
  BY <1>1, <1>2 DEF XooInv, XooLog
<1>4. Now \in [data : State, off : {0}] /\ Now.data = data
  BY <1>3 DEF Now
<1>5. /\ trace' \in Seq([data : State, off : {0}]) /\ Len(trace') = round + 1
      /\ trace'[round + 1] = Now
      /\ \A k \in 1 .. round : trace'[k] = trace[k]
  BY <1>2, <1>3, <1>4
<1>6. \A a, k : XooStep(a, k)' = XooStep(a, k)
  BY XooRigid
<1>7. trace'[1].data = input
  <2>1. CASE round = 0
    BY <1>1, <1>4, <1>5, <2>1 DEF XooInv
  <2>2. CASE round # 0
    BY <1>1, <1>3, <1>5, <2>2 DEF XooLog
  <2> QED BY <2>1, <2>2
<1>8. ASSUME NEW k \in Nat, NEW a \in State, NEW b \in State,
             k >= 1, k + 1 <= round + 1, a = trace'[k].data, b = trace'[k + 1].data
      PROVE  b = XooStep(a, k - 1)
  <2>1. CASE k = round
    BY <1>1, <1>3, <1>4, <1>5, <1>8, <2>1 DEF XooInv
  <2>2. CASE k # round
    <3>1. k \in 1 .. round /\ k + 1 \in 1 .. round /\ k + 1 <= Len(trace)
      BY <1>3, <1>8, <2>2
    <3>2. a = trace[k].data /\ b = trace[k + 1].data
      BY <1>5, <1>8, <3>1
    <3> QED BY <1>1, <1>8, <3>1, <3>2 DEF XooLog
  <2> QED BY <2>1, <2>2
<1>9. XooLog'
  <2>1. ASSUME NEW k \in Nat, NEW a \in State, NEW b \in State,
               k >= 1, k + 1 <= Len(trace'), a = trace'[k].data, b = trace'[k + 1].data
        PROVE  b = XooStep(a, k - 1)'
    BY <1>5, <1>6, <1>8, <2>1
  <2>2. trace' \in Seq([data : State, off : {0}]) /\ (trace' # <<>> => trace'[1].data = input')
    BY <1>2, <1>5, <1>7
  <2> QED BY <2>1, <2>2 DEF XooLog
<1>10. data' \in State
  BY <1>1, <1>2, <1>3, XooStepUndone
<1>11. ASSUME NEW k \in Nat, NEW a \in State, k = round', a = trace'[k].data
       PROVE  data' = XooStep(a, k - 1)
  <2>1. a = data /\ k - 1 = round
    BY <1>2, <1>3, <1>4, <1>5, <1>11
  <2> QED BY <1>2, <2>1
<1>12. round' \in 0 .. 12 /\ round' # 0
  BY <1>2, <1>3
<1> QED BY <1>1, <1>2, <1>3, <1>5, <1>6, <1>9, <1>10, <1>11, <1>12 DEF XooInv

LEMMA XooLogKept ==
    ASSUME XooLog, UNCHANGED <<n, s, party, input, trace>>
    PROVE  XooLog'
<1>1. \A a, k : XooStep(a, k)' = XooStep(a, k)
  BY XooRigid
<1> QED BY <1>1 DEF XooLog

LEMMA XooInvRoundStep ==
    ASSUME PermInv, XoodooInvRound
    PROVE  XooInv'
<1>1. kind = "Xoodoo" /\ XooInv /\ XooLog /\ at = "decrypt" /\ party \in {0, 1}
  BY DEF PermInv, XooInv, XoodooInvRound
<1>2. /\ UNCHANGED <<n, s, party, at, input, off, trace>> /\ round' = round - 1 /\ round > 0
      /\ data' = run(data, rc[(Len(rc) - round) + 1])
  BY DEF XoodooInvRound
<1>3. /\ round \in Nat /\ round - 1 \in 0 .. 11 /\ Len(trace) = 12
      /\ round \in 1 .. 12 /\ off = 0
      /\ trace \in Seq([data : State, off : {0}])
  BY <1>1, <1>2 DEF XooInv, XooLog
<1>4. PICK a \in State : a = trace[round].data
  <2> DEFINE Row == [data : State, off : {0}]
  <2>1. trace \in Seq(Row) /\ round \in 1 .. Len(trace)
    BY <1>3
  <2>2. \A e \in Row : e.data \in State
    OBVIOUS
  <2> HIDE DEF Row
  <2>3. trace[round] \in Row
    BY <2>1
  <2> QED BY <2>2, <2>3
<1>5. data = XooStep(a, round - 1)
  BY <1>1, <1>3, <1>4 DEF XooInv
<1>6. data' = a
  <2>1. PICK k \in 0 .. 11 : k = round - 1 /\ k + 1 = round
    BY <1>3
  <2> QED BY <1>2, <1>5, <2>1, XooStepUndone
<1>7. \A b, k : XooStep(b, k)' = XooStep(b, k)
  BY XooRigid
<1>8. XooLog'
  BY <1>1, <1>2, XooLogKept
<1>9. ASSUME round' = 0
      PROVE  data' = input
  <2>1. round = 1 /\ Len(trace) # 0
    BY <1>2, <1>3, <1>9
  <2>2. trace # <<>>
    BY <2>1
  <2> QED BY <1>1, <1>4, <1>6, <2>1, <2>2 DEF XooLog
<1>10. ASSUME NEW k \in Nat, NEW b \in State, k >= 1, k = round', b = trace'[k].data
       PROVE  data' = XooStep(b, k - 1)
  <2>1. k + 1 = round /\ k + 1 <= Len(trace) /\ b = trace[k].data
    BY <1>2, <1>3, <1>10
  <2> QED BY <1>1, <1>4, <1>6, <1>10, <2>1 DEF XooLog
<1>11. round' \in 0 .. 12
  BY <1>2, <1>3
<1> QED BY <1>1, <1>2, <1>3, <1>6, <1>7, <1>8, <1>9, <1>10, <1>11 DEF XooInv

-----------------------------------------------------------------------------
\* The loop of a kind other than ConsPi ends.
LEMMA TurnStep ==
    ASSUME PermInv, Turn \/ Return
    PROVE  PermInv'
<1>1. kind # "ConsPi" /\ UNCHANGED <<kind, party, n, s, input, data, off, round, trace>>
  BY DEF Turn, Return
<1>2. kind' \in Kinds /\ party' \in {0, 1}
  BY <1>1 DEF PermInv
<1>3. ASSUME kind = "Feistel" PROVE FeistelInv'
  <2>1. FeistelInv /\ FeistelLog /\ at \in {"encrypt", "decrypt"}
    BY <1>3 DEF PermInv, FeistelInv, Turn, Return
  <2>2. FeistelLog'
    BY <1>1, <2>1, FeistelLogKept
  <2>3. \A b, k : FeistelStep(b, k)' = FeistelStep(b, k)
    BY <1>1, Rigid
  <2>4. CASE Turn
    <3>1. at = "encrypt" /\ at' = "decrypt" /\ round = Rounds
      BY <1>3, <2>4 DEF Turn, LoopEnd
    <3> QED BY <1>1, <2>1, <2>2, <2>3, <3>1 DEF FeistelInv
  <2>5. CASE Return
    <3>1. at' = "done" /\ round = 0
      BY <2>5 DEF Return
    <3> QED BY <1>1, <2>1, <3>1 DEF FeistelInv
  <2> QED BY <2>4, <2>5
<1>4. ASSUME kind = "Hctr" PROVE HctrInv'
  <2>1. HctrInv /\ at \in {"encrypt", "decrypt"}
    BY <1>4 DEF PermInv, Turn, Return
  <2>2. \A b : HctrStep(b)' = HctrStep(b)
    BY <1>1, Rigid
  <2>3. at' = "decrypt" \/ (at' = "done" /\ round = 0)
    BY DEF Turn, Return
  <2> QED BY <1>1, <2>1, <2>2, <2>3 DEF HctrInv
<1>5. ASSUME kind = "Xoodoo" PROVE XooInv'
  <2>1. XooInv /\ XooLog /\ at \in {"encrypt", "decrypt"}
    BY <1>5 DEF PermInv, XooInv, Turn, Return
  <2>2. XooLog'
    BY <1>1, <2>1, XooLogKept
  <2>3. \A b, k : XooStep(b, k)' = XooStep(b, k)
    BY XooRigid
  <2>4. CASE Turn
    <3>1. at = "encrypt" /\ at' = "decrypt" /\ round = 12
      BY <1>5, <2>4, Constants DEF Turn, LoopEnd
    <3> QED BY <1>1, <2>1, <2>2, <2>3, <3>1 DEF XooInv
  <2>5. CASE Return
    <3>1. at' = "done" /\ round = 0
      BY <2>5 DEF Return
    <3> QED BY <1>1, <2>1, <3>1 DEF XooInv
  <2> QED BY <2>4, <2>5
<1> QED BY <1>1, <1>2, <1>3, <1>4, <1>5 DEF PermInv

LEMMA StutterStep ==
    ASSUME PermInv, UNCHANGED vars
    PROVE  PermInv'
<1>1. n' = n /\ s' = s /\ party' = party /\ kind' = kind /\ at' = at /\ input' = input /\ data' = data
      /\ off' = off /\ round' = round /\ trace' = trace
  BY DEF vars
<1>2. ASSUME kind = "ConsPi" PROVE PiInv'
  <2>1. PiInv
    BY <1>2 DEF PermInv
  <2>2. r' = r /\ (Made' <=> Made) /\ (\A a, o : applyShift(a, o)' = applyShift(a, o))
        /\ \A a, b, k : Leads(a, b, k)' <=> Leads(a, b, k)
    BY <1>1, Rigid
  <2>3. Now' = Now /\ FirstEntry' = FirstEntry
    BY <1>1 DEF Now, FirstEntry
  <2>4. PiLog => PiLog'
    BY <1>1, <2>2, <2>3 DEF PiLog
  <2>5. PiEncrypt => PiEncrypt'
    BY <1>1, <2>2, <2>3 DEF PiEncrypt
  <2>6. PiTurn => PiTurn'
    BY <1>1, <2>2 DEF PiTurn
  <2>7. PiDecrypt => PiDecrypt'
    BY <1>1, <2>2 DEF PiDecrypt
  <2>8. PiMake => PiMake'
    BY <1>1 DEF PiMake
  <2> QED BY <1>1, <2>1, <2>2, <2>4, <2>5, <2>6, <2>7, <2>8 DEF PiInv
<1>3. ASSUME kind = "Feistel" PROVE FeistelInv'
  <2>1. FeistelInv /\ \A b, k : FeistelStep(b, k)' = FeistelStep(b, k)
    BY <1>1, <1>3, Rigid DEF PermInv
  <2>2. FeistelLog => FeistelLog'
    BY <1>1, FeistelLogKept
  <2> QED BY <1>1, <2>1, <2>2 DEF FeistelInv
<1>4. ASSUME kind = "Hctr" PROVE HctrInv'
  <2>1. HctrInv /\ \A b : HctrStep(b)' = HctrStep(b)
    BY <1>1, <1>4, Rigid DEF PermInv
  <2> QED BY <1>1, <2>1 DEF HctrInv
<1>5. ASSUME kind = "Xoodoo" PROVE XooInv'
  <2>1. XooInv /\ \A b, k : XooStep(b, k)' = XooStep(b, k)
    BY <1>5, XooRigid DEF PermInv
  <2>2. XooLog => XooLog'
    BY <1>1, XooLogKept
  <2> QED BY <1>1, <2>1, <2>2 DEF XooInv
<1> QED BY <1>1, <1>2, <1>3, <1>4, <1>5 DEF PermInv

LEMMA NextInv == PermInv /\ [Next]_vars => PermInv'
<1> SUFFICES ASSUME PermInv, [Next]_vars PROVE PermInv'
  OBVIOUS
<1>1. ASSUME kind = "ConsPi", kind' = kind, party' = party, PiInv'
      PROVE  PermInv'
  BY <1>1 DEF PermInv
<1>2. ASSUME kind = "Feistel", kind' = kind, party' = party, FeistelInv'
      PROVE  PermInv'
  BY <1>2 DEF PermInv
<1>3. ASSUME kind = "Hctr", kind' = kind, party' = party, HctrInv'
      PROVE  PermInv'
  BY <1>3 DEF PermInv
<1>4. ASSUME kind = "Xoodoo", kind' = kind, party' = party, XooInv'
      PROVE  PermInv'
  BY <1>4 DEF PermInv
<1>5. CASE make
  <2>1. kind' = kind /\ party' = party /\ kind \in Kinds
    BY <1>5 DEF make, PermInv
  <2>2. ASSUME kind = "Hctr" PROVE HctrInv'
    BY <1>5, <2>2 DEF make, PermInv, HctrInv
  <2> QED BY <1>1, <1>2, <1>3, <1>4, <1>5, <2>1, <2>2, PiMakeStep, FeistelMakeStep, XooMakeStep DEF Kinds
<1>6. CASE PiRound
  BY <1>1, <1>6, PiRoundStep DEF PiRound
<1>7. CASE PiLast
  BY <1>1, <1>7, PiLastStep DEF PiLast
<1>8. CASE PiInvFirst
  BY <1>1, <1>8, PiInvFirstStep DEF PiInvFirst
<1>9. CASE PiInvRound
  BY <1>1, <1>9, PiInvRoundStep DEF PiInvRound
<1>10. CASE PiInvLast
  BY <1>1, <1>10, PiInvLastStep DEF PiInvLast
<1>11. CASE FeistelRound
  BY <1>2, <1>11, FeistelRoundStep DEF FeistelRound
<1>12. CASE FeistelInvRound
  BY <1>2, <1>12, FeistelInvRoundStep DEF FeistelInvRound
<1>13. CASE HctrEncrypt
  BY <1>3, <1>13, HctrEncryptStep DEF HctrEncrypt
<1>14. CASE HctrDecrypt
  BY <1>3, <1>14, HctrDecryptStep DEF HctrDecrypt
<1>15. CASE XoodooRound \/ XoodooInvRound
  BY <1>4, <1>15, XooRoundStep, XooInvRoundStep DEF XoodooRound, XoodooInvRound
<1>16. CASE Turn \/ Return
  BY <1>16, TurnStep
<1>17. CASE Ended \/ UNCHANGED vars
  BY <1>17, StutterStep DEF Ended
<1> QED BY <1>5, <1>6, <1>7, <1>8, <1>9, <1>10, <1>11, <1>12, <1>13, <1>14, <1>15, <1>16, <1>17 DEF Next

\* decryptBytes of ConsPi, Feistel and Hctr gives back the row that
\* encryptBytes was given, for every row width, small permutation, step that
\* bestStep finds, number of Feistel rounds, party and row.
THEOREM RoundTripHolds == Spec => []RoundTrip
<1>1. Init => PermInv
  BY InitInv
<1>2. PermInv /\ [Next]_vars => PermInv'
  BY NextInv
<1>3. PermInv => RoundTrip
  BY DEF PermInv, RoundTrip, Kinds, PiInv, FeistelInv, HctrInv
<1> QED BY <1>1, <1>2, <1>3, PTL DEF Spec

\* run of xoodoo_inv.h gives back every state that XKCP's twelve rounds were
\* given: each of its steps undoes one of the forward round, its constants
\* are those of XKCP reversed, and five turns of theta's loop undo Theta.
THEOREM XoodooRoundTripHolds == Spec => []XoodooRoundTrip
<1>1. Init => PermInv
  BY InitInv
<1>2. PermInv /\ [Next]_vars => PermInv'
  BY NextInv
<1>3. PermInv => XoodooRoundTrip
  BY DEF PermInv, XoodooRoundTrip, XooInv
<1> QED BY <1>1, <1>2, <1>3, PTL DEF Spec

\* No two rounds of ConsPi, of the same or of different parties, flip the same
\* bits, for every width and step whose windows share enough bits: the bits
\* of a round number determine it, and the party's bit is above them.
THEOREM RoundsSeparatedHolds == Spec => []RoundsSeparated
<1>1. Init => PermInv
  BY InitInv
<1>2. PermInv /\ [Next]_vars => PermInv'
  BY NextInv
<1>3. PermInv => RoundsSeparated
  <2> SUFFICES ASSUME PermInv, kind = "ConsPi", at = "encrypt",
                      NEW p1 \in {0, 1}, NEW p2 \in {0, 1}, NEW j \in 1 .. r - 1, NEW k \in 1 .. r - 1,
                      RoundConst(p1, j) = RoundConst(p2, k)
               PROVE  p1 = p2 /\ j = k
    BY DEF RoundsSeparated
  <2>1. Made
    BY DEF PermInv, PiInv
  <2> QED BY <2>1, ConstantsDiffer
<1> QED BY <1>1, <1>2, <1>3, PTL DEF Spec
=============================================================================
