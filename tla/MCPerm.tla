------------------------------- MODULE MCPerm -------------------------------
EXTENDS Perm

\* Numbers for sets of bits, to write small primitives with.
Val(b, w) ==
    LET v[i \in 0 .. w] == IF i = 0 THEN 0 ELSE v[i - 1] + (IF i - 1 \in b THEN 2 ^ (i - 1) ELSE 0)
    IN v[w]
Bits(v, w) == {i \in 0 .. w - 1 : (v \div 2 ^ i) % 2 = 1}

MCApply(w, b) == Bits(5 * Val(b, w) + 3, w)
MCInvert(w, b) == CHOOSE x \in SUBSET (0 .. w - 1) : MCApply(w, x) = b
MCShake(p, k, b) == Bits(Val(b, Half) * Val(b, Half) + 3 * k + 5 * p, Half)
MCEnc(p, b) == Bits(3 * Val(b, BlockBits) + p + 1, BlockBits)
MCDec(p, b) == CHOOSE x \in SUBSET First : MCEnc(p, x) = b
MCHash(p, b) == Bits(3 * (Val(b, N) \div 2 ^ BlockBits) + p, BlockBits)
MCStream(p, b) == {i \in Rest : (Val(b, BlockBits) * Val(b, BlockBits) + p) \div 2 ^ (i - BlockBits) % 2 = 1}
MCL(p) == Bits(5 + p, BlockBits)

\* Rows with a one bit in a lane of one plane, and two rows with many.
MCXoodooRows ==
    {[i \in 1 .. 3 |-> IF i = k THEN {<<x, (5 * x + 11 * k) % 32>>} ELSE {}] : k \in 1 .. 3, x \in 0 .. 3}
      \cup {[i \in 1 .. 3 |-> {c \in Column : (c[1] * i + c[2] * c[2]) % m = 1}] : m \in {3, 5}}
=============================================================================
