------------------------------ MODULE MCKemeleon ------------------------------
EXTENDS Kemeleon

MCModes == {[k |-> 1, du |-> 2, dv |-> 2], [k |-> 2, du |-> 1, dv |-> 1]}

\* ML-KEM's own packing of a key: coefficient c has the bits from (c - 1) * 12
\* up, 12 bits being one and a half bytes.
ByteEncode(m, t) ==
    [j \in KeyByte(m) |->
        LET pair == t[Pair(j)] + t[Pair(j) + 1] * Byte * Half
        IN (pair \div Byte ^ ((j - 1) % 3)) % Byte]

MCKeys == [m \in MCModes |-> {ByteEncode(m, t) : t \in [Coef(m) -> 0 .. Q - 1]}]
=============================================================================
