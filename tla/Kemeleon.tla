------------------------------- MODULE Kemeleon -------------------------------
(***************************************************************************)
(* The codec of obfuscated ML-KEM (kem/obf-mlkem/codec/Kemeleon.cpp): a    *)
(* public key or a ciphertext becomes a string that looks random.  The     *)
(* coefficients are the digits, base q, of one big integer; the strings    *)
(* that are as long as the integers below a power of two.                  *)
(*                                                                         *)
(* encodeKey, decodeKey, encodeCipher and decodeCipher each run a loop     *)
(* over the coefficients, one action a turn.  Three inputs are followed:   *)
(* a key that is encoded and decoded again, a ciphertext likewise, and     *)
(* "noise": the row party 1 finds for an item that party 0 does not have,  *)
(* which encapMlKem decodes like any other row (kem_rows.h).               *)
(*                                                                         *)
(* A byte string that holds an integer (GMP export and import, least       *)
(* significant byte first) is that integer; the compressed part c1 of a    *)
(* ciphertext is the set of its one-bits.  The seed rho of a key, which is *)
(* copied as it is, is left out.                                           *)
(***************************************************************************)
EXTENDS Integers, FiniteSets

CONSTANTS
    Q,       \* q, 3329 in the source
    PolyLen, \* n, 256 in the source
    Half,    \* values of half a byte, 16 in the source
    Modes,   \* the modes: [k, du, dv]
    Keys     \* Keys[m]: the packed coefficients of the keys keyGen makes

Byte == Half * Half

-----------------------------------------------------------------------------
(* makeInfo.                                                               *)

vecSize(m) == m.k * PolyLen

\* The number of bits of a number.
bitLen(y) == CHOOSE b \in 0 .. y : y < 2 ^ b /\ (b > 0 => 2 ^ (b - 1) <= y)

\* Mutant of vecBits: the string is a bit longer.
vecBitsLong(m) == bitLen(Q ^ vecSize(m) + 1)

vecBits(m) == bitLen(Q ^ vecSize(m) + 1) - 1

ByteBits == bitLen(Byte) - 1
vecBytes(m) == (vecBits(m) + ByteBits - 1) \div ByteBits

\* bitLen(x) > vecBits just if x is not below this number.
Capacity(m) == 2 ^ vecBits(m)

\* The values of the bits of the last byte that the integer leaves free,
\* those of keyHighMask: one value if there is no such bit.
Spare(m) == 2 ^ (ByteBits * vecBytes(m) - vecBits(m))

Coef(m) == 1 .. vecSize(m)
KeyByte(m) == 1 .. 3 * (vecSize(m) \div 2)

-----------------------------------------------------------------------------
(* Packing.  Two coefficients share three bytes, the middle one half each. *)

First(c) == 3 * ((c - 1) \div 2) + 1

unpackPolyBytes(m, b) ==
    [c \in Coef(m) |->
        IF c % 2 = 1
        THEN b[First(c)] + (b[First(c) + 1] % Half) * Byte
        ELSE (b[First(c) + 1] \div Half) + b[First(c) + 2] * Half]

Pair(j) == 2 * ((j - 1) \div 3) + 1

packPolyBytes(m, t) ==
    [j \in KeyByte(m) |->
        LET a0 == t[Pair(j)]
            a1 == t[Pair(j) + 1]
        IN IF j % 3 = 1 THEN a0 % Byte
           ELSE IF j % 3 = 2 THEN (a0 \div Byte) + (a1 % Half) * Half
           ELSE a1 \div Half]

\* Coefficient c has its d bits at position (c - 1) * d and above.
BitsOf(c, d, src) == {j \in 0 .. d - 1 : (c - 1) * d + j \in src}

unpackBits(m, src) ==
    [c \in Coef(m) |->
        CHOOSE y \in 0 .. 2 ^ m.du - 1 :
            \A j \in 0 .. m.du - 1 : (y \div 2 ^ j) % 2 = 1 <=> j \in BitsOf(c, m.du, src)]

packBits(m, u) ==
    {p \in 0 .. vecSize(m) * m.du - 1 :
        (u[(p \div m.du) + 1] \div 2 ^ (p % m.du)) % 2 = 1}

compressValue(y, d) == ((y * 2 ^ d + Q \div 2) \div Q) % 2 ^ d

\* makePreimageTable(du), at one value.
Preimages(d, want) == {y \in 0 .. Q - 1 : compressValue(y, d) = want}

-----------------------------------------------------------------------------
VARIABLES
    mode,   \* mInfo
    table,  \* the du that mPreimages was made for
    job,    \* "key", "cipher" or "noise"
    at,     \* where the codec is
    raw,    \* the key or ciphertext that is encoded
    code,   \* the encoded string: the integer r, and c2 of a ciphertext
    vec,    \* the coefficients
    x,      \* the big integer
    i,      \* the loop counter
    acc,    \* acc[c]: the integer after the turn for coefficient c (history)
    back    \* what decoding gave

vars == <<mode, table, job, at, raw, code, vec, x, i, acc, back>>

None == [t |-> <<>>]

ASSUME KemeleonAssumption ==
    /\ Q \in Nat \ {0, 1}
    /\ PolyLen \in Nat
    /\ Half \in Nat \ {0}
    /\ \A m \in Modes :
        /\ m.k \in Nat
        /\ vecSize(m) \in Nat /\ vecSize(m) % 2 = 0
        /\ Capacity(m) \in Nat \ {0}
        /\ Spare(m) \in Nat \ {0}
        /\ \A key \in Keys[m] :
            /\ key \in [KeyByte(m) -> 0 .. Byte - 1]
            /\ \A c \in Coef(m) : unpackPolyBytes(m, key)[c] < Q

\* A coefficient fits one and a half bytes, q^vecSize + 1 is no power of two,
\* and a compressed coefficient has no more values than a coefficient; the
\* rest is what the provers do not know of powers.
ASSUME PowerAssumption ==
    /\ Q <= Byte * Half
    /\ 2 ^ 0 = 1
    /\ \A m \in Modes :
        LET top == Q ^ vecSize(m) + 1 IN
        /\ \E b \in 0 .. top : top < 2 ^ b /\ (b > 0 => 2 ^ (b - 1) <= top)
        /\ 2 ^ (bitLen(top) - 1) # top
        /\ Q ^ 0 = 1
        /\ \A j \in Coef(m) : Q ^ (j - 1) \in Nat /\ Q ^ j = Q ^ (j - 1) * Q
        /\ m.du \in Nat \ {0} /\ 2 ^ m.du <= Q
        /\ \A j \in 0 .. m.du : 2 ^ j \in Nat /\ 2 ^ (j + 1) = 2 * 2 ^ j

Init ==
    /\ mode \in Modes
    /\ table = mode.du
    /\ job = "none"
    /\ at = "idle"
    /\ raw = None /\ code = [r |-> 0, c2 |-> <<>>]
    /\ vec = [c \in Coef(mode) |-> 0]
    /\ x = 0 /\ i = 0
    /\ acc = [c \in 1 .. vecSize(mode) + 1 |-> 0]
    /\ back = None

\* Mutant of setMode: the preimage table stays that of the old mode.
setModeStale(m) ==
    /\ at = "idle"
    /\ mode' = m
    /\ vec' = [c \in Coef(m) |-> 0]
    /\ acc' = [c \in 1 .. vecSize(m) + 1 |-> 0]
    /\ UNCHANGED <<table, job, at, raw, code, x, i, back>>

setMode(m) ==
    /\ at = "idle"
    /\ mode' = m
    /\ table' = m.du
    /\ vec' = [c \in Coef(m) |-> 0]
    /\ acc' = [c \in 1 .. vecSize(m) + 1 |-> 0]
    /\ UNCHANGED <<job, at, raw, code, x, i, back>>

-----------------------------------------------------------------------------
(* encodeKey and encodeCipher.                                             *)

BeginEncode(j, obj, coefs) ==
    /\ at = "idle"
    /\ job' = j /\ at' = "encode"
    /\ raw' = obj
    /\ vec' = coefs
    /\ x' = 0 /\ i' = vecSize(mode)
    /\ UNCHANGED <<mode, table, code, acc, back>>

encodeKey(key) == BeginEncode("key", [t |-> key], unpackPolyBytes(mode, key))

encodeCipher(c1, c2) ==
    BeginEncode("cipher", [c1 |-> c1, c2 |-> c2], unpackBits(mode, c1))

\* What is multiplied into the integer for a coefficient: itself, or any of
\* the numbers that are compressed to it.
Digits(c) == IF job = "key" THEN {vec[c]} ELSE Preimages(table, vec[c])

\* One turn of the loop; without a preimage it throws.
EncodeDigit ==
    /\ at = "encode" /\ i > 0
    /\ IF Digits(i) = {}
       THEN at' = "threw" /\ UNCHANGED <<x, i, acc>>
       ELSE /\ \E y \in Digits(i) :
                /\ x' = x * Q + y
                /\ acc' = [acc EXCEPT ![i] = x * Q + y]
            /\ i' = i - 1
            /\ at' = at
    /\ UNCHANGED <<mode, table, job, raw, code, vec, back>>

\* The integer is too long: encoding returns false, and the caller draws a
\* new key.
Overflow ==
    /\ at = "encode" /\ i = 0 /\ x >= Capacity(mode)
    /\ at' = "rejected"
    /\ UNCHANGED <<mode, table, job, raw, code, vec, x, i, acc, back>>

\* The free bits of the last byte are filled from a hash of the key.
FinishKey ==
    /\ at = "encode" /\ job = "key" /\ i = 0 /\ x < Capacity(mode)
    /\ \E h \in 0 .. Spare(mode) - 1 : code' = [r |-> x + h * Capacity(mode), c2 |-> <<>>]
    /\ at' = "coded"
    /\ UNCHANGED <<mode, table, job, raw, vec, x, i, acc, back>>

\* rejectZeroEntries: a zero in c2 is refused with probability 1/p.
ZeroEntry == \E c \in 1 .. PolyLen : raw.c2[c] = 0
RejectRate == (Q + 2 ^ mode.dv - 1) \div 2 ^ mode.dv

RejectZero ==
    /\ at = "encode" /\ job = "cipher" /\ i = 0 /\ x < Capacity(mode)
    /\ ZeroEntry
    /\ at' = "rejected"
    /\ UNCHANGED <<mode, table, job, raw, code, vec, x, i, acc, back>>

FinishCipher ==
    /\ at = "encode" /\ job = "cipher" /\ i = 0 /\ x < Capacity(mode)
    /\ ZeroEntry => RejectRate > 1
    /\ code' = [r |-> x, c2 |-> raw.c2]
    /\ at' = "coded"
    /\ UNCHANGED <<mode, table, job, raw, vec, x, i, acc, back>>

-----------------------------------------------------------------------------
(* decodeKey and decodeCipher.                                             *)

\* A row that no key was encoded into.
NoiseRow(r) ==
    /\ at = "idle"
    /\ job' = "noise" /\ at' = "coded"
    /\ code' = [r |-> r, c2 |-> <<>>]
    /\ UNCHANGED <<mode, table, raw, vec, x, i, acc, back>>

\* Mutant of clearKeyHighBits: the free bits are left as they are.
clearNothing(r) == r

clearKeyHighBits(r) == r % Capacity(mode)

\* The integer is read, with the free bits of a key cleared; decodeVec fails
\* if a bit above vecBits is set.
BeginDecode ==
    /\ at = "coded"
    /\ LET r == IF job = "cipher" THEN code.r ELSE clearKeyHighBits(code.r) IN
        /\ at' = IF r >= Capacity(mode) THEN "failed" ELSE "decode"
        /\ x' = r
    /\ i' = 1
    /\ UNCHANGED <<mode, table, job, raw, code, vec, acc, back>>

DecodeDigit ==
    /\ at = "decode" /\ i <= vecSize(mode)
    /\ vec' = [vec EXCEPT ![i] = x % Q]
    /\ x' = x \div Q
    /\ i' = i + 1
    /\ UNCHANGED <<mode, table, job, at, raw, code, acc, back>>

Compressed == [c \in Coef(mode) |-> compressValue(vec[c], mode.du)]

\* decodeVec succeeds if nothing of the integer is left.
FinishDecode ==
    /\ at = "decode" /\ i = vecSize(mode) + 1
    /\ at' = IF x = 0 THEN "decoded" ELSE "failed"
    /\ back' = IF x # 0 THEN None
               ELSE IF job = "cipher" THEN [c1 |-> packBits(mode, Compressed), c2 |-> code.c2]
               ELSE [t |-> packPolyBytes(mode, vec)]
    /\ UNCHANGED <<mode, table, job, raw, code, vec, x, i, acc>>

Ended == at \in {"decoded", "failed", "rejected", "threw"} /\ UNCHANGED vars

Start ==
    \/ \E m \in Modes : setMode(m)
    \/ \E key \in Keys[mode] : encodeKey(key)
    \/ \E c1 \in SUBSET (0 .. vecSize(mode) * mode.du - 1),
          c2 \in [1 .. PolyLen -> 0 .. 2 ^ mode.dv - 1] : encodeCipher(c1, c2)
    \/ \E r \in 0 .. Capacity(mode) * Spare(mode) - 1 : NoiseRow(r)

Next ==
    \/ at = "idle" /\ Start
    \/ EncodeDigit \/ Overflow \/ FinishKey \/ RejectZero \/ FinishCipher
    \/ BeginDecode \/ DecodeDigit \/ FinishDecode
    \/ Ended

Spec == Init /\ [][Next]_vars

-----------------------------------------------------------------------------
\* A key that encodeKey accepts is never lost: decodeKey succeeds and gives the same
\* bytes back, whatever the hash put in the free bits of the last byte.
KeyRoundTrip ==
    /\ job = "key" => at # "failed"
    /\ job = "key" /\ at = "decoded" => back = raw

\* Every string of the right length decodes, to coefficients below q: a row that
\* party 0 never encoded does not make encapMlKem throw, which would end the
\* protocol, and what it gives is a well-formed public key.
NoiseDecodes ==
    /\ job = "noise" => at # "failed"
    /\ job = "noise" /\ at = "decoded" =>
        /\ \A j \in KeyByte(mode) : back.t[j] \in 0 .. Byte - 1
        /\ \A c \in Coef(mode) : unpackPolyBytes(mode, back.t)[c] < Q

\* No ciphertext makes encodeCipher throw, and one that it accepts decodes to the
\* same ciphertext whichever preimages were picked.
CipherRoundTrip ==
    /\ at # "threw"
    /\ job = "cipher" => at # "failed"
    /\ job = "cipher" /\ at = "decoded" => back = raw
=============================================================================
