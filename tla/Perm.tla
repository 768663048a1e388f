-------------------------------- MODULE Perm --------------------------------
(***************************************************************************)
(* The permutations of protocol rows (src/frontend/permutation): a party   *)
(* makes one, encrypts a row with it and decrypts the result, as the peer  *)
(* does with a permutation made for the same party.                        *)
(*                                                                         *)
(* ConsPi builds a permutation of N bits from one of n < N bits, applied   *)
(* to a window that moves over the row by s bits a round; Feistel and Hctr *)
(* are the other two wide permutations, Xoodoo the one of EcKem rows.      *)
(* A row is the set of the positions of its one bits.  The primitives      *)
(* under them are constants.                                               *)
(***************************************************************************)
EXTENDS Naturals, Sequences, FiniteSets, Xoodoo

CONSTANTS
    N,                  \* KEM_key_size_bit
    Widths,             \* widthOf of the small permutations
    Lambda,             \* lambda
    Rounds,             \* rounds_ of Feistel, whose constructor refuses zero
    BlockBits,          \* bits of an AES block
    apply(_, _),        \* small permutation of a width (Keccak, SNEIK)
    invert(_, _),
    shake(_, _, _),     \* roundMask: SHAKE256 of party, round and half
    enc(_, _), dec(_, _),   \* AES under the key of a party
    hash(_, _),         \* POLYVAL under the key of a party
    stream(_, _),       \* the XCTR key stream for a nonce
    l(_),               \* the AES block of a party's key schedule
    XoodooRows          \* rows given to Xoodoo

Pos == 0 .. N - 1
Half == N \div 2
First == 0 .. BlockBits - 1
Rest == BlockBits .. N - 1

ASSUME PermAssumption ==
    /\ N \in Nat /\ N = 2 * Half
    /\ Widths \subseteq Nat \ {0}
    /\ Lambda \in Nat
    /\ Rounds \in Nat \ {0}
    /\ BlockBits \in 0 .. N
    /\ \A a \in XoodooRows : a \in State

\* The primitives are what they are taken for.
ASSUME PrimitiveAssumption ==
    /\ \A w \in Widths : \A b \in SUBSET (0 .. w - 1) :
          apply(w, b) \subseteq 0 .. w - 1 /\ invert(w, apply(w, b)) = b
    /\ \A p \in {0, 1} :
          /\ \A r \in 0 .. Rounds - 1 : \A b \in SUBSET (0 .. Half - 1) :
                shake(p, r, b) \subseteq 0 .. Half - 1
          /\ \A b \in SUBSET First :
                enc(p, b) \subseteq First /\ dec(p, enc(p, b)) = b /\ stream(p, b) \subseteq Rest
          /\ \A b \in SUBSET Rest : hash(p, b) \subseteq First
          /\ l(p) \subseteq First

VARIABLES
    kind,    \* kind of permutation
    party,   \* party_
    n,       \* params_.n
    s,       \* params_.s
    at,      \* the next step
    input,   \* the row that is encrypted
    data,    \* the row the permutation works on
    off,     \* where the window of ConsPi starts
    round,   \* round of the loop
    trace    \* what data and off were at each round of the encryption

vars == <<kind, party, n, s, at, input, data, off, round, trace>>

-----------------------------------------------------------------------------
(* ConsPi.                                                                 *)

\* bestStep: the largest step that divides the gap and keeps the distances.
Steps(w) ==
    {x \in 1 .. w : (N - w) % x = 0 /\ x >= 2 * Lambda /\ w - x >= 2 * Lambda}
bestStep(w) == CHOOSE x \in Steps(w) : \A y \in Steps(w) : y <= x

\* What two windows share has room for the round number and the party's bit,
\* as 2 * Lambda bits have in the source; the rest is what the provers do not
\* know of powers.
ASSUME WindowAssumption ==
    \A w \in Widths : w < N /\ Steps(w) # {} =>
        LET rounds == 5 * (((N - w) \div bestStep(w)) + 1) - 2 IN
        /\ bestStep(w) < w
        /\ rounds <= 2 ^ (w - bestStep(w) - 1)
        /\ 2 ^ 0 = 1
        /\ \A b \in 0 .. w + rounds : 2 ^ b \in Nat /\ 2 ^ (b + 1) = 2 * 2 ^ b

t == ((N - n) \div s) + 1
r == 5 * t - 2

\* Mutant of bitsNeeded: the bits after the first.
bitsNeededMore(x) == CHOOSE b \in 0 .. x : x < 2 ^ (b + 1) /\ (b = 0 \/ x >= 2 ^ b)

bitsNeeded(x) == CHOOSE b \in 1 .. x + 1 : x < 2 ^ b /\ (b = 1 \/ x >= 2 ^ (b - 1))

roundBits == bitsNeeded(r - 1)

\* The index of a position that may have run over the end.
Wrap(i) == IF i < N THEN i ELSE i - N

packShifted(d, o) == {i \in 0 .. n - 1 : Wrap(o + i) \in d}

\* Mutant of unpackShifted: what goes beyond the end is not brought round.
unpackShiftedFlat(b, d, o) ==
    {j \in Pos : IF \E i \in 0 .. n - 1 : j = o + i
                 THEN \E i \in b : j = o + i
                 ELSE j \in d}

unpackShifted(b, d, o) ==
    {j \in Pos : IF \E i \in 0 .. n - 1 : j = Wrap(o + i)
                 THEN \E i \in b : j = Wrap(o + i)
                 ELSE j \in d}

applyShift(d, o) == unpackShifted(apply(n, packShifted(d, o)), d, o)
applyInvShift(d, o) == unpackShifted(invert(n, packShifted(d, o)), d, o)

\* The bits xorRound flips, counted from the end of the step: those of the
\* round number, and one that tells the parties apart.
RoundConst(p, k) ==
    Xor({b \in 0 .. (n - s) - 1 : (k \div 2 ^ b) % 2 = 1},
        {b \in 0 .. (n - s) - 1 : p # 0 /\ b = roundBits})

xorRound(d, o, k) == Xor(d, {Wrap(Wrap(o + s) + b) : b \in RoundConst(party, k)})

\* Rotates the row so that the window starts at its beginning.
materialize(d, o) == {i \in Pos : Wrap(i + o) \in d}

-----------------------------------------------------------------------------
(* Feistel and Hctr.                                                       *)

Lower(d) == {i \in 0 .. Half - 1 : i \in d}
Upper(d) == {i \in 0 .. Half - 1 : i + Half \in d}
Halves(a, b) == {i \in Pos : IF i < Half THEN i \in a ELSE i - Half \in b}

roundMask(k, half) == shake(party, k, half)

\* What both directions of crypt end with: mm and uu are the block before and
\* after AES, out the one of them that goes out, rest what follows it.
crypt(mm, uu, out, rest) ==
    LET nonce == Xor(Xor(mm, uu), l(party))
        next == Xor(rest, stream(party, nonce))
    IN Xor(out, hash(party, next)) \cup next

-----------------------------------------------------------------------------
Kinds == {"ConsPi", "Feistel", "Hctr", "Xoodoo"}

Init ==
    /\ kind \in Kinds
    /\ party \in {0, 1}
    /\ n \in IF kind = "ConsPi" THEN Widths ELSE {0}
    /\ s = 0
    /\ at = "make"
    /\ input \in IF kind = "Xoodoo" THEN XoodooRows ELSE SUBSET Pos
    /\ data = input
    /\ off = 0
    /\ round = 0
    /\ trace = <<>>

\* pqperm::make, and the constructor, which refuses a width without a step.
make ==
    /\ at = "make"
    /\ IF kind = "ConsPi" /\ (N <= n \/ Steps(n) = {})
       THEN at' = "refused" /\ UNCHANGED <<s, round>>
       ELSE /\ at' = "encrypt"
            /\ s' = IF kind = "ConsPi" THEN bestStep(n) ELSE 0
            /\ round' = IF kind = "ConsPi" THEN 1 ELSE 0
    /\ UNCHANGED <<kind, party, n, input, data, off, trace>>

Note == trace' = Append(trace, [data |-> data, off |-> off])

\* encryptBytes of ConsPi: a round of the loop.
PiRound ==
    /\ kind = "ConsPi" /\ at = "encrypt" /\ round < r
    /\ data' = xorRound(applyShift(data, off), off, round)
    /\ off' = (off + s) % N
    /\ round' = round + 1
    /\ Note
    /\ UNCHANGED <<kind, party, n, s, at, input>>

\* After the loop; the caller has the encrypted row.
PiLast ==
    /\ kind = "ConsPi" /\ at = "encrypt" /\ round = r
    /\ data' = materialize(applyShift(data, off), off)
    /\ off' = 0
    /\ at' = "turn"
    /\ Note
    /\ UNCHANGED <<kind, party, n, s, input, round>>

\* decryptBytes of ConsPi: before the loop,
PiInvFirst ==
    /\ kind = "ConsPi" /\ at = "turn"
    /\ data' = applyInvShift(data, off)
    /\ round' = r - 1
    /\ at' = "decrypt"
    /\ UNCHANGED <<kind, party, n, s, input, off, trace>>

\* a round of it,
PiInvRound ==
    /\ kind = "ConsPi" /\ at = "decrypt" /\ round >= 1
    /\ off' = (off + N - s) % N
    /\ data' = applyInvShift(xorRound(data, off', round), off')
    /\ round' = round - 1
    /\ UNCHANGED <<kind, party, n, s, at, input, trace>>

\* and after it.
PiInvLast ==
    /\ kind = "ConsPi" /\ at = "decrypt" /\ round = 0
    /\ data' = materialize(data, off)
    /\ at' = "done"
    /\ UNCHANGED <<kind, party, n, s, input, off, round, trace>>

FeistelRound ==
    /\ kind = "Feistel" /\ at = "encrypt" /\ round < Rounds
    /\ data' = Halves(Upper(data), Xor(Lower(data), roundMask(round, Upper(data))))
    /\ round' = round + 1
    /\ Note
    /\ UNCHANGED <<kind, party, n, s, at, input, off>>

FeistelInvRound ==
    /\ kind = "Feistel" /\ at = "decrypt" /\ round > 0
    /\ data' = Halves(Xor(Upper(data), roundMask(round - 1, Lower(data))), Lower(data))
    /\ round' = round - 1
    /\ UNCHANGED <<kind, party, n, s, at, input, off, trace>>

HctrEncrypt ==
    /\ kind = "Hctr" /\ at = "encrypt" /\ round < 1
    /\ LET rest == data \cap Rest
           mm == Xor(data \cap First, hash(party, rest))
           uu == enc(party, mm)
       IN data' = crypt(mm, uu, uu, rest)
    /\ round' = round + 1
    /\ Note
    /\ UNCHANGED <<kind, party, n, s, at, input, off>>

HctrDecrypt ==
    /\ kind = "Hctr" /\ at = "decrypt" /\ round > 0
    /\ LET rest == data \cap Rest
           uu == Xor(data \cap First, hash(party, rest))
           mm == dec(party, uu)
       IN data' = crypt(mm, uu, mm, rest)
    /\ round' = round - 1
    /\ UNCHANGED <<kind, party, n, s, at, input, off, trace>>

XoodooRound ==
    /\ kind = "Xoodoo" /\ at = "encrypt" /\ round < Len(RC)
    /\ data' = Round(data, RC[round + 1])
    /\ round' = round + 1
    /\ Note
    /\ UNCHANGED <<kind, party, n, s, at, input, off>>

XoodooInvRound ==
    /\ kind = "Xoodoo" /\ at = "decrypt" /\ round > 0
    /\ data' = run(data, rc[(Len(rc) - round) + 1])
    /\ round' = round - 1
    /\ UNCHANGED <<kind, party, n, s, at, input, off, trace>>

\* The loops of the other three end: the row is handed over, and then back.
LoopEnd(k) == CASE k = "Feistel" -> Rounds [] k = "Hctr" -> 1 [] OTHER -> Len(RC)

Turn ==
    /\ kind # "ConsPi" /\ at = "encrypt" /\ round = LoopEnd(kind)
    /\ at' = "decrypt"
    /\ UNCHANGED <<kind, party, n, s, input, data, off, round, trace>>

Return ==
    /\ kind # "ConsPi" /\ at = "decrypt" /\ round = 0
    /\ at' = "done"
    /\ UNCHANGED <<kind, party, n, s, input, data, off, round, trace>>

Ended == at \in {"done", "refused"} /\ UNCHANGED vars

Next ==
    \/ make
    \/ PiRound \/ PiLast \/ PiInvFirst \/ PiInvRound \/ PiInvLast
    \/ FeistelRound \/ FeistelInvRound
    \/ HctrEncrypt \/ HctrDecrypt
    \/ XoodooRound \/ XoodooInvRound
    \/ Turn \/ Return
    \/ Ended

Spec == Init /\ [][Next]_vars

-----------------------------------------------------------------------------
\* decryptBytes gives back the row that encryptBytes was given, for both
\* parties: the offsets of ConsPi run back over the rotated row, the rounds
\* of Feistel and the halves of HCTR2 come off in the reverse order.
RoundTrip == at = "done" /\ kind # "Xoodoo" => data = input

\* run of xoodoo_inv.h undoes the twelve rounds of Xoodoo.
XoodooRoundTrip == at = "done" /\ kind = "Xoodoo" => data = input

\* No two rounds, of the same or of different parties, flip the same bits of
\* the window: the party's bit is not one of the round number, and neither
\* is cut off at the end of the window.
RoundsSeparated ==
    kind = "ConsPi" /\ at = "encrypt" /\ round = 1 =>
        \A p, q \in {0, 1} : \A j, k \in 1 .. r - 1 :
            RoundConst(p, j) = RoundConst(q, k) => p = q /\ j = k
=============================================================================
