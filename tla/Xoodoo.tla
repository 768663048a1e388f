------------------------------- MODULE Xoodoo -------------------------------
(***************************************************************************)
(* The rounds of the Xoodoo permutation as XKCP computes them              *)
(* (Xoodoo-plain.c) and their inverses as the repository does              *)
(* (permutation/xoodoo_inv.h).                                             *)
(*                                                                         *)
(* A bit is a column <<x, z>>: bit z of lane x.  A plane is the set of its *)
(* bits that are one, a state is a sequence of three planes.               *)
(***************************************************************************)
EXTENDS Naturals, Sequences

LaneBits == 32
Column == (0 .. 3) \X (0 .. LaneBits - 1)
State == [1 .. 3 -> SUBSET Column]

Xor(a, b) == (a \ b) \cup (b \ a)

\* A plane moved dx lanes up and rotated left by dz bits.
Shift(plane, dx, dz) == {<<(c[1] + dx) % 4, (c[2] + dz) % LaneBits>> : c \in plane}

\* rotr, and lanes moved down.
ShiftBack(plane, dx, dz) == Shift(plane, 4 - dx, LaneBits - dz)

Parity(a) == Xor(Xor(a[1], a[2]), a[3])

AddToAll(a, e) == <<Xor(a[1], e), Xor(a[2], e), Xor(a[3], e)>>

-----------------------------------------------------------------------------
(* Forward.                                                                *)

Theta(a) == AddToAll(a, Xor(Shift(Parity(a), 1, 5), Shift(Parity(a), 1, 14)))

Rho_west(a) == <<a[1], Shift(a[2], 1, 0), Shift(a[3], 0, 11)>>

Iota(a, c) == <<Xor(a[1], {<<0, z>> : z \in c}), a[2], a[3]>>

\* Plane after plane, each with the planes already changed.
Chi(a) ==
    LET a0 == Xor(a[1], a[3] \ a[2])
        a1 == Xor(a[2], a0 \ a[3])
    IN <<a0, a1, Xor(a[3], a1 \ a0)>>

Rho_east(a) == <<a[1], Shift(a[2], 0, 1), Shift(a[3], 2, 8)>>

Round(a, c) == Rho_east(Chi(Iota(Rho_west(Theta(a)), c)))

\* The constants, each as the set of its one bits.
RC == <<{3, 4, 6}, {3, 4, 5}, {6, 7, 8, 9}, {4, 6, 7}, {5, 8}, {2, 4},
        {5, 6}, {2, 3, 5}, {7, 8, 9}, {4, 5, 6, 7}, {5, 7, 8}, {1, 4}>>

-----------------------------------------------------------------------------
(* Backward.                                                               *)

\* A turn of the loop of theta: each lane gets the one p lanes below it,
\* rotated by 5p and by 14p.
mix(prev, p) == Xor(prev, Xor(Shift(prev, p, 5 * p), Shift(prev, p, 14 * p)))

\* Mutant of theta: the last turn is left out.
thetaShort(a) ==
    LET effect == mix(mix(mix(mix(Parity(a), 1), 2), 4), 8)
    IN AddToAll(a, Xor(effect, Parity(a)))

\* The column parity before Theta is recovered in five turns, where p runs
\* over 1, 2, 4, 8 and 16: (1 + q)^31, where (1 + q)^32 = 1.
theta(a) ==
    LET effect == mix(mix(mix(mix(mix(Parity(a), 1), 2), 4), 8), 16)
    IN AddToAll(a, Xor(effect, Parity(a)))

rhoWest(a) == <<a[1], ShiftBack(a[2], 1, 0), ShiftBack(a[3], 0, 11)>>

rhoEast(a) == <<a[1], ShiftBack(a[2], 0, 1), ShiftBack(a[3], 2, 8)>>

\* chi is its own inverse.
chi(a) == Chi(a)

\* A round of run.
run(a, c) == theta(rhoWest(Iota(chi(rhoEast(a)), c)))

rc == <<{1, 4}, {5, 7, 8}, {4, 5, 6, 7}, {7, 8, 9}, {2, 3, 5}, {5, 6},
        {2, 4}, {5, 8}, {4, 6, 7}, {6, 7, 8, 9}, {3, 4, 5}, {3, 4, 6}>>
=============================================================================
