------------------------------- MODULE RbOkvs -------------------------------
(***************************************************************************)
(* The random-band OKVS of frontend/okvs/rb: RBEncode solves a sparse      *)
(* linear system over GF(2), RBDecode reads a value back.                  *)
(*                                                                         *)
(* Every key hashes to a band: a start column and W bits.  The rows are    *)
(* sorted by start, eliminated forwards (a row that becomes zero makes the *)
(* call return false), and the table is filled backwards.  A bit vector is *)
(* the set of its one bits, and xor is symmetric difference.  A value is a *)
(* formal sum of symbols, one for each key: what holds for the symbols     *)
(* holds for any blocks put in their place.  The limbs of the bit vectors  *)
(* are in module RbBits.                                                   *)
(***************************************************************************)
EXTENDS Integers, FiniteSets

CONSTANTS
    Keys,       \* number of keys
    Columns,    \* columns of the table
    BandWidth   \* bits of a band, at most Columns (RBInfoOf)

ASSUME RbAssumption ==
    /\ Keys \in Nat \ {0}
    /\ Columns \in Nat
    /\ BandWidth \in Nat \ {0}
    /\ BandWidth <= Columns

Key == 1 .. Keys
Column == 0 .. Columns - 1
Offset == 0 .. BandWidth - 1

\* The symbol of a key is its number; 0 is what the table held before.
Stale == 0
Value == SUBSET (0 .. Keys)

VARIABLES
    band,    \* band[k]: the start column and the bits key k hashes to
    rows,    \* rows[r]: start column, bits, and the key whose rhs it uses
    rhs,     \* rhs[k]: the right-hand side stored for key k
    pivot,   \* pivot[r]: the pivot column of row r, Columns if it has none
    i,       \* the row the current loop is at
    pc,      \* "rows", "eliminate", "backfill" or "done"
    table,   \* okvsTable
    result   \* what RBEncode returned: "none", "ok" or "failed"

vars == <<band, rows, rhs, pivot, i, pc, table, result>>

-----------------------------------------------------------------------------
(* Bits and sums.                                                          *)

Xor(a, b) == (a \ b) \union (b \ a)

Odd(S) == Cardinality(S) % 2 = 1

\* The xor of f[c] over all c in S.
XorOver(S, f) == {v \in 0 .. Keys : Odd({c \in S : v \in f[c]})}

\* A hash of no bits at all is given its first bit.
RBEnsureBits(bits) == IF bits = {} THEN {0} ELSE bits

\* The lowest one bit, or BandWidth if there is none.
RBLead(bits) == IF bits = {} THEN BandWidth
                ELSE CHOOSE b \in bits : \A c \in bits : b <= c

\* Adds to dst the bits of src from srcOff on, moved so that srcOff meets
\* dstOff and cut at the width of the band.
RBXorShifted(dst, dstOff, src, srcOff) ==
    Xor(dst, {b + dstOff - srcOff : b \in {c \in src : c >= srcOff}} \cap Offset)

\* The columns with a one in a row or band.
Cols(row) == {row.start + b : b \in row.bits}

-----------------------------------------------------------------------------
(* The bands of the keys.                                                  *)

\* A hash modulo range = columns - bandWidth + 1.
StartColumn == 0 .. Columns - BandWidth

Init ==
    /\ band \in [Key -> [start : StartColumn,
                         bits : {RBEnsureBits(m) : m \in SUBSET Offset}]]
    /\ rows = [r \in Key |-> [start |-> 0, bits |-> {}, key |-> r]]
    /\ rhs = [k \in Key |-> {}]
    /\ pivot = [r \in Key |-> Columns]
    /\ i = 1
    /\ pc = "rows"
    /\ table = [c \in Column |-> {Stale}]
    /\ result = "none"

\* std::stable_sort by start column leaves the keys in this order.
Before(k, m) == band[k].start < band[m].start \/ (band[k].start = band[m].start /\ k < m)
StableOrder(order) ==
    /\ \A k \in Key : \E r \in Key : order[r] = k
    /\ \A r, s \in Key : r < s => Before(order[r], order[s])

\* Mutant of RBRows: the sort is forgotten.
RBRowsUnsorted ==
    /\ pc = "rows"
    /\ rows' = [r \in Key |-> [start |-> band[r].start, bits |-> band[r].bits, key |-> r]]
    /\ rhs' = [k \in Key |-> {k}]
    /\ pc' = "eliminate"
    /\ UNCHANGED <<band, pivot, i, table, result>>

RBRows ==
    /\ pc = "rows"
    /\ \E order \in [Key -> Key] :
        /\ StableOrder(order)
        /\ rows' = [r \in Key |-> [start |-> band[order[r]].start,
                                   bits |-> band[order[r]].bits, key |-> order[r]]]
    /\ rhs' = [k \in Key |-> {k}]
    /\ pc' = "eliminate"
    /\ UNCHANGED <<band, pivot, i, table, result>>

-----------------------------------------------------------------------------
(* Elimination.                                                            *)

\* Mutant of Reached: the loop stops a row too early, at start = p.
ReachedStrictly(r, p) == r > i /\ \A s \in i + 1 .. r : rows[s].start < p

\* The inner loop gets to row r before it breaks on a start beyond column p.
Reached(r, p) == r > i /\ \A s \in i + 1 .. r : rows[s].start <= p

\* Row r has a one in column p.
HasBit(r, p) == p - rows[r].start < BandWidth /\ p - rows[r].start \in rows[r].bits

\* The inner loop clears column p from row r.
Clears(r, p) == Reached(r, p) /\ HasBit(r, p)

\* Mutant of Eliminate: the right-hand sides are left alone.
EliminateBitsOnly ==
    /\ pc = "eliminate"
    /\ i <= Keys
    /\ rows[i].bits # {}
    /\ LET lead == RBLead(rows[i].bits)
           p == rows[i].start + lead
       IN /\ pivot' = [pivot EXCEPT ![i] = p]
          /\ rows' = [r \in Key |->
               IF Clears(r, p)
               THEN [rows[r] EXCEPT !.bits = RBXorShifted(@, p - rows[r].start, rows[i].bits, lead)]
               ELSE rows[r]]
    /\ i' = i + 1
    /\ UNCHANGED <<band, rhs, pc, table, result>>

\* One turn of the outer loop: row i gets its pivot and is added to every
\* later row that has a one there.
Eliminate ==
    /\ pc = "eliminate"
    /\ i <= Keys
    /\ rows[i].bits # {}
    /\ LET lead == RBLead(rows[i].bits)
           p == rows[i].start + lead
       IN /\ pivot' = [pivot EXCEPT ![i] = p]
          /\ rows' = [r \in Key |->
               IF Clears(r, p)
               THEN [rows[r] EXCEPT !.bits = RBXorShifted(@, p - rows[r].start, rows[i].bits, lead)]
               ELSE rows[r]]
          /\ rhs' = [k \in Key |->
               IF \E r \in Key : rows[r].key = k /\ Clears(r, p)
               THEN Xor(rhs[k], rhs[rows[i].key]) ELSE rhs[k]]
    /\ i' = i + 1
    /\ UNCHANGED <<band, pc, table, result>>

\* Row i has become zero: RBEncode returns false.
EncodeFails ==
    /\ pc = "eliminate"
    /\ i <= Keys
    /\ rows[i].bits = {}
    /\ pc' = "done"
    /\ result' = "failed"
    /\ UNCHANGED <<band, rows, rhs, pivot, i, table>>

-----------------------------------------------------------------------------
(* Filling the table, from the last row to the first.                      *)

ClearTable ==
    /\ pc = "eliminate"
    /\ i > Keys
    /\ table' = [c \in Column |-> {}]
    /\ i' = Keys
    /\ pc' = "backfill"
    /\ UNCHANGED <<band, rows, rhs, pivot, result>>

\* Mutant of BackFill: the values are taken in the order of the sorted rows.
BackFillInOrder ==
    /\ pc = "backfill"
    /\ i >= 1
    /\ table' = [table EXCEPT ![pivot[i]] =
         Xor(rhs[i], XorOver(Cols(rows[i]) \ {pivot[i]}, table))]
    /\ i' = i - 1
    /\ UNCHANGED <<band, rows, rhs, pivot, pc, result>>

BackFill ==
    /\ pc = "backfill"
    /\ i >= 1
    /\ table' = [table EXCEPT ![pivot[i]] =
         Xor(rhs[rows[i].key], XorOver(Cols(rows[i]) \ {pivot[i]}, table))]
    /\ i' = i - 1
    /\ UNCHANGED <<band, rows, rhs, pivot, pc, result>>

EncodeReturns ==
    /\ pc = "backfill"
    /\ i = 0
    /\ pc' = "done"
    /\ result' = "ok"
    /\ UNCHANGED <<band, rows, rhs, pivot, i, table>>

\* The caller goes on.
Returned == pc = "done" /\ UNCHANGED vars

\* The overloads of RBEncode on vectors of vectors take the same steps.
Next == RBRows \/ Eliminate \/ EncodeFails \/ ClearTable \/ BackFill \/ EncodeReturns \/ Returned

Spec == Init /\ [][Next]_vars

-----------------------------------------------------------------------------
(* Decoding.                                                               *)

\* RBDecode at key k: the sum of the cells of its band.
RBDecode(t, k) == XorOver(Cols(band[k]) \cap Column, t)

-----------------------------------------------------------------------------
(* Properties.                                                             *)

\* The type invariant.  Every band, before and after elimination, lies inside
\* the table, so that RBEncode and RBDecode index it within its bounds.
TypeOK ==
    /\ band \in [Key -> [start : Nat, bits : SUBSET Offset]]
    /\ rows \in [Key -> [start : Nat, bits : SUBSET Offset, key : Key]]
    /\ \A k \in Key : Cols(band[k]) \subseteq Column /\ Cols(rows[k]) \subseteq Column
    /\ rhs \in [Key -> Value]
    /\ pivot \in [Key -> 0 .. Columns]
    /\ i \in 0 .. Keys + 1
    /\ pc \in {"rows", "eliminate", "backfill", "done"}
    /\ table \in [Column -> Value]
    /\ result \in {"none", "ok", "failed"}

\* If RBEncode returns true, the table decodes every key to its own value,
\* whatever bands the keys hash to.
DecodeReturns == result = "ok" => \A k \in Key : RBDecode(table, k) = {k}

\* The rows that have their pivot.
Placed == IF pc = "eliminate" THEN 1 .. i - 1 ELSE IF pc = "rows" THEN {} ELSE Key

\* No later row has a one in the pivot column of an earlier row, not even
\* after more rows are added to it and although the inner loop breaks early:
\* the back-fill never changes a cell that it has used.
PivotsCleared ==
    result # "failed" => \A r \in Placed : \A s \in Key :
        /\ pivot[r] \in Cols(rows[r])
        /\ s > r => pivot[r] \notin Cols(rows[s])

-----------------------------------------------------------------------------
(* The inductive invariant.                                                *)

StaleTable == [c \in Column |-> {Stale}]

Phases ==
    /\ result = "none" <=> pc # "done"
    /\ pc = "rows" => i = 1
    /\ pc = "eliminate" => i \in 1 .. Keys + 1
    /\ pc = "backfill" => i \in 0 .. Keys
    /\ pc \in {"rows", "eliminate"} \/ result = "failed" => table = StaleTable

\* The early break of the inner loop relies on this order.
Sorted == pc # "rows" => \A r, s \in Key : r < s => rows[r].start <= rows[s].start

\* Every key has one row.
KeysOnce ==
    /\ \A r, s \in Key : rows[r].key = rows[s].key => r = s
    /\ \A k \in Key : \E r \in Key : rows[r].key = k

\* The keys in S with a one in column c.
HaveColumn(S, c) == {k \in S : c \in Cols(band[k])}

\* Row r is the sum of the bands of the keys in its right-hand side: its own
\* key and keys of earlier rows.
Combination(r) ==
    LET keys == rhs[rows[r].key] IN
    /\ rows[r].key \in keys
    /\ \A k \in keys : \E s \in 1 .. r : rows[s].key = k
    /\ \A c \in Column : c \in Cols(rows[r]) <=> Odd(HaveColumn(keys, c))

\* The rows that the back-fill is through with.
BackFilled ==
    pc = "backfill" => \A r \in Key :
        r > i => XorOver(Cols(rows[r]), table) = rhs[rows[r].key]

\* Sums of rows and of right-hand sides stay in step, through sorting,
\* elimination and back-fill.
RbInv ==
    /\ TypeOK /\ Phases /\ Sorted /\ KeysOnce /\ PivotsCleared /\ BackFilled
    /\ pc # "rows" => \A r \in Key : Combination(r)

-----------------------------------------------------------------------------
\* The call as its callers see it (module Okvs).  The table is theirs only
\* when the call returns.
O == INSTANCE Okvs WITH
       equation <- [k \in Key |-> Cols(band[k])],
       outcome <- result,
       cells <- IF pc = "backfill" THEN StaleTable ELSE table

\* Elimination and back-fill together are one step that solves the system or
\* gives up; it gives up only on dependent bands, and then the table still
\* holds what the caller had in it.
ImplementsOkvs == O!Spec
=============================================================================
