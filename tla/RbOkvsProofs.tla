---------------------------- MODULE RbOkvsProofs ----------------------------
(***************************************************************************)
(* Proofs about the random-band OKVS (module RbOkvs), for every number of  *)
(* keys, every number of columns and every width of the band.              *)
(***************************************************************************)
EXTENDS RbOkvs, FiniteSetTheorems, WellFoundedInduction, TLAPS

-----------------------------------------------------------------------------
(* Sums over GF(2).                                                        *)

\* A set of columns or keys is finite, and so is any part of it.
LEMMA ColumnsFinite ==
  ASSUME NEW S \in SUBSET Column
  PROVE  IsFiniteSet(S)
<1>1. Columns - 1 \in Int  BY RbAssumption
<1>2. IsFiniteSet(Column)  BY <1>1, FS_Interval DEF Column
<1> QED  BY <1>2, FS_Subset

\* A set of symbols is finite.
LEMMA KeysFinite ==
  ASSUME NEW S \in SUBSET (0 .. Keys)
  PROVE  IsFiniteSet(S)
<1>1. IsFiniteSet(0 .. Keys)  BY RbAssumption, FS_Interval
<1> QED  BY <1>1, FS_Subset

\* Exactly one of two finite sets is odd just if their xor is.
LEMMA OddXor ==
  ASSUME NEW A, IsFiniteSet(A), NEW B, IsFiniteSet(B)
  PROVE  Odd(Xor(A, B)) <=> ~(Odd(A) <=> Odd(B))
<1> DEFINE a == Cardinality(A)
           b == Cardinality(B)
           c == Cardinality(A \cap B)
           X == A \ B
           Y == B \ A
<1>1. a \in Nat /\ b \in Nat  BY FS_CardinalityType
<1>2. IsFiniteSet(A \cap B)  BY FS_Intersection
<1>3. c \in Nat  BY <1>2, FS_CardinalityType
<1>4. IsFiniteSet(X) /\ Cardinality(X) = a - c  BY FS_Difference
<1>5. IsFiniteSet(Y) /\ Cardinality(Y) = b - Cardinality(B \cap A)  BY FS_Difference
<1>6. B \cap A = A \cap B  OBVIOUS
<1>7. X \cap Y = {}  OBVIOUS
<1>8. Cardinality(X \cap Y) = 0  BY <1>7, FS_EmptySet
<1>9. Cardinality(X \union Y) = Cardinality(X) + Cardinality(Y) - Cardinality(X \cap Y)
  BY <1>4, <1>5, FS_Union
<1>10. Cardinality(Xor(A, B)) = a + b - 2 * c
  <2>1. Xor(A, B) = X \union Y  BY DEF Xor
  <2> HIDE DEF X, Y, a, b, c
  <2>2. Cardinality(X) = a - c /\ Cardinality(Y) = b - c  BY <1>4, <1>5, <1>6 DEF c
  <2> QED  BY <2>1, <2>2, <1>1, <1>3, <1>8, <1>9
<1>11. Odd(A) <=> a % 2 = 1  BY DEF Odd
<1>12. Odd(B) <=> b % 2 = 1  BY DEF Odd
<1> HIDE DEF a, b, c
<1> QED  BY <1>1, <1>3, <1>10, <1>11, <1>12 DEF Odd

\* Adding twice is not adding at all.
LEMMA XorCancel == \A a, b : Xor(Xor(a, b), b) = a
  BY DEF Xor

\* XorOver is additive in its set of columns.
LEMMA XorOverXor ==
  ASSUME NEW S \in SUBSET Column, NEW T \in SUBSET Column, NEW f
  PROVE  XorOver(Xor(S, T), f) = Xor(XorOver(S, f), XorOver(T, f))
<1> DEFINE A(v) == {c \in S : v \in f[c]}
           B(v) == {c \in T : v \in f[c]}
           C(v) == {c \in Xor(S, T) : v \in f[c]}
<1>1. ASSUME NEW v
      PROVE  Odd(C(v)) <=> ~(Odd(A(v)) <=> Odd(B(v)))
  <2>1. A(v) \in SUBSET Column /\ B(v) \in SUBSET Column  OBVIOUS
  <2>2. IsFiniteSet(A(v)) /\ IsFiniteSet(B(v))  BY <2>1, ColumnsFinite
  <2>3. C(v) = Xor(A(v), B(v))  BY DEF Xor
  <2> HIDE DEF A, B, C
  <2> QED  BY <2>2, <2>3, OddXor
<1>2. XorOver(S, f) = {v \in 0 .. Keys : Odd(A(v))}  BY DEF XorOver
<1>3. XorOver(T, f) = {v \in 0 .. Keys : Odd(B(v))}  BY DEF XorOver
<1>4. XorOver(Xor(S, T), f) = {v \in 0 .. Keys : Odd(C(v))}  BY DEF XorOver
<1> HIDE DEF A, B, C
<1> QED  BY <1>1, <1>2, <1>3, <1>4 DEF Xor

\* A set of one element is odd.
LEMMA OddSingle ==
  ASSUME NEW k, NEW S \in SUBSET {k}
  PROVE  Odd(S) <=> k \in S
<1>1. Cardinality({k}) = 1 /\ Cardinality({}) = 0  BY FS_Singleton, FS_EmptySet
<1>2. CASE k \in S
  <2>1. S = {k}  BY <1>2
  <2> QED  BY <1>1, <1>2, <2>1 DEF Odd
<1>3. CASE k \notin S
  <2>1. S = {}  BY <1>3
  <2> QED  BY <1>1, <1>3, <2>1 DEF Odd
<1> QED  BY <1>2, <1>3

\* The sum over one cell is that cell.
LEMMA XorOverSingle ==
  ASSUME NEW f \in [Column -> Value], NEW p \in Column
  PROVE  XorOver({p}, f) = f[p]
<1>1. ASSUME NEW v
      PROVE  Odd({c \in {p} : v \in f[c]}) <=> v \in f[p]
  <2> DEFINE S == {c \in {p} : v \in f[c]}
  <2>1. S \in SUBSET {p} /\ (p \in S <=> v \in f[p])  OBVIOUS
  <2> HIDE DEF S
  <2>2. Odd(S) <=> v \in f[p]  BY <2>1, OddSingle
  <2> QED  BY <2>2 DEF S
<1>2. f[p] \subseteq 0 .. Keys  BY DEF Value
<1> QED  BY <1>1, <1>2 DEF XorOver

\* A sum depends on the cells of its columns only.
LEMMA XorOverSame ==
  ASSUME NEW f, NEW g, NEW S, \A c \in S : f[c] = g[c]
  PROVE  XorOver(S, f) = XorOver(S, g)
<1>1. \A v : {c \in S : v \in f[c]} = {c \in S : v \in g[c]}  OBVIOUS
<1> QED  BY <1>1 DEF XorOver

\* What the back-fill writes makes the sum of the whole row come out right.
LEMMA XorOverWrite ==
  ASSUME NEW f \in [Column -> Value], NEW p \in Column, NEW x \in Value,
         NEW S \in SUBSET Column, p \in S
  PROVE  LET w == Xor(x, XorOver(S \ {p}, f))
         IN  /\ w \in Value
             /\ XorOver(S, [f EXCEPT ![p] = w]) = x
<1> DEFINE sum == XorOver(S \ {p}, f)
           w == Xor(x, sum)
           g == [f EXCEPT ![p] = w]
<1>1. sum \in Value  BY DEF XorOver, Value
<1>2. w \in Value  BY <1>1 DEF Value, Xor
<1>3. g \in [Column -> Value] /\ g[p] = w  BY <1>2
<1>4. XorOver(S \ {p}, g) = sum
  <2>1. \A c \in S \ {p} : f[c] = g[c]  OBVIOUS
  <2> HIDE DEF g
  <2>2. XorOver(S \ {p}, f) = XorOver(S \ {p}, g)  BY <2>1, XorOverSame
  <2> QED  BY <2>2
<1>5. XorOver({p}, g) = w  BY <1>3, XorOverSingle
<1>6. S = Xor(S \ {p}, {p})  BY DEF Xor
<1>7. XorOver(Xor(S \ {p}, {p}), g) = Xor(XorOver(S \ {p}, g), XorOver({p}, g))
  BY XorOverXor
<1>8. Xor(sum, w) = x
  <2> HIDE DEF sum
  <2> QED  BY DEF Xor
<1> QED  BY <1>2, <1>4, <1>5, <1>6, <1>7, <1>8

-----------------------------------------------------------------------------
(* Bands.                                                                  *)

\* RBLead gives the lowest bit of a band that has one.
LEMMA LeadIsLowest ==
  ASSUME NEW bits \in SUBSET Offset, bits # {}
  PROVE  /\ RBLead(bits) \in bits
         /\ \A c \in bits : RBLead(bits) <= c
<1> DEFINE R == OpToRel(<, Nat)
<1>1. bits \subseteq Nat  BY RbAssumption DEF Offset
<1>2. \A x, y \in Nat : <<y, x>> \in R <=> y < x  BY DEF OpToRel
<1>3. IsWellFoundedOn(R, Nat)  BY NatLessThanWellFounded
<1> HIDE DEF R
<1>4. \E x \in bits : \A y \in bits : ~(<<y, x>> \in R)  BY <1>1, <1>3, WFMin
<1>5. \E x \in bits : \A y \in bits : x <= y
  <2>1. PICK x \in bits : \A y \in bits : ~(<<y, x>> \in R)  BY <1>4
  <2>2. ASSUME NEW y \in bits PROVE x <= y
    <3>1. x \in Nat /\ y \in Nat  BY <1>1
    <3>2. ~(y < x)  BY <1>2, <2>1, <3>1
    <3> QED  BY <3>1, <3>2
  <2> QED  BY <2>2
<1> QED  BY <1>5 DEF RBLead

\* A column is in a row if its offset is one of the bits.
LEMMA ColsMember ==
  ASSUME NEW row, row.start \in Nat, row.bits \in SUBSET Offset, NEW c \in Int
  PROVE  c \in Cols(row) <=> c - row.start \in row.bits
<1>1. \A b \in row.bits : b \in Int  BY RbAssumption DEF Offset
<1> QED  BY <1>1 DEF Cols

\* Adding row a to a row b that starts no earlier, at the pivot of a: the
\* bits of b become those of the xor of the two rows, and nothing of a is
\* cut off.
LEMMA ShiftedSum ==
  ASSUME NEW a, a.start \in Nat, a.bits \in SUBSET Offset, a.bits # {},
         NEW b, b.start \in Nat, b.bits \in SUBSET Offset,
         a.start <= b.start,
         b.start <= a.start + RBLead(a.bits),
         NEW n, n.start = b.start,
         n.bits = RBXorShifted(b.bits, a.start + RBLead(a.bits) - b.start, a.bits, RBLead(a.bits))
  PROVE  n.bits \in SUBSET Offset /\ Cols(n) = Xor(Cols(b), Cols(a))
<1> DEFINE lead == RBLead(a.bits)
           off == a.start + lead - b.start
           moved == {x + off - lead : x \in {c \in a.bits : c >= lead}}
<1>1. lead \in a.bits /\ \A c \in a.bits : lead <= c  BY LeadIsLowest
<1>2. a.bits \subseteq Int /\ b.bits \subseteq Int /\ lead \in Int  BY <1>1, RbAssumption DEF Offset
<1>3. off \in Int /\ off - lead = a.start - b.start  BY <1>2
<1>4. moved = {x + (a.start - b.start) : x \in a.bits}
  <2> HIDE DEF lead
  <2>1. {c \in a.bits : c >= lead} = a.bits  BY <1>1, <1>2
  <2>2. \A x \in a.bits : x + off - lead = x + (a.start - b.start)  BY <1>2
  <2> QED  BY <2>1, <2>2
<1>5. moved \subseteq Offset
  <2> SUFFICES ASSUME NEW x \in a.bits
               PROVE  x + (a.start - b.start) \in Offset
    BY <1>4
  <2> HIDE DEF lead
  <2>1. lead <= x /\ b.start <= a.start + lead  BY <1>1 DEF lead
  <2>2. x \in Int /\ 0 <= x /\ x <= BandWidth - 1  BY RbAssumption DEF Offset
  <2> QED  BY <2>1, <2>2, <1>2, RbAssumption DEF Offset
<1>6. n.bits = Xor(b.bits, moved)  BY <1>5 DEF RBXorShifted
<1>7. n.bits \in SUBSET Offset  BY <1>5, <1>6 DEF Xor
<1>8. ASSUME NEW c \in Int
      PROVE  c \in Cols(n) <=> c \in Xor(Cols(b), Cols(a))
  <2>1. c \in Cols(n) <=> c - b.start \in n.bits  BY <1>7, ColsMember
  <2>2. c \in Cols(b) <=> c - b.start \in b.bits  BY ColsMember
  <2>3. c \in Cols(a) <=> c - a.start \in a.bits  BY ColsMember
  <2>4. c - b.start \in moved <=> c - a.start \in a.bits
    <3> HIDE DEF moved
    <3>1. ASSUME c - b.start \in moved PROVE c - a.start \in a.bits
      <4>1. PICK x \in a.bits : c - b.start = x + (a.start - b.start)  BY <3>1, <1>4
      <4>2. x = c - a.start  BY <4>1, <1>2
      <4> QED  BY <4>2
    <3>2. ASSUME c - a.start \in a.bits PROVE c - b.start \in moved
      <4>1. c - b.start = (c - a.start) + (a.start - b.start)  OBVIOUS
      <4> QED  BY <3>2, <4>1, <1>4
    <3> QED  BY <3>1, <3>2
  <2> HIDE DEF moved
  <2> QED  BY <2>1, <2>2, <2>3, <2>4, <1>6 DEF Xor
<1>9. Cols(n) \subseteq Int /\ Cols(a) \subseteq Int /\ Cols(b) \subseteq Int
  <2>1. n.bits \subseteq Int  BY <1>7, RbAssumption DEF Offset
  <2> QED  BY <2>1, <1>2 DEF Cols
<1>10. Xor(Cols(b), Cols(a)) \subseteq Int  BY <1>9 DEF Xor
<1> QED  BY <1>7, <1>8, <1>9, <1>10

-----------------------------------------------------------------------------
(* The inductive invariant.                                                *)

\* Table t satisfies the equations as they stand.
Satisfies(t) == \A r \in Key : XorOver(Cols(rows[r]), t) = rhs[rows[r].key]

\* Elimination never adds a solution: what satisfies the rows as they stand
\* decodes every key to its value.
SolutionsKept ==
    pc # "rows" => \A t \in [Column -> Value] :
        Satisfies(t) => \A k \in Key : XorOver(Cols(band[k]), t) = {k}

FullInv == RbInv /\ SolutionsKept /\ DecodeReturns

\* A row and a band with the same start and bits have the same columns.
LEMMA SameCols ==
  ASSUME NEW a, NEW b, a.start = b.start, a.bits = b.bits
  PROVE  Cols(a) = Cols(b)
  BY DEF Cols

\* Every band ends inside the table.
LEMMA BandInTable ==
  ASSUME NEW b, b.start \in StartColumn, b.bits \in SUBSET Offset
  PROVE  b.start \in Nat /\ Cols(b) \subseteq Column
<1>1. b.start \in Nat /\ b.start <= Columns - BandWidth  BY RbAssumption DEF StartColumn
<1>2. \A x \in b.bits : x \in Nat /\ x <= BandWidth - 1  BY RbAssumption DEF Offset
<1>3. \A x \in b.bits : b.start + x \in Column  BY <1>1, <1>2, RbAssumption DEF Column
<1> QED  BY <1>1, <1>3 DEF Cols

\* Before RBRows nothing is promised but the types.
LEMMA InitInv == Init => FullInv
<1> SUFFICES ASSUME Init PROVE FullInv  OBVIOUS
<1> USE DEF Init
<1>1. \A k \in Key : band[k] \in [start : StartColumn, bits : SUBSET Offset]
  <2>1. \A m \in SUBSET Offset : RBEnsureBits(m) \in SUBSET Offset
    BY RbAssumption DEF RBEnsureBits, Offset
  <2>2. {RBEnsureBits(m) : m \in SUBSET Offset} \subseteq SUBSET Offset  BY <2>1
  <2> HIDE DEF Init
  <2>3. band \in [Key -> [start : StartColumn, bits : {RBEnsureBits(m) : m \in SUBSET Offset}]]
    BY DEF Init
  <2> QED  BY <2>2, <2>3
<1>2. \A k \in Key : band[k].start \in Nat /\ band[k].bits \in SUBSET Offset
                       /\ Cols(band[k]) \subseteq Column
  <2> TAKE k \in Key
  <2>1. band[k].start \in StartColumn /\ band[k].bits \in SUBSET Offset  BY <1>1
  <2> QED  BY <2>1, BandInTable
<1>3. \A k \in Key : band[k] \in [start : Nat, bits : SUBSET Offset]  BY <1>1, <1>2
<1>4. band \in [Key -> [start : Nat, bits : SUBSET Offset]]
  <2>1. band = [k \in Key |-> band[k]]  OBVIOUS
  <2> QED  BY <2>1, <1>3
<1>5. rows \in [Key -> [start : Nat, bits : SUBSET Offset, key : Key]]  OBVIOUS
<1>6. \A k \in Key : Cols(rows[k]) \subseteq Column  BY DEF Cols
<1>7. TypeOK
  <2>1. rhs \in [Key -> Value] /\ table \in [Column -> Value]  BY RbAssumption DEF Value, Stale
  <2>2. pivot \in [Key -> 0 .. Columns]  BY RbAssumption
  <2>3. i \in 0 .. Keys + 1  BY RbAssumption
  <2> QED  BY <1>2, <1>4, <1>5, <1>6, <2>1, <2>2, <2>3 DEF TypeOK
<1>8. Phases  BY DEF Phases, StaleTable
<1>9. Sorted /\ KeysOnce /\ BackFilled  BY DEF Sorted, KeysOnce, BackFilled
<1>10. PivotsCleared  BY DEF PivotsCleared, Placed
<1>11. SolutionsKept /\ DecodeReturns  BY DEF SolutionsKept, DecodeReturns
<1> QED  BY <1>7, <1>8, <1>9, <1>10, <1>11 DEF FullInv, RbInv

-----------------------------------------------------------------------------
(* Building and sorting the rows.                                          *)

\* RBRows: each row is its own band, and the sort keeps one row per key.
LEMMA RowsInv ==
  ASSUME FullInv, RBRows
  PROVE  FullInv'
<1> USE DEF FullInv, RbInv
<1>1. PICK order \in [Key -> Key] :
        /\ StableOrder(order)
        /\ rows' = [r \in Key |-> [start |-> band[order[r]].start,
                                   bits |-> band[order[r]].bits, key |-> order[r]]]
  BY DEF RBRows
<1>2. /\ pc = "rows" /\ pc' = "eliminate" /\ rhs' = [k \in Key |-> {k}]
      /\ UNCHANGED <<band, pivot, i, table, result>>
  BY DEF RBRows
<1>3. /\ TypeOK /\ i = 1 /\ result = "none" /\ table = StaleTable
  BY <1>2 DEF Phases
<1>4. ASSUME NEW r \in Key
      PROVE  /\ order[r] \in Key /\ rows'[r].key = order[r]
             /\ rows'[r].start = band[order[r]].start
             /\ rows'[r].bits = band[order[r]].bits
             /\ rows'[r].start \in Nat /\ rows'[r].bits \in SUBSET Offset
             /\ rows'[r] \in [start : Nat, bits : SUBSET Offset, key : Key]
  BY <1>1, <1>3 DEF TypeOK
<1>5. ASSUME NEW r \in Key
      PROVE  Cols(rows[r])' = Cols(band[order[r]])
  <2>1. Cols(rows'[r]) = Cols(band[order[r]])  BY <1>4, SameCols
  <2> QED  BY <2>1 DEF Cols
<1>6. ASSUME NEW r \in Key, NEW s \in Key, r < s
      PROVE  rows'[r].start <= rows'[s].start /\ order[r] # order[s]
  <2>1. Before(order[r], order[s])  BY <1>1, <1>6 DEF StableOrder
  <2>2. order[r] \in Nat /\ order[s] \in Nat  BY <1>4 DEF Key
  <2>3. band[order[r]].start \in Nat /\ band[order[s]].start \in Nat  BY <1>4
  <2> QED  BY <1>4, <2>1, <2>2, <2>3 DEF Before
<1>7. TypeOK'
  <2>1. rows' \in [Key -> [start : Nat, bits : SUBSET Offset, key : Key]]
    BY <1>1, <1>4
  <2>2. rhs' \in [Key -> Value]  BY <1>2, RbAssumption DEF Value, Key
  <2>3. \A k \in Key : Cols(band[k])' \subseteq Column /\ Cols(rows[k])' \subseteq Column
    <3> TAKE k \in Key
    <3>1. Cols(band[k])' = Cols(band[k])  BY <1>2 DEF Cols
    <3> QED  BY <1>3, <1>4, <1>5, <3>1 DEF TypeOK
  <2> QED  BY <1>2, <1>3, <2>1, <2>2, <2>3 DEF TypeOK
<1>8. Phases'  BY <1>2, <1>3, RbAssumption DEF Phases, StaleTable
<1>9. Sorted'  BY <1>6 DEF Sorted
<1>10. KeysOnce'
  <2>1. ASSUME NEW r \in Key, NEW s \in Key, rows'[r].key = rows'[s].key PROVE r = s
    <3>1. r \in Nat /\ s \in Nat  BY DEF Key
    <3>2. ~(r < s) /\ ~(s < r)  BY <1>4, <1>6, <2>1
    <3> QED  BY <3>1, <3>2
  <2>2. ASSUME NEW k \in Key PROVE \E r \in Key : rows'[r].key = k
    BY <1>1, <1>4 DEF StableOrder
  <2> QED  BY <2>1, <2>2 DEF KeysOnce
<1>11. PivotsCleared'
  <2>1. Placed' = {}  BY <1>2, <1>3 DEF Placed
  <2> QED  BY <2>1 DEF PivotsCleared
<1>12. BackFilled'  BY <1>2 DEF BackFilled
<1>13. ASSUME NEW r \in Key PROVE Combination(r)'
  <2>1. rhs'[rows'[r].key] = {order[r]}  BY <1>2, <1>4
  <2>2. r \in 1 .. r  BY DEF Key
  <2>3. ASSUME NEW c \in Column
        PROVE  c \in Cols(rows[r])' <=> Odd({k \in {order[r]} : c \in Cols(band[k])'})
    <3> DEFINE S == {k \in {order[r]} : c \in Cols(band[k])'}
    <3>1. S \in SUBSET {order[r]}  OBVIOUS
    <3>2. order[r] \in S <=> c \in Cols(rows[r])'  BY <1>2, <1>5 DEF Cols
    <3> HIDE DEF S
    <3>3. Odd(S) <=> order[r] \in S  BY <3>1, OddSingle
    <3> QED  BY <3>2, <3>3 DEF S
  <2>4. \A c \in Column : c \in Cols(rows[r])' <=> Odd(HaveColumn(rhs[rows[r].key], c))'
    <3>1. \A c : HaveColumn(rhs[rows[r].key], c)' = {k \in {order[r]} : c \in Cols(band[k])'}
      BY <2>1 DEF HaveColumn
    <3> QED  BY <2>3, <3>1 DEF Odd
  <2> QED  BY <1>4, <2>1, <2>2, <2>4 DEF Combination
<1>14. SolutionsKept'
  <2> SUFFICES ASSUME NEW t \in [Column -> Value], Satisfies(t)', NEW k \in Key
               PROVE  (XorOver(Cols(band[k]), t) = {k})'
    BY DEF SolutionsKept
  <2>1. PICK r \in Key : order[r] = k  BY <1>1 DEF StableOrder
  <2>2. XorOver(Cols(rows[r])', t) = rhs'[rows'[r].key]  BY DEF Satisfies
  <2>3. Cols(rows[r])' = Cols(band[k])'  BY <1>2, <1>5, <2>1 DEF Cols
  <2> QED  BY <1>2, <1>4, <2>1, <2>2, <2>3
<1>15. DecodeReturns'  BY <1>2, <1>3 DEF DecodeReturns
<1> QED  BY <1>7, <1>8, <1>9, <1>10, <1>11, <1>12, <1>13, <1>14, <1>15

-----------------------------------------------------------------------------
(* Elimination.                                                            *)

\* The pivot column of the row the outer loop is at.
pivotColumn == rows[i].start + RBLead(rows[i].bits)

\* What one turn of the outer loop does to row r.
Turned(r) ==
    /\ rows'[r].start = rows[r].start /\ rows'[r].key = rows[r].key
    /\ rows'[r] \in [start : Nat, bits : SUBSET Offset, key : Key]
    /\ Clears(r, pivotColumn) =>
         /\ r > i /\ pivotColumn \in Cols(rows[r])
         /\ Cols(rows'[r]) = Xor(Cols(rows[r]), Cols(rows[i]))
         /\ rhs'[rows[r].key] = Xor(rhs[rows[r].key], rhs[rows[i].key])
    /\ ~Clears(r, pivotColumn) =>
         /\ Cols(rows'[r]) = Cols(rows[r]) /\ rhs'[rows[r].key] = rhs[rows[r].key]
         /\ r > i => pivotColumn \notin Cols(rows[r])

\* The row of the loop has its pivot column, and its pivot is in the table.
LEMMA PivotFacts ==
  ASSUME FullInv, Eliminate
  PROVE  /\ i \in Key /\ i \in 1 .. Keys /\ i' = i + 1 /\ pc = "eliminate"
         /\ UNCHANGED <<band, pc, table, result>>
         /\ TypeOK /\ result = "none"
         /\ pivotColumn \in Cols(rows[i]) /\ pivotColumn \in Column
         /\ pivot' = [pivot EXCEPT ![i] = pivotColumn]
<1> USE DEF FullInv, RbInv
<1>1. pc = "eliminate" /\ i <= Keys /\ rows[i].bits # {} /\ i' = i + 1
      /\ UNCHANGED <<band, pc, table, result>>
      /\ pivot' = [pivot EXCEPT ![i] = pivotColumn]
  BY DEF Eliminate, pivotColumn
<1>2. TypeOK /\ result = "none" /\ i \in 1 .. Keys + 1  BY <1>1 DEF Phases
<1>3. i \in Key /\ i \in 1 .. Keys  BY <1>1, <1>2, RbAssumption DEF Key
<1>4. rows[i].start \in Nat /\ rows[i].bits \in SUBSET Offset  BY <1>2, <1>3 DEF TypeOK
<1>5. RBLead(rows[i].bits) \in rows[i].bits  BY <1>1, <1>4, LeadIsLowest
<1>6. pivotColumn \in Cols(rows[i])  BY <1>5 DEF Cols, pivotColumn
<1>7. Cols(rows[i]) \subseteq Column  BY <1>2, <1>3 DEF TypeOK
<1> QED  BY <1>1, <1>2, <1>3, <1>6, <1>7

\* What one turn of the outer loop makes of a row.
LEMMA TurnedRow ==
  ASSUME FullInv, Eliminate, NEW r \in Key
  PROVE  Turned(r)
<1> DEFINE lead == RBLead(rows[i].bits)
           p == pivotColumn
<1>0. KeysOnce /\ Sorted  BY DEF FullInv, RbInv
<1>1. i \in Key /\ i \in 1 .. Keys /\ TypeOK /\ pc = "eliminate" /\ rows[i].bits # {} /\ p \in Column
  BY PivotFacts DEF Eliminate
<1>2. /\ rows[i].start \in Nat /\ rows[i].bits \in SUBSET Offset
      /\ rows[r].start \in Nat /\ rows[r].bits \in SUBSET Offset /\ rows[r].key \in Key
      /\ r \in Nat /\ i \in Nat /\ p \in Int
  <2> HIDE DEF p
  <2>1. /\ rows[i].start \in Nat /\ rows[i].bits \in SUBSET Offset
        /\ rows[r].start \in Nat /\ rows[r].bits \in SUBSET Offset /\ rows[r].key \in Key
    BY <1>1 DEF TypeOK
  <2>2. r \in Nat /\ i \in Nat  BY <1>1 DEF Key
  <2>3. p \in Int  BY <1>1 DEF Column
  <2> QED  BY <2>1, <2>2, <2>3
<1>3. rows' = [s \in Key |->
               IF Clears(s, p)
               THEN [rows[s] EXCEPT !.bits = RBXorShifted(@, p - rows[s].start, rows[i].bits, lead)]
               ELSE rows[s]]
  BY DEF Eliminate, pivotColumn
<1>4. rhs' = [k \in Key |->
               IF \E s \in Key : rows[s].key = k /\ Clears(s, p)
               THEN Xor(rhs[k], rhs[rows[i].key]) ELSE rhs[k]]
  BY DEF Eliminate, pivotColumn
<1>5. (\E s \in Key : rows[s].key = rows[r].key /\ Clears(s, p)) <=> Clears(r, p)
  BY <1>0 DEF KeysOnce
<1>6. rhs'[rows[r].key] = IF Clears(r, p) THEN Xor(rhs[rows[r].key], rhs[rows[i].key])
                          ELSE rhs[rows[r].key]
  <2> HIDE DEF p
  <2> QED  BY <1>2, <1>4, <1>5
<1>7. \A s \in Key : rows[s].start \in Nat /\ \A t \in Key : s < t => rows[s].start <= rows[t].start
  BY <1>0, <1>1 DEF Sorted, TypeOK
<1>8. CASE Clears(r, p)
  <2>1. r > i /\ rows[r].start <= p /\ HasBit(r, p)
    <3>1. r > i /\ \A s \in i + 1 .. r : rows[s].start <= p  BY <1>8 DEF Clears, Reached
    <3>2. r \in i + 1 .. r  BY <1>2, <3>1
    <3> QED  BY <1>8, <3>1, <3>2 DEF Clears
  <2>2. p \in Cols(rows[r])
    <3>1. p - rows[r].start \in rows[r].bits  BY <2>1 DEF HasBit
    <3> QED  BY <1>2, <3>1, ColsMember
  <2>3. rows[i].start <= rows[r].start  BY <1>1, <1>2, <1>7, <2>1
  <2>4. /\ rows'[r].start = rows[r].start /\ rows'[r].key = rows[r].key
        /\ rows'[r].bits = RBXorShifted(rows[r].bits, p - rows[r].start, rows[i].bits, lead)
    <3>1. rows'[r] = [rows[r] EXCEPT !.bits =
                        RBXorShifted(rows[r].bits, p - rows[r].start, rows[i].bits, lead)]
      BY <1>3, <1>8
    <3>2. rows[r] \in [start : Nat, bits : SUBSET Offset, key : Key]  BY <1>1 DEF TypeOK
    <3> HIDE DEF lead, p
    <3> QED  BY <3>1, <3>2
  <2>5. rows'[r].bits \in SUBSET Offset /\ Cols(rows'[r]) = Xor(Cols(rows[r]), Cols(rows[i]))
    <3>1. rows[r].start <= rows[i].start + RBLead(rows[i].bits)  BY <2>1 DEF pivotColumn
    <3>2. rows'[r].bits = RBXorShifted(rows[r].bits, rows[i].start + RBLead(rows[i].bits) - rows[r].start,
                                       rows[i].bits, RBLead(rows[i].bits))
      <4>1. p - rows[r].start = rows[i].start + RBLead(rows[i].bits) - rows[r].start
        <5>1. RBLead(rows[i].bits) \in Int  BY <1>1, <1>2, LeadIsLowest, RbAssumption DEF Offset
        <5> QED  BY <1>2, <5>1 DEF pivotColumn
      <4> QED  BY <2>4, <4>1
    <3> QED  BY <1>1, <1>2, <2>3, <2>4, <3>1, <3>2, ShiftedSum
  <2>6. rows'[r] \in [start : Nat, bits : SUBSET Offset, key : Key]
    <3>1. rows'[r] = [rows[r] EXCEPT !.bits = rows'[r].bits]
      <4>1. rows'[r] = [rows[r] EXCEPT !.bits =
                        RBXorShifted(rows[r].bits, p - rows[r].start, rows[i].bits, lead)]
        BY <1>3, <1>8
      <4> HIDE DEF p, lead
      <4> QED  BY <2>4, <4>1
    <3>2. rows[r] \in [start : Nat, bits : SUBSET Offset, key : Key]  BY <1>1 DEF TypeOK
    <3> QED  BY <2>5, <3>1, <3>2
  <2> QED  BY <1>6, <1>8, <2>1, <2>2, <2>4, <2>5, <2>6 DEF Turned
<1>9. CASE ~Clears(r, p)
  <2>1. rows'[r] = rows[r]  BY <1>3, <1>9
  <2>2. rows[r] \in [start : Nat, bits : SUBSET Offset, key : Key]  BY <1>1 DEF TypeOK
  <2>3. ASSUME r > i PROVE p \notin Cols(rows[r])
    <3>1. CASE Reached(r, p)
      <4>1. ~(p - rows[r].start < BandWidth /\ p - rows[r].start \in rows[r].bits)
        BY <1>9, <3>1 DEF Clears, HasBit
      <4>2. p - rows[r].start \notin rows[r].bits  BY <1>2, <4>1, RbAssumption DEF Offset
      <4> QED  BY <1>2, <4>2, ColsMember
    <3>2. CASE ~Reached(r, p)
      <4>1. PICK s \in i + 1 .. r : ~(rows[s].start <= p)  BY <2>3, <3>2 DEF Reached
      <4>2. s \in Key /\ s \in Nat /\ s <= r
        <5>1. r <= Keys /\ i >= 1 /\ Keys \in Nat  BY <1>1, RbAssumption DEF Key
        <5>2. s \in Int /\ i + 1 <= s /\ s <= r  BY <1>2
        <5> QED  BY <1>2, <5>1, <5>2 DEF Key
      <4>3. rows[s].start <= rows[r].start  BY <1>2, <1>7, <4>2
      <4>4. p < rows[r].start  BY <1>2, <1>7, <4>1, <4>2, <4>3
      <4>5. p - rows[r].start \notin rows[r].bits  BY <1>2, <4>4, RbAssumption DEF Offset
      <4> QED  BY <1>2, <4>5, ColsMember
    <3> QED  BY <3>1, <3>2
  <2> QED  BY <1>6, <1>9, <2>1, <2>2, <2>3 DEF Turned
<1> QED  BY <1>8, <1>9

\* The sum of two combinations of bands is a combination of bands.
LEMMA CombinationSum ==
  ASSUME NEW A \in SUBSET (0 .. Keys), NEW B \in SUBSET (0 .. Keys), NEW c
  PROVE  Odd(HaveColumn(Xor(A, B), c)) <=> ~(Odd(HaveColumn(A, c)) <=> Odd(HaveColumn(B, c)))
<1>1. HaveColumn(Xor(A, B), c) = Xor(HaveColumn(A, c), HaveColumn(B, c))  BY DEF HaveColumn, Xor
<1>2. HaveColumn(A, c) \in SUBSET (0 .. Keys) /\ HaveColumn(B, c) \in SUBSET (0 .. Keys)
  BY DEF HaveColumn
<1>3. IsFiniteSet(HaveColumn(A, c)) /\ IsFiniteSet(HaveColumn(B, c))  BY <1>2, KeysFinite
<1> QED  BY <1>1, <1>3, OddXor

\* A turn of the outer loop keeps the rows and their right-hand sides in step.
LEMMA EliminateInv ==
  ASSUME FullInv, Eliminate
  PROVE  FullInv'
<1> DEFINE p == pivotColumn
<1>1. /\ i \in Key /\ i \in 1 .. Keys /\ i' = i + 1 /\ pc = "eliminate"
      /\ UNCHANGED <<band, pc, table, result>>
      /\ TypeOK /\ result = "none"
      /\ p \in Cols(rows[i]) /\ p \in Column
      /\ pivot' = [pivot EXCEPT ![i] = p]
  BY PivotFacts
<1>2. /\ Phases /\ Sorted /\ KeysOnce /\ PivotsCleared
      /\ \A r \in Key : Combination(r)
      /\ SolutionsKept
  BY <1>1 DEF FullInv, RbInv
<1>3. ASSUME NEW r \in Key PROVE Turned(r)  BY TurnedRow
<1>4. ASSUME NEW r \in Key
      PROVE  Cols(rows[r])' = Cols(rows'[r]) /\ Cols(band[r])' = Cols(band[r])
  BY <1>1 DEF Cols
<1> HIDE DEF p
<1>5. rows' \in [Key -> [start : Nat, bits : SUBSET Offset, key : Key]]
  <2>1. rows' = [r \in Key |-> rows'[r]]  BY DEF Eliminate
  <2>2. \A r \in Key : rows'[r] \in [start : Nat, bits : SUBSET Offset, key : Key]
    BY <1>3 DEF Turned
  <2> QED  BY <2>1, <2>2
<1>6. ASSUME NEW r \in Key PROVE rows[r].key \in Key /\ rhs[rows[r].key] \in Value
                                 /\ Cols(rows[r]) \in SUBSET Column
                                 /\ rows'[r].key = rows[r].key
  BY <1>1, <1>3 DEF TypeOK, Turned
<1>7. TypeOK'
  <2>1. ASSUME NEW r \in Key PROVE Cols(rows'[r]) \subseteq Column
    BY <1>1, <1>3, <1>6 DEF Turned, Xor
  <2>2. rhs' \in [Key -> Value]
    <3>1. ASSUME NEW k \in Key PROVE rhs[k] \in Value /\ Xor(rhs[k], rhs[rows[i].key]) \in Value
      <4>1. rhs[k] \in Value /\ rhs[rows[i].key] \in Value  BY <1>1, <1>6 DEF TypeOK
      <4> QED  BY <4>1 DEF Value, Xor
    <3>2. rhs' = [k \in Key |-> rhs'[k]] /\ \A k \in Key : rhs'[k] \in {rhs[k], Xor(rhs[k], rhs[rows[i].key])}
      BY DEF Eliminate
    <3>3. \A k \in Key : rhs'[k] \in Value  BY <3>1, <3>2
    <3> QED  BY <3>2, <3>3
  <2>3. pivot' \in [Key -> 0 .. Columns]
    <3>1. p \in 0 .. Columns  BY <1>1, RbAssumption DEF Column
    <3> QED  BY <1>1, <3>1 DEF TypeOK
  <2>4. i' \in 0 .. Keys + 1  BY <1>1, RbAssumption
  <2> QED  BY <1>1, <1>4, <1>5, <2>1, <2>2, <2>3, <2>4 DEF TypeOK
<1>8. Phases'
  <2>1. i' \in 1 .. Keys + 1  BY <1>1, RbAssumption
  <2> QED  BY <1>1, <1>2, <2>1 DEF Phases, StaleTable
<1>9. Sorted'  BY <1>1, <1>2, <1>3 DEF Sorted, Turned
<1>10. KeysOnce'  BY <1>2, <1>6 DEF KeysOnce
<1>11. PivotsCleared'
  <2> SUFFICES ASSUME NEW r \in 1 .. i, NEW s \in Key
               PROVE  /\ pivot'[r] \in Cols(rows'[r])
                      /\ s > r => pivot'[r] \notin Cols(rows'[s])
    <3>1. Placed' = 1 .. i
      <4>1. Placed' = 1 .. i' - 1  BY <1>1 DEF Placed
      <4>2. i' - 1 = i  BY <1>1
      <4> QED  BY <4>1, <4>2
    <3>2. \A r \in 1 .. i : r \in Key  BY <1>1, RbAssumption DEF Key
    <3> QED  BY <1>4, <3>1, <3>2 DEF PivotsCleared
  <2>1. r \in Key /\ r \in Nat /\ s \in Nat /\ i \in Nat /\ r <= i
    BY <1>1, RbAssumption DEF Key
  <2>2. ~Clears(r, p) /\ Cols(rows'[r]) = Cols(rows[r])
    <3>1. ~Clears(r, p)  BY <2>1 DEF Clears, Reached
    <3> QED  BY <1>3, <2>1, <3>1 DEF Turned, p
  <2>3. CASE r = i
    <3>1. pivot'[r] = p  BY <1>1, <2>3 DEF TypeOK
    <3>2. ASSUME s > i PROVE p \notin Cols(rows'[s])
      <4>1. CASE Clears(s, p)
        <5>1. p \in Cols(rows[s]) /\ Cols(rows'[s]) = Xor(Cols(rows[s]), Cols(rows[i]))
          BY <1>3, <4>1 DEF Turned, p
        <5> QED  BY <1>1, <5>1 DEF Xor
      <4>2. CASE ~Clears(s, p)
        BY <1>3, <3>2, <4>2 DEF Turned, p
      <4> QED  BY <4>1, <4>2
    <3> QED  BY <1>1, <2>2, <2>3, <3>1, <3>2
  <2>4. CASE r < i
    <3>1. r \in Placed  BY <1>1, <2>1, <2>4 DEF Placed
    <3>2. pivot'[r] = pivot[r]  BY <1>1, <2>1, <2>4 DEF TypeOK
    <3>3. pivot[r] \in Cols(rows[r]) /\ pivot[r] \notin Cols(rows[i])
      BY <1>1, <1>2, <2>4, <3>1 DEF PivotsCleared
    <3>4. ASSUME s > r PROVE pivot[r] \notin Cols(rows'[s])
      <4>1. pivot[r] \notin Cols(rows[s])  BY <1>1, <1>2, <3>1, <3>4 DEF PivotsCleared
      <4>2. Cols(rows'[s]) \in {Cols(rows[s]), Xor(Cols(rows[s]), Cols(rows[i]))}
        BY <1>3 DEF Turned
      <4> QED  BY <3>3, <4>1, <4>2 DEF Xor
    <3> QED  BY <2>2, <3>2, <3>3, <3>4
  <2> QED  BY <2>1, <2>3, <2>4
<1>12. BackFilled'  BY <1>1 DEF BackFilled
<1>13. ASSUME NEW r \in Key PROVE Combination(r)'
  <2> DEFINE A == rhs[rows[r].key]
             B == rhs[rows[i].key]
  <2>1. A \in SUBSET (0 .. Keys) /\ B \in SUBSET (0 .. Keys)  BY <1>1, <1>6 DEF Value
  <2>2. Combination(r) /\ Combination(i)  BY <1>1, <1>2
  <2>3. ASSUME NEW s \in 1 .. r PROVE rows'[s].key = rows[s].key
    <3>1. s \in Key  BY RbAssumption DEF Key
    <3> QED  BY <1>6, <3>1
  <2>4. CASE Clears(r, p)
    <3>1. r > i /\ Cols(rows'[r]) = Xor(Cols(rows[r]), Cols(rows[i])) /\ rhs'[rows[r].key] = Xor(A, B)
      BY <1>3, <2>4 DEF Turned, p
    <3>2. rows[r].key \notin B
      <4>1. ASSUME rows[r].key \in B PROVE FALSE
        <5>1. PICK s \in 1 .. i : rows[s].key = rows[r].key  BY <2>2, <4>1 DEF Combination
        <5>2. s \in Key /\ s \in Nat /\ s <= i /\ i \in Nat /\ r \in Nat
          BY <1>1, RbAssumption DEF Key
        <5>3. s = r  BY <1>2, <5>1, <5>2 DEF KeysOnce
        <5> QED  BY <3>1, <5>2, <5>3
      <4> QED  BY <4>1
    <3>3. rows[r].key \in Xor(A, B)  BY <2>2, <3>2 DEF Combination, Xor
    <3>4. ASSUME NEW k \in Xor(A, B) PROVE \E s \in 1 .. r : rows'[s].key = k
      <4>1. k \in A \/ k \in B  BY DEF Xor
      <4>2. \A s \in 1 .. i : s \in 1 .. r  BY <1>1, <3>1 DEF Key
      <4>3. \E s \in 1 .. r : rows[s].key = k  BY <2>2, <4>1, <4>2 DEF Combination
      <4> QED  BY <2>3, <4>3
    <3>5. ASSUME NEW c \in Column
          PROVE  c \in Cols(rows'[r]) <=> Odd(HaveColumn(Xor(A, B), c))
      <4>1. c \in Cols(rows[r]) <=> Odd(HaveColumn(A, c))  BY <2>2 DEF Combination
      <4>2. c \in Cols(rows[i]) <=> Odd(HaveColumn(B, c))  BY <2>2 DEF Combination
      <4>3. c \in Cols(rows'[r]) <=> ~(c \in Cols(rows[r]) <=> c \in Cols(rows[i]))
        BY <3>1 DEF Xor
      <4> HIDE DEF A, B
      <4>4. Odd(HaveColumn(Xor(A, B), c))
             <=> ~(Odd(HaveColumn(A, c)) <=> Odd(HaveColumn(B, c)))
        BY <2>1, CombinationSum
      <4> QED  BY <4>1, <4>2, <4>3, <4>4
    <3>6. rhs'[rows'[r].key] = Xor(A, B) /\ rows'[r].key \in Xor(A, B)  BY <1>6, <3>1, <3>3
    <3>7. \A c \in Column : c \in Cols(rows[r])' <=> Odd(HaveColumn(Xor(A, B), c))
      BY <1>4, <3>5
    <3> HIDE DEF A, B
    <3>8. \A c : HaveColumn(rhs[rows[r].key], c)' = HaveColumn(Xor(A, B), c)
      BY <1>1, <3>6 DEF HaveColumn, Cols
    <3>9. \A c : Odd(HaveColumn(rhs[rows[r].key], c))' <=> Odd(HaveColumn(Xor(A, B), c))
      BY <3>8 DEF Odd
    <3> QED  BY <3>4, <3>6, <3>7, <3>9 DEF Combination
  <2>5. CASE ~Clears(r, p)
    <3>1. Cols(rows'[r]) = Cols(rows[r]) /\ rhs'[rows'[r].key] = A
      BY <1>3, <1>6, <2>5 DEF Turned, p
    <3>2. rows'[r].key \in A /\ \A k \in A : \E s \in 1 .. r : rows'[s].key = k
      BY <1>6, <2>2, <2>3 DEF Combination
    <3>3. \A c \in Column : c \in Cols(rows[r])' <=> Odd(HaveColumn(A, c))
      BY <1>4, <2>2, <3>1 DEF Combination
    <3> HIDE DEF A
    <3>4. \A c : HaveColumn(rhs[rows[r].key], c)' = HaveColumn(A, c)
      BY <1>1, <3>1 DEF HaveColumn, Cols
    <3>5. \A c : Odd(HaveColumn(rhs[rows[r].key], c))' <=> Odd(HaveColumn(A, c))
      BY <3>4 DEF Odd
    <3> QED  BY <3>1, <3>2, <3>3, <3>5 DEF Combination
  <2> QED  BY <2>4, <2>5
<1>14. SolutionsKept'
  <2> SUFFICES ASSUME NEW t \in [Column -> Value], Satisfies(t)', NEW k \in Key
               PROVE  (XorOver(Cols(band[k]), t) = {k})'
    BY DEF SolutionsKept
  <2>1. ASSUME NEW r \in Key PROVE XorOver(Cols(rows'[r]), t) = rhs'[rows[r].key]
    BY <1>4, <1>6 DEF Satisfies
  <2>2. XorOver(Cols(rows[i]), t) = rhs[rows[i].key]
    <3>1. ~Clears(i, p)  BY <1>1 DEF Clears, Reached, Key
    <3> QED  BY <1>1, <1>3, <2>1, <3>1 DEF Turned, p
  <2>3. ASSUME NEW r \in Key PROVE XorOver(Cols(rows[r]), t) = rhs[rows[r].key]
    <3>1. CASE Clears(r, p)
      <4>1. Cols(rows'[r]) = Xor(Cols(rows[r]), Cols(rows[i]))
            /\ rhs'[rows[r].key] = Xor(rhs[rows[r].key], rhs[rows[i].key])
        BY <1>3, <3>1 DEF Turned, p
      <4>2. XorOver(Xor(Cols(rows[r]), Cols(rows[i])), t)
              = Xor(XorOver(Cols(rows[r]), t), XorOver(Cols(rows[i]), t))
        BY <1>1, <1>6, XorOverXor
      <4>3. Xor(XorOver(Cols(rows[r]), t), rhs[rows[i].key]) = Xor(rhs[rows[r].key], rhs[rows[i].key])
        BY <2>1, <2>2, <4>1, <4>2
      <4> QED  BY <4>3, XorCancel
    <3>2. CASE ~Clears(r, p)
      BY <1>3, <2>1, <3>2 DEF Turned, p
    <3> QED  BY <3>1, <3>2
  <2>4. Satisfies(t)  BY <2>3 DEF Satisfies
  <2>5. XorOver(Cols(band[k]), t) = {k}  BY <1>1, <1>2, <2>4 DEF SolutionsKept
  <2> QED  BY <1>4, <2>5 DEF XorOver, Odd
<1>15. DecodeReturns'  BY <1>1 DEF DecodeReturns
<1> QED  BY <1>1, <1>7, <1>8, <1>9, <1>10, <1>11, <1>12, <1>13, <1>14, <1>15 DEF FullInv, RbInv

-----------------------------------------------------------------------------
(* Returning, and filling the table.                                       *)

\* Once the rows are eliminated they stay as they are.
LEMMA SameRows ==
  ASSUME FullInv, pc # "rows", pc' # "rows", UNCHANGED <<band, rows, rhs, pivot>>
  PROVE  /\ Sorted' /\ KeysOnce' /\ SolutionsKept' /\ \A r \in Key : Combination(r)'
         /\ \A k \in Key : Cols(band[k])' = Cols(band[k]) /\ Cols(rows[k])' = Cols(rows[k])
         /\ \A S, t : XorOver(S, t)' = XorOver(S, t)
<1>1. Sorted /\ KeysOnce /\ SolutionsKept /\ \A r \in Key : Combination(r)  BY DEF FullInv, RbInv
<1>2. \A k \in Key : Cols(band[k])' = Cols(band[k]) /\ Cols(rows[k])' = Cols(rows[k])
  BY DEF Cols
<1>3. Sorted' /\ KeysOnce'  BY <1>1 DEF Sorted, KeysOnce
<1>4. ASSUME NEW r \in Key PROVE Combination(r)'
  <2>1. \A c : HaveColumn(rhs[rows[r].key], c)' = HaveColumn(rhs[rows[r].key], c)
    BY DEF HaveColumn, Cols
  <2>2. \A c : Odd(HaveColumn(rhs[rows[r].key], c))' <=> Odd(HaveColumn(rhs[rows[r].key], c))
    BY <2>1 DEF Odd
  <2> QED  BY <1>1, <1>2, <2>2 DEF Combination
<1>5. \A S, t : XorOver(S, t)' = XorOver(S, t)  BY DEF XorOver, Odd
<1>6. SolutionsKept'
  <2> SUFFICES ASSUME NEW t \in [Column -> Value], Satisfies(t)', NEW k \in Key
               PROVE  (XorOver(Cols(band[k]), t) = {k})'
    BY DEF SolutionsKept
  <2>1. Satisfies(t)
    <3>1. ASSUME NEW r \in Key PROVE XorOver(Cols(rows[r]), t) = rhs[rows[r].key]
      BY <1>2 DEF Satisfies
    <3> QED  BY <3>1 DEF Satisfies
  <2>2. XorOver(Cols(band[k]), t) = {k}  BY <1>1, <2>1 DEF SolutionsKept
  <2> QED  BY <1>2, <2>2
<1> QED  BY <1>2, <1>3, <1>4, <1>5, <1>6

\* Returning false leaves the table alone.
LEMMA FailsInv ==
  ASSUME FullInv, EncodeFails
  PROVE  FullInv'
<1>1. /\ pc = "eliminate" /\ pc' = "done" /\ result' = "failed"
      /\ UNCHANGED <<band, rows, rhs, pivot, i, table>>
  BY DEF EncodeFails
<1>2. TypeOK /\ Phases  BY DEF FullInv, RbInv
<1>3. /\ Sorted' /\ KeysOnce' /\ SolutionsKept' /\ \A r \in Key : Combination(r)'
      /\ \A k \in Key : Cols(band[k])' = Cols(band[k]) /\ Cols(rows[k])' = Cols(rows[k])
  BY <1>1, SameRows
<1>4. TypeOK'  BY <1>1, <1>2, <1>3 DEF TypeOK
<1>5. Phases'  BY <1>1, <1>2 DEF Phases, StaleTable
<1>6. PivotsCleared' /\ BackFilled' /\ DecodeReturns'
  BY <1>1 DEF PivotsCleared, BackFilled, DecodeReturns
<1> QED  BY <1>3, <1>4, <1>5, <1>6 DEF FullInv, RbInv

\* Before the back-fill every row has its pivot.
LEMMA ClearInv ==
  ASSUME FullInv, ClearTable
  PROVE  FullInv'
<1>1. /\ pc = "eliminate" /\ pc' = "backfill" /\ i > Keys /\ i' = Keys
      /\ table' = [c \in Column |-> {}]
      /\ UNCHANGED <<band, rows, rhs, pivot, result>>
  BY DEF ClearTable
<1>2. TypeOK /\ Phases /\ PivotsCleared  BY DEF FullInv, RbInv
<1>3. /\ Sorted' /\ KeysOnce' /\ SolutionsKept' /\ \A r \in Key : Combination(r)'
      /\ \A k \in Key : Cols(band[k])' = Cols(band[k]) /\ Cols(rows[k])' = Cols(rows[k])
  BY <1>1, SameRows
<1>4. TypeOK'
  <2>1. table' \in [Column -> Value] /\ i' \in 0 .. Keys + 1  BY <1>1, RbAssumption DEF Value
  <2> QED  BY <1>1, <1>2, <1>3, <2>1 DEF TypeOK
<1>5. Phases'  BY <1>1, <1>2, RbAssumption DEF Phases
<1>6. PivotsCleared'
  <2>1. Placed = Key /\ Placed' = Key
    <3>1. i \in 1 .. Keys + 1  BY <1>1, <1>2 DEF Phases
    <3>2. 1 .. i - 1 = Key  BY <1>1, <3>1, RbAssumption DEF Key
    <3> QED  BY <1>1, <3>2 DEF Placed
  <2> QED  BY <1>1, <1>2, <1>3, <2>1 DEF PivotsCleared
<1>7. BackFilled'
  <2>1. \A r \in Key : ~(r > Keys)  BY RbAssumption DEF Key
  <2> QED  BY <1>1, <2>1 DEF BackFilled
<1>8. DecodeReturns'  BY <1>1, <1>2 DEF DecodeReturns, Phases
<1> QED  BY <1>3, <1>4, <1>5, <1>6, <1>7, <1>8 DEF FullInv, RbInv

\* A turn of the back-fill settles its row and disturbs none behind it.
LEMMA BackFillInv ==
  ASSUME FullInv, BackFill
  PROVE  FullInv'
<1> DEFINE x == rhs[rows[i].key]
           w == Xor(x, XorOver(Cols(rows[i]) \ {pivot[i]}, table))
<1>1. /\ pc = "backfill" /\ i >= 1 /\ i' = i - 1
      /\ table' = [table EXCEPT ![pivot[i]] = w]
      /\ UNCHANGED <<band, rows, rhs, pivot, pc, result>>
  BY DEF BackFill
<1>2. TypeOK /\ Phases /\ PivotsCleared /\ BackFilled  BY DEF FullInv, RbInv
<1>3. /\ Sorted' /\ KeysOnce' /\ SolutionsKept' /\ \A r \in Key : Combination(r)'
      /\ \A k \in Key : Cols(band[k])' = Cols(band[k]) /\ Cols(rows[k])' = Cols(rows[k])
  BY <1>1, SameRows
<1>4. i \in 1 .. Keys /\ i \in Key /\ result = "none"  BY <1>1, <1>2, RbAssumption DEF Phases, Key
<1>5. /\ Cols(rows[i]) \in SUBSET Column /\ x \in Value /\ table \in [Column -> Value]
      /\ \A r \in Key : Cols(rows[r]) \in SUBSET Column
  BY <1>2, <1>4 DEF TypeOK
<1>6. /\ pivot[i] \in Cols(rows[i]) /\ pivot[i] \in Column
      /\ \A s \in Key : s > i => pivot[i] \notin Cols(rows[s])
  <2>1. Placed = Key  BY <1>1 DEF Placed
  <2> QED  BY <1>2, <1>4, <1>5, <2>1 DEF PivotsCleared
<1>7. w \in Value /\ XorOver(Cols(rows[i]), table') = x
  BY <1>1, <1>5, <1>6, XorOverWrite
<1> HIDE DEF x, w
<1>8. table' \in [Column -> Value]  BY <1>1, <1>5, <1>7
<1>9. TypeOK'
  <2>1. i' \in 0 .. Keys + 1  BY <1>1, <1>4, RbAssumption
  <2> QED  BY <1>1, <1>2, <1>3, <1>8, <2>1 DEF TypeOK
<1>10. Phases'
  <2>1. i' \in 0 .. Keys  BY <1>1, <1>4, RbAssumption
  <2> QED  BY <1>1, <1>4, <2>1 DEF Phases
<1>11. PivotsCleared'
  <2>1. Placed = Key /\ Placed' = Key  BY <1>1 DEF Placed
  <2> QED  BY <1>1, <1>2, <1>3, <2>1 DEF PivotsCleared
<1>12. BackFilled'
  <2> SUFFICES ASSUME NEW r \in Key, r > i - 1
               PROVE  XorOver(Cols(rows[r]), table') = rhs[rows[r].key]
    <3>1. \A r \in Key : XorOver(Cols(rows[r]), table)' = XorOver(Cols(rows[r]), table')
      BY <1>3 DEF XorOver, Odd
    <3> QED  BY <1>1, <3>1 DEF BackFilled
  <2>1. CASE r = i  BY <1>7, <2>1 DEF x
  <2>2. CASE r # i
    <3>1. r > i  BY <1>4, <2>2 DEF Key
    <3>2. pivot[i] \notin Cols(rows[r])  BY <1>6, <3>1
    <3>3. \A c \in Cols(rows[r]) : table[c] = table'[c]  BY <1>1, <1>5, <3>2
    <3>4. XorOver(Cols(rows[r]), table) = XorOver(Cols(rows[r]), table')  BY <3>3, XorOverSame
    <3> QED  BY <1>1, <1>2, <3>1, <3>4 DEF BackFilled
  <2> QED  BY <2>1, <2>2
<1>13. DecodeReturns'  BY <1>1, <1>4 DEF DecodeReturns
<1> QED  BY <1>3, <1>9, <1>10, <1>11, <1>12, <1>13 DEF FullInv, RbInv

\* When the back-fill is through, the table decodes every key.
LEMMA BackFilledSolves ==
  ASSUME FullInv, pc = "backfill", i = 0
  PROVE  \A k \in Key : XorOver(Cols(band[k]), table) = {k} /\ RBDecode(table, k) = {k}
<1>1. TypeOK /\ BackFilled /\ SolutionsKept  BY DEF FullInv, RbInv
<1>2. \A r \in Key : r > 0  BY DEF Key
<1>3. Satisfies(table)  BY <1>1, <1>2 DEF BackFilled, Satisfies
<1>4. table \in [Column -> Value]  BY <1>1 DEF TypeOK
<1>5. ASSUME NEW k \in Key PROVE XorOver(Cols(band[k]), table) = {k}
  BY <1>1, <1>3, <1>4 DEF SolutionsKept
<1>6. ASSUME NEW k \in Key PROVE Cols(band[k]) \cap Column = Cols(band[k])
  BY <1>1 DEF TypeOK
<1> QED  BY <1>5, <1>6 DEF RBDecode

\* When the back-fill is through, the table satisfies every row.
LEMMA ReturnsInv ==
  ASSUME FullInv, EncodeReturns
  PROVE  FullInv'
<1>1. /\ pc = "backfill" /\ i = 0 /\ pc' = "done" /\ result' = "ok"
      /\ UNCHANGED <<band, rows, rhs, pivot, i, table>>
  BY DEF EncodeReturns
<1>2. TypeOK /\ Phases /\ PivotsCleared  BY DEF FullInv, RbInv
<1>3. /\ Sorted' /\ KeysOnce' /\ SolutionsKept' /\ \A r \in Key : Combination(r)'
      /\ \A k \in Key : Cols(band[k])' = Cols(band[k]) /\ Cols(rows[k])' = Cols(rows[k])
  BY <1>1, SameRows
<1>4. TypeOK'  BY <1>1, <1>2, <1>3 DEF TypeOK
<1>5. Phases'  BY <1>1, <1>2 DEF Phases
<1>6. PivotsCleared'
  <2>1. Placed = Key /\ Placed' = Key  BY <1>1 DEF Placed
  <2>2. result = "none"  BY <1>1, <1>2 DEF Phases
  <2> QED  BY <1>1, <1>2, <1>3, <2>1, <2>2 DEF PivotsCleared
<1>7. BackFilled'  BY <1>1 DEF BackFilled
<1>8. DecodeReturns'
  <2>1. \A k \in Key : RBDecode(table, k)' = RBDecode(table, k)
    BY <1>1 DEF RBDecode, XorOver, Odd, Cols
  <2> QED  BY <1>1, <2>1, BackFilledSolves DEF DecodeReturns
<1> QED  BY <1>3, <1>4, <1>5, <1>6, <1>7, <1>8 DEF FullInv, RbInv

\* Nothing changes when nothing is done.
LEMMA StutterInv ==
  ASSUME FullInv, UNCHANGED vars
  PROVE  FullInv'
<1>1. RbInv'
  <2>1. UNCHANGED <<band, rows, rhs, pivot, i, pc, table, result>>  BY DEF vars
  <2>2. /\ TypeOK /\ Phases /\ Sorted /\ KeysOnce /\ PivotsCleared /\ BackFilled
        /\ pc # "rows" => \A r \in Key : Combination(r)
    BY DEF FullInv, RbInv
  <2>3. \A k \in Key : Cols(band[k])' = Cols(band[k]) /\ Cols(rows[k])' = Cols(rows[k])
    BY <2>1 DEF Cols
  <2>4. TypeOK' /\ Phases'  BY <2>1, <2>2, <2>3 DEF TypeOK, Phases, StaleTable
  <2>5. Sorted' /\ KeysOnce'  BY <2>1, <2>2 DEF Sorted, KeysOnce
  <2>6. PivotsCleared'
    <3>1. Placed' = Placed /\ \A r \in Placed : r \in Key
      <4>1. Placed' = Placed  BY <2>1 DEF Placed
      <4>2. \A r \in 1 .. i - 1 : r \in Key  BY <2>2, RbAssumption DEF TypeOK, Key
      <4> QED  BY <4>1, <4>2 DEF Placed
    <3> QED  BY <2>1, <2>2, <2>3, <3>1 DEF PivotsCleared
  <2>7. BackFilled'
    <3>1. \A r \in Key : XorOver(Cols(rows[r]), table)' = XorOver(Cols(rows[r]), table)
      BY <2>1 DEF XorOver, Odd, Cols
    <3> QED  BY <2>1, <2>2, <3>1 DEF BackFilled
  <2>8. pc' # "rows" => \A r \in Key : Combination(r)'
    <3>1. ASSUME pc # "rows" PROVE \A r \in Key : Combination(r)'
      BY <2>1, <3>1, SameRows
    <3> QED  BY <2>1, <3>1
  <2> QED  BY <2>4, <2>5, <2>6, <2>7, <2>8 DEF RbInv
<1>2. SolutionsKept'  BY DEF FullInv, SolutionsKept, Satisfies, XorOver, Odd, Cols, vars
<1>3. DecodeReturns'  BY DEF FullInv, DecodeReturns, RBDecode, XorOver, Odd, Cols, vars
<1> QED  BY <1>1, <1>2, <1>3 DEF FullInv

-----------------------------------------------------------------------------
(* The theorems.                                                           *)

\* Every step of RBEncode preserves the invariant.
LEMMA NextInv == FullInv /\ [Next]_vars => FullInv'
<1> SUFFICES ASSUME FullInv, [Next]_vars PROVE FullInv'  OBVIOUS
<1>1. CASE RBRows  BY <1>1, RowsInv
<1>2. CASE Eliminate  BY <1>2, EliminateInv
<1>3. CASE EncodeFails  BY <1>3, FailsInv
<1>4. CASE ClearTable  BY <1>4, ClearInv
<1>5. CASE BackFill  BY <1>5, BackFillInv
<1>6. CASE EncodeReturns  BY <1>6, ReturnsInv
<1>7. CASE Returned \/ UNCHANGED vars  BY <1>7, StutterInv DEF Returned
<1> QED  BY <1>1, <1>2, <1>3, <1>4, <1>5, <1>6, <1>7 DEF Next

\* Every state of RBEncode satisfies the inductive invariant: the rows stay
\* sorted, each is the sum of the bands its right-hand side names, and every
\* table that satisfies them decodes all keys.
THEOREM FullInvariance == Spec => []FullInv
<1>1. Init => FullInv  BY InitInv
<1>2. FullInv /\ [Next]_vars => FullInv'  BY NextInv
<1> QED  BY <1>1, <1>2, PTL DEF Spec

\* Through sorting, elimination and back-fill of RBEncode each row stays the
\* sum of the bands that its right-hand side names.
THEOREM RbInvariance == Spec => []RbInv
<1>1. FullInv => RbInv  BY DEF FullInv
<1> QED  BY <1>1, FullInvariance, PTL

\* A table that RBEncode returns with true decodes every key to its value,
\* for any number of keys and columns, any band width and any hashes.
THEOREM DecodeReturnsHolds == Spec => []DecodeReturns
<1>1. FullInv => DecodeReturns  BY DEF FullInv
<1> QED  BY <1>1, FullInvariance, PTL

\* No later row has a one in the pivot column of an earlier row.
THEOREM PivotsClearedHolds == Spec => []PivotsCleared
<1>1. FullInv => PivotsCleared  BY DEF FullInv, RbInv
<1> QED  BY <1>1, FullInvariance, PTL

-----------------------------------------------------------------------------
(* The refinement of module Okvs.                                          *)

\* A row that becomes zero names keys whose bands add up to zero.
LEMMA GivesUpOnDependent ==
  ASSUME FullInv, EncodeFails
  PROVE  O!Dependent
<1>1. pc = "eliminate" /\ i <= Keys /\ rows[i].bits = {}  BY DEF EncodeFails
<1>2. TypeOK /\ i \in 1 .. Keys + 1 /\ \A r \in Key : Combination(r)
  BY <1>1 DEF FullInv, RbInv, Phases
<1>3. i \in Key  BY <1>1, <1>2, RbAssumption DEF Key
<1> DEFINE S == rhs[rows[i].key]
<1>4. Combination(i)  BY <1>2, <1>3
<1>5. Cols(rows[i]) = {}  BY <1>1 DEF Cols
<1>6. S # {}  BY <1>4 DEF Combination
<1>7. S \in SUBSET Key
  <2>1. ASSUME NEW k \in S PROVE k \in Key
    <3>1. PICK s \in 1 .. i : rows[s].key = k  BY <1>4 DEF Combination
    <3>2. s \in Key  BY <1>3, RbAssumption DEF Key
    <3> QED  BY <1>2, <3>1, <3>2 DEF TypeOK
  <2> QED  BY <2>1
<1>8. \A c \in Column : ~Odd(HaveColumn(S, c))  BY <1>4, <1>5 DEF Combination
<1> HIDE DEF S
<1>9. \A c : {k \in S : c \in [m \in Key |-> Cols(band[m])][k]} = HaveColumn(S, c)
  BY <1>7 DEF HaveColumn
<1>10. \A c \in Column : ~Odd({k \in S : c \in [m \in Key |-> Cols(band[m])][k]})
  BY <1>8, <1>9
<1>11. O!Key = Key /\ O!Column = Column  BY DEF O!Key, Key, O!Column, Column
<1> QED  BY <1>6, <1>7, <1>10, <1>11 DEF O!Dependent

\* Every step of RBEncode is a step of the store or none.
LEMMA OkvsStep == FullInv /\ [Next]_vars => [O!Next]_(O!okvsVars)
<1> DEFINE cells == IF pc = "backfill" THEN StaleTable ELSE table
           equation == [k \in Key |-> Cols(band[k])]
<1> SUFFICES ASSUME FullInv, [Next]_vars
             PROVE  O!Next \/ UNCHANGED <<equation, result, cells>>
  BY DEF O!okvsVars
<1>1. TypeOK /\ Phases  BY DEF FullInv, RbInv
<1>2. ASSUME UNCHANGED band PROVE equation' = equation  BY <1>2 DEF Cols
<1>3. CASE RBRows \/ Eliminate
  <2>1. UNCHANGED <<band, table, result>> /\ pc # "backfill" /\ pc' # "backfill"
    BY <1>3 DEF RBRows, Eliminate
  <2> QED  BY <1>2, <2>1
<1>4. CASE ClearTable
  <2>1. UNCHANGED <<band, result>> /\ pc = "eliminate" /\ pc' = "backfill"  BY <1>4 DEF ClearTable
  <2>2. cells = StaleTable /\ cells' = StaleTable  BY <1>1, <2>1 DEF Phases, StaleTable
  <2> QED  BY <1>2, <2>1, <2>2
<1>5. CASE BackFill
  <2>1. UNCHANGED <<band, result, pc>> /\ pc = "backfill"  BY <1>5 DEF BackFill
  <2>2. cells = StaleTable /\ cells' = StaleTable  BY <2>1 DEF StaleTable
  <2> QED  BY <1>2, <2>1, <2>2
<1>6. CASE EncodeFails
  <2>1. UNCHANGED <<band, table>> /\ pc = "eliminate" /\ pc' = "done" /\ result' = "failed"
    BY <1>6 DEF EncodeFails
  <2>2. result = "none"  BY <1>1, <2>1 DEF Phases
  <2>3. UNCHANGED <<equation, cells>>  BY <1>2, <2>1
  <2>4. O!Dependent  BY <1>6, GivesUpOnDependent
  <2> QED  BY <2>1, <2>2, <2>3, <2>4 DEF O!Next, O!GiveUp
<1>7. CASE EncodeReturns
  <2>1. UNCHANGED <<band, table>> /\ pc = "backfill" /\ i = 0 /\ pc' = "done" /\ result' = "ok"
    BY <1>7 DEF EncodeReturns
  <2>2. result = "none"  BY <1>1, <2>1 DEF Phases
  <2>3. \A k \in Key : XorOver(Cols(band[k]), table) = {k}  BY <2>1, BackFilledSolves
  <2>4. ASSUME NEW k \in Key, NEW v \in 0 .. Keys
        PROVE  Odd({c \in equation[k] : v \in table[c]}) <=> v = k
    <3>1. Odd({c \in Cols(band[k]) : v \in table[c]}) <=> v = k  BY <2>3 DEF XorOver
    <3>2. equation[k] = Cols(band[k])  OBVIOUS
    <3> QED  BY <3>1, <3>2
  <2>5. cells' = table /\ equation' = equation  BY <1>2, <2>1
  <2>6. O!Solves(table)
    <3>1. O!Key = Key  BY DEF O!Key, Key
    <3> QED  BY <2>4, <3>1 DEF O!Solves
  <2> QED  BY <2>1, <2>2, <2>5, <2>6 DEF O!Next, O!Succeed
<1>8. CASE Returned \/ UNCHANGED vars
  <2>1. UNCHANGED <<band, pc, table, result>>  BY <1>8 DEF Returned, vars
  <2> QED  BY <1>2, <2>1 DEF StaleTable
<1> QED  BY <1>3, <1>4, <1>5, <1>6, <1>7, <1>8 DEF Next

\* RBEncode implements the store its callers expect: it solves the system in
\* one step as they see it, or gives up, and that only on dependent bands
\* and with the table as it was.
THEOREM OkvsRefinement == Spec => ImplementsOkvs
<1>1. Init => O!Init  BY DEF Init, O!Init
<1>2. FullInv /\ [Next]_vars => [O!Next]_(O!okvsVars)  BY OkvsStep
<1> QED  BY <1>1, <1>2, FullInvariance, PTL DEF Spec, ImplementsOkvs, O!Spec

=============================================================================
