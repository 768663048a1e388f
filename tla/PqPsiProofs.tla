----------------------------- MODULE PqPsiProofs -----------------------------
(* Proofs about module PqPsi, for every set of items, set size, number of  *)
(* channels and table size.                                                *)
EXTENDS PqPsi, FiniteSetTheorems, SequenceTheorems, TLAPS

-----------------------------------------------------------------------------
(* How a table is divided.                                                 *)

\* Rounding up: k parts of that length cover m blocks.
LEMMA RoundUp ==
    ASSUME NEW m \in Nat \ {0}, NEW k \in Nat \ {0}
    PROVE  /\ (m + k - 1) \div k \in Nat \ {0}
           /\ k * ((m + k - 1) \div k) >= m
<1> DEFINE s == m + k - 1
           q == s \div k
           r == s % k
<1>1. s \in Nat /\ s >= k
  OBVIOUS
<1>2. q \in Nat /\ r \in 0 .. k - 1 /\ s = k * q + r
  BY <1>1
<1>3. k * q >= m
  BY <1>1, <1>2
<1>4. q # 0
  BY <1>2, <1>3
<1> QED
  BY <1>2, <1>3, <1>4

\* Every number up to a product is in one of the parts.
LEMMA InSomePart ==
    ASSUME NEW b \in Nat \ {0}, NEW l \in Nat \ {0}, NEW k \in Nat, b <= k * l
    PROVE  \E c \in 1 .. k : (c - 1) * l < b /\ b <= c * l
<1> DEFINE c == ((b - 1) \div l) + 1
           d == (b - 1) \div l
<1>1. d \in Nat /\ b - 1 = l * d + ((b - 1) % l) /\ (b - 1) % l \in 0 .. l - 1
  OBVIOUS
<1> HIDE DEF d
<1>2. d * l < b /\ b <= (d + 1) * l
  <2>1. l * d = d * l /\ (d + 1) * l = d * l + l /\ d * l \in Nat
    BY <1>1
  <2> QED
    BY <1>1, <2>1
<1>3. d < k
  <2>1. SUFFICES ASSUME k <= d PROVE FALSE
    BY <1>1
  <2>2. PICK e \in Nat : d = k + e
    <3>1. d - k \in Nat /\ d = k + (d - k)
      BY <1>1, <2>1
    <3> QED
      BY <3>1
  <2>3. d * l = k * l + e * l /\ e * l \in Nat /\ k * l \in Nat
    BY <2>2
  <2> QED
    BY <1>2, <2>3
<1>4. d + 1 \in 1 .. k /\ (d + 1) - 1 = d
  BY <1>1, <1>3
<1> QED
  BY <1>2, <1>4

\* Every block is in a chunk, and chunks are on the channels that were warmed up.
LEMMA ChunksCover ==
    ASSUME cfg \in Cfg
    PROVE  /\ \A b \in Block : \E c \in Chunk : b \in Part(c)
           /\ \A c \in Channel : Part(c) \subseteq Block
           /\ Chunk \subseteq Channel
           /\ \A c \in Chunk : c <= numChannels
           /\ \E c \in Chunk : TRUE
<1>1. numChannels \in Nat \ {0} /\ numChannels <= NumCh /\ NumBlock \in Nat \ {0} /\ NumCh \in Nat \ {0}
  BY PqPsiAssumption DEF numChannels, Cfg
<1>2. use \in Nat \ {0} /\ use <= NumCh /\ use <= numChannels
  BY <1>1 DEF use
<1>3. per \in Nat \ {0} /\ use * per >= NumBlock
  BY <1>1, <1>2, RoundUp DEF per
<1>4. ASSUME NEW b \in Block PROVE \E c \in Chunk : b \in Part(c)
  <2>1. CASE shouldSplit
    <3>1. b \in Nat \ {0} /\ b <= use * per
      <4>1. use * per \in Nat
        BY <1>2, <1>3
      <4> QED
        BY <1>1, <1>3, <4>1 DEF Block
    <3>2. PICK c \in 1 .. use : (c - 1) * per < b /\ b <= c * per
      BY <1>2, <1>3, <3>1, InSomePart
    <3>3. c \in Channel /\ c <= use
      BY <1>1, <1>2 DEF Channel
    <3>4. b \in Part(c)
      BY <2>1, <3>2, <3>3 DEF Part
    <3> QED
      BY <3>3, <3>4 DEF Chunk
  <2>2. CASE ~shouldSplit
    <3>1. 1 \in Channel /\ b \in Part(1)
      BY <1>1, <2>2 DEF Channel, Part
    <3> QED
      BY <3>1 DEF Chunk
  <2> QED
    BY <2>1, <2>2
<1>5. 1 \in Block
  BY <1>1 DEF Block
<1>6. ASSUME NEW c \in Chunk PROVE c <= numChannels
  <2>1. c \in Channel /\ \E b \in Block : b \in Part(c)
    BY DEF Chunk, Part
  <2>2. c <= use \/ c = 1
    BY <2>1 DEF Part
  <2> QED
    BY <1>1, <1>2, <2>1, <2>2 DEF Channel
<1> QED
  BY <1>4, <1>5, <1>6 DEF Chunk, Part

-----------------------------------------------------------------------------
(* Layers.                                                                 *)

LayerT == ({"Pi", "PiInverse"} \X {0, 1}) \cup ({"H"} \X Item)
RowT == [kind : Base, of : Nat, layers : Seq(LayerT)]

Push(l, row) == [row EXCEPT !.layers = Append(@, l)]

\* A layer on top of a row is taken off by its inverse.
LEMMA TakeOff ==
    ASSUME NEW row \in RowT, NEW l \in LayerT, NEW k
    PROVE  Layer(k, l, Push(l, row)) = row
<1> DEFINE s == row.layers
           t == Append(s, l)
<1>1. s \in Seq(LayerT)
  BY DEF RowT
<1>2. /\ t \in Seq(LayerT) /\ Len(t) = Len(s) + 1 /\ t[Len(s) + 1] = l
      /\ \A j \in 1 .. Len(s) : t[j] = s[j]
  BY <1>1, AppendProperties
<1>3. Len(s) \in Nat
  BY <1>1, LenProperties
<1>4. SubSeq(t, 1, Len(s)) = s
  <2>1. SubSeq(t, 1, Len(s)) = [j \in 1 .. Len(s) |-> t[j]]
    BY <1>3
  <2>2. s = [j \in 1 .. Len(s) |-> s[j]]
    BY <1>1, LenProperties
  <2> QED
    BY <1>2, <2>1, <2>2
<1> DEFINE up == Push(l, row)
<1>5. up.layers = t /\ up = [row EXCEPT !.layers = t]
  BY DEF Push, RowT
<1>6. Layer(k, l, up) = [up EXCEPT !.layers = SubSeq(t, 1, Len(s))]
  BY <1>2, <1>3, <1>5 DEF Layer
<1>7. [up EXCEPT !.layers = s] = row
  BY <1>5 DEF RowT
<1> QED
  BY <1>4, <1>6, <1>7

\* A layer goes on top unless its inverse is there.
LEMMA PutOn ==
    ASSUME NEW row \in RowT, NEW l \in LayerT, NEW k,
           row.layers = <<>> \/ (\E r \in RowT : \E a \in LayerT : row = Push(a, r) /\ a # k)
    PROVE  Layer(l, k, row) = Push(l, row)
<1>1. CASE row.layers = <<>>
  <2>1. Len(row.layers) = 0
    BY <1>1
  <2> QED
    BY <2>1 DEF Layer, Push
<1>2. CASE \E r \in RowT : \E a \in LayerT : row = Push(a, r) /\ a # k
  <2>1. PICK r \in RowT, a \in LayerT : row = Push(a, r) /\ a # k
    BY <1>2
  <2>2. row.layers = Append(r.layers, a) /\ r.layers \in Seq(LayerT)
    BY <2>1 DEF Push, RowT
  <2>3. row.layers[Len(row.layers)] = a
    BY <2>2, AppendProperties, LenProperties
  <2> QED
    BY <2>1, <2>3 DEF Layer, Push
<1> QED
  BY <1>1, <1>2

\* What a layer does not change.
LEMMA LayerKeeps ==
    ASSUME NEW row \in RowT, NEW l \in LayerT, NEW k
    PROVE  /\ Layer(l, k, row) \in RowT
           /\ Layer(l, k, row).kind = row.kind
           /\ Push(l, row) \in RowT
<1> DEFINE s == row.layers
<1>1. s \in Seq(LayerT) /\ Len(s) \in Nat
  BY LenProperties DEF RowT
<1>2. Append(s, l) \in Seq(LayerT)
  BY <1>1, AppendProperties
<1>3. ASSUME Len(s) > 0 PROVE SubSeq(s, 1, Len(s) - 1) \in Seq(LayerT)
  <2>1. \A j \in 1 .. Len(s) : s[j] \in LayerT
    BY <1>1, LenProperties, ElementOfSeq
  <2>2. \A j \in 1 .. Len(s) - 1 : s[j] \in LayerT
    BY <2>1, <1>1
  <2>3. Len(s) - 1 \in Nat
    BY <1>1, <1>3
  <2>4. SubSeq(s, 1, Len(s) - 1) = [j \in 1 .. Len(s) - 1 |-> s[j]]
    BY <1>1, <1>3
  <2> QED
    BY <2>2, <2>3, <2>4
<1>4. Push(l, row) \in RowT /\ Push(l, row).kind = row.kind
  BY <1>2 DEF Push, RowT
<1>5. CASE Len(s) > 0 /\ s[Len(s)] = k
  BY <1>3, <1>4, <1>5 DEF Layer, RowT
<1>6. CASE ~(Len(s) > 0 /\ s[Len(s)] = k)
  BY <1>4, <1>6 DEF Layer, Push
<1> QED
  BY <1>4, <1>5, <1>6

-----------------------------------------------------------------------------
(* The rows of the two tables, and what each party makes of them.          *)

Inputs == set \in [Party -> [Index -> Item]] /\ cfg \in Cfg

R0(i) == xorMask(set[0][i], permute(0, Row("pk", i)))

T0 == IF encoded[0] THEN Table(set[0], [i \in Index |-> R0(i)]) ELSE NoTable

Has(p, x) == \E i \in Index : set[p][i] = x
Where(p, x) == CHOOSE i \in Index : set[p][i] = x

KeyOf(j) == IF encoded[0] /\ Has(0, set[1][j]) THEN Where(0, set[1][j]) ELSE 0
Ct(j) == Row("ct", KeyOf(j))

R1(j) == xorMask(set[1][j], IF cfg.bobPi THEN permute(1, Ct(j)) ELSE Ct(j))

T1 == IF encoded[1] THEN Table(set[1], [j \in Index |-> R1(j)]) ELSE T0

PiL(p) == <<"Pi", PiOf(p)>>
PiI(p) == <<"PiInverse", PiOf(p)>>
HL(x) == <<"H", x>>

\* Layers are told apart by their name.
LEMMA LayerTypes ==
    /\ \A p \in Party : PiL(p) \in LayerT /\ PiI(p) \in LayerT
    /\ \A x \in Item : HL(x) \in LayerT
    /\ \A p \in Party : \A x : PiL(p) # HL(x) /\ PiI(p) # PiL(p) /\ PiI(p) # HL(x)
<1>1. \A p \in Party : PiOf(p) \in {0, 1}
  BY DEF Party, PiOf
<1>2. \A p \in Party : PiL(p) \in LayerT /\ PiI(p) \in LayerT
  BY <1>1 DEF PiL, PiI, LayerT
<1>3. \A x \in Item : HL(x) \in LayerT
  BY DEF HL, LayerT
<1>4. \A p \in Party : \A x : PiL(p) # HL(x) /\ PiI(p) # PiL(p) /\ PiI(p) # HL(x)
  <2> SUFFICES ASSUME NEW p \in Party, NEW x
               PROVE  PiL(p) # HL(x) /\ PiI(p) # PiL(p) /\ PiI(p) # HL(x)
    OBVIOUS
  <2>1. PiL(p)[1] = "Pi" /\ PiI(p)[1] = "PiInverse" /\ HL(x)[1] = "H"
    BY DEF PiL, PiI, HL
  <2> QED
    BY <2>1
<1> QED
  BY <1>2, <1>3, <1>4

\* A row without layers.
LEMMA BareRow ==
    ASSUME NEW k \in Base, NEW n \in Nat
    PROVE  Row(k, n) \in RowT /\ Row(k, n).layers = <<>> /\ Row(k, n).kind = k /\ Row(k, n).of = n
<1>1. <<>> \in Seq(LayerT)
  OBVIOUS
<1> QED
  BY <1>1 DEF Row, RowT

\* The operations keep the type and the kind of a row.
LEMMA OpTypes ==
    ASSUME NEW row \in RowT, NEW p \in Party, NEW x \in Item
    PROVE  /\ permute(p, row) \in RowT /\ permute(p, row).kind = row.kind
           /\ unpermute(p, row) \in RowT /\ unpermute(p, row).kind = row.kind
           /\ xorMask(x, row) \in RowT /\ xorMask(x, row).kind = row.kind
BY LayerTypes, LayerKeeps DEF permute, unpermute, xorMask, PiL, PiI, HL

\* A mask over a bare row comes off again.
LEMMA MaskBare ==
    ASSUME NEW k \in Base, NEW n \in Nat, NEW x \in Item
    PROVE  xorMask(x, xorMask(x, Row(k, n))) = Row(k, n)
<1> DEFINE row == Row(k, n)
<1>1. row \in RowT /\ row.layers = <<>> /\ HL(x) \in LayerT
  BY BareRow, LayerTypes
<1> HIDE DEF row
<1>2. xorMask(x, row) = Push(HL(x), row)
  BY <1>1, PutOn DEF xorMask, HL
<1>3. xorMask(x, Push(HL(x), row)) = row
  BY <1>1, TakeOff DEF xorMask, HL
<1> QED
  BY <1>2, <1>3 DEF row

\* A permutation and a mask over a bare row come off in the reverse order.
LEMMA MaskPermuted ==
    ASSUME NEW k \in Base, NEW n \in Nat, NEW x \in Item, NEW p \in Party
    PROVE  /\ xorMask(x, xorMask(x, permute(p, Row(k, n)))) = permute(p, Row(k, n))
           /\ unpermute(p, permute(p, Row(k, n))) = Row(k, n)
<1> DEFINE row == Row(k, n)
           up == Push(PiL(p), row)
<1>1. row \in RowT /\ row.layers = <<>> /\ HL(x) \in LayerT /\ PiL(p) \in LayerT /\ PiL(p) # HL(x)
  BY BareRow, LayerTypes
<1> HIDE DEF row
<1>2. permute(p, row) = up
  BY <1>1, PutOn DEF permute, PiL, PiI
<1>3. up \in RowT
  BY <1>1, LayerKeeps
<1>4. Layer(HL(x), HL(x), up) = Push(HL(x), up)
  <2>1. \E r \in RowT : \E a \in LayerT : up = Push(a, r) /\ a # HL(x)
    BY <1>1
  <2> QED
    BY <1>1, <1>3, <2>1, PutOn
<1>5. xorMask(x, up) = Push(HL(x), up)
  BY <1>4 DEF xorMask, HL
<1>6. xorMask(x, Push(HL(x), up)) = up
  BY <1>1, <1>3, TakeOff DEF xorMask, HL
<1>7. unpermute(p, up) = row
  BY <1>1, TakeOff DEF unpermute, PiL, PiI
<1> QED
  BY <1>2, <1>5, <1>6, <1>7 DEF row

\* The kinds of rows there are.
LEMMA BaseKinds == "pk" \in Base /\ "ct" \in Base /\ "noise" \in Base /\ "zero" \in Base
BY DEF Base

\* Types of the rows of the tables.
LEMMA RowsTyped ==
    ASSUME Inputs
    PROVE  /\ \A i \in Index : R0(i) \in RowT /\ R0(i).kind = "pk"
           /\ \A j \in Index : KeyOf(j) \in Nat /\ Ct(j) \in RowT /\ R1(j) \in RowT /\ R1(j).kind = "ct"
<1>1. Index \subseteq Nat /\ 0 \in Party /\ 1 \in Party
  BY PqPsiAssumption DEF Index, Party
<1>2. ASSUME NEW i \in Index PROVE R0(i) \in RowT /\ R0(i).kind = "pk"
  <2>1. Row("pk", i) \in RowT /\ Row("pk", i).kind = "pk" /\ set[0][i] \in Item
    BY <1>1, BareRow, BaseKinds DEF Inputs
  <2>2. permute(0, Row("pk", i)) \in RowT /\ permute(0, Row("pk", i)).kind = "pk"
    BY <1>1, <2>1, OpTypes
  <2> QED
    BY <1>1, <2>1, <2>2, OpTypes DEF R0
<1>3. ASSUME NEW j \in Index
      PROVE  KeyOf(j) \in Nat /\ Ct(j) \in RowT /\ R1(j) \in RowT /\ R1(j).kind = "ct"
  <2>1. KeyOf(j) \in Nat
    BY <1>1 DEF KeyOf, Has, Where
  <2>2. Ct(j) \in RowT /\ Ct(j).kind = "ct" /\ set[1][j] \in Item
    BY <1>1, <2>1, BareRow, BaseKinds DEF Ct, Inputs
  <2>3. permute(1, Ct(j)) \in RowT /\ permute(1, Ct(j)).kind = "ct"
    BY <1>1, <2>2, OpTypes
  <2> QED
    BY <1>1, <2>1, <2>2, <2>3, OpTypes DEF R1
<1> QED
  BY <1>2, <1>3

\* A table is not the table of zeros the buffer starts with.
LEMMA TableNotEmpty ==
    ASSUME NEW keys, NEW f, DOMAIN f = Index
    PROVE  Table(keys, f) # NoTable
<1>1. 1 \in Index
  BY PqPsiAssumption DEF Index
<1>2. DOMAIN <<>> = {}
  OBVIOUS
<1>3. Table(keys, f).rows = f /\ NoTable.rows = <<>>
  BY DEF Table, NoTable
<1> QED
  BY <1>1, <1>2, <1>3

\* Decoding a buffer that holds one whole table.
LEMMA DecodeWhole ==
    ASSUME NEW t, NEW key
    PROVE  RBDecodeRow([b \in Block |-> t], key) =
             IF t = NoTable THEN Zero
             ELSE IF \E i \in Index : t.keys[i] = key
                  THEN t.rows[CHOOSE i \in Index : t.keys[i] = key]
                  ELSE Noise
<1>1. 1 \in Block
  BY PqPsiAssumption DEF Block
<1> QED
  BY <1>1 DEF RBDecodeRow

\* Decoding the table of party 0, or the zeros it sends if encoding failed.
LEMMA DecodeT0 ==
    ASSUME Inputs, NEW x
    PROVE  RBDecodeRow([b \in Block |-> T0], x) =
             IF ~encoded[0] THEN Zero ELSE IF Has(0, x) THEN R0(Where(0, x)) ELSE Noise
<1>1. CASE ~encoded[0]
  BY <1>1, DecodeWhole DEF T0
<1>2. CASE encoded[0]
  <2> DEFINE t == Table(set[0], [i \in Index |-> R0(i)])
  <2>0. DOMAIN [i \in Index |-> R0(i)] = Index
    OBVIOUS
  <2>1. T0 = t /\ t # NoTable
    BY <1>2, <2>0, TableNotEmpty DEF T0
  <2>2. t.keys = set[0] /\ t.rows = [i \in Index |-> R0(i)]
    BY DEF Table
  <2>3. Has(0, x) => Where(0, x) \in Index
    BY DEF Has, Where
  <2> HIDE DEF t
  <2>4. RBDecodeRow([b \in Block |-> t], x) =
          IF \E i \in Index : t.keys[i] = x THEN t.rows[CHOOSE i \in Index : t.keys[i] = x] ELSE Noise
    BY <2>1, DecodeWhole
  <2>5. RBDecodeRow([b \in Block |-> T0], x) = IF Has(0, x) THEN t.rows[Where(0, x)] ELSE Noise
    BY <2>1, <2>2, <2>4 DEF Has, Where
  <2> QED
    BY <1>2, <2>2, <2>3, <2>5
<1> QED
  BY <1>1, <1>2

\* Decoding what party 1 sends.
LEMMA DecodeT1 ==
    ASSUME Inputs, encoded[1], NEW x
    PROVE  RBDecodeRow([b \in Block |-> T1], x) =
             IF Has(1, x) THEN R1(Where(1, x)) ELSE Noise
<1> DEFINE t == Table(set[1], [j \in Index |-> R1(j)])
<1>0. DOMAIN [j \in Index |-> R1(j)] = Index
  OBVIOUS
<1>1. T1 = t /\ t # NoTable
  BY <1>0, TableNotEmpty DEF T1
<1>2. t.keys = set[1] /\ t.rows = [j \in Index |-> R1(j)]
  BY DEF Table
<1>3. Has(1, x) => Where(1, x) \in Index
  BY DEF Has, Where
<1> HIDE DEF t
<1>4. RBDecodeRow([b \in Block |-> t], x) =
        IF \E i \in Index : t.keys[i] = x THEN t.rows[CHOOSE i \in Index : t.keys[i] = x] ELSE Noise
  BY <1>1, DecodeWhole
<1>5. RBDecodeRow([b \in Block |-> T1], x) = IF Has(1, x) THEN t.rows[Where(1, x)] ELSE Noise
  BY <1>1, <1>2, <1>4 DEF Has, Where
<1> QED
  BY <1>2, <1>3, <1>5

\* Noise and zeros are no keys and no ciphertexts, whatever is taken off them.
LEMMA JunkRows ==
    ASSUME NEW row \in {Noise, Zero}
    PROVE  row \in RowT /\ row.kind \notin {"pk", "ct"}
<1>1. 0 \in Nat
  OBVIOUS
<1>2. /\ Row("noise", 0) \in RowT /\ Row("noise", 0).kind = "noise"
      /\ Row("zero", 0) \in RowT /\ Row("zero", 0).kind = "zero"
  BY <1>1, BareRow, BaseKinds
<1> QED
  BY <1>2 DEF Noise, Zero

\* Party 1 encapsulates to the key of the item, or to no key of party 0.
LEMMA EncapT0 ==
    ASSUME Inputs, NEW j \in Index
    PROVE  LET row == unpermute(0, xorMask(set[1][j], RBDecodeRow([b \in Block |-> T0], set[1][j])))
           IN row \in RowT /\ encapRow(row) = Ct(j)
<1> DEFINE x == set[1][j]
           got == RBDecodeRow([b \in Block |-> T0], x)
           row == unpermute(0, xorMask(x, got))
<1>1. x \in Item /\ 0 \in Party
  BY DEF Inputs, Party
<1>2. got = IF ~encoded[0] THEN Zero ELSE IF Has(0, x) THEN R0(Where(0, x)) ELSE Noise
  BY DecodeT0
<1> HIDE DEF x, got
<1>3. CASE encoded[0] /\ Has(0, x)
  <2> DEFINE i == Where(0, x)
  <2>1. i \in Index /\ i \in Nat /\ set[0][i] = x /\ KeyOf(j) = i
    BY <1>3, PqPsiAssumption DEF Has, Where, Index, KeyOf, x
  <2> HIDE DEF i
  <2>2. got = xorMask(x, permute(0, Row("pk", i)))
    BY <1>2, <1>3, <2>1 DEF R0, i
  <2>3. row = Row("pk", i)
    BY <1>1, <2>1, <2>2, BaseKinds, MaskPermuted
  <2>4. row \in RowT /\ row.of = i
    BY <2>1, <2>3, BareRow, BaseKinds
  <2>5. encapRow(row) = Row("ct", i)
    BY <2>3, <2>4 DEF encapRow
  <2> QED
    BY <2>1, <2>4, <2>5 DEF Ct, x, got
<1>4. CASE ~(encoded[0] /\ Has(0, x))
  <2>1. got \in {Noise, Zero} /\ KeyOf(j) = 0
    BY <1>2, <1>4 DEF KeyOf, x
  <2>2. got \in RowT /\ got.kind \notin {"pk", "ct"}
    BY <2>1, JunkRows
  <2>3. xorMask(x, got) \in RowT /\ xorMask(x, got).kind \notin {"pk", "ct"}
    BY <1>1, <2>2, OpTypes
  <2>4. row \in RowT /\ row.kind \notin {"pk", "ct"}
    BY <1>1, <2>3, OpTypes
  <2>5. row # Row("pk", row.of)
    BY <2>4 DEF Row
  <2>6. encapRow(row) = Row("ct", 0)
    BY <2>5 DEF encapRow
  <2> QED
    BY <2>1, <2>4, <2>6 DEF Ct, x, got
<1> QED
  BY <1>3, <1>4

Opened(i, b) ==
    LET r == xorMask(set[0][i], RBDecodeRow(b, set[0][i])) IN
    IF cfg.bobPi THEN unpermute(1, r) ELSE r

\* Taking the mask and the permutation off keeps the kind.
LEMMA OpenKind ==
    ASSUME Inputs, NEW i \in Index, NEW b, RBDecodeRow(b, set[0][i]) \in RowT
    PROVE  Opened(i, b) \in RowT /\ Opened(i, b).kind = RBDecodeRow(b, set[0][i]).kind
<1> DEFINE g == RBDecodeRow(b, set[0][i])
           r == xorMask(set[0][i], g)
<1>1. set[0][i] \in Item /\ 1 \in Party /\ g \in RowT
  BY DEF Inputs, Party
<1> HIDE DEF g
<1>2. r \in RowT /\ r.kind = g.kind
  BY <1>1, OpTypes
<1> HIDE DEF r
<1>3. unpermute(1, r) \in RowT /\ unpermute(1, r).kind = g.kind
  BY <1>1, <1>2, OpTypes
<1> QED
  BY <1>2, <1>3 DEF Opened, g, r

\* What party 0 finds in the table of party 1: the secrets of the common
\* items if both encodings succeeded, and never that of another item.
LEMMA OpenT1 ==
    ASSUME Inputs, encoded[0] => Encodable(set[0]), NEW i \in Index
    PROVE  LET row == Opened(i, [b \in Block |-> T1]) IN
           /\ row \in RowT
           /\ decap(i, row) => i \in Common
           /\ encoded[0] /\ encoded[1] /\ i \in Common => decap(i, row)
<1> DEFINE x == set[0][i]
           b1 == [b \in Block |-> T1]
           got == RBDecodeRow(b1, x)
           row == Opened(i, b1)
<1>1. x \in Item /\ 1 \in Party /\ i \in Nat /\ i # 0
  BY PqPsiAssumption DEF Inputs, Party, Index
<1>2. i \in Common <=> Has(1, x)
  BY DEF Common, Has, x
<1>3. decap(i, row) => row.kind = "ct"
  BY DEF decap, Row
<1>4. ASSUME got \in RowT, got.kind # "ct" PROVE row \in RowT /\ ~decap(i, row)
  BY <1>3, <1>4, OpenKind
<1>5. CASE encoded[1] /\ Has(1, x)
  <2> DEFINE j == Where(1, x)
  <2>1. j \in Index /\ set[1][j] = x
    BY <1>5 DEF Has, Where
  <2>2. got = R1(j)
    BY <1>5, DecodeT1
  <2> HIDE DEF j
  <2>3. KeyOf(j) \in Nat /\ Ct(j) \in RowT /\ R1(j) \in RowT
    BY <2>1, RowsTyped
  <2>4. row = Ct(j)
    <3>1. CASE cfg.bobPi
      <4>1. got = xorMask(x, permute(1, Ct(j)))
        BY <2>1, <2>2, <3>1 DEF R1
      <4>2. unpermute(1, xorMask(x, got)) = Ct(j)
        BY <1>1, <2>3, <4>1, BaseKinds, MaskPermuted DEF Ct
      <4> QED
        BY <3>1, <4>2 DEF Opened
    <3>2. CASE ~cfg.bobPi
      <4>1. got = xorMask(x, Ct(j))
        BY <2>1, <2>2, <3>2 DEF R1
      <4>2. xorMask(x, got) = Ct(j)
        BY <1>1, <2>3, <4>1, BaseKinds, MaskBare DEF Ct
      <4> QED
        BY <3>2, <4>2 DEF Opened
    <3> QED
      BY <3>1, <3>2
  <2>5. encoded[0] => KeyOf(j) = i
    <3> SUFFICES ASSUME encoded[0] PROVE KeyOf(j) = i
      OBVIOUS
    <3>1. Has(0, set[1][j])
      BY <2>1 DEF Has
    <3>2. KeyOf(j) \in Index /\ set[0][KeyOf(j)] = x
      BY <2>1, <3>1 DEF KeyOf, Has, Where
    <3> QED
      BY <3>2 DEF Encodable
  <2>6. encoded[0] => decap(i, row)
    BY <2>4, <2>5 DEF decap, Ct
  <2> QED
    BY <1>2, <1>5, <2>3, <2>4, <2>6
<1>6. CASE encoded[1] /\ ~Has(1, x)
  <2>1. got \in RowT /\ got.kind # "ct"
    BY <1>6, DecodeT1, JunkRows
  <2> QED
    BY <1>2, <1>4, <1>6, <2>1
<1>7. CASE ~encoded[1]
  <2>1. b1 = [b \in Block |-> T0]
    BY <1>7 DEF T1
  <2>2. Has(0, x) /\ Where(0, x) \in Index
    BY DEF Has, Where
  <2>3. got = Zero \/ got = R0(Where(0, x))
    BY <2>1, <2>2, DecodeT0
  <2>4. got \in RowT /\ got.kind # "ct"
    BY <2>2, <2>3, JunkRows, RowsTyped
  <2> QED
    BY <1>4, <1>7, <2>4
<1> QED
  BY <1>5, <1>6, <1>7

-----------------------------------------------------------------------------
(* The inductive invariant.  A channel carries at most one message: a      *)
(* warm-up byte, or the chunk that its sender has sent and the peer has    *)
(* not taken.  A block that has arrived is a block of the peer's table.    *)

At0 == {"warm", "keygen", "encode", "post", "send", "wait", "decode", "count", "done", "dead"}
At1 == {"warm", "post", "wait", "decode", "encap", "encode", "send", "done", "dead"}

\* Where the party may have sent, or taken, chunks.
Sent0 == {"send", "wait", "decode", "count", "done"}
Sent1 == {"send", "done"}
Got1 == {"wait", "decode", "encap", "encode", "send", "done"}

Sending(p) == IF p = 0 THEN at[0] \in Sent0 ELSE at[1] \in Sent1
Receiving(p) == IF p = 0 THEN at[0] \in Sent0 ELSE at[1] \in Got1

SentCh(p, c) == c \in Chunk /\ Sending(p) /\ c \notin toSend[p]
GotCh(p, c) == c \in Chunk /\ Receiving(p) /\ c \notin posted[p]

WarmIn(p, c) ==
    IF p = 0 THEN warm[0] > 2 * (c - 1) /\ warm[1] <= 2 * (c - 1)
             ELSE warm[1] > 2 * c - 1 /\ warm[0] <= 2 * c - 1

TableOf(p) == IF p = 0 THEN T0 ELSE T1

Line(p, c) ==
    IF WarmIn(p, c) THEN <<WarmByte>>
    ELSE IF SentCh(p, c) /\ ~GotCh(Peer(p), c) THEN <<[b \in Part(c) |-> TableOf(p)]>>
    ELSE <<>>

Types ==
    /\ Inputs
    /\ at \in [Party -> At0 \cup At1] /\ at[0] \in At0 /\ at[1] \in At1
    /\ warm \in [Party -> 0 .. 2 * numChannels]
    /\ toSend \in [Party -> SUBSET Chunk]
    /\ posted \in [Party -> SUBSET Chunk]
    /\ rows \in [Party -> [Index -> RowT]]
    /\ encoded \in [Party -> BOOLEAN]
    /\ buf = [p \in Party |-> [b \in Block |-> buf[p][b]]]
    /\ recvBuf = [b \in Block |-> recvBuf[b]]

\* The two warm-ups are at most one step apart.
WarmInv ==
    /\ \/ warm[0] = warm[1]
       \/ warm[0] = warm[1] + 1 /\ warm[0] % 2 = 1
       \/ warm[1] = warm[0] + 1 /\ warm[1] % 2 = 0
    /\ \A p \in Party : at[p] # "warm" => warm[p] = 2 * numChannels

NetInv ==
    /\ net = [p \in Party |-> [c \in Channel |-> net[p][c]]]
    /\ \A p \in Party : \A c \in Channel : net[p][c] = Line(p, c)
    /\ \A c \in Chunk : (GotCh(0, c) => SentCh(1, c)) /\ (GotCh(1, c) => SentCh(0, c))
    /\ posted[0] # {} => at[0] \in {"send", "wait"}
    /\ posted[1] # {} => at[1] = "wait"
    /\ \A p \in Party : toSend[p] # {} => at[p] = "send"

BufInv ==
    /\ encoded[0] => Encodable(set[0]) /\ at[0] \in {"post"} \cup Sent0
    /\ encoded[1] => at[1] \in Sent1
    /\ buf[0] = [b \in Block |-> T0]
    /\ at[1] \notin Sent1 => \A c \in Chunk : GotCh(1, c) => \A b \in Part(c) : buf[1][b] = T0
    /\ at[1] \in Sent1 => buf[1] = [b \in Block |-> T1]
    /\ \A c \in Chunk : GotCh(0, c) => \A b \in Part(c) : recvBuf[b] = T1

Found(i) ==
    /\ decap(i, rows[0][i]) => i \in Common
    /\ encoded[0] /\ encoded[1] /\ i \in Common => decap(i, rows[0][i])

HitSet(S) == hits = Cardinality(S) /\ (encoded[0] /\ encoded[1] => S = Common)

RowInv ==
    /\ at[0] = "encode" => rows[0] = [i \in Index |-> R0(i)]
    /\ at[1] = "encap" => \A j \in Index : encapRow(rows[1][j]) = Ct(j)
    /\ at[1] = "encode" => rows[1] = [j \in Index |-> R1(j)]
    /\ at[0] = "count" => \A i \in Index : Found(i)
    /\ at[0] # "done" => hits = 0
    /\ at[0] = "done" => \E S \in SUBSET Common : HitSet(S)

PsiInv == Types /\ WarmInv /\ NetInv /\ BufInv /\ RowInv

-----------------------------------------------------------------------------
(* What a step that leaves the inputs alone does not change.               *)

LEMMA Frame ==
    ASSUME UNCHANGED <<set, cfg>>
    PROVE  /\ numChannels' = numChannels /\ Chunk' = Chunk /\ \A c : Part(c)' = Part(c)
           /\ Inputs' = Inputs /\ Common' = Common
           /\ \A i : R0(i)' = R0(i)
<1>1. numChannels' = numChannels
  BY DEF numChannels
<1>2. shouldSplit' = shouldSplit /\ use' = use
  BY <1>1 DEF shouldSplit, use
<1>3. per' = per
  BY <1>2 DEF per
<1>4. \A c : Part(c)' = Part(c)
  BY <1>2, <1>3 DEF Part
<1>5. Chunk' = Chunk
  BY <1>4 DEF Chunk
<1>6. Inputs' = Inputs /\ Common' = Common
  BY DEF Inputs, Common
<1>7. \A i : R0(i)' = R0(i)
  BY DEF R0, xorMask, permute, PiOf
<1> QED
  BY <1>1, <1>4, <1>5, <1>6, <1>7

LEMMA FrameTables ==
    ASSUME UNCHANGED <<set, cfg, encoded>>
    PROVE  /\ T0' = T0 /\ T1' = T1
           /\ \A j : Ct(j)' = Ct(j) /\ R1(j)' = R1(j)
<1>1. \A i : R0(i)' = R0(i)
  BY Frame
<1>2. T0' = T0
  BY <1>1 DEF T0
<1>3. \A j : Ct(j)' = Ct(j)
  BY DEF Ct, KeyOf, Has, Where
<1>4. \A j : R1(j)' = R1(j)
  BY <1>3 DEF R1, xorMask, permute, PiOf
<1>5. T1' = T1
  BY <1>2, <1>4 DEF T1
<1> QED
  BY <1>2, <1>3, <1>4, <1>5

\* A party that waits for nothing has every chunk, so the peer has sent it.
LEMMA AllGot ==
    ASSUME PsiInv
    PROVE  /\ at[1] \in Got1 /\ posted[1] = {} =>
                at[0] \in Sent0 /\ \A c \in Chunk : GotCh(1, c) /\ SentCh(0, c)
           /\ at[0] \in Sent0 /\ posted[0] = {} =>
                at[1] \in Sent1 /\ \A c \in Chunk : GotCh(0, c) /\ SentCh(1, c)
           /\ at[1] \in Got1 \ {"wait"} => posted[1] = {}
           /\ at[0] \in {"decode", "count", "done"} => posted[0] = {}
<1>1. PICK c0 \in Chunk : TRUE
  BY ChunksCover DEF PsiInv, Types, Inputs
<1>2. ASSUME at[1] \in Got1, posted[1] = {}
      PROVE  at[0] \in Sent0 /\ \A c \in Chunk : GotCh(1, c) /\ SentCh(0, c)
  <2>1. \A c \in Chunk : GotCh(1, c) /\ SentCh(0, c)
    BY <1>2 DEF PsiInv, NetInv, GotCh, Receiving
  <2> QED
    BY <1>1, <2>1 DEF SentCh, Sending
<1>3. ASSUME at[0] \in Sent0, posted[0] = {}
      PROVE  at[1] \in Sent1 /\ \A c \in Chunk : GotCh(0, c) /\ SentCh(1, c)
  <2>1. \A c \in Chunk : GotCh(0, c) /\ SentCh(1, c)
    BY <1>3 DEF PsiInv, NetInv, GotCh, Receiving
  <2> QED
    BY <1>1, <2>1 DEF SentCh, Sending
<1>4. at[1] \in Got1 \ {"wait"} => posted[1] = {}
  BY DEF PsiInv, NetInv, Got1
<1>5. at[0] \in {"decode", "count", "done"} => posted[0] = {}
  BY DEF PsiInv, NetInv
<1> QED
  BY <1>2, <1>3, <1>4, <1>5

\* No chunk is sent or taken by the step.
Quiet ==
    \A p \in Party : \A c \in Chunk :
        (SentCh(p, c)' <=> SentCh(p, c)) /\ (GotCh(p, c)' <=> GotCh(p, c))

LEMMA QuietNet ==
    ASSUME PsiInv, Quiet, UNCHANGED <<set, cfg, warm, net>>,
           \A p \in Party : \A c \in Chunk : SentCh(p, c) => TableOf(p)' = TableOf(p)
    PROVE  /\ (net = [p \in Party |-> [c \in Channel |-> net[p][c]]])'
           /\ (\A p \in Party : \A c \in Channel : net[p][c] = Line(p, c))'
           /\ (\A c \in Chunk : (GotCh(0, c) => SentCh(1, c)) /\ (GotCh(1, c) => SentCh(0, c)))'
<1>1. Chunk' = Chunk /\ \A c : Part(c)' = Part(c)
  BY Frame
<1>2. ASSUME NEW p \in Party, NEW c \in Channel PROVE Line(p, c)' = Line(p, c)
  <2>1. Peer(p) \in Party
    BY DEF Peer, Party
  <2>2. WarmIn(p, c)' <=> WarmIn(p, c)
    BY DEF WarmIn
  <2>3. CASE c \in Chunk
    <3>1. (SentCh(p, c)' <=> SentCh(p, c)) /\ (GotCh(Peer(p), c)' <=> GotCh(Peer(p), c))
      BY <2>1, <2>3 DEF Quiet
    <3>2. SentCh(p, c) => TableOf(p)' = TableOf(p)
      BY <2>3
    <3> QED
      BY <1>1, <2>2, <3>1, <3>2 DEF Line
  <2>4. CASE c \notin Chunk
    <3>1. ~SentCh(p, c) /\ ~SentCh(p, c)'
      BY <1>1, <2>4 DEF SentCh
    <3> QED
      BY <2>2, <3>1 DEF Line
  <2> QED
    BY <2>3, <2>4
<1>3. (net = [p \in Party |-> [c \in Channel |-> net[p][c]]])'
  BY DEF PsiInv, NetInv
<1>4. (\A p \in Party : \A c \in Channel : net[p][c] = Line(p, c))'
  BY <1>2 DEF PsiInv, NetInv
<1>5. (\A c \in Chunk : (GotCh(0, c) => SentCh(1, c)) /\ (GotCh(1, c) => SentCh(0, c)))'
  BY <1>1 DEF PsiInv, NetInv, Quiet, Party
<1> QED
  BY <1>3, <1>4, <1>5

LEMMA QuietBuf ==
    ASSUME PsiInv, Quiet, UNCHANGED <<set, cfg, encoded, buf, recvBuf>>,
           at'[1] \in Sent1 <=> at[1] \in Sent1,
           at[0] \in {"post"} \cup Sent0 => at'[0] \in {"post"} \cup Sent0
    PROVE  BufInv'
<1>1. Chunk' = Chunk /\ (\A c : Part(c)' = Part(c)) /\ T0' = T0 /\ T1' = T1
  BY Frame, FrameTables
<1>2. Encodable(set[0])' = Encodable(set[0])
  BY DEF Encodable
<1>3. (encoded[0] => Encodable(set[0]) /\ at[0] \in {"post"} \cup Sent0)'
  BY <1>2 DEF PsiInv, BufInv
<1>4. (encoded[1] => at[1] \in Sent1)'
  BY DEF PsiInv, BufInv
<1>5. (buf[0] = [b \in Block |-> T0])' /\ (at[1] \in Sent1 => buf[1] = [b \in Block |-> T1])'
  BY <1>1 DEF PsiInv, BufInv
<1>6. \A c \in Chunk : (GotCh(0, c)' <=> GotCh(0, c)) /\ (GotCh(1, c)' <=> GotCh(1, c))
  BY DEF Quiet, Party
<1>7. (at[1] \notin Sent1 => \A c \in Chunk : GotCh(1, c) => \A b \in Part(c) : buf[1][b] = T0)'
  BY <1>1, <1>6 DEF PsiInv, BufInv
<1>8. (\A c \in Chunk : GotCh(0, c) => \A b \in Part(c) : recvBuf[b] = T1)'
  BY <1>1, <1>6 DEF PsiInv, BufInv
<1> QED
  BY <1>3, <1>4, <1>5, <1>7, <1>8 DEF BufInv

LEMMA RowFrame ==
    ASSUME PsiInv, UNCHANGED <<set, cfg, encoded, rows, hits>>,
           at'[0] \in {"encode", "count", "done"} => at'[0] = at[0],
           at[0] = "done" => at'[0] = "done",
           at'[1] \in {"encap", "encode"} => at'[1] = at[1]
    PROVE  RowInv'
<1>1. /\ Common' = Common /\ (\A i : R0(i)' = R0(i))
      /\ \A j : Ct(j)' = Ct(j) /\ R1(j)' = R1(j)
  BY Frame, FrameTables
<1>2. \A i : Found(i)' <=> Found(i)
  BY <1>1 DEF Found, decap, Row
<1>3. \A S : HitSet(S)' <=> HitSet(S)
  BY <1>1 DEF HitSet
<1>4. (at[0] = "encode" => rows[0] = [i \in Index |-> R0(i)])'
  BY <1>1 DEF PsiInv, RowInv
<1>5. (at[1] = "encap" => \A j \in Index : encapRow(rows[1][j]) = Ct(j))'
  BY <1>1 DEF PsiInv, RowInv, encapRow, Row
<1>6. (at[1] = "encode" => rows[1] = [j \in Index |-> R1(j)])'
  BY <1>1 DEF PsiInv, RowInv
<1>7. (at[0] = "count" => \A i \in Index : Found(i))'
  BY <1>2 DEF PsiInv, RowInv
<1>8. (at[0] # "done" => hits = 0)'
  BY DEF PsiInv, RowInv
<1>9. (at[0] = "done" => \E S \in SUBSET Common : HitSet(S))'
  BY <1>1, <1>3 DEF PsiInv, RowInv
<1> QED
  BY <1>4, <1>5, <1>6, <1>7, <1>8, <1>9 DEF RowInv

-----------------------------------------------------------------------------
(* The steps.                                                              *)

\* A step of the control of a party: it sends and takes nothing.
LEMMA ControlStep ==
    ASSUME PsiInv, Quiet, UNCHANGED <<set, cfg, warm, net, rows, buf, recvBuf, hits, encoded>>,
           at' \in [Party -> At0 \cup At1], at'[0] \in At0, at'[1] \in At1,
           \A p \in Party : at[p] # "warm" => at'[p] # "warm",
           \A p \in Party : at'[p] # "warm" => warm[p] = 2 * numChannels,
           toSend' \in [Party -> SUBSET Chunk], posted' \in [Party -> SUBSET Chunk],
           posted'[0] # {} => at'[0] \in {"send", "wait"},
           posted'[1] # {} => at'[1] = "wait",
           \A p \in Party : toSend'[p] # {} => at'[p] = "send",
           at'[1] \in Sent1 <=> at[1] \in Sent1,
           at[0] \in {"post"} \cup Sent0 => at'[0] \in {"post"} \cup Sent0,
           at'[0] \in {"encode", "count", "done"} => at'[0] = at[0],
           at[0] = "done" => at'[0] = "done",
           at'[1] \in {"encap", "encode"} => at'[1] = at[1]
    PROVE  PsiInv'
<1>1. /\ numChannels' = numChannels /\ Chunk' = Chunk /\ (\A c : Part(c)' = Part(c))
      /\ Inputs' = Inputs /\ T0' = T0 /\ T1' = T1
  BY Frame, FrameTables
<1>2. Types'
  BY <1>1 DEF PsiInv, Types
<1>3. WarmInv'
  BY <1>1 DEF PsiInv, WarmInv
<1>4. \A p \in Party : TableOf(p)' = TableOf(p)
  BY <1>1 DEF TableOf
<1>5. NetInv'
  BY <1>4, QuietNet DEF NetInv
<1>6. BufInv'
  BY QuietBuf
<1>7. RowInv'
  BY RowFrame
<1> QED
  BY <1>2, <1>3, <1>5, <1>6, <1>7 DEF PsiInv

LEMMA ConfigureStep ==
    ASSUME PsiInv, NEW p \in Party, Configure(p)
    PROVE  PsiInv'
<1>1. Chunk' = Chunk
  BY Frame DEF Configure
<1> DEFINE to == IF cfg.kem = "ObfMlKem" /\ cfg.pi = "Xoodoo" THEN "dead"
                 ELSE IF p = 0 THEN "keygen" ELSE "post"
<1>2. at[p] = "warm" /\ at' = [at EXCEPT ![p] = to] /\ warm[p] = 2 * numChannels
  BY DEF Configure, Goto
<1>3. to \in {"dead", "keygen", "post"} /\ (p = 0 => to \in At0) /\ (p = 1 => to \in At1)
  BY DEF At0, At1
<1> HIDE DEF to
<1>4. at \in [Party -> At0 \cup At1] /\ at[0] \in At0 /\ at[1] \in At1
  BY DEF PsiInv, Types
<1>5. /\ at' \in [Party -> At0 \cup At1] /\ at'[0] \in At0 /\ at'[1] \in At1
      /\ at'[p] = to /\ \A q \in Party : q # p => at'[q] = at[q]
  BY <1>2, <1>3, <1>4 DEF Party
<1>6. Quiet
  BY <1>1, <1>2, <1>3, <1>5 DEF Quiet, SentCh, GotCh, Sending, Receiving, Sent0, Sent1, Got1, Configure, Party
<1>7. posted[p] = {} /\ toSend[p] = {}
  BY <1>2 DEF PsiInv, NetInv, Party
<1> QED
  BY <1>2, <1>3, <1>5, <1>6, <1>7, ControlStep DEF Configure, PsiInv, Types, NetInv, WarmInv, Party, Sent0, Sent1

LEMMA PostRecvStep ==
    ASSUME PsiInv, NEW p \in Party, PostRecv(p)
    PROVE  PsiInv'
<1>1. Chunk' = Chunk
  BY Frame DEF PostRecv
<1>2. /\ at[p] = "post" /\ at' = [at EXCEPT ![p] = IF p = 0 THEN "send" ELSE "wait"]
      /\ posted' = [posted EXCEPT ![p] = Chunk]
      /\ toSend' = [toSend EXCEPT ![p] = IF p = 0 THEN Chunk ELSE {}]
  BY DEF PostRecv, Goto
<1>3. /\ at \in [Party -> At0 \cup At1] /\ at[0] \in At0 /\ at[1] \in At1
      /\ toSend \in [Party -> SUBSET Chunk] /\ posted \in [Party -> SUBSET Chunk]
  BY DEF PsiInv, Types
<1>4. /\ at' \in [Party -> At0 \cup At1] /\ at'[0] \in At0 /\ at'[1] \in At1
      /\ at'[p] = (IF p = 0 THEN "send" ELSE "wait") /\ \A q \in Party : q # p => at'[q] = at[q]
  BY <1>2, <1>3 DEF Party, At0, At1
<1>5. /\ toSend' \in [Party -> SUBSET Chunk] /\ posted' \in [Party -> SUBSET Chunk]
      /\ posted'[p] = Chunk /\ (\A q \in Party : q # p => posted'[q] = posted[q])
      /\ toSend'[p] = (IF p = 0 THEN Chunk ELSE {}) /\ \A q \in Party : q # p => toSend'[q] = toSend[q]
  BY <1>2, <1>3 DEF Party
<1>6. Quiet
  <2>1. CASE p = 0
    BY <1>1, <1>2, <1>4, <1>5, <2>1 DEF Quiet, SentCh, GotCh, Sending, Receiving, Sent0, Sent1, Got1, Party
  <2>2. CASE p = 1
    BY <1>1, <1>2, <1>4, <1>5, <2>2 DEF Quiet, SentCh, GotCh, Sending, Receiving, Sent0, Sent1, Got1, Party
  <2> QED
    BY <2>1, <2>2 DEF Party
<1> QED
  BY <1>2, <1>4, <1>5, <1>6, ControlStep DEF PostRecv, PsiInv, NetInv, WarmInv, Party, Sent0, Sent1

LEMMA WaitStep ==
    ASSUME PsiInv, NEW p \in Party, Wait(p)
    PROVE  PsiInv'
<1>1. Chunk' = Chunk
  BY Frame DEF Wait
<1>2. at[p] = "wait" /\ at' = [at EXCEPT ![p] = "decode"] /\ posted[p] = {}
  BY DEF Wait, Goto
<1>3. at \in [Party -> At0 \cup At1] /\ at[0] \in At0 /\ at[1] \in At1
  BY DEF PsiInv, Types
<1>4. /\ at' \in [Party -> At0 \cup At1] /\ at'[0] \in At0 /\ at'[1] \in At1
      /\ at'[p] = "decode" /\ \A q \in Party : q # p => at'[q] = at[q]
  BY <1>2, <1>3 DEF Party, At0, At1
<1>5. Quiet
  BY <1>1, <1>2, <1>4 DEF Quiet, SentCh, GotCh, Sending, Receiving, Sent0, Sent1, Got1, Party, Wait
<1> QED
  BY <1>2, <1>4, <1>5, ControlStep DEF Wait, PsiInv, Types, NetInv, WarmInv, Party, Sent0, Sent1

LEMMA SendReturnStep ==
    ASSUME PsiInv, NEW p \in Party, SendReturn(p)
    PROVE  PsiInv'
<1>1. Chunk' = Chunk
  BY Frame DEF SendReturn
<1>2. at[p] = "send" /\ at' = [at EXCEPT ![p] = IF p = 0 THEN "wait" ELSE "done"] /\ toSend[p] = {}
  BY DEF SendReturn, Goto
<1>3. at \in [Party -> At0 \cup At1] /\ at[0] \in At0 /\ at[1] \in At1
  BY DEF PsiInv, Types
<1>4. /\ at' \in [Party -> At0 \cup At1] /\ at'[0] \in At0 /\ at'[1] \in At1
      /\ at'[p] = (IF p = 0 THEN "wait" ELSE "done") /\ \A q \in Party : q # p => at'[q] = at[q]
  BY <1>2, <1>3 DEF Party, At0, At1
<1>5. Quiet
  BY <1>1, <1>2, <1>4 DEF Quiet, SentCh, GotCh, Sending, Receiving, Sent0, Sent1, Got1, Party, SendReturn
<1> QED
  BY <1>2, <1>4, <1>5, ControlStep DEF SendReturn, PsiInv, Types, NetInv, WarmInv, Party, Sent0, Sent1

\* The channel a step of the warm-up is about.
LEMMA WarmArith ==
    ASSUME NEW w \in Nat, NEW n \in Nat, w < 2 * n
    PROVE  /\ (w \div 2) + 1 \in 1 .. n
           /\ w % 2 = 0 => w = 2 * (((w \div 2) + 1) - 1) /\ (w + 1) % 2 = 1
           /\ w % 2 = 1 => w = 2 * ((w \div 2) + 1) - 1 /\ (w + 1) % 2 = 0
<1>1. w \div 2 \in Nat /\ w % 2 \in {0, 1} /\ w = 2 * (w \div 2) + (w % 2)
  OBVIOUS
<1> QED
  BY <1>1

\* Changing what one channel carries.
LEMMA NetEdit ==
    ASSUME PsiInv, NEW q \in Party, NEW c \in Channel, NEW v, net' = [net EXCEPT ![q][c] = v]
    PROVE  /\ (net = [p \in Party |-> [d \in Channel |-> net[p][d]]])'
           /\ net'[q][c] = v
           /\ \A p \in Party : \A d \in Channel : p # q \/ d # c => net'[p][d] = net[p][d]
<1>1. net = [p \in Party |-> [d \in Channel |-> net[p][d]]]
  BY DEF PsiInv, NetInv
<1> QED
  BY <1>1

\* A warm-up byte goes on or comes off an otherwise empty channel.
LEMMA WarmStep ==
    ASSUME PsiInv, UNCHANGED <<set, cfg, at, toSend, posted, rows, buf, recvBuf, hits, encoded>>,
           NEW q \in Party, NEW c \in Channel, NEW v, net' = [net EXCEPT ![q][c] = v],
           v = IF WarmIn(q, c)' THEN <<WarmByte>> ELSE <<>>,
           ~SentCh(q, c),
           \A p \in Party : \A d \in Channel : (p = q /\ d = c) \/ (WarmIn(p, d)' <=> WarmIn(p, d)),
           warm' \in [Party -> 0 .. 2 * numChannels], WarmInv'
    PROVE  PsiInv'
<1>1. /\ numChannels' = numChannels /\ Chunk' = Chunk /\ (\A d : Part(d)' = Part(d))
      /\ Inputs' = Inputs /\ T0' = T0 /\ T1' = T1
  BY Frame, FrameTables
<1>2. Quiet /\ \A p \in Party : \A d : (SentCh(p, d)' <=> SentCh(p, d)) /\ (GotCh(p, d)' <=> GotCh(p, d))
  BY <1>1 DEF Quiet, SentCh, GotCh, Sending, Receiving
<1>3. Types'
  BY <1>1 DEF PsiInv, Types
<1>4. NetInv'
  <2>0. /\ net'[q][c] = v
        /\ \A p \in Party : \A d \in Channel : p # q \/ d # c => net'[p][d] = net[p][d]
    <3>1. net = [p \in Party |-> [d \in Channel |-> net[p][d]]]
      BY DEF PsiInv, NetInv
    <3> QED
      BY <3>1
  <2>1. ASSUME NEW p \in Party, NEW d \in Channel PROVE net'[p][d] = Line(p, d)'
    <3>1. Peer(p) \in Party
      BY DEF Peer, Party
    <3>2. TableOf(p)' = TableOf(p)
      BY <1>1 DEF TableOf
    <3>3. CASE p = q /\ d = c
      <4>1. net'[p][d] = v
        BY <2>0, <3>3
      <4> QED
        BY <1>2, <3>3, <4>1 DEF Line
    <3>4. CASE ~(p = q /\ d = c)
      <4>1. net'[p][d] = Line(p, d)
        BY <2>0, <3>4 DEF PsiInv, NetInv
      <4>2. WarmIn(p, d)' <=> WarmIn(p, d)
        BY <3>4
      <4> QED
        BY <1>1, <1>2, <3>1, <3>2, <4>1, <4>2 DEF Line
    <3> QED
      BY <3>3, <3>4
  <2>2. (net = [p \in Party |-> [d \in Channel |-> net[p][d]]])'
    BY NetEdit
  <2>3. (\A p \in Party : \A d \in Channel : net[p][d] = Line(p, d))'
    BY <2>1
  <2>4. (\A d \in Chunk : (GotCh(0, d) => SentCh(1, d)) /\ (GotCh(1, d) => SentCh(0, d)))'
    BY <1>1, <1>2 DEF PsiInv, NetInv, Party
  <2> QED
    BY <2>2, <2>3, <2>4 DEF PsiInv, NetInv
<1>5. BufInv'
  BY <1>2, QuietBuf
<1>6. RowInv'
  BY RowFrame
<1> QED
  BY <1>3, <1>4, <1>5, <1>6 DEF PsiInv

LEMMA WarmSendStep ==
    ASSUME PsiInv, NEW p \in Party, WarmSend(p)
    PROVE  PsiInv'
<1>0. PICK n, w : n = numChannels /\ w = warm[p]
  OBVIOUS
<1>b. PICK c : c = (w \div 2) + 1
  OBVIOUS
<1>1. /\ at[p] = "warm" /\ w < 2 * n /\ w % 2 = p
      /\ net' = [net EXCEPT ![p][c] = Append(net[p][c], WarmByte)]
      /\ warm' = [warm EXCEPT ![p] = w + 1]
  BY <1>0, <1>b DEF WarmSend, WarmSends, WarmChannel, PsiInv, Types, NetInv
<1>2. n \in Nat /\ n <= NumCh /\ NumCh \in Nat
  BY <1>0, PqPsiAssumption DEF numChannels
<1>3. warm \in [Party -> 0 .. 2 * n]
  BY <1>0 DEF PsiInv, Types
<1>4. w \in Nat /\ warm[0] \in Nat /\ warm[1] \in Nat
  BY <1>0, <1>2, <1>3 DEF Party
<1>5. /\ c \in 1 .. n
      /\ w % 2 = 0 => w = 2 * (c - 1) /\ (w + 1) % 2 = 1
      /\ w % 2 = 1 => w = 2 * c - 1 /\ (w + 1) % 2 = 0
  BY <1>0, <1>b, <1>1, <1>2, <1>4, WarmArith
<1>c. c \in Nat /\ (p = 0 => w = 2 * (c - 1)) /\ (p = 1 => w = 2 * c - 1)
  BY <1>1, <1>2, <1>5
<1>6. c \in Channel
  BY <1>2, <1>5 DEF Channel
<1>7. warm[0] = warm[1]
  BY <1>0, <1>1, <1>4, <1>5 DEF PsiInv, WarmInv, Party
<1>8. ~SentCh(p, c) /\ ~SentCh(p, c)'
  BY <1>1 DEF SentCh, Sending, Sent0, Sent1, WarmSend, Party
<1>9. ASSUME NEW q \in Party, NEW d \in Channel
      PROVE  ~WarmIn(q, d) /\ (WarmIn(q, d)' <=> q = p /\ d = c)
  <2>1. d \in Nat
    BY <1>2 DEF Channel
  <2>2. warm'[p] = w + 1 /\ \A r \in Party : r # p => warm'[r] = w
    BY <1>0, <1>1, <1>3, <1>7 DEF Party
  <2>3. CASE p = 0
    BY <1>0, <1>c, <1>4, <1>7, <2>1, <2>2, <2>3 DEF WarmIn, Party
  <2>4. CASE p = 1
    BY <1>0, <1>c, <1>4, <1>7, <2>1, <2>2, <2>4 DEF WarmIn, Party
  <2> QED
    BY <2>3, <2>4 DEF Party
<1>10. net[p][c] = <<>>
  BY <1>6, <1>8, <1>9 DEF PsiInv, NetInv, Line
<1>11. numChannels' = n
  BY <1>0, Frame DEF WarmSend
<1>12. warm' \in [Party -> 0 .. 2 * n]
  BY <1>1, <1>2, <1>3, <1>4
<1>13. WarmInv'
  <2>1. warm'[p] = w + 1 /\ \A r \in Party : r # p => warm'[r] = w
    BY <1>0, <1>1, <1>3, <1>7 DEF Party
  <2>2. \A r \in Party : at'[r] # "warm" => warm'[r] = 2 * n
    BY <1>0, <1>1, <2>1 DEF PsiInv, WarmInv, WarmSend
  <2>3. CASE p = 0
    BY <1>1, <1>5, <1>11, <2>1, <2>2, <2>3 DEF WarmInv, Party
  <2>4. CASE p = 1
    BY <1>1, <1>5, <1>11, <2>1, <2>2, <2>4 DEF WarmInv, Party
  <2> QED
    BY <2>3, <2>4 DEF Party
<1>14. Append(net[p][c], WarmByte) = IF WarmIn(p, c)' THEN <<WarmByte>> ELSE <<>>
  BY <1>6, <1>9, <1>10
<1> QED
  BY <1>0, <1>1, <1>6, <1>8, <1>9, <1>12, <1>13, <1>14, WarmStep DEF WarmSend

LEMMA WarmRecvStep ==
    ASSUME PsiInv, NEW p \in Party, WarmRecv(p)
    PROVE  PsiInv'
<1>a. PICK n, w, o : n = numChannels /\ w = warm[p] /\ o = Peer(p)
  OBVIOUS
<1>b. PICK c : c = (w \div 2) + 1
  OBVIOUS
<1>0. o \in Party /\ o # p /\ (p = 0 => o = 1) /\ (p = 1 => o = 0)
  BY <1>a DEF Peer, Party
<1>1. /\ at[p] = "warm" /\ w < 2 * n /\ w % 2 # p /\ net[o][c] # <<>>
      /\ net' = [net EXCEPT ![o][c] = Tail(net[o][c])]
      /\ warm' = [warm EXCEPT ![p] = w + 1]
  BY <1>a, <1>b DEF WarmRecv, WarmSends, WarmChannel, PsiInv, Types, NetInv
<1>2. n \in Nat /\ n <= NumCh /\ NumCh \in Nat
  BY <1>a, PqPsiAssumption DEF numChannels
<1>3. warm \in [Party -> 0 .. 2 * n]
  BY <1>a DEF PsiInv, Types
<1>4. w \in Nat /\ warm[0] \in Nat /\ warm[1] \in Nat /\ w % 2 \in {0, 1}
  BY <1>a, <1>2, <1>3 DEF Party
<1>5. /\ c \in 1 .. n
      /\ w % 2 = 0 => w = 2 * (c - 1) /\ (w + 1) % 2 = 1
      /\ w % 2 = 1 => w = 2 * c - 1 /\ (w + 1) % 2 = 0
  BY <1>a, <1>b, <1>1, <1>2, <1>4, WarmArith
<1>c. c \in Nat /\ (p = 1 => w = 2 * (c - 1)) /\ (p = 0 => w = 2 * c - 1)
  BY <1>1, <1>2, <1>4, <1>5
<1>6. c \in Channel
  BY <1>2, <1>5 DEF Channel
<1>7. ~SentCh(o, c)
  <2>1. CASE p = 0
    <3>1. at[1] \notin Sent1
      BY <1>1, <2>1, AllGot DEF Sent0, Sent1, Got1
    <3> QED
      BY <1>0, <2>1, <3>1 DEF SentCh, Sending
  <2>2. CASE p = 1
    <3>1. SUFFICES ASSUME at[0] \in Sent0 PROVE FALSE
      BY <1>0, <2>2 DEF SentCh, Sending
    <3>2. warm[0] = 2 * n
      BY <1>a, <3>1 DEF PsiInv, WarmInv, Sent0, Party
    <3>3. (2 * n) % 2 = 0
      BY <1>2
    <3> QED
      BY <1>a, <1>1, <1>2, <1>4, <1>5, <2>2, <3>2, <3>3 DEF PsiInv, WarmInv
  <2> QED
    BY <2>1, <2>2 DEF Party
<1>8. net[o][c] = <<WarmByte>> /\ WarmIn(o, c)
  BY <1>0, <1>1, <1>6, <1>7 DEF PsiInv, NetInv, Line
<1>9. warm[o] = w + 1
  <2>1. CASE p = 0
    BY <1>a, <1>0, <1>1, <1>4, <1>5, <1>8, <2>1 DEF PsiInv, WarmInv, WarmIn
  <2>2. CASE p = 1
    BY <1>a, <1>0, <1>1, <1>4, <1>5, <1>8, <2>2 DEF PsiInv, WarmInv, WarmIn
  <2> QED
    BY <2>1, <2>2 DEF Party
<1>10. warm'[p] = w + 1 /\ warm'[o] = w + 1
  BY <1>a, <1>0, <1>1, <1>3, <1>9
<1>11. ASSUME NEW q \in Party, NEW d \in Channel
       PROVE  ~WarmIn(q, d)' /\ (WarmIn(q, d) <=> q = o /\ d = c)
  <2>1. d \in Nat
    BY <1>2 DEF Channel
  <2>3. CASE p = 0
    BY <1>a, <1>0, <1>4, <1>9, <1>10, <1>c, <2>1, <2>3 DEF WarmIn, Party
  <2>4. CASE p = 1
    BY <1>a, <1>0, <1>4, <1>9, <1>10, <1>c, <2>1, <2>4 DEF WarmIn, Party
  <2> QED
    BY <2>3, <2>4 DEF Party
<1>12. numChannels' = n
  BY <1>a, Frame DEF WarmRecv
<1>13. warm' \in [Party -> 0 .. 2 * n]
  BY <1>1, <1>2, <1>3, <1>4
<1>14. WarmInv'
  <2>1. \A r \in Party : at'[r] # "warm" => warm'[r] = 2 * n
    BY <1>a, <1>0, <1>1, <1>9, <1>10 DEF PsiInv, WarmInv, WarmRecv, Party
  <2> QED
    BY <1>0, <1>10, <1>12, <2>1 DEF WarmInv, Party
<1>15. Tail(net[o][c]) = IF WarmIn(o, c)' THEN <<WarmByte>> ELSE <<>>
  BY <1>0, <1>6, <1>8, <1>11
<1>16. \A q \in Party : \A d \in Channel : (q = o /\ d = c) \/ (WarmIn(q, d)' <=> WarmIn(q, d))
  BY <1>11
<1>17. net' = [net EXCEPT ![o][c] = IF WarmIn(o, c)' THEN <<WarmByte>> ELSE <<>>]
  BY <1>1, <1>15
<1>18. UNCHANGED <<set, cfg, at, toSend, posted, rows, buf, recvBuf, hits, encoded>>
  BY DEF WarmRecv
<1> QED
  BY <1>0, <1>6, <1>7, <1>13, <1>14, <1>16, <1>17, <1>18, <1>a, WarmStep

\* No warm-up byte is left when chunks are on their way.
LEMMA NoWarm ==
    ASSUME PsiInv, NEW c \in Chunk
    PROVE  /\ at[0] # "warm" => ~WarmIn(0, c) /\ ~WarmIn(1, c)
           /\ at[1] # "warm" => ~WarmIn(0, c)
<1>0. PICK n : n = numChannels
  OBVIOUS
<1>1. n \in Nat /\ c <= n /\ c \in Nat
  BY <1>0, PqPsiAssumption, ChunksCover DEF numChannels, Channel, PsiInv, Types, Inputs
<1>2. warm[0] \in 0 .. 2 * n /\ warm[1] \in 0 .. 2 * n
  BY <1>0 DEF PsiInv, Types, Party
<1>3. (2 * n) % 2 = 0
  BY <1>1
<1>4. at[0] # "warm" => warm[0] = 2 * n /\ warm[1] = 2 * n
  BY <1>0, <1>1, <1>2, <1>3 DEF PsiInv, WarmInv, Party
<1>5. at[1] # "warm" => warm[1] = 2 * n
  BY <1>0 DEF PsiInv, WarmInv, Party
<1> QED
  BY <1>1, <1>4, <1>5 DEF WarmIn

LEMMA SendChunkStep ==
    ASSUME PsiInv, NEW p \in Party, NEW c \in Channel, SendChunk(p, c)
    PROVE  PsiInv'
<1> USE DEF SendChunk
<1>1. /\ numChannels' = numChannels /\ Chunk' = Chunk /\ (\A d : Part(d)' = Part(d))
      /\ Inputs' = Inputs /\ T0' = T0 /\ T1' = T1
  BY Frame, FrameTables
<1>2. toSend \in [Party -> SUBSET Chunk] /\ posted \in [Party -> SUBSET Chunk]
  BY DEF PsiInv, Types
<1>3. c \in Chunk /\ c \in toSend[p] /\ at[p] = "send"
  BY <1>2
<1>4. at[0] # "warm"
  <2>1. CASE p = 0
    BY <1>3, <2>1
  <2>2. CASE p = 1
    BY <1>3, <2>2, AllGot DEF Got1, Sent0
  <2> QED
    BY <2>1, <2>2 DEF Party
<1>5. ~WarmIn(p, c) /\ ~WarmIn(p, c)'
  BY <1>3, <1>4, NoWarm DEF WarmIn, Party
<1>6. PICK o : o = Peer(p)
  OBVIOUS
<1>7. o \in Party /\ o # p /\ (p = 0 => o = 1) /\ (p = 1 => o = 0)
  BY <1>6 DEF Peer, Party
<1>8. ~SentCh(p, c) /\ ~GotCh(o, c)
  BY <1>3, <1>7 DEF SentCh, PsiInv, NetInv, Party
<1>9. net[p][c] = <<>>
  BY <1>5, <1>6, <1>8 DEF PsiInv, NetInv, Line
<1>10. [b \in Part(c) |-> buf[p][b]] = [b \in Part(c) |-> TableOf(p)]
  <2>1. \A b \in Part(c) : b \in Block
    BY <1>3, ChunksCover DEF PsiInv, Types, Inputs
  <2>2. \A b \in Block : buf[p][b] = TableOf(p)
    BY <1>3 DEF PsiInv, BufInv, TableOf, Sent1, Party
  <2> QED
    BY <2>1, <2>2
<1> HIDE DEF SendChunk
<1>a. PICK k : k = [b \in Part(c) |-> TableOf(p)]
  OBVIOUS
<1>11. net' = [net EXCEPT ![p][c] = <<k>>]
  <2>1. net' = [net EXCEPT ![p][c] = Append(net[p][c], [b \in Part(c) |-> buf[p][b]])]
    BY DEF SendChunk
  <2>2. Append(net[p][c], k) = <<k>>
    BY <1>9
  <2> QED
    BY <1>10, <1>a, <2>1, <2>2
<1>12. /\ (net = [q \in Party |-> [d \in Channel |-> net[q][d]]])'
       /\ net'[p][c] = <<k>>
       /\ \A q \in Party : \A d \in Channel : q # p \/ d # c => net'[q][d] = net[q][d]
  <2>1. net = [q \in Party |-> [d \in Channel |-> net[q][d]]]
    BY DEF PsiInv, NetInv
  <2> QED
    BY <1>11, <2>1
<1> USE DEF SendChunk
<1>13. /\ \A q \in Party : \A d : GotCh(q, d)' <=> GotCh(q, d)
       /\ \A q \in Party : \A d : SentCh(q, d)' <=> SentCh(q, d) \/ (q = p /\ d = c)
  <2>1. \A q \in Party : \A d : GotCh(q, d)' <=> GotCh(q, d)
    BY <1>1 DEF GotCh, Receiving
  <2>2. toSend' = [toSend EXCEPT ![p] = toSend[p] \ {c}] /\ UNCHANGED at
    OBVIOUS
  <2>3. Sending(p) /\ \A q \in Party : Sending(q)' <=> Sending(q)
    BY <1>3, <2>2 DEF Sending, Sent0, Sent1, Party
  <2>4. \A q \in Party : \A d : d \in toSend'[q] <=> d \in toSend[q] /\ ~(q = p /\ d = c)
    BY <1>2, <2>2
  <2>5. \A q \in Party : \A d : SentCh(q, d)' <=> SentCh(q, d) \/ (q = p /\ d = c)
    BY <1>1, <1>3, <2>3, <2>4 DEF SentCh
  <2> QED
    BY <2>1, <2>5
<1>14. Types'
  BY <1>1, <1>2 DEF PsiInv, Types
<1>15. WarmInv'
  BY <1>1 DEF PsiInv, WarmInv
<1>16. NetInv'
  <2>1. ASSUME NEW q \in Party, NEW d \in Channel PROVE net'[q][d] = Line(q, d)'
    <3>1. Peer(q) \in Party
      BY DEF Peer, Party
    <3>2. TableOf(q)' = TableOf(q) /\ (WarmIn(q, d)' <=> WarmIn(q, d))
      BY <1>1 DEF TableOf, WarmIn
    <3>3. CASE q = p /\ d = c
      <4>1. SentCh(q, d)' /\ ~GotCh(Peer(q), d)' /\ ~WarmIn(q, d)'
        BY <1>5, <1>6, <1>7, <1>8, <1>13, <3>3
      <4> QED
        BY <1>1, <1>12, <1>a, <3>2, <3>3, <4>1 DEF Line
    <3>4. CASE q # p \/ d # c
      <4>1. net'[q][d] = Line(q, d)
        BY <1>12, <3>4 DEF PsiInv, NetInv
      <4>2. (SentCh(q, d)' <=> SentCh(q, d)) /\ (GotCh(Peer(q), d)' <=> GotCh(Peer(q), d))
        BY <1>13, <3>1, <3>4
      <4> QED
        BY <1>1, <3>2, <4>1, <4>2 DEF Line
    <3> QED
      BY <3>3, <3>4
  <2>2. (\A q \in Party : \A d \in Channel : net[q][d] = Line(q, d))'
    BY <2>1
  <2>3. (\A d \in Chunk : (GotCh(0, d) => SentCh(1, d)) /\ (GotCh(1, d) => SentCh(0, d)))'
    BY <1>1, <1>13 DEF PsiInv, NetInv, Party
  <2>4. (\A q \in Party : toSend[q] # {} => at[q] = "send")'
    BY <1>2, <1>3 DEF PsiInv, NetInv
  <2> QED
    BY <1>12, <2>2, <2>3, <2>4 DEF PsiInv, NetInv
<1>17. BufInv'
  <2>1. \A d \in Chunk : (GotCh(0, d)' <=> GotCh(0, d)) /\ (GotCh(1, d)' <=> GotCh(1, d))
    BY <1>13 DEF Party
  <2>2. Encodable(set[0])' = Encodable(set[0])
    BY DEF Encodable
  <2>3. UNCHANGED <<at, buf, recvBuf, encoded>>
    OBVIOUS
  <2> QED
    BY <1>1, <2>1, <2>2, <2>3 DEF PsiInv, BufInv
<1>18. RowInv'
  BY RowFrame
<1> QED
  BY <1>14, <1>15, <1>16, <1>17, <1>18 DEF PsiInv

LEMMA DeliverStep ==
    ASSUME PsiInv, NEW p \in Party, NEW c \in Channel, Deliver(p, c)
    PROVE  PsiInv'
<1> USE DEF Deliver
<1>1. /\ numChannels' = numChannels /\ Chunk' = Chunk /\ (\A d : Part(d)' = Part(d))
      /\ Inputs' = Inputs /\ T0' = T0 /\ T1' = T1
  BY Frame, FrameTables
<1>2. toSend \in [Party -> SUBSET Chunk] /\ posted \in [Party -> SUBSET Chunk]
  BY DEF PsiInv, Types
<1>3. c \in Chunk /\ c \in posted[p]
  BY <1>2
<1>4. (p = 0 => at[0] \in {"send", "wait"}) /\ (p = 1 => at[1] = "wait")
  BY <1>3 DEF PsiInv, NetInv
<1>6. PICK o : o = Peer(p)
  OBVIOUS
<1>7. o \in Party /\ o # p /\ (p = 0 => o = 1) /\ (p = 1 => o = 0)
  BY <1>6 DEF Peer, Party
<1>5. ~WarmIn(o, c) /\ ~WarmIn(o, c)'
  BY <1>3, <1>4, <1>7, NoWarm DEF WarmIn, Party
<1>8. Peer(o) = p /\ net[o][c] # <<>>
  BY <1>6, <1>7 DEF Peer, Party
<1>9. SentCh(o, c) /\ ~GotCh(p, c) /\ net[o][c] = <<[b \in Part(c) |-> TableOf(o)]>>
  BY <1>5, <1>7, <1>8 DEF PsiInv, NetInv, Line
<1>10. Head(net[o][c]) = [b \in Part(c) |-> TableOf(o)] /\ Tail(net[o][c]) = <<>>
  BY <1>9
<1>11. net' = [net EXCEPT ![o][c] = <<>>]
  <2>1. net' = [net EXCEPT ![o][c] = Tail(net[o][c])]
    BY <1>6
  <2> QED
    BY <1>10, <2>1
<1> HIDE DEF Deliver
<1>12. /\ (net = [q \in Party |-> [d \in Channel |-> net[q][d]]])'
       /\ net'[o][c] = <<>>
       /\ \A q \in Party : \A d \in Channel : q # o \/ d # c => net'[q][d] = net[q][d]
  <2>1. net = [q \in Party |-> [d \in Channel |-> net[q][d]]]
    BY DEF PsiInv, NetInv
  <2> QED
    BY <1>7, <1>11, <2>1
<1> USE DEF Deliver
<1>13. /\ \A q \in Party : \A d : SentCh(q, d)' <=> SentCh(q, d)
       /\ \A q \in Party : \A d : GotCh(q, d)' <=> GotCh(q, d) \/ (q = p /\ d = c)
  <2>1. \A q \in Party : \A d : SentCh(q, d)' <=> SentCh(q, d)
    BY <1>1 DEF SentCh, Sending
  <2>2. posted' = [posted EXCEPT ![p] = posted[p] \ {c}] /\ UNCHANGED at
    OBVIOUS
  <2>3. Receiving(p) /\ \A q \in Party : Receiving(q)' <=> Receiving(q)
    BY <1>4, <2>2 DEF Receiving, Sent0, Got1, Party
  <2>4. \A q \in Party : \A d : d \in posted'[q] <=> d \in posted[q] /\ ~(q = p /\ d = c)
    BY <1>2, <2>2
  <2>5. \A q \in Party : \A d : GotCh(q, d)' <=> GotCh(q, d) \/ (q = p /\ d = c)
    BY <1>1, <1>3, <2>3, <2>4 DEF GotCh
  <2> QED
    BY <2>1, <2>5
<1> DEFINE Filled(old) == [b \in Block |-> IF b \in Part(c) THEN TableOf(o) ELSE old[b]]
<1>14. /\ p = 0 => recvBuf' = Filled(recvBuf) /\ UNCHANGED buf
       /\ p = 1 => buf' = [buf EXCEPT ![1] = Filled(buf[1])] /\ UNCHANGED recvBuf
  <2>1. \A b \in Part(c) : Head(net[Peer(p)][c])[b] = TableOf(o)
    BY <1>6, <1>10
  <2> QED
    BY <2>1 DEF Party
<1>15. Types'
  <2>1. (buf = [q \in Party |-> [b \in Block |-> buf[q][b]]])' /\ (recvBuf = [b \in Block |-> recvBuf[b]])'
    <3>1. buf = [q \in Party |-> [b \in Block |-> buf[q][b]]] /\ recvBuf = [b \in Block |-> recvBuf[b]]
      BY DEF PsiInv, Types
    <3>2. CASE p = 0
      BY <1>14, <3>1, <3>2
    <3>3. CASE p = 1
      BY <1>14, <3>1, <3>3 DEF Party
    <3> QED
      BY <3>2, <3>3 DEF Party
  <2>2. posted' \in [Party -> SUBSET Chunk]
    BY <1>2
  <2> QED
    BY <1>1, <2>1, <2>2 DEF PsiInv, Types
<1>16. WarmInv'
  BY <1>1 DEF PsiInv, WarmInv
<1>17. NetInv'
  <2>1. ASSUME NEW q \in Party, NEW d \in Channel PROVE net'[q][d] = Line(q, d)'
    <3>1. Peer(q) \in Party /\ (Peer(q) = p => q = o)
      BY <1>6 DEF Peer, Party
    <3>2. TableOf(q)' = TableOf(q) /\ (WarmIn(q, d)' <=> WarmIn(q, d))
      BY <1>1 DEF TableOf, WarmIn
    <3>3. CASE q = o /\ d = c
      <4>1. GotCh(Peer(q), d)' /\ ~WarmIn(q, d)'
        BY <1>5, <1>8, <1>13, <3>3
      <4> QED
        BY <1>12, <3>3, <4>1 DEF Line
    <3>4. CASE q # o \/ d # c
      <4>1. net'[q][d] = Line(q, d)
        <5>1. net'[q][d] = net[q][d]
          BY <1>12, <3>4
        <5>2. net[q][d] = Line(q, d)
          BY DEF PsiInv, NetInv
        <5> QED
          BY <5>1, <5>2
      <4>2. (SentCh(q, d)' <=> SentCh(q, d)) /\ (GotCh(Peer(q), d)' <=> GotCh(Peer(q), d))
        BY <1>13, <3>1, <3>4
      <4> QED
        BY <1>1, <3>2, <4>1, <4>2 DEF Line
    <3> QED
      BY <3>3, <3>4
  <2>2. (\A q \in Party : \A d \in Channel : net[q][d] = Line(q, d))'
    BY <2>1
  <2>3. (\A d \in Chunk : (GotCh(0, d) => SentCh(1, d)) /\ (GotCh(1, d) => SentCh(0, d)))'
    BY <1>1, <1>7, <1>9, <1>13 DEF PsiInv, NetInv, Party
  <2>4. (posted[0] # {} => at[0] \in {"send", "wait"})' /\ (posted[1] # {} => at[1] = "wait")'
    BY <1>2, <1>4 DEF PsiInv, NetInv, Party
  <2> QED
    BY <1>12, <2>2, <2>3, <2>4 DEF PsiInv, NetInv
<1>18. BufInv'
  <2>1. Encodable(set[0])' = Encodable(set[0])
    BY DEF Encodable
  <2>2. UNCHANGED <<at, encoded>>
    OBVIOUS
  <2>3. \A d \in Chunk : Part(d) \subseteq Block
    BY ChunksCover DEF PsiInv, Types, Inputs
  <2>4. CASE p = 0
    <3>1. TableOf(o) = T1 /\ recvBuf' = Filled(recvBuf) /\ UNCHANGED buf
      BY <1>7, <1>14, <2>4 DEF TableOf
    <3>2. (\A d \in Chunk : GotCh(0, d) => \A b \in Part(d) : recvBuf[b] = T1)'
      BY <1>1, <1>13, <2>3, <2>4, <3>1 DEF PsiInv, BufInv, Party
    <3>3. \A d \in Chunk : GotCh(1, d)' <=> GotCh(1, d)
      BY <1>13, <2>4 DEF Party
    <3> QED
      BY <1>1, <2>1, <2>2, <3>1, <3>2, <3>3 DEF PsiInv, BufInv
  <2>5. CASE p = 1
    <3>1. TableOf(o) = T0 /\ buf' = [buf EXCEPT ![1] = Filled(buf[1])] /\ UNCHANGED recvBuf
      BY <1>7, <1>14, <2>5 DEF TableOf
    <3>2. buf'[0] = buf[0] /\ buf'[1] = Filled(buf[1])
      <4>1. buf = [q \in Party |-> [b \in Block |-> buf[q][b]]]
        BY DEF PsiInv, Types
      <4> QED
        BY <3>1, <4>1 DEF Party
    <3>3. at[1] \notin Sent1
      BY <1>4, <2>5 DEF Sent1
    <3>4. (at[1] \notin Sent1 => \A d \in Chunk : GotCh(1, d) => \A b \in Part(d) : buf[1][b] = T0)'
      BY <1>1, <1>13, <2>2, <2>3, <2>5, <3>1, <3>2, <3>3 DEF PsiInv, BufInv, Party
    <3>5. \A d \in Chunk : GotCh(0, d)' <=> GotCh(0, d)
      BY <1>13, <2>5 DEF Party
    <3> QED
      BY <1>1, <2>1, <2>2, <3>1, <3>2, <3>3, <3>4, <3>5 DEF PsiInv, BufInv
  <2> QED
    BY <2>4, <2>5 DEF Party
<1>19. RowInv'
  BY RowFrame
<1> QED
  BY <1>15, <1>16, <1>17, <1>18, <1>19 DEF PsiInv

\* A step that works on the rows, or counts.
LEMMA DataStep ==
    ASSUME PsiInv, Quiet, UNCHANGED <<set, cfg, warm, net, toSend, posted, buf, recvBuf, encoded>>,
           NEW p \in Party, toSend[p] = {}, posted[p] = {},
           at' \in [Party -> At0 \cup At1], at'[0] \in At0, at'[1] \in At1,
           \A q \in Party : q # p => at'[q] = at[q],
           at[p] # "warm", at'[p] # "warm",
           at'[1] \in Sent1 <=> at[1] \in Sent1,
           at[0] \in {"post"} \cup Sent0 => at'[0] \in {"post"} \cup Sent0,
           rows' \in [Party -> [Index -> RowT]], RowInv'
    PROVE  PsiInv'
<1>1. /\ numChannels' = numChannels /\ Chunk' = Chunk /\ (\A c : Part(c)' = Part(c))
      /\ Inputs' = Inputs /\ T0' = T0 /\ T1' = T1
  BY Frame, FrameTables
<1>4. Types'
  BY <1>1 DEF PsiInv, Types
<1>5. WarmInv'
  BY <1>1 DEF PsiInv, WarmInv
<1>6. \A q \in Party : TableOf(q)' = TableOf(q)
  BY <1>1 DEF TableOf
<1>7. NetInv'
  <2>1. (posted[0] # {} => at[0] \in {"send", "wait"})' /\ (posted[1] # {} => at[1] = "wait")'
    BY DEF PsiInv, NetInv, Party
  <2>2. (\A q \in Party : toSend[q] # {} => at[q] = "send")'
    BY DEF PsiInv, NetInv
  <2> QED
    BY <1>6, <2>1, <2>2, QuietNet DEF NetInv
<1>8. BufInv'
  BY QuietBuf
<1> QED
  BY <1>4, <1>5, <1>7, <1>8 DEF PsiInv

LEMMA RecvRowsStep ==
    ASSUME PsiInv, RecvRows
    PROVE  PsiInv'
<1> USE DEF RecvRows
<1>1. /\ Chunk' = Chunk /\ Common' = Common /\ (\A i : R0(i)' = R0(i))
      /\ \A j : Ct(j)' = Ct(j) /\ R1(j)' = R1(j)
  BY Frame, FrameTables
<1>2. at[0] = "keygen" /\ at' = [at EXCEPT ![0] = "encode"]
  BY DEF Goto
<1>3. at \in [Party -> At0 \cup At1] /\ rows \in [Party -> [Index -> RowT]]
  BY DEF PsiInv, Types
<1>4. at'[0] = "encode" /\ at'[1] = at[1] /\ \A q \in Party : q # 0 => at'[q] = at[q]
  BY <1>2, <1>3 DEF Party
<1>5. posted[0] = {} /\ toSend[0] = {}
  BY <1>2 DEF PsiInv, NetInv, Party
<1>6. Quiet
  BY <1>1, <1>2, <1>4 DEF Quiet, SentCh, GotCh, Sending, Receiving, Sent0, Sent1, Got1, Party
<1>7. \A i \in Index : genRows[i] = Row("pk", i)
  BY DEF genRows
<1>8. rows'[0] = [i \in Index |-> R0(i)] /\ rows'[1] = rows[1]
  BY <1>3, <1>7 DEF R0, Party
<1>9. rows' \in [Party -> [Index -> RowT]]
  <2>1. rows' = [rows EXCEPT ![0] = [i \in Index |-> R0(i)]]
    BY <1>7 DEF R0
  <2>2. [i \in Index |-> R0(i)] \in [Index -> RowT]
    BY RowsTyped DEF PsiInv, Types
  <2> QED
    BY <1>3, <2>1, <2>2
<1>10. RowInv'
  <2>1. UNCHANGED <<hits, encoded>>
    OBVIOUS
  <2>2. (at[1] = "encap" => \A j \in Index : encapRow(rows[1][j]) = Ct(j))'
    BY <1>1, <1>4, <1>8 DEF PsiInv, RowInv, encapRow, Row
  <2> QED
    BY <1>1, <1>2, <1>4, <1>8, <2>1, <2>2 DEF PsiInv, RowInv
<1>11. 0 \in Party /\ "encode" \in At0
  BY DEF Party, At0
<1>13. UNCHANGED <<set, cfg, warm, net, toSend, posted, buf, recvBuf, encoded>>
  OBVIOUS
<1>15. /\ at' \in [Party -> At0 \cup At1] /\ at'[0] \in At0 /\ at'[1] \in At1
       /\ at[0] # "warm" /\ at'[0] # "warm" /\ (at'[1] \in Sent1 <=> at[1] \in Sent1)
       /\ (at[0] \in {"post"} \cup Sent0 => at'[0] \in {"post"} \cup Sent0)
  BY <1>2, <1>3, <1>4, <1>11 DEF PsiInv, Types, Sent0, Sent1, Party
<1> HIDE DEF RecvRows
<1> QED
  BY <1>5, <1>6, <1>9, <1>10, <1>11, <1>13, <1>4, <1>15, DataStep

LEMMA RecvDecodeStep ==
    ASSUME PsiInv, RecvDecode
    PROVE  PsiInv'
<1> USE DEF RecvDecode
<1>0. Inputs /\ (encoded[0] => Encodable(set[0]))
  BY DEF PsiInv, Types, BufInv
<1>1. /\ Chunk' = Chunk /\ Common' = Common
      /\ \A j : Ct(j)' = Ct(j) /\ R1(j)' = R1(j)
  BY Frame, FrameTables
<1>2. at[0] = "decode" /\ at' = [at EXCEPT ![0] = "count"]
  BY DEF Goto
<1>3. at \in [Party -> At0 \cup At1] /\ rows \in [Party -> [Index -> RowT]]
  BY DEF PsiInv, Types
<1>4. at'[0] = "count" /\ at'[1] = at[1] /\ \A q \in Party : q # 0 => at'[q] = at[q]
  BY <1>2, <1>3 DEF Party
<1>5. posted[0] = {} /\ toSend[0] = {}
  BY <1>2 DEF PsiInv, NetInv, Party
<1>6. Quiet
  BY <1>1, <1>2, <1>4 DEF Quiet, SentCh, GotCh, Sending, Receiving, Sent0, Sent1, Got1, Party
<1>7. recvBuf = [b \in Block |-> T1]
  <2>1. \A c \in Chunk : \A b \in Part(c) : recvBuf[b] = T1
    BY <1>2, <1>5, AllGot DEF PsiInv, BufInv, Sent0
  <2>2. \A b \in Block : recvBuf[b] = T1
    BY <1>0, <2>1, ChunksCover DEF Inputs
  <2> QED
    BY <2>2 DEF PsiInv, Types
<1>8. rows' = [rows EXCEPT ![0] = [i \in Index |-> Opened(i, recvBuf)]]
  BY DEF Opened, RBDecode
<1>9. \A i \in Index :
        /\ Opened(i, recvBuf) \in RowT
        /\ decap(i, Opened(i, recvBuf)) => i \in Common
        /\ encoded[0] /\ encoded[1] /\ i \in Common => decap(i, Opened(i, recvBuf))
  BY <1>0, <1>7, OpenT1
<1>10. rows' \in [Party -> [Index -> RowT]] /\ rows'[1] = rows[1]
       /\ \A i \in Index : rows'[0][i] = Opened(i, recvBuf)
  BY <1>3, <1>8, <1>9 DEF Party
<1>11. RowInv'
  <2>1. UNCHANGED <<hits, encoded>>
    OBVIOUS
  <2>2. (at[1] = "encap" => \A j \in Index : encapRow(rows[1][j]) = Ct(j))'
    BY <1>1, <1>4, <1>10 DEF PsiInv, RowInv, encapRow, Row
  <2>3. \A i \in Index : Found(i)'
    BY <1>1, <1>9, <1>10, <2>1 DEF Found, decap, Row
  <2> QED
    BY <1>1, <1>2, <1>4, <1>10, <2>1, <2>2, <2>3 DEF PsiInv, RowInv
<1>12. 0 \in Party /\ "count" \in At0 /\ "count" \in Sent0
  BY DEF Party, At0, Sent0
<1>13. UNCHANGED <<set, cfg, warm, net, toSend, posted, buf, recvBuf, encoded>>
  OBVIOUS
<1>15. /\ at' \in [Party -> At0 \cup At1] /\ at'[0] \in At0 /\ at'[1] \in At1
       /\ at[0] # "warm" /\ at'[0] # "warm" /\ (at'[1] \in Sent1 <=> at[1] \in Sent1)
       /\ (at[0] \in {"post"} \cup Sent0 => at'[0] \in {"post"} \cup Sent0)
  BY <1>2, <1>3, <1>4, <1>12 DEF PsiInv, Types, Sent0, Sent1, Party
<1> HIDE DEF RecvDecode
<1> QED
  BY <1>5, <1>6, <1>10, <1>11, <1>12, <1>13, <1>4, <1>15, DataStep

LEMMA RecvCountStep ==
    ASSUME PsiInv, RecvCount
    PROVE  PsiInv'
<1> USE DEF RecvCount
<1>1. /\ Chunk' = Chunk /\ Common' = Common
      /\ \A j : Ct(j)' = Ct(j) /\ R1(j)' = R1(j)
  BY Frame, FrameTables
<1>2. at[0] = "count" /\ at' = [at EXCEPT ![0] = "done"]
  BY DEF Goto
<1>3. at \in [Party -> At0 \cup At1] /\ rows \in [Party -> [Index -> RowT]]
  BY DEF PsiInv, Types
<1>4. at'[0] = "done" /\ at'[1] = at[1] /\ \A q \in Party : q # 0 => at'[q] = at[q]
  BY <1>2, <1>3 DEF Party
<1>5. posted[0] = {} /\ toSend[0] = {}
  BY <1>2 DEF PsiInv, NetInv, Party
<1>6. Quiet
  BY <1>1, <1>2, <1>4 DEF Quiet, SentCh, GotCh, Sending, Receiving, Sent0, Sent1, Got1, Party
<1>7. PICK S : S = {i \in Index : decap(i, rows[0][i])}
  OBVIOUS
<1>8. S \subseteq Common /\ (encoded[0] /\ encoded[1] => S = Common)
  <2>1. \A i \in Index : Found(i)
    BY <1>2 DEF PsiInv, RowInv
  <2>2. \A i \in Common : i \in Index
    BY DEF Common
  <2> QED
    BY <1>7, <2>1, <2>2 DEF Found
<1>9. HitSet(S)'
  BY <1>1, <1>7, <1>8 DEF HitSet, countHits
<1>11. RowInv'
  <2>1. UNCHANGED <<rows, encoded>>
    OBVIOUS
  <2>2. (at[1] = "encap" => \A j \in Index : encapRow(rows[1][j]) = Ct(j))'
    BY <1>1, <1>4 DEF PsiInv, RowInv, encapRow, Row
  <2>3. (\E s \in SUBSET Common : HitSet(s))'
    BY <1>1, <1>8, <1>9
  <2> QED
    BY <1>1, <1>4, <2>1, <2>2, <2>3 DEF PsiInv, RowInv
<1>12. 0 \in Party /\ "done" \in At0 /\ "done" \in Sent0
  BY DEF Party, At0, Sent0
<1>13. UNCHANGED <<set, cfg, warm, net, toSend, posted, buf, recvBuf, encoded>>
  OBVIOUS
<1>14. rows' \in [Party -> [Index -> RowT]]
  BY <1>3
<1>15. /\ at' \in [Party -> At0 \cup At1] /\ at'[0] \in At0 /\ at'[1] \in At1
       /\ at[0] # "warm" /\ at'[0] # "warm" /\ (at'[1] \in Sent1 <=> at[1] \in Sent1)
       /\ (at[0] \in {"post"} \cup Sent0 => at'[0] \in {"post"} \cup Sent0)
  BY <1>2, <1>3, <1>4, <1>12 DEF PsiInv, Types, Sent0, Sent1, Party
<1> HIDE DEF RecvCount
<1> QED
  BY <1>5, <1>6, <1>11, <1>12, <1>13, <1>14, <1>4, <1>15, DataStep

LEMMA SendDecodeStep ==
    ASSUME PsiInv, SendDecode
    PROVE  PsiInv'
<1> USE DEF SendDecode
<1>0. Inputs
  BY DEF PsiInv, Types
<1>1. /\ Chunk' = Chunk /\ Common' = Common /\ (\A i : R0(i)' = R0(i))
      /\ \A j : Ct(j)' = Ct(j)
  BY Frame, FrameTables
<1>2. at[1] = "decode" /\ at' = [at EXCEPT ![1] = "encap"]
  BY DEF Goto
<1>3. at \in [Party -> At0 \cup At1] /\ rows \in [Party -> [Index -> RowT]]
  BY DEF PsiInv, Types
<1>4. at'[1] = "encap" /\ at'[0] = at[0] /\ \A q \in Party : q # 1 => at'[q] = at[q]
  BY <1>2, <1>3 DEF Party
<1>5. posted[1] = {} /\ toSend[1] = {}
  BY <1>2 DEF PsiInv, NetInv, Party
<1>6. Quiet
  BY <1>1, <1>2, <1>4 DEF Quiet, SentCh, GotCh, Sending, Receiving, Sent0, Sent1, Got1, Party
<1>7. buf[1] = [b \in Block |-> T0]
  <2>1. \A c \in Chunk : \A b \in Part(c) : buf[1][b] = T0
    BY <1>2, <1>5, AllGot DEF PsiInv, BufInv, Sent1, Got1
  <2>2. \A b \in Block : buf[1][b] = T0
    BY <1>0, <2>1, ChunksCover DEF Inputs
  <2>3. buf[1] = [b \in Block |-> buf[1][b]]
    BY DEF PsiInv, Types, Party
  <2> QED
    BY <2>2, <2>3
<1> DEFINE got(j) == unpermute(0, xorMask(set[1][j], RBDecodeRow(buf[1], set[1][j])))
<1>8. rows' = [rows EXCEPT ![1] = [j \in Index |-> got(j)]]
  BY DEF RBDecode
<1>9. \A j \in Index : got(j) \in RowT /\ encapRow(got(j)) = Ct(j)
  BY <1>0, <1>7, EncapT0
<1> HIDE DEF got
<1>10. rows' \in [Party -> [Index -> RowT]] /\ rows'[0] = rows[0]
       /\ \A j \in Index : rows'[1][j] = got(j)
  BY <1>3, <1>8, <1>9 DEF Party
<1>11. RowInv'
  <2>1. UNCHANGED <<hits, encoded>>
    OBVIOUS
  <2>2. (\A j \in Index : encapRow(rows[1][j]) = Ct(j))'
    BY <1>1, <1>9, <1>10 DEF encapRow, Row
  <2>3. \A i : Found(i)' <=> Found(i)
    BY <1>1, <1>10, <2>1 DEF Found, decap, Row
  <2>4. \A S : HitSet(S)' <=> HitSet(S)
    BY <1>1, <2>1 DEF HitSet
  <2> QED
    BY <1>1, <1>4, <1>10, <2>1, <2>2, <2>3, <2>4 DEF PsiInv, RowInv
<1>12. 1 \in Party /\ "encap" \in At1 /\ "encap" \notin Sent1 /\ at[1] \notin Sent1
  BY <1>2 DEF Party, At1, Sent1
<1>13. UNCHANGED <<set, cfg, warm, net, toSend, posted, buf, recvBuf, encoded>>
  OBVIOUS
<1>15. /\ at' \in [Party -> At0 \cup At1] /\ at'[0] \in At0 /\ at'[1] \in At1
       /\ at[1] # "warm" /\ at'[1] # "warm" /\ (at'[1] \in Sent1 <=> at[1] \in Sent1)
       /\ (at[0] \in {"post"} \cup Sent0 => at'[0] \in {"post"} \cup Sent0)
  BY <1>2, <1>3, <1>4, <1>12 DEF PsiInv, Types, Sent0, Sent1, Party
<1> HIDE DEF SendDecode
<1> QED
  BY <1>5, <1>6, <1>10, <1>11, <1>12, <1>13, <1>4, <1>15, DataStep

LEMMA SendEncapStep ==
    ASSUME PsiInv, SendEncap
    PROVE  PsiInv'
<1> USE DEF SendEncap
<1>0. Inputs
  BY DEF PsiInv, Types
<1>1. /\ Chunk' = Chunk /\ Common' = Common /\ (\A i : R0(i)' = R0(i))
      /\ \A j : R1(j)' = R1(j)
  BY Frame, FrameTables
<1>2. at[1] = "encap" /\ at' = [at EXCEPT ![1] = "encode"]
  BY DEF Goto
<1>3. at \in [Party -> At0 \cup At1] /\ rows \in [Party -> [Index -> RowT]]
  BY DEF PsiInv, Types
<1>4. at'[1] = "encode" /\ at'[0] = at[0] /\ \A q \in Party : q # 1 => at'[q] = at[q]
  BY <1>2, <1>3 DEF Party
<1>5. posted[1] = {} /\ toSend[1] = {}
  BY <1>2 DEF PsiInv, NetInv, Party
<1>6. Quiet
  BY <1>1, <1>2, <1>4 DEF Quiet, SentCh, GotCh, Sending, Receiving, Sent0, Sent1, Got1, Party
<1>7. \A j \in Index : encapRow(rows[1][j]) = Ct(j)
  BY <1>2 DEF PsiInv, RowInv
<1>8. rows' = [rows EXCEPT ![1] = [j \in Index |-> R1(j)]]
  BY <1>7 DEF R1
<1>9. [j \in Index |-> R1(j)] \in [Index -> RowT]
  BY <1>0, RowsTyped
<1>10. rows' \in [Party -> [Index -> RowT]] /\ rows'[0] = rows[0] /\ rows'[1] = [j \in Index |-> R1(j)]
  BY <1>3, <1>8, <1>9 DEF Party
<1>11. RowInv'
  <2>1. UNCHANGED <<hits, encoded>>
    OBVIOUS
  <2>3. \A i : Found(i)' <=> Found(i)
    BY <1>1, <1>10, <2>1 DEF Found, decap, Row
  <2>4. \A S : HitSet(S)' <=> HitSet(S)
    BY <1>1, <2>1 DEF HitSet
  <2> QED
    BY <1>1, <1>4, <1>10, <2>1, <2>3, <2>4 DEF PsiInv, RowInv
<1>12. 1 \in Party /\ "encode" \in At1 /\ "encode" \notin Sent1 /\ at[1] \notin Sent1
  BY <1>2 DEF Party, At1, Sent1
<1>13. UNCHANGED <<set, cfg, warm, net, toSend, posted, buf, recvBuf, encoded>>
  OBVIOUS
<1>15. /\ at' \in [Party -> At0 \cup At1] /\ at'[0] \in At0 /\ at'[1] \in At1
       /\ at[1] # "warm" /\ at'[1] # "warm" /\ (at'[1] \in Sent1 <=> at[1] \in Sent1)
       /\ (at[0] \in {"post"} \cup Sent0 => at'[0] \in {"post"} \cup Sent0)
  BY <1>2, <1>3, <1>4, <1>12 DEF PsiInv, Types, Sent0, Sent1, Party
<1> HIDE DEF SendEncap
<1> QED
  BY <1>5, <1>6, <1>10, <1>11, <1>12, <1>13, <1>4, <1>15, DataStep

LEMMA RecvEncodeStep ==
    ASSUME PsiInv, RecvEncode
    PROVE  PsiInv'
<1> USE DEF RecvEncode
<1>0. Inputs /\ buf = [q \in Party |-> [b \in Block |-> buf[q][b]]] /\ encoded \in [Party -> BOOLEAN]
  BY DEF PsiInv, Types
<1>1. /\ numChannels' = numChannels /\ Chunk' = Chunk /\ (\A c : Part(c)' = Part(c))
      /\ Inputs' = Inputs /\ Common' = Common /\ (\A i : R0(i)' = R0(i))
  BY Frame
<1>2. at[0] = "encode" /\ at' = [at EXCEPT ![0] = "post"]
  BY DEF Goto
<1>3. at \in [Party -> At0 \cup At1] /\ at[1] \in At1
  BY DEF PsiInv, Types
<1>4. at'[0] = "post" /\ at'[1] = at[1]
  BY <1>2, <1>3 DEF Party
<1>5. at[1] \in {"warm", "post", "wait", "dead"}
  BY <1>2, <1>3, AllGot DEF Sent0, Got1, At1
<1>6. Quiet
  BY <1>1, <1>2, <1>4 DEF Quiet, SentCh, GotCh, Sending, Receiving, Sent0, Sent1, Got1, Party
<1>7. \A q \in Party : \A c \in Chunk : ~SentCh(q, c) /\ ~SentCh(q, c)' /\ ~GotCh(q, c)'
  <2>1. \A q \in Party : \A c \in Chunk : ~SentCh(q, c)
    BY <1>2, <1>5 DEF SentCh, Sending, Sent0, Sent1, Party
  <2>2. \A q \in Party : \A c \in Chunk : ~GotCh(q, c)
    BY <2>1 DEF PsiInv, NetInv, Party
  <2> QED
    BY <1>6, <2>1, <2>2 DEF Quiet
<1>8. ~encoded[0] /\ ~encoded[1] /\ rows[0] = [i \in Index |-> R0(i)] /\ buf[0] = [b \in Block |-> NoTable]
  BY <1>2, <1>5 DEF PsiInv, BufInv, RowInv, Sent0, Sent1, T0
<1>9. /\ encoded' \in [Party -> BOOLEAN] /\ ~encoded'[1]
      /\ buf' = [q \in Party |-> [b \in Block |-> buf'[q][b]]]
      /\ encoded'[0] => Encodable(set[0]) /\ buf'[0] = [b \in Block |-> Table(set[0], rows[0])]
      /\ ~encoded'[0] => buf'[0] = buf[0]
      /\ buf'[1] = buf[1]
  <2>1. CASE /\ Encodable(set[0])
             /\ buf' = [buf EXCEPT ![0] = [b \in Block |-> Table(set[0], rows[0])]]
             /\ encoded' = [encoded EXCEPT ![0] = TRUE]
    <3>1. PICK t : t = [b \in Block |-> Table(set[0], rows[0])]
      OBVIOUS
    <3>2. buf' = [buf EXCEPT ![0] = t] /\ t = [b \in Block |-> t[b]]
      BY <2>1, <3>1
    <3>3. /\ buf' = [q \in Party |-> [b \in Block |-> buf'[q][b]]]
          /\ buf'[0] = t /\ buf'[1] = buf[1]
      <4> HIDE DEF RecvEncode
      <4>1. buf' = [q \in Party |-> IF q = 0 THEN t ELSE buf[q]]
        BY <1>0, <3>2
      <4>2. \A q \in Party : buf[q] = [b \in Block |-> buf[q][b]]
        BY <1>0
      <4>3. buf'[0] = t /\ buf'[1] = buf[1]
        BY <4>1 DEF Party
      <4>4. \A q \in Party : buf'[q] = [b \in Block |-> buf'[q][b]]
        BY <3>2, <4>2, <4>3 DEF Party
      <4> QED
        BY <4>1, <4>3, <4>4
    <3>4. encoded' \in [Party -> BOOLEAN] /\ encoded'[0] /\ encoded'[1] = encoded[1]
      BY <1>0, <2>1 DEF Party
    <3> QED
      BY <1>8, <2>1, <3>1, <3>3, <3>4
  <2>2. CASE encoded' = [encoded EXCEPT ![0] = FALSE] /\ UNCHANGED buf
    BY <1>0, <1>8, <2>2 DEF Party
  <2> QED
    BY <2>1, <2>2 DEF RBEncode
<1>10. buf'[0] = [b \in Block |-> T0']
  <2>1. CASE encoded'[0]
    <3>1. T0' = Table(set[0], rows[0])
      BY <1>1, <1>8, <2>1 DEF T0, Table
    <3> QED
      BY <1>9, <2>1, <3>1
  <2>2. CASE ~encoded'[0]
    <3>1. T0' = NoTable
      BY <2>2 DEF T0, NoTable
    <3> QED
      BY <1>8, <1>9, <2>2, <3>1
  <2> QED
    BY <2>1, <2>2
<1>11. Types'
  <2>1. at' \in [Party -> At0 \cup At1] /\ at'[0] \in At0 /\ at'[1] \in At1
    BY <1>2, <1>3, <1>4 DEF At0
  <2>2. UNCHANGED <<warm, toSend, posted, rows, recvBuf>>
    OBVIOUS
  <2> HIDE DEF RecvEncode
  <2> QED
    BY <1>1, <1>9, <2>1, <2>2 DEF PsiInv, Types
<1>12. WarmInv'
  BY <1>1, <1>2, <1>4 DEF PsiInv, WarmInv, Party
<1>13. NetInv'
  <2>1. posted[0] = {} /\ toSend[0] = {}
    BY <1>2 DEF PsiInv, NetInv, Party
  <2>2. UNCHANGED <<set, cfg, warm, net, toSend, posted>>
    OBVIOUS
  <2>3. /\ (posted[0] # {} => at[0] \in {"send", "wait"})' /\ (posted[1] # {} => at[1] = "wait")'
        /\ (\A q \in Party : toSend[q] # {} => at[q] = "send")'
    BY <1>4, <2>1, <2>2 DEF PsiInv, NetInv, Party
  <2> HIDE DEF RecvEncode
  <2> QED
    BY <1>6, <1>7, <2>2, <2>3, QuietNet DEF NetInv
<1>14. BufInv'
  <2>1. Encodable(set[0])' = Encodable(set[0])
    BY DEF Encodable
  <2>2. at'[1] \notin Sent1
    BY <1>4, <1>5 DEF Sent1
  <2> HIDE DEF RecvEncode
  <2> QED
    BY <1>1, <1>4, <1>7, <1>9, <1>10, <2>1, <2>2 DEF BufInv, Party
<1>15. RowInv'
  <2>1. UNCHANGED <<rows, hits>> /\ hits = 0
    BY <1>2 DEF PsiInv, RowInv
  <2> HIDE DEF RecvEncode
  <2> QED
    BY <1>4, <1>5, <2>1 DEF RowInv
<1> QED
  BY <1>11, <1>12, <1>13, <1>14, <1>15 DEF PsiInv

LEMMA SendEncodeStep ==
    ASSUME PsiInv, SendEncode
    PROVE  PsiInv'
<1> USE DEF SendEncode
<1>0. Inputs /\ buf = [q \in Party |-> [b \in Block |-> buf[q][b]]] /\ encoded \in [Party -> BOOLEAN]
  BY DEF PsiInv, Types
<1>1. /\ numChannels' = numChannels /\ Chunk' = Chunk /\ (\A c : Part(c)' = Part(c))
      /\ Inputs' = Inputs /\ Common' = Common /\ (\A i : R0(i)' = R0(i))
  BY Frame
<1>2. at[1] = "encode" /\ at' = [at EXCEPT ![1] = "send"] /\ toSend' = [toSend EXCEPT ![1] = Chunk]
  BY DEF Goto
<1>3. at \in [Party -> At0 \cup At1] /\ at[0] \in At0 /\ toSend \in [Party -> SUBSET Chunk]
  BY DEF PsiInv, Types
<1>4. at'[1] = "send" /\ at'[0] = at[0] /\ toSend'[1] = Chunk /\ toSend'[0] = toSend[0]
  BY <1>2, <1>3 DEF Party
<1>5. posted[1] = {} /\ at[0] \in Sent0 \ {"decode", "count", "done"}
  BY <1>2, AllGot DEF Sent1, Got1
<1>6. Quiet
  BY <1>1, <1>2, <1>4 DEF Quiet, SentCh, GotCh, Sending, Receiving, Sent0, Sent1, Got1, Party
<1>7. \A c \in Chunk : ~SentCh(1, c) /\ ~GotCh(0, c)'
  <2>1. \A c \in Chunk : ~SentCh(1, c)
    BY <1>2 DEF SentCh, Sending, Sent1
  <2>2. \A c \in Chunk : ~GotCh(0, c)
    BY <2>1 DEF PsiInv, NetInv
  <2> QED
    BY <1>6, <2>1, <2>2 DEF Quiet, Party
<1>8. ~encoded[1] /\ rows[1] = [j \in Index |-> R1(j)] /\ buf[1] = [b \in Block |-> T0]
  <2>1. \A c \in Chunk : \A b \in Part(c) : buf[1][b] = T0
    BY <1>2, <1>5, AllGot DEF PsiInv, BufInv, Sent1, Got1
  <2>2. \A b \in Block : buf[1][b] = T0
    BY <1>0, <2>1, ChunksCover DEF Inputs
  <2>3. buf[1] = [b \in Block |-> buf[1][b]]
    BY <1>0 DEF Party
  <2>4. ~encoded[1] /\ rows[1] = [j \in Index |-> R1(j)]
    BY <1>2 DEF PsiInv, BufInv, RowInv, Sent1
  <2> QED
    BY <2>2, <2>3, <2>4
<1>9. /\ encoded' \in [Party -> BOOLEAN] /\ encoded'[0] = encoded[0]
      /\ buf' = [q \in Party |-> [b \in Block |-> buf'[q][b]]]
      /\ encoded'[1] => buf'[1] = [b \in Block |-> Table(set[1], rows[1])]
      /\ ~encoded'[1] => buf'[1] = buf[1]
      /\ buf'[0] = buf[0]
  <2>1. CASE /\ Encodable(set[1])
             /\ buf' = [buf EXCEPT ![1] = [b \in Block |-> Table(set[1], rows[1])]]
             /\ encoded' = [encoded EXCEPT ![1] = TRUE]
    <3>1. PICK t : t = [b \in Block |-> Table(set[1], rows[1])]
      OBVIOUS
    <3>2. buf' = [buf EXCEPT ![1] = t] /\ t = [b \in Block |-> t[b]]
      BY <2>1, <3>1
    <3>3. /\ buf' = [q \in Party |-> [b \in Block |-> buf'[q][b]]]
          /\ buf'[1] = t /\ buf'[0] = buf[0]
      <4> HIDE DEF SendEncode
      <4>1. buf' = [q \in Party |-> IF q = 1 THEN t ELSE buf[q]]
        BY <1>0, <3>2
      <4>2. \A q \in Party : buf[q] = [b \in Block |-> buf[q][b]]
        BY <1>0
      <4>3. buf'[1] = t /\ buf'[0] = buf[0]
        BY <4>1 DEF Party
      <4>4. \A q \in Party : buf'[q] = [b \in Block |-> buf'[q][b]]
        BY <3>2, <4>2, <4>3 DEF Party
      <4> QED
        BY <4>1, <4>3, <4>4
    <3>4. encoded' \in [Party -> BOOLEAN] /\ encoded'[1] /\ encoded'[0] = encoded[0]
      BY <1>0, <2>1 DEF Party
    <3> QED
      BY <1>8, <2>1, <3>1, <3>3, <3>4
  <2>2. CASE encoded' = [encoded EXCEPT ![1] = FALSE] /\ UNCHANGED buf
    BY <1>0, <1>8, <2>2 DEF Party
  <2> QED
    BY <2>1, <2>2 DEF RBEncode
<1>10. T0' = T0 /\ \A j : R1(j)' = R1(j)
  <2>1. T0' = T0
    BY <1>1, <1>9 DEF T0, Table, NoTable
  <2>2. \A j : Ct(j)' = Ct(j)
    BY <1>9 DEF Ct, KeyOf, Has, Where, Row
  <2>3. \A j : R1(j)' = R1(j)
    BY <2>2 DEF R1, xorMask, permute, PiOf
  <2> QED
    BY <2>1, <2>3
<1>11. buf'[1] = [b \in Block |-> T1']
  <2>1. CASE encoded'[1]
    <3>1. T1' = Table(set[1], rows[1])
      BY <1>8, <1>10, <2>1 DEF T1, Table
    <3> QED
      BY <1>9, <2>1, <3>1
  <2>2. CASE ~encoded'[1]
    <3>1. T1' = T0
      BY <1>10, <2>2 DEF T1
    <3> QED
      BY <1>8, <1>9, <2>2, <3>1
  <2> QED
    BY <2>1, <2>2
<1>12. Types'
  <2>1. at' \in [Party -> At0 \cup At1] /\ at'[0] \in At0 /\ at'[1] \in At1
    BY <1>2, <1>3, <1>4 DEF At1
  <2>2. UNCHANGED <<warm, posted, rows, recvBuf>> /\ toSend' \in [Party -> SUBSET Chunk]
    BY <1>2, <1>3
  <2> HIDE DEF SendEncode
  <2> QED
    BY <1>1, <1>9, <2>1, <2>2 DEF PsiInv, Types
<1>13. WarmInv'
  BY <1>1, <1>2, <1>4 DEF PsiInv, WarmInv, Party
<1>14. NetInv'
  <2>1. UNCHANGED <<set, cfg, warm, net, posted>>
    OBVIOUS
  <2>2. /\ (posted[0] # {} => at[0] \in {"send", "wait"})' /\ (posted[1] # {} => at[1] = "wait")'
        /\ (\A q \in Party : toSend[q] # {} => at[q] = "send")'
    BY <1>4, <1>5, <2>1 DEF PsiInv, NetInv, Party
  <2>3. \A q \in Party : \A c \in Chunk : SentCh(q, c) => TableOf(q)' = TableOf(q)
    BY <1>7, <1>10 DEF TableOf, Party
  <2> HIDE DEF SendEncode
  <2> QED
    BY <1>6, <2>1, <2>2, <2>3, QuietNet DEF NetInv
<1>15. BufInv'
  <2>1. Encodable(set[0])' = Encodable(set[0])
    BY DEF Encodable
  <2>2. at'[1] \in Sent1
    BY <1>4 DEF Sent1
  <2> HIDE DEF SendEncode
  <2> QED
    BY <1>1, <1>4, <1>7, <1>9, <1>10, <1>11, <2>1, <2>2 DEF PsiInv, BufInv
<1>16. RowInv'
  <2>1. UNCHANGED <<rows, hits>> /\ hits = 0
    BY <1>5 DEF PsiInv, RowInv
  <2> HIDE DEF SendEncode
  <2> QED
    BY <1>4, <1>5, <2>1 DEF RowInv, Sent0
<1> QED
  BY <1>12, <1>13, <1>14, <1>15, <1>16 DEF PsiInv

-----------------------------------------------------------------------------
(* The theorems.                                                           *)

LEMMA PsiInit == Init => PsiInv
<1> SUFFICES ASSUME Init PROVE PsiInv
  OBVIOUS
<1> USE DEF Init
<1>1. numChannels \in Nat /\ 0 \in 0 .. 2 * numChannels
  BY PqPsiAssumption DEF numChannels
<1>2. Zero \in RowT
  BY JunkRows
<1>3. at[0] = "warm" /\ at[1] = "warm" /\ warm[0] = 0 /\ warm[1] = 0 /\ ~encoded[0] /\ ~encoded[1]
  BY DEF Party
<1>4. Types
  <2>1. Inputs /\ warm \in [Party -> 0 .. 2 * numChannels]
    BY <1>1 DEF Inputs
  <2>2. at \in [Party -> At0 \cup At1] /\ at[0] \in At0 /\ at[1] \in At1
    BY <1>3 DEF At0, At1
  <2>3. toSend \in [Party -> SUBSET Chunk] /\ posted \in [Party -> SUBSET Chunk]
    OBVIOUS
  <2>4. rows \in [Party -> [Index -> RowT]] /\ encoded \in [Party -> BOOLEAN]
    BY <1>2
  <2>5. buf = [p \in Party |-> [b \in Block |-> buf[p][b]]] /\ recvBuf = [b \in Block |-> recvBuf[b]]
    OBVIOUS
  <2> QED
    BY <2>1, <2>2, <2>3, <2>4, <2>5 DEF Types
<1>5. WarmInv
  BY <1>3 DEF WarmInv, Party
<1>6. \A p \in Party : \A c \in Channel : ~SentCh(p, c) /\ ~GotCh(p, c)
  BY <1>3 DEF SentCh, GotCh, Sending, Receiving, Sent0, Sent1, Got1
<1>7. NetInv
  <2>1. ASSUME NEW p \in Party, NEW c \in Channel PROVE net[p][c] = Line(p, c)
    <3>1. c \in Nat /\ c >= 1
      BY PqPsiAssumption DEF Channel
    <3>2. ~WarmIn(p, c)
      BY <1>3, <3>1 DEF WarmIn
    <3> QED
      BY <1>6, <3>2 DEF Line
  <2>2. Chunk \subseteq Channel
    BY DEF Chunk
  <2> QED
    BY <1>6, <2>1, <2>2 DEF NetInv, Party
<1>8. BufInv
  <2>1. Chunk \subseteq Channel
    BY DEF Chunk
  <2>2. at[1] \notin Sent1 /\ T0 = NoTable
    BY <1>3 DEF Sent1, T0
  <2> QED
    BY <1>3, <1>6, <2>1, <2>2 DEF BufInv, Party
<1>9. RowInv
  BY <1>3 DEF RowInv
<1> QED
  BY <1>4, <1>5, <1>7, <1>8, <1>9 DEF PsiInv

LEMMA PsiStutter ==
    ASSUME PsiInv, UNCHANGED vars
    PROVE  PsiInv'
<1>1. /\ numChannels' = numChannels /\ Chunk' = Chunk /\ (\A c : Part(c)' = Part(c))
      /\ Inputs' = Inputs /\ T0' = T0 /\ T1' = T1
  BY Frame, FrameTables DEF vars
<1>2. Quiet
  BY <1>1 DEF Quiet, SentCh, GotCh, Sending, Receiving, vars
<1> QED
  BY <1>1, <1>2, ControlStep DEF vars, PsiInv, Types, NetInv, WarmInv

\* Every step keeps the invariant.
LEMMA PsiNext == PsiInv /\ [Next]_vars => PsiInv'
<1> SUFFICES ASSUME PsiInv, [Next]_vars PROVE PsiInv'
  OBVIOUS
<1>1. CASE \E p \in Party : PartyStep(p)
  <2>1. PICK p \in Party : PartyStep(p)
    BY <1>1
  <2> QED
    BY <2>1, WarmSendStep, WarmRecvStep, ConfigureStep, PostRecvStep, WaitStep, SendReturnStep,
       SendChunkStep DEF PartyStep
<1>2. CASE \E p \in Party : \E c \in Channel : Deliver(p, c)
  BY <1>2, DeliverStep
<1>3. CASE Recv
  BY <1>3, RecvRowsStep, RecvEncodeStep, RecvDecodeStep, RecvCountStep DEF Recv
<1>4. CASE Send
  BY <1>4, SendDecodeStep, SendEncapStep, SendEncodeStep DEF Send
<1>5. CASE Finished \/ UNCHANGED vars
  BY <1>5, PsiStutter DEF Finished
<1> QED
  BY <1>1, <1>2, <1>3, <1>4, <1>5 DEF Next

\* A set of indices is finite and no larger than the whole.
LEMMA IndexCard ==
    /\ IsFiniteSet(Common) /\ Cardinality(Common) \in 0 .. N
    /\ \A S \in SUBSET Common : IsFiniteSet(S) /\ Cardinality(S) \in 0 .. Cardinality(Common)
<1>1. N \in Nat /\ 1 \in Int /\ N \in Int
  BY PqPsiAssumption
<1>2. IsFiniteSet(Index) /\ Cardinality(Index) = N
  BY <1>1, FS_Interval, PqPsiAssumption DEF Index
<1>3. Common \subseteq Index
  BY DEF Common
<1>4. IsFiniteSet(Common) /\ Cardinality(Common) <= N
  BY <1>2, <1>3, FS_Subset
<1>5. Cardinality(Common) \in Nat
  BY <1>4, FS_CardinalityType
<1>6. ASSUME NEW S \in SUBSET Common
      PROVE  IsFiniteSet(S) /\ Cardinality(S) \in 0 .. Cardinality(Common)
  <2>1. IsFiniteSet(S) /\ Cardinality(S) <= Cardinality(Common)
    BY <1>4, FS_Subset
  <2>2. Cardinality(S) \in Nat
    BY <2>1, FS_CardinalityType
  <2> QED
    BY <1>5, <2>1, <2>2
<1> QED
  BY <1>1, <1>4, <1>5, <1>6

\* The invariant gives the properties that the runs check.
LEMMA PsiInvUse == PsiInv => TypeOK /\ HitsExact /\ NoFalseHit /\ WholeTable
<1> SUFFICES ASSUME PsiInv PROVE TypeOK /\ HitsExact /\ NoFalseHit /\ WholeTable
  OBVIOUS
<1>0. N \in Nat
  BY PqPsiAssumption
<1>1. \E S \in SUBSET Common : hits = Cardinality(S) /\ (at[0] = "done" /\ encoded[0] /\ encoded[1] => S = Common)
  <2>1. CASE at[0] = "done"
    BY <2>1 DEF PsiInv, RowInv, HitSet
  <2>2. CASE at[0] # "done"
    <3>1. hits = Cardinality({})
      BY <2>2, FS_EmptySet DEF PsiInv, RowInv
    <3> QED
      BY <2>2, <3>1
  <2> QED
    BY <2>1, <2>2
<1>2. hits \in 0 .. N /\ hits <= Cardinality(Common)
  BY <1>0, <1>1, IndexCard
<1>3. HitsExact
  BY <1>1 DEF HitsExact
<1>4. NoFalseHit
  BY <1>2 DEF NoFalseHit
<1>5. TypeOK
  <2>1. \A p \in Party, i \in Index : rows[p][i].kind \in Base
    BY DEF PsiInv, Types, RowT
  <2>2. at \in [Party -> {"warm", "keygen", "encode", "post", "send", "wait",
                          "decode", "encap", "count", "done", "dead"}]
    BY DEF PsiInv, Types, At0, At1
  <2>3. \A p \in Party : toSend[p] \subseteq Chunk /\ posted[p] \subseteq Chunk
    BY DEF PsiInv, Types
  <2> QED
    BY <1>2, <2>1, <2>2, <2>3 DEF PsiInv, Types, Inputs, TypeOK
<1>6. ASSUME at[0] = "decode", NEW b \in Block PROVE recvBuf[b] = buf[1][b]
  <2>1. at[1] \in Sent1 /\ \A c \in Chunk : GotCh(0, c)
    BY <1>6, AllGot DEF Sent0
  <2>2. buf[1][b] = T1
    BY <2>1 DEF PsiInv, BufInv
  <2>3. PICK c \in Chunk : b \in Part(c)
    BY ChunksCover DEF PsiInv, Types, Inputs
  <2>4. recvBuf[b] = T1
    BY <2>1, <2>3 DEF PsiInv, BufInv
  <2> QED
    BY <2>2, <2>4
<1>7. ASSUME at[1] = "decode", NEW b \in Block PROVE buf[1][b] = buf[0][b]
  <2>1. \A c \in Chunk : GotCh(1, c)
    BY <1>7, AllGot DEF Got1
  <2>2. at[1] \notin Sent1
    BY <1>7 DEF Sent1
  <2>3. PICK c \in Chunk : b \in Part(c)
    BY ChunksCover DEF PsiInv, Types, Inputs
  <2>4. buf[1][b] = T0 /\ buf[0][b] = T0
    BY <2>1, <2>2, <2>3 DEF PsiInv, BufInv
  <2> QED
    BY <2>4
<1>8. WholeTable
  BY <1>6, <1>7 DEF WholeTable
<1> QED
  BY <1>3, <1>4, <1>5, <1>8

\* The invariant holds in every reachable state.
LEMMA PsiInvariant == Spec => []PsiInv
BY PsiInit, PsiNext, PTL DEF Spec

\* For every set size, number of channels and table size the variables keep
\* their types; the hit count stays within the set.
THEOREM TypeCorrect == Spec => []TypeOK
BY PsiInvariant, PsiInvUse, PTL

\* Neither recv.cpp nor send.cpp decodes a buffer before every chunk of the
\* peer's table is in it, however the blocks are divided over the channels.
THEOREM WholeTableDecoded == Spec => []WholeTable
BY PsiInvariant, PsiInvUse, PTL

\* Whatever encoding fails, countHits counts no item that is not common.
THEOREM NoFalseHitCounted == Spec => []NoFalseHit
BY PsiInvariant, PsiInvUse, PTL

\* If both RBEncode calls succeed, the hit count is the size of the
\* intersection, in every configuration and for every order of arrival.
THEOREM HitsAreExact == Spec => []HitsExact
BY PsiInvariant, PsiInvUse, PTL
=============================================================================
