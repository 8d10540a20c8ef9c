---------------------------- MODULE TableProofs ----------------------------
(***************************************************************************)
(* What is proved about Rows and Table, for every schema, set of rows,     *)
(* pages and indexes: rows are read back, the indexes and the pages agree, *)
(* rows that are not changed keep their address, the table is a set of     *)
(* rows with unique values, and a join yields each pair of rows once.      *)
(***************************************************************************)
EXTENDS Table, NatSets, SequenceTheorems, FiniteSetTheorems

---------------------------------------------------------------------------
(* The bytes of a cell. *)

LEMMA OfItsRange ==
    ASSUME NEW S, NEW s \in Seq(S)
    PROVE  IsASequence(s)
<1>1. Len(s) \in Nat /\ DOMAIN s = 1..Len(s) /\ s = [i \in 1..Len(s) |-> s[i]]
  BY LenProperties
<1>2. \A i \in 1..Len(s) : s[i] \in Range(s)
  BY <1>1 DEF Range
<1>3. s \in [1..Len(s) -> Range(s)]
  BY <1>1, <1>2
<1> QED
  BY <1>1, <1>3, SeqDef DEF IsASequence

LEMMA IntIsBytes ==
    ASSUME NEW v
    PROVE  /\ IsASequence(SerializeCell(IntCell(v)))
           /\ SerializeCell(IntCell(v)) = IntBytes(v)
           /\ Len(SerializeCell(IntCell(v))) = 4
           /\ \A i \in 1..4 : SerializeCell(IntCell(v))[i] = <<v, i>>
<1>1. SerializeCell(IntCell(v)) = IntBytes(v)
  BY DEF SerializeCell, IntCell
<1>2. IntBytes(v) \in [1..4 -> {<<v, i>> : i \in 1..4}]
  BY DEF IntBytes
<1>3. IntBytes(v) \in Seq({<<v, i>> : i \in 1..4})
  BY <1>2, SeqDef
<1>4. \A i \in 1..4 : IntBytes(v)[i] = <<v, i>>
  BY DEF IntBytes
<1>5. Len(IntBytes(v)) = 4
  BY <1>2, <1>3, LenProperties
<1> QED
  BY <1>1, <1>3, <1>4, <1>5, OfItsRange

LEMMA ByteIsBytes ==
    ASSUME NEW v
    PROVE  /\ IsASequence(SerializeCell(ByteCell(v)))
           /\ SerializeCell(ByteCell(v)) = <<v>>
           /\ Len(SerializeCell(ByteCell(v))) = 1
<1>1. SerializeCell(ByteCell(v)) = <<v>>
  BY DEF SerializeCell, ByteCell
<1>2. <<v>> \in Seq({v}) /\ Len(<<v>>) = 1
  OBVIOUS
<1> QED
  BY <1>1, <1>2, OfItsRange

LEMMA VarcharIsBytes ==
    ASSUME NEW text, IsASequence(text)
    PROVE  LET bytes == SerializeCell(VarcharCell(text)) IN
           /\ IsASequence(bytes)
           /\ Len(text) \in Nat /\ Len(bytes) = 2 + Len(text)
           /\ bytes[1] = (Len(text) \div Base) % Base
           /\ bytes[2] = Len(text) % Base
           /\ \A i \in 1..Len(text) : bytes[2 + i] = text[i]
<1> DEFINE bytes == SerializeCell(VarcharCell(text))
<1>1. PICK a, b : a = (Len(text) \div Base) % Base /\ b = Len(text) % Base
  OBVIOUS
<1> DEFINE B == {a, b} \cup Range(text)
<1>2. bytes = <<a, b>> \o text
  BY <1>1 DEF SerializeCell, VarcharCell
<1>3. text \in Seq(B) /\ Len(text) \in Nat
  BY SeqMonotonic, LenProperties DEF IsASequence
<1>4. <<a, b>> \in Seq(B) /\ Len(<<a, b>>) = 2 /\ <<a, b>>[1] = a /\ <<a, b>>[2] = b
  OBVIOUS
<1> HIDE DEF bytes, B
<1>5. /\ bytes \in Seq(B)
      /\ Len(bytes) = 2 + Len(text)
      /\ \A i \in 1..2 + Len(text) : bytes[i] = IF i <= 2 THEN <<a, b>>[i] ELSE text[i - 2]
  BY <1>2, <1>3, <1>4, ConcatProperties
<1>6. bytes[1] = a /\ bytes[2] = b
  BY <1>3, <1>4, <1>5
<1>7. \A i \in 1..Len(text) : bytes[2 + i] = text[i]
  BY <1>3, <1>5
<1>8. IsASequence(bytes)
  BY <1>5, OfItsRange
<1> QED
  BY <1>1, <1>3, <1>5, <1>6, <1>7, <1>8 DEF bytes

LEMMA CellIsBytes ==
    ASSUME NEW cell, IsACell(cell)
    PROVE  IsASequence(SerializeCell(cell))
<1>1. CASE cell = IntCell(cell.value)
  BY <1>1, IntIsBytes
<1>2. CASE cell = ByteCell(cell.value)
  BY <1>2, ByteIsBytes
<1>3. CASE cell = VarcharCell(cell.value) /\ IsASequence(cell.value)
  BY <1>3, VarcharIsBytes
<1> QED
  BY <1>1, <1>2, <1>3 DEF IsACell

LEMMA BaseIsInt == Base \in Int
  BY SMT DEF Base

\* The length of a Varchar goes into two bytes.
LEMMA BaseIs == Base = 256
BY SMT DEF Base

LEMMA BelowSquare == \A b \in Int : \A n \in 0..(b * b - 1) : n \in Nat /\ n < b * b
BY SMT

LEMMA QuotientOf ==
    ASSUME NEW n \in Nat, n < 256 * 256
    PROVE  n \div 256 \in Nat /\ n \div 256 < 256 /\ (n \div 256) * 256 + (n % 256) = n
<1>1. n \div 256 \in Nat /\ n \div 256 < 256
  BY SMT
<1>2. (n \div 256) * 256 + (n % 256) = n
  BY SMT
<1> QED
  BY <1>1, <1>2, Zenon

LEMMA TwoBytes ==
    ASSUME NEW n \in 0..(Base * Base - 1)
    PROVE  ((n \div Base) % Base) * Base + (n % Base) = n
<1>1. n \in Nat /\ n < Base * Base
  BY BaseIsInt, BelowSquare, Zenon
<1>2. n < 256 * 256
  BY ONLY <1>1, BaseIs, Zenon
<1>3. n \div 256 \in Nat /\ n \div 256 < 256 /\ (n \div 256) * 256 + (n % 256) = n
  BY ONLY <1>1, <1>2, QuotientOf, Zenon
<1>4. ASSUME NEW q \in Nat, q < 256 PROVE q % 256 = q
  BY ONLY <1>4, SMT
<1>5. (n \div 256) % 256 = n \div 256
  BY ONLY <1>3, <1>4, Zenon
<1>6. ((n \div 256) % 256) * 256 + (n % 256) = n
  BY ONLY <1>3, <1>5, Zenon
<1> QED
  BY ONLY BaseIs, <1>6, Zenon

\* The cell that bytes start with is read back from them.
LEMMA CellReadBack ==
    ASSUME NEW cell, IsACell(cell), NEW type, IsOfType(cell, type), ~IsTooLong(cell, type),
           type.length \in 0..(Base * Base - 1),
           NEW B, NEW rest \in Seq(B),
           Len(SerializeCell(cell)) <= Len(rest),
           \A i \in 1..Len(SerializeCell(cell)) : rest[i] = SerializeCell(cell)[i]
    PROVE  DeserializeCell(rest, type) = Ok([cell |-> cell, size |-> Len(SerializeCell(cell))])
<1>0. Len(rest) \in Nat /\ \A i \in 1..Len(rest) : rest[i] \in B
  BY LenProperties, ElementOfSeq
<1>1. CASE cell = IntCell(cell.value)
  <2>1. PICK v : v = cell.value
    OBVIOUS
  <2>2. type.raw = "Int"
    BY <1>1 DEF IsOfType, IntCell
  <2>3. Len(SerializeCell(cell)) = 4 /\ 4 <= Len(rest) /\ \A i \in 1..4 : rest[i] = <<v, i>>
    BY <1>1, <2>1, IntIsBytes
  <2>4. SubSeq(rest, 1, 4) = IntBytes(v)
    <3>1. /\ SubSeq(rest, 1, 4) \in Seq(B) /\ Len(SubSeq(rest, 1, 4)) = 4
          /\ \A i \in 1..4 : SubSeq(rest, 1, 4)[i] = rest[i]
      <4>1. \A i \in 1..4 : rest[i] \in B
        BY <1>0, <2>3
      <4> QED
        BY <4>1, SubSeqProperties
    <3>2. SubSeq(rest, 1, 4) = [i \in 1..4 |-> SubSeq(rest, 1, 4)[i]]
      BY <3>1, LenProperties
    <3> QED
      BY <3>1, <3>2, <2>3 DEF IntBytes
  <2>5. rest[1][1] = v
    BY <2>3
  <2> QED
    BY <1>0, <1>1, <2>1, <2>2, <2>3, <2>4, <2>5 DEF DeserializeCell
<1>2. CASE cell = ByteCell(cell.value)
  <2>1. PICK v : v = cell.value
    OBVIOUS
  <2>2. type.raw = "Byte"
    BY <1>2 DEF IsOfType, ByteCell
  <2>3. SerializeCell(cell) = <<v>> /\ Len(SerializeCell(cell)) = 1
    BY <1>2, <2>1, ByteIsBytes
  <2>4. rest # << >> /\ rest[1] = v
    BY <1>0, <2>3
  <2> QED
    BY <1>2, <2>1, <2>2, <2>3, <2>4 DEF DeserializeCell
<1>3. CASE cell = VarcharCell(cell.value) /\ IsASequence(cell.value)
  <2>1. PICK text : text = cell.value
    OBVIOUS
  <2>2. type.raw = "Varchar" /\ cell.raw = "Varchar"
    BY <1>3 DEF IsOfType, VarcharCell
  <2>3. PICK n : n = Len(text)
    OBVIOUS
  <2>4. PICK bytes : bytes = SerializeCell(cell)
    OBVIOUS
  <2>5. /\ n \in Nat /\ Len(bytes) = 2 + n
        /\ bytes[1] = (n \div Base) % Base /\ bytes[2] = n % Base
        /\ \A i \in 1..n : bytes[2 + i] = text[i]
    <3>1. IsASequence(text) /\ bytes = SerializeCell(VarcharCell(text))
      BY <1>3, <2>1, <2>4
    <3> QED
      BY <2>3, <3>1, VarcharIsBytes
  <2>6. n <= type.length /\ n \in 0..(Base * Base - 1)
    <3>1. ~(n > type.length)
      BY <2>1, <2>2, <2>3 DEF IsTooLong
    <3>2. PICK m : m = type.length
      OBVIOUS
    <3>3. m \in 0..(Base * Base - 1) /\ ~(n > m)
      BY <3>1, <3>2
    <3>4. n <= m /\ n \in 0..(Base * Base - 1)
      <4>1. \A k \in Int : \A x \in Nat, y \in 0..k : ~(x > y) => x <= y /\ x \in 0..k
        OBVIOUS
      <4>2. Base * Base - 1 \in Int
        <5>1. Base \in Int
          BY BaseIsInt
        <5>2. \A b \in Int : b * b - 1 \in Int
          OBVIOUS
        <5> QED
          BY <5>1, <5>2
      <4> QED
        BY <2>5, <3>3, <4>1, <4>2
    <3> QED
      BY <3>2, <3>4
  <2>7. 2 + n <= Len(rest) /\ \A i \in 1..2 + n : rest[i] = bytes[i]
    BY <2>4, <2>5
  <2>8. rest[1] * Base + rest[2] = n
    <3>1. rest[1] = bytes[1] /\ rest[2] = bytes[2]
      BY <2>5, <2>7
    <3> QED
      BY <3>1, <2>5, <2>6, TwoBytes
  <2>9. SubSeq(rest, 3, 2 + n) = text
    <3>1. \A i \in 3..2 + n : rest[i] \in B
      BY <1>0, <2>5, <2>7
    <3>2. /\ SubSeq(rest, 3, 2 + n) \in Seq(B)
          /\ Len(SubSeq(rest, 3, 2 + n)) = IF 3 <= 2 + n THEN (2 + n) - 3 + 1 ELSE 0
          /\ \A i \in 1..(2 + n) - 3 + 1 : SubSeq(rest, 3, 2 + n)[i] = rest[3 + i - 1]
      BY <2>5, <3>1, SubSeqProperties
    <3>3. PICK sub : sub = SubSeq(rest, 3, 2 + n)
      OBVIOUS
    <3>4. Len(sub) = n /\ \A i \in 1..n : sub[i] = rest[2 + i]
      BY <2>5, <3>2, <3>3
    <3>5. \A i \in 1..n : sub[i] = text[i]
      BY <2>5, <2>7, <3>4
    <3>6. sub = [i \in 1..n |-> sub[i]] /\ text = [i \in 1..n |-> text[i]]
      BY <1>3, <2>1, <2>3, <3>2, <3>3, <3>4, LenProperties DEF IsASequence
    <3> QED
      BY <3>3, <3>5, <3>6
  <2> HIDE DEF IsTooLong
  <2>10. ~(Len(rest) < 2) /\ ~(Len(rest) < 2 + n) /\ ~(n > type.length)
    BY <1>0, <2>5, <2>6, <2>7
  <2>11. VarcharCell(text) = cell
    BY <1>3, <2>1
  <2> QED
    BY <2>2, <2>4, <2>5, <2>8, <2>9, <2>10, <2>11 DEF DeserializeCell
<1> QED
  BY <1>1, <1>2, <1>3 DEF IsACell

---------------------------------------------------------------------------
(* The bytes of a row. *)

\* FiniteRecursion in a form that is easy to instantiate.
Recurs(T) ==
    \A N \in Nat : \A base \in T : \A next \in [(1..N) \X T -> T] :
        \E g \in [0..N -> T] : g[0] = base /\ \A n \in 1..N : g[n] = next[<<n, g[n - 1]>>]

LEMMA Recursion == \A T : Recurs(T)
  BY FiniteRecursion DEF Recurs

IsARow(row) == IsASequence(row) /\ \A i \in DOMAIN row : IsACell(row[i])

\* bytes[n] are the bytes of the first n cells.
Grows(bytes, row) ==
    /\ bytes[0] = << >>
    /\ \A n \in 1..Len(row) : bytes[n] = bytes[n - 1] \o SerializeCell(row[n])

BytesOf(row) == UNION {Range(SerializeCell(row[i])) : i \in DOMAIN row}

LEMMA RowsAreSequences ==
    ASSUME NEW row, IsARow(row)
    PROVE  /\ Len(row) \in Nat /\ DOMAIN row = 1..Len(row)
           /\ \A n \in 1..Len(row) : IsACell(row[n]) /\ SerializeCell(row[n]) \in Seq(BytesOf(row))
<1>1. Len(row) \in Nat /\ DOMAIN row = 1..Len(row)
  BY LenProperties DEF IsARow, IsASequence
<1>2. ASSUME NEW n \in 1..Len(row) PROVE SerializeCell(row[n]) \in Seq(BytesOf(row))
  <2>1. IsASequence(SerializeCell(row[n]))
    BY <1>1, CellIsBytes DEF IsARow
  <2>2. Range(SerializeCell(row[n])) \subseteq BytesOf(row)
    BY <1>1 DEF BytesOf
  <2> QED
    BY <2>1, <2>2, SeqMonotonic DEF IsASequence
<1> QED
  BY <1>1, <1>2 DEF IsARow

LEMMA SerializeDef ==
    ASSUME NEW row, IsARow(row)
    PROVE  \E bytes \in [0..Len(row) -> Seq(BytesOf(row))] :
              Grows(bytes, row) /\ Serialize(row) = bytes[Len(row)]
<1> DEFINE B       == BytesOf(row)
           Body(g) == [n \in 0..Len(row) |->
                         IF n = 0 THEN << >> ELSE g[n - 1] \o SerializeCell(row[n])]
           bytes   == CHOOSE g : g = Body(g)
           next    == [q \in (1..Len(row)) \X Seq(B) |-> q[2] \o SerializeCell(row[q[1]])]
<1>1. Len(row) \in Nat /\ \A n \in 1..Len(row) : SerializeCell(row[n]) \in Seq(B)
  BY RowsAreSequences
<1> HIDE DEF B
<1>2. next \in [(1..Len(row)) \X Seq(B) -> Seq(B)]
  BY <1>1
<1>3. \A n \in 1..Len(row), s \in Seq(B) : next[<<n, s>>] = s \o SerializeCell(row[n])
  OBVIOUS
<1> HIDE DEF next
<1>4. PICK g \in [0..Len(row) -> Seq(B)] :
          g[0] = << >> /\ \A n \in 1..Len(row) : g[n] = next[<<n, g[n - 1]>>]
  <2>1. << >> \in Seq(B)
    OBVIOUS
  <2> QED
    <3>1. Recurs(Seq(B))
      BY Recursion
    <3> QED
      BY <1>1, <1>2, <2>1, <3>1, Zenon DEF Recurs
<1>5. \A n \in 1..Len(row) : n - 1 \in 0..Len(row) /\ n \in 0..Len(row)
  BY <1>1
<1>6. \A n \in 1..Len(row) : g[n] = g[n - 1] \o SerializeCell(row[n])
  BY <1>3, <1>4, <1>5
<1>7. g = Body(g)
  <2>1. ASSUME NEW n \in 0..Len(row)
        PROVE  g[n] = IF n = 0 THEN << >> ELSE g[n - 1] \o SerializeCell(row[n])
    <3>1. n # 0 => n \in 1..Len(row)
      BY <1>1
    <3> QED
      BY <1>4, <1>6, <3>1
  <2> QED
    BY <2>1
<1>8. bytes = Body(bytes)
  BY <1>7
<1>9. Serialize(row) = bytes[Len(row)]
  BY DEF Serialize
<1> HIDE DEF bytes
<1>10. bytes[0] = << >> /\ \A n \in 1..Len(row) : bytes[n] = bytes[n - 1] \o SerializeCell(row[n])
  <2>1. 0 \in 0..Len(row) /\ \A n \in 1..Len(row) : n # 0
    BY <1>1
  <2> QED
    BY <1>5, <1>8, <2>1
<1> DEFINE S == {n \in Nat : n <= Len(row) => bytes[n] \in Seq(B)}
<1>11. 0 \in S
  <2>1. bytes[0] \in Seq(B)
    BY <1>10
  <2> QED
    BY <2>1
<1>12. ASSUME NEW n \in Nat, n \in S PROVE n + 1 \in S
  <2>1. CASE n + 1 <= Len(row)
    <3>1. n + 1 \in 1..Len(row) /\ (n + 1) - 1 = n /\ bytes[n] \in Seq(B)
      BY <1>1, <1>12, <2>1
    <3>2. bytes[n + 1] = bytes[n] \o SerializeCell(row[n + 1])
      BY <1>10, <3>1
    <3>3. bytes[n + 1] \in Seq(B)
      BY <1>1, <3>1, <3>2, ConcatProperties
    <3> QED
      BY <3>3
  <2> QED
    BY <2>1
<1> HIDE DEF S
<1>13. Nat \subseteq S
  BY <1>11, <1>12, SetInduction
<1>14. \A n \in 0..Len(row) : bytes[n] \in Seq(B)
  BY <1>1, <1>13 DEF S
<1>15. bytes \in [0..Len(row) -> Seq(B)]
  BY <1>8, <1>14
<1> QED
  BY <1>9, <1>10, <1>15 DEF Grows, B

---------------------------------------------------------------------------
(* A row is read back from its bytes. *)

IsASchema(schema) ==
    /\ IsASequence(schema)
    /\ \A col \in DOMAIN schema : schema[col].col_type.length \in 0..(Base * Base - 1)

LEMMA ValidRow ==
    ASSUME NEW row, NEW schema, Validate(row, schema) = "ok"
    PROVE  /\ Len(row) = Len(schema)
           /\ \A i \in DOMAIN schema : /\ IsOfType(row[i], schema[i].col_type)
                                       /\ ~IsTooLong(row[i], schema[i].col_type)
<1> DEFINE wrong   == {i \in DOMAIN schema : ~IsOfType(row[i], schema[i].col_type)}
           tooLong == {i \in DOMAIN schema \ wrong : IsTooLong(row[i], schema[i].col_type)}
<1>1. Len(row) = Len(schema) /\ wrong \cup tooLong = {}
  BY DEF Validate
<1>2. wrong = {} /\ tooLong = {}
  BY <1>1
<1> QED
  BY <1>1, <1>2

\* What is left of a sequence, and what is left of that.
LEMMA RestOfRest ==
    ASSUME NEW B, NEW s \in Seq(B), NEW m \in Nat, NEW l \in Nat, m + l <= Len(s)
    PROVE  /\ SubSeq(s, m + 1, Len(s)) \in Seq(B)
           /\ Len(SubSeq(s, m + 1, Len(s))) = Len(s) - m
           /\ \A i \in 1..Len(s) - m : SubSeq(s, m + 1, Len(s))[i] = s[m + i]
           /\ SubSeq(SubSeq(s, m + 1, Len(s)), l + 1, Len(s) - m) = SubSeq(s, m + l + 1, Len(s))
<1>0. Len(s) \in Nat /\ \A i \in 1..Len(s) : s[i] \in B
  BY LenProperties, ElementOfSeq
<1>1. ASSUME NEW k \in Nat, k <= Len(s)
      PROVE  /\ SubSeq(s, k + 1, Len(s)) \in Seq(B)
             /\ Len(SubSeq(s, k + 1, Len(s))) = Len(s) - k
             /\ \A i \in 1..Len(s) - k : SubSeq(s, k + 1, Len(s))[i] = s[k + i]
  <2>1. \A i \in k + 1..Len(s) : s[i] \in B
    BY <1>0
  <2>2. PICK sub : sub = SubSeq(s, k + 1, Len(s))
    OBVIOUS
  <2>3. /\ sub \in Seq(B)
        /\ Len(sub) = IF k + 1 <= Len(s) THEN Len(s) - (k + 1) + 1 ELSE 0
        /\ \A i \in 1..Len(s) - (k + 1) + 1 : sub[i] = s[(k + 1) + i - 1]
    BY <1>0, <2>1, <2>2, SubSeqProperties
  <2> HIDE <2>2
  <2>4. Len(sub) = Len(s) - k /\ \A i \in 1..Len(s) - k : sub[i] = s[k + i]
    BY <1>0, <1>1, <2>3
  <2> QED
    BY <2>2, <2>3, <2>4
<1>2. PICK t : t = SubSeq(s, m + 1, Len(s))
  OBVIOUS
<1>3. t \in Seq(B) /\ Len(t) = Len(s) - m /\ \A i \in 1..Len(s) - m : t[i] = s[m + i]
  BY <1>0, <1>1, <1>2
<1>4. PICK u : u = SubSeq(t, l + 1, Len(t))
  OBVIOUS
<1>5. u \in Seq(B) /\ Len(u) = Len(t) - l /\ \A i \in 1..Len(t) - l : u[i] = t[l + i]
  <2>1. \A i \in l + 1..Len(t) : t[i] \in B
    BY <1>0, <1>3, ElementOfSeq
  <2>2. /\ u \in Seq(B)
        /\ Len(u) = IF l + 1 <= Len(t) THEN Len(t) - (l + 1) + 1 ELSE 0
        /\ \A i \in 1..Len(t) - (l + 1) + 1 : u[i] = t[(l + 1) + i - 1]
    BY <1>0, <1>3, <1>4, <2>1, SubSeqProperties
  <2>3. Len(t) \in Nat /\ l <= Len(t)
    BY <1>0, <1>3
  <2> QED
    BY <2>2, <2>3
<1>6. PICK k : k = m + l
  OBVIOUS
<1>7. PICK v : v = SubSeq(s, k + 1, Len(s))
  OBVIOUS
<1>8. k \in Nat /\ k <= Len(s)
  BY <1>6
<1>9. v \in Seq(B) /\ Len(v) = Len(s) - k /\ \A i \in 1..Len(s) - k : v[i] = s[k + i]
  BY <1>1, <1>7, <1>8
<1>10. Len(u) = Len(v)
  BY <1>0, <1>3, <1>5, <1>6, <1>9
<1>11. ASSUME NEW i \in 1..Len(u) PROVE u[i] = v[i]
  <2>1. l + i \in 1..Len(s) - m /\ i \in 1..Len(t) - l /\ i \in 1..Len(s) - k
    BY <1>0, <1>3, <1>5, <1>6
  <2>2. u[i] = s[m + (l + i)]
    BY <1>3, <1>5, <2>1
  <2>3. v[i] = s[k + i]
    BY <1>9, <2>1
  <2>4. m + (l + i) = k + i
    BY <1>6, <2>1, <1>0
  <2> QED
    BY <2>2, <2>3, <2>4
<1>12. u = v
  BY <1>5, <1>9, <1>10, <1>11, SeqEqual
<1> QED
  BY <1>2, <1>3, <1>4, <1>6, <1>7, <1>12

\* The bytes of the first cells come first.
LEMMA PrefixStays ==
    ASSUME NEW row, IsARow(row),
           NEW bytes \in [0..Len(row) -> Seq(BytesOf(row))], Grows(bytes, row)
    PROVE  \A n \in 0..Len(row) :
              /\ Len(bytes[n]) <= Len(bytes[Len(row)])
              /\ \A j \in 1..Len(bytes[n]) : bytes[Len(row)][j] = bytes[n][j]
<1> DEFINE N == Len(row)
           Is(n) == /\ Len(bytes[n]) <= Len(bytes[N])
                    /\ \A j \in 1..Len(bytes[n]) : bytes[N][j] = bytes[n][j]
           S == {k \in Nat : k <= N => Is(N - k)}
<1>1. N \in Nat /\ \A n \in 1..N : SerializeCell(row[n]) \in Seq(BytesOf(row))
  BY RowsAreSequences
<1>2. \A n \in 0..N : bytes[n] \in Seq(BytesOf(row)) /\ Len(bytes[n]) \in Nat
  BY LenProperties
<1>3. ASSUME NEW n \in 1..N
      PROVE  /\ Len(bytes[n]) = Len(bytes[n - 1]) + Len(SerializeCell(row[n]))
             /\ Len(bytes[n - 1]) \in Nat /\ Len(SerializeCell(row[n])) \in Nat
             /\ Len(bytes[n - 1]) <= Len(bytes[n])
             /\ \A j \in 1..Len(bytes[n - 1]) : bytes[n][j] = bytes[n - 1][j]
  <2>0. bytes[n] = bytes[n - 1] \o SerializeCell(row[n])
    BY DEF Grows
  <2>1. n - 1 \in 0..N
    BY <1>1
  <2>2. bytes[n - 1] \in Seq(BytesOf(row)) /\ SerializeCell(row[n]) \in Seq(BytesOf(row))
    BY <1>1, <1>2, <2>1
  <2>3. Len(bytes[n - 1]) \in Nat /\ Len(SerializeCell(row[n])) \in Nat
    BY <2>2, LenProperties
  <2>4. PICK a, b : a = bytes[n - 1] /\ b = SerializeCell(row[n])
    OBVIOUS
  <2>5. /\ Len(a \o b) = Len(a) + Len(b)
        /\ \A j \in 1..Len(a) + Len(b) : (a \o b)[j] = IF j <= Len(a) THEN a[j] ELSE b[j - Len(a)]
    BY <2>2, <2>4, ConcatProperties
  <2>6. Len(a) \in Nat /\ Len(b) \in Nat
    BY <2>3, <2>4
  <2>7. /\ Len(a) <= Len(a \o b)
        /\ \A j \in 1..Len(a) : (a \o b)[j] = a[j]
    BY <2>5, <2>6
  <2> QED
    BY <2>0, <2>3, <2>4, <2>5, <2>7
<1>4. 0 \in S
  <2>1. Is(N)
    BY <1>1, <1>2
  <2>2. N - 0 = N
    BY <1>1
  <2> HIDE DEF Is, N
  <2> QED
    BY <2>1, <2>2
<1>5. ASSUME NEW k \in Nat, k \in S PROVE k + 1 \in S
  <2>1. CASE k + 1 <= N
    <3>1. PICK n : n = N - k
      OBVIOUS
    <3>2. n \in 1..N /\ n - 1 = N - (k + 1) /\ k <= N
      BY <1>1, <2>1, <3>1
    <3>3. Is(n)
      BY <1>5, <3>1, <3>2
    <3>4. n \in 0..N /\ n - 1 \in 0..N /\ N \in 0..N
      BY <1>1, <3>2
    <3>5. Len(bytes[n]) \in Nat /\ Len(bytes[N]) \in Nat
      BY <1>2, <3>4
    <3>6. Len(bytes[n - 1]) <= Len(bytes[N]) /\ Len(bytes[n - 1]) <= Len(bytes[n])
      <4>1. Len(bytes[n - 1]) <= Len(bytes[n]) /\ Len(bytes[n - 1]) \in Nat
        BY <1>3, <3>2
      <4>2. Len(bytes[n]) <= Len(bytes[N])
        BY <3>3
      <4> HIDE DEF N
      <4> QED
        BY <3>5, <4>1, <4>2
    <3>7. ASSUME NEW j \in 1..Len(bytes[n - 1]) PROVE bytes[N][j] = bytes[n - 1][j]
      <4>1. Len(bytes[n - 1]) \in Nat /\ bytes[n][j] = bytes[n - 1][j]
        BY <1>3, <3>2
      <4>2. j \in 1..Len(bytes[n])
        BY <3>5, <3>6, <4>1
      <4> QED
        BY <3>3, <4>1, <4>2
    <3>8. Is(n - 1)
      BY <3>6, <3>7
    <3> HIDE DEF Is, N
    <3> QED
      BY <3>2, <3>8
  <2> QED
    BY <2>1
<1> HIDE DEF S
<1>6. Nat \subseteq S
  BY <1>4, <1>5, SetInduction
<1>7. ASSUME NEW n \in 0..N PROVE Is(n)
  <2>1. N - n \in Nat /\ N - n <= N /\ N - (N - n) = n
    BY <1>1
  <2>2. N - n \in S
    BY <1>6, <2>1
  <2> HIDE DEF Is, N
  <2> QED
    BY <2>1, <2>2 DEF S
<1> QED
  BY <1>7

LEMMA RowReadBack ==
    ASSUME NEW row, IsARow(row), NEW schema, IsASchema(schema), Validate(row, schema) = "ok"
    PROVE  Deserialize(Serialize(row), schema) = Ok(row)
<1> DEFINE B == BytesOf(row)
           N == Len(row)
<1>1. PICK bytes \in [0..N -> Seq(B)] : Grows(bytes, row) /\ Serialize(row) = bytes[N]
  BY SerializeDef
<1>2. PICK all : all = bytes[N]
  OBVIOUS
<1> DEFINE Size(n) == Len(SerializeCell(row[n]))
           Rest(n) == SubSeq(all, Len(bytes[n]) + 1, Len(all))
           Step(n, before) ==
               IF ~before.ok THEN Err
               ELSE LET st   == before.value
                        next == DeserializeCell(st.rest, schema[n].col_type)
                    IN IF ~next.ok THEN Err
                       ELSE Ok([row  |-> Append(st.row, next.value.cell),
                                rest |-> SubSeq(st.rest, next.value.size + 1, Len(st.rest))])
           Body(f) == [n \in 0..Len(schema) |->
                         IF n = 0 THEN Ok([row |-> << >>, rest |-> all]) ELSE Step(n, f[n - 1])]
           read    == CHOOSE f : f = Body(f)
           g       == [n \in 0..N |-> Ok([row |-> SubSeq(row, 1, n), rest |-> Rest(n)])]
<1>3. N \in Nat /\ DOMAIN row = 1..N
      /\ \A n \in 1..N : IsACell(row[n]) /\ SerializeCell(row[n]) \in Seq(B)
  BY RowsAreSequences
<1>4. Len(schema) = N /\ DOMAIN schema = 1..N
      /\ \A n \in 1..N : /\ IsOfType(row[n], schema[n].col_type)
                         /\ ~IsTooLong(row[n], schema[n].col_type)
                         /\ schema[n].col_type.length \in 0..(Base * Base - 1)
  <2>1. Len(schema) = N
    BY ValidRow
  <2>2. DOMAIN schema = 1..Len(schema)
    BY LenProperties DEF IsASchema, IsASequence
  <2>3. \A n \in DOMAIN schema : /\ IsOfType(row[n], schema[n].col_type)
                                 /\ ~IsTooLong(row[n], schema[n].col_type)
    BY ValidRow
  <2>4. \A n \in DOMAIN schema : schema[n].col_type.length \in 0..(Base * Base - 1)
    BY DEF IsASchema
  <2> HIDE DEF N
  <2> QED
    BY <2>1, <2>2, <2>3, <2>4
<1>5. all \in Seq(B) /\ Len(all) \in Nat
  BY <1>1, <1>2, <1>3, LenProperties
<1>6. \A n \in 0..N : /\ Len(bytes[n]) \in Nat /\ Len(bytes[n]) <= Len(all)
                      /\ \A j \in 1..Len(bytes[n]) : all[j] = bytes[n][j]
  <2>1. \A n \in 0..N : Len(bytes[n]) \in Nat
    BY <1>1, LenProperties
  <2>2. \A n \in 0..N : /\ Len(bytes[n]) <= Len(bytes[N])
                        /\ \A j \in 1..Len(bytes[n]) : bytes[N][j] = bytes[n][j]
    BY <1>1, PrefixStays
  <2> QED
    BY <1>2, <2>1, <2>2
<1>7. ASSUME NEW n \in 1..N
      PROVE  /\ Size(n) \in Nat /\ Len(bytes[n]) = Len(bytes[n - 1]) + Size(n)
             /\ n - 1 \in 0..N /\ n \in 0..N
             /\ \A j \in 1..Size(n) : all[Len(bytes[n - 1]) + j] = SerializeCell(row[n])[j]
  <2>1. n - 1 \in 0..N /\ n \in 0..N
    BY <1>3
  <2>2. bytes[n] = bytes[n - 1] \o SerializeCell(row[n])
    BY <1>1 DEF Grows
  <2>3. PICK a, b : a = bytes[n - 1] /\ b = SerializeCell(row[n])
    OBVIOUS
  <2>4. a \in Seq(B) /\ b \in Seq(B)
    BY <1>1, <1>3, <2>1, <2>3
  <2>5. /\ Len(a \o b) = Len(a) + Len(b)
        /\ \A j \in 1..Len(a) + Len(b) : (a \o b)[j] = IF j <= Len(a) THEN a[j] ELSE b[j - Len(a)]
    BY <2>4, ConcatProperties
  <2>6. Len(a) \in Nat /\ Len(b) \in Nat
    BY <2>4, LenProperties
  <2>7. \A j \in 1..Len(b) : (a \o b)[Len(a) + j] = b[j]
    <3>1. ASSUME NEW j \in 1..Len(b) PROVE (a \o b)[Len(a) + j] = b[j]
      <4>1. Len(a) + j \in 1..Len(a) + Len(b) /\ ~(Len(a) + j <= Len(a)) /\ (Len(a) + j) - Len(a) = j
        BY <2>6
      <4> QED
        BY <2>5, <4>1
    <3> QED
      BY <3>1
  <2>8. \A j \in 1..Len(b) : Len(a) + j \in 1..Len(bytes[n])
    <3>1. Len(bytes[n]) = Len(a) + Len(b)
      BY <2>2, <2>3, <2>5
    <3>2. \A j \in 1..Len(b) : Len(a) + j \in 1..(Len(a) + Len(b))
      BY <2>6
    <3> QED
      BY <3>1, <3>2
  <2>9. \A j \in 1..Len(bytes[n]) : all[j] = bytes[n][j]
    BY <1>6, <2>1
  <2>10. Size(n) = Len(b) /\ Len(bytes[n]) = Len(a) + Len(b) /\ Len(bytes[n - 1]) = Len(a)
    BY <2>2, <2>3, <2>5
  <2>11. ASSUME NEW j \in 1..Len(b) PROVE all[Len(a) + j] = b[j]
    <3>1. all[Len(a) + j] = bytes[n][Len(a) + j]
      BY <2>8, <2>9, Zenon
    <3>2. bytes[n] = a \o b
      BY <2>2, <2>3, Zenon
    <3> QED
      BY <2>7, <3>1, <3>2, Zenon
  <2> HIDE DEF Size
  <2> QED
    BY <2>1, <2>3, <2>6, <2>10, <2>11, Zenon
<1>8. ASSUME NEW n \in 1..N
      PROVE  DeserializeCell(Rest(n - 1), schema[n].col_type) = Ok([cell |-> row[n], size |-> Size(n)])
  <2>1. PICK m : m = Len(bytes[n - 1])
    OBVIOUS
  <2>2. m \in Nat /\ Size(n) \in Nat /\ m + Size(n) <= Len(all)
    BY <1>6, <1>7, <2>1
  <2>3. PICK rest : rest = SubSeq(all, m + 1, Len(all))
    OBVIOUS
  <2>4. /\ rest \in Seq(B) /\ Len(rest) = Len(all) - m
        /\ \A i \in 1..Len(all) - m : rest[i] = all[m + i]
    BY <1>5, <2>2, <2>3, RestOfRest
  <2>5. Size(n) <= Len(rest)
    <3> HIDE DEF Size
    <3> QED
      BY <1>5, <2>2, <2>4
  <2>6. \A i \in 1..Size(n) : rest[i] = SerializeCell(row[n])[i]
    <3>1. \A i \in 1..Size(n) : i \in 1..Len(all) - m
      <4> HIDE DEF Size
      <4> QED
        BY <1>5, <2>2
    <3>2. \A i \in 1..Size(n) : all[m + i] = SerializeCell(row[n])[i]
      BY <1>7, <2>1
    <3> QED
      BY <2>4, <3>1, <3>2
  <2>7. DeserializeCell(rest, schema[n].col_type) = Ok([cell |-> row[n], size |-> Size(n)])
    <3>1. PICK cell, type : cell = row[n] /\ type = schema[n].col_type
      OBVIOUS
    <3>2. /\ IsACell(cell) /\ IsOfType(cell, type) /\ ~IsTooLong(cell, type)
          /\ type.length \in 0..(Base * Base - 1)
      BY <1>3, <1>4, <3>1
    <3>3. Len(SerializeCell(cell)) <= Len(rest)
          /\ \A i \in 1..Len(SerializeCell(cell)) : rest[i] = SerializeCell(cell)[i]
      BY <2>5, <2>6, <3>1
    <3> QED
      BY <2>4, <3>1, <3>2, <3>3, CellReadBack
  <2> QED
    BY <2>1, <2>3, <2>7
<1>9. ASSUME NEW n \in 1..N PROVE Step(n, g[n - 1]) = g[n]
  <2>1. n - 1 \in 0..N /\ n \in 0..N
    BY <1>7
  <2>2. g[n - 1] = Ok([row |-> SubSeq(row, 1, n - 1), rest |-> Rest(n - 1)])
    BY <2>1
  <2>3. g[n] = Ok([row |-> SubSeq(row, 1, n), rest |-> Rest(n)])
    BY <2>1
  <2>4. Append(SubSeq(row, 1, n - 1), row[n]) = SubSeq(row, 1, n)
    <3>1. PICK V : row \in Seq(V)
      BY DEF IsARow, IsASequence
    <3>2. 1 \in 1..n /\ n \in 1..Len(row)
      BY <1>3
    <3>3. SubSeq(row, 1, n) = SubSeq(row, 1, n - 1) \o <<row[n]>>
      <4>1. 1 \in 1..Len(row)
        BY <3>2, <1>3
      <4> QED
        BY <3>1, <3>2, <4>1, SubSeqRecursiveSecond
    <3>4. SubSeq(row, 1, n - 1) \in Seq(V)
      BY <1>3, <3>1
    <3>5. row[n] \in V
      BY <3>1, <3>2, ElementOfSeq
    <3> QED
      BY <3>3, <3>4, <3>5
  <2>5. SubSeq(Rest(n - 1), Size(n) + 1, Len(Rest(n - 1))) = Rest(n)
    <3>1. PICK m, l : m = Len(bytes[n - 1]) /\ l = Size(n)
      OBVIOUS
    <3>2. m \in Nat /\ l \in Nat /\ m + l <= Len(all) /\ Len(bytes[n]) = m + l
      BY <1>6, <1>7, <3>1
    <3>3. /\ Len(SubSeq(all, m + 1, Len(all))) = Len(all) - m
          /\ SubSeq(SubSeq(all, m + 1, Len(all)), l + 1, Len(all) - m) = SubSeq(all, m + l + 1, Len(all))
      BY <1>5, <3>2, RestOfRest
    <3> QED
      BY <3>1, <3>2, <3>3
  <2>6. PICK st, next :
            /\ st = [row |-> SubSeq(row, 1, n - 1), rest |-> Rest(n - 1)]
            /\ next = [cell |-> row[n], size |-> Size(n)]
    OBVIOUS
  <2>7. PICK before : before = g[n - 1]
    OBVIOUS
  <2> HIDE DEF g, Rest, Size, Step
  <2>8. before.ok = TRUE /\ before.value = st
    BY <2>2, <2>6, <2>7 DEF Ok
  <2>9. st.row = SubSeq(row, 1, n - 1) /\ st.rest = Rest(n - 1)
        /\ next.cell = row[n] /\ next.size = Size(n)
    BY <2>6
  <2>10. PICK answer : answer = DeserializeCell(st.rest, schema[n].col_type)
    OBVIOUS
  <2>11. answer.ok = TRUE /\ answer.value = next
    <3>1. DeserializeCell(Rest(n - 1), schema[n].col_type) = Ok(next)
      BY <1>8, <2>6
    <3>2. answer = Ok(next)
      BY <2>9, <2>10, <3>1
    <3> QED
      BY <3>2 DEF Ok
  <2>12. Step(n, before) = Ok([row  |-> Append(st.row, next.cell),
                               rest |-> SubSeq(st.rest, next.size + 1, Len(st.rest))])
    BY <2>8, <2>10, <2>11 DEF Step
  <2> QED
    BY <2>3, <2>4, <2>5, <2>7, <2>9, <2>12
<1>10. g[0] = Ok([row |-> << >>, rest |-> all])
  <2>1. SubSeq(row, 1, 0) = << >>
    BY SubSeqEmpty
  <2>2. Rest(0) = all
    <3>1. Len(bytes[0]) = 0
      BY <1>1 DEF Grows
    <3> QED
      BY <1>5, <3>1, SubSeqFull
  <2>3. 0 \in 0..N
    BY <1>3
  <2> HIDE DEF Rest
  <2> QED
    BY <2>1, <2>2, <2>3
<1>11. g = Body(g)
  <2>1. ASSUME NEW n \in 0..N
        PROVE  g[n] = IF n = 0 THEN Ok([row |-> << >>, rest |-> all]) ELSE Step(n, g[n - 1])
    <3>1. n # 0 => n \in 1..N
      BY <1>3
    <3> HIDE DEF g, Step
    <3> QED
      BY <1>9, <1>10, <3>1
  <2> HIDE DEF Step, Rest
  <2> QED
    BY <1>4, <2>1
<1>12. read = Body(read)
  <2> HIDE DEF Body, g
  <2> QED
    BY <1>11
<1>13. Deserialize(Serialize(row), schema)
           = IF read[Len(schema)].ok THEN Ok(read[Len(schema)].value.row) ELSE Err
  BY <1>1, <1>2 DEF Deserialize
<1> HIDE DEF read, g
<1>14. read[0] = Ok([row |-> << >>, rest |-> all]) /\ \A n \in 1..N : read[n] = Step(n, read[n - 1])
  <2>1. 0 \in 0..N /\ \A n \in 1..N : n # 0 /\ n \in 0..N
    BY <1>3
  <2> HIDE DEF Step
  <2> QED
    BY <1>4, <1>12, <2>1
<1> HIDE DEF Step
<1> DEFINE S == {n \in Nat : n <= N => read[n] = g[n]}
<1>15. 0 \in S
  BY <1>10, <1>14
<1>16. ASSUME NEW n \in Nat, n \in S PROVE n + 1 \in S
  <2>1. CASE n + 1 <= N
    <3>1. n + 1 \in 1..N /\ (n + 1) - 1 = n /\ read[n] = g[n]
      BY <1>3, <1>16, <2>1
    <3> QED
      BY <1>9, <1>14, <3>1
  <2> QED
    BY <2>1
<1> HIDE DEF S
<1>17. N \in S
  BY <1>3, <1>15, <1>16, SetInduction
<1>18. read[N] = g[N]
  BY <1>3, <1>17 DEF S
<1>19. g[N] = Ok([row |-> row, rest |-> Rest(N)])
  <2>1. SubSeq(row, 1, N) = row
    BY SubSeqFull DEF IsARow, IsASequence
  <2>2. N \in 0..N
    BY <1>3
  <2> QED
    BY <2>1, <2>2 DEF g
<1>20. g[N].ok = TRUE /\ g[N].value.row = row
  BY <1>19 DEF Ok
<1>21. read[Len(schema)] = g[N]
  BY <1>4, <1>18
<1> QED
  BY <1>13, <1>20, <1>21

---------------------------------------------------------------------------
(* Slots, pages and the records on them.                                   *)

Slot ==
    {s \in [row : Rows \cup {NoRow}, length : Nat, deleted : BOOLEAN] :
        IF s.deleted THEN s.row = NoRow ELSE s.row \in Rows /\ s.length = RowLength[s.row]}

\* Slot i of a page has a row, and a row is at this page and slot.
OnPage(p, i, row)  == i \in 1..Len(p) /\ ~p[i].deleted /\ p[i].row = row
At(h, id, i, row)  == id \in 1..Len(h) /\ OnPage(h[id], i, row)

Record     == [page : Nat, slot : Nat, row : Rows]
Records(h) == {r \in Record : At(h, r.page, r.slot, r.row)}

Address(r)       == [page |-> r.page, slot |-> r.slot]
IsAt(r, id, i)   == r.page = id /\ r.slot = i
RecordOf(id, i, row) == [page |-> id, slot |-> i, row |-> row]

LEMMA RowLengths ==
    ASSUME NEW row \in Rows
    PROVE  RowLength[row] \in Nat /\ RowLength[row] > 0 /\ RowLength[row] <= MaxTuple
<1>1. RowLength[row] \in 1..MaxTuple
  BY TableAssumption
<1>2. MaxTuple \in Int
  BY HeapPageAssumption DEF MaxTuple, SlotSize
<1> QED
  BY <1>1, <1>2

LEMMA LiveIsSlot ==
    ASSUME NEW row \in Rows
    PROVE  /\ Live(row) \in Slot /\ Live(row).row = row /\ ~Live(row).deleted
           /\ Live(row).length = RowLength[row]
<1>1. RowLength[row] \in Nat
  BY RowLengths
<1> QED
  BY <1>1 DEF Live, Slot

LEMMA PageFacts ==
    ASSUME NEW p \in Seq(Slot)
    PROVE  /\ Len(p) \in Nat /\ DOMAIN p = 1..Len(p)
           /\ \A i \in 1..Len(p) :
                 /\ p[i] \in Slot /\ p[i].length \in Nat /\ p[i].deleted \in BOOLEAN
                 /\ p[i].deleted <=> p[i].row = NoRow
                 /\ ~p[i].deleted <=> p[i].row \in Rows
                 /\ ~p[i].deleted => p[i].length = RowLength[p[i].row]
<1>1. Len(p) \in Nat /\ DOMAIN p = 1..Len(p) /\ \A i \in 1..Len(p) : p[i] \in Slot
  BY LenProperties, ElementOfSeq
<1>2. NoRow \notin Rows
  BY TableAssumption
<1>3. ASSUME NEW s \in Slot
      PROVE  /\ s.length \in Nat /\ s.deleted \in BOOLEAN
             /\ s.deleted <=> s.row = NoRow
             /\ ~s.deleted <=> s.row \in Rows
             /\ ~s.deleted => s.length = RowLength[s.row]
  BY <1>2 DEF Slot
<1> QED
  BY <1>1, <1>3

---------------------------------------------------------------------------
(* The bytes of the rows on a page.                                        *)

\* sum is what SumOfLengths adds up, slot by slot.
AddsUp(sum, p) ==
    /\ sum \in [0..Len(p) -> Nat] /\ sum[0] = 0
    /\ \A i \in 1..Len(p) : sum[i] = sum[i - 1] + p[i].length
    /\ SumOfLengths(p) = sum[Len(p)]

LEMMA SumDef ==
    ASSUME NEW p \in Seq(Slot)
    PROVE  \E sum : AddsUp(sum, p)
<1> DEFINE Body(g) == [i \in 0..Len(p) |-> IF i = 0 THEN 0 ELSE g[i - 1] + p[i].length]
           sum     == CHOOSE g : g = Body(g)
           next    == [q \in (1..Len(p)) \X Nat |-> q[2] + p[q[1]].length]
<1>1. Len(p) \in Nat /\ \A i \in 1..Len(p) : p[i].length \in Nat
  BY PageFacts
<1>2. next \in [(1..Len(p)) \X Nat -> Nat]
  BY <1>1
<1>3. \A i \in 1..Len(p), n \in Nat : next[<<i, n>>] = n + p[i].length
  OBVIOUS
<1> HIDE DEF next
<1>4. PICK g \in [0..Len(p) -> Nat] : g[0] = 0 /\ \A i \in 1..Len(p) : g[i] = next[<<i, g[i - 1]>>]
  <2>1. 0 \in Nat
    OBVIOUS
  <2> QED
    <3>1. Recurs(Nat)
      BY Recursion
    <3> QED
      BY <1>1, <1>2, <2>1, <3>1, Zenon DEF Recurs
<1>5. \A i \in 1..Len(p) : i - 1 \in 0..Len(p) /\ i \in 0..Len(p)
  BY <1>1
<1>6. \A i \in 1..Len(p) : g[i] = g[i - 1] + p[i].length
  BY <1>3, <1>4, <1>5
<1>7. g = Body(g)
  <2>1. ASSUME NEW i \in 0..Len(p) PROVE g[i] = IF i = 0 THEN 0 ELSE g[i - 1] + p[i].length
    <3>1. i # 0 => i \in 1..Len(p)
      BY <1>1
    <3> QED
      BY <1>4, <1>6, <3>1
  <2> QED
    BY <1>4, <2>1
<1>8. sum = Body(sum)
  <2> HIDE DEF Body
  <2> QED
    BY <1>7
<1>9. SumOfLengths(p) = sum[Len(p)]
  BY DEF SumOfLengths
<1> HIDE DEF sum
<1>10. sum[0] = 0 /\ \A i \in 1..Len(p) : sum[i] = sum[i - 1] + p[i].length
  <2>1. 0 \in 0..Len(p) /\ \A i \in 1..Len(p) : i \in 0..Len(p) /\ i # 0
    BY <1>1
  <2> QED
    BY <1>8, <2>1
<1>11. \A i \in 0..Len(p) : sum[i] \in Nat
  <2> DEFINE S == {i \in Nat : i <= Len(p) => sum[i] \in Nat}
  <2>1. 0 \in S
    BY <1>10
  <2>2. ASSUME NEW i \in Nat, i \in S PROVE i + 1 \in S
    <3>1. CASE i + 1 <= Len(p)
      <4>1. i + 1 \in 1..Len(p) /\ (i + 1) - 1 = i /\ i <= Len(p)
        BY <1>1, <3>1
      <4>2. sum[i + 1] = sum[i] + p[i + 1].length
        BY <1>10, <4>1
      <4> QED
        BY <1>1, <2>2, <4>1, <4>2
    <3> QED
      BY <3>1
  <2> HIDE DEF S
  <2>3. Nat \subseteq S
    BY <2>1, <2>2, SetInduction
  <2> QED
    BY <1>1, <2>3 DEF S
<1>12. sum \in [0..Len(p) -> Nat]
  BY <1>8, <1>11
<1> QED
  BY <1>9, <1>10, <1>12 DEF AddsUp

\* Up to the last of them.
LEMMA SumsAreEqual ==
    ASSUME NEW p \in Seq(Slot), NEW q \in Seq(Slot), NEW f, AddsUp(f, p), NEW g, AddsUp(g, q),
           NEW n \in Nat, n <= Len(p), n <= Len(q),
           \A i \in 1..n : p[i].length = q[i].length
    PROVE  f[n] = g[n]
<1> DEFINE S == {i \in Nat : i <= n => f[i] = g[i]}
<1>1. 0 \in S
  BY DEF AddsUp
<1>2. ASSUME NEW i \in Nat, i \in S PROVE i + 1 \in S
  <2>1. CASE i + 1 <= n
    <3>1. i + 1 \in 1..n /\ (i + 1) - 1 = i /\ i <= n
      BY <2>1
    <3>2. i + 1 \in 1..Len(p) /\ i + 1 \in 1..Len(q)
      BY <3>1, PageFacts
    <3>3. f[i + 1] = f[i] + p[i + 1].length
      BY <3>1, <3>2 DEF AddsUp
    <3>4. g[i + 1] = g[i] + q[i + 1].length
      BY <3>1, <3>2 DEF AddsUp
    <3> QED
      BY <1>2, <3>1, <3>3, <3>4
  <2> QED
    BY <2>1
<1> HIDE DEF S
<1>3. Nat \subseteq S
  BY <1>1, <1>2, SetInduction
<1> QED
  BY <1>3 DEF S

LEMMA SumIsNat ==
    ASSUME NEW p \in Seq(Slot)
    PROVE  SumOfLengths(p) \in Nat
<1>1. PICK f : AddsUp(f, p)
  BY SumDef
<1> QED
  BY <1>1, PageFacts DEF AddsUp

LEMMA SumOfNone == SumOfLengths(<< >>) = 0
<1>1. << >> \in Seq(Slot) /\ Len(<< >>) = 0
  OBVIOUS
<1>2. PICK f : AddsUp(f, << >>)
  BY <1>1, SumDef
<1> QED
  BY <1>1, <1>2 DEF AddsUp

LEMMA SumOfSame ==
    ASSUME NEW p \in Seq(Slot), NEW q \in Seq(Slot), Len(q) = Len(p),
           \A i \in 1..Len(p) : q[i].length = p[i].length
    PROVE  SumOfLengths(q) = SumOfLengths(p)
<1>1. PICK f : AddsUp(f, p)
  BY SumDef
<1>2. PICK g : AddsUp(g, q)
  BY SumDef
<1>3. f[Len(p)] = g[Len(p)]
  <2>1. PICK n : n = Len(p)
    OBVIOUS
  <2>2. n \in Nat /\ n <= Len(p) /\ n <= Len(q) /\ \A i \in 1..n : p[i].length = q[i].length
    BY <2>1, PageFacts
  <2>3. f[n] = g[n]
    BY <1>1, <1>2, <2>2, SumsAreEqual
  <2> QED
    BY <2>1, <2>3
<1> QED
  BY <1>1, <1>2, <1>3 DEF AddsUp

LEMMA SumOfAppended ==
    ASSUME NEW p \in Seq(Slot), NEW q \in Seq(Slot), Len(q) = Len(p) + 1,
           \A i \in 1..Len(p) : q[i] = p[i]
    PROVE  SumOfLengths(q) = SumOfLengths(p) + q[Len(p) + 1].length
<1>1. Len(p) \in Nat
  BY PageFacts
<1>2. PICK f : AddsUp(f, p)
  BY SumDef
<1>3. PICK g : AddsUp(g, q)
  BY <1>1, SumDef
<1>4. PICK n : n = Len(p)
  OBVIOUS
<1>5. f[n] = g[n]
  <2>1. n \in Nat /\ n <= Len(p) /\ n <= Len(q) /\ \A i \in 1..n : p[i].length = q[i].length
    BY <1>1, <1>4
  <2> QED
    BY <1>2, <1>3, <2>1, SumsAreEqual
<1>6. g[n + 1] = g[n] + q[n + 1].length
  <2>1. n + 1 \in 1..Len(q) /\ (n + 1) - 1 = n
    BY <1>1, <1>4
  <2> QED
    BY <1>1, <1>3, <1>4, <2>1 DEF AddsUp
<1> QED
  BY <1>1, <1>2, <1>3, <1>4, <1>5, <1>6 DEF AddsUp

LEMMA SumOfReplaced ==
    ASSUME NEW p \in Seq(Slot), NEW i \in 1..Len(p), NEW q \in Seq(Slot), Len(q) = Len(p),
           \A j \in 1..Len(p) : j # i => q[j] = p[j]
    PROVE  SumOfLengths(q) = SumOfLengths(p) + q[i].length - p[i].length
<1>0. PICK s : s = q[i]
  OBVIOUS
<1>1. Len(p) \in Nat
  BY PageFacts
<1>2. PICK f : AddsUp(f, p)
  BY SumDef
<1>3. PICK g : AddsUp(g, q)
  BY <1>1, SumDef
<1>4. p[i].length \in Nat /\ s.length \in Nat /\ \A j \in 1..Len(p) : p[j].length \in Nat
  BY <1>0, PageFacts
<1>5. i - 1 \in Nat /\ i - 1 <= Len(p) /\ i - 1 <= Len(q) /\ i \in Nat
  BY <1>1
<1>6. f[i - 1] = g[i - 1]
  <2>1. ASSUME NEW j \in 1..(i - 1) PROVE p[j].length = q[j].length
    <3>1. j \in 1..Len(p) /\ j # i
      BY <1>1, <1>5
    <3> QED
      BY <3>1
  <2>2. PICK n : n = i - 1
    OBVIOUS
  <2>3. n \in Nat /\ n <= Len(p) /\ n <= Len(q) /\ \A j \in 1..n : p[j].length = q[j].length
    BY <1>5, <2>1, <2>2
  <2>4. f[n] = g[n]
    BY <1>2, <1>3, <2>3, SumsAreEqual
  <2> QED
    BY <2>2, <2>4
<1>7. \A k \in 0..Len(p) : f[k] \in Nat /\ g[k] \in Nat
  BY <1>1, <1>2, <1>3 DEF AddsUp
<1> DEFINE S == {k \in Nat : (i <= k /\ k <= Len(p)) => g[k] = f[k] + s.length - p[i].length}
<1>8. 0 \in S
  <2>1. ~(i <= 0)
    BY <1>1
  <2> QED
    BY <2>1
<1>9. ASSUME NEW k \in Nat, k \in S PROVE k + 1 \in S
  <2>1. CASE i <= k + 1 /\ k + 1 <= Len(p)
    <3>1. k + 1 \in 1..Len(p) /\ (k + 1) - 1 = k /\ k <= Len(p) /\ k \in 0..Len(p)
      BY <1>1, <2>1
    <3>2. f[k + 1] = f[k] + p[k + 1].length /\ g[k + 1] = g[k] + q[k + 1].length
      BY <1>1, <1>2, <1>3, <3>1 DEF AddsUp
    <3>3. PICK a, b, c, d, e :
              a = f[k] /\ b = g[k] /\ c = p[k + 1].length /\ d = s.length /\ e = p[i].length
      OBVIOUS
    <3>4. a \in Nat /\ b \in Nat /\ c \in Nat /\ d \in Nat /\ e \in Nat
      BY <1>4, <1>7, <3>1, <3>3
    <3>5. f[k + 1] = a + c
      BY <3>2, <3>3
    <3>6. g[k + 1] = (a + c) + d - e
      <4>1. CASE k + 1 = i
        <5>1. k = i - 1 /\ c = e /\ q[k + 1].length = d
          BY <1>0, <3>3, <4>1
        <5>2. b = a
          BY <1>6, <3>3, <5>1
        <5>3. g[k + 1] = a + d
          BY <3>2, <3>3, <5>1, <5>2
        <5> HIDE <3>1, <3>2, <3>3
        <5> QED
          BY <3>4, <5>1, <5>3
      <4>2. CASE k + 1 # i
        <5>1. b = a + d - e
          <6>1. i <= k
            BY <1>5, <2>1, <4>2
          <6> QED
            BY <1>9, <3>1, <3>3, <6>1
        <5>2. q[k + 1].length = c
          BY <3>1, <3>3, <4>2
        <5>3. g[k + 1] = b + c
          BY <3>2, <3>3, <5>2
        <5> HIDE <3>1, <3>2, <3>3
        <5> QED
          BY <3>4, <5>1, <5>3
      <4> QED
        BY <4>1, <4>2
    <3>7. g[k + 1] = f[k + 1] + s.length - p[i].length
      BY <3>3, <3>5, <3>6
    <3> QED
      BY <3>7
  <2> QED
    BY <2>1
<1> HIDE DEF S
<1>10. Nat \subseteq S
  BY <1>8, <1>9, SetInduction
<1>11. g[Len(p)] = f[Len(p)] + s.length - p[i].length
  <2>1. Len(p) \in S /\ i <= Len(p)
    BY <1>1, <1>10
  <2> QED
    BY <2>1 DEF S
<1> QED
  BY <1>0, <1>1, <1>2, <1>3, <1>11 DEF AddsUp

LEMMA SlotForIs ==
    ASSUME NEW p \in Seq(Slot), NEW len \in Nat, NEW i, i = SlotFor(p, len)
    PROVE  \/ i \in 1..Len(p) /\ p[i].deleted /\ p[i].length = len
           \/ /\ i \in 1..Len(p) /\ p[i].deleted /\ p[i].length > len
              /\ \A j \in 1..Len(p) : p[j].deleted => p[j].length # len
           \/ /\ i = Len(p) + 1
              /\ \A j \in 1..Len(p) : p[j].deleted => p[j].length < len
<1> DEFINE exact  == {j \in Deleted(p) : p[j].length = len}
           longer == {j \in Deleted(p) : p[j].length > len}
<1>1. Len(p) \in Nat /\ DOMAIN p = 1..Len(p) /\ \A j \in 1..Len(p) : p[j].length \in Nat
  BY PageFacts
<1>2. exact \in SUBSET Nat /\ longer \in SUBSET Nat
  BY <1>1 DEF Deleted
<1>3. i = IF exact # {} THEN Min(exact) ELSE IF longer # {} THEN Min(longer) ELSE Len(p) + 1
  BY DEF SlotFor
<1>4. exact # {} => Min(exact) \in exact
  <2> HIDE DEF exact
  <2> QED
    BY <1>2, MinIsLeast
<1>5. longer # {} => Min(longer) \in longer
  <2> HIDE DEF longer
  <2> QED
    BY <1>2, MinIsLeast
<1>6. CASE exact # {}
  <2>1. i \in exact
    BY <1>3, <1>4, <1>6
  <2> QED
    BY <1>1, <2>1 DEF Deleted
<1>7. CASE exact = {} /\ longer # {}
  <2>1. i \in longer
    BY <1>3, <1>5, <1>7
  <2>2. \A j \in 1..Len(p) : p[j].deleted => p[j].length # len
    BY <1>1, <1>7 DEF Deleted
  <2> QED
    BY <1>1, <2>1, <2>2 DEF Deleted
<1>8. CASE exact = {} /\ longer = {}
  <2>1. i = Len(p) + 1
    BY <1>3, <1>8
  <2>2. \A j \in 1..Len(p) : p[j].deleted => ~(p[j].length = len) /\ ~(p[j].length > len)
    BY <1>1, <1>8 DEF Deleted
  <2>3. \A j \in 1..Len(p) : p[j].deleted => p[j].length < len
    BY <1>1, <2>2
  <2> QED
    BY <2>1, <2>3
<1> QED
  BY <1>6, <1>7, <1>8

\* q is the page p with a row more, in slot i.
PutAt(p, q, i, row) ==
    /\ q \in Seq(Slot) /\ i \in Nat
    /\ \A x : ~OnPage(p, i, x)
    /\ \A j, x : OnPage(q, j, x) <=> (OnPage(p, j, x) \/ (j = i /\ x = row))

\* insert_record puts its row into a slot that had none and leaves the others.
LEMMA RecordInserted ==
    ASSUME NEW p \in Seq(Slot), NEW row \in Rows,
           NEW q, q = WithRecord(p, Live(row)), NEW i, i = SlotFor(p, RowLength[row])
    PROVE  PutAt(p, q, i, row)
<1> DEFINE len  == RowLength[row]
           live == Live(row)
           rest == [p[i] EXCEPT !.length = @ - len]
<1>1. Len(p) \in Nat /\ \A j \in 1..Len(p) : p[j] \in Slot /\ p[j].length \in Nat
  BY PageFacts
<1>2. len \in Nat /\ len > 0
  BY RowLengths
<1>3. live \in Slot /\ live.row = row /\ ~live.deleted /\ live.length = len
  BY LiveIsSlot
<1>4. q = IF i > Len(p) THEN Append(p, live)
          ELSE IF p[i].length = len THEN [p EXCEPT ![i] = live]
          ELSE Append([p EXCEPT ![i] = live], [p[i] EXCEPT !.length = @ - len])
  BY <1>3 DEF WithRecord
<1> HIDE DEF live
<1>5. \/ i \in 1..Len(p) /\ p[i].deleted /\ p[i].length = len
      \/ i \in 1..Len(p) /\ p[i].deleted /\ p[i].length > len
      \/ i = Len(p) + 1
  <2> HIDE DEF len
  <2> QED
    BY <1>2, SlotForIs DEF len
<1> HIDE DEF len
<1>6. CASE i = Len(p) + 1
  <2>1. q = Append(p, live)
    BY <1>1, <1>4, <1>6
  <2>2. /\ q \in Seq(Slot) /\ Len(q) = Len(p) + 1 /\ q[i] = live
        /\ \A j \in 1..Len(p) : q[j] = p[j]
    BY <1>1, <1>3, <1>6, <2>1
  <2>3. \A j : j \in 1..Len(q) <=> (j \in 1..Len(p) \/ j = i)
    BY <1>1, <1>6, <2>2
  <2>4. i \notin 1..Len(p) /\ i \in Nat
    BY <1>1, <1>6
  <2> QED
    BY <1>3, <2>2, <2>3, <2>4 DEF OnPage, PutAt
<1>7. CASE i \in 1..Len(p) /\ p[i].deleted /\ p[i].length = len
  <2>1. q = [p EXCEPT ![i] = live]
    BY <1>1, <1>4, <1>7
  <2>2. /\ q \in Seq(Slot) /\ Len(q) = Len(p) /\ q[i] = live
        /\ \A j \in 1..Len(p) : j # i => q[j] = p[j]
    BY <1>1, <1>3, <1>7, <2>1, ExceptSeq
  <2>3. i \in Nat
    BY <1>1, <1>7
  <2> QED
    BY <1>3, <1>7, <2>2, <2>3 DEF OnPage, PutAt
<1>8. CASE i \in 1..Len(p) /\ p[i].deleted /\ p[i].length > len
  <2>1. q = Append([p EXCEPT ![i] = live], rest)
    BY <1>1, <1>2, <1>4, <1>8
  <2>2. rest \in Slot /\ rest.deleted
    <3>1. p[i].length - len \in Nat
      BY <1>1, <1>2, <1>8
    <3>2. p[i] \in Slot /\ p[i].deleted
      BY <1>1, <1>8
    <3> QED
      BY <3>1, <3>2 DEF Slot
  <2>3. PICK p2 : p2 = [p EXCEPT ![i] = live]
    OBVIOUS
  <2>4. /\ p2 \in Seq(Slot) /\ Len(p2) = Len(p) /\ p2[i] = live
        /\ \A j \in 1..Len(p) : j # i => p2[j] = p[j]
    BY <1>3, <1>8, <2>3, ExceptSeq
  <2> HIDE DEF rest
  <2>5. /\ q \in Seq(Slot) /\ Len(q) = Len(p) + 1 /\ q[Len(p) + 1] = rest
        /\ \A j \in 1..Len(p) : q[j] = p2[j]
    BY <1>1, <2>1, <2>2, <2>3, <2>4
  <2>6. \A j : j \in 1..Len(q) <=> (j \in 1..Len(p) \/ j = Len(p) + 1)
    BY <1>1, <2>5
  <2>7. i \in Nat /\ Len(p) + 1 \notin 1..Len(p)
    BY <1>1, <1>8
  <2> QED
    BY <1>3, <1>8, <2>2, <2>4, <2>5, <2>6, <2>7 DEF OnPage, PutAt
<1> QED
  BY <1>5, <1>6, <1>7, <1>8

\* delete_record empties a slot and leaves the others.
LEMMA RecordDeleted ==
    ASSUME NEW p \in Seq(Slot), NEW i \in 1..Len(p), NEW q, q = Emptied(p, i)
    PROVE  /\ q \in Seq(Slot) /\ Len(q) = Len(p)
           /\ q[i] = [row |-> NoRow, length |-> p[i].length, deleted |-> TRUE]
           /\ \A j \in 1..Len(p) : j # i => q[j] = p[j]
           /\ \A j, x : OnPage(q, j, x) <=> (OnPage(p, j, x) /\ j # i)
<1>1. DOMAIN p = 1..Len(p) /\ p[i] \in Slot
  BY PageFacts
<1>2. PICK e : e = [[p[i] EXCEPT !.deleted = TRUE] EXCEPT !.row = NoRow]
  OBVIOUS
<1>3. e \in Slot /\ e.deleted /\ e = [row |-> NoRow, length |-> p[i].length, deleted |-> TRUE]
  BY <1>1, <1>2 DEF Slot
<1>4. q = [p EXCEPT ![i] = e]
  BY <1>1, <1>2 DEF Emptied, WithoutRecord
<1>5. /\ q \in Seq(Slot) /\ Len(q) = Len(p) /\ q[i] = e
      /\ \A j \in 1..Len(p) : j # i => q[j] = p[j]
  <2>1. e \in Slot
    BY <1>3
  <2> HIDE <1>2, <1>3
  <2> QED
    BY <1>4, <2>1, ExceptSeq
<1> QED
  BY <1>3, <1>5 DEF OnPage

\* write_record on a slot with a row.
LEMMA RecordWritten ==
    ASSUME NEW p \in Seq(Slot), NEW i \in 1..Len(p), NEW row \in Rows,
           NEW q, q = [p EXCEPT ![i] = Live(row)]
    PROVE  /\ q \in Seq(Slot) /\ Len(q) = Len(p)
           /\ q[i] = Live(row) /\ \A j \in 1..Len(p) : j # i => q[j] = p[j]
           /\ \A j, x : OnPage(q, j, x) <=> ((OnPage(p, j, x) /\ j # i) \/ (j = i /\ x = row))
<1>1. Live(row) \in Slot /\ Live(row).row = row /\ ~Live(row).deleted
  BY LiveIsSlot
<1>2. /\ q \in Seq(Slot) /\ Len(q) = Len(p) /\ q[i] = Live(row)
      /\ \A j \in 1..Len(p) : j # i => q[j] = p[j]
  BY <1>1, ExceptSeq
<1> QED
  BY <1>1, <1>2 DEF OnPage

---------------------------------------------------------------------------
(* Pages that have room for their directory and their rows.  insert_record keeps *)
(* them so when the lengths of rows differ by less than a directory entry: a      *)
(* deleted slot that is split is never long enough for the row and an entry, so   *)
(* can_insert has looked at the free area.                                        *)

Narrow == \A r, s \in Rows : RowLength[r] < RowLength[s] + SlotSize

Bounded(p) == \A i \in 1..Len(p) : \E row \in Rows : p[i].length <= RowLength[row]
Room(p)    == SumOfLengths(p) + SlotSize * Len(p) <= PageDataSize

Pages == {p \in Seq(Slot) : Narrow => Bounded(p) /\ Room(p)}

LEMMA EmptyPage == << >> \in Pages
<1>1. << >> \in Seq(Slot) /\ Len(<< >>) = 0
  OBVIOUS
<1>2. Bounded(<< >>)
  BY <1>1 DEF Bounded
<1>3. Room(<< >>)
  BY <1>1, SumOfNone, HeapPageAssumption DEF Room, SlotSize
<1> QED
  BY <1>1, <1>2, <1>3 DEF Pages

\* Only the lengths matter.
LEMMA SamePage ==
    ASSUME NEW p \in Pages, NEW q \in Seq(Slot), Len(q) = Len(p),
           \A i \in 1..Len(p) : q[i].length = p[i].length
    PROVE  q \in Pages
<1>1. p \in Seq(Slot) /\ (Narrow => Bounded(p) /\ Room(p))
  BY DEF Pages
<1>2. SumOfLengths(q) = SumOfLengths(p)
  BY <1>1, SumOfSame
<1>3. Bounded(p) => Bounded(q)
  BY DEF Bounded
<1>4. Room(p) => Room(q)
  BY <1>2 DEF Room
<1> QED
  BY <1>1, <1>3, <1>4 DEF Pages

LEMMA SmallRemainder ==
    ASSUME NEW a \in Nat, NEW b \in Nat, a < b
    PROVE  a % b = a
  OBVIOUS

\* Where no deleted slot is longer than the row by a directory entry, can_insert
\* has found one of its length or room in the free area.
LEMMA FreeArea ==
    ASSUME NEW p \in Seq(Slot), Room(p), NEW len \in Nat, CanInsert(p, len),
           \A j \in 1..Len(p) : p[j].deleted => p[j].length < len + SlotSize
    PROVE  \/ \E j \in 1..Len(p) : p[j].deleted /\ p[j].length = len
           \/ SumOfLengths(p) + SlotSize * Len(p) + len + SlotSize <= PageDataSize
<1>1. Len(p) \in Nat /\ DOMAIN p = 1..Len(p) /\ \A j \in 1..Len(p) : p[j].length \in Nat
  BY PageFacts
<1>2. SumOfLengths(p) \in Nat /\ PageDataSize \in Nat /\ AddressSpace \in Nat /\ AddressSpace > PageDataSize
  BY SumIsNat, HeapPageAssumption
<1>3. PICK sum, dir : sum = SumOfLengths(p) /\ dir = SlotSize * Len(p)
  OBVIOUS
<1>4. sum \in Nat /\ dir \in Nat /\ sum + dir <= PageDataSize
  <2>1. SlotSize * Len(p) \in Nat
    BY <1>1 DEF SlotSize
  <2> QED
    BY <1>2, <1>3, <2>1 DEF Room
<1>5. PICK free : free = PageDataSize - sum - dir
  OBVIOUS
<1>6. free \in Nat /\ free < AddressSpace
  BY <1>2, <1>4, <1>5
<1>7. free % AddressSpace = free
  BY <1>2, <1>6, SmallRemainder
<1> DEFINE spaces == {free} \cup {p[j].length : j \in Deleted(p)}
<1>8. MaxAvailableSpace(p) = Max(spaces)
  BY <1>3, <1>5, <1>7 DEF MaxAvailableSpace
<1>9. CASE \E j \in Deleted(p) : p[j].length = len
  BY <1>1, <1>9 DEF Deleted
<1>10. CASE len + SlotSize <= Max(spaces)
  <2>1. CASE len + SlotSize <= free
    <3>1. SlotSize \in Nat
      BY DEF SlotSize
    <3>2. sum + dir + len + SlotSize <= PageDataSize
      <4> HIDE <1>3, <1>7, <1>8, <1>10
      <4> QED
        BY <1>2, <1>4, <1>5, <2>1, <3>1
    <3> QED
      BY <1>3, <3>2
  <2>2. CASE ~(len + SlotSize <= free)
    <3>1. \A x \in spaces : x \in Nat /\ x < len + SlotSize
      BY <1>1, <1>6, <2>2 DEF Deleted, SlotSize
    <3>2. len + SlotSize \in Nat
      BY DEF SlotSize
    <3> HIDE DEF spaces
    <3>3. spaces \in SUBSET Nat /\ \A x \in spaces : x <= len + SlotSize
      BY <3>1, <3>2
    <3>4. spaces # {}
      BY DEF spaces
    <3>5. Max(spaces) \in spaces
      BY <3>2, <3>3, <3>4, MaxIsGreatest
    <3>6. Max(spaces) < len + SlotSize /\ Max(spaces) \in Nat
      BY <3>1, <3>5
    <3> QED
      BY <1>10, <3>2, <3>6
  <2> QED
    BY <2>1, <2>2
<1> QED
  BY <1>8, <1>9, <1>10 DEF CanInsert

LEMMA PageInserted ==
    ASSUME NEW p \in Pages, NEW row \in Rows, CanInsert(p, RowLength[row]),
           NEW q, q = WithRecord(p, Live(row))
    PROVE  q \in Pages
<1>1. PICK len, live, i : len = RowLength[row] /\ live = Live(row) /\ i = SlotFor(p, len)
  OBVIOUS
<1>2. len \in Nat /\ live \in Slot /\ live.length = len
  BY <1>1, RowLengths, LiveIsSlot
<1>3. p \in Seq(Slot) /\ (Narrow => Bounded(p) /\ Room(p))
  BY DEF Pages
<1>4. q \in Seq(Slot)
  <2>1. PutAt(p, q, SlotFor(p, RowLength[row]), row)
    BY <1>3, RecordInserted
  <2> QED
    BY <2>1 DEF PutAt
<1>5. SUFFICES ASSUME Narrow PROVE Bounded(q) /\ Room(q)
  BY <1>4 DEF Pages
<1>6. /\ Len(p) \in Nat /\ SumOfLengths(p) \in Nat /\ PageDataSize \in Nat
      /\ \A j \in 1..Len(p) : p[j] \in Slot /\ p[j].length \in Nat
  BY <1>3, PageFacts, SumIsNat, HeapPageAssumption
<1>7. \A j \in 1..Len(p) : p[j].length < len + SlotSize
  <2> SUFFICES ASSUME NEW j \in 1..Len(p) PROVE p[j].length < len + SlotSize
    OBVIOUS
  <2>1. PICK other \in Rows : p[j].length <= RowLength[other]
    BY <1>3, <1>5 DEF Bounded
  <2>2. RowLength[other] < len + SlotSize /\ RowLength[other] \in Nat
    BY <1>1, <1>5, RowLengths DEF Narrow
  <2> QED
    BY <1>2, <1>6, <2>1, <2>2 DEF SlotSize
<1>8. \/ \E j \in 1..Len(p) : p[j].deleted /\ p[j].length = len
      \/ SumOfLengths(p) + SlotSize * Len(p) + len + SlotSize <= PageDataSize
  <2>1. CanInsert(p, len) /\ Room(p)
    BY <1>1, <1>3, <1>5
  <2> QED
    BY <1>2, <1>3, <1>7, <2>1, FreeArea
<1>9. \/ i \in 1..Len(p) /\ p[i].deleted /\ p[i].length = len
      \/ /\ i \in 1..Len(p) /\ p[i].deleted /\ p[i].length > len
         /\ \A j \in 1..Len(p) : p[j].deleted => p[j].length # len
      \/ /\ i = Len(p) + 1
         /\ \A j \in 1..Len(p) : p[j].deleted => p[j].length < len
  BY <1>1, <1>2, <1>3, SlotForIs
<1>10. q = IF i > Len(p) THEN Append(p, live)
           ELSE IF p[i].length = len THEN [p EXCEPT ![i] = live]
           ELSE Append([p EXCEPT ![i] = live], [p[i] EXCEPT !.length = @ - len])
  BY <1>1, <1>2 DEF WithRecord
<1>11. Bounded(p) /\ Room(p) /\ len <= RowLength[row]
  BY <1>1, <1>2, <1>3, <1>5
<1>12. CASE i = Len(p) + 1 /\ \A j \in 1..Len(p) : p[j].deleted => p[j].length < len
  <2>1. q = Append(p, live)
    BY <1>6, <1>10, <1>12
  <2>2. Len(q) = Len(p) + 1 /\ q[Len(p) + 1] = live /\ \A j \in 1..Len(p) : q[j] = p[j]
    BY <1>2, <1>3, <1>6, <2>1
  <2>3. SumOfLengths(q) = SumOfLengths(p) + len
    BY <1>2, <1>3, <1>4, <2>2, SumOfAppended
  <2>4. SumOfLengths(p) + SlotSize * Len(p) + len + SlotSize <= PageDataSize
    <3>1. \A j \in 1..Len(p) : p[j].deleted => p[j].length # len
      BY <1>2, <1>6, <1>12
    <3> QED
      BY <1>8, <3>1
  <2>5. SlotSize * Len(q) = SlotSize * Len(p) + SlotSize /\ SlotSize * Len(p) \in Nat /\ SlotSize \in Nat
    BY <1>6, <2>2 DEF SlotSize
  <2>6. Room(q)
    BY <1>2, <1>6, <2>3, <2>4, <2>5 DEF Room
  <2>7. Bounded(q)
    <3>1. \A j \in 1..Len(q) : j = Len(p) + 1 \/ j \in 1..Len(p)
      BY <1>6, <2>2
    <3> QED
      BY <1>2, <1>11, <2>2, <3>1 DEF Bounded
  <2> QED
    BY <2>6, <2>7
<1>13. CASE i \in 1..Len(p) /\ p[i].deleted /\ p[i].length = len
  <2>1. q = [p EXCEPT ![i] = live]
    BY <1>6, <1>10, <1>13
  <2>2. Len(q) = Len(p) /\ q[i] = live /\ \A j \in 1..Len(p) : j # i => q[j] = p[j]
    BY <1>2, <1>3, <1>13, <2>1, ExceptSeq
  <2>3. \A j \in 1..Len(p) : q[j].length = p[j].length
    BY <1>2, <1>13, <2>2
  <2>4. q \in Pages
    BY <1>4, <2>2, <2>3, SamePage
  <2> QED
    BY <1>5, <2>4 DEF Pages
<1>14. CASE /\ i \in 1..Len(p) /\ p[i].deleted /\ p[i].length > len
            /\ \A j \in 1..Len(p) : p[j].deleted => p[j].length # len
  <2>1. PICK rest : rest = [p[i] EXCEPT !.length = @ - len]
    OBVIOUS
  <2>2. rest.length = p[i].length - len /\ rest.length \in Nat /\ p[i].length \in Nat
    BY <1>2, <1>6, <1>14, <2>1 DEF Slot
  <2>3. rest \in Slot
    BY <1>2, <1>6, <1>14, <2>1, <2>2 DEF Slot
  <2>4. PICK p2 : p2 = [p EXCEPT ![i] = live]
    OBVIOUS
  <2>5. /\ p2 \in Seq(Slot) /\ Len(p2) = Len(p) /\ p2[i] = live
        /\ \A j \in 1..Len(p) : j # i => p2[j] = p[j]
    BY <1>2, <1>3, <1>14, <2>4, ExceptSeq
  <2>6. q = Append(p2, rest)
    BY <1>2, <1>6, <1>10, <1>14, <2>1, <2>4
  <2>7. /\ Len(q) = Len(p2) + 1 /\ q[Len(p2) + 1] = rest
        /\ \A j \in 1..Len(p2) : q[j] = p2[j]
    <3> HIDE <2>1, <2>4
    <3> QED
      BY <1>6, <2>3, <2>5, <2>6
  <2>8. SumOfLengths(p2) = SumOfLengths(p) + len - p[i].length
    <3>1. SumOfLengths(p2) = SumOfLengths(p) + p2[i].length - p[i].length
      <4> HIDE <2>1, <2>4
      <4> QED
        BY <1>3, <1>14, <2>5, SumOfReplaced
    <3> QED
      BY <1>2, <2>5, <3>1
  <2>9. SumOfLengths(q) = SumOfLengths(p2) + rest.length
    BY <1>4, <2>5, <2>7, SumOfAppended
  <2>10. SumOfLengths(q) = SumOfLengths(p)
    <3>1. PICK a, b : a = SumOfLengths(p) /\ b = p[i].length
      OBVIOUS
    <3>2. SumOfLengths(q) = (a + len - b) + (b - len)
      BY <2>2, <2>8, <2>9, <3>1
    <3>3. a \in Nat /\ b \in Nat
      BY <1>6, <2>2, <3>1
    <3>4. (a + len - b) + (b - len) = a
      BY <1>2, <3>3
    <3> QED
      BY <3>1, <3>2, <3>4
  <2>11. SumOfLengths(p) + SlotSize * Len(p) + len + SlotSize <= PageDataSize
    BY <1>8, <1>14
  <2>12. SlotSize * Len(q) = SlotSize * Len(p) + SlotSize /\ SlotSize * Len(p) \in Nat /\ SlotSize \in Nat
    BY <1>6, <2>5, <2>7 DEF SlotSize
  <2>13. Room(q)
    <3>1. PICK a, d : a = SumOfLengths(p) /\ d = SlotSize * Len(p)
      OBVIOUS
    <3>2. a \in Nat /\ d \in Nat /\ a + d + len + SlotSize <= PageDataSize
      BY <1>6, <2>11, <2>12, <3>1
    <3>3. SumOfLengths(q) + SlotSize * Len(q) = a + (d + SlotSize)
      BY <2>10, <2>12, <3>1
    <3>4. a + (d + SlotSize) <= PageDataSize
      BY <1>2, <1>6, <2>12, <3>2
    <3> QED
      BY <3>3, <3>4 DEF Room
  <2>14. Bounded(q)
    <3> SUFFICES ASSUME NEW j \in 1..Len(q) PROVE \E other \in Rows : q[j].length <= RowLength[other]
      BY DEF Bounded
    <3>1. CASE j = Len(p) + 1
      <4>1. PICK other \in Rows : p[i].length <= RowLength[other]
        BY <1>11, <1>14 DEF Bounded
      <4>2. q[j].length = p[i].length - len /\ RowLength[other] \in Nat
        BY <2>2, <2>5, <2>7, <3>1, RowLengths
      <4> QED
        BY <1>2, <2>2, <4>1, <4>2
    <3>2. CASE j = i
      BY <1>2, <1>11, <1>14, <2>5, <2>7, <3>2
    <3>3. CASE j # Len(p) + 1 /\ j # i
      <4>1. j \in 1..Len(p)
        BY <1>6, <2>5, <2>7, <3>3
      <4>2. q[j] = p[j]
        BY <2>5, <2>7, <3>3, <4>1
      <4> QED
        BY <1>11, <4>1, <4>2 DEF Bounded
    <3> QED
      BY <3>1, <3>2, <3>3
  <2> QED
    BY <2>13, <2>14
<1> QED
  BY <1>9, <1>12, <1>13, <1>14

\* A new page has room for any row.
LEMMA NewPageHasRoom ==
    ASSUME NEW row \in Rows
    PROVE  CanInsert(<< >>, RowLength[row])
<1>1. Len(<< >>) = 0 /\ Deleted(<< >>) = {}
  BY DEF Deleted
<1>2. PageDataSize \in Nat /\ AddressSpace \in Nat /\ AddressSpace > PageDataSize
  BY HeapPageAssumption
<1>3. (PageDataSize - SumOfLengths(<< >>) - SlotSize * Len(<< >>)) % AddressSpace = PageDataSize
  <2>1. PageDataSize - SumOfLengths(<< >>) - SlotSize * Len(<< >>) = PageDataSize
    BY <1>1, <1>2, SumOfNone DEF SlotSize
  <2> QED
    BY <1>2, <2>1
<1>4. MaxAvailableSpace(<< >>) = Max({PageDataSize})
  BY <1>1, <1>3 DEF MaxAvailableSpace
<1>5. Max({PageDataSize}) = PageDataSize
  <2>1. PICK S : S = {PageDataSize}
    OBVIOUS
  <2>2. S \in SUBSET Nat /\ S # {} /\ \A x \in S : x <= PageDataSize
    BY <1>2, <2>1
  <2>3. Max(S) \in S
    BY <1>2, <2>2, MaxIsGreatest
  <2> QED
    BY <2>1, <2>3
<1>6. RowLength[row] \in Nat /\ RowLength[row] + SlotSize <= PageDataSize
  BY <1>2, RowLengths DEF MaxTuple, SlotSize
<1> QED
  BY <1>4, <1>5, <1>6 DEF CanInsert

---------------------------------------------------------------------------
(* The records of a table when one of its pages is written. *)

Heaps == Seq(Pages)

\* The page with this id, or a new one.
PageOf(h, id) == IF id \in PageIds(h) THEN h[id] ELSE << >>

\* g is the heap h with the page q.
HasPage(h, g, id, q) ==
    /\ g \in Heaps /\ g[id] = q
    /\ \A k \in 1..Len(h) : k # id => g[k] = h[k]
    /\ Len(g) \in Nat /\ Len(h) \in Nat
    /\ \A k : k \in 1..Len(g) <=> (k \in 1..Len(h) \/ k = id)
    /\ \A k, j, x : At(g, k, j, x) <=> IF k = id THEN OnPage(q, j, x) ELSE At(h, k, j, x)

LEMMA HeapWritten ==
    ASSUME NEW h \in Heaps, NEW id \in 1..(Len(h) + 1), NEW q \in Pages,
           NEW g, g = Written(h, id, q)
    PROVE  HasPage(h, g, id, q)
<1>0. h \in Seq(Pages) /\ Len(h) \in Nat
  BY LenProperties DEF Heaps
<1>1. CASE id \in 1..Len(h)
  <2>1. g = [h EXCEPT ![id] = q]
    BY <1>1 DEF Written, PageIds
  <2>2. /\ g \in Seq(Pages) /\ Len(g) = Len(h) /\ g[id] = q
        /\ \A k \in 1..Len(h) : k # id => g[k] = h[k]
    BY <1>0, <1>1, <2>1, ExceptSeq
  <2> QED
    BY <1>0, <1>1, <2>2 DEF At, Heaps, HasPage
<1>2. CASE id = Len(h) + 1
  <2>1. id \notin 1..Len(h)
    BY <1>0, <1>2
  <2>2. g = Append(h, q)
    BY <2>1 DEF Written, PageIds
  <2>3. /\ g \in Seq(Pages) /\ Len(g) = Len(h) + 1 /\ g[id] = q
        /\ \A k \in 1..Len(h) : g[k] = h[k]
    <3>1. PICK P : P = Pages
      OBVIOUS
    <3>2. h \in Seq(P) /\ q \in P
      BY <1>0, <3>1
    <3>3. /\ Append(h, q) \in Seq(P) /\ Len(Append(h, q)) = Len(h) + 1
          /\ Append(h, q)[Len(h) + 1] = q
          /\ \A k \in 1..Len(h) : Append(h, q)[k] = h[k]
      BY <1>0, <3>2, AppendProperties
    <3> QED
      BY <1>2, <2>2, <3>1, <3>3
  <2>4. \A k : k \in 1..Len(g) <=> (k \in 1..Len(h) \/ k = id)
    BY <1>0, <1>2, <2>3
  <2>5. ASSUME NEW k, NEW j, NEW x
        PROVE  At(g, k, j, x) <=> IF k = id THEN OnPage(q, j, x) ELSE At(h, k, j, x)
    <3>1. CASE k = id
      BY <2>3, <2>4, <3>1 DEF At
    <3>2. CASE k # id
      BY <2>3, <2>4, <3>2 DEF At
    <3> QED
      BY <3>1, <3>2
  <2>6. Len(g) \in Nat
    BY <1>0, <2>3
  <2> QED
    BY <1>0, <2>1, <2>3, <2>4, <2>5, <2>6 DEF Heaps, HasPage
<1> QED
  BY <1>0, <1>1, <1>2

LEMMA PageOfHeap ==
    ASSUME NEW h \in Heaps, NEW id \in 1..(Len(h) + 1)
    PROVE  /\ PageOf(h, id) \in Pages /\ PageOf(h, id) \in Seq(Slot)
           /\ \A j, x : At(h, id, j, x) <=> OnPage(PageOf(h, id), j, x)
<1>0. Len(h) \in Nat /\ \A k \in 1..Len(h) : h[k] \in Pages
  BY LenProperties, ElementOfSeq DEF Heaps
<1>1. CASE id \in 1..Len(h)
  BY <1>0, <1>1 DEF PageOf, PageIds, At, Pages
<1>2. CASE id \notin 1..Len(h)
  <2>1. PageOf(h, id) = << >>
    BY <1>2 DEF PageOf, PageIds
  <2>2. << >> \in Pages /\ << >> \in Seq(Slot) /\ Len(<< >>) = 0
    BY EmptyPage
  <2>3. \A j, x : ~OnPage(<< >>, j, x)
    BY <2>2 DEF OnPage
  <2> QED
    BY <1>2, <2>1, <2>2, <2>3 DEF At
<1> QED
  BY <1>1, <1>2

\* Where a record is; no two are at one place.
LEMMA RecordsAre ==
    ASSUME NEW h \in Heaps
    PROVE  /\ Len(h) \in Nat
           /\ \A r \in Records(h) :
                 /\ r \in Record /\ r = RecordOf(r.page, r.slot, r.row)
                 /\ r.page \in 1..Len(h) /\ r.slot \in 1..Len(h[r.page])
                 /\ h[r.page] \in Seq(Slot) /\ h[r.page] \in Pages
                 /\ h[r.page][r.slot].row = r.row /\ ~h[r.page][r.slot].deleted
                 /\ h[r.page][r.slot].length = RowLength[r.row]
           /\ \A r, s \in Records(h) : Address(r) = Address(s) => r = s
           /\ \A id, i, row : At(h, id, i, row) => RecordOf(id, i, row) \in Records(h)
<1>0. Len(h) \in Nat /\ \A k \in 1..Len(h) : h[k] \in Pages /\ h[k] \in Seq(Slot)
  <2>1. Len(h) \in Nat /\ \A k \in 1..Len(h) : h[k] \in Pages
    BY LenProperties, ElementOfSeq DEF Heaps
  <2> QED
    BY <2>1 DEF Pages
<1>1. ASSUME NEW r \in Records(h)
      PROVE  /\ r \in Record /\ r = RecordOf(r.page, r.slot, r.row)
             /\ r.page \in 1..Len(h) /\ r.slot \in 1..Len(h[r.page])
             /\ h[r.page] \in Seq(Slot) /\ h[r.page] \in Pages
             /\ h[r.page][r.slot].row = r.row /\ ~h[r.page][r.slot].deleted
             /\ h[r.page][r.slot].length = RowLength[r.row]
  <2>1. r \in Record /\ At(h, r.page, r.slot, r.row)
    BY DEF Records
  <2>2. r = RecordOf(r.page, r.slot, r.row)
    BY <2>1 DEF Record, RecordOf
  <2>3. r.page \in 1..Len(h) /\ OnPage(h[r.page], r.slot, r.row)
    BY <2>1 DEF At
  <2>4. r.slot \in 1..Len(h[r.page]) /\ ~h[r.page][r.slot].deleted /\ h[r.page][r.slot].row = r.row
    BY <2>3 DEF OnPage
  <2>5. h[r.page] \in Seq(Slot) /\ h[r.page] \in Pages
    BY <1>0, <2>3
  <2>6. h[r.page][r.slot].length = RowLength[h[r.page][r.slot].row]
    BY <2>4, <2>5, PageFacts
  <2> QED
    BY <2>1, <2>2, <2>3, <2>4, <2>5, <2>6
<1>2. ASSUME NEW r \in Records(h), NEW s \in Records(h), Address(r) = Address(s) PROVE r = s
  <2>1. r.page = s.page /\ r.slot = s.slot
    BY <1>2 DEF Address
  <2>2. r = RecordOf(r.page, r.slot, h[r.page][r.slot].row)
    BY <1>1
  <2>3. s = RecordOf(s.page, s.slot, h[s.page][s.slot].row)
    BY <1>1
  <2> QED
    BY <2>1, <2>2, <2>3
<1>3. ASSUME NEW id, NEW i, NEW row, At(h, id, i, row) PROVE RecordOf(id, i, row) \in Records(h)
  <2>1. id \in 1..Len(h) /\ i \in 1..Len(h[id]) /\ ~h[id][i].deleted /\ h[id][i].row = row
    BY <1>3 DEF At, OnPage
  <2>2. h[id] \in Seq(Slot)
    BY <1>0, <2>1
  <2>3. row \in Rows /\ Len(h[id]) \in Nat
    BY <2>1, <2>2, PageFacts
  <2>4. id \in Nat /\ i \in Nat
    BY <1>0, <2>1, <2>3
  <2> QED
    BY <1>3, <2>3, <2>4 DEF Records, Record, RecordOf
<1> QED
  BY <1>0, <1>1, <1>2, <1>3

LEMMA RecordIs ==
    ASSUME NEW r \in Record, NEW id, NEW i, NEW row
    PROVE  r = RecordOf(id, i, row) <=> r.page = id /\ r.slot = i /\ r.row = row
  BY DEF Record, RecordOf

\* A row is put at a free place of a page.
LEMMA RecordsInserted ==
    ASSUME NEW h \in Heaps, NEW id \in 1..(Len(h) + 1), NEW row \in Rows,
           CanInsert(PageOf(h, id), RowLength[row]),
           NEW i, i = SlotFor(PageOf(h, id), RowLength[row]),
           NEW g, g = Written(h, id, WithRecord(PageOf(h, id), Live(row))),
           NEW new, new = RecordOf(id, i, row)
    PROVE  /\ g \in Heaps /\ new \in Record
           /\ Records(g) = Records(h) \cup {new}
           /\ \A r \in Records(h) : Address(r) # Address(new)
<1>1. PICK p, q : p = PageOf(h, id) /\ q = WithRecord(p, Live(row))
  OBVIOUS
<1>2. p \in Pages /\ p \in Seq(Slot) /\ \A j, x : At(h, id, j, x) <=> OnPage(p, j, x)
  BY <1>1, PageOfHeap
<1>3. /\ q \in Pages /\ i \in Nat
      /\ \A x : ~OnPage(p, i, x)
      /\ \A j, x : OnPage(q, j, x) <=> (OnPage(p, j, x) \/ (j = i /\ x = row))
  <2>1. q = WithRecord(p, Live(row)) /\ i = SlotFor(p, RowLength[row]) /\ p \in Seq(Slot)
    BY <1>1, <1>2
  <2>2. PutAt(p, q, i, row)
    BY <2>1, RecordInserted
  <2>3. q \in Pages
    BY <1>1, <1>2, PageInserted
  <2> QED
    BY <2>2, <2>3 DEF PutAt
<1>4. /\ g \in Heaps /\ Len(h) \in Nat
      /\ \A k, j, x : At(g, k, j, x) <=> IF k = id THEN OnPage(q, j, x) ELSE At(h, k, j, x)
  BY <1>1, <1>3, HeapWritten DEF HasPage
<1>5. \A k, j, x : At(g, k, j, x) <=> (At(h, k, j, x) \/ (k = id /\ j = i /\ x = row))
  BY <1>2, <1>3, <1>4
<1>6. new \in Record /\ id \in Nat
  BY <1>3, <1>4 DEF Record, RecordOf
<1>7. \A r \in Record : r = new <=> (r.page = id /\ r.slot = i /\ r.row = row)
  BY RecordIs
<1>8. Records(g) = Records(h) \cup {new}
  BY <1>5, <1>6, <1>7 DEF Records
<1>9. ASSUME NEW r \in Records(h), Address(r) = Address(new) PROVE FALSE
  <2>1. r.page = id /\ r.slot = i
    BY <1>9 DEF Address, RecordOf
  <2>2. At(h, r.page, r.slot, r.row)
    BY DEF Records
  <2>3. OnPage(p, i, r.row)
    BY <1>2, <2>1, <2>2
  <2> QED
    BY <1>3, <2>3
<1> QED
  BY <1>4, <1>6, <1>8, <1>9

\* A page is written as it was, or a new one without rows.
LEMMA RecordsUntouched ==
    ASSUME NEW h \in Heaps, NEW id \in 1..(Len(h) + 1),
           NEW g, g = Written(h, id, PageOf(h, id))
    PROVE  g \in Heaps /\ Records(g) = Records(h)
<1>1. PICK p : p = PageOf(h, id)
  OBVIOUS
<1>2. p \in Pages /\ \A j, x : At(h, id, j, x) <=> OnPage(p, j, x)
  BY <1>1, PageOfHeap
<1>3. /\ g \in Heaps
      /\ \A k, j, x : At(g, k, j, x) <=> IF k = id THEN OnPage(p, j, x) ELSE At(h, k, j, x)
  BY <1>1, <1>2, HeapWritten DEF HasPage
<1>4. \A k, j, x : At(g, k, j, x) <=> At(h, k, j, x)
  BY <1>2, <1>3
<1> QED
  BY <1>3, <1>4 DEF Records

\* A record's slot is emptied.
LEMMA RecordsDeleted ==
    ASSUME NEW h \in Heaps, NEW r \in Records(h),
           NEW g, g = [h EXCEPT ![r.page] = Emptied(h[r.page], r.slot)]
    PROVE  g \in Heaps /\ Records(g) = Records(h) \ {r} /\ Len(g) = Len(h)
<1>1. PICK id, i, row : id = r.page /\ i = r.slot /\ row = r.row
  OBVIOUS
<1>2. /\ r \in Record /\ id \in 1..Len(h) /\ i \in 1..Len(h[id]) /\ h[id] \in Pages /\ h[id] \in Seq(Slot)
      /\ Len(h) \in Nat
  BY <1>1, RecordsAre
<1>3. PICK p, q : p = h[id] /\ q = Emptied(p, i)
  OBVIOUS
<1>4. q \in Pages /\ \A j, x : OnPage(q, j, x) <=> (OnPage(p, j, x) /\ j # i)
  <2>1. p \in Pages /\ p \in Seq(Slot) /\ i \in 1..Len(p) /\ q = Emptied(p, i)
    BY <1>2, <1>3
  <2> HIDE <1>1, <1>2, <1>3
  <2>2. /\ q \in Seq(Slot) /\ Len(q) = Len(p)
        /\ q[i] = [row |-> NoRow, length |-> p[i].length, deleted |-> TRUE]
        /\ \A j \in 1..Len(p) : j # i => q[j] = p[j]
        /\ \A j, x : OnPage(q, j, x) <=> (OnPage(p, j, x) /\ j # i)
    BY <2>1, RecordDeleted
  <2>3. \A j \in 1..Len(p) : q[j].length = p[j].length
    BY <2>2
  <2>4. q \in Pages
    BY <2>1, <2>2, <2>3, SamePage
  <2> QED
    BY <2>2, <2>4
<1>5. g = Written(h, id, q) /\ id \in 1..(Len(h) + 1)
  BY <1>1, <1>2, <1>3 DEF Written, PageIds
<1>6. /\ g \in Heaps
      /\ \A k, j, x : At(g, k, j, x) <=> IF k = id THEN OnPage(q, j, x) ELSE At(h, k, j, x)
  BY <1>4, <1>5, HeapWritten DEF HasPage
<1>7. \A j, x : At(h, id, j, x) <=> OnPage(p, j, x)
  BY <1>2, <1>3 DEF At
<1>8. \A k, j, x : At(g, k, j, x) <=> (At(h, k, j, x) /\ ~(k = id /\ j = i))
  BY <1>4, <1>6, <1>7
<1>9. \A s \in Records(h) : s = r <=> (s.page = id /\ s.slot = i)
  <2>1. \A s \in Records(h) : (s.page = id /\ s.slot = i) => Address(s) = Address(r)
    BY <1>1 DEF Address
  <2>2. \A s \in Records(h) : Address(s) = Address(r) => s = r
    BY RecordsAre
  <2> QED
    BY <1>1, <2>1, <2>2
<1>10. Records(g) = Records(h) \ {r}
  BY <1>8, <1>9 DEF Records
<1>11. Len(g) = Len(h)
  BY <1>1, <1>2, <1>3, <1>4, ExceptSeq DEF Heaps
<1> QED
  BY <1>6, <1>10, <1>11

\* A record's row is overwritten.
Replaced(h, g, r, new) ==
    /\ g \in Heaps /\ new \in Record /\ Len(g) = Len(h)
    /\ Records(g) = (Records(h) \ {r}) \cup {new}
    /\ \A s \in Records(h) \ {r} : Address(s) # Address(new)

LEMMA RecordsReplaced ==
    ASSUME NEW h \in Heaps, NEW r \in Records(h), NEW row \in Rows,
           RowLength[row] = RowLength[r.row],
           NEW g, g = [h EXCEPT ![r.page] = [h[r.page] EXCEPT ![r.slot] = Live(row)]],
           NEW new, new = RecordOf(r.page, r.slot, row)
    PROVE  Replaced(h, g, r, new)
<1>1. PICK id, i : id = r.page /\ i = r.slot
  OBVIOUS
<1>2. /\ r \in Record /\ id \in 1..Len(h) /\ i \in 1..Len(h[id]) /\ h[id] \in Pages /\ h[id] \in Seq(Slot)
      /\ Len(h) \in Nat /\ h[id][i].length = RowLength[row]
  BY <1>1, RecordsAre
<1>3. PICK p, q : p = h[id] /\ q = [p EXCEPT ![i] = Live(row)]
  OBVIOUS
<1>4. /\ q \in Pages
      /\ \A j, x : OnPage(q, j, x) <=> ((OnPage(p, j, x) /\ j # i) \/ (j = i /\ x = row))
  <2>1. /\ q \in Seq(Slot) /\ Len(q) = Len(p)
        /\ q[i] = Live(row) /\ \A j \in 1..Len(p) : j # i => q[j] = p[j]
        /\ \A j, x : OnPage(q, j, x) <=> ((OnPage(p, j, x) /\ j # i) \/ (j = i /\ x = row))
    BY <1>2, <1>3, RecordWritten
  <2>2. \A j \in 1..Len(p) : q[j].length = p[j].length
    BY <1>2, <1>3, <2>1, LiveIsSlot
  <2>3. p \in Pages
    BY <1>2, <1>3
  <2>4. q \in Pages
    BY <2>1, <2>2, <2>3, SamePage
  <2> QED
    BY <2>1, <2>4
<1>5. g = Written(h, id, q) /\ id \in 1..(Len(h) + 1)
  BY <1>1, <1>2, <1>3 DEF Written, PageIds
<1>6. /\ g \in Heaps
      /\ \A k, j, x : At(g, k, j, x) <=> IF k = id THEN OnPage(q, j, x) ELSE At(h, k, j, x)
  <2>1. q \in Pages
    BY <1>4
  <2>2. HasPage(h, g, id, q)
    BY <1>5, <2>1, HeapWritten
  <2> QED
    BY <2>2 DEF HasPage
<1>7. \A j, x : At(h, id, j, x) <=> OnPage(p, j, x)
  BY <1>2, <1>3 DEF At
<1> DEFINE Now(k, j, x) ==
        \/ At(h, k, j, x) /\ ~(k = id /\ j = i)
        \/ k = id /\ j = i /\ x = row
<1>8. \A k, j, x : At(g, k, j, x) <=> Now(k, j, x)
  BY <1>4, <1>6, <1>7
<1>9. \A s \in Records(h) : s = r <=> (s.page = id /\ s.slot = i)
  <2>1. \A s \in Records(h) : (s.page = id /\ s.slot = i) => Address(s) = Address(r)
    BY <1>1 DEF Address
  <2>2. \A s \in Records(h) : Address(s) = Address(r) => s = r
    BY RecordsAre
  <2> QED
    BY <1>1, <2>1, <2>2
<1>10. new \in Record
  BY <1>1, <1>2 DEF Record, RecordOf
<1>11. \A s \in Record : s = new <=> (s.page = id /\ s.slot = i /\ s.row = row)
  BY <1>1, RecordIs
<1>12. Records(g) = (Records(h) \ {r}) \cup {new}
  <2>1. ASSUME NEW s \in Record
        PROVE  s \in Records(g) <=> (s \in Records(h) /\ s # r) \/ s = new
    <3>1. At(g, s.page, s.slot, s.row) <=>
              \/ At(h, s.page, s.slot, s.row) /\ ~(s.page = id /\ s.slot = i)
              \/ s = new
      <4>1. PICK k, j, x : k = s.page /\ j = s.slot /\ x = s.row
        OBVIOUS
      <4>2. s = new <=> (k = id /\ j = i /\ x = row)
        BY <1>11, <4>1
      <4>3. At(g, k, j, x) <=> Now(k, j, x)
        <5> HIDE DEF Now
        <5> QED
          BY <1>8
      <4> QED
        BY <4>1, <4>2, <4>3
    <3> QED
      BY <1>9, <3>1 DEF Records
  <2>2. Records(g) \subseteq Record /\ Records(h) \subseteq Record
    BY DEF Records
  <2> QED
    BY <1>10, <2>1, <2>2
<1>13. ASSUME NEW s \in Records(h) \ {r}, Address(s) = Address(new) PROVE FALSE
  <2>1. s.page = id /\ s.slot = i
    BY <1>1, <1>13 DEF Address, RecordOf
  <2> QED
    BY <1>9, <2>1
<1>14. Len(g) = Len(h)
  BY <1>1, <1>2, <1>3, ExceptSeq DEF Heaps
<1> QED
  BY <1>6, <1>10, <1>12, <1>13, <1>14 DEF Replaced

---------------------------------------------------------------------------
(* What update_index does to indexes that match a set of records. *)

Matches(R, entries) ==
    \A col \in Indexed :
        /\ \A r \in R : /\ r.row[col] \in DOMAIN entries[col]
                        /\ entries[col][r.row[col]] = Address(r)
        /\ DOMAIN entries[col] = {r.row[col] : r \in R}

\* No two records at one place.
Apart(R) == R \subseteq Record /\ \A r, s \in R : Address(r) = Address(s) => r = s

\* A column's entries without the old value, and with the new one.
Without(entries, old, col) ==
    IF old = NoRow THEN entries[col]
    ELSE Restrict(entries[col], DOMAIN entries[col] \ {old[col]})

With(entries, old, new, address, col) ==
    [v \in DOMAIN Without(entries, old, col) \cup {new[col]} |->
        IF v = new[col] THEN address ELSE Without(entries, old, col)[v]]

LEMMA ValuesDiffer ==
    ASSUME NEW R, Apart(R), NEW entries, Matches(R, entries), NEW col \in Indexed,
           NEW r \in R, NEW s \in R, r.row[col] = s.row[col]
    PROVE  r = s
<1>1. entries[col][r.row[col]] = Address(r) /\ entries[col][s.row[col]] = Address(s)
  BY DEF Matches
<1> QED
  BY <1>1 DEF Apart

\* The indexes are updated for all of the columns, or refuse the row.
Indexes(done, entries, cols, turn, old, new, address) ==
    /\ done.ok <=> \A col \in cols : new[col] \notin DOMAIN Without(entries, old, col)
    /\ done.ok => \A col \in Indexed :
          done.index[col] = IF col \in cols THEN With(entries, old, new, address, col)
                            ELSE entries[col]
    /\ (~done.ok /\ old = NoRow /\ turn \in Turns /\ \A c, d \in Indexed : c = d) =>
          \A col \in Indexed : done.index[col] = entries[col]

LEMMA UpdateIndexIs ==
    ASSUME NEW entries, NEW cols \in SUBSET Indexed, NEW turn, NEW old, NEW new, NEW address,
           NEW done, done = UpdateIndex(entries, cols, turn, old, new, address)
    PROVE  Indexes(done, entries, cols, turn, old, new, address)
<1> DEFINE refused == {col \in cols : new[col] \in DOMAIN Without(entries, old, col)}
           Entry(col) ==
               IF col \notin cols THEN entries[col]
               ELSE IF \A at \in refused : turn[col] < turn[at]
               THEN With(entries, old, new, address, col)
               ELSE IF \A at \in refused : turn[col] <= turn[at]
               THEN Without(entries, old, col)
               ELSE entries[col]
<1>1. done = [ok |-> refused = {}, index |-> [col \in Indexed |-> Entry(col)]]
  BY DEF UpdateIndex, Without, With
<1> HIDE DEF Entry, refused
<1>2. done.ok = (refused = {}) /\ \A col \in Indexed : done.index[col] = Entry(col)
  BY <1>1
<1>3. done.ok <=> \A col \in cols : new[col] \notin DOMAIN Without(entries, old, col)
  BY <1>2 DEF refused
<1>4. ASSUME done.ok, NEW col \in Indexed
      PROVE  done.index[col] = IF col \in cols THEN With(entries, old, new, address, col)
                               ELSE entries[col]
  <2>1. refused = {}
    BY <1>2, <1>4
  <2> QED
    BY <1>2, <2>1 DEF Entry
<1>5. ASSUME ~done.ok, old = NoRow, turn \in Turns, \A c, d \in Indexed : c = d,
             NEW col \in Indexed
      PROVE  done.index[col] = entries[col]
  <2>1. PICK at \in refused : TRUE
    BY <1>2, <1>5
  <2>2. at = col
    BY <1>5, <2>1 DEF refused
  <2>3. turn[col] \in Indexed
    BY <1>5 DEF Turns
  <2>4. turn[col] \in Nat
    <3>1. Indexed \subseteq DOMAIN Schema
      BY TableAssumption
    <3>2. DOMAIN Schema = 1..Len(Schema) /\ Len(Schema) \in Nat
      BY SchemaAssumption, LenProperties DEF IsASequence
    <3>3. \A n \in 1..Len(Schema) : n \in Nat
      BY <3>2
    <3> QED
      BY <2>3, <3>1, <3>2, <3>3
  <2>5. ~(turn[col] < turn[col])
    BY <2>4
  <2>6. ~(\A c \in refused : turn[col] < turn[c])
    BY <2>1, <2>2, <2>5
  <2>7. Without(entries, old, col) = entries[col]
    BY <1>5 DEF Without
  <2> QED
    BY <1>2, <2>6, <2>7 DEF Entry
<1> QED
  BY <1>3, <1>4, <1>5 DEF Indexes

\* A row is entered where none has its values.
Enters(R, r, done) ==
    /\ done.ok <=> \A s \in R : \A col \in Indexed : s.row[col] # r.row[col]
    /\ done.ok => Matches(R \cup {r}, done.index)
    /\ (~done.ok /\ \A c, d \in Indexed : c = d) => Matches(R, done.index)

LEMMA MatchesInserted ==
    ASSUME NEW R, NEW entries, Matches(R, entries), NEW r \in Record, NEW turn \in Turns,
           NEW done, done = UpdateIndex(entries, Indexed, turn, NoRow, r.row, Address(r))
    PROVE  Enters(R, r, done)
<1>1. \A col \in Indexed : Without(entries, NoRow, col) = entries[col]
  BY DEF Without
<1>2. \A col \in Indexed : DOMAIN entries[col] = {s.row[col] : s \in R}
  BY DEF Matches
<1>0. Indexes(done, entries, Indexed, turn, NoRow, r.row, Address(r))
  <2>1. Indexed \in SUBSET Indexed
    OBVIOUS
  <2> QED
    BY <2>1, UpdateIndexIs
<1>3. done.ok <=> \A col \in Indexed : r.row[col] \notin DOMAIN entries[col]
  BY <1>0, <1>1 DEF Indexes
<1>4. done.ok <=> \A s \in R : \A col \in Indexed : s.row[col] # r.row[col]
  BY <1>2, <1>3
<1>5. ASSUME done.ok PROVE Matches(R \cup {r}, done.index)
  <2> SUFFICES ASSUME NEW col \in Indexed
               PROVE  /\ \A s \in R \cup {r} : /\ s.row[col] \in DOMAIN done.index[col]
                                               /\ done.index[col][s.row[col]] = Address(s)
                      /\ DOMAIN done.index[col] = {s.row[col] : s \in R \cup {r}}
    BY DEF Matches
  <2>1. done.index[col] = With(entries, NoRow, r.row, Address(r), col)
    BY <1>0, <1>5 DEF Indexes
  <2>2. done.index[col] = [v \in DOMAIN entries[col] \cup {r.row[col]} |->
                              IF v = r.row[col] THEN Address(r) ELSE entries[col][v]]
    BY <1>1, <2>1 DEF With
  <2>3. \A s \in R : s.row[col] \in DOMAIN entries[col] /\ entries[col][s.row[col]] = Address(s)
    BY DEF Matches
  <2>4. r.row[col] \notin DOMAIN entries[col]
    BY <1>3, <1>5
  <2>5. DOMAIN done.index[col] = DOMAIN entries[col] \cup {r.row[col]}
    BY <2>2
  <2>6. ASSUME NEW s \in R
        PROVE  s.row[col] \in DOMAIN done.index[col] /\ done.index[col][s.row[col]] = Address(s)
    <3>1. s.row[col] # r.row[col]
      BY <2>3, <2>4
    <3> QED
      BY <2>2, <2>3, <2>5, <3>1
  <2>7. r.row[col] \in DOMAIN done.index[col] /\ done.index[col][r.row[col]] = Address(r)
    BY <2>2, <2>5
  <2>8. DOMAIN done.index[col] = {s.row[col] : s \in R \cup {r}}
    BY <1>2, <2>5
  <2> QED
    BY <2>6, <2>7, <2>8
<1>6. ASSUME ~done.ok, \A c, d \in Indexed : c = d PROVE Matches(R, done.index)
  <2>1. \A col \in Indexed : done.index[col] = entries[col]
    BY <1>0, <1>6 DEF Indexes
  <2> QED
    BY <2>1 DEF Matches
<1> QED
  BY <1>4, <1>5, <1>6 DEF Enters

\* A row with new values is a row; it has the new values, and its own where none
\* are set.
LEMMA UpdatedIs ==
    ASSUME NEW row \in Rows, NEW change \in Changes, TypesFit(change)
    PROVE  /\ Updated(row, change) \in Rows
           /\ \A col \in DOMAIN change : Updated(row, change)[col] = change[col]
           /\ \A col \in DOMAIN Schema \ DOMAIN change : Updated(row, change)[col] = row[col]
<1>1. Updated(row, change) \in Rows
  BY TableAssumption
<1>2. DOMAIN row = DOMAIN Schema
  <2>1. Validate(row, Schema) = "ok" /\ IsARow(row) /\ IsASchema(Schema)
    BY SchemaAssumption DEF Rows, IsARow, IsASchema
  <2>2. Len(row) = Len(Schema)
    BY <2>1, ValidRow
  <2>3. DOMAIN row = 1..Len(row) /\ DOMAIN Schema = 1..Len(Schema)
    BY <2>1, LenProperties DEF IsARow, IsASchema, IsASequence
  <2> QED
    BY <2>2, <2>3
<1>0. DOMAIN change \subseteq DOMAIN Schema
  BY TableAssumption
<1>3. \A col \in DOMAIN change : Updated(row, change)[col] = change[col]
  BY <1>0, <1>2 DEF Updated
<1>4. \A col \in DOMAIN row \ DOMAIN change : Updated(row, change)[col] = row[col]
  BY DEF Updated
<1> QED
  BY <1>1, <1>2, <1>3, <1>4

\* A row gets new values, at another place only when the indexes are told of it
\* for every indexed column.
\* Record r becomes n, and the indexes on the columns that change are told.
IsMove(R, entries, r, n, change, turn, cols, done) ==
    /\ Apart(R) /\ Matches(R, entries) /\ r \in R /\ n \in Record
    /\ change \in Changes /\ TypesFit(change) /\ n.row = Updated(r.row, change)
    /\ cols = Indexed \cap DOMAIN change
    /\ Indexed \subseteq cols \/ Address(n) = Address(r)
    /\ \A s \in R \ {r}, col \in cols : s.row[col] # change[col]
    /\ done = UpdateIndex(entries, cols, turn, r.row, n.row, Address(n))

LEMMA MatchesMoved ==
    ASSUME NEW R, NEW entries, NEW r, NEW n, NEW change, NEW turn, NEW cols, NEW done,
           IsMove(R, entries, r, n, change, turn, cols, done)
    PROVE  done.ok /\ Matches((R \ {r}) \cup {n}, done.index)
<1>0. /\ Apart(R) /\ Matches(R, entries) /\ r \in R /\ n \in Record
      /\ change \in Changes /\ TypesFit(change) /\ n.row = Updated(r.row, change)
      /\ cols = Indexed \cap DOMAIN change
      /\ Indexed \subseteq cols \/ Address(n) = Address(r)
      /\ \A s \in R \ {r}, col \in cols : s.row[col] # change[col]
      /\ done = UpdateIndex(entries, cols, turn, r.row, n.row, Address(n))
  BY DEF IsMove
<1> USE <1>0
<1>1. /\ r.row \in Rows /\ r.row # NoRow /\ cols \in SUBSET Indexed
      /\ \A col \in cols : n.row[col] = change[col]
      /\ \A col \in Indexed \ cols : n.row[col] = r.row[col]
  <2>1. r.row \in Rows /\ r.row # NoRow
    BY TableAssumption DEF Apart, Record
  <2>2. Indexed \subseteq DOMAIN Schema
    BY TableAssumption
  <2> QED
    BY <2>1, <2>2, UpdatedIs
<1>2. Indexes(done, entries, cols, turn, r.row, n.row, Address(n))
  BY <1>1, UpdateIndexIs
<1>3. \A col \in Indexed : /\ DOMAIN entries[col] = {s.row[col] : s \in R}
                           /\ \A s \in R : entries[col][s.row[col]] = Address(s)
  BY DEF Matches
<1>4. \A col \in Indexed : \A s \in R \ {r} : s.row[col] # r.row[col]
  BY ValuesDiffer
<1>5. ASSUME NEW col \in Indexed
      PROVE  /\ DOMAIN Without(entries, r.row, col) = {s.row[col] : s \in R \ {r}}
             /\ \A s \in R \ {r} : Without(entries, r.row, col)[s.row[col]] = Address(s)
  <2>1. Without(entries, r.row, col)
            = [v \in DOMAIN entries[col] \cap (DOMAIN entries[col] \ {r.row[col]}) |-> entries[col][v]]
    BY <1>1 DEF Without, Restrict
  <2>2. DOMAIN entries[col] \cap (DOMAIN entries[col] \ {r.row[col]}) = {s.row[col] : s \in R \ {r}}
    BY <1>3, <1>4
  <2> QED
    BY <1>3, <2>1, <2>2
<1>6. \A col \in cols : \A s \in R \ {r} : s.row[col] # n.row[col]
  BY <1>1
<1>7. done.ok
  <2>1. ASSUME NEW col \in cols PROVE n.row[col] \notin DOMAIN Without(entries, r.row, col)
    <3>1. DOMAIN Without(entries, r.row, col) = {s.row[col] : s \in R \ {r}}
      BY <1>5
    <3>2. \A s \in R \ {r} : s.row[col] # n.row[col]
      BY <1>6
    <3> QED
      BY <3>1, <3>2
  <2> QED
    BY <1>2, <2>1 DEF Indexes
<1>8. ASSUME NEW col \in Indexed
      PROVE  /\ \A s \in (R \ {r}) \cup {n} : /\ s.row[col] \in DOMAIN done.index[col]
                                              /\ done.index[col][s.row[col]] = Address(s)
             /\ DOMAIN done.index[col] = {s.row[col] : s \in (R \ {r}) \cup {n}}
  <2>1. CASE col \in cols
    <3>1. done.index[col] = With(entries, r.row, n.row, Address(n), col)
      BY <1>2, <1>7, <2>1 DEF Indexes
    <3>2. PICK kept : kept = Without(entries, r.row, col)
      OBVIOUS
    <3>3. done.index[col] = [v \in DOMAIN kept \cup {n.row[col]} |->
                                IF v = n.row[col] THEN Address(n) ELSE kept[v]]
      BY <3>1, <3>2 DEF With
    <3>4. DOMAIN kept = {s.row[col] : s \in R \ {r}}
          /\ \A s \in R \ {r} : kept[s.row[col]] = Address(s)
      BY <1>5, <3>2
    <3>5. \A s \in R \ {r} : s.row[col] # n.row[col]
      BY <1>6, <2>1
    <3> HIDE <3>2
    <3>6. DOMAIN done.index[col] = DOMAIN kept \cup {n.row[col]}
      BY <3>3
    <3>7. \A s \in R \ {r} : /\ s.row[col] \in DOMAIN done.index[col]
                             /\ done.index[col][s.row[col]] = Address(s)
      BY <3>3, <3>4, <3>5
    <3>8. /\ n.row[col] \in DOMAIN done.index[col]
          /\ done.index[col][n.row[col]] = Address(n)
      BY <3>3
    <3>9. DOMAIN done.index[col] = {s.row[col] : s \in (R \ {r}) \cup {n}}
      BY <3>4, <3>6
    <3> QED
      BY <3>7, <3>8, <3>9
  <2>2. CASE col \notin cols
    <3>1. done.index[col] = entries[col]
      BY <1>2, <1>7, <2>2 DEF Indexes
    <3>2. n.row[col] = r.row[col] /\ Address(n) = Address(r)
      BY <1>1, <2>2
    <3>3. \A s \in (R \ {r}) \cup {n} : s.row[col] \in DOMAIN entries[col]
                                        /\ entries[col][s.row[col]] = Address(s)
      BY <1>3, <3>2
    <3>4. {s.row[col] : s \in (R \ {r}) \cup {n}} = {s.row[col] : s \in R}
      BY <3>2
    <3> QED
      BY <1>3, <3>1, <3>3, <3>4
  <2> QED
    BY <2>1, <2>2
<1> QED
  BY <1>7, <1>8 DEF Matches

\* The values of deleted rows are deleted.
Trimmed(left, entries, D) ==
    \A col \in Indexed :
        left[col] = Restrict(entries[col], DOMAIN entries[col] \ {r.row[col] : r \in D})

LEMMA MatchesDeleted ==
    ASSUME NEW R, Apart(R), NEW entries, Matches(R, entries), NEW D \in SUBSET R,
           NEW left, Trimmed(left, entries, D)
    PROVE  Matches(R \ D, left)
<1> SUFFICES ASSUME NEW col \in Indexed
             PROVE  /\ \A s \in R \ D : /\ s.row[col] \in DOMAIN left[col]
                                        /\ left[col][s.row[col]] = Address(s)
                    /\ DOMAIN left[col] = {s.row[col] : s \in R \ D}
  BY DEF Matches
<1>1. /\ DOMAIN entries[col] = {s.row[col] : s \in R}
      /\ \A s \in R : entries[col][s.row[col]] = Address(s)
  BY DEF Matches
<1>2. PICK gone : gone = {r.row[col] : r \in D}
  OBVIOUS
<1>3. left[col] = [v \in DOMAIN entries[col] \cap (DOMAIN entries[col] \ gone) |-> entries[col][v]]
  BY <1>2 DEF Restrict, Trimmed
<1>4. \A s \in R : s.row[col] \in gone <=> s \in D
  BY <1>2, ValuesDiffer
<1> HIDE <1>2
<1> QED
  BY <1>1, <1>3, <1>4

---------------------------------------------------------------------------
(* update writes a row over the old one when no Varchar changes, which is      *)
(* possible because such rows have equally many bytes.                         *)

Longer(bytes, row, n) == Len(bytes[n]) = Len(bytes[n - 1]) + Len(SerializeCell(row[n]))

LEMMA FixedSize ==
    ASSUME NEW cell, IsACell(cell), cell.raw # "Varchar"
    PROVE  Len(SerializeCell(cell)) = IF cell.raw = "Int" THEN 4 ELSE 1
<1>1. CASE cell = IntCell(cell.value)
  <2>1. cell.raw = "Int"
    BY <1>1 DEF IntCell
  <2> QED
    BY <1>1, <2>1, IntIsBytes
<1>2. CASE cell = ByteCell(cell.value)
  <2>1. cell.raw = "Byte"
    BY <1>2 DEF ByteCell
  <2> QED
    BY <1>2, <2>1, ByteIsBytes
<1>3. CASE cell = VarcharCell(cell.value)
  BY <1>3 DEF VarcharCell
<1> QED
  BY <1>1, <1>2, <1>3 DEF IsACell

LEMMA SameLength ==
    ASSUME NEW a, IsARow(a), NEW b, IsARow(b), Len(a) = Len(b),
           \A i \in DOMAIN a : a[i] = b[i] \/ (a[i].raw = b[i].raw /\ a[i].raw # "Varchar")
    PROVE  Len(Serialize(a)) = Len(Serialize(b))
<1> DEFINE N == Len(a)
<1>1. N \in Nat /\ DOMAIN a = 1..N /\ \A n \in 1..N : IsACell(a[n]) /\ SerializeCell(a[n]) \in Seq(BytesOf(a))
  BY RowsAreSequences
<1>2. \A n \in 1..N : IsACell(b[n]) /\ SerializeCell(b[n]) \in Seq(BytesOf(b))
  BY RowsAreSequences
<1>3. PICK f \in [0..N -> Seq(BytesOf(a))] : Grows(f, a) /\ Serialize(a) = f[N]
  BY SerializeDef
<1>4. PICK g \in [0..N -> Seq(BytesOf(b))] : Grows(g, b) /\ Serialize(b) = g[N]
  BY SerializeDef
<1>5. ASSUME NEW n \in 1..N PROVE Len(SerializeCell(a[n])) = Len(SerializeCell(b[n]))
  <2>1. CASE a[n] = b[n]
    BY <2>1
  <2>2. CASE a[n].raw = b[n].raw /\ a[n].raw # "Varchar"
    BY <1>1, <1>2, <2>2, FixedSize
  <2> QED
    BY <1>1, <2>1, <2>2
<1>6. ASSUME NEW B, NEW h \in [0..N -> Seq(B)], NEW c, Grows(h, c), Len(c) = N,
             NEW n \in 1..N, SerializeCell(c[n]) \in Seq(B)
      PROVE  Longer(h, c, n)
  <2>1. h[n] = h[n - 1] \o SerializeCell(c[n])
    BY <1>6 DEF Grows
  <2>2. n - 1 \in 0..N
    BY <1>1
  <2>3. h[n - 1] \in Seq(B)
    BY <2>2
  <2> QED
    BY <1>6, <2>1, <2>3, ConcatProperties DEF Longer
<1>7. Len(f[0]) = 0 /\ Len(g[0]) = 0
  BY <1>3, <1>4 DEF Grows
<1>8. ASSUME NEW n \in 1..N
      PROVE  /\ Len(f[n]) = Len(f[n - 1]) + Len(SerializeCell(a[n]))
             /\ Len(g[n]) = Len(g[n - 1]) + Len(SerializeCell(b[n]))
  <2>1. Len(f[n]) = Len(f[n - 1]) + Len(SerializeCell(a[n]))
    <3>1. Longer(f, a, n)
      BY <1>1, <1>3, <1>6
    <3> QED
      BY <3>1 DEF Longer
  <2>2. Len(g[n]) = Len(g[n - 1]) + Len(SerializeCell(b[n]))
    <3>1. Longer(g, b, n)
      BY <1>2, <1>4, <1>6
    <3> QED
      BY <3>1 DEF Longer
  <2> QED
    BY <2>1, <2>2
<1> DEFINE S == {n \in Nat : n <= N => Len(f[n]) = Len(g[n])}
<1>9. 0 \in S
  BY <1>7
<1>10. ASSUME NEW n \in Nat, n \in S PROVE n + 1 \in S
  <2>1. CASE n + 1 <= N
    <3>1. n + 1 \in 1..N /\ (n + 1) - 1 = n /\ Len(f[n]) = Len(g[n])
      BY <1>1, <1>10, <2>1
    <3>2. PICK k : k = n + 1
      OBVIOUS
    <3>3. Len(f[k]) = Len(f[n]) + Len(SerializeCell(a[k]))
      BY <1>8, <3>1, <3>2
    <3>4. Len(g[k]) = Len(g[n]) + Len(SerializeCell(b[k]))
      BY <1>8, <3>1, <3>2
    <3>5. Len(f[k]) = Len(g[k])
      BY <1>5, <3>1, <3>2, <3>3, <3>4
    <3> QED
      BY <3>2, <3>5
  <2> QED
    BY <2>1
<1> HIDE DEF S
<1>11. N \in S
  BY <1>1, <1>9, <1>10, SetInduction
<1> QED
  BY <1>1, <1>3, <1>4, <1>11 DEF S

\* A change of no Varchar leaves a row its length.
LEMMA LengthStays ==
    ASSUME NEW row \in Rows, NEW change \in Changes, TypesFit(change),
           DOMAIN change \cap VarSized = {}
    PROVE  RowLength[Updated(row, change)] = RowLength[row]
<1> DEFINE new == Updated(row, change)
<1>1. /\ IsARow(row) /\ IsARow(new) /\ Validate(row, Schema) = "ok" /\ Validate(new, Schema) = "ok"
      /\ new \in Rows /\ row \in Rows
  BY SchemaAssumption, UpdatedIs DEF Rows, IsARow
<1> HIDE DEF new
<1>2. Len(row) = Len(Schema) /\ Len(new) = Len(Schema)
  BY <1>1, ValidRow
<1>3. DOMAIN row = 1..Len(row) /\ DOMAIN Schema = 1..Len(Schema)
  BY SchemaAssumption, LenProperties DEF IsARow, IsASequence
<1>4. ASSUME NEW i \in DOMAIN row
      PROVE  row[i] = new[i] \/ (row[i].raw = new[i].raw /\ row[i].raw # "Varchar")
  <2>1. i \in DOMAIN Schema
    BY <1>2, <1>3
  <2>2. row[i].raw = Schema[i].col_type.raw /\ new[i].raw = Schema[i].col_type.raw
    <3>1. IsOfType(row[i], Schema[i].col_type) /\ IsOfType(new[i], Schema[i].col_type)
      BY <1>1, <2>1, ValidRow
    <3> QED
      BY <3>1 DEF IsOfType
  <2>3. CASE i \in DOMAIN change
    <3>1. i \notin VarSized
      BY <2>3
    <3> QED
      BY <2>1, <2>2, <3>1 DEF VarSized
  <2>4. CASE i \notin DOMAIN change
    BY <2>1, <2>4, UpdatedIs DEF new
  <2> QED
    BY <2>3, <2>4
<1>5. Len(Serialize(row)) = Len(Serialize(new))
  BY <1>1, <1>2, <1>4, SameLength
<1> QED
  BY <1>1, <1>5 DEF RowLength, new

---------------------------------------------------------------------------
(* The records that a scan finds. *)

ScanOf(h, query) ==
    UNION {{[page |-> id, slot |-> i, row |-> h[id][i].row] :
                i \in {i \in DOMAIN h[id] : h[id][i].row \in query}} :
              id \in PageIds(h)}

LEMMA ScanIs ==
    ASSUME NEW h \in Heaps, NEW query \in SUBSET Rows
    PROVE  ScanOf(h, query) = {r \in Records(h) : r.row \in query}
<1>1. ASSUME NEW r \in ScanOf(h, query) PROVE r \in Records(h) /\ r.row \in query
  <2>1. PICK id \in PageIds(h) :
            r \in {[page |-> id, slot |-> i, row |-> h[id][i].row] :
                      i \in {i \in DOMAIN h[id] : h[id][i].row \in query}}
    BY <1>1 DEF ScanOf
  <2>2. PICK i \in DOMAIN h[id] :
            h[id][i].row \in query /\ r = [page |-> id, slot |-> i, row |-> h[id][i].row]
    BY <2>1
  <2>3. id \in 1..Len(h) /\ h[id] \in Seq(Slot)
    <3>1. id \in 1..Len(h)
      BY DEF PageIds
    <3>2. h[id] \in Pages
      BY <3>1, ElementOfSeq DEF Heaps
    <3> QED
      BY <3>1, <3>2 DEF Pages
  <2>4. i \in 1..Len(h[id]) /\ ~h[id][i].deleted
    <3>1. i \in 1..Len(h[id]) /\ h[id][i].row \in Rows
      BY <2>2, <2>3, PageFacts
    <3> QED
      BY <2>3, <3>1, PageFacts
  <2>5. At(h, id, i, h[id][i].row)
    BY <2>3, <2>4 DEF At, OnPage
  <2>6. RecordOf(id, i, h[id][i].row) \in Records(h)
    BY <2>5, RecordsAre
  <2> QED
    BY <2>2, <2>6 DEF RecordOf
<1>2. ASSUME NEW r \in Records(h), r.row \in query PROVE r \in ScanOf(h, query)
  <2>1. /\ r = RecordOf(r.page, r.slot, r.row)
        /\ r.page \in 1..Len(h) /\ r.slot \in 1..Len(h[r.page]) /\ h[r.page] \in Seq(Slot)
        /\ h[r.page][r.slot].row = r.row
    BY RecordsAre
  <2>2. PICK id, i : id = r.page /\ i = r.slot
    OBVIOUS
  <2>3. id \in PageIds(h) /\ i \in DOMAIN h[id] /\ h[id][i].row \in query
    BY <1>2, <2>1, <2>2, PageFacts DEF PageIds
  <2>4. r = [page |-> id, slot |-> i, row |-> h[id][i].row]
    BY <2>1, <2>2 DEF RecordOf
  <2> QED
    BY <2>3, <2>4 DEF ScanOf
<1>3. Records(h) \subseteq Record
  BY DEF Records
<1> QED
  BY <1>1, <1>2

---------------------------------------------------------------------------
(* raw_insert *)

IsState(st) ==
    st = [heap |-> st.heap, index |-> st.index, reply |-> st.reply, moved |-> st.moved]

\* done is the state st with the row inserted at a free place, unless the indexes
\* refuse it.
Inserts(st, done, row, cols, turn, old) ==
    \E new \in Record : \E result :
        /\ result = UpdateIndex(st.index, cols, turn, old, row, Address(new))
        /\ new.row = row
        /\ \A r \in Records(st.heap) : Address(r) # Address(new)
        /\ IsState(done) /\ done.heap \in Heaps
        /\ Records(done.heap) = IF result.ok THEN Records(st.heap) \cup {new} ELSE Records(st.heap)
        /\ done.index = result.index
        /\ done.reply = IF result.ok THEN "ok" ELSE "duplicate"
        /\ done.moved = st.moved

\* "Critical": nothing was done.
GivesUp(st, done) ==
    /\ IsState(done) /\ done.heap = st.heap /\ done.index = st.index
    /\ done.reply = "critical"

LEMMA RawInsertIntoIs ==
    ASSUME NEW st, IsState(st), st.heap \in Heaps, NEW row \in Rows, NEW cols, NEW turn, NEW old,
           NEW h, h = st.heap, NEW id \in 1..(Len(h) + 1), CanInsert(PageOf(h, id), RowLength[row]),
           NEW done, done = RawInsertInto(st, row, cols, turn, old, id)
    PROVE  Inserts(st, done, row, cols, turn, old)
<1>1. h = st.heap
  OBVIOUS
<1>2. h \in Heaps /\ Len(h) \in Nat
  BY <1>1, RecordsAre
<1>3. id \in 1..(Len(h) + 1) /\ CanInsert(PageOf(h, id), RowLength[row])
  OBVIOUS
<1>4. PICK page, i, new :
          /\ page = PageOf(h, id)
          /\ i = SlotFor(page, RowLength[row])
          /\ new = RecordOf(id, i, row)
  OBVIOUS
<1>5. PICK result : result = UpdateIndex(st.index, cols, turn, old, row, Address(new))
  OBVIOUS
<1>6. Address(new) = [page |-> id, slot |-> i] /\ new.row = row
  BY <1>4 DEF Address, RecordOf
<1>7. PICK p, g : p = (IF result.ok THEN WithRecord(page, Live(row)) ELSE page) /\ g = Written(h, id, p)
  OBVIOUS
<1>8. done = [st EXCEPT !.heap = g, !.index = result.index,
                        !.reply = IF result.ok THEN "ok" ELSE "duplicate"]
  BY <1>1, <1>3, <1>4, <1>5, <1>6, <1>7 DEF RawInsertInto, PageOf
<1>9. /\ IsState(done) /\ done.heap = g /\ done.index = result.index /\ done.moved = st.moved
      /\ done.reply = IF result.ok THEN "ok" ELSE "duplicate"
  <2> HIDE <1>1, <1>4, <1>5, <1>6, <1>7
  <2>1. PICK sh, si, sr, sm : st = [heap |-> sh, index |-> si, reply |-> sr, moved |-> sm]
    BY DEF IsState
  <2>2. PICK reply1 : reply1 = IF result.ok THEN "ok" ELSE "duplicate"
    OBVIOUS
  <2>3. done = [heap |-> g, index |-> result.index, reply |-> reply1, moved |-> sm]
    BY <1>8, <2>1, <2>2
  <2> QED
    BY <2>1, <2>2, <2>3 DEF IsState
<1>10. PICK put : put = Written(h, id, WithRecord(PageOf(h, id), Live(row)))
  OBVIOUS
<1>11. /\ put \in Heaps /\ new \in Record
       /\ Records(put) = Records(h) \cup {new}
       /\ \A r \in Records(h) : Address(r) # Address(new)
  <2>1. i = SlotFor(PageOf(h, id), RowLength[row])
    BY <1>4
  <2>2. new = RecordOf(id, i, row)
    BY <1>4
  <2> HIDE <1>1, <1>4, <1>5, <1>6, <1>7, <1>8, <1>9
  <2> QED
    BY <1>2, <1>3, <1>10, <2>1, <2>2, RecordsInserted
<1>12. g \in Heaps /\ Records(g) = IF result.ok THEN Records(h) \cup {new} ELSE Records(h)
  <2>1. CASE result.ok
    BY <1>4, <1>7, <1>10, <1>11, <2>1
  <2>2. CASE ~result.ok
    <3>1. g = Written(h, id, PageOf(h, id))
      BY <1>4, <1>7, <2>2
    <3> HIDE <1>1, <1>4, <1>5, <1>6, <1>7, <1>8, <1>9
    <3> QED
      BY <1>2, <1>3, <2>2, <3>1, RecordsUntouched
  <2> QED
    BY <2>1, <2>2
<1>13. \A r \in Records(st.heap) : Address(r) # Address(new)
  BY <1>1, <1>11
<1>14. Records(done.heap) = IF result.ok THEN Records(st.heap) \cup {new} ELSE Records(st.heap)
  BY <1>1, <1>9, <1>12
<1> QED
  BY <1>5, <1>6, <1>9, <1>11, <1>12, <1>13, <1>14 DEF Inserts

LEMMA RawInsertIs ==
    ASSUME NEW st, IsState(st), st.heap \in Heaps, NEW row \in Rows, NEW cols, NEW turn, NEW old,
           NEW done \in RawInsert(st, row, cols, turn, old)
    PROVE  GivesUp(st, done) \/ Inserts(st, done, row, cols, turn, old)
<1>1. PICK id \in FindAvailablePage(st.heap, RowLength[row]) :
          done = RawInsertInto(st, row, cols, turn, old, id)
  BY DEF RawInsert
<1>2. PICK h : h = st.heap
  OBVIOUS
<1>3. h \in Heaps /\ Len(h) \in Nat
  BY <1>2, RecordsAre
<1>4. id \in 1..(Len(h) + 1)
  BY <1>1, <1>2, <1>3 DEF FindAvailablePage, PageIds
<1>5. CASE CanInsert(PageOf(h, id), RowLength[row])
  <2>1. Inserts(st, done, row, cols, turn, old)
    BY <1>1, <1>2, <1>4, <1>5, RawInsertIntoIs
  <2> QED
    BY <2>1
<1>6. CASE ~CanInsert(PageOf(h, id), RowLength[row])
  <2>1. done = [st EXCEPT !.reply = "critical"]
    BY <1>1, <1>2, <1>6 DEF RawInsertInto, PageOf
  <2>2. PICK sh, si, sr, sm : st = [heap |-> sh, index |-> si, reply |-> sr, moved |-> sm]
    BY DEF IsState
  <2>3. done = [heap |-> sh, index |-> si, reply |-> "critical", moved |-> sm]
    BY <2>1, <2>2
  <2> QED
    BY <2>2, <2>3 DEF IsState, GivesUp
<1> QED
  BY <1>5, <1>6

---------------------------------------------------------------------------
(* The inductive invariant, for the heap and the indexes as values. *)

InStep(h, entries) == h \in Heaps /\ Matches(Records(h), entries)

LEMMA HeapApart ==
    ASSUME NEW h \in Heaps
    PROVE  Apart(Records(h))
  BY RecordsAre DEF Apart, Records

\* A row is inserted: it is there, or a row has one of its values.
IsInserted(st, done, row, clash) ==
    /\ InStep(done.heap, done.index)
    /\ done.reply = IF clash THEN "duplicate" ELSE "ok"
    /\ \E new \in Record :
          /\ new.row = row
          /\ Records(done.heap) = IF clash THEN Records(st.heap) ELSE Records(st.heap) \cup {new}

LEMMA InsertIs ==
    ASSUME NEW st, IsState(st), InStep(st.heap, st.index), NEW row \in Rows, NEW turn \in Turns,
           NEW done, Inserts(st, done, row, Indexed, turn, NoRow),
           NEW clash, clash = (\E s \in Records(st.heap) : \E col \in Indexed : s.row[col] = row[col]),
           (\A c, d \in Indexed : c = d) \/ ~clash
    PROVE  IsInserted(st, done, row, clash)
<1>1. st.heap \in Heaps /\ Matches(Records(st.heap), st.index)
  BY DEF InStep
<1>2. PICK R : R = Records(st.heap)
  OBVIOUS
<1>3. Inserts(st, done, row, Indexed, turn, NoRow)
  OBVIOUS
<1>4. PICK new \in Record : \E result :
        /\ result = UpdateIndex(st.index, Indexed, turn, NoRow, row, Address(new))
        /\ new.row = row
        /\ done.heap \in Heaps
        /\ Records(done.heap) = IF result.ok THEN R \cup {new} ELSE R
        /\ done.index = result.index
        /\ done.reply = IF result.ok THEN "ok" ELSE "duplicate"
  BY <1>2, <1>3 DEF Inserts
<1>5. PICK result :
        /\ result = UpdateIndex(st.index, Indexed, turn, NoRow, row, Address(new))
        /\ new.row = row
        /\ done.heap \in Heaps
        /\ Records(done.heap) = IF result.ok THEN R \cup {new} ELSE R
        /\ done.index = result.index
        /\ done.reply = IF result.ok THEN "ok" ELSE "duplicate"
  BY <1>4
<1>6. result = UpdateIndex(st.index, Indexed, turn, NoRow, new.row, Address(new))
  BY <1>5
<1>7. Matches(R, st.index)
  BY <1>1, <1>2
<1>8. /\ result.ok <=> \A s \in R : \A col \in Indexed : s.row[col] # new.row[col]
      /\ result.ok => Matches(R \cup {new}, result.index)
      /\ (~result.ok /\ \A c, d \in Indexed : c = d) => Matches(R, result.index)
  <2>1. Enters(R, new, result)
    BY <1>6, <1>7, MatchesInserted
  <2> QED
    BY <2>1 DEF Enters
<1>9. result.ok = ~clash
  <2>1. result.ok \in BOOLEAN
    BY <1>5 DEF UpdateIndex
  <2> QED
    BY <1>2, <1>5, <1>8, <2>1
<1>10. Matches(Records(done.heap), done.index)
  <2>1. CASE clash
    BY <1>5, <1>8, <1>9, <2>1
  <2>2. CASE ~clash
    BY <1>5, <1>8, <1>9, <2>2
  <2> QED
    BY <2>1, <2>2
<1> QED
  BY <1>2, <1>5, <1>9, <1>10 DEF InStep, IsInserted

---------------------------------------------------------------------------
(* update of one record *)

\* done is st with the record r replaced by one with this row, or with r deleted
\* and the row put off.
Placed(st, done, r, row) ==
    \E new \in Record :
        /\ new.row = row /\ new \notin Records(st.heap) \ {r}
        /\ Records(done.heap) = (Records(st.heap) \ {r}) \cup {new}
        /\ Matches(Records(done.heap), done.index)
        /\ done.moved = st.moved

PutOff(st, done, r, row) ==
    /\ Records(done.heap) = Records(st.heap) \ {r}
    /\ done.index = st.index
    /\ done.moved = Append(st.moved, [old |-> r.row, new |-> row])

UpdateIsSafe(R, r, change) ==
    /\ change \in Changes /\ TypesFit(change)
    /\ DOMAIN change \cap VarSized # {} => Indexed \subseteq DOMAIN change
    /\ \A s \in R \ {r}, col \in KeysChanged(change) : s.row[col] # change[col]

LEMMA StateIs ==
    ASSUME NEW st, IsState(st), NEW h, NEW entries, NEW reply1, NEW moved1
    PROVE  /\ [st EXCEPT !.heap = h, !.index = entries]
                  = [heap |-> h, index |-> entries, reply |-> st.reply, moved |-> st.moved]
           /\ [st EXCEPT !.heap = h, !.moved = moved1]
                  = [heap |-> h, index |-> st.index, reply |-> st.reply, moved |-> moved1]
<1>1. PICK sh, si, sr, sm : st = [heap |-> sh, index |-> si, reply |-> sr, moved |-> sm]
  BY DEF IsState
<1>2. st.reply = sr /\ st.moved = sm /\ st.index = si
  BY <1>1
<1>3. PICK a, b : /\ a = [st EXCEPT !.heap = h, !.index = entries]
                  /\ b = [st EXCEPT !.heap = h, !.moved = moved1]
  OBVIOUS
<1>4. a = [heap |-> h, index |-> entries, reply |-> sr, moved |-> sm]
  BY <1>1, <1>3
<1>5. b = [heap |-> h, index |-> si, reply |-> sr, moved |-> moved1]
  BY <1>1, <1>3
<1> QED
  BY <1>2, <1>3, <1>4, <1>5

LEMMA RecordUpdatedInPlace ==
    ASSUME NEW st, IsState(st), InStep(st.heap, st.index), st.reply = "ok",
           NEW r \in Records(st.heap), NEW change, UpdateIsSafe(Records(st.heap), r, change),
           DOMAIN change \cap VarSized = {},
           NEW row, row = Updated(r.row, change),
           NEW done, done = UpdateInPlace(st, r, change)
    PROVE  IsState(done) /\ done.heap \in Heaps /\ done.reply = "ok" /\ Placed(st, done, r, row)
<1>1. PICK h, R : h = st.heap /\ R = Records(h)
  OBVIOUS
<1>2. h \in Heaps /\ Matches(R, st.index) /\ Apart(R) /\ r \in R
  BY <1>1, HeapApart DEF InStep
<1>3. /\ r.row \in Rows /\ row \in Rows /\ change \in Changes /\ TypesFit(change)
      /\ RowLength[row] = RowLength[r.row]
  <2>1. r.row \in Rows
    BY <1>2 DEF Apart, Record
  <2>2. change \in Changes /\ TypesFit(change)
    BY DEF UpdateIsSafe
  <2> QED
    BY <2>1, <2>2, UpdatedIs, LengthStays
<1>4. PICK new : new = RecordOf(r.page, r.slot, row)
  OBVIOUS
<1>5. Address(new) = Address(r) /\ new.row = row
  BY <1>4 DEF Address, RecordOf
<1>6. PICK g : g = [h EXCEPT ![r.page] = [h[r.page] EXCEPT ![r.slot] = Live(row)]]
  OBVIOUS
<1>7. /\ g \in Heaps /\ new \in Record
      /\ Records(g) = (R \ {r}) \cup {new}
      /\ \A s \in R \ {r} : Address(s) # Address(new)
  <2>1. r \in Records(h)
    BY <1>1, <1>2
  <2>2. /\ g \in Heaps /\ new \in Record
        /\ Records(g) = (Records(h) \ {r}) \cup {new}
        /\ \A s \in Records(h) \ {r} : Address(s) # Address(new)
    <3>1. h \in Heaps /\ row \in Rows /\ RowLength[row] = RowLength[r.row]
      BY <1>2, <1>3
    <3>2. Replaced(h, g, r, new)
      <4> HIDE <1>1, <1>2, <1>3, <1>5
      <4> QED
        BY <3>1, <1>4, <1>6, <2>1, RecordsReplaced
    <3> QED
      BY <3>2 DEF Replaced
  <2> QED
    BY <1>1, <2>2
<1>8. ~h[r.page][r.slot].deleted /\ h[r.page][r.slot].length = RowLength[row]
  BY <1>1, <1>2, <1>3, RecordsAre
<1>9. PICK result : result = UpdateIndex(st.index, KeysChanged(change), InSchemaTurn, r.row, row, Address(r))
  OBVIOUS
<1>10. result.ok /\ Matches((R \ {r}) \cup {new}, result.index)
  <2>1. PICK cols : cols = KeysChanged(change)
    OBVIOUS
  <2>2. result = UpdateIndex(st.index, cols, InSchemaTurn, r.row, new.row, Address(new))
    BY <1>5, <1>9, <2>1
  <2>3. cols = Indexed \cap DOMAIN change
    BY <2>1 DEF KeysChanged
  <2>4. \A s \in R \ {r}, col \in cols : s.row[col] # change[col]
    BY <1>1, <2>1 DEF UpdateIsSafe
  <2>5. new.row = Updated(r.row, change) /\ (Indexed \subseteq cols \/ Address(new) = Address(r))
    BY <1>5
  <2>6. new \in Record /\ change \in Changes /\ TypesFit(change)
    BY <1>3, <1>7
  <2> HIDE <1>1, <1>3, <1>4, <1>5, <1>6, <1>7, <1>8, <1>9, <2>1
  <2>7. IsMove(R, st.index, r, new, change, InSchemaTurn, cols, result)
    BY <1>2, <2>2, <2>3, <2>4, <2>5, <2>6 DEF IsMove
  <2> QED
    BY <2>7, MatchesMoved
<1>11. done = [st EXCEPT !.heap = g, !.index = result.index]
  <2>1. Address(r) = [page |-> r.page, slot |-> r.slot]
    BY DEF Address
  <2>2. result = UpdateIndex(st.index, KeysChanged(change), InSchemaTurn, r.row, Updated(r.row, change),
                             [page |-> r.page, slot |-> r.slot])
    BY <1>9, <2>1
  <2>3. done = [st EXCEPT !.heap[r.page][r.slot] = Live(row), !.index = result.index]
    BY <1>1, <1>8, <1>10, <2>2 DEF UpdateInPlace
  <2>4. [st EXCEPT !.heap[r.page][r.slot] = Live(row), !.index = result.index]
            = [st EXCEPT !.heap = [st.heap EXCEPT ![r.page] = [st.heap[r.page] EXCEPT ![r.slot] = Live(row)]],
                         !.index = result.index]
    <3>1. PICK sh, si, sr, sm : st = [heap |-> sh, index |-> si, reply |-> sr, moved |-> sm]
      BY DEF IsState
    <3> QED
      BY <3>1
  <2> QED
    BY <1>1, <1>6, <2>3, <2>4
<1>12. /\ IsState(done) /\ done.heap = g /\ done.index = result.index
       /\ done.reply = "ok" /\ done.moved = st.moved
  <2>1. done = [heap |-> g, index |-> result.index, reply |-> st.reply, moved |-> st.moved]
    BY <1>11, StateIs
  <2> QED
    BY <2>1 DEF IsState
<1>13. new \notin R \ {r}
  BY <1>7
<1> QED
  BY <1>1, <1>5, <1>7, <1>10, <1>12, <1>13 DEF Placed

LEMMA RecordUpdatedElsewhere ==
    ASSUME NEW st, IsState(st), InStep(st.heap, st.index), st.reply = "ok",
           NEW r \in Records(st.heap), NEW change, UpdateIsSafe(Records(st.heap), r, change),
           DOMAIN change \cap VarSized # {},
           NEW row, row = Updated(r.row, change),
           NEW done, done = UpdateElsewhere(st, r, change)
    PROVE  /\ IsState(done) /\ done.heap \in Heaps /\ done.reply = "ok"
           /\ Placed(st, done, r, row) \/ PutOff(st, done, r, row)
<1>1. PICK h, R : h = st.heap /\ R = Records(h)
  OBVIOUS
<1>2. h \in Heaps /\ Matches(R, st.index) /\ Apart(R) /\ r \in R
  BY <1>1, HeapApart DEF InStep
<1>3. /\ r.row \in Rows /\ row \in Rows /\ change \in Changes /\ TypesFit(change)
      /\ r.page \in 1..Len(h) /\ Len(h) \in Nat
  <2>1. r.row \in Rows
    BY <1>2 DEF Apart, Record
  <2>2. change \in Changes /\ TypesFit(change)
    BY DEF UpdateIsSafe
  <2> QED
    BY <1>1, <1>2, <2>1, <2>2, UpdatedIs, RecordsAre
<1>4. PICK page, taken : page = Emptied(h[r.page], r.slot) /\ taken = [h EXCEPT ![r.page] = page]
  OBVIOUS
<1>5. taken \in Heaps /\ Records(taken) = R \ {r} /\ Len(taken) = Len(h)
  BY <1>1, <1>2, <1>4, RecordsDeleted
<1>6. taken[r.page] = page /\ r.page \in PageIds(taken)
  <2>1. DOMAIN h = 1..Len(h)
    BY <1>2, LenProperties DEF Heaps
  <2> QED
    BY <1>3, <1>4, <1>5, <2>1 DEF PageIds
<1>7. PICK put, i, new :
          /\ put = [h EXCEPT ![r.page] = WithRecord(page, Live(row))]
          /\ i = SlotFor(page, RowLength[row])
          /\ new = RecordOf(r.page, i, row)
  OBVIOUS
<1>8. ASSUME CanInsert(page, RowLength[row])
      PROVE  /\ put \in Heaps /\ new \in Record
             /\ Records(put) = (R \ {r}) \cup {new}
             /\ \A s \in R \ {r} : Address(s) # Address(new)
  <2>1. PageOf(taken, r.page) = page
    BY <1>6 DEF PageOf
  <2>2. put = Written(taken, r.page, WithRecord(PageOf(taken, r.page), Live(row)))
    BY <1>4, <1>6, <1>7, <2>1 DEF Written
  <2>3. i = SlotFor(PageOf(taken, r.page), RowLength[row])
    BY <1>7, <2>1
  <2>4. r.page \in 1..(Len(taken) + 1)
    BY <1>3, <1>5
  <2>5. new = RecordOf(r.page, i, row)
    BY <1>7
  <2>6. /\ put \in Heaps /\ new \in Record
        /\ Records(put) = Records(taken) \cup {new}
        /\ \A s \in Records(taken) : Address(s) # Address(new)
    <3>1. CanInsert(PageOf(taken, r.page), RowLength[row])
      BY <1>8, <2>1
    <3> HIDE <1>1, <1>4, <1>7
    <3> QED
      BY <1>3, <1>5, <2>2, <2>3, <2>4, <2>5, <3>1, RecordsInserted
  <2> QED
    BY <1>5, <2>6
<1>9. Address(new) = [page |-> r.page, slot |-> i] /\ new.row = row
  BY <1>7 DEF Address, RecordOf
<1>10. PICK result : result = UpdateIndex(st.index, KeysChanged(change), InSchemaTurn, r.row, row, Address(new))
  OBVIOUS
<1>11. ASSUME CanInsert(page, RowLength[row])
       PROVE  result.ok /\ Matches((R \ {r}) \cup {new}, result.index)
  <2>1. PICK cols : cols = KeysChanged(change)
    OBVIOUS
  <2>2. result = UpdateIndex(st.index, cols, InSchemaTurn, r.row, new.row, Address(new))
    BY <1>9, <1>10, <2>1
  <2>3. cols = Indexed \cap DOMAIN change
    BY <2>1 DEF KeysChanged
  <2>4. \A s \in R \ {r}, col \in cols : s.row[col] # change[col]
    BY <1>1, <2>1 DEF UpdateIsSafe
  <2>5. new.row = Updated(r.row, change) /\ Indexed \subseteq cols
    BY <1>9, <2>3 DEF UpdateIsSafe
  <2>6. new \in Record /\ change \in Changes /\ TypesFit(change)
    BY <1>3, <1>8, <1>11
  <2> HIDE <1>1, <1>3, <1>4, <1>5, <1>6, <1>7, <1>8, <1>9, <1>10, <2>1
  <2>7. IsMove(R, st.index, r, new, change, InSchemaTurn, cols, result)
    BY <1>2, <2>2, <2>3, <2>4, <2>5, <2>6 DEF IsMove
  <2> QED
    BY <2>7, MatchesMoved
<1>12. result = UpdateIndex(st.index, KeysChanged(change), InSchemaTurn, r.row, row,
                            [page |-> r.page, slot |-> i])
  BY <1>9, <1>10
<1>13. PICK sh, si, sr, sm : st = [heap |-> sh, index |-> si, reply |-> sr, moved |-> sm]
  BY DEF IsState
<1>14. CASE CanInsert(page, RowLength[row])
  <2>1. done = [st EXCEPT !.heap[r.page] = WithRecord(page, Live(row)), !.index = result.index]
    BY <1>1, <1>4, <1>7, <1>11, <1>12, <1>14 DEF UpdateElsewhere
  <2>2. done = [heap |-> [sh EXCEPT ![r.page] = WithRecord(page, Live(row))],
                index |-> result.index, reply |-> sr, moved |-> sm]
    BY <1>13, <2>1
  <2>3. sh = h /\ sm = st.moved /\ sr = "ok"
    BY <1>1, <1>13
  <2>4. /\ IsState(done) /\ done.heap = put /\ done.index = result.index
        /\ done.reply = "ok" /\ done.moved = st.moved
    BY <1>7, <2>2, <2>3 DEF IsState
  <2>5. new \notin R \ {r}
    BY <1>8, <1>14
  <2> QED
    BY <1>1, <1>8, <1>9, <1>11, <1>14, <2>4, <2>5 DEF Placed
<1>15. CASE ~CanInsert(page, RowLength[row])
  <2>1. done = [st EXCEPT !.heap[r.page] = page,
                          !.moved = Append(@, [old |-> r.row, new |-> row])]
    BY <1>1, <1>4, <1>15 DEF UpdateElsewhere
  <2>2. done = [heap |-> [sh EXCEPT ![r.page] = page], index |-> si, reply |-> sr,
                moved |-> Append(sm, [old |-> r.row, new |-> row])]
    BY <1>13, <2>1
  <2>3. sh = h /\ sm = st.moved /\ sr = "ok" /\ si = st.index
    BY <1>1, <1>13
  <2>4. /\ IsState(done) /\ done.heap = taken /\ done.index = st.index
        /\ done.reply = "ok" /\ done.moved = Append(st.moved, [old |-> r.row, new |-> row])
    BY <1>4, <2>2, <2>3 DEF IsState
  <2> QED
    BY <1>1, <1>5, <2>4 DEF PutOff
<1> QED
  BY <1>14, <1>15

LEMMA RecordUpdated ==
    ASSUME NEW st, IsState(st), InStep(st.heap, st.index), st.reply = "ok",
           NEW r \in Records(st.heap), NEW change, UpdateIsSafe(Records(st.heap), r, change),
           NEW row, row = Updated(r.row, change),
           NEW done, done = UpdateRecord(st, r, change)
    PROVE  /\ IsState(done) /\ done.heap \in Heaps /\ done.reply = "ok"
           /\ \/ Placed(st, done, r, row)
              \/ PutOff(st, done, r, row) /\ DOMAIN change \cap VarSized # {}
<1>1. CASE DOMAIN change \cap VarSized = {}
  <2>1. done = UpdateInPlace(st, r, change)
    BY <1>1 DEF UpdateRecord
  <2> QED
    BY <1>1, <2>1, RecordUpdatedInPlace
<1>2. CASE DOMAIN change \cap VarSized # {}
  <2>1. done = UpdateElsewhere(st, r, change)
    BY <1>2 DEF UpdateRecord
  <2> QED
    BY <1>2, <2>1, RecordUpdatedElsewhere
<1> QED
  BY <1>1, <1>2

---------------------------------------------------------------------------
(* An update halfway: the records Left are still to be updated, the Done ones  *)
(* are, except for those PutAside that wait until all pages are done.          *)

\* What safe clients change: some of the records, without a clash.
Clean(Others, Found, change) ==
    /\ Apart(Others \cup Found) /\ Others \cap Found = {}
    /\ change \in Changes /\ TypesFit(change)
    /\ DOMAIN change \cap VarSized # {} => Indexed \subseteq DOMAIN change
    /\ KeysChanged(change) # {} =>
          /\ \A r, s \in Found : r = s
          /\ \A s \in Others, col \in KeysChanged(change) : s.row[col] # change[col]

MovedRow(row, change) == [old |-> row, new |-> Updated(row, change)]
MovedRows(change)     == {MovedRow(row, change) : row \in Rows}

\* New are the records with new rows.
RowsKept(h, New, Others, Left, Done, PutAside, change) ==
    /\ New \subseteq Record /\ New \cap Left = {}
    /\ Records(h) = Others \cup Left \cup New
    /\ {r.row : r \in New} \cup {m.new : m \in PutAside} = {Updated(r.row, change) : r \in Done}

\* Where there are indexes, they match the records, or they match what the records
\* were before the only one that is updated was put aside.
IndexKept(st, New, Others, Left, Done, PutAside, change) ==
    \/ Indexed = {}
    \/ PutAside = {} /\ Matches(Records(st.heap), st.index)
    \/ \E r \in Record :
          /\ Done = {r} /\ Left = {} /\ New = {}
          /\ PutAside = {MovedRow(r.row, change)} /\ st.moved = <<MovedRow(r.row, change)>>
          /\ DOMAIN change \cap VarSized # {}
          /\ Matches(Others \cup {r}, st.index)

Halfway(st, Others, Left, Done, PutAside, change) ==
    /\ IsState(st) /\ st.heap \in Heaps /\ st.reply = "ok"
    /\ st.moved \in Seq(MovedRows(change))
    /\ \E New : /\ RowsKept(st.heap, New, Others, Left, Done, PutAside, change)
                /\ IndexKept(st, New, Others, Left, Done, PutAside, change)

LEMMA RangeOfAppend ==
    ASSUME NEW S, NEW s \in Seq(S), NEW e \in S
    PROVE  /\ Append(s, e) \in Seq(S)
           /\ Range(Append(s, e)) = Range(s) \cup {e}
<1>1. /\ Append(s, e) \in Seq(S) /\ Len(Append(s, e)) = Len(s) + 1
      /\ \A i \in 1..Len(s) : Append(s, e)[i] = s[i]
      /\ Append(s, e)[Len(s) + 1] = e
  BY AppendProperties
<1>2. Len(s) \in Nat /\ DOMAIN s = 1..Len(s) /\ DOMAIN Append(s, e) = 1..(Len(s) + 1)
  BY <1>1, LenProperties
<1> QED
  BY <1>1, <1>2 DEF Range

LEMMA NoMatch ==
    ASSUME Indexed = {}, NEW R, NEW entries
    PROVE  Matches(R, entries)
  BY DEF Matches

\* The next record is updated, or put aside.
LEMMA OneUpdated ==
    ASSUME NEW Others, NEW Found, NEW change, Clean(Others, Found, change),
           NEW Left, NEW Done, Left \cup Done = Found, Left \cap Done = {},
           NEW r \in Left, NEW st, Halfway(st, Others, Left, Done, Range(st.moved), change),
           NEW done, done = UpdateRecord(st, r, change)
    PROVE  Halfway(done, Others, Left \ {r}, Done \cup {r}, Range(done.moved), change)
<1>1. /\ IsState(st) /\ st.heap \in Heaps /\ st.reply = "ok"
      /\ st.moved \in Seq(MovedRows(change))
  BY DEF Halfway
<1>2. PICK New : /\ RowsKept(st.heap, New, Others, Left, Done, Range(st.moved), change)
                 /\ IndexKept(st, New, Others, Left, Done, Range(st.moved), change)
  BY DEF Halfway
<1>3. PICK R, M : R = Records(st.heap) /\ M = Range(st.moved)
  OBVIOUS
<1>4. /\ New \subseteq Record /\ New \cap Left = {} /\ R = Others \cup Left \cup New
      /\ {s.row : s \in New} \cup {m.new : m \in M} = {Updated(s.row, change) : s \in Done}
  BY <1>2, <1>3 DEF RowsKept
<1>5. Indexed = {} \/ (M = {} /\ Matches(R, st.index))
  BY <1>2, <1>3 DEF IndexKept
<1>6. Matches(R, st.index)
  BY <1>5, NoMatch
<1>7. r \in R /\ r \notin Others /\ r \notin New /\ r \in Record /\ r.row \in Rows
  BY <1>4 DEF Clean, Apart, Record
<1>8. UpdateIsSafe(R, r, change)
  <2>1. ASSUME NEW s \in R \ {r}, NEW col \in KeysChanged(change) PROVE s.row[col] # change[col]
    <3>1. Left = {r} /\ Done = {}
      BY <2>1 DEF Clean
    <3>2. New = {}
      BY <1>4, <3>1
    <3>3. s \in Others
      BY <1>4, <3>1, <3>2
    <3> QED
      BY <3>3 DEF Clean
  <2> QED
    BY <2>1 DEF UpdateIsSafe, Clean
<1>9. PICK row : row = Updated(r.row, change)
  OBVIOUS
<1>10. /\ IsState(done) /\ done.heap \in Heaps /\ done.reply = "ok"
       /\ \/ Placed(st, done, r, row)
          \/ PutOff(st, done, r, row) /\ DOMAIN change \cap VarSized # {}
  <2>1. InStep(st.heap, st.index) /\ r \in Records(st.heap) /\ UpdateIsSafe(Records(st.heap), r, change)
    BY <1>1, <1>3, <1>6, <1>7, <1>8 DEF InStep
  <2> HIDE <1>2, <1>3, <1>4
  <2> QED
    BY <1>1, <1>9, <2>1, RecordUpdated
<1>11. {Updated(s.row, change) : s \in Done \cup {r}} = {Updated(s.row, change) : s \in Done} \cup {row}
  BY <1>9
<1>12. CASE Placed(st, done, r, row)
  <2>1. PICK new \in Record :
            /\ new.row = row /\ new \notin R \ {r}
            /\ Records(done.heap) = (R \ {r}) \cup {new}
            /\ Matches(Records(done.heap), done.index)
            /\ done.moved = st.moved
    BY <1>3, <1>12 DEF Placed
  <2>2. {s.row : s \in New \cup {new}} = {s.row : s \in New} \cup {row}
    BY <2>1
  <2>3. RowsKept(done.heap, New \cup {new}, Others, Left \ {r}, Done \cup {r}, M, change)
    <3>1. (New \cup {new}) \cap (Left \ {r}) = {}
      BY <1>4, <2>1
    <3>2. Records(done.heap) = Others \cup (Left \ {r}) \cup (New \cup {new})
      BY <1>4, <1>7, <2>1
    <3>3. {s.row : s \in New \cup {new}} \cup {m.new : m \in M}
              = {Updated(s.row, change) : s \in Done \cup {r}}
      BY <1>4, <1>11, <2>2
    <3> QED
      BY <1>4, <3>1, <3>2, <3>3 DEF RowsKept
  <2>4. IndexKept(done, New \cup {new}, Others, Left \ {r}, Done \cup {r}, M, change)
    BY <1>5, <2>1 DEF IndexKept
  <2> QED
    BY <1>1, <1>3, <1>10, <2>1, <2>3, <2>4 DEF Halfway
<1>13. CASE PutOff(st, done, r, row) /\ DOMAIN change \cap VarSized # {}
  <2>1. PICK m : m = MovedRow(r.row, change)
    OBVIOUS
  <2>2. m \in MovedRows(change) /\ m.new = row /\ m = [old |-> r.row, new |-> row]
    BY <1>7, <1>9, <2>1 DEF MovedRow, MovedRows
  <2>3. /\ Records(done.heap) = R \ {r}
        /\ done.index = st.index
        /\ done.moved = Append(st.moved, m)
    BY <1>3, <1>13, <2>2 DEF PutOff
  <2>4. done.moved \in Seq(MovedRows(change)) /\ Range(done.moved) = M \cup {m}
    BY <1>1, <1>3, <2>2, <2>3, RangeOfAppend
  <2>5. RowsKept(done.heap, New, Others, Left \ {r}, Done \cup {r}, M \cup {m}, change)
    <3>1. Records(done.heap) = Others \cup (Left \ {r}) \cup New
      BY <1>4, <1>7, <2>3
    <3>2. {s.row : s \in New} \cup {k.new : k \in M \cup {m}}
              = {Updated(s.row, change) : s \in Done \cup {r}}
      BY <1>4, <1>11, <2>2
    <3> QED
      BY <1>4, <3>1, <3>2 DEF RowsKept
  <2>6. IndexKept(done, New, Others, Left \ {r}, Done \cup {r}, M \cup {m}, change)
    <3>1. CASE Indexed = {}
      BY <3>1 DEF IndexKept
    <3>2. CASE Indexed # {}
      <4>1. KeysChanged(change) # {}
        BY <1>13, <3>2 DEF Clean, KeysChanged
      <4>2. Left = {r} /\ Done = {}
        BY <4>1 DEF Clean
      <4>3. New = {} /\ M = {}
        BY <1>4, <4>2
      <4>4. st.moved = << >>
        <5>1. Len(st.moved) \in Nat /\ DOMAIN st.moved = 1..Len(st.moved)
          BY <1>1, LenProperties
        <5>2. \A i \in 1..Len(st.moved) : st.moved[i] \in M
          BY <1>3, <5>1 DEF Range
        <5>3. Len(st.moved) = 0
          BY <4>3, <5>1, <5>2
        <5> QED
          BY <1>1, <5>3, EmptySeq
      <4>5. done.moved = <<m>>
        BY <2>3, <4>4
      <4>6. Matches(Others \cup {r}, done.index)
        BY <1>4, <1>6, <2>3, <4>2, <4>3
      <4> QED
        BY <1>7, <1>13, <2>1, <4>2, <4>3, <4>5, <4>6 DEF IndexKept
    <3> QED
      BY <3>1, <3>2
  <2> QED
    BY <1>10, <2>4, <2>5, <2>6 DEF Halfway
<1> QED
  BY <1>10, <1>12, <1>13

\* A row that was put aside is inserted; Rest are the others.
LEMMA OneInserted ==
    ASSUME NEW Others, NEW Found, NEW change, Clean(Others, Found, change),
           NEW m \in MovedRows(change), NEW Rest, Indexed # {} => Rest = {},
           NEW st, Halfway(st, Others, {}, Found, Rest \cup {m}, change),
           NEW done \in RawInsert(st, m.new, KeysChanged(change), InSchemaTurn, m.old),
           done.reply # "critical"
    PROVE  Halfway(done, Others, {}, Found, Rest, change) /\ done.moved = st.moved
<1>1. /\ IsState(st) /\ st.heap \in Heaps /\ st.moved \in Seq(MovedRows(change))
  BY DEF Halfway
<1>2. PICK New : /\ RowsKept(st.heap, New, Others, {}, Found, Rest \cup {m}, change)
                 /\ IndexKept(st, New, Others, {}, Found, Rest \cup {m}, change)
  BY DEF Halfway
<1>3. PICK R, keys : R = Records(st.heap) /\ keys = KeysChanged(change)
  OBVIOUS
<1>4. /\ New \subseteq Record /\ R = Others \cup New
      /\ {s.row : s \in New} \cup {k.new : k \in Rest \cup {m}} = {Updated(s.row, change) : s \in Found}
  BY <1>2, <1>3 DEF RowsKept
<1>5. PICK old \in Rows : m = MovedRow(old, change)
  BY DEF MovedRows
<1>6. m.old = old /\ m.new = Updated(old, change) /\ m.new \in Rows
  <2>1. change \in Changes /\ TypesFit(change)
    BY DEF Clean
  <2> QED
    BY <1>5, <2>1, UpdatedIs DEF MovedRow
<1>7. Inserts(st, done, m.new, keys, InSchemaTurn, m.old)
  <2>1. done \in RawInsert(st, m.new, keys, InSchemaTurn, m.old)
    BY <1>3
  <2> HIDE <1>2, <1>3, <1>4, <1>5
  <2>2. GivesUp(st, done) \/ Inserts(st, done, m.new, keys, InSchemaTurn, m.old)
    BY <1>1, <1>6, <2>1, RawInsertIs
  <2> QED
    BY <2>2 DEF GivesUp
<1>0. PICK new \in Record : \E result :
        /\ result = UpdateIndex(st.index, keys, InSchemaTurn, m.old, m.new, Address(new))
        /\ new.row = m.new
        /\ IsState(done) /\ done.heap \in Heaps
        /\ Records(done.heap) = IF result.ok THEN R \cup {new} ELSE R
        /\ done.index = result.index
        /\ done.reply = IF result.ok THEN "ok" ELSE "duplicate"
        /\ done.moved = st.moved
  BY <1>3, <1>7 DEF Inserts
<1>8. PICK result :
        /\ result = UpdateIndex(st.index, keys, InSchemaTurn, m.old, m.new, Address(new))
        /\ new.row = m.new
        /\ IsState(done) /\ done.heap \in Heaps
        /\ Records(done.heap) = IF result.ok THEN R \cup {new} ELSE R
        /\ done.index = result.index
        /\ done.reply = IF result.ok THEN "ok" ELSE "duplicate"
        /\ done.moved = st.moved
  BY <1>0
<1>9. ASSUME Indexed # {}
      PROVE  result.ok /\ Matches(Others \cup {new}, result.index) /\ New = {} /\ Rest = {}
  <2>1. PICK r \in Record :
            /\ Found = {r} /\ New = {}
            /\ Rest \cup {m} = {MovedRow(r.row, change)}
            /\ DOMAIN change \cap VarSized # {}
            /\ Matches(Others \cup {r}, st.index)
    BY <1>2, <1>9 DEF IndexKept
  <2>2. m.old = r.row /\ m.new = Updated(r.row, change)
    BY <2>1 DEF MovedRow
  <2>3. PICK S : S = Others \cup {r}
    OBVIOUS
  <2>4. r \in S /\ S \ {r} = Others /\ Apart(S) /\ Matches(S, st.index)
    BY <2>1, <2>3 DEF Clean
  <2>5. keys = Indexed \cap DOMAIN change /\ Indexed \subseteq keys
    BY <1>3, <2>1 DEF Clean, KeysChanged
  <2>6. \A s \in S \ {r}, col \in keys : s.row[col] # change[col]
    BY <1>3, <1>9, <2>4, <2>5 DEF Clean
  <2>7. change \in Changes /\ TypesFit(change)
    BY DEF Clean
  <2>8. new.row = Updated(r.row, change) /\ (Indexed \subseteq keys \/ Address(new) = Address(r))
    BY <1>8, <2>2, <2>5
  <2>9. result = UpdateIndex(st.index, keys, InSchemaTurn, r.row, new.row, Address(new))
    BY <1>8, <2>2
  <2>10. result.ok /\ Matches((S \ {r}) \cup {new}, result.index)
    <3> HIDE <1>2, <1>3, <1>4, <1>5, <1>6, <1>8, <2>1, <2>2, <2>3
    <3>1. IsMove(S, st.index, r, new, change, InSchemaTurn, keys, result)
      BY <2>4, <2>5, <2>6, <2>7, <2>8, <2>9 DEF IsMove
    <3> QED
      BY <3>1, MatchesMoved
  <2> QED
    BY <1>9, <2>1, <2>4, <2>10
<1>10. ASSUME Indexed = {} PROVE result.ok
  <2>1. keys = {}
    BY <1>3, <1>10 DEF KeysChanged
  <2>2. keys \in SUBSET Indexed
    BY <2>1
  <2>3. Indexes(result, st.index, keys, InSchemaTurn, m.old, m.new, Address(new))
    BY <1>8, <2>2, UpdateIndexIs
  <2> QED
    BY <2>1, <2>3 DEF Indexes
<1>11. result.ok
  BY <1>9, <1>10
<1>12. Records(done.heap) = R \cup {new} /\ done.reply = "ok"
  BY <1>8, <1>11
<1>13. {s.row : s \in New \cup {new}} = {s.row : s \in New} \cup {m.new}
  BY <1>8
<1>14. RowsKept(done.heap, New \cup {new}, Others, {}, Found, Rest, change)
  <2>1. Records(done.heap) = Others \cup {} \cup (New \cup {new})
    BY <1>4, <1>12
  <2>2. {k.new : k \in Rest \cup {m}} = {k.new : k \in Rest} \cup {m.new}
    OBVIOUS
  <2>3. {s.row : s \in New \cup {new}} \cup {k.new : k \in Rest} = {Updated(s.row, change) : s \in Found}
    BY <1>4, <1>13, <2>2
  <2> QED
    BY <1>4, <2>1, <2>3 DEF RowsKept
<1>15. IndexKept(done, New \cup {new}, Others, {}, Found, Rest, change)
  <2>1. CASE Indexed = {}
    BY <2>1 DEF IndexKept
  <2>2. CASE Indexed # {}
    <3>1. Rest = {} /\ Matches(Others \cup {new}, result.index) /\ New = {}
      BY <1>9, <2>2
    <3>2. Matches(Records(done.heap), done.index)
      BY <1>4, <1>8, <1>12, <3>1
    <3> QED
      BY <3>1, <3>2 DEF IndexKept
  <2> QED
    BY <2>1, <2>2
<1> QED
  BY <1>1, <1>8, <1>12, <1>14, <1>15 DEF Halfway

---------------------------------------------------------------------------
(* The records of an update one after the other, and then the rows put aside. *)

LEMMA AllUpdated ==
    ASSUME NEW Others, NEW Found, NEW change, Clean(Others, Found, change),
           NEW N \in Nat, NEW order \in [1..N -> Found], Len(order) = N,
           \A i, j \in 1..N : order[i] = order[j] => i = j,
           \A r \in Found : \E i \in 1..N : order[i] = r,
           NEW start, start = State, Halfway(start, Others, Found, {}, Range(start.moved), change),
           NEW done, done = UpdateRecords(order, change)
    PROVE  Halfway(done, Others, {}, Found, Range(done.moved), change)
<1> DEFINE Step(n, before) == IF before.reply # "ok" THEN before
                              ELSE UpdateRecord(before, order[n], change)
           Body(f) == [n \in 0..Len(order) |-> IF n = 0 THEN State ELSE Step(n, f[n - 1])]
           at      == CHOOSE f : f = Body(f)
           Follows(f, n) == f = [k \in 0..n |-> IF k = 0 THEN start ELSE Step(k, f[k - 1])]
<1>1. done = at[N]
  BY DEF UpdateRecords
<1> HIDE DEF Step
<1>2. \E f : Follows(f, N)
  <2> DEFINE S == {n \in Nat : \E f : Follows(f, n)}
  <2>1. 0 \in S
    <3>1. Follows([k \in 0..0 |-> start], 0)
      OBVIOUS
    <3> HIDE DEF Follows
    <3> QED
      BY <3>1
  <2>2. ASSUME NEW n \in Nat, n \in S PROVE n + 1 \in S
    <3>1. PICK f : Follows(f, n)
      BY <2>2
    <3> DEFINE h == [k \in 0..(n + 1) |-> IF k = n + 1 THEN Step(n + 1, f[n]) ELSE f[k]]
    <3>2. ASSUME NEW k \in 0..(n + 1)
          PROVE  h[k] = IF k = 0 THEN start ELSE Step(k, h[k - 1])
      <4>1. CASE k = 0
        BY <3>1, <4>1
      <4>2. CASE k = n + 1
        <5>1. k - 1 = n /\ n \in 0..(n + 1) /\ n # n + 1 /\ k # 0
          BY <4>2
        <5>2. h[n] = f[n]
          BY <5>1
        <5> QED
          BY <4>2, <5>1, <5>2
      <4>3. CASE k # 0 /\ k # n + 1
        <5>1. k \in 0..n /\ k - 1 \in 0..(n + 1) /\ k - 1 # n + 1
          BY <4>3
        <5>2. h[k] = f[k] /\ h[k - 1] = f[k - 1]
          BY <4>3, <5>1
        <5>3. f[k] = Step(k, f[k - 1])
          BY <3>1, <4>3, <5>1
        <5> QED
          BY <4>3, <5>2, <5>3
      <4> QED
        BY <4>1, <4>2, <4>3
    <3>3. Follows(h, n + 1)
      BY <3>2
    <3> HIDE DEF Follows, h
    <3> QED
      BY <3>3
  <2> HIDE DEF S
  <2>3. N \in S
    BY <2>1, <2>2, SetInduction
  <2> QED
    BY <2>3 DEF S
<1>3. at = Body(at)
  <2>1. \A f : Follows(f, N) <=> f = Body(f)
    OBVIOUS
  <2> HIDE DEF Follows, Body
  <2> QED
    BY <1>2, <2>1
<1> HIDE DEF at
<1>4. at[0] = start /\ \A n \in 1..N : at[n] = Step(n, at[n - 1])
  <2>1. 0 \in 0..N /\ \A n \in 1..N : n \in 0..N /\ n # 0
    OBVIOUS
  <2> QED
    BY <1>3, <2>1
<1> DEFINE Done(n) == {order[j] : j \in 1..n}
           Left(n) == {order[j] : j \in (n + 1)..N}
           Good(n) == Halfway(at[n], Others, Left(n), Done(n), Range(at[n].moved), change)
           S       == {n \in Nat : n <= N => Good(n)}
<1>5. 0 \in S
  <2>1. Left(0) = Found /\ Done(0) = {}
    OBVIOUS
  <2>2. Good(0)
    <3> HIDE DEF Left, Done
    <3> QED
      BY <1>4, <2>1
  <2> HIDE DEF Good
  <2> QED
    BY <2>2
<1>6. ASSUME NEW n \in Nat, n \in S PROVE n + 1 \in S
  <2> SUFFICES ASSUME n + 1 <= N PROVE Good(n + 1)
    OBVIOUS
  <2>1. n + 1 \in 1..N /\ (n + 1) - 1 = n
    OBVIOUS
  <2>2. Good(n)
    BY <1>6, <2>1
  <2>3. PICK r : r = order[n + 1]
    OBVIOUS
  <2>4. /\ Left(n + 1) = Left(n) \ {r} /\ Done(n + 1) = Done(n) \cup {r}
        /\ r \in Left(n) /\ Left(n) \cup Done(n) = Found /\ Left(n) \cap Done(n) = {}
    <3>1. \A j \in 1..N : (j \in (n + 1)..N <=> j \notin 1..n)
                          /\ (j \in 1..(n + 1) <=> (j \in 1..n \/ j = n + 1))
                          /\ (j \in (n + 2)..N <=> (j \in (n + 1)..N /\ j # n + 1))
      BY <2>1
    <3>2. (n + 1) + 1 = n + 2 /\ n + 1 \in (n + 1)..N
          /\ 1..n \subseteq 1..N /\ (n + 1)..N \subseteq 1..N /\ (n + 2)..N \subseteq 1..N
          /\ 1..(n + 1) \subseteq 1..N
      BY <2>1
    <3>3. Left(n + 1) = {order[j] : j \in (n + 2)..N}
      BY <3>2
    <3>4. \A j \in 1..N : order[j] = r <=> j = n + 1
      BY <2>1, <2>3
    <3>5. Left(n + 1) = Left(n) \ {r}
      BY <3>1, <3>2, <3>3, <3>4
    <3>6. Done(n + 1) = Done(n) \cup {r}
      BY <2>3, <3>1, <3>2
    <3>7. r \in Left(n)
      BY <2>3, <3>2
    <3>8. Left(n) \cup Done(n) = Found
      BY <3>1, <3>2
    <3>9. Left(n) \cap Done(n) = {}
      BY <3>1, <3>2
    <3> QED
      BY <3>5, <3>6, <3>7, <3>8, <3>9
  <2>5. PICK before, after : before = at[n] /\ after = at[n + 1]
    OBVIOUS
  <2> HIDE DEF Left, Done
  <2>6. PICK L, D : L = Left(n) /\ D = Done(n)
    OBVIOUS
  <2>7. Halfway(before, Others, L, D, Range(before.moved), change)
    BY <2>2, <2>5, <2>6
  <2>8. after = UpdateRecord(before, r, change)
    <3>1. before.reply = "ok"
      BY <2>7 DEF Halfway
    <3> QED
      BY <1>4, <2>1, <2>3, <2>5, <3>1 DEF Step
  <2>9. Halfway(after, Others, L \ {r}, D \cup {r}, Range(after.moved), change)
    <3>1. r \in L /\ L \cup D = Found /\ L \cap D = {}
      BY <2>4, <2>6
    <3> HIDE <2>2, <2>3, <2>4, <2>5, <2>6
    <3> QED
      BY <2>7, <2>8, <3>1, OneUpdated
  <2> QED
    BY <2>4, <2>5, <2>6, <2>9
<1> HIDE DEF S
<1>7. N \in S
  BY <1>5, <1>6, SetInduction
<1>8. Good(N)
  <2> HIDE DEF Good
  <2> QED
    BY <1>7 DEF S
<1>9. Left(N) = {} /\ Done(N) = Found
  OBVIOUS
<1> HIDE DEF Left, Done
<1> QED
  BY <1>1, <1>8, <1>9

LEMMA AllInserted ==
    ASSUME NEW Others, NEW Found, NEW change, Clean(Others, Found, change),
           NEW start, Halfway(start, Others, {}, Found, Range(start.moved), change),
           NEW done \in InsertMoved(start, change), done.reply # "critical"
    PROVE  Halfway(done, Others, {}, Found, {}, change)
<1> DEFINE moved == start.moved
           N     == Len(moved)
           After(n, before) == IF before.reply # "ok" THEN {before}
                               ELSE RawInsert(before, moved[n].new, KeysChanged(change), InSchemaTurn,
                                              moved[n].old)
           Step(n, befores) == UNION {After(n, before) : before \in befores}
           Body(f) == [n \in 0..Len(moved) |-> IF n = 0 THEN {start} ELSE Step(n, f[n - 1])]
           at      == CHOOSE f : f = Body(f)
           Follows(f, n) == f = [k \in 0..n |-> IF k = 0 THEN {start} ELSE Step(k, f[k - 1])]
<1>1. done \in at[N]
  BY DEF InsertMoved
<1>0. N \in Nat /\ \A n \in 1..N : moved[n] \in MovedRows(change)
  <2>1. moved \in Seq(MovedRows(change))
    BY DEF Halfway
  <2> QED
    BY <2>1, LenProperties, ElementOfSeq
<1>10. Range(moved) = {moved[j] : j \in 1..N}
  <2>1. DOMAIN moved = 1..N
    <3>1. moved \in Seq(MovedRows(change))
      BY DEF Halfway
    <3> QED
      BY <3>1, LenProperties
  <2> QED
    BY <2>1 DEF Range
<1>11. Indexed # {} => N <= 1
  <2>1. SUFFICES ASSUME Indexed # {} PROVE N <= 1
    OBVIOUS
  <2>2. PICK New : IndexKept(start, New, Others, {}, Found, Range(moved), change)
    BY DEF Halfway
  <2>3. Range(moved) = {} \/ \E m : moved = <<m>>
    BY <2>1, <2>2 DEF IndexKept
  <2>4. CASE Range(moved) = {}
    <3>1. \A j \in 1..N : FALSE
      BY <1>10, <2>4
    <3> QED
      BY <1>0, <3>1
  <2>5. ASSUME NEW m, moved = <<m>> PROVE N <= 1
    BY <2>5
  <2> QED
    BY <2>3, <2>4, <2>5
<1> HIDE DEF Step, After, moved, N
<1>2. \E f : Follows(f, N)
  <2> DEFINE S == {n \in Nat : \E f : Follows(f, n)}
  <2>1. 0 \in S
    <3>1. Follows([k \in 0..0 |-> {start}], 0)
      OBVIOUS
    <3> HIDE DEF Follows
    <3> QED
      BY <3>1
  <2>2. ASSUME NEW n \in Nat, n \in S PROVE n + 1 \in S
    <3>1. PICK f : Follows(f, n)
      BY <2>2
    <3> DEFINE h == [k \in 0..(n + 1) |-> IF k = n + 1 THEN Step(n + 1, f[n]) ELSE f[k]]
    <3>2. ASSUME NEW k \in 0..(n + 1)
          PROVE  h[k] = IF k = 0 THEN {start} ELSE Step(k, h[k - 1])
      <4>1. CASE k = 0
        BY <3>1, <4>1
      <4>2. CASE k = n + 1
        <5>1. k - 1 = n /\ n \in 0..(n + 1) /\ n # n + 1 /\ k # 0
          BY <4>2
        <5>2. h[n] = f[n]
          BY <5>1
        <5> QED
          BY <4>2, <5>1, <5>2
      <4>3. CASE k # 0 /\ k # n + 1
        <5>1. k \in 0..n /\ k - 1 \in 0..(n + 1) /\ k - 1 # n + 1
          BY <4>3
        <5>2. h[k] = f[k] /\ h[k - 1] = f[k - 1]
          BY <4>3, <5>1
        <5>3. f[k] = Step(k, f[k - 1])
          BY <3>1, <4>3, <5>1
        <5> QED
          BY <4>3, <5>2, <5>3
      <4> QED
        BY <4>1, <4>2, <4>3
    <3>3. Follows(h, n + 1)
      BY <3>2
    <3> HIDE DEF Follows, h
    <3> QED
      BY <3>3
  <2> HIDE DEF S
  <2>3. N \in S
    BY <1>0, <2>1, <2>2, SetInduction
  <2> QED
    BY <2>3 DEF S
<1>3. at = Body(at)
  <2>1. \A f : Follows(f, N) <=> f = Body(f)
    BY DEF N
  <2> HIDE DEF Follows, Body
  <2> QED
    BY <1>2, <2>1
<1> HIDE DEF at
<1>4. at[0] = {start} /\ \A n \in 1..N : at[n] = Step(n, at[n - 1])
  <2>1. 0 \in 0..N /\ \A n \in 1..N : n \in 0..N /\ n # 0
    BY <1>0
  <2>2. at = [n \in 0..N |-> IF n = 0 THEN {start} ELSE Step(n, at[n - 1])]
    BY <1>3 DEF N
  <2> QED
    BY <2>1, <2>2
<1> DEFINE Rest(n) == {moved[j] : j \in (n + 1)..N}
           Good(n) == \A st \in at[n] :
                          st.reply # "critical" => Halfway(st, Others, {}, Found, Rest(n), change)
           S       == {n \in Nat : n <= N => Good(n)}
<1>5. 0 \in S
  <2>1. Rest(0) = Range(moved)
    BY <1>10
  <2>2. Good(0)
    <3> HIDE DEF Rest
    <3> QED
      BY <1>4, <2>1 DEF moved
  <2> HIDE DEF Good
  <2> QED
    BY <2>2
<1>6. ASSUME NEW n \in Nat, n \in S PROVE n + 1 \in S
  <2> SUFFICES ASSUME n + 1 <= N PROVE Good(n + 1)
    OBVIOUS
  <2>1. n + 1 \in 1..N /\ (n + 1) - 1 = n
    BY <1>0
  <2>2. Good(n)
    BY <1>0, <1>6, <2>1
  <2>3. PICK m, L : m = moved[n + 1] /\ L = Rest(n + 1)
    OBVIOUS
  <2>4. Rest(n) = L \cup {m}
    <3>1. \A j \in (n + 1)..N : j = n + 1 \/ j \in ((n + 1) + 1)..N
      BY <1>0, <2>1
    <3>2. ((n + 1) + 1)..N \subseteq (n + 1)..N /\ n + 1 \in (n + 1)..N
      BY <1>0, <2>1
    <3> QED
      BY <2>3, <3>1, <3>2
  <2>5. Indexed # {} => L = {}
    <3>1. SUFFICES ASSUME Indexed # {} PROVE L = {}
      OBVIOUS
    <3>2. N <= 1
      BY <1>11, <3>1
    <3>3. \A j \in ((n + 1) + 1)..N : FALSE
      BY <1>0, <2>1, <3>2
    <3> QED
      BY <2>3, <3>3
  <2> HIDE DEF Rest
  <2>6. SUFFICES ASSUME NEW after \in at[n + 1], after.reply # "critical"
                 PROVE  Halfway(after, Others, {}, Found, L, change)
    BY <2>3
  <2>7. PICK before \in at[n] : after \in After(n + 1, before)
    <3>1. at[n + 1] = Step(n + 1, at[n])
      BY <1>4, <2>1
    <3> QED
      BY <2>6, <3>1 DEF Step
  <2>8. before.reply # "critical"
    BY <2>6, <2>7 DEF After
  <2>9. Halfway(before, Others, {}, Found, L \cup {m}, change)
    BY <2>2, <2>4, <2>7, <2>8
  <2>10. after \in RawInsert(before, m.new, KeysChanged(change), InSchemaTurn, m.old)
    <3>1. before.reply = "ok"
      BY <2>9 DEF Halfway
    <3> QED
      BY <2>3, <2>7, <3>1 DEF After
  <2>11. m \in MovedRows(change)
    BY <1>0, <2>1, <2>3
  <2> HIDE <2>2, <2>3, <2>4, <2>7
  <2> QED
    BY <2>5, <2>6, <2>9, <2>10, <2>11, OneInserted
<1> HIDE DEF S
<1>7. N \in S
  BY <1>0, <1>5, <1>6, SetInduction
<1>8. Good(N)
  <2> HIDE DEF Good
  <2> QED
    BY <1>0, <1>7 DEF S
<1>9. Rest(N) = {}
  BY <1>0
<1> HIDE DEF Rest
<1> QED
  BY <1>1, <1>8, <1>9

---------------------------------------------------------------------------
(* The steps of the table. *)

\* A heap has finitely many records.
LEMMA RecordsAreFinite ==
    ASSUME NEW h \in Heaps, NEW Found \in SUBSET Records(h)
    PROVE  IsFiniteSet(Found)
<1>1. Len(h) \in Nat /\ IsFiniteSet(1..Len(h))
  <2>1. Len(h) \in Nat
    BY RecordsAre
  <2> QED
    BY <2>1, FS_Interval
<1> DEFINE F == [id \in 1..Len(h) |-> {r \in Found : r.page = id}]
           T == {F[id] : id \in 1..Len(h)}
<1>2. ASSUME NEW id \in 1..Len(h) PROVE IsFiniteSet(F[id])
  <2> DEFINE slots == [r \in F[id] |-> r.slot]
             P     == 1..Len(h[id])
  <2>1. \A r \in F[id] : r \in Records(h) /\ r.page = id
    OBVIOUS
  <2>2. \A r \in F[id] : r.slot \in P
    BY <2>1, RecordsAre
  <2>3. \A r, s \in F[id] : r.slot = s.slot => r = s
    <3>1. \A r, s \in F[id] : r.slot = s.slot => Address(r) = Address(s)
      BY <2>1 DEF Address
    <3> QED
      BY <2>1, <3>1, RecordsAre
  <2>4. IsFiniteSet(P)
    <3>1. h[id] \in Seq(Slot)
      <4>1. h[id] \in Pages
        BY ElementOfSeq DEF Heaps
      <4> QED
        BY <4>1 DEF Pages
    <3>2. Len(h[id]) \in Nat
      BY <3>1, LenProperties
    <3> QED
      BY <3>2, FS_Interval
  <2> HIDE DEF F, P
  <2>5. slots \in Injection(F[id], P)
    BY <2>2, <2>3 DEF Injection, IsInjective
  <2> HIDE DEF slots
  <2> QED
    BY <2>4, <2>5, FS_Injection
<1>3. IsFiniteSet(T)
  <2>1. F \in Surjection(1..Len(h), T)
    <3>1. F \in [1..Len(h) -> T]
      OBVIOUS
    <3>2. \A t \in T : \E id \in 1..Len(h) : F[id] = t
      OBVIOUS
    <3> HIDE DEF F, T
    <3> QED
      BY <3>1, <3>2 DEF Surjection
  <2> HIDE DEF F, T
  <2> QED
    BY <1>1, <2>1, FS_Surjection
<1>4. \A t \in T : IsFiniteSet(t)
  BY <1>2
<1>5. Found = UNION T
  <2>1. \A r \in Found : r.page \in 1..Len(h)
    BY RecordsAre
  <2> QED
    BY <2>1
<1>6. IsFiniteSet(UNION T)
  <2> HIDE DEF T
  <2> QED
    BY <1>3, <1>4, FS_UNION
<1> QED
  BY <1>5, <1>6

RowsOf(h) == {r.row : r \in Records(h)}

\* What the promises of the table are proved from.
TableInv == heap \in Heaps /\ Matches(Records(heap), index)

LEMMA Scans ==
    ASSUME heap \in Heaps
    PROVE  \A query \in SUBSET Rows : Scan(query) = {r \in Records(heap) : r.row \in query}
<1>1. \A query : Scan(query) = ScanOf(heap, query)
  BY DEF Scan, ScanOf
<1> QED
  BY <1>1, ScanIs

LEMMA ScanRows ==
    ASSUME heap \in Heaps
    PROVE  Scan(Rows) = Records(heap)
<1>1. Scan(Rows) = {r \in Records(heap) : r.row \in Rows}
  BY Scans
<1> QED
  BY <1>1 DEF Records, Record

LEMMA ScanRowsNext ==
    ASSUME heap' \in Heaps
    PROVE  Scan(Rows)' = Records(heap')
<1>1. Scan(Rows)' = ScanOf(heap', Rows)
  BY DEF Scan, ScanOf
<1>2. ScanOf(heap', Rows) = {r \in Records(heap') : r.row \in Rows}
  BY ScanIs
<1> QED
  BY <1>1, <1>2 DEF Records, Record

LEMMA StateNow ==
    /\ IsState(State) /\ State.heap = heap /\ State.index = index
    /\ State.reply = "ok" /\ State.moved = << >>
  BY DEF State, IsState

LEMMA InsertStep ==
    ASSUME TableInv, NEW row \in Candidates, SafeInsert(row),
           NEW clash, clash = (\E s \in Records(heap) : \E col \in Indexed : s.row[col] = row[col])
    PROVE  /\ TableInv'
           /\ Records(heap) \subseteq Records(heap')
           /\ call' = [op |-> "insert", row |-> row]
           /\ IF Validate(row, Schema) # "ok" THEN reply' = "invalid" /\ RowsOf(heap') = RowsOf(heap)
              ELSE \/ reply' = "critical" /\ RowsOf(heap') = RowsOf(heap)
                   \/ IF clash THEN reply' = "duplicate" /\ RowsOf(heap') = RowsOf(heap)
                      ELSE reply' = "ok" /\ RowsOf(heap') = RowsOf(heap) \cup {row}
<1>1. Insert(row) /\ heap \in Heaps /\ Matches(Records(heap), index)
  BY DEF SafeInsert, TableInv
<1>2. call' = [op |-> "insert", row |-> row]
  BY <1>1 DEF Insert
<1>3. CASE Validate(row, Schema) # "ok"
  <2>1. reply' = "invalid" /\ heap' = heap /\ index' = index
    BY <1>1, <1>3 DEF Insert
  <2> QED
    BY <1>1, <1>2, <1>3, <2>1 DEF TableInv
<1>4. CASE Validate(row, Schema) = "ok"
  <2>0. PICK turn \in Turns : \E done \in RawInsert(State, row, Indexed, turn, NoRow) :
            heap' = done.heap /\ index' = done.index /\ reply' = done.reply
    BY <1>1, <1>4 DEF Insert, BecomesOneOf
  <2>1. PICK done \in RawInsert(State, row, Indexed, turn, NoRow) :
            heap' = done.heap /\ index' = done.index /\ reply' = done.reply
    BY <2>0
  <2>2. PICK start : start = State
    OBVIOUS
  <2>3. heap' = done.heap /\ index' = done.index /\ reply' = done.reply
    BY <2>1
  <2>4. IsState(start) /\ start.heap = heap /\ start.index = index
    BY <2>2, StateNow
  <2>5. row \in Rows
    BY <1>4 DEF Rows
  <2>6. (\A c, d \in Indexed : c = d) \/ ~clash
    <3>1. Scan(Rows) = Records(heap)
      BY <1>1, ScanRows
    <3> QED
      BY <3>1 DEF SafeInsert
  <2>7. clash = (\E s \in Records(start.heap) : \E col \in Indexed : s.row[col] = row[col])
    BY <2>4
  <2>8. InStep(start.heap, start.index)
    BY <1>1, <2>4 DEF InStep
  <2>9. GivesUp(start, done) \/ Inserts(start, done, row, Indexed, turn, NoRow)
    <3>1. done \in RawInsert(start, row, Indexed, turn, NoRow)
      BY <2>1, <2>2
    <3> QED
      BY <1>1, <2>4, <2>5, <3>1, RawInsertIs
  <2>16. CASE GivesUp(start, done)
    <3>1. heap' = heap /\ index' = index /\ reply' = "critical"
      BY <2>3, <2>4, <2>16 DEF GivesUp
    <3> QED
      BY <1>1, <1>2, <1>4, <3>1 DEF TableInv
  <2>17. SUFFICES ASSUME Inserts(start, done, row, Indexed, turn, NoRow)
               PROVE  /\ TableInv'
                      /\ Records(heap) \subseteq Records(heap')
                      /\ IF clash THEN reply' = "duplicate" /\ RowsOf(heap') = RowsOf(heap)
                         ELSE reply' = "ok" /\ RowsOf(heap') = RowsOf(heap) \cup {row}
    BY <1>2, <1>4, <2>9, <2>16
  <2>10. IsInserted(start, done, row, clash)
    <3> HIDE <1>1, <1>2, <1>4, <2>1, <2>2, <2>3, <2>9, <2>16
    <3> QED
      BY <2>4, <2>5, <2>6, <2>7, <2>8, <2>17, InsertIs
  <2>11. PICK new \in Record : new.row = row /\ Records(heap') = IF clash THEN Records(heap)
                                                                  ELSE Records(heap) \cup {new}
    BY <2>3, <2>4, <2>10 DEF IsInserted
  <2>12. TableInv'
    BY <2>3, <2>10 DEF TableInv, InStep, IsInserted
  <2>13. RowsOf(heap') = IF clash THEN RowsOf(heap) ELSE RowsOf(heap) \cup {row}
    BY <2>11 DEF RowsOf
  <2>14. Records(heap) \subseteq Records(heap')
    BY <2>11
  <2>15. reply' = IF clash THEN "duplicate" ELSE "ok"
    BY <2>3, <2>10 DEF IsInserted
  <2> HIDE <2>11
  <2> QED
    BY <2>12, <2>13, <2>14, <2>15
<1> QED
  BY <1>3, <1>4

LEMMA UpdateStep ==
    ASSUME TableInv, NEW query \in Queries, NEW change \in Changes, SafeUpdate(query, change),
           ~LosesRow
    PROVE  /\ TableInv'
           /\ {r \in Records(heap) : r.row \notin query} \subseteq Records(heap')
           /\ call' = [op |-> "update", query |-> query, change |-> change]
           /\ IF ~TypesFit(change) THEN reply' = "invalid" /\ RowsOf(heap') = RowsOf(heap)
              ELSE /\ reply' = "ok"
                   /\ RowsOf(heap') = (RowsOf(heap) \ query)
                          \cup {Updated(row, change) : row \in RowsOf(heap) \cap query}
<1>1. heap \in Heaps /\ Matches(Records(heap), index) /\ UpdateFound(query, Scan(query), change)
  BY DEF SafeUpdate, TableInv
<1>2. call' = [op |-> "update", query |-> query, change |-> change] /\ Update(Scan(query), change)
  BY <1>1 DEF UpdateFound
<1>3. CASE ~TypesFit(change)
  <2>1. reply' = "invalid" /\ heap' = heap /\ index' = index
    BY <1>2, <1>3 DEF Update
  <2> QED
    BY <1>1, <1>2, <1>3, <2>1 DEF TableInv
<1>4. CASE TypesFit(change)
  <2>1. PICK Found, Others : /\ Found = {r \in Records(heap) : r.row \in query}
                             /\ Others = {r \in Records(heap) : r.row \notin query}
    OBVIOUS
  <2>2. Scan(query) = Found /\ Scan(Rows \ query) = Others
    <3>1. query \in SUBSET Rows /\ Rows \ query \in SUBSET Rows
      BY TableAssumption
    <3>2. Scan(query) = {r \in Records(heap) : r.row \in query}
      BY <1>1, <3>1, Scans
    <3>3. Scan(Rows \ query) = {r \in Records(heap) : r.row \in Rows \ query}
      BY <1>1, <3>1, Scans
    <3>4. \A r \in Records(heap) : r.row \in Rows
      BY DEF Records, Record
    <3> QED
      BY <2>1, <3>2, <3>3, <3>4
  <2>3. Records(heap) = Others \cup Found /\ Others \cap Found = {}
    BY <2>1
  <2>4. Clean(Others, Found, change)
    <3>1. Apart(Others \cup Found)
      BY <1>1, <2>3, HeapApart
    <3>2. KeysChanged(change) = DOMAIN change \cap Indexed
      BY DEF KeysChanged
    <3>3. KeysChanged(change) # {} => \A r, s \in Found : r = s
      BY <2>2, <3>2 DEF SafeUpdate
    <3>4. \A s \in Others, col \in KeysChanged(change) : s.row[col] # change[col]
      BY <2>2, <3>2 DEF SafeUpdate
    <3>5. DOMAIN change \cap VarSized # {} => Indexed \subseteq DOMAIN change
      BY DEF SafeUpdate
    <3> QED
      BY <1>4, <2>3, <3>1, <3>3, <3>4, <3>5 DEF Clean
  <2>0. PICK order \in Orders(Found) : \E done \in InsertMoved(UpdateRecords(order, change), change) :
            heap' = done.heap /\ index' = done.index /\ reply' = done.reply
    BY <1>2, <1>4, <2>2 DEF Update, BecomesOneOf
  <2>5. PICK done \in InsertMoved(UpdateRecords(order, change), change) :
            heap' = done.heap /\ index' = done.index /\ reply' = done.reply
    BY <2>0
  <2>6. PICK N : N = Cardinality(Found)
    OBVIOUS
  <2>7. /\ N \in Nat /\ order \in [1..N -> Found] /\ Len(order) = N
        /\ \A i, j \in 1..N : order[i] = order[j] => i = j
        /\ \A r \in Found : \E i \in 1..N : order[i] = r
    <3>1. IsFiniteSet(Found)
      <4>1. Found \in SUBSET Records(heap)
        BY <2>1
      <4> QED
        BY <1>1, <4>1, RecordsAreFinite
    <3>2. N \in Nat
      BY <2>6, <3>1, FS_CardinalityType
    <3>3. order \in Bijection(1..N, Found)
      BY <2>5, <2>6 DEF Orders
    <3>4. /\ order \in [1..N -> Found]
          /\ \A i, j \in 1..N : order[i] = order[j] => i = j
          /\ \A r \in Found : \E i \in 1..N : order[i] = r
      BY <3>3 DEF Bijection, Injection, Surjection, IsInjective
    <3>5. order \in Seq(Found)
      BY <3>2, <3>4, SeqDef
    <3>6. Len(order) = N
      BY <3>2, <3>4, <3>5, LenProperties
    <3> QED
      BY <3>2, <3>4, <3>6
  <2>8. PICK start, between : start = State /\ between = UpdateRecords(order, change)
    OBVIOUS
  <2>9. heap' = done.heap /\ index' = done.index /\ reply' = done.reply
    BY <2>5
  <2>10. Halfway(start, Others, Found, {}, Range(start.moved), change)
    <3>1. /\ IsState(start) /\ start.heap = heap /\ start.index = index
          /\ start.reply = "ok" /\ start.moved = << >>
      BY <2>8, StateNow
    <3>2. Range(start.moved) = {} /\ start.moved \in Seq(MovedRows(change))
      <4>1. Range(<< >>) = {}
        BY DEF Range
      <4> QED
        BY <3>1, <4>1
    <3>3. RowsKept(start.heap, {}, Others, Found, {}, {}, change)
      BY <2>3, <3>1 DEF RowsKept
    <3>4. IndexKept(start, {}, Others, Found, {}, {}, change)
      BY <1>1, <3>1 DEF IndexKept
    <3> QED
      BY <1>1, <3>1, <3>2, <3>3, <3>4 DEF Halfway
  <2>11. Halfway(between, Others, {}, Found, Range(between.moved), change)
    <3>1. start = State /\ between = UpdateRecords(order, change)
      BY <2>8
    <3> HIDE <1>1, <1>2, <2>1, <2>2, <2>3, <2>5, <2>6, <2>8, <2>9
    <3> QED
      BY <2>4, <2>7, <2>10, <3>1, AllUpdated
  <2>12. Halfway(done, Others, {}, Found, {}, change)
    <3>1. done \in InsertMoved(between, change) /\ done.reply # "critical"
      <4>1. call'.op = "update"
        BY <1>2
      <4> QED
        BY <2>5, <2>8, <2>9, <4>1 DEF LosesRow
    <3> HIDE <1>1, <1>2, <2>1, <2>2, <2>3, <2>5, <2>6, <2>7, <2>8, <2>9, <2>10
    <3> QED
      BY <2>4, <2>11, <3>1, AllInserted
  <2>13. PICK New : /\ RowsKept(done.heap, New, Others, {}, Found, {}, change)
                    /\ IndexKept(done, New, Others, {}, Found, {}, change)
    BY <2>12 DEF Halfway
  <2>14. Records(heap') = Others \cup New /\ {r.row : r \in New} = {Updated(r.row, change) : r \in Found}
    BY <2>9, <2>13 DEF RowsKept
  <2>15. TableInv'
    <3>1. heap' \in Heaps
      BY <2>9, <2>12 DEF Halfway
    <3>2. Indexed = {} \/ Matches(Records(done.heap), done.index)
      BY <2>13 DEF IndexKept
    <3>3. Matches(Records(heap'), index')
      BY <2>9, <3>2, NoMatch
    <3> QED
      BY <3>1, <3>3 DEF TableInv
  <2>16. RowsOf(heap') = (RowsOf(heap) \ query)
             \cup {Updated(row, change) : row \in RowsOf(heap) \cap query}
    <3>1. {r.row : r \in Others} = RowsOf(heap) \ query
      BY <2>1 DEF RowsOf
    <3>2. {Updated(r.row, change) : r \in Found} = {Updated(row, change) : row \in RowsOf(heap) \cap query}
      BY <2>1 DEF RowsOf
    <3>3. RowsOf(heap') = {r.row : r \in Others} \cup {r.row : r \in New}
      BY <2>14 DEF RowsOf
    <3> QED
      BY <2>14, <3>1, <3>2, <3>3
  <2>17. reply' = "ok"
    BY <2>9, <2>12 DEF Halfway
  <2>18. {r \in Records(heap) : r.row \notin query} \subseteq Records(heap')
    BY <2>1, <2>14
  <2> QED
    BY <1>2, <1>4, <2>15, <2>16, <2>17, <2>18
<1> QED
  BY <1>3, <1>4

\* The slots of the records in D are emptied.
LEMMA AllDeleted ==
    ASSUME NEW h \in Heaps, NEW D \in SUBSET Records(h),
           NEW g, g = [id \in PageIds(h) |-> [i \in DOMAIN h[id] |->
               IF IsOneOf(D, id, i) THEN Emptied(h[id], i)[i] ELSE h[id][i]]]
    PROVE  g \in Heaps /\ Records(g) = Records(h) \ D
<1> DEFINE Page(id) == [i \in DOMAIN h[id] |->
               IF IsOneOf(D, id, i) THEN Emptied(h[id], i)[i] ELSE h[id][i]]
<1>1. Len(h) \in Nat /\ \A id \in 1..Len(h) : h[id] \in Pages /\ h[id] \in Seq(Slot)
  <2>1. Len(h) \in Nat /\ \A id \in 1..Len(h) : h[id] \in Pages
    BY RecordsAre, ElementOfSeq DEF Heaps
  <2> QED
    BY <2>1 DEF Pages
<1>2. ASSUME NEW id \in 1..Len(h)
      PROVE  /\ Page(id) \in Pages /\ Len(Page(id)) = Len(h[id])
             /\ \A i \in 1..Len(h[id]) :
                   /\ Page(id)[i].row = IF IsOneOf(D, id, i) THEN NoRow ELSE h[id][i].row
                   /\ Page(id)[i].deleted = IF IsOneOf(D, id, i) THEN TRUE ELSE h[id][i].deleted
  <2>1. PICK p : p = h[id]
    OBVIOUS
  <2>2. /\ p \in Pages /\ p \in Seq(Slot) /\ Len(p) \in Nat /\ DOMAIN p = 1..Len(p)
        /\ \A i \in 1..Len(p) : p[i] \in Slot
    BY <1>1, <2>1, PageFacts
  <2>3. ASSUME NEW i \in 1..Len(p)
        PROVE  /\ Emptied(p, i)[i] \in Slot
               /\ Emptied(p, i)[i].row = NoRow /\ Emptied(p, i)[i].deleted = TRUE
               /\ Emptied(p, i)[i].length = p[i].length
    <3>1. PICK s : s = p[i]
      OBVIOUS
    <3>2. s \in Slot /\ i \in DOMAIN p
      BY <2>2, <3>1
    <3>3. PICK e : e = [[s EXCEPT !.deleted = TRUE] EXCEPT !.row = NoRow]
      OBVIOUS
    <3>4. Emptied(p, i)[i] = e
      BY <3>1, <3>2, <3>3 DEF Emptied, WithoutRecord
    <3>5. e \in Slot /\ e.row = NoRow /\ e.deleted = TRUE /\ e.length = s.length
      BY <3>2, <3>3 DEF Slot
    <3> QED
      BY <3>1, <3>4, <3>5
  <2>4. PICK q : q = Page(id)
    OBVIOUS
  <2>5. q = [i \in 1..Len(p) |-> IF IsOneOf(D, id, i) THEN Emptied(p, i)[i] ELSE p[i]]
    BY <2>1, <2>2, <2>4
  <2>6. \A i \in 1..Len(p) : (IF IsOneOf(D, id, i) THEN Emptied(p, i)[i] ELSE p[i]) \in Slot
    BY <2>2, <2>3
  <2>7. q \in [1..Len(p) -> Slot]
    BY <2>5, <2>6
  <2>8. q \in Seq(Slot)
    BY <2>2, <2>7, SeqDef
  <2>9. Len(q) = Len(p)
    BY <2>2, <2>7, <2>8, LenProperties
  <2>10. \A i \in 1..Len(p) :
             /\ q[i].row = IF IsOneOf(D, id, i) THEN NoRow ELSE p[i].row
             /\ q[i].deleted = IF IsOneOf(D, id, i) THEN TRUE ELSE p[i].deleted
    BY <2>3, <2>5
  <2>11. q \in Pages
    <3>1. \A i \in 1..Len(p) : q[i].length = p[i].length
      BY <2>3, <2>5
    <3> QED
      BY <2>2, <2>8, <2>9, <3>1, SamePage
  <2> HIDE DEF Page
  <2> QED
    BY <2>1, <2>4, <2>9, <2>10, <2>11
<1>3. g = [id \in 1..Len(h) |-> Page(id)]
  BY DEF PageIds
<1> HIDE DEF Page
<1>4. g \in Seq(Pages) /\ Len(g) = Len(h)
  <2>1. g \in [1..Len(h) -> Pages]
    BY <1>2, <1>3
  <2>2. PICK P : P = Pages
    OBVIOUS
  <2>3. g \in Seq(P)
    BY <1>1, <2>1, <2>2, SeqDef
  <2>4. Len(g) = Len(h)
    <3>1. DOMAIN g = 1..Len(g) /\ Len(g) \in Nat /\ DOMAIN g = 1..Len(h)
      BY <2>1, <2>3, LenProperties
    <3> QED
      BY <1>1, <3>1
  <2> QED
    BY <2>2, <2>3, <2>4
<1>5. ASSUME NEW id, NEW i, NEW row
      PROVE  At(g, id, i, row) <=> (At(h, id, i, row) /\ ~IsOneOf(D, id, i))
  <2>1. CASE id \in 1..Len(h)
    <3>1. g[id] = Page(id)
      BY <1>3, <2>1
    <3>2. OnPage(Page(id), i, row) <=> (OnPage(h[id], i, row) /\ ~IsOneOf(D, id, i))
      BY <1>2, <2>1 DEF OnPage
    <3> QED
      BY <1>4, <2>1, <3>1, <3>2 DEF At
  <2>2. CASE id \notin 1..Len(h)
    BY <1>4, <2>2 DEF At
  <2> QED
    BY <2>1, <2>2
<1>6. ASSUME NEW r \in Records(h) PROVE IsOneOf(D, r.page, r.slot) <=> r \in D
  <2>1. ASSUME NEW s \in D, s.page = r.page, s.slot = r.slot PROVE s = r
    <3>1. Address(s) = Address(r)
      BY <2>1 DEF Address
    <3> QED
      BY <3>1, RecordsAre
  <2> QED
    BY <2>1 DEF IsOneOf
<1>7. Records(g) = Records(h) \ D
  BY <1>5, <1>6 DEF Records
<1> QED
  BY <1>4, <1>7 DEF Heaps

LEMMA DeleteStep ==
    ASSUME TableInv, NEW query \in Queries, DeleteFound(query, Scan(query))
    PROVE  /\ TableInv'
           /\ {r \in Records(heap) : r.row \notin query} \subseteq Records(heap')
           /\ call' = [op |-> "delete", query |-> query]
           /\ reply' = "ok" /\ RowsOf(heap') = RowsOf(heap) \ query
<1>1. heap \in Heaps /\ Matches(Records(heap), index)
  BY DEF TableInv
<1>2. PICK Found : Found = {r \in Records(heap) : r.row \in query}
  OBVIOUS
<1>3. Scan(query) = Found
  BY <1>1, <1>2, Scans, TableAssumption
<1>4. call' = [op |-> "delete", query |-> query] /\ Delete(Found)
  BY <1>3 DEF DeleteFound
<1>5. heap' \in Heaps /\ Records(heap') = Records(heap) \ Found
  <2>1. heap' = [id \in PageIds(heap) |-> [i \in DOMAIN heap[id] |->
            IF IsOneOf(Found, id, i) THEN Emptied(heap[id], i)[i] ELSE heap[id][i]]]
    BY <1>4 DEF Delete
  <2>2. PICK h, g : h = heap /\ g = heap'
    OBVIOUS
  <2>3. g = [id \in PageIds(h) |-> [i \in DOMAIN h[id] |->
               IF IsOneOf(Found, id, i) THEN Emptied(h[id], i)[i] ELSE h[id][i]]]
    BY <2>1, <2>2
  <2>4. h \in Heaps /\ Found \in SUBSET Records(h)
    BY <1>1, <1>2, <2>2
  <2>5. g \in Heaps /\ Records(g) = Records(h) \ Found
    <3> HIDE <1>1, <1>2, <1>3, <1>4, <2>1, <2>2
    <3> QED
      BY <2>3, <2>4, AllDeleted
  <2> QED
    BY <2>2, <2>5
<1>6. Matches(Records(heap) \ Found, index')
  <2>1. \A col \in Indexed :
            index'[col] = Restrict(index[col], DOMAIN index[col] \ {r.row[col] : r \in Found})
    BY <1>4 DEF Delete
  <2>2. PICK R, entries, left : R = Records(heap) /\ entries = index /\ left = index'
    OBVIOUS
  <2>3. Apart(R) /\ Matches(R, entries) /\ Found \in SUBSET R
    BY <1>1, <1>2, <2>2, HeapApart
  <2>4. Trimmed(left, entries, Found)
    BY <2>1, <2>2 DEF Trimmed
  <2>5. Matches(R \ Found, left)
    <3> HIDE <1>1, <1>2, <1>3, <1>4, <1>5, <2>1, <2>2
    <3> QED
      BY <2>3, <2>4, MatchesDeleted
  <2> QED
    BY <2>2, <2>5
<1>7. TableInv'
  BY <1>5, <1>6 DEF TableInv
<1>8. RowsOf(heap') = RowsOf(heap) \ query
  BY <1>2, <1>5 DEF RowsOf
<1>9. reply' = "ok"
  BY <1>4 DEF Delete
<1> QED
  BY <1>2, <1>4, <1>5, <1>7, <1>8, <1>9

---------------------------------------------------------------------------
(* The theorems. *)

LEMMA TableInvHolds == SafeSpec => []TableInv
<1>1. Init => TableInv
  <2> SUFFICES ASSUME Init PROVE TableInv
    OBVIOUS
  <2>1. heap = << >> /\ index = [col \in Indexed |-> << >>]
    BY DEF Init
  <2>2. heap \in Heaps /\ Len(heap) = 0
    BY <2>1 DEF Heaps
  <2>3. Records(heap) = {}
    BY <2>2 DEF Records, At
  <2>4. \A col \in Indexed : DOMAIN index[col] = {}
    BY <2>1
  <2> QED
    BY <2>2, <2>3, <2>4 DEF TableInv, Matches
<1>2. TableInv /\ [SafeNext /\ ~LosesRow]_vars => TableInv'
  <2> SUFFICES ASSUME TableInv, [SafeNext /\ ~LosesRow]_vars PROVE TableInv'
    OBVIOUS
  <2>1. ASSUME NEW row \in Candidates, SafeInsert(row) PROVE TableInv'
    BY <2>1, InsertStep
  <2>2. ASSUME NEW query \in Queries, DeleteFound(query, Scan(query)) PROVE TableInv'
    BY <2>2, DeleteStep
  <2>3. ASSUME NEW query \in Queries, NEW change \in Changes, SafeUpdate(query, change), ~LosesRow
        PROVE  TableInv'
    BY <2>3, UpdateStep
  <2>4. CASE UNCHANGED vars
    BY <2>4 DEF TableInv, vars
  <2> QED
    BY <2>1, <2>2, <2>3, <2>4 DEF SafeNext
<1> QED
  BY <1>1, <1>2, PTL DEF SafeSpec

\* IndexMatchesRows: a row is indexed where it is, and nothing else is, as long as
\* clients follow the rules of SafeNext and the map has led no update to a page
\* without room (update_index, called by insert, update and delete, and the moves
\* of update).
THEOREM IndexesMatch == SafeSpec => []IndexMatchesRows
<1>1. TableInv => IndexMatchesRows
  <2> SUFFICES ASSUME TableInv PROVE IndexMatchesRows
    OBVIOUS
  <2>1. Scan(Rows) = Records(heap) /\ Matches(Records(heap), index)
    BY ScanRows DEF TableInv
  <2> QED
    BY <2>1 DEF IndexMatchesRows, Matches, Address
<1> QED
  BY <1>1, TableInvHolds, PTL

\* RowsReadBack: whatever row is on a page, deserialize makes the same row of the
\* bytes that serialize made of it (Row::validate, serialize and deserialize).
THEOREM RowsAreReadBack == SafeSpec => []RowsReadBack
<1>1. TableInv => RowsReadBack
  <2> SUFFICES ASSUME TableInv, NEW id \in PageIds(heap), NEW i \in DOMAIN heap[id],
                      ~heap[id][i].deleted
               PROVE  ReadBack[heap[id][i].row] = Ok(heap[id][i].row)
    BY DEF RowsReadBack
  <2>1. heap[id] \in Seq(Slot)
    <3>1. heap \in Seq(Pages) /\ id \in 1..Len(heap)
      BY DEF TableInv, Heaps, PageIds
    <3>2. heap[id] \in Pages
      BY <3>1, ElementOfSeq
    <3> QED
      BY <3>2 DEF Pages
  <2>2. PICK row : row = heap[id][i].row
    OBVIOUS
  <2>3. row \in Rows
    BY <2>1, <2>2, PageFacts
  <2>4. IsARow(row) /\ IsASchema(Schema) /\ Validate(row, Schema) = "ok" /\ row \in Candidates
    BY <2>3, SchemaAssumption DEF Rows, IsARow, IsASchema
  <2>5. Deserialize(Serialize(row), Schema) = Ok(row)
    BY <2>4, RowReadBack
  <2> QED
    BY <2>2, <2>4, <2>5 DEF ReadBack
<1> QED
  BY <1>1, TableInvHolds, PTL

\* TypeOK: when the lengths of rows differ by less than a directory entry, no page's
\* rows and directory ever need more bytes than the page has, through every insert,
\* delete and move (can_insert, insert_record, raw_insert, update).
THEOREM PagesHaveRoom ==
    ASSUME Narrow PROVE SafeSpec => []TypeOK
<1> DEFINE Replies == reply \in {"ok", "duplicate", "length", "critical", "invalid"}
<1>1. Init => Replies
  BY DEF Init
<1>2. TableInv /\ Replies /\ [SafeNext /\ ~LosesRow]_vars => Replies'
  <2> SUFFICES ASSUME TableInv, Replies, [SafeNext /\ ~LosesRow]_vars PROVE Replies'
    OBVIOUS
  <2>1. ASSUME NEW row \in Candidates, SafeInsert(row) PROVE Replies'
    BY <2>1, InsertStep
  <2>2. ASSUME NEW query \in Queries, DeleteFound(query, Scan(query)) PROVE Replies'
    BY <2>2, DeleteStep
  <2>3. ASSUME NEW query \in Queries, NEW change \in Changes, SafeUpdate(query, change), ~LosesRow
        PROVE  Replies'
    BY <2>3, UpdateStep
  <2>4. CASE UNCHANGED vars
    BY <2>4 DEF vars
  <2> QED
    BY <2>1, <2>2, <2>3, <2>4 DEF SafeNext
<1>3. TableInv /\ Replies => TypeOK
  <2> SUFFICES ASSUME TableInv, Replies PROVE TypeOK
    OBVIOUS
  <2>1. heap \in Heaps /\ Matches(Records(heap), index)
    BY DEF TableInv
  <2>2. ASSUME NEW id \in PageIds(heap)
        PROVE  /\ SumOfLengths(heap[id]) + SlotSize * Len(heap[id]) <= PageDataSize
               /\ \A i \in DOMAIN heap[id] : heap[id][i].deleted = (heap[id][i].row = NoRow)
    <3>1. PICK p : p = heap[id]
      OBVIOUS
    <3>2. p \in Pages
      BY <2>1, <3>1, ElementOfSeq DEF Heaps, PageIds
    <3>3. p \in Seq(Slot) /\ Room(p)
      BY <3>2 DEF Pages
    <3>4. \A i \in DOMAIN p : p[i].deleted \in BOOLEAN /\ (p[i].deleted <=> p[i].row = NoRow)
      BY <3>3, PageFacts
    <3> QED
      BY <3>1, <3>3, <3>4 DEF Room
  <2>3. ASSUME NEW col \in Indexed, NEW value \in DOMAIN index[col]
        PROVE  index[col][value].page \in PageIds(heap)
    <3>1. PICK r \in Records(heap) : r.row[col] = value
      BY <2>1 DEF Matches
    <3>2. index[col][value] = Address(r)
      BY <2>1, <3>1 DEF Matches
    <3>3. r.page \in 1..Len(heap)
      BY <2>1, RecordsAre
    <3> QED
      BY <3>2, <3>3 DEF Address, PageIds
  <2> QED
    BY <2>2, <2>3 DEF TypeOK
<1> QED
  BY <1>1, <1>2, <1>3, TableInvHolds, PTL DEF SafeSpec

\* OtherRowsStayPut: a row an operation is not asked to change keeps its page and
\* slot, whatever becomes of the operation.
THEOREM RowsStayPut == SafeSpec => OtherRowsStayPut
<1> DEFINE Stay == \A r \in Scan(Rows) :
                       call'.op = "insert" \/ r.row \notin call'.query => r \in Scan(Rows)'
<1>1. TableInv /\ TableInv' /\ [SafeNext /\ ~LosesRow]_vars => [Stay]_vars
  <2> SUFFICES ASSUME TableInv, TableInv', SafeNext, ~LosesRow PROVE Stay
    OBVIOUS
  <2>1. Scan(Rows) = Records(heap) /\ Scan(Rows)' = Records(heap')
    BY ScanRows, ScanRowsNext DEF TableInv
  <2>2. ASSUME NEW row \in Candidates, SafeInsert(row) PROVE Stay
    <3>1. Records(heap) \subseteq Records(heap')
      BY <2>2, InsertStep
    <3> QED
      BY <2>1, <3>1
  <2>3. ASSUME NEW query \in Queries, DeleteFound(query, Scan(query)) PROVE Stay
    <3>1. {r \in Records(heap) : r.row \notin query} \subseteq Records(heap')
          /\ call' = [op |-> "delete", query |-> query]
      BY <2>3, DeleteStep
    <3>2. call'.query = query /\ call'.op # "insert"
      BY <3>1
    <3> QED
      BY <2>1, <3>1, <3>2
  <2>4. ASSUME NEW query \in Queries, NEW change \in Changes, SafeUpdate(query, change), ~LosesRow PROVE Stay
    <3>1. {r \in Records(heap) : r.row \notin query} \subseteq Records(heap')
          /\ call' = [op |-> "update", query |-> query, change |-> change]
      BY <2>4, UpdateStep
    <3>2. call'.query = query /\ call'.op # "insert"
      BY <3>1
    <3> QED
      BY <2>1, <3>1, <3>2
  <2> QED
    BY <2>2, <2>3, <2>4 DEF SafeNext
<1> QED
  BY <1>1, TableInvHolds, PTL DEF SafeSpec, OtherRowsStayPut

\* ImplementsRelation: every operation changes the rows it is asked to change, or
\* is refused and changes none, although it goes page by page and row by row; an
\* insert may also meet a page without room, an update that does is LosesRow.
THEOREM TableIsRelation == SafeSpec => ImplementsRelation
<1>1. ASSUME TableInv PROVE {r.row : r \in Scan(Rows)} = RowsOf(heap)
  <2>1. Scan(Rows) = Records(heap)
    BY <1>1, ScanRows DEF TableInv
  <2> QED
    BY <2>1 DEF RowsOf
<1>2. ASSUME TableInv' PROVE {r.row : r \in Scan(Rows)}' = RowsOf(heap')
  <2>1. Scan(Rows)' = Records(heap')
    BY <1>2, ScanRowsNext DEF TableInv
  <2> QED
    BY <2>1 DEF RowsOf
<1>3. Init => Relation!Init
  <2> SUFFICES ASSUME Init PROVE Relation!Init
    OBVIOUS
  <2>1. Scan(Rows) = {}
    <3>1. heap = << >> /\ Len(<< >>) = 0
      BY DEF Init
    <3>2. PageIds(heap) = {}
      BY <3>1 DEF PageIds
    <3> QED
      BY <3>2 DEF Scan
  <2> QED
    BY <2>1 DEF Relation!Init, Init
<1>4. TableInv /\ TableInv' /\ [SafeNext /\ ~LosesRow]_vars => [Relation!Next]_Relation!vars
  <2> SUFFICES ASSUME TableInv, TableInv', [SafeNext /\ ~LosesRow]_vars PROVE [Relation!Next]_Relation!vars
    OBVIOUS
  <2>1. {r.row : r \in Scan(Rows)} = RowsOf(heap) /\ {r.row : r \in Scan(Rows)}' = RowsOf(heap')
    BY <1>1, <1>2
  <2>2. ASSUME NEW row \in Candidates, SafeInsert(row) PROVE Relation!Next
    <3>1. PICK clash : clash = (\E s \in Records(heap) : \E col \in Indexed : s.row[col] = row[col])
      OBVIOUS
    <3>2. /\ call' = [op |-> "insert", row |-> row]
          /\ IF Validate(row, Schema) # "ok" THEN reply' = "invalid" /\ RowsOf(heap') = RowsOf(heap)
             ELSE \/ reply' = "critical" /\ RowsOf(heap') = RowsOf(heap)
                  \/ IF clash THEN reply' = "duplicate" /\ RowsOf(heap') = RowsOf(heap)
                     ELSE reply' = "ok" /\ RowsOf(heap') = RowsOf(heap) \cup {row}
      BY <2>2, <3>1, InsertStep
    <3>3. Relation!Clashes(row) <=> clash
      BY <2>1, <3>1 DEF Relation!Clashes, RowsOf
    <3>4. row \in {c \in Candidates : Validate(c, Schema) # "ok"} <=> Validate(row, Schema) # "ok"
      OBVIOUS
    <3>5. Relation!Insert(row)
      BY <2>1, <3>2, <3>3, <3>4 DEF Relation!Insert
    <3> QED
      BY <3>5 DEF Relation!Next
  <2>3. ASSUME NEW query \in Queries, DeleteFound(query, Scan(query)) PROVE Relation!Next
    <3>1. /\ call' = [op |-> "delete", query |-> query]
          /\ reply' = "ok" /\ RowsOf(heap') = RowsOf(heap) \ query
      BY <2>3, DeleteStep
    <3>2. Relation!Delete(query)
      BY <2>1, <3>1 DEF Relation!Delete
    <3> QED
      BY <3>2 DEF Relation!Next
  <2>4. ASSUME NEW query \in Queries, NEW change \in Changes, SafeUpdate(query, change), ~LosesRow
        PROVE  Relation!Next
    <3>1. /\ call' = [op |-> "update", query |-> query, change |-> change]
          /\ IF ~TypesFit(change) THEN reply' = "invalid" /\ RowsOf(heap') = RowsOf(heap)
             ELSE /\ reply' = "ok"
                  /\ RowsOf(heap') = (RowsOf(heap) \ query)
                         \cup {Updated(row, change) : row \in RowsOf(heap) \cap query}
      BY <2>4, UpdateStep
    <3>2. \A row : Relation!Updated(row, change) = Updated(row, change)
      BY DEF Relation!Updated, Updated
    <3>3. {Updated(row, change) : row \in RowsOf(heap) \cap query}
              = {Relation!Updated(row, change) : row \in RowsOf(heap) \cap query}
      BY <3>2
    <3>4. change \in {c \in Changes : ~TypesFit(c)} <=> ~TypesFit(change)
      OBVIOUS
    <3>5. Relation!Update(query, change)
      BY <2>1, <3>1, <3>3, <3>4 DEF Relation!Update
    <3> QED
      BY <3>5 DEF Relation!Next
  <2>5. CASE UNCHANGED vars
    <3>1. RowsOf(heap') = RowsOf(heap) /\ call' = call /\ reply' = reply
      BY <2>5 DEF vars
    <3> QED
      BY <2>1, <3>1 DEF Relation!vars
  <2> QED
    BY <2>2, <2>3, <2>4, <2>5 DEF SafeNext
<1> QED
  BY <1>3, <1>4, TableInvHolds, PTL DEF SafeSpec, ImplementsRelation, Relation!Spec

---------------------------------------------------------------------------
(* Sequences that list a set. *)

\* s has the elements of S, each once.
Lists(s, S) ==
    /\ s \in Seq(S) /\ \A x \in S : \E i \in 1..Len(s) : s[i] = x
    /\ \A i, j \in 1..Len(s) : s[i] = s[j] => i = j

LEMMA ListsNone == Lists(<< >>, {})
BY DEF Lists

LEMMA ListsAppended ==
    ASSUME NEW s, NEW S, Lists(s, S), NEW x, x \notin S
    PROVE  Lists(Append(s, x), S \cup {x})
<1> PICK T, t : T = S \cup {x} /\ t = Append(s, x)
  OBVIOUS
<1>1. s \in Seq(T) /\ x \in T
  BY SeqMonotonic DEF Lists
<1>2. Len(s) \in Nat /\ t \in Seq(T) /\ Len(t) = Len(s) + 1 /\ t[Len(s) + 1] = x /\ \A i \in 1..Len(s) : t[i] = s[i]
  BY <1>1, AppendProperties, LenProperties
<1>3. \A i \in 1..Len(s) : s[i] \in S
  BY ElementOfSeq DEF Lists
<1>4. \A i \in 1..Len(t) : i \in 1..Len(s) \/ i = Len(s) + 1
  BY <1>2
<1>5. \A i \in 1..Len(s) : i \in 1..Len(t)
  BY <1>2
<1>6. Len(s) + 1 \in 1..Len(t)
  BY <1>2
<1>7. ASSUME NEW y \in T PROVE \E i \in 1..Len(t) : t[i] = y
  <2>1. CASE y = x
    BY <1>2, <1>6, <2>1
  <2>2. CASE y \in S
    BY <1>2, <1>5, <2>2 DEF Lists
  <2> QED
    BY <2>1, <2>2
<1>8. ASSUME NEW i \in 1..Len(t), NEW j \in 1..Len(t), t[i] = t[j] PROVE i = j
  <2>1. CASE i \in 1..Len(s) /\ j \in 1..Len(s)
    BY <1>2, <1>8, <2>1 DEF Lists
  <2>2. CASE i = Len(s) + 1 /\ j \in 1..Len(s)
    BY <1>2, <1>3, <1>8, <2>2
  <2>3. CASE i \in 1..Len(s) /\ j = Len(s) + 1
    BY <1>2, <1>3, <1>8, <2>3
  <2> QED
    BY <1>4, <2>1, <2>2, <2>3
<1> QED
  BY <1>2, <1>7, <1>8 DEF Lists

LEMMA ListsJoined ==
    ASSUME NEW s, NEW S, Lists(s, S), NEW t, NEW T, Lists(t, T), S \cap T = {}
    PROVE  Lists(s \o t, S \cup T)
<1> PICK U, u : U = S \cup T /\ u = s \o t
  OBVIOUS
<1>1. s \in Seq(U) /\ t \in Seq(U)
  BY SeqMonotonic DEF Lists
<1> PICK m, n : m = Len(s) /\ n = Len(t)
  OBVIOUS
<1>2. /\ m \in Nat /\ n \in Nat /\ u \in Seq(U) /\ Len(u) = m + n
      /\ \A i \in 1..(m + n) : u[i] = IF i <= m THEN s[i] ELSE t[i - m]
  BY <1>1, ConcatProperties, LenProperties
<1>3. (\A i \in 1..m : s[i] \in S) /\ (\A i \in 1..n : t[i] \in T)
  BY ElementOfSeq DEF Lists
<1>4. \A i \in 1..m : i \in 1..(m + n) /\ u[i] = s[i]
  BY <1>2
<1>5. \A i \in 1..n : m + i \in 1..(m + n) /\ u[m + i] = t[i]
  BY <1>2
<1>6. \A i \in 1..(m + n) : i \in 1..m \/ (i - m \in 1..n /\ u[i] = t[i - m])
  BY <1>2
<1>7. ASSUME NEW y \in U PROVE \E i \in 1..(m + n) : u[i] = y
  <2>1. CASE y \in S
    BY <1>4, <2>1 DEF Lists
  <2>2. CASE y \in T
    <3>1. PICK i \in 1..n : t[i] = y
      BY <2>2 DEF Lists
    <3> QED
      BY <1>5, <3>1
  <2> QED
    BY <2>1, <2>2
<1>8. ASSUME NEW i \in 1..(m + n), NEW j \in 1..(m + n), u[i] = u[j] PROVE i = j
  <2>1. CASE i \in 1..m /\ j \in 1..m
    BY <1>4, <1>8, <2>1 DEF Lists
  <2>2. CASE i - m \in 1..n /\ u[i] = t[i - m] /\ j - m \in 1..n /\ u[j] = t[j - m]
    <3>1. i - m = j - m
      BY <1>8, <2>2 DEF Lists
    <3> QED
      BY <1>2, <3>1
  <2>3. CASE i \in 1..m /\ j - m \in 1..n /\ u[j] = t[j - m]
    BY <1>3, <1>4, <1>8, <2>3
  <2>4. CASE i - m \in 1..n /\ u[i] = t[i - m] /\ j \in 1..m
    BY <1>3, <1>4, <1>8, <2>4
  <2>5. i \in 1..m \/ (i - m \in 1..n /\ u[i] = t[i - m])
    BY <1>6, Zenon
  <2>6. j \in 1..m \/ (j - m \in 1..n /\ u[j] = t[j - m])
    BY <1>6, Zenon
  <2> QED
    BY <2>1, <2>2, <2>3, <2>4, <2>5, <2>6, Zenon
<1>9. u \in Seq(U) /\ Len(u) = m + n
  BY <1>2
<1> PICK l : l = m + n
  OBVIOUS
<1>10. Lists(u, U)
  <2>1. u \in Seq(U) /\ Len(u) = l /\ \A y \in U : \E i \in 1..l : u[i] = y
    BY <1>7, <1>9
  <2>2. \A i, j \in 1..l : u[i] = u[j] => i = j
    BY <1>8
  <2> QED
    BY ONLY <2>1, <2>2 DEF Lists
<1> QED
  BY <1>10

\* Its length is the number of them.
LEMMA ListsCount ==
    ASSUME NEW s, NEW S, Lists(s, S)
    PROVE  IsFiniteSet(S) /\ Len(s) = Cardinality(S)
<1>1. Len(s) \in Nat /\ s \in [1..Len(s) -> S]
  BY LenProperties, ElementOfSeq DEF Lists
<1>2. ExistsBijection(1..Len(s), S)
  <2>1. s \in Surjection(1..Len(s), S)
    BY <1>1 DEF Surjection, Lists
  <2>2. s \in Injection(1..Len(s), S)
    BY <1>1 DEF Injection, IsInjective, Lists
  <2> QED
    BY <2>1, <2>2 DEF ExistsBijection, Bijection
<1>3. IsFiniteSet(1..Len(s)) /\ Cardinality(1..Len(s)) = Len(s)
  <2>1. \A n \in Nat : IsFiniteSet(1..n) /\ Cardinality(1..n) = n
    BY FS_Interval
  <2> QED
    BY <1>1, <2>1, Zenon
<1> QED
  BY <1>2, <1>3, FS_Bijection

---------------------------------------------------------------------------
(* What is kept of a sequence, and sequences put together. *)

\* only[n] is kept of the first n elements.
Keeps(only, s, S) ==
    /\ only[0] = << >>
    /\ \A n \in 1..Len(s) : only[n] = IF s[n] \in S THEN Append(only[n - 1], s[n]) ELSE only[n - 1]

LEMMA OnlyDef ==
    ASSUME NEW U, NEW s \in Seq(U), NEW S
    PROVE  \E only : Keeps(only, s, S) /\ Only(s, S) = only[Len(s)]
<1> DEFINE Body(g) == [n \in 0..Len(s) |->
                         IF n = 0 THEN << >>
                         ELSE IF s[n] \in S THEN Append(g[n - 1], s[n]) ELSE g[n - 1]]
           only    == CHOOSE g : g = Body(g)
           next    == [q \in (1..Len(s)) \X Seq(U) |-> IF s[q[1]] \in S THEN Append(q[2], s[q[1]]) ELSE q[2]]
<1>1. Len(s) \in Nat /\ \A n \in 1..Len(s) : s[n] \in U
  BY LenProperties, ElementOfSeq
<1>2. next \in [(1..Len(s)) \X Seq(U) -> Seq(U)]
  BY <1>1
<1>3. \A n \in 1..Len(s), t \in Seq(U) : next[<<n, t>>] = IF s[n] \in S THEN Append(t, s[n]) ELSE t
  OBVIOUS
<1> HIDE DEF next
<1>4. PICK g \in [0..Len(s) -> Seq(U)] : g[0] = << >> /\ \A n \in 1..Len(s) : g[n] = next[<<n, g[n - 1]>>]
  <2>1. << >> \in Seq(U) /\ Recurs(Seq(U))
    BY Recursion
  <2> QED
    BY <1>1, <1>2, <2>1, Zenon DEF Recurs
<1>5. \A n \in 1..Len(s) : n - 1 \in 0..Len(s) /\ n \in 0..Len(s)
  BY <1>1
<1>6. \A n \in 1..Len(s) : g[n] = IF s[n] \in S THEN Append(g[n - 1], s[n]) ELSE g[n - 1]
  BY <1>3, <1>4, <1>5
<1>7. g = Body(g)
  <2>1. ASSUME NEW n \in 0..Len(s)
        PROVE  g[n] = IF n = 0 THEN << >> ELSE IF s[n] \in S THEN Append(g[n - 1], s[n]) ELSE g[n - 1]
    <3>1. n # 0 => n \in 1..Len(s)
      BY <1>1
    <3> QED
      BY <1>4, <1>6, <3>1
  <2> QED
    BY <1>4, <2>1
<1>8. only = Body(only)
  <2> HIDE DEF Body
  <2> QED
    BY <1>7
<1>9. Only(s, S) = only[Len(s)]
  BY DEF Only
<1> HIDE DEF only
<1>10. Keeps(only, s, S)
  <2>1. 0 \in 0..Len(s) /\ \A n \in 1..Len(s) : n # 0
    BY <1>1
  <2> QED
    BY <1>5, <1>8, <2>1 DEF Keeps
<1> QED
  BY <1>9, <1>10

\* What is in S is kept once if it is there once.
LEMMA OnlyLists ==
    ASSUME NEW U, NEW s \in Seq(U), NEW S,
           \A i, j \in 1..Len(s) : s[i] = s[j] /\ s[i] \in S => i = j
    PROVE  Lists(Only(s, S), {s[i] : i \in 1..Len(s)} \cap S)
<1>1. Len(s) \in Nat
  BY LenProperties
<1>2. PICK only : Keeps(only, s, S) /\ Only(s, S) = only[Len(s)]
  BY OnlyDef
<1> DEFINE First(n) == {s[i] : i \in 1..n} \cap S
           N        == {n \in Nat : n <= Len(s) => Lists(only[n], First(n))}
<1>3. 0 \in N
  <2>1. First(0) = {}
    OBVIOUS
  <2> QED
    BY <1>2, <2>1, ListsNone DEF Keeps
<1>4. ASSUME NEW n \in Nat, n \in N PROVE n + 1 \in N
  <2>1. CASE n + 1 <= Len(s)
    <3>1. n + 1 \in 1..Len(s) /\ (n + 1) - 1 = n /\ n <= Len(s)
      BY <1>1, <2>1
    <3>2. Lists(only[n], First(n))
      BY <1>4, <3>1
    <3>3. 1..(n + 1) = (1..n) \cup {n + 1}
      OBVIOUS
    <3>4. {s[i] : i \in 1..(n + 1)} = {s[i] : i \in 1..n} \cup {s[n + 1]}
      BY <3>3
    <3>5. only[n + 1] = IF s[n + 1] \in S THEN Append(only[n], s[n + 1]) ELSE only[n]
      BY <1>2, <3>1 DEF Keeps
    <3>6. CASE s[n + 1] \in S
      <4>1. First(n + 1) = First(n) \cup {s[n + 1]}
        BY <3>4, <3>6
      <4>2. \A i \in 1..n : i \in 1..Len(s) /\ i # n + 1
        BY <1>1, <3>1
      <4>3. s[n + 1] \notin First(n)
        BY <3>1, <3>6, <4>2
      <4> HIDE DEF First
      <4>4. Lists(Append(only[n], s[n + 1]), First(n) \cup {s[n + 1]})
        BY <3>2, <4>3, ListsAppended
      <4>5. Lists(only[n + 1], First(n + 1))
        BY <3>5, <3>6, <4>1, <4>4
      <4> QED
        BY <4>5
    <3>7. CASE s[n + 1] \notin S
      <4>1. First(n + 1) = First(n)
        BY <3>4, <3>7
      <4> HIDE DEF First
      <4>2. Lists(only[n + 1], First(n + 1))
        BY <3>2, <3>5, <3>7, <4>1
      <4> QED
        BY <4>2
    <3> QED
      BY <3>6, <3>7
  <2> QED
    BY <2>1
<1> HIDE DEF N
<1>5. Nat \subseteq N
  BY <1>3, <1>4, SetInduction
<1>6. Lists(only[Len(s)], First(Len(s)))
  <2> HIDE DEF First
  <2>1. Len(s) \in N
    BY <1>1, <1>5
  <2> QED
    BY <1>1, <2>1 DEF N
<1> QED
  BY <1>2, <1>6

\* n sequences without an element in common, and all of their elements.
ListApart(seqs, S, n) ==
    /\ n \in Nat /\ seqs = [k \in 1..n |-> seqs[k]] /\ \A k \in 1..n : Lists(seqs[k], S[k])
    /\ \A k, l \in 1..n : k # l => S[k] \cap S[l] = {}

AllOf(S, n) == UNION {S[k] : k \in 1..n}

LEMMA FlattenLists ==
    ASSUME NEW n, NEW seqs, NEW S, ListApart(seqs, S, n)
    PROVE  Lists(FlattenSeq(seqs), AllOf(S, n))
<1>0. /\ n \in Nat /\ seqs = [k \in 1..n |-> seqs[k]] /\ \A k \in 1..n : Lists(seqs[k], S[k])
      /\ \A k, l \in 1..n : k # l => S[k] \cap S[l] = {}
  BY DEF ListApart
<1> USE <1>0
<1> USE DEF AllOf
<1> DEFINE U       == UNION {S[k] : k \in 1..n}
           Body(g) == [i \in 1..Len(seqs) |-> IF i = 1 THEN seqs[i] ELSE g[i - 1] \o seqs[i]]
           flatten == CHOOSE g : g = Body(g)
           next    == [q \in (1..n) \X Seq(U) |-> q[2] \o seqs[q[1]]]
<1>1. Len(seqs) = n /\ \A k \in 1..n : seqs[k] \in Seq(U)
  <2>1. ASSUME NEW k \in 1..n PROVE seqs[k] \in Seq(U)
    <3>1. S[k] \subseteq U
      OBVIOUS
    <3> HIDE DEF U
    <3>2. seqs[k] \in Seq(S[k])
      BY DEF Lists
    <3> QED
      BY <3>1, <3>2, SeqMonotonic
  <2>2. Len([k \in 1..n |-> seqs[k]]) = n
    OBVIOUS
  <2> QED
    BY <2>1, <2>2
<1>2. CASE n = 0
  <2>1. 1..n = {}
    BY <1>2
  <2>2. UNION {S[k] : k \in 1..n} = {}
    BY <2>1
  <2>3. seqs = << >>
    BY <2>1
  <2>4. FlattenSeq(seqs) = << >>
    BY <1>1, <1>2, <2>3 DEF FlattenSeq
  <2> QED
    BY <2>2, <2>4, ListsNone
<1>3. CASE n > 0
  <2>1. FlattenSeq(seqs) = flatten[n]
    BY <1>1, <1>3 DEF FlattenSeq
  <2> HIDE DEF U
  <2>2. next \in [(1..n) \X Seq(U) -> Seq(U)]
    BY <1>1
  <2>3. \A i \in 1..n, t \in Seq(U) : next[<<i, t>>] = t \o seqs[i]
    OBVIOUS
  <2> HIDE DEF next
  <2>4. PICK g \in [0..n -> Seq(U)] : g[0] = << >> /\ \A i \in 1..n : g[i] = next[<<i, g[i - 1]>>]
    <3>1. << >> \in Seq(U) /\ Recurs(Seq(U))
      BY Recursion
    <3> QED
      BY ONLY <1>0, <2>2, <3>1, ZenonT(60) DEF Recurs
  <2>5. \A i \in 1..n : i - 1 \in 0..n /\ i \in 0..n
    OBVIOUS
  <2>6. \A i \in 1..n : g[i] = g[i - 1] \o seqs[i]
    BY <2>3, <2>4, <2>5
  <2> DEFINE f == [i \in 1..n |-> g[i]]
  <2>7. ASSUME NEW i \in 1..n PROVE f[i] = IF i = 1 THEN seqs[i] ELSE f[i - 1] \o seqs[i]
    <3>1. CASE i = 1
      <4>0. 1 - 1 = 0
        OBVIOUS
      <4>1. g[1] = g[0] \o seqs[1]
        BY <2>6, <3>1, <4>0
      <4>2. << >> \o seqs[1] = seqs[1]
        BY <1>1, <3>1, ConcatEmptySeq
      <4> QED
        BY <2>4, <3>1, <4>1, <4>2
    <3>2. CASE i # 1
      <4>1. i - 1 \in 1..n
        BY <3>2
      <4> QED
        BY <2>6, <3>2, <4>1
    <3> QED
      BY <3>1, <3>2
  <2>8. f = Body(f)
    BY <1>1, <2>7
  <2>9. flatten = Body(flatten)
    <3> HIDE DEF Body, f
    <3> QED
      BY <2>8
  <2> HIDE DEF flatten
  <2>10. \A i \in 1..n : flatten[i] = IF i = 1 THEN seqs[i] ELSE flatten[i - 1] \o seqs[i]
    BY <1>1, <2>9
  <2> DEFINE First(i) == UNION {S[k] : k \in 1..i}
             N        == {i \in Nat : i + 1 <= n => Lists(flatten[i + 1], First(i + 1))}
  <2>11. 0 \in N
    <3>1. flatten[1] = seqs[1] /\ 1 \in 1..n
      BY <1>3, <2>10
    <3>2. First(1) = S[1]
      OBVIOUS
    <3>3. 0 + 1 = 1
      OBVIOUS
    <3> HIDE DEF First
    <3> QED
      BY <3>1, <3>2, <3>3
  <2>12. ASSUME NEW i \in Nat, i \in N PROVE i + 1 \in N
    <3>1. CASE (i + 1) + 1 <= n
      <4> PICK k, l : k = i + 1 /\ l = (i + 1) + 1
        OBVIOUS
      <4>1. k \in 1..n /\ l \in 1..n /\ l # 1 /\ l - 1 = k /\ k <= n /\ l = k + 1
        BY <3>1
      <4>2. Lists(flatten[k], First(k))
        BY <2>12, <4>1
      <4>3. flatten[l] = flatten[k] \o seqs[l]
        BY <2>10, <4>1
      <4>4. 1..l = (1..k) \cup {l} /\ \A m \in 1..k : m \in 1..n /\ m # l
        BY <4>1
      <4>5. First(l) = First(k) \cup S[l]
        BY <4>4
      <4>6. First(k) \cap S[l] = {}
        BY <4>1, <4>4
      <4> HIDE DEF First
      <4>7. Lists(flatten[k] \o seqs[l], First(k) \cup S[l])
        BY <4>1, <4>2, <4>6, ListsJoined
      <4>8. Lists(flatten[l], First(l))
        BY <4>3, <4>5, <4>7
      <4> QED
        BY <4>8
    <3> QED
      BY <3>1
  <2> HIDE DEF N
  <2>13. Nat \subseteq N
    BY <2>11, <2>12, SetInduction
  <2>14. Lists(flatten[n], First(n))
    <3>1. n - 1 \in Nat /\ (n - 1) + 1 = n
      BY <1>3
    <3> HIDE DEF First
    <3>2. n - 1 \in N
      BY <2>13, <3>1
    <3> QED
      BY <3>1, <3>2 DEF N
  <2> QED
    BY <2>1, <2>14
<1> QED
  BY <1>2, <1>3

\* A list of what becomes of each element.
TellApart(F, S) == \A x, y \in S : F[x] = F[y] => x = y

LEMMA ListsEach ==
    ASSUME NEW s, NEW S, Lists(s, S), NEW F, TellApart(F, S)
    PROVE  Lists([k \in DOMAIN s |-> F[s[k]]], {F[x] : x \in S})
<1> PICK n, t, T : n = Len(s) /\ t = [k \in DOMAIN s |-> F[s[k]]] /\ T = {F[x] : x \in S}
  OBVIOUS
<1>1. n \in Nat /\ DOMAIN s = 1..n /\ \A k \in 1..n : s[k] \in S
  BY LenProperties, ElementOfSeq DEF Lists
<1>2. t = [k \in 1..n |-> F[s[k]]] /\ \A k \in 1..n : t[k] = F[s[k]] /\ t[k] \in T
  BY <1>1
<1>3. t \in Seq(T) /\ Len(t) = n
  BY <1>1, <1>2
<1>4. ASSUME NEW y \in T PROVE \E k \in 1..n : t[k] = y
  <2>1. PICK x \in S : y = F[x]
    OBVIOUS
  <2>2. PICK k \in 1..n : s[k] = x
    BY DEF Lists
  <2> QED
    BY <1>2, <2>1, <2>2
<1>5. ASSUME NEW i \in 1..n, NEW j \in 1..n, t[i] = t[j] PROVE i = j
  BY <1>1, <1>2, <1>5 DEF Lists, TellApart
<1>6. Lists(t, T)
  <2>0. PICK u, V : u = t /\ V = T
    OBVIOUS
  <2>1. u \in Seq(V) /\ Len(u) = n
    BY <1>3, <2>0
  <2>2. \A y \in V : \E k \in 1..n : u[k] = y
    BY <1>4, <2>0
  <2>3. \A i, j \in 1..n : u[i] = u[j] => i = j
    BY ONLY <1>5, <2>0
  <2>4. Lists(u, V)
    BY ONLY <2>1, <2>2, <2>3 DEF Lists
  <2> QED
    BY <2>0, <2>4
<1> QED
  BY <1>6

LEMMA ListsRange ==
    ASSUME NEW s, NEW S, Lists(s, S)
    PROVE  /\ S = {s[i] : i \in 1..Len(s)} /\ ToSet(s) = S /\ DOMAIN s = 1..Len(s) /\ Len(s) \in Nat
           /\ \A i \in 1..Len(s) : s[i] \in S
<1>1. Len(s) \in Nat /\ DOMAIN s = 1..Len(s) /\ \A i \in 1..Len(s) : s[i] \in S
  BY LenProperties, ElementOfSeq DEF Lists
<1>2. S = {s[i] : i \in 1..Len(s)}
  BY <1>1 DEF Lists
<1> QED
  BY <1>1, <1>2 DEF ToSet

LEMMA OnlyOfList ==
    ASSUME NEW s, NEW S, Lists(s, S), NEW T
    PROVE  Lists(Only(s, T), S \cap T)
<1>1. s \in Seq(S) /\ \A i, j \in 1..Len(s) : s[i] = s[j] /\ s[i] \in T => i = j
  BY DEF Lists
<1>2. Lists(Only(s, T), {s[i] : i \in 1..Len(s)} \cap T)
  BY <1>1, OnlyLists
<1> QED
  BY <1>2, ListsRange

---------------------------------------------------------------------------
(* Results of queries. *)

\* When a column is indexed, no row is there twice.
LEMMA RowsApart ==
    ASSUME TableInv, Indexed # {}
    PROVE  \A r, s \in Records(heap) : r.row = s.row => r = s
<1> SUFFICES ASSUME NEW r \in Records(heap), NEW s \in Records(heap), r.row = s.row PROVE r = s
  OBVIOUS
<1>1. PICK col : col \in Indexed
  OBVIOUS
<1>2. index[col][r.row[col]] = Address(r) /\ index[col][s.row[col]] = Address(s)
  BY <1>1 DEF TableInv, Matches
<1>3. Address(r) = Address(s)
  BY <1>2
<1> QED
  BY <1>3, RecordsAre DEF TableInv

\* find_all yields the rows of the table, each once.
LEMMA FindAllIs ==
    ASSUME TableInv, Indexed # {}
    PROVE  FindAll.schema = Schema /\ Lists(FindAll.rows, RowsOf(heap))
<1> PICK h, n : h = heap /\ n = Len(heap)
  OBVIOUS
<1>1. /\ h \in Heaps /\ n \in Nat /\ \A r, s \in Records(h) : r.row = s.row => r = s
      /\ \A id, i, row : At(h, id, i, row) => RecordOf(id, i, row) \in Records(h)
  BY RowsApart, RecordsAre DEF TableInv
<1>2. ASSUME NEW id \in 1..n
      PROVE  h[id] \in Seq(Slot)
  <2>1. h[id] \in Pages
    BY <1>1, ElementOfSeq DEF Heaps
  <2> QED
    BY <2>1 DEF Pages
<1> DEFINE Cells(id) == [i \in DOMAIN h[id] |-> h[id][i].row]
           seqs      == [id \in 1..n |-> Only(Cells(id), Rows)]
           S         == [id \in 1..n |-> {h[id][i].row : i \in 1..Len(h[id])} \cap Rows]
<1>3. ASSUME NEW id \in 1..n, NEW i \in 1..Len(h[id]), h[id][i].row \in Rows
      PROVE  At(h, id, i, h[id][i].row) /\ RecordOf(id, i, h[id][i].row) \in Records(h)
  <2>1. ~h[id][i].deleted
    BY <1>2, <1>3, PageFacts
  <2>2. At(h, id, i, h[id][i].row)
    BY <2>1 DEF At, OnPage
  <2> QED
    BY <1>1, <2>2
<1>4. ASSUME NEW id \in 1..n, NEW i \in 1..Len(h[id]), NEW k \in 1..n, NEW j \in 1..Len(h[k]),
             h[id][i].row = h[k][j].row, h[id][i].row \in Rows
      PROVE  id = k /\ i = j
  <2> PICK row : row = h[id][i].row
    OBVIOUS
  <2>1. RecordOf(id, i, row) \in Records(h) /\ RecordOf(k, j, row) \in Records(h)
    BY <1>3, <1>4
  <2>2. RecordOf(id, i, row).row = RecordOf(k, j, row).row
    BY DEF RecordOf
  <2>3. RecordOf(id, i, row) = RecordOf(k, j, row)
    BY <1>1, <2>1, <2>2
  <2> QED
    BY <2>3 DEF RecordOf
<1>5. ASSUME NEW id \in 1..n PROVE Lists(seqs[id], S[id])
  <2> PICK p, cells, U : p = h[id] /\ cells = Cells(id) /\ U = Rows \cup {NoRow}
    OBVIOUS
  <2>1. Len(p) \in Nat /\ DOMAIN p = 1..Len(p) /\ \A i \in 1..Len(p) : p[i].row \in U
    <3>1. p \in Seq(Slot)
      BY <1>2
    <3>2. \A i \in 1..Len(p) : p[i] \in Slot
      BY <3>1, PageFacts
    <3>3. \A i \in 1..Len(p) : p[i].row \in U
      BY <3>2 DEF Slot
    <3> QED
      BY <3>1, <3>3, PageFacts
  <2>2. cells = [i \in 1..Len(p) |-> p[i].row]
    BY <2>1
  <2>3. cells \in Seq(U) /\ Len(cells) = Len(p) /\ \A i \in 1..Len(p) : cells[i] = p[i].row
    BY <2>1, <2>2
  <2>4. \A i, j \in 1..Len(cells) : cells[i] = cells[j] /\ cells[i] \in Rows => i = j
    BY <1>4, <2>3
  <2>5. Lists(Only(cells, Rows), {cells[i] : i \in 1..Len(cells)} \cap Rows)
    <3> HIDE DEF Cells, S, seqs
    <3>1. cells \in Seq(U)
      BY <2>3
    <3> QED
      BY <2>4, <3>1, OnlyLists
  <2>6. {cells[i] : i \in 1..Len(cells)} = {p[i].row : i \in 1..Len(p)}
    BY <2>3
  <2>7. seqs[id] = Only(cells, Rows)
    OBVIOUS
  <2>8. S[id] = {p[i].row : i \in 1..Len(p)} \cap Rows
    OBVIOUS
  <2> HIDE DEF Cells, S, seqs
  <2> QED
    BY <2>5, <2>6, <2>7, <2>8
<1>6. ASSUME NEW k \in 1..n, NEW l \in 1..n, k # l PROVE S[k] \cap S[l] = {}
  <2> SUFFICES ASSUME NEW row \in S[k], row \in S[l] PROVE FALSE
    OBVIOUS
  <2>1. row \in Rows /\ \E i \in 1..Len(h[k]) : row = h[k][i].row
    OBVIOUS
  <2>2. \E j \in 1..Len(h[l]) : row = h[l][j].row
    OBVIOUS
  <2> QED
    BY <1>4, <1>6, <2>1, <2>2
<1>7. UNION {S[id] : id \in 1..n} = RowsOf(h)
  <2>1. ASSUME NEW id \in 1..n, NEW row \in S[id] PROVE row \in RowsOf(h)
    <3>1. PICK i \in 1..Len(h[id]) : row = h[id][i].row /\ row \in Rows
      OBVIOUS
    <3>2. RecordOf(id, i, row) \in Records(h) /\ RecordOf(id, i, row).row = row
      BY <1>3, <3>1 DEF RecordOf
    <3> QED
      BY <3>2 DEF RowsOf
  <2>2. ASSUME NEW row \in RowsOf(h) PROVE \E id \in 1..n : row \in S[id]
    <3>1. PICK r \in Records(h) : row = r.row
      BY DEF RowsOf
    <3>2. r \in Record /\ r.page \in 1..n /\ r.slot \in 1..Len(h[r.page]) /\ h[r.page][r.slot].row = r.row
      BY <1>1, RecordsAre
    <3>3. r.row \in Rows
      BY <3>2 DEF Record
    <3> QED
      BY <3>1, <3>2, <3>3
  <2> HIDE DEF S
  <2> QED
    BY <2>1, <2>2
<1>8. FindAll = [schema |-> Schema, rows |-> FlattenSeq(seqs)]
  BY DEF FindAll, PageIds
<1>9. seqs = [id \in 1..n |-> seqs[id]]
  OBVIOUS
<1> HIDE DEF seqs, S
<1>10. ListApart(seqs, S, n)
  BY <1>1, <1>5, <1>6, <1>9 DEF ListApart
<1>11. Lists(FlattenSeq(seqs), AllOf(S, n))
  BY <1>10, FlattenLists
<1> QED
  BY <1>7, <1>8, <1>11 DEF AllOf

LEMMA ResultIs ==
    ASSUME TableInv, Indexed # {}, NEW query
    PROVE  Result(query).schema = Schema /\ Lists(Result(query).rows, RowsOf(heap) \cap query)
<1> PICK all : all = FindAll
  OBVIOUS
<1>1. all.schema = Schema /\ Lists(all.rows, RowsOf(heap))
  BY FindAllIs
<1>2. all = [schema |-> all.schema, rows |-> all.rows]
  BY DEF FindAll
<1>3. Result(query).schema = all.schema /\ Result(query).rows = Only(all.rows, query)
  BY <1>2 DEF Result, Filter
<1>4. Lists(Only(all.rows, query), RowsOf(heap) \cap query)
  BY <1>1, OnlyOfList
<1> QED
  BY <1>1, <1>3, <1>4

---------------------------------------------------------------------------
(* Joins. *)

CellsOfRows == UNION {Range(row) : row \in Rows}

LEMMA RowsHaveColumns ==
    /\ Len(Schema) \in Nat /\ DOMAIN Schema = 1..Len(Schema)
    /\ \A row \in Rows : row \in Seq(CellsOfRows) /\ Len(row) = Len(Schema)
<1>1. Len(Schema) \in Nat /\ DOMAIN Schema = 1..Len(Schema)
  BY SchemaAssumption, LenProperties DEF IsASequence
<1>2. ASSUME NEW row \in Rows PROVE row \in Seq(CellsOfRows) /\ Len(row) = Len(Schema)
  <2>1. row \in Candidates /\ Validate(row, Schema) = "ok"
    BY DEF Rows
  <2>2. row \in Seq(Range(row))
    BY <2>1, SchemaAssumption DEF IsASequence
  <2>3. Range(row) \subseteq CellsOfRows
    BY DEF CellsOfRows
  <2> QED
    BY <2>1, <2>2, <2>3, SeqMonotonic, ValidRow
<1> QED
  BY <1>1, <1>2

\* A joined row tells what it was joined from.
JoinedOf(row, r, x) == r \in Rows /\ x \in Rows /\ row = r \o x

LEMMA JoinedRowsApart ==
    ASSUME NEW w, NEW r, NEW s, NEW x, NEW y, JoinedOf(w, r, x), JoinedOf(w, s, y)
    PROVE  r = s /\ x = y
<1>0. r \in Rows /\ s \in Rows /\ x \in Rows /\ y \in Rows /\ w = r \o x /\ w = s \o y
  BY DEF JoinedOf
<1> PICK n : n = Len(Schema)
  OBVIOUS
<1>1. n \in Nat /\ \A row \in Rows : row \in Seq(CellsOfRows) /\ Len(row) = n
  BY RowsHaveColumns
<1> PICK C : C = CellsOfRows
  OBVIOUS
<1>2. /\ r \in Seq(C) /\ s \in Seq(C) /\ x \in Seq(C) /\ y \in Seq(C)
      /\ Len(r) = n /\ Len(s) = n /\ Len(x) = n /\ Len(y) = n
  BY <1>0, <1>1
<1>3. \A i \in 1..(n + n) : /\ w[i] = IF i <= n THEN r[i] ELSE x[i - n]
                            /\ w[i] = IF i <= n THEN s[i] ELSE y[i - n]
  <2>1. \A i \in 1..(n + n) : (r \o x)[i] = IF i <= n THEN r[i] ELSE x[i - n]
    BY ONLY <1>1, <1>2, ConcatProperties
  <2>2. \A i \in 1..(n + n) : (s \o y)[i] = IF i <= n THEN s[i] ELSE y[i - n]
    BY ONLY <1>1, <1>2, ConcatProperties
  <2>3. ASSUME NEW i \in 1..(n + n) PROVE (r \o x)[i] = w[i] /\ (s \o y)[i] = w[i]
    BY <1>0
  <2> QED
    BY <2>1, <2>2, <2>3
<1>4. ASSUME NEW i \in 1..n PROVE r[i] = s[i] /\ x[i] = y[i]
  <2>1. i \in 1..(n + n) /\ i <= n /\ n + i \in 1..(n + n) /\ ~(n + i <= n) /\ (n + i) - n = i
    BY <1>1
  <2> QED
    BY <1>3, <2>1
<1> QED
  BY <1>4, <1>2, SeqEqual

\* No two columns have one name.
NamesApart == \A c, d \in DOMAIN Schema : Schema[c].name = Schema[d].name => c = d

LEMMA ColumnFound ==
    ASSUME NamesApart, NEW c \in DOMAIN Schema
    PROVE  FindColumn(Schema, Schema[c].name) = c
<1>1. {i \in DOMAIN Schema : Schema[i].name = Schema[c].name} = {c}
  BY DEF NamesApart
<1>2. {c} \in SUBSET Nat
  BY RowsHaveColumns
<1>3. Min({c}) = c
  BY <1>2, MinIsLeast
<1>4. {c} # {}
  OBVIOUS
<1> PICK named : named = {c}
  OBVIOUS
<1>5. FindColumn(Schema, Schema[c].name) = IF named = {} THEN 0 ELSE Min(named)
  BY <1>1 DEF FindColumn
<1> QED
  BY <1>3, <1>4, <1>5

\* What a row is joined with.
Partners(row, N, c, d) == {row \o x : x \in {y \in N : y[d] = row[c]}}

JoinedWith(hashes, row, c) ==
    IF row[c] \notin DOMAIN hashes THEN << >>
    ELSE [k \in DOMAIN hashes[row[c]] |-> row \o hashes[row[c]][k]]

LEMMA PartnersAre ==
    ASSUME NEW n, NEW N \in SUBSET Rows, Lists(n, N), NEW c, NEW d, NEW row \in Rows
    PROVE  Lists(JoinedWith(Hashed(n, d), row, c), Partners(row, N, c, d))
<1> PICK hashes, key, P : hashes = Hashed(n, d) /\ key = row[c] /\ P = {y \in N : y[d] = key}
  OBVIOUS
<1>1. ToSet(n) = N
  BY ListsRange
<1>2. DOMAIN hashes = {y[d] : y \in N}
  BY <1>1 DEF Hashed
<1>3. CASE key \notin DOMAIN hashes
  <2>1. P = {}
    BY <1>2, <1>3
  <2>2. Partners(row, N, c, d) = {}
    BY <2>1 DEF Partners
  <2>3. JoinedWith(hashes, row, c) = << >>
    BY <1>3 DEF JoinedWith
  <2> QED
    BY <2>2, <2>3, ListsNone
<1>4. CASE key \in DOMAIN hashes
  <2> PICK s, F : s = hashes[key] /\ F = [x \in Rows |-> row \o x]
    OBVIOUS
  <2>1. s = Only(n, Sharing(n, d, key)) /\ Sharing(n, d, key) = P
    BY <1>1, <1>2, <1>4 DEF Hashed, Sharing
  <2>2. Lists(s, N \cap P) /\ N \cap P = P
    BY <2>1, OnlyOfList
  <2>3. P \subseteq Rows
    OBVIOUS
  <2>4. TellApart(F, P)
    <3> SUFFICES ASSUME NEW x \in P, NEW y \in P, F[x] = F[y] PROVE x = y
      BY DEF TellApart
    <3>1. JoinedOf(F[x], row, x) /\ JoinedOf(F[x], row, y)
      BY <2>3 DEF JoinedOf
    <3> QED
      BY <3>1, JoinedRowsApart
  <2>5. Lists(s, P)
    BY <2>2
  <2>6. Lists([k \in DOMAIN s |-> F[s[k]]], {F[x] : x \in P})
    <3> PICK G : G = F
      OBVIOUS
    <3>1. TellApart(G, P)
      BY <2>4
    <3>2. Lists([k \in DOMAIN s |-> G[s[k]]], {G[x] : x \in P})
      BY ONLY <2>5, <3>1, ListsEach
    <3> QED
      BY <3>2
  <2>7. [k \in DOMAIN s |-> F[s[k]]] = [k \in DOMAIN s |-> row \o s[k]]
    <3>1. \A k \in DOMAIN s : s[k] \in P
      BY <2>5, ListsRange
    <3> QED
      BY <2>3, <3>1
  <2>8. {F[x] : x \in P} = {row \o x : x \in P}
    BY <2>3
  <2>9. Partners(row, N, c, d) = {row \o x : x \in P}
    BY DEF Partners
  <2>10. JoinedWith(hashes, row, c) = [k \in DOMAIN s |-> row \o s[k]]
    BY <1>4 DEF JoinedWith
  <2> QED
    BY <2>6, <2>7, <2>8, <2>9, <2>10
<1> QED
  BY <1>3, <1>4

PairsOf(O, N, c, d) == {pair \in O \X N : pair[1][c] = pair[2][d]}

JoinedPairs(O, N, c, d) == {pair[1] \o pair[2] : pair \in PairsOf(O, N, c, d)}

\* Rows are put together as often as there are pairs of them.
LEMMA PairsCounted ==
    ASSUME NEW O \in SUBSET Rows, NEW N \in SUBSET Rows, NEW c, NEW d, IsFiniteSet(JoinedPairs(O, N, c, d))
    PROVE  Cardinality(PairsOf(O, N, c, d)) = Cardinality(JoinedPairs(O, N, c, d))
<1> PICK P, J, F : /\ P = PairsOf(O, N, c, d) /\ J = JoinedPairs(O, N, c, d)
                   /\ F = [pair \in P |-> pair[1] \o pair[2]]
  OBVIOUS
<1>1. J = {F[pair] : pair \in P}
  BY DEF JoinedPairs
<1>2. F \in Surjection(P, J)
  BY <1>1 DEF Surjection
<1>3. \A pair \in P : pair \in Rows \X Rows
  BY DEF PairsOf
<1>4. ASSUME NEW p \in P, NEW q \in P, F[p] = F[q] PROVE p = q
  <2>1. /\ p \in Rows \X Rows /\ q \in Rows \X Rows
        /\ p[1] \in Rows /\ p[2] \in Rows /\ q[1] \in Rows /\ q[2] \in Rows
    BY <1>3
  <2>2. JoinedOf(F[p], p[1], p[2]) /\ JoinedOf(F[p], q[1], q[2])
    BY <1>4, <2>1 DEF JoinedOf
  <2>3. p[1] = q[1] /\ p[2] = q[2]
    BY <2>2, JoinedRowsApart
  <2> QED
    BY <2>1, <2>3
<1>5. F \in Injection(P, J)
  BY <1>1, <1>4 DEF Injection, IsInjective
<1> QED
  BY <1>2, <1>5, FS_Injection

LEMMA JoinIs ==
    ASSUME NamesApart, NEW outer, NEW inner, outer.schema = Schema, inner.schema = Schema,
           NEW O \in SUBSET Rows, NEW N \in SUBSET Rows, Lists(outer.rows, O), Lists(inner.rows, N),
           NEW c \in DOMAIN Schema, NEW d \in DOMAIN Schema,
           NEW joined, joined = HashJoin(outer, inner, Schema[c].name, Schema[d].name)
    PROVE  IF Schema[c].col_type.raw # Schema[d].col_type.raw THEN joined = Err
           ELSE Lists(joined.value.rows, JoinedPairs(O, N, c, d))
<1> PICK o, n, hashes : o = outer.rows /\ n = inner.rows /\ hashes = Hashed(inner.rows, d)
  OBVIOUS
<1> DEFINE seqs == [k \in DOMAIN o |-> JoinedWith(hashes, o[k], c)]
           S    == [k \in 1..Len(o) |-> Partners(o[k], N, c, d)]
<1>1. FindColumn(Schema, Schema[c].name) = c /\ FindColumn(Schema, Schema[d].name) = d /\ 0 \notin {c, d}
  BY ColumnFound, RowsHaveColumns
<1>2. joined = IF Schema[c].col_type.raw # Schema[d].col_type.raw THEN Err
               ELSE Ok([schema |-> Schema \o Schema, rows |-> FlattenSeq(seqs)])
  BY <1>1 DEF HashJoin, JoinedWith
<1>3. Len(o) \in Nat /\ DOMAIN o = 1..Len(o) /\ O = {o[k] : k \in 1..Len(o)}
  BY ListsRange
<1>4. ASSUME NEW k \in 1..Len(o) PROVE o[k] \in Rows /\ Lists(seqs[k], S[k])
  <2>1. o[k] \in Rows
    BY <1>3
  <2>2. Lists(JoinedWith(hashes, o[k], c), Partners(o[k], N, c, d))
    BY <2>1, PartnersAre
  <2> QED
    BY <1>3, <2>1, <2>2
<1>5. ASSUME NEW k \in 1..Len(o), NEW l \in 1..Len(o), k # l PROVE S[k] \cap S[l] = {}
  <2> SUFFICES ASSUME NEW row \in S[k], row \in S[l] PROVE FALSE
    OBVIOUS
  <2>1. PICK x \in N : row = o[k] \o x
    BY DEF Partners
  <2>2. PICK y \in N : row = o[l] \o y
    BY DEF Partners
  <2> PICK r, s : r = o[k] /\ s = o[l]
    OBVIOUS
  <2>3. JoinedOf(row, r, x) /\ JoinedOf(row, s, y)
    BY <1>4, <2>1, <2>2 DEF JoinedOf
  <2>4. r = s
    BY <2>3, JoinedRowsApart
  <2> QED
    BY <1>5, <2>4 DEF Lists
<1>6. UNION {S[k] : k \in 1..Len(o)} = JoinedPairs(O, N, c, d)
  <2>1. ASSUME NEW k \in 1..Len(o), NEW row \in S[k] PROVE row \in JoinedPairs(O, N, c, d)
    <3>1. PICK x \in N : row = o[k] \o x /\ x[d] = o[k][c]
      BY DEF Partners
    <3>2. <<o[k], x>> \in PairsOf(O, N, c, d)
      BY <1>3, <3>1 DEF PairsOf
    <3>3. PICK pair : pair = <<o[k], x>>
      OBVIOUS
    <3>4. pair \in PairsOf(O, N, c, d) /\ row = pair[1] \o pair[2]
      BY <3>1, <3>2, <3>3
    <3> QED
      BY <3>4 DEF JoinedPairs
  <2>2. ASSUME NEW row \in JoinedPairs(O, N, c, d) PROVE \E k \in 1..Len(o) : row \in S[k]
    <3>1. PICK pair \in PairsOf(O, N, c, d) : row = pair[1] \o pair[2]
      BY DEF JoinedPairs
    <3>2. pair[1] \in O /\ pair[2] \in N /\ pair[1][c] = pair[2][d]
      BY DEF PairsOf
    <3>3. PICK k \in 1..Len(o) : o[k] = pair[1]
      BY <1>3, <3>2
    <3>4. row \in Partners(o[k], N, c, d)
      BY <3>1, <3>2, <3>3 DEF Partners
    <3> QED
      BY <3>4
  <2> HIDE DEF S
  <2> QED
    BY <2>1, <2>2
<1>7. seqs = [k \in 1..Len(o) |-> seqs[k]]
  BY <1>3
<1> HIDE DEF seqs, S
<1>8. Lists(FlattenSeq(seqs), AllOf(S, Len(o)))
  <2> PICK m : m = Len(o)
    OBVIOUS
  <2>1. m \in Nat /\ seqs = [k \in 1..m |-> seqs[k]] /\ \A k \in 1..m : Lists(seqs[k], S[k])
    BY <1>3, <1>4, <1>7
  <2>2. \A k, l \in 1..m : k # l => S[k] \cap S[l] = {}
    BY <1>5
  <2>3. ListApart(seqs, S, m)
    BY <2>1, <2>2 DEF ListApart
  <2>4. Lists(FlattenSeq(seqs), AllOf(S, m))
    BY <2>3, FlattenLists
  <2> QED
    BY <2>4
<1>9. Ok([schema |-> Schema \o Schema, rows |-> FlattenSeq(seqs)]).value.rows = FlattenSeq(seqs)
  BY DEF Ok
<1> QED
  BY <1>2, <1>6, <1>8, <1>9 DEF AllOf

\* JoinsAreComplete: when no two rows are equal, as those of a table with an
\* index, and no two columns have one name, hash_join yields each pair of rows with
\* equal cells once and nothing else (QueryResult::hash_join, QueryResult::filter).
THEOREM JoinsYieldAllPairs ==
    ASSUME Indexed # {}, NamesApart PROVE SafeSpec => []JoinsAreComplete
<1>1. TableInv => JoinsAreComplete
  <2> SUFFICES ASSUME TableInv, NEW query \in Queries, NEW c \in DOMAIN Schema, NEW d \in DOMAIN Schema
               PROVE  LET all    == Result(Rows)
                          found  == Result(query)
                          joined == HashJoin(all, found, Schema[c].name, Schema[d].name)
                          pairs  == {pair \in ToSet(all.rows) \X ToSet(found.rows) : pair[1][c] = pair[2][d]}
                      IN IF Schema[c].col_type.raw # Schema[d].col_type.raw THEN joined = Err
                         ELSE /\ ToSet(joined.value.rows) = {pair[1] \o pair[2] : pair \in pairs}
                              /\ Len(joined.value.rows) = Cardinality(pairs)
    BY DEF JoinsAreComplete
  <2> PICK all, found, O, N, joined :
         /\ all = Result(Rows) /\ found = Result(query) /\ O = RowsOf(heap) \cap Rows /\ N = RowsOf(heap) \cap query
         /\ joined = HashJoin(Result(Rows), Result(query), Schema[c].name, Schema[d].name)
    OBVIOUS
  <2>1. O \in SUBSET Rows /\ N \in SUBSET Rows
    BY TableAssumption
  <2>2. all.schema = Schema /\ Lists(all.rows, O) /\ found.schema = Schema /\ Lists(found.rows, N)
    BY ResultIs
  <2>3. ToSet(all.rows) = O /\ ToSet(found.rows) = N
    BY <2>2, ListsRange
  <2>0. joined = HashJoin(all, found, Schema[c].name, Schema[d].name)
    OBVIOUS
  <2>4. IF Schema[c].col_type.raw # Schema[d].col_type.raw THEN joined = Err
        ELSE Lists(joined.value.rows, JoinedPairs(O, N, c, d))
    BY <2>0, <2>1, <2>2, JoinIs
  <2>5. CASE Schema[c].col_type.raw = Schema[d].col_type.raw
    <3>1. Lists(joined.value.rows, JoinedPairs(O, N, c, d))
      BY <2>4, <2>5
    <3>2. ToSet(joined.value.rows) = JoinedPairs(O, N, c, d)
      BY <3>1, ListsRange
    <3>3. Len(joined.value.rows) = Cardinality(PairsOf(O, N, c, d))
      BY <2>1, <3>1, ListsCount, PairsCounted
    <3> QED
      BY <2>3, <2>5, <3>2, <3>3 DEF JoinedPairs, PairsOf
  <2>6. CASE Schema[c].col_type.raw # Schema[d].col_type.raw
    BY <2>4, <2>6
  <2> QED
    BY <2>5, <2>6
<1> QED
  BY <1>1, TableInvHolds, PTL

=============================================================================
