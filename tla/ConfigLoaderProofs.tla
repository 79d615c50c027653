------------------------- MODULE ConfigLoaderProofs -------------------------
(***************************************************************************)
(* Theorems about ConfigLoader for all files of devices and of settings,   *)
(* all limits and every size of the buffer of the ninth column.            *)
(***************************************************************************)
EXTENDS ConfigLoader, Descent, FiniteSetTheorems

-----------------------------------------------------------------------------
(* Where the items of a text begin *)

\* What the definition of Offset asks of its table.
IsTable(table, widths, n) ==
  table = [k \in 1 .. n |-> IF k = 1 THEN 0 ELSE table[k - 1] + widths[k - 1] + 1]

LEMMA TableExists == ASSUME NEW widths PROVE \A n \in Nat : \E table : IsTable(table, widths, n)
<1> DEFINE T == {n \in Nat : \E table : IsTable(table, widths, n)}
<1>1. 0 \in T
  <2>1. IsTable(<<>>, widths, 0)
    BY DEF IsTable
  <2> QED
    BY <2>1
<1>2. ASSUME NEW n \in Nat \ {0}, n - 1 \in T PROVE n \in T
  <2>1. PICK g : IsTable(g, widths, n - 1)
    BY <1>2
  <2> DEFINE h == [k \in 1 .. n |-> IF k = 1 THEN 0 ELSE g[k - 1] + widths[k - 1] + 1]
  <2>2. \A k \in 1 .. n - 1 : h[k] = g[k]
    BY <2>1 DEF IsTable
  <2>3. ASSUME NEW k \in 1 .. n
        PROVE  h[k] = IF k = 1 THEN 0 ELSE h[k - 1] + widths[k - 1] + 1
    <3>1. k # 1 => k - 1 \in 1 .. n - 1
      OBVIOUS
    <3> QED
      BY <3>1, <2>2
  <2>4. h = [k \in 1 .. n |-> h[k]]
    OBVIOUS
  <2> HIDE DEF h
  <2>5. IsTable(h, widths, n)
    BY <2>3, <2>4 DEF IsTable
  <2> QED
    BY <2>5
<1> HIDE DEF T
<1>3. Nat \subseteq T
  BY <1>1, <1>2, Climb
<1> QED
  BY <1>3 DEF T

LEMMA OffsetStep ==
  ASSUME NEW n \in Nat, NEW widths \in [1 .. n -> Nat], NEW i \in 1 .. n
  PROVE  Offset(widths, i) = IF i = 1 THEN 0 ELSE Offset(widths, i - 1) + widths[i - 1] + 1
<1> DEFINE before == CHOOSE table : IsTable(table, widths, Len(widths))
<1>1. Len(widths) = n
  OBVIOUS
<1>2. IsTable(before, widths, Len(widths))
  BY <1>1, TableExists
<1>3. \A k : Offset(widths, k) = before[k]
  BY DEF Offset, IsTable
<1> HIDE DEF before
<1> QED
  BY <1>1, <1>2, <1>3 DEF IsTable

LEMMA OffsetNat ==
  ASSUME NEW n \in Nat, NEW widths \in [1 .. n -> Nat]
  PROVE  \A i \in 1 .. n : Offset(widths, i) \in Nat
<1> DEFINE T == {i \in Nat : i \in 1 .. n => Offset(widths, i) \in Nat}
<1>1. 0 \in T
  OBVIOUS
<1>2. ASSUME NEW i \in Nat \ {0}, i - 1 \in T PROVE i \in T
  <2>1. SUFFICES ASSUME i \in 1 .. n PROVE Offset(widths, i) \in Nat
    OBVIOUS
  <2>2. CASE i = 1
    BY <2>1, <2>2, OffsetStep
  <2>3. CASE i # 1
    <3>1. i - 1 \in 1 .. n
      BY <2>1, <2>3
    <3>2. Offset(widths, i - 1) \in Nat /\ widths[i - 1] \in Nat
      BY <3>1, <1>2
    <3>3. Offset(widths, i) = Offset(widths, i - 1) + widths[i - 1] + 1
      BY <2>1, <2>3, OffsetStep
    <3> QED
      BY <3>2, <3>3
  <2> QED
    BY <2>2, <2>3
<1> HIDE DEF T
<1>3. Nat \subseteq T
  BY <1>1, <1>2, Climb
<1> QED
  BY <1>3 DEF T

\* An item begins behind the end of every earlier one.
LEMMA OffsetGrows ==
  ASSUME NEW n \in Nat, NEW widths \in [1 .. n -> Nat], NEW i \in 1 .. n
  PROVE  \A j \in i + 1 .. n : Offset(widths, i) + widths[i] < Offset(widths, j)
<1> DEFINE T == {k \in Nat : i + 1 + k \in 1 .. n => Offset(widths, i) + widths[i] < Offset(widths, i + 1 + k)}
<1>0. \A j \in 1 .. n : Offset(widths, j) \in Nat /\ widths[j] \in Nat
  BY OffsetNat
<1>1. 0 \in T
  <2>1. SUFFICES ASSUME i + 1 \in 1 .. n PROVE Offset(widths, i) + widths[i] < Offset(widths, i + 1)
    OBVIOUS
  <2>2. Offset(widths, i + 1) = Offset(widths, i) + widths[i] + 1
    <3>1. i + 1 # 1 /\ (i + 1) - 1 = i
      OBVIOUS
    <3> QED
      BY <2>1, <3>1, OffsetStep
  <2> QED
    BY <2>1, <2>2, <1>0
<1>2. ASSUME NEW k \in Nat \ {0}, k - 1 \in T PROVE k \in T
  <2>1. SUFFICES ASSUME i + 1 + k \in 1 .. n
                 PROVE  Offset(widths, i) + widths[i] < Offset(widths, i + 1 + k)
    OBVIOUS
  <2>2. i + k \in 1 .. n /\ i + 1 + (k - 1) = i + k /\ i + 1 + k # 1 /\ (i + 1 + k) - 1 = i + k
    BY <2>1
  <2>3. Offset(widths, i) + widths[i] < Offset(widths, i + k)
    BY <1>2, <2>2
  <2>4. Offset(widths, i + 1 + k) = Offset(widths, i + k) + widths[i + k] + 1
    BY <2>1, <2>2, OffsetStep
  <2> QED
    BY <2>1, <2>2, <2>3, <2>4, <1>0
<1> HIDE DEF T
<1>3. Nat \subseteq T
  BY <1>1, <1>2, Climb
<1>4. ASSUME NEW j \in i + 1 .. n PROVE Offset(widths, i) + widths[i] < Offset(widths, j)
  <2>1. j - i - 1 \in Nat /\ i + 1 + (j - i - 1) = j /\ j \in 1 .. n
    OBVIOUS
  <2> QED
    BY <1>3, <2>1 DEF T
<1> QED
  BY <1>4

\* The items that begin below a bound are the first ones.
LEMMA FirstOnes ==
  ASSUME NEW n \in Nat, NEW S, S \subseteq 1 .. n, \A i \in S : \A j \in 1 .. i : j \in S
  PROVE  S = 1 .. Cardinality(S) /\ Cardinality(S) \in 0 .. n
<1> DEFINE Rest == {i \in Nat : i + 1 \notin S}
<1>1. Rest \subseteq Nat /\ n \in Rest
  OBVIOUS
<1>2. PICK k \in Rest : \A i \in Rest : k <= i
  <2> HIDE DEF Rest
  <2> QED
    BY <1>1, LeastNumber
<1>3. k \in 0 .. n
  BY <1>1, <1>2
<1>4. S = 1 .. k
  <2>1. ASSUME NEW i \in S PROVE i <= k
    <3>1. SUFFICES ASSUME k + 1 <= i PROVE FALSE
      BY <1>3
    <3>2. k + 1 \in 1 .. i
      BY <3>1, <1>3
    <3> QED
      BY <3>2, <1>2
  <2>2. ASSUME NEW i \in 1 .. k PROVE i \in S
    <3>1. i - 1 \in Nat /\ ~(k <= i - 1) /\ (i - 1) + 1 = i
      BY <1>3
    <3> QED
      BY <3>1, <1>2
  <2>3. S \subseteq 1 .. k
    BY <2>1, <1>3
  <2> QED
    BY <2>2, <2>3
<1>5. Cardinality(1 .. k) = k
  BY <1>3, FS_Interval
<1> QED
  BY <1>3, <1>4, <1>5

-----------------------------------------------------------------------------
(* What the buffer of the ninth column keeps *)

IsCapability(parts) ==
  /\ parts \in Seq(STRING) \ {<<>>}
  /\ \A j \in DOMAIN parts : IsText(parts[j])

LEMMA PartsType ==
  ASSUME NEW parts, IsCapability(parts)
  PROVE  /\ Len(parts) \in Nat \ {0}
         /\ DOMAIN parts = 1 .. Len(parts)
         /\ PartWidths(parts) \in [1 .. Len(parts) -> Nat]
         /\ \A i \in 1 .. Len(parts) : PartWidths(parts)[i] = Len(parts[i])
<1>1. Len(parts) \in Nat \ {0} /\ DOMAIN parts = 1 .. Len(parts)
  BY DEF IsCapability
<1> QED
  BY <1>1 DEF IsCapability, IsText, PartWidths

\* Every part of a text ends within the text.
LEMMA PartsWithin ==
  ASSUME NEW parts, IsCapability(parts)
  PROVE  /\ Width(parts) \in Nat
         /\ \A i \in 1 .. Len(parts) :
              /\ Offset(PartWidths(parts), i) \in Nat
              /\ Offset(PartWidths(parts), i) + Len(parts[i]) <= Width(parts)
<1> DEFINE n == Len(parts)
           w == PartWidths(parts)
<1>1. n \in Nat \ {0} /\ w \in [1 .. n -> Nat] /\ \A i \in 1 .. n : w[i] = Len(parts[i])
  BY PartsType
<1>2. Width(parts) = Offset(w, n) + w[n]
  BY <1>1 DEF Width
<1> HIDE DEF n, w
<1>3. \A i \in 1 .. n : Offset(w, i) \in Nat /\ w[i] \in Nat
  BY <1>1, OffsetNat
<1>4. ASSUME NEW i \in 1 .. n PROVE Offset(w, i) + w[i] <= Width(parts)
  <2>1. CASE i = n
    BY <2>1, <1>1, <1>2, <1>3
  <2>2. CASE i # n
    <3>1. n \in i + 1 .. n
      BY <2>2, <1>1
    <3>2. Offset(w, i) + w[i] < Offset(w, n)
      BY <3>1, <1>1, OffsetGrows
    <3> QED
      BY <3>2, <1>1, <1>2, <1>3
  <2> QED
    BY <2>1, <2>2
<1> QED
  BY <1>1, <1>2, <1>3, <1>4 DEF n, w

\* A capability that fits what is left of the buffer is not cut.
LEMMA CutWhole ==
  ASSUME NEW parts, IsCapability(parts), NEW n \in Int, Width(parts) <= n
  PROVE  Cut(parts, n) = parts
<1> DEFINE begins == [i \in DOMAIN parts |-> Offset(PartWidths(parts), i)]
           kept == Cardinality({i \in DOMAIN parts : begins[i] <= n})
<1>1. /\ Len(parts) \in Nat \ {0} /\ DOMAIN parts = 1 .. Len(parts)
      /\ \A i \in 1 .. Len(parts) : Len(parts[i]) \in Nat /\ SubSeq(parts[i], 1, Len(parts[i])) = parts[i]
  BY PartsType DEF IsCapability, IsText
<1>2. \A i \in 1 .. Len(parts) : begins[i] \in Nat /\ begins[i] + Len(parts[i]) <= n
  BY <1>1, PartsWithin
<1>3. {i \in DOMAIN parts : begins[i] <= n} = 1 .. Len(parts)
  BY <1>1, <1>2
<1>4. kept = Len(parts)
  <2>1. Cardinality(1 .. Len(parts)) = Len(parts)
    BY <1>1, FS_Interval
  <2> QED
    BY <1>3, <2>1
<1>5. \A i \in 1 .. Len(parts) : Least(Len(parts[i]), n - begins[i]) = Len(parts[i])
  BY <1>1, <1>2 DEF Least
<1>6. Cut(parts, n) =
        [i \in 1 .. kept |-> SubSeq(parts[i], 1, Least(Len(parts[i]), n - begins[i]))]
  BY DEF Cut
<1> HIDE DEF begins, kept
<1>7. Cut(parts, n) = [i \in 1 .. Len(parts) |-> parts[i]]
  BY <1>1, <1>4, <1>5, <1>6
<1> QED
  BY <1>1, <1>7 DEF IsCapability

\* The column keeps the first capabilities, all but the last of them whole.
LEMMA ColumnShape ==
  ASSUME NEW texts, IsColumn(texts)
  PROVE  /\ Len(texts) \in Nat /\ DOMAIN texts = 1 .. Len(texts)
         /\ Len(Column(texts)) \in 0 .. Len(texts)
         /\ DOMAIN Column(texts) = 1 .. Len(Column(texts))
         /\ Column(texts) \in Seq({Column(texts)[i] : i \in DOMAIN Column(texts)})
         /\ \A j \in 1 .. Len(Column(texts)) - 1 : Column(texts)[j] = texts[j]
<1> DEFINE n == Len(texts)
           w == [j \in DOMAIN texts |-> Width(texts[j])]
           begins == [i \in DOMAIN texts |-> Offset(w, i)]
           S == {i \in DOMAIN texts : begins[i] < ColumnSize - 1}
           kept == Cardinality(S)
           col == Column(texts)
<1>1. n \in Nat /\ DOMAIN texts = 1 .. n /\ \A i \in 1 .. n : IsCapability(texts[i])
  BY DEF IsColumn, IsCapability
<1>2. w \in [1 .. n -> Nat]
  BY <1>1, PartsWithin
<1>3. col = [i \in 1 .. kept |-> Cut(texts[i], ColumnSize - 1 - begins[i])]
  BY DEF Column
<1>4. \A i \in 1 .. n : begins[i] = Offset(w, i) /\ w[i] = Width(texts[i])
  BY <1>1
<1>4a. S = {i \in 1 .. n : begins[i] < ColumnSize - 1}
  BY <1>1
<1> HIDE DEF n, w, begins, S, kept, col
<1>5. \A i \in 1 .. n : begins[i] \in Nat /\ w[i] \in Nat
  BY <1>1, <1>2, <1>4, OffsetNat
<1>6. \A i \in 1 .. n : \A j \in i + 1 .. n : begins[i] + w[i] < begins[j]
  <2>1. SUFFICES ASSUME NEW i \in 1 .. n, NEW j \in i + 1 .. n
                 PROVE  begins[i] + w[i] < begins[j]
    OBVIOUS
  <2>2. Offset(w, i) + w[i] < Offset(w, j)
    BY <1>1, <1>2, OffsetGrows
  <2>3. j \in 1 .. n
    BY <1>1
  <2> QED
    BY <1>4, <2>2, <2>3
<1>7. S = 1 .. kept /\ kept \in 0 .. n
  <2>1. ASSUME NEW i \in S, NEW j \in 1 .. i PROVE j \in S
    <3>1. i \in 1 .. n /\ j \in 1 .. n /\ begins[i] < ColumnSize - 1
      BY <1>1, <1>4a
    <3>2. CASE i = j
      BY <3>2
    <3>3. CASE i # j
      <4>1. i \in j + 1 .. n
        BY <3>1, <3>3
      <4>2. begins[j] + w[j] < begins[i]
        BY <4>1, <3>1, <1>6
      <4> QED
        BY <4>2, <3>1, <1>4a, <1>5, LimitsAssumption
    <3> QED
      BY <3>2, <3>3
  <2>2. S \subseteq 1 .. n
    BY <1>4a
  <2> QED
    BY <2>1, <2>2, <1>1, FirstOnes DEF kept
<1>8. DOMAIN col = 1 .. kept /\ Len(col) = kept /\ col \in Seq({col[i] : i \in DOMAIN col})
  <2>1. DOMAIN col = 1 .. kept /\ kept \in Nat
    BY <1>3, <1>7, <1>1
  <2>2. col \in [1 .. kept -> {col[i] : i \in DOMAIN col}]
    BY <2>1, <1>3
  <2> QED
    BY <2>1, <2>2
<1>9. ASSUME NEW j \in 1 .. kept - 1 PROVE col[j] = texts[j]
  <2>1. j \in 1 .. n /\ j + 1 \in j + 1 .. n /\ j + 1 \in 1 .. kept /\ j \in 1 .. kept
    BY <1>1, <1>7
  <2>2. begins[j] + w[j] < begins[j + 1]
    BY <2>1, <1>6
  <2>3. begins[j + 1] < ColumnSize - 1
    BY <2>1, <1>7, <1>4a
  <2>4. Width(texts[j]) <= ColumnSize - 1 - begins[j] /\ ColumnSize - 1 - begins[j] \in Int
    BY <2>1, <2>2, <2>3, <1>1, <1>4, <1>5, <1>7, LimitsAssumption
  <2>5. Cut(texts[j], ColumnSize - 1 - begins[j]) = texts[j]
    BY <2>1, <2>4, <1>1, CutWhole
  <2> QED
    BY <2>1, <2>5, <1>3
<1> QED
  BY <1>1, <1>7, <1>8, <1>9 DEF n, col

-----------------------------------------------------------------------------
(* Sequences, whatever their elements *)

IsList(s) == s \in Seq({s[i] : i \in DOMAIN s})

LEMMA ListShape ==
  ASSUME NEW s, IsList(s)
  PROVE  Len(s) \in Nat /\ DOMAIN s = 1 .. Len(s)
  BY DEF IsList

LEMMA EmptyList == IsList(<<>>) /\ Len(<<>>) = 0 /\ DOMAIN <<>> = {}
  BY DEF IsList

LEMMA SeqIsList == ASSUME NEW S, NEW s \in Seq(S) PROVE IsList(s)
<1>1. Len(s) \in Nat /\ DOMAIN s = 1 .. Len(s) /\ s = [i \in 1 .. Len(s) |-> s[i]]
  OBVIOUS
<1>2. s \in [1 .. Len(s) -> {s[i] : i \in DOMAIN s}]
  BY <1>1
<1> QED
  BY <1>1, <1>2 DEF IsList

LEMMA AppendList ==
  ASSUME NEW s, IsList(s), NEW x
  PROVE  /\ IsList(Append(s, x))
         /\ Len(Append(s, x)) = Len(s) + 1
         /\ \A i \in 1 .. Len(s) : Append(s, x)[i] = s[i]
         /\ Append(s, x)[Len(s) + 1] = x
<1> DEFINE S == {s[i] : i \in DOMAIN s} \cup {x}
<1>1. s \in Seq(S) /\ x \in S
  BY DEF IsList
<1> HIDE DEF S
<1>2. Append(s, x) \in Seq(S)
  BY <1>1
<1>3. IsList(Append(s, x))
  BY <1>2, SeqIsList
<1> QED
  BY <1>1, <1>3

LEMMA TailSeq ==
  ASSUME NEW S, NEW s \in Seq(S), s # <<>>
  PROVE  /\ Tail(s) \in Seq(S)
         /\ Len(s) \in Nat \ {0}
         /\ Len(Tail(s)) = Len(s) - 1
         /\ Head(s) = s[1]
         /\ \A i \in 1 .. Len(s) - 1 : Tail(s)[i] = s[i + 1]
  OBVIOUS

LEMMA TailList ==
  ASSUME NEW s, IsList(s), s # <<>>
  PROVE  /\ IsList(Tail(s))
         /\ Len(s) \in Nat \ {0}
         /\ Len(Tail(s)) = Len(s) - 1
         /\ Head(s) = s[1]
         /\ \A i \in 1 .. Len(s) - 1 : Tail(s)[i] = s[i + 1]
<1>1. s \in Seq({s[i] : i \in DOMAIN s})
  BY DEF IsList
<1> QED
  BY <1>1, TailSeq, SeqIsList, Zenon

-----------------------------------------------------------------------------
(* What a file declares *)

IsPrefixes(table, file, n) ==
  table = [k \in 0 .. n |->
             IF k = 0 THEN <<>>
             ELSE IF IsDevice(file[k]) THEN Append(table[k - 1], file[k]) ELSE table[k - 1]]

LEMMA PrefixesValue ==
  ASSUME NEW table, NEW file, NEW n \in Nat, IsPrefixes(table, file, n)
  PROVE  /\ table[0] = <<>>
         /\ \A k \in 1 .. n :
              table[k] = IF IsDevice(file[k]) THEN Append(table[k - 1], file[k]) ELSE table[k - 1]
<1>1. \A k \in 0 .. n :
        table[k] = IF k = 0 THEN <<>>
                   ELSE IF IsDevice(file[k]) THEN Append(table[k - 1], file[k]) ELSE table[k - 1]
  BY Zenon DEF IsPrefixes
<1> QED
  BY <1>1

LEMMA PrefixesExist == ASSUME NEW file PROVE \A n \in Nat : \E table : IsPrefixes(table, file, n)
<1> DEFINE T == {n \in Nat : \E table : IsPrefixes(table, file, n)}
<1>1. 0 \in T
  <2>1. IsPrefixes([k \in 0 .. 0 |-> <<>>], file, 0)
    BY DEF IsPrefixes
  <2> QED
    BY <2>1
<1>2. ASSUME NEW n \in Nat \ {0}, n - 1 \in T PROVE n \in T
  <2>1. PICK g : IsPrefixes(g, file, n - 1)
    BY <1>2
  <2> DEFINE h == [k \in 0 .. n |->
                     IF k = 0 THEN <<>>
                     ELSE IF IsDevice(file[k]) THEN Append(g[k - 1], file[k]) ELSE g[k - 1]]
  <2>2. \A k \in 0 .. n - 1 : h[k] = g[k]
    BY <2>1, PrefixesValue
  <2>3. ASSUME NEW k \in 0 .. n
        PROVE  h[k] = IF k = 0 THEN <<>>
                      ELSE IF IsDevice(file[k]) THEN Append(h[k - 1], file[k]) ELSE h[k - 1]
    <3>1. k # 0 => k - 1 \in 0 .. n - 1
      OBVIOUS
    <3> QED
      BY <3>1, <2>2
  <2>4. h = [k \in 0 .. n |-> h[k]]
    OBVIOUS
  <2> HIDE DEF h
  <2>5. IsPrefixes(h, file, n)
    BY <2>3, <2>4 DEF IsPrefixes
  <2> QED
    BY <2>5
<1> HIDE DEF T
<1>3. Nat \subseteq T
  BY <1>1, <1>2, Climb
<1> QED
  BY <1>3 DEF T

LEMMA DeclarationsStep ==
  ASSUME NEW file, Len(file) \in Nat
  PROVE  /\ Declarations(file)[0] = <<>>
         /\ \A n \in 1 .. Len(file) :
              Declarations(file)[n] = IF IsDevice(file[n])
                                      THEN Append(Declarations(file)[n - 1], file[n])
                                      ELSE Declarations(file)[n - 1]
<1> DEFINE first == CHOOSE table : IsPrefixes(table, file, Len(file))
<1>1. IsPrefixes(first, file, Len(file))
  BY PrefixesExist
<1>2. Declarations(file) = first
  BY DEF Declarations, IsPrefixes
<1> HIDE DEF first
<1> QED
  BY <1>1, <1>2, PrefixesValue

\* They are device lines of the file.
DeviceLines(file) == {file[i] : i \in {j \in DOMAIN file : IsDevice(file[j])}}

LEMMA DeclarationsType ==
  ASSUME NEW file, IsList(file)
  PROVE  \A n \in 0 .. Len(file) : Declarations(file)[n] \in Seq(DeviceLines(file))
<1> DEFINE D == Declarations(file)
           L == DeviceLines(file)
           T == {n \in Nat : n \in 0 .. Len(file) => D[n] \in Seq(L)}
<1>0. Len(file) \in Nat /\ DOMAIN file = 1 .. Len(file)
  BY ListShape
<1>1. 0 \in T
  <2>1. D[0] = <<>>
    BY <1>0, DeclarationsStep
  <2>2. <<>> \in Seq(L)
    <3> HIDE DEF L
    <3> QED
      OBVIOUS
  <2> HIDE DEF D, L
  <2> QED
    BY <2>1, <2>2
<1>2. ASSUME NEW n \in Nat \ {0}, n - 1 \in T PROVE n \in T
  <2>1. SUFFICES ASSUME n \in 1 .. Len(file) PROVE D[n] \in Seq(L)
    BY <1>0
  <2>2. D[n - 1] \in Seq(L)
    BY <1>0, <1>2, <2>1
  <2>3. D[n] = IF IsDevice(file[n]) THEN Append(D[n - 1], file[n]) ELSE D[n - 1]
    BY <1>0, <2>1, DeclarationsStep
  <2>4. IsDevice(file[n]) => file[n] \in L
    BY <1>0, <2>1 DEF DeviceLines
  <2> HIDE DEF D, L
  <2> QED
    BY <2>2, <2>3, <2>4
<1> HIDE DEF T
<1>3. Nat \subseteq T
  BY <1>1, <1>2, Climb
<1> QED
  BY <1>0, <1>3 DEF T

\* What the first lines declare, the longer prefixes declare too.
LEMMA DeclarationsGrow ==
  ASSUME NEW file, IsList(file), NEW n \in 0 .. Len(file)
  PROVE  \A m \in n .. Len(file) :
           /\ Len(Declarations(file)[n]) <= Len(Declarations(file)[m])
           /\ \A i \in 1 .. Len(Declarations(file)[n]) :
                Declarations(file)[m][i] = Declarations(file)[n][i]
<1> DEFINE D == Declarations(file)
           Longer(m) == /\ Len(D[n]) <= Len(D[m])
                        /\ \A i \in 1 .. Len(D[n]) : D[m][i] = D[n][i]
           T == {k \in Nat : n + k \in 0 .. Len(file) => Longer(n + k)}
<1>0. Len(file) \in Nat /\ n \in Nat
  BY ListShape
<1>0a. \A m \in 0 .. Len(file) : IsList(D[m]) /\ Len(D[m]) \in Nat
  BY DeclarationsType, SeqIsList, ListShape
<1>1. 0 \in T
  BY <1>0, <1>0a
<1>2. ASSUME NEW k \in Nat \ {0}, k - 1 \in T PROVE k \in T
  <2>1. SUFFICES ASSUME n + k \in 0 .. Len(file) PROVE Longer(n + k)
    OBVIOUS
  <2>2. PICK m \in 1 .. Len(file) : m = n + k /\ m - 1 = n + (k - 1) /\ m - 1 \in 0 .. Len(file)
    BY <1>0, <2>1
  <2>3. Longer(m - 1)
    BY <1>2, <2>2
  <2>4. D[m] = IF IsDevice(file[m]) THEN Append(D[m - 1], file[m]) ELSE D[m - 1]
    BY <1>0, DeclarationsStep
  <2>5. IsList(D[m - 1]) /\ Len(D[m - 1]) \in Nat /\ Len(D[n]) \in Nat
    BY <1>0a, <2>2
  <2> HIDE DEF D
  <2>6. CASE IsDevice(file[m])
    <3>1. /\ Len(D[m]) = Len(D[m - 1]) + 1
          /\ \A i \in 1 .. Len(D[m - 1]) : D[m][i] = D[m - 1][i]
      BY <2>4, <2>5, <2>6, AppendList
    <3> QED
      BY <2>2, <2>3, <2>5, <3>1
  <2>7. CASE ~IsDevice(file[m])
    BY <2>2, <2>3, <2>4, <2>7
  <2> QED
    BY <2>6, <2>7
<1> HIDE DEF T
<1>3. Nat \subseteq T
  BY <1>1, <1>2, Climb
<1>4. ASSUME NEW m \in n .. Len(file) PROVE Longer(m)
  <2>1. m - n \in Nat /\ n + (m - n) = m /\ m \in 0 .. Len(file)
    BY <1>0
  <2> QED
    BY <2>1, <1>3 DEF T
<1> QED
  BY <1>4

-----------------------------------------------------------------------------
(***************************************************************************)
(* The inductive invariant of the loader.  The registry holds, for each of *)
(* the device lines read so far and in their order, what the buffer let    *)
(* through of it; while a line is being read, caps is what the parsed part *)
(* of the column gave and todo is the rest of it.                          *)
(***************************************************************************)
AsLoaded(line) ==
  Device(line, [j \in DOMAIN Column(line.caps) |-> Capability(Column(line.caps)[j])])

Checked(line) ==
  /\ Len(Column(line.caps)) <= MaxCaps
  /\ \A j \in DOMAIN Column(line.caps) : Valid(Column(line.caps)[j])

FileInv ==
  /\ phase \in Phases /\ at \in Nat \ {0}
  /\ devices \in DeviceFiles
  /\ devices = NoFile => phase \in {"devices", "failed"} /\ registry = <<>>
  /\ devices # NoFile /\ phase = "devices" => at \in 1 .. Len(devices) + 1
  /\ phase = "capabilities" => at \in 1 .. Len(devices) /\ IsDevice(devices[at])

RegistryInv ==
  devices # NoFile =>
    /\ IsList(registry)
    /\ Len(registry) <= MaxDevices
    /\ Len(registry) <= Len(Declared)
    /\ \A i \in 1 .. Len(registry) : registry[i] = AsLoaded(Declared[i]) /\ Checked(Declared[i])
    /\ phase \in {"devices", "capabilities"} => Len(registry) = Len(Declarations(devices)[at - 1])
    /\ phase \in {"settings", "serving"} => Len(registry) = Len(Declared)

ColumnInv ==
  /\ IsList(caps) /\ Len(caps) <= MaxCaps
  /\ phase = "capabilities" =>
       LET col == Column(devices[at].caps)
       IN  /\ IsList(todo)
           /\ Len(caps) + Len(todo) = Len(col)
           /\ \A j \in 1 .. Len(caps) : caps[j] = Capability(col[j]) /\ Valid(col[j])
           /\ \A j \in 1 .. Len(todo) : todo[j] = col[Len(caps) + j]

LoadInv == FileInv /\ RegistryInv /\ ColumnInv

\* What the assumptions say of the file that is read.
LEMMA FileShape ==
  ASSUME devices \in DeviceFiles, devices # NoFile
  PROVE  /\ IsList(devices) /\ Len(devices) \in Nat /\ DOMAIN devices = 1 .. Len(devices)
         /\ \A line \in DeviceLines(devices) : IsColumn(line.caps)
         /\ \A i \in 1 .. Len(devices) : IsDevice(devices[i]) => IsColumn(devices[i].caps)
         /\ \A n \in 0 .. Len(devices) :
              IsList(Declarations(devices)[n]) /\ Len(Declarations(devices)[n]) \in Nat
         /\ IsList(Declared) /\ Len(Declared) \in Nat /\ DOMAIN Declared = 1 .. Len(Declared)
         /\ \A i \in 1 .. Len(Declared) : Declared[i] \in DeviceLines(devices)
<1>1. /\ devices \in Seq({devices[i] : i \in DOMAIN devices})
      /\ \A i \in DOMAIN devices : IsDevice(devices[i]) => IsColumn(devices[i].caps)
  BY DeviceFilesAssumption
<1>2. IsList(devices)
  BY <1>1 DEF IsList
<1>3. Len(devices) \in Nat /\ DOMAIN devices = 1 .. Len(devices)
  BY <1>2, ListShape
<1>4. \A n \in 0 .. Len(devices) : Declarations(devices)[n] \in Seq(DeviceLines(devices))
  BY <1>2, DeclarationsType
<1>5. \A n \in 0 .. Len(devices) :
        IsList(Declarations(devices)[n]) /\ Len(Declarations(devices)[n]) \in Nat
  BY <1>4, SeqIsList, ListShape
<1>6. Declared \in Seq(DeviceLines(devices))
  BY <1>3, <1>4 DEF Declared
<1>7. IsList(Declared) /\ Len(Declared) \in Nat /\ DOMAIN Declared = 1 .. Len(Declared)
  BY <1>6, SeqIsList, ListShape
<1>8. \A i \in 1 .. Len(Declared) : Declared[i] \in DeviceLines(devices)
  BY <1>6, <1>7
<1> QED
  BY <1>1, <1>2, <1>3, <1>5, <1>7, <1>8 DEF DeviceLines

LEMMA InitLoadInv == Init => LoadInv
<1> SUFFICES ASSUME Init PROVE LoadInv
  OBVIOUS
<1>1. FileInv
  <2>1. devices # NoFile => Len(devices) \in Nat
    BY FileShape DEF Init
  <2> QED
    BY <2>1 DEF Init, FileInv, Phases
<1>2. RegistryInv
  <2>1. SUFFICES ASSUME devices # NoFile PROVE RegistryInv
    BY DEF RegistryInv
  <2>2. Declarations(devices)[0] = <<>> /\ Len(Declared) \in Nat
    BY <2>1, FileShape, DeclarationsStep DEF Init
  <2>3. IsList(registry) /\ Len(registry) = 0 /\ at - 1 = 0 /\ phase = "devices"
    BY EmptyList DEF Init
  <2> QED
    BY <2>2, <2>3, EmptyList, LimitsAssumption DEF RegistryInv
<1>3. ColumnInv
  BY EmptyList, LimitsAssumption DEF Init, ColumnInv
<1> QED
  BY <1>1, <1>2, <1>3 DEF LoadInv

\* A step that leaves file, registry and capabilities alone, and what is read.
LEMMA KeptLoadInv ==
  ASSUME LoadInv, phase' \in Phases, at' \in Nat \ {0},
         UNCHANGED <<devices, registry, caps>>,
         \/ phase' = phase /\ at' = at /\ todo' = todo
         \/ phase' = "failed"
         \/ phase \in {"settings", "serving"} /\ phase' \in {"settings", "serving"}
  PROVE  LoadInv'
<1>1. FileInv'
  BY DEF LoadInv, FileInv
<1>2. RegistryInv'
  BY DEF LoadInv, RegistryInv, FileInv, Declared
<1>3. ColumnInv'
  BY DEF LoadInv, ColumnInv
<1> QED
  BY <1>1, <1>2, <1>3 DEF LoadInv

LEMMA SkipLineLoadInv == ASSUME LoadInv, SkipLine PROVE LoadInv'
<1>0. /\ phase = "devices" /\ devices # NoFile /\ at <= Len(devices) /\ ~IsDevice(devices[at])
      /\ at' = at + 1 /\ UNCHANGED <<phase, devices, registry, caps, todo>>
  BY DEF SkipLine, ReadingDevices
<1>1. at \in 1 .. Len(devices) /\ devices \in DeviceFiles /\ Len(devices) \in Nat
  BY <1>0, FileShape DEF LoadInv, FileInv
<1>2. FileInv'
  BY <1>0, <1>1 DEF LoadInv, FileInv
<1>3. Declarations(devices)[at] = Declarations(devices)[at - 1]
  BY <1>0, <1>1, DeclarationsStep
<1>4. RegistryInv'
  <2>1. at' - 1 = at
    BY <1>0, <1>1
  <2> QED
    BY <2>1, <1>0, <1>3 DEF LoadInv, RegistryInv, Declared
<1>5. ColumnInv'
  BY <1>0 DEF LoadInv, ColumnInv
<1> QED
  BY <1>2, <1>4, <1>5 DEF LoadInv

LEMMA ReadColumnsLoadInv == ASSUME LoadInv, ReadColumns PROVE LoadInv'
<1>0. /\ phase = "devices" /\ devices # NoFile /\ at <= Len(devices) /\ IsDevice(devices[at])
      /\ phase' = "capabilities" /\ todo' = Column(devices[at].caps) /\ caps' = <<>>
      /\ UNCHANGED <<devices, at, registry>>
  BY DEF ReadColumns, ReadingDevices
<1>1. at \in 1 .. Len(devices) /\ devices \in DeviceFiles /\ IsColumn(devices[at].caps)
  BY <1>0, FileShape DEF LoadInv, FileInv
<1>2. FileInv'
  BY <1>0, <1>1 DEF LoadInv, FileInv, Phases
<1>3. RegistryInv'
  BY <1>0 DEF LoadInv, RegistryInv, Declared
<1>4. ColumnInv'
  <2> DEFINE col == Column(devices[at].caps)
  <2>1. IsList(col) /\ Len(col) \in Nat
    BY <1>1, ColumnShape DEF IsList
  <2> HIDE DEF col
  <2>2. todo' = col /\ Column(devices'[at'].caps) = col
    BY <1>0 DEF col
  <2>3. IsList(caps') /\ Len(caps') = 0
    BY <1>0, EmptyList
  <2> QED
    BY <2>1, <2>2, <2>3, <1>0, LimitsAssumption DEF ColumnInv
<1> QED
  BY <1>2, <1>3, <1>4 DEF LoadInv

LEMMA ReadCapabilityLoadInv == ASSUME LoadInv, ReadCapability PROVE LoadInv'
<1>0. /\ phase = "capabilities" /\ todo # <<>> /\ Len(caps) < MaxCaps /\ Valid(Head(todo))
      /\ caps' = Append(caps, Capability(Head(todo))) /\ todo' = Tail(todo)
      /\ UNCHANGED <<phase, devices, at, registry>>
  BY DEF ReadCapability
<1>1. FileInv'
  BY <1>0 DEF LoadInv, FileInv
<1>2. RegistryInv'
  BY <1>0 DEF LoadInv, RegistryInv, Declared
<1>3. ColumnInv'
  <2> DEFINE col == Column(devices[at].caps)
  <2>1. /\ IsList(caps) /\ IsList(todo) /\ Len(caps) + Len(todo) = Len(col)
        /\ \A j \in 1 .. Len(caps) : caps[j] = Capability(col[j]) /\ Valid(col[j])
        /\ \A j \in 1 .. Len(todo) : todo[j] = col[Len(caps) + j]
    BY <1>0 DEF LoadInv, ColumnInv
  <2>2. Column(devices'[at'].caps) = col
    BY <1>0
  <2> HIDE DEF col
  <2>3. /\ IsList(todo') /\ Len(todo) \in Nat \ {0} /\ Len(todo') = Len(todo) - 1
        /\ Head(todo) = todo[1]
        /\ \A j \in 1 .. Len(todo) - 1 : todo'[j] = todo[j + 1]
    BY <1>0, <2>1, TailList
  <2>4. /\ IsList(caps') /\ Len(caps) \in Nat /\ Len(caps') = Len(caps) + 1
        /\ \A j \in 1 .. Len(caps) : caps'[j] = caps[j]
        /\ caps'[Len(caps) + 1] = Capability(Head(todo))
    BY <1>0, <2>1, AppendList, ListShape
  <2>5. Head(todo) = col[Len(caps) + 1]
    BY <2>1, <2>3
  <2>6. ASSUME NEW j \in 1 .. Len(caps') PROVE caps'[j] = Capability(col[j]) /\ Valid(col[j])
    <3>1. CASE j = Len(caps) + 1
      BY <3>1, <2>4, <2>5, <1>0
    <3>2. CASE j # Len(caps) + 1
      <4>1. j \in 1 .. Len(caps)
        BY <3>2, <2>4
      <4> QED
        BY <4>1, <2>1, <2>4
    <3> QED
      BY <3>1, <3>2
  <2>7. ASSUME NEW j \in 1 .. Len(todo') PROVE todo'[j] = col[Len(caps') + j]
    <3>1. j \in 1 .. Len(todo) - 1 /\ j + 1 \in 1 .. Len(todo) /\ Len(caps') + j = Len(caps) + (j + 1)
      BY <2>3, <2>4
    <3> QED
      BY <3>1, <2>1, <2>3
  <2>8. Len(caps') + Len(todo') = Len(col) /\ Len(caps') <= MaxCaps
    BY <1>0, <2>1, <2>3, <2>4, LimitsAssumption
  <2> QED
    BY <2>2, <2>3, <2>4, <2>6, <2>7, <2>8 DEF ColumnInv
<1> QED
  BY <1>1, <1>2, <1>3 DEF LoadInv

LEMMA RegisterLoadInv == ASSUME LoadInv, Register PROVE LoadInv'
<1> DEFINE col == Column(devices[at].caps)
           D == Declarations(devices)
<1>0. /\ phase = "capabilities" /\ todo = <<>> /\ Len(registry) < MaxDevices
      /\ registry' = Append(registry, Device(devices[at], caps))
      /\ phase' = "devices" /\ at' = at + 1 /\ UNCHANGED <<devices, todo, caps>>
  BY DEF Register
<1>1. /\ at \in 1 .. Len(devices) /\ devices \in DeviceFiles /\ devices # NoFile
      /\ IsDevice(devices[at])
  BY <1>0 DEF LoadInv, FileInv
<1>2. /\ IsList(devices) /\ Len(devices) \in Nat /\ IsColumn(devices[at].caps)
      /\ IsList(D[at - 1]) /\ Len(D[at - 1]) \in Nat /\ IsList(Declared) /\ Len(Declared) \in Nat
      /\ Declared = D[Len(devices)]
  BY <1>1, FileShape DEF Declared
<1>3. FileInv'
  BY <1>0, <1>1, <1>2 DEF LoadInv, FileInv, Phases
<1>4. Device(devices[at], caps) = AsLoaded(devices[at]) /\ Checked(devices[at])
  <2>1. /\ IsList(caps) /\ Len(caps) + Len(todo) = Len(col) /\ Len(caps) <= MaxCaps
        /\ \A j \in 1 .. Len(caps) : caps[j] = Capability(col[j]) /\ Valid(col[j])
    BY <1>0 DEF LoadInv, ColumnInv
  <2>2. Len(todo) = 0 /\ Len(caps) \in Nat /\ DOMAIN caps = 1 .. Len(caps)
        /\ Len(col) \in Nat /\ DOMAIN col = 1 .. Len(col)
    BY <1>0, <1>2, <2>1, EmptyList, ListShape, ColumnShape
  <2>3. Len(caps) = Len(col)
    BY <2>1, <2>2
  <2>4. caps = [j \in DOMAIN col |-> Capability(col[j])]
    <3>1. caps = [j \in 1 .. Len(caps) |-> caps[j]]
      BY <2>1, <2>2 DEF IsList
    <3> HIDE DEF col
    <3> QED
      BY <3>1, <2>1, <2>2, <2>3
  <2> QED
    BY <2>1, <2>2, <2>3, <2>4 DEF AsLoaded, Checked
<1>5. /\ Len(D[at]) = Len(D[at - 1]) + 1 /\ D[at][Len(D[at - 1]) + 1] = devices[at]
  <2>1. D[at] = Append(D[at - 1], devices[at])
    BY <1>1, <1>2, DeclarationsStep
  <2> QED
    BY <2>1, <1>2, AppendList
<1>6. /\ Len(registry) = Len(D[at - 1]) /\ IsList(registry)
      /\ \A i \in 1 .. Len(registry) : registry[i] = AsLoaded(Declared[i]) /\ Checked(Declared[i])
  BY <1>0, <1>1 DEF LoadInv, RegistryInv
<1>7. Len(registry) + 1 <= Len(Declared) /\ Declared[Len(registry) + 1] = devices[at]
  <2>1. at \in 0 .. Len(devices) /\ Len(devices) \in at .. Len(devices)
    BY <1>1, <1>2
  <2>2. /\ Len(D[at]) <= Len(D[Len(devices)])
        /\ \A i \in 1 .. Len(D[at]) : D[Len(devices)][i] = D[at][i]
    BY <2>1, <1>2, DeclarationsGrow
  <2> HIDE DEF D
  <2> QED
    BY <2>2, <1>2, <1>5, <1>6
<1>8. /\ IsList(registry') /\ Len(registry') = Len(registry) + 1
      /\ \A i \in 1 .. Len(registry) : registry'[i] = registry[i]
      /\ registry'[Len(registry) + 1] = AsLoaded(devices[at])
  BY <1>0, <1>4, <1>6, AppendList
<1>9. Len(registry) \in Nat
  BY <1>6, ListShape
<1>10. ASSUME NEW i \in 1 .. Len(registry')
       PROVE  registry'[i] = AsLoaded(Declared[i]) /\ Checked(Declared[i])
  <2>1. CASE i = Len(registry) + 1
    BY <2>1, <1>4, <1>7, <1>8
  <2>2. CASE i # Len(registry) + 1
    <3>1. i \in 1 .. Len(registry)
      BY <2>2, <1>8, <1>9
    <3> QED
      BY <3>1, <1>6, <1>8
  <2> QED
    BY <2>1, <2>2
<1>11. RegistryInv'
  <2>1. Declared' = Declared /\ Declarations(devices)' = D /\ at' - 1 = at
    BY <1>0, <1>1 DEF Declared
  <2>2. Len(registry') <= MaxDevices /\ Len(registry') <= Len(Declared) /\ Len(registry') = Len(D[at])
    BY <1>0, <1>5, <1>6, <1>7, <1>8, <1>9, LimitsAssumption
  <2> HIDE DEF D
  <2> QED
    BY <2>1, <2>2, <1>0, <1>8, <1>10 DEF RegistryInv, AsLoaded, Checked
<1>12. ColumnInv'
  BY <1>0 DEF LoadInv, ColumnInv
<1> QED
  BY <1>3, <1>11, <1>12 DEF LoadInv

LEMMA EndOfDevicesLoadInv == ASSUME LoadInv, EndOfDevices PROVE LoadInv'
<1>0. /\ phase = "devices" /\ devices # NoFile /\ at > Len(devices)
      /\ phase' = "settings" /\ at' = 1 /\ UNCHANGED <<devices, caps, registry>>
  BY DEF EndOfDevices
<1>1. Len(devices) \in Nat /\ at - 1 = Len(devices)
  BY <1>0, FileShape DEF LoadInv, FileInv
<1>2. FileInv'
  BY <1>0 DEF LoadInv, FileInv, Phases
<1>3. RegistryInv'
  BY <1>0, <1>1 DEF LoadInv, RegistryInv, Declared
<1>4. ColumnInv'
  BY <1>0 DEF LoadInv, ColumnInv
<1> QED
  BY <1>2, <1>3, <1>4 DEF LoadInv

LEMMA NextLoadInv == LoadInv /\ [Next]_vars => LoadInv'
<1> SUFFICES ASSUME LoadInv, [Next]_vars PROVE LoadInv'
  OBVIOUS
<1>0. at \in Nat \ {0} /\ phase \in Phases
  BY DEF LoadInv, FileInv
<1>1. CASE SkipLine
  BY <1>1, SkipLineLoadInv
<1>2. CASE ReadColumns
  BY <1>2, ReadColumnsLoadInv
<1>3. CASE ReadCapability
  BY <1>3, ReadCapabilityLoadInv
<1>4. CASE Register
  BY <1>4, RegisterLoadInv
<1>5. CASE EndOfDevices
  BY <1>5, EndOfDevicesLoadInv
<1>6. CASE RefuseCapability \/ RegistryFull \/ CannotOpen \/ PinMissing
  <2>1. phase' = "failed" /\ UNCHANGED <<devices, at, registry, caps>>
    BY <1>6 DEF RefuseCapability, RegistryFull, CannotOpen, PinMissing, Fail
  <2> QED
    BY <1>0, <2>1, KeptLoadInv DEF Phases
<1>7. CASE ReadSetting \/ Serve
  <2>1. /\ phase = "settings" /\ phase' \in {"settings", "serving"} /\ at' \in {at, at + 1}
        /\ UNCHANGED <<devices, registry, caps>>
    BY <1>7 DEF ReadSetting, Serve, SettingsRead
  <2> QED
    BY <1>0, <2>1, KeptLoadInv DEF Phases
<1>8. CASE UNCHANGED vars
  BY <1>0, <1>8, KeptLoadInv DEF vars
<1> QED
  BY <1>1, <1>2, <1>3, <1>4, <1>5, <1>6, <1>7, <1>8 DEF Next

LEMMA LoadInvariant == SafeSpec => []LoadInv
<1> QED
  BY InitLoadInv, NextLoadInv, PTL DEF SafeSpec

\* What is loaded of a line: as many capabilities as the buffer let through.
LEMMA LoadedCaps ==
  ASSUME NEW line, IsColumn(line.caps)
  PROVE  /\ AsLoaded(line).caps =
              [j \in 1 .. Len(Column(line.caps)) |-> Capability(Column(line.caps)[j])]
         /\ Len(AsLoaded(line).caps) = Len(Column(line.caps))
         /\ [AsLoaded(line) EXCEPT !.caps = <<>>] = Device(line, <<>>)
<1> DEFINE col == Column(line.caps)
<1>1. Len(col) \in Nat /\ DOMAIN col = 1 .. Len(col)
  BY ColumnShape
<1> HIDE DEF col
<1>2. AsLoaded(line) = Device(line, [j \in 1 .. Len(col) |-> Capability(col[j])])
  BY <1>1 DEF AsLoaded, col
<1>3. AsLoaded(line).caps = [j \in 1 .. Len(col) |-> Capability(col[j])]
  BY <1>2 DEF Device
<1>4. Len(AsLoaded(line).caps) = Len(col)
  BY <1>1, <1>3
<1>5. [AsLoaded(line) EXCEPT !.caps = <<>>] = Device(line, <<>>)
  BY <1>2 DEF Device
<1> QED
  BY <1>3, <1>4, <1>5 DEF col

\* The facts about the registry in terms of the file, without the phases.
LEMMA RegistryFacts ==
  ASSUME LoadInv, devices # NoFile
  PROVE  /\ IsList(registry) /\ Len(registry) \in Nat /\ DOMAIN registry = 1 .. Len(registry)
         /\ DOMAIN Declared = 1 .. Len(Declared) /\ Len(Declared) \in Nat
         /\ \A i \in 1 .. Len(registry) :
              /\ i \in 1 .. Len(Declared)
              /\ registry[i] = AsLoaded(Declared[i]) /\ Checked(Declared[i])
         /\ \A i \in 1 .. Len(Declared) : IsColumn(Declared[i].caps)
<1>1. devices \in DeviceFiles
  BY DEF LoadInv, FileInv
<1>2. /\ DOMAIN Declared = 1 .. Len(Declared) /\ Len(Declared) \in Nat
      /\ \A i \in 1 .. Len(Declared) : IsColumn(Declared[i].caps)
  BY <1>1, FileShape
<1>3. /\ IsList(registry) /\ Len(registry) <= Len(Declared)
      /\ \A i \in 1 .. Len(registry) : registry[i] = AsLoaded(Declared[i]) /\ Checked(Declared[i])
  BY DEF LoadInv, RegistryInv
<1>4. Len(registry) \in Nat /\ DOMAIN registry = 1 .. Len(registry)
  BY <1>3, ListShape
<1> QED
  BY <1>2, <1>3, <1>4

\* The loader stays within MAX_DEVICES and MAX_CAPS and within the phases of
\* main.c whatever the files say, so that neither array of the registry is
\* written beyond its end (config.c:105, resource.c registry_add).
THEOREM TypeCorrect == SafeSpec => []TypeOK
<1>1. LoadInv => TypeOK
  <2> SUFFICES ASSUME LoadInv PROVE TypeOK
    OBVIOUS
  <2>1. phase \in Phases /\ at \in Nat \ {0} /\ Len(caps) <= MaxCaps
    BY DEF LoadInv, FileInv, ColumnInv
  <2>2. CASE devices = NoFile
    <3>1. registry = <<>>
      BY <2>2 DEF LoadInv, FileInv
    <3> QED
      BY <3>1, <2>1, EmptyList, LimitsAssumption DEF TypeOK
  <2>3. CASE devices # NoFile
    <3>1. Len(registry) <= MaxDevices
      BY <2>3 DEF LoadInv, RegistryInv
    <3>2. ASSUME NEW i \in DOMAIN registry PROVE Len(registry[i].caps) <= MaxCaps
      <4>1. /\ IsColumn(Declared[i].caps) /\ registry[i] = AsLoaded(Declared[i])
            /\ Len(Column(Declared[i].caps)) <= MaxCaps
        BY <2>3, RegistryFacts DEF Checked
      <4> QED
        BY <4>1, LoadedCaps
    <3> QED
      BY <3>1, <3>2, <2>1 DEF TypeOK
  <2> QED
    BY <2>2, <2>3
<1> QED
  BY <1>1, LoadInvariant, PTL

\* A gateway that serves has loaded every device of its file with every
\* capability, and no other, if the columns fit the buffer; a bad capability,
\* one too many or one device too many and it does not serve (config.c:99-121,
\* main.c:30-34).
THEOREM RegisteredAsDeclaredCorrect == SafeSpec => []RegisteredAsDeclared
<1>1. LoadInv => RegisteredAsDeclared
  <2> SUFFICES ASSUME LoadInv, phase = "serving",
                      \A i \in DOMAIN Declared : ColumnFits(Declared[i])
               PROVE  /\ registry = [i \in DOMAIN Declared |-> AsDeclared(Declared[i])]
                      /\ \A i \in DOMAIN Declared :
                           \A j \in DOMAIN Declared[i].caps : Valid(Declared[i].caps[j])
    BY DEF RegisteredAsDeclared
  <2>1. devices # NoFile
    BY DEF LoadInv, FileInv
  <2>2. Len(registry) = Len(Declared)
    BY <2>1 DEF LoadInv, RegistryInv
  <2>3. /\ IsList(registry) /\ DOMAIN registry = DOMAIN Declared
        /\ \A i \in DOMAIN Declared : registry[i] = AsLoaded(Declared[i]) /\ Checked(Declared[i])
    BY <2>1, <2>2, RegistryFacts
  <2>4. \A i \in DOMAIN Declared : AsLoaded(Declared[i]) = AsDeclared(Declared[i])
    BY DEF AsLoaded, AsDeclared, ColumnFits
  <2>5. registry = [i \in DOMAIN registry |-> registry[i]]
    BY <2>3 DEF IsList
  <2> QED
    BY <2>3, <2>4, <2>5 DEF Checked, ColumnFits
<1> QED
  BY <1>1, LoadInvariant, PTL

\* Of a column that is too long the first capabilities are registered, all but
\* the last of them as they are written, and no other device is affected
\* (config.c:101).
THEOREM OnlyTheLastIsCutCorrect == SafeSpec => []OnlyTheLastIsCut
<1>1. LoadInv => OnlyTheLastIsCut
  <2> SUFFICES ASSUME LoadInv, devices # NoFile, NEW i \in DOMAIN registry
               PROVE  LET kept == registry[i].caps
                      IN  /\ [registry[i] EXCEPT !.caps = <<>>] = Device(Declared[i], <<>>)
                          /\ Len(kept) <= Len(Declared[i].caps)
                          /\ \A j \in 1 .. Len(kept) - 1 : kept[j] = Capability(Declared[i].caps[j])
    BY DEF OnlyTheLastIsCut
  <2>1. IsColumn(Declared[i].caps) /\ registry[i] = AsLoaded(Declared[i])
    BY RegistryFacts
  <2> DEFINE col == Column(Declared[i].caps)
  <2>2. /\ Len(Declared[i].caps) \in Nat /\ Len(col) \in 0 .. Len(Declared[i].caps)
        /\ \A j \in 1 .. Len(col) - 1 : col[j] = Declared[i].caps[j]
    BY <2>1, ColumnShape
  <2>3. /\ registry[i].caps = [j \in 1 .. Len(col) |-> Capability(col[j])]
        /\ Len(registry[i].caps) = Len(col)
        /\ [registry[i] EXCEPT !.caps = <<>>] = Device(Declared[i], <<>>)
    BY <2>1, LoadedCaps
  <2> HIDE DEF col
  <2> QED
    BY <2>2, <2>3
<1> QED
  BY <1>1, LoadInvariant, PTL

-----------------------------------------------------------------------------
(***************************************************************************)
(* The settings.  While they are read, pin is the value of the last        *)
(* gateway_pin above the line that is read, or still empty.                *)
(***************************************************************************)
LastPin(i, n) ==
  /\ i \in 1 .. n
  /\ settings[i] = <<"gateway_pin", pin>>
  /\ \A j \in i + 1 .. n : settings[j][1] # "gateway_pin"

PinInv ==
  /\ settings \in SettingsFiles
  /\ phase \in {"devices", "capabilities"} => pin = NoPin
  /\ phase = "settings" =>
       /\ at \in Nat \ {0}
       /\ settings # NoFile => at <= Len(settings) + 1
       /\ pin # NoPin => \E i \in Nat : LastPin(i, at - 1)
  /\ phase = "serving" =>
       settings # NoFile /\ pin # NoPin /\ \E i \in Nat : LastPin(i, Len(settings))

LEMMA SettingsShape ==
  ASSUME settings \in SettingsFiles, settings # NoFile
  PROVE  /\ Len(settings) \in Nat /\ DOMAIN settings = 1 .. Len(settings)
         /\ \A i \in 1 .. Len(settings) : settings[i] = <<settings[i][1], settings[i][2]>>
<1>1. settings \in Seq(STRING \X STRING)
  BY SettingsFilesAssumption
<1> QED
  BY <1>1

LEMMA NextPinInv == PinInv /\ [Next]_vars => PinInv'
<1> SUFFICES ASSUME PinInv, [Next]_vars PROVE PinInv'
  OBVIOUS
<1>1. CASE SkipLine \/ ReadColumns \/ ReadCapability \/ Register
  <2>1. /\ phase \in {"devices", "capabilities"} /\ phase' \in {"devices", "capabilities"}
        /\ UNCHANGED <<settings, pin>>
    BY <1>1 DEF SkipLine, ReadingDevices, ReadColumns, ReadCapability, Register
  <2> QED
    BY <2>1 DEF PinInv
<1>2. CASE EndOfDevices
  <2>1. phase = "devices" /\ phase' = "settings" /\ at' = 1 /\ UNCHANGED <<settings, pin>>
    BY <1>2 DEF EndOfDevices
  <2>2. settings # NoFile => Len(settings) \in Nat
    BY SettingsShape DEF PinInv
  <2> QED
    BY <2>1, <2>2 DEF PinInv
<1>3. CASE RefuseCapability \/ RegistryFull \/ CannotOpen \/ PinMissing
  <2>1. phase' = "failed" /\ UNCHANGED settings
    BY <1>3 DEF RefuseCapability, RegistryFull, CannotOpen, PinMissing, Fail
  <2> QED
    BY <2>1 DEF PinInv
<1>4. CASE ReadSetting
  <2>1. /\ phase = "settings" /\ settings # NoFile /\ at <= Len(settings)
        /\ pin' = IF settings[at][1] = "gateway_pin" THEN settings[at][2] ELSE pin
        /\ at' = at + 1 /\ UNCHANGED <<phase, settings>>
    BY <1>4 DEF ReadSetting
  <2>2. at \in Nat \ {0} /\ settings \in SettingsFiles
    BY <2>1 DEF PinInv
  <2>3. /\ Len(settings) \in Nat /\ settings[at] = <<settings[at][1], settings[at][2]>>
    BY <2>1, <2>2, SettingsShape
  <2>4. at' - 1 = at /\ at' \in Nat \ {0} /\ at' <= Len(settings) + 1
    BY <2>1, <2>2, <2>3
  <2>5. ASSUME pin' # NoPin PROVE \E i \in Nat : LastPin(i, at - 1)'
    <3>1. CASE settings[at][1] = "gateway_pin"
      <4>1. settings[at] = <<"gateway_pin", pin'>>
        BY <2>1, <2>3, <3>1
      <4>2. PICK k \in Nat : k = at
        BY <2>2
      <4>3. k \in 1 .. k /\ k + 1 .. k = {}
        BY <2>2, <4>2
      <4>4. LastPin(k, at - 1)'
        BY <2>1, <2>4, <4>1, <4>2, <4>3 DEF LastPin
      <4> QED
        BY <4>4
    <3>2. CASE settings[at][1] # "gateway_pin"
      <4>1. pin' = pin
        BY <2>1, <3>2
      <4>2. PICK i \in Nat : LastPin(i, at - 1)
        BY <2>1, <2>5, <4>1 DEF PinInv
      <4>3. \A j \in i + 1 .. at : j = at \/ j \in i + 1 .. at - 1
        BY <2>2
      <4>4. LastPin(i, at - 1)'
        BY <2>1, <2>2, <2>4, <3>2, <4>1, <4>2, <4>3 DEF LastPin
      <4> QED
        BY <4>4
    <3> QED
      BY <3>1, <3>2
  <2> QED
    BY <2>1, <2>2, <2>4, <2>5 DEF PinInv
<1>5. CASE Serve
  <2>1. /\ phase = "settings" /\ settings # NoFile /\ at > Len(settings) /\ pin # NoPin
        /\ phase' = "serving" /\ UNCHANGED <<settings, pin>>
    BY <1>5 DEF Serve, SettingsRead
  <2>2. at - 1 = Len(settings)
    BY <2>1, SettingsShape DEF PinInv
  <2> QED
    BY <2>1, <2>2 DEF PinInv, LastPin
<1>6. CASE UNCHANGED vars
  BY <1>6 DEF vars, PinInv, LastPin
<1> QED
  BY <1>1, <1>2, <1>3, <1>4, <1>5, <1>6 DEF Next

\* A gateway never serves without a PIN: it serves with the value of the last
\* gateway_pin of its file, which is not empty (config.c:150-157).
THEOREM ServesWithPinCorrect == SafeSpec => []ServesWithPin
<1>1. Init => PinInv
  BY DEF Init, PinInv
<1>2. PinInv => ServesWithPin
  <2> SUFFICES ASSUME PinInv, phase = "serving" PROVE ServesWithPin
    BY DEF ServesWithPin
  <2>1. settings \in SettingsFiles /\ settings # NoFile /\ pin # NoPin
    BY DEF PinInv
  <2>2. PICK i \in Nat : LastPin(i, Len(settings))
    BY DEF PinInv
  <2> QED
    BY <2>1, <2>2, SettingsShape DEF ServesWithPin, LastPin
<1> QED
  BY <1>1, <1>2, NextPinInv, PTL DEF SafeSpec
=============================================================================
