----------------------------- MODULE LineProofs -----------------------------
(***************************************************************************)
(* Proofs about the length of the line that a CCM function builds: that    *)
(* the buffers of the gateway hold it.                                     *)
(***************************************************************************)
EXTENDS CallPath, Descent

-----------------------------------------------------------------------------
(* Sums *)

\* What the definition of SumOf asks of its table.
IsSum(sum, f, N) == sum = [n \in 0 .. N |-> IF n = 0 THEN 0 ELSE sum[n - 1] + f[n]]

LEMMA SumTable ==
  ASSUME NEW f
  PROVE  \A N \in Nat : \E sum : IsSum(sum, f, N)
<1> DEFINE T == {N \in Nat : \E sum : IsSum(sum, f, N)}
<1>1. 0 \in T
  <2> DEFINE h == [n \in 0 .. 0 |-> 0]
  <2>1. h = [n \in 0 .. 0 |-> IF n = 0 THEN 0 ELSE h[n - 1] + f[n]]
    OBVIOUS
  <2>2. IsSum(h, f, 0)
    BY <2>1 DEF IsSum
  <2> QED
    BY <2>2
<1>2. ASSUME NEW N \in Nat \ {0}, N - 1 \in T PROVE N \in T
  <2>1. PICK g : IsSum(g, f, N - 1)
    BY <1>2
  <2> DEFINE Turn(s, n) == IF n = 0 THEN 0 ELSE s[n - 1] + f[n]
             h == [n \in 0 .. N |-> Turn(g, n)]
  <2>2. ASSUME NEW n \in 0 .. N - 1 PROVE h[n] = g[n]
    <3>1. n \in 0 .. N
      OBVIOUS
    <3>2. g[n] = Turn(g, n)
      BY <2>1, Zenon DEF IsSum
    <3>3. h[n] = Turn(g, n)
      BY <3>1, Zenon
    <3> QED
      BY <3>2, <3>3
  <2>3. ASSUME NEW n \in 0 .. N PROVE h[n] = Turn(h, n)
    <3>1. n # 0 => n - 1 \in 0 .. N - 1
      OBVIOUS
    <3>2. n # 0 => h[n - 1] = g[n - 1]
      BY <3>1, <2>2
    <3> QED
      BY <3>2
  <2>4. h = [n \in 0 .. N |-> h[n]]
    OBVIOUS
  <2> HIDE DEF h
  <2>5. IsSum(h, f, N)
    BY <2>3, <2>4 DEF IsSum
  <2> QED
    BY <2>5
<1> HIDE DEF T
<1>3. Nat \subseteq T
  BY <1>1, <1>2, Climb
<1> QED
  BY <1>3 DEF T

\* sum[n] is the sum of the first n numbers of f.
Sums(sum, f) ==
  /\ sum[0] = 0
  /\ \A n \in 1 .. Len(f) : sum[n] = sum[n - 1] + f[n]
  /\ \A n \in 0 .. Len(f) : sum[n] \in Nat

LEMMA SumSteps ==
  ASSUME NEW f \in Seq(Nat)
  PROVE  \E sum : SumOf(f) = sum[Len(f)] /\ Sums(sum, f)
<1> DEFINE sum == CHOOSE table : IsSum(table, f, Len(f))
           T == {n \in Nat : n <= Len(f) => sum[n] \in Nat}
<1>1. Len(f) \in Nat /\ \A n \in 1 .. Len(f) : f[n] \in Nat
  OBVIOUS
<1>2. IsSum(sum, f, Len(f))
  BY <1>1, SumTable
<1>3. SumOf(f) = sum[Len(f)]
  BY DEF SumOf, IsSum
<1> HIDE DEF sum
<1>4. sum[0] = 0
  BY <1>1, <1>2 DEF IsSum
<1>5. ASSUME NEW n \in 1 .. Len(f) PROVE sum[n] = sum[n - 1] + f[n]
  <2>1. n \in 0 .. Len(f) /\ n # 0
    BY <1>1
  <2> QED
    BY <1>2, <2>1, Zenon DEF IsSum
<1>6. 0 \in T
  BY <1>4
<1>7. ASSUME NEW n \in Nat \ {0}, n - 1 \in T PROVE n \in T
  BY <1>1, <1>5, <1>7
<1> HIDE DEF T
<1>8. Nat \subseteq T
  BY <1>6, <1>7, Climb
<1>9. \A n \in 0 .. Len(f) : sum[n] \in Nat
  BY <1>1, <1>8 DEF T
<1> QED
  BY <1>3, <1>4, <1>5, <1>9 DEF Sums

LEMMA SumIsNat ==
  ASSUME NEW f \in Seq(Nat)
  PROVE  SumOf(f) \in Nat
<1>1. PICK sum : SumOf(f) = sum[Len(f)] /\ Sums(sum, f)
  BY SumSteps
<1>2. Len(f) \in Nat
  OBVIOUS
<1> QED
  BY <1>1, <1>2 DEF Sums

LEMMA AddThree ==
  ASSUME NEW b \in Nat, NEW c \in Nat, NEW d \in Nat
  PROVE  (b + c) + d = b + (c + d)
  OBVIOUS

LEMMA AddBound ==
  ASSUME NEW n \in Nat \ {0}, NEW m \in Nat, NEW a \in Nat, NEW b \in Nat,
         a <= (n - 1) * m, b <= m
  PROVE  a + b <= n * m
<1>1. (n - 1) * m + m = n * m /\ n * m \in Nat /\ (n - 1) * m \in Nat
  OBVIOUS
<1>2. PICK p \in Nat : p = (n - 1) * m
  BY <1>1
<1> QED
  BY <1>1, <1>2

\* The sum of one sequence after another.
LEMMA SumBoth ==
  ASSUME NEW f \in Seq(Nat), NEW g \in Seq(Nat), NEW h \in Seq(Nat),
         Len(h) = Len(f) + Len(g),
         \A i \in 1 .. Len(f) : h[i] = f[i],
         \A i \in 1 .. Len(g) : h[Len(f) + i] = g[i]
  PROVE  SumOf(h) = SumOf(f) + SumOf(g)
<1>1. PICK sf : SumOf(f) = sf[Len(f)] /\ Sums(sf, f)
  BY SumSteps
<1>2. PICK sg : SumOf(g) = sg[Len(g)] /\ Sums(sg, g)
  BY SumSteps
<1>3. PICK sh : SumOf(h) = sh[Len(h)] /\ Sums(sh, h)
  BY SumSteps
<1>4. PICK m \in Nat : m = Len(f)
  OBVIOUS
<1>5. PICK k \in Nat : k = Len(g)
  OBVIOUS
<1>6. /\ sh[0] = 0 /\ sf[0] = 0 /\ sg[0] = 0
      /\ \A n \in 1 .. m + k : sh[n] = sh[n - 1] + h[n]
      /\ \A n \in 1 .. m : sf[n] = sf[n - 1] + f[n] /\ h[n] = f[n]
      /\ \A n \in 1 .. k : sg[n] = sg[n - 1] + g[n] /\ h[m + n] = g[n]
      /\ \A n \in 0 .. m : sf[n] \in Nat
      /\ \A n \in 0 .. k : sg[n] \in Nat
      /\ \A n \in 1 .. k : g[n] \in Nat
  BY <1>1, <1>2, <1>3, <1>4, <1>5 DEF Sums
<1> DEFINE T == {n \in Nat : n <= m => sh[n] = sf[n]}
           U == {n \in Nat : n <= k => sh[m + n] = sf[m] + sg[n]}
<1>7. 0 \in T
  BY <1>6
<1>8. ASSUME NEW n \in Nat \ {0}, n - 1 \in T PROVE n \in T
  <2> SUFFICES ASSUME n <= m PROVE sh[n] = sf[n]
    OBVIOUS
  <2>1. sh[n - 1] = sf[n - 1] /\ n \in 1 .. m /\ n \in 1 .. m + k
    BY <1>8
  <2>2. sh[n] = sh[n - 1] + h[n] /\ sf[n] = sf[n - 1] + f[n] /\ h[n] = f[n]
    BY <1>6, <2>1
  <2> QED
    BY <2>1, <2>2
<1> HIDE DEF T
<1>9. Nat \subseteq T
  BY <1>7, <1>8, Climb
<1>10. sh[m] = sf[m]
  BY <1>9 DEF T
<1>11. 0 \in U
  <2>1. sf[m] \in Nat /\ m + 0 = m /\ sg[0] = 0
    BY <1>6
  <2>2. sh[m + 0] = sf[m] + sg[0]
    BY <1>10, <2>1
  <2> QED
    BY <2>2
<1>12. ASSUME NEW n \in Nat \ {0}, n - 1 \in U PROVE n \in U
  <2> SUFFICES ASSUME n <= k PROVE sh[m + n] = sf[m] + sg[n]
    OBVIOUS
  <2>1. m + n \in 1 .. m + k /\ n \in 1 .. k /\ n - 1 \in 0 .. k /\ (m + n) - 1 = m + (n - 1)
    OBVIOUS
  <2>2. sh[m + n] = sh[m + (n - 1)] + h[m + n] /\ h[m + n] = g[n] /\ sg[n] = sg[n - 1] + g[n]
    BY <1>6, <2>1
  <2>3. sh[m + (n - 1)] = sf[m] + sg[n - 1]
    BY <1>12, <2>1
  <2>4. sf[m] \in Nat /\ sg[n - 1] \in Nat /\ g[n] \in Nat
    BY <1>6, <2>1
  <2>5. (sf[m] + sg[n - 1]) + g[n] = sf[m] + (sg[n - 1] + g[n])
    BY <2>4, AddThree
  <2> QED
    BY <2>2, <2>3, <2>5, Zenon
<1> HIDE DEF U
<1>13. Nat \subseteq U
  BY <1>11, <1>12, Climb
<1>14. sh[m + k] = sf[m] + sg[k]
  BY <1>13 DEF U
<1> QED
  BY <1>1, <1>2, <1>3, <1>4, <1>5, <1>14

\* A sum of numbers that are at most m.
LEMMA SumBound ==
  ASSUME NEW f \in Seq(Nat), NEW m \in Nat, \A i \in 1 .. Len(f) : f[i] <= m
  PROVE  SumOf(f) <= Len(f) * m
<1>1. PICK sf : SumOf(f) = sf[Len(f)] /\ Sums(sf, f)
  BY SumSteps
<1>2. PICK k \in Nat : k = Len(f)
  OBVIOUS
<1>3. /\ sf[0] = 0
      /\ \A n \in 1 .. k : sf[n] = sf[n - 1] + f[n] /\ f[n] <= m /\ f[n] \in Nat
      /\ \A n \in 0 .. k : sf[n] \in Nat
  BY <1>1, <1>2 DEF Sums
<1> DEFINE T == {n \in Nat : n <= k => sf[n] <= n * m}
<1>4. 0 \in T
  BY <1>3
<1>5. ASSUME NEW n \in Nat \ {0}, n - 1 \in T PROVE n \in T
  <2> SUFFICES ASSUME n <= k PROVE sf[n] <= n * m
    OBVIOUS
  <2>1. sf[n - 1] <= (n - 1) * m /\ n \in 1 .. k /\ n - 1 \in 0 .. k
    BY <1>5
  <2>2. sf[n] = sf[n - 1] + f[n] /\ f[n] <= m /\ f[n] \in Nat /\ sf[n - 1] \in Nat
    BY <1>3, <2>1
  <2> QED
    BY <2>1, <2>2, AddBound
<1> HIDE DEF T
<1>6. Nat \subseteq T
  BY <1>4, <1>5, Climb
<1>7. sf[k] <= k * m
  BY <1>6 DEF T
<1> QED
  BY <1>1, <1>2, <1>7

-----------------------------------------------------------------------------
(* The width of a text of tokens *)

Counted(S) == \A x \in S : Letters(x) \in Nat \ {0}

Widths(tokens) == [i \in 1 .. Len(tokens) |-> Letters(tokens[i])]

\* The width of the tokens, each with a separator after it.
Full(tokens) == SumOf(Widths(tokens)) + Len(tokens)

LEMMA WidthsType ==
  ASSUME NEW S, Counted(S), NEW tokens \in Seq(S)
  PROVE  /\ Widths(tokens) \in Seq(Nat) /\ Len(Widths(tokens)) = Len(tokens)
         /\ Len(tokens) \in Nat
         /\ \A i \in 1 .. Len(tokens) : /\ Widths(tokens)[i] = Letters(tokens[i])
                                       /\ tokens[i] \in S /\ Letters(tokens[i]) \in Nat \ {0}
<1>1. Len(tokens) \in Nat /\ \A i \in 1 .. Len(tokens) : tokens[i] \in S
  OBVIOUS
<1>2. \A i \in 1 .. Len(tokens) : Letters(tokens[i]) \in Nat \ {0}
  BY <1>1 DEF Counted
<1> QED
  BY <1>1, <1>2 DEF Widths

LEMMA FullNat ==
  ASSUME NEW S, Counted(S), NEW tokens \in Seq(S)
  PROVE  Full(tokens) \in Nat /\ SumOf(Widths(tokens)) \in Nat
<1>1. SumOf(Widths(tokens)) \in Nat
  BY WidthsType, SumIsNat
<1> QED
  BY <1>1, WidthsType DEF Full

LEMMA FullBoth ==
  ASSUME NEW S, Counted(S), NEW s \in Seq(S), NEW t \in Seq(S)
  PROVE  s \o t \in Seq(S) /\ Full(s \o t) = Full(s) + Full(t)
<1>0. s \o t \in Seq(S)
  OBVIOUS
<1>1. PICK both \in Seq(S) : both = s \o t
  BY <1>0
<1>2. /\ Len(both) = Len(s) + Len(t)
      /\ \A i \in 1 .. Len(s) : both[i] = s[i]
      /\ \A i \in 1 .. Len(t) : both[Len(s) + i] = t[i]
  BY <1>1
<1>3. PICK f \in Seq(Nat) : f = Widths(s)
  BY WidthsType
<1>4. PICK g \in Seq(Nat) : g = Widths(t)
  BY WidthsType
<1>5. PICK h \in Seq(Nat) : h = Widths(both)
  BY WidthsType
<1>6. /\ Len(s) \in Nat /\ Len(t) \in Nat
      /\ Len(f) = Len(s) /\ Len(g) = Len(t) /\ Len(h) = Len(s) + Len(t)
  BY <1>2, <1>3, <1>4, <1>5, WidthsType
<1>7. \A i \in 1 .. Len(f) : h[i] = f[i]
  BY <1>2, <1>3, <1>5, <1>6 DEF Widths
<1>8. \A i \in 1 .. Len(g) : h[Len(f) + i] = g[i]
  BY <1>2, <1>4, <1>5, <1>6 DEF Widths
<1>9. SumOf(h) = SumOf(f) + SumOf(g)
  <2>1. Len(h) = Len(f) + Len(g)
    BY <1>6
  <2> QED
    BY <2>1, <1>7, <1>8, SumBoth
<1>10. SumOf(f) \in Nat /\ SumOf(g) \in Nat
  BY SumIsNat
<1>11. Full(s) = SumOf(f) + Len(s) /\ Full(t) = SumOf(g) + Len(t)
  BY <1>3, <1>4 DEF Full
<1>12. Full(both) = SumOf(h) + Len(both)
  BY <1>5 DEF Full
<1>13. Full(both) = Full(s) + Full(t)
  <2>1. PICK a \in Nat, b \in Nat, m \in Nat, n \in Nat :
          a = SumOf(f) /\ b = SumOf(g) /\ m = Len(s) /\ n = Len(t)
    BY <1>6, <1>10
  <2>2. Full(both) = (a + b) + (m + n) /\ Full(s) = a + m /\ Full(t) = b + n
    BY <1>2, <1>9, <1>11, <1>12, <2>1
  <2> QED
    BY <2>2
<1> QED
  BY <1>1, <1>13

LEMMA FullEmpty ==
  Full(<<>>) = 0
<1>0. <<>> \in Seq(Nat)
  OBVIOUS
<1>1. PICK f \in Seq(Nat) : f = <<>>
  BY <1>0
<1>2. Len(f) = 0 /\ Widths(<<>>) = f
  BY <1>1 DEF Widths
<1>3. PICK sum : SumOf(f) = sum[Len(f)] /\ Sums(sum, f)
  BY SumSteps
<1>4. SumOf(f) = 0
  BY <1>2, <1>3 DEF Sums
<1>5. Full(<<>>) = SumOf(f) + Len(<<>>)
  BY <1>2 DEF Full
<1>6. Len(<<>>) = 0
  OBVIOUS
<1> QED
  BY <1>4, <1>5, <1>6

LEMMA FullOne ==
  ASSUME NEW S, Counted(S), NEW x \in S
  PROVE  <<x>> \in Seq(S) /\ Full(<<x>>) = Letters(x) + 1
<1>0. <<x>> \in Seq(S)
  OBVIOUS
<1>1. PICK tokens \in Seq(S) : tokens = <<x>>
  BY <1>0
<1>2. Len(tokens) = 1 /\ tokens[1] = x
  BY <1>1
<1>3. PICK f \in Seq(Nat) : f = Widths(tokens)
  BY WidthsType
<1>4. Len(f) = 1 /\ f[1] = Letters(x) /\ Letters(x) \in Nat
  BY <1>2, <1>3, WidthsType
<1>5. PICK sum : SumOf(f) = sum[Len(f)] /\ Sums(sum, f)
  BY SumSteps
<1>6. sum[0] = 0 /\ sum[1] = sum[1 - 1] + f[1]
  BY <1>4, <1>5 DEF Sums
<1>7. SumOf(f) = Letters(x)
  BY <1>4, <1>5, <1>6
<1>8. Full(tokens) = SumOf(f) + Len(tokens)
  BY <1>3 DEF Full
<1> QED
  BY <1>1, <1>2, <1>7, <1>8

LEMMA FullSix ==
  ASSUME NEW S, Counted(S), NEW a \in S, NEW b \in S, NEW c \in S, NEW d \in S,
         NEW e \in S, NEW g \in S
  PROVE  /\ <<a, b, c, d, e, g>> \in Seq(S)
         /\ Full(<<a, b, c, d, e, g>>)
              = Letters(a) + Letters(b) + Letters(c) + Letters(d) + Letters(e) + Letters(g) + 6
<1>0. <<a, b, c, d, e, g>> \in Seq(S)
  OBVIOUS
<1>1. PICK tokens \in Seq(S) : tokens = <<a, b, c, d, e, g>>
  BY <1>0
<1>2. /\ Len(tokens) = 6 /\ tokens[1] = a /\ tokens[2] = b /\ tokens[3] = c
      /\ tokens[4] = d /\ tokens[5] = e /\ tokens[6] = g
  BY <1>1
<1>3. PICK f \in Seq(Nat) : f = Widths(tokens)
  BY WidthsType
<1>4. /\ Len(f) = 6 /\ f[1] = Letters(a) /\ f[2] = Letters(b) /\ f[3] = Letters(c)
      /\ f[4] = Letters(d) /\ f[5] = Letters(e) /\ f[6] = Letters(g)
  <2>1. Len(f) = 6 /\ \A i \in 1 .. 6 : f[i] = Letters(tokens[i])
    BY <1>2, <1>3, WidthsType
  <2>2. /\ f[1] = Letters(tokens[1]) /\ f[2] = Letters(tokens[2]) /\ f[3] = Letters(tokens[3])
        /\ f[4] = Letters(tokens[4]) /\ f[5] = Letters(tokens[5]) /\ f[6] = Letters(tokens[6])
    BY <2>1
  <2> QED
    BY <1>2, <2>1, <2>2
<1>5. PICK sum : SumOf(f) = sum[Len(f)] /\ Sums(sum, f)
  BY SumSteps
<1>6. /\ sum[0] = 0 /\ sum[1] = sum[0] + f[1] /\ sum[2] = sum[1] + f[2] /\ sum[3] = sum[2] + f[3]
      /\ sum[4] = sum[3] + f[4] /\ sum[5] = sum[4] + f[5] /\ sum[6] = sum[5] + f[6]
  BY <1>4, <1>5 DEF Sums
<1>7. /\ Letters(a) \in Nat /\ Letters(b) \in Nat /\ Letters(c) \in Nat
      /\ Letters(d) \in Nat /\ Letters(e) \in Nat /\ Letters(g) \in Nat
  BY DEF Counted
<1>8. SumOf(f) = Letters(a) + Letters(b) + Letters(c) + Letters(d) + Letters(e) + Letters(g)
  BY <1>4, <1>5, <1>6, <1>7
<1>9. Full(tokens) = SumOf(f) + Len(tokens)
  BY <1>3 DEF Full
<1> QED
  BY <1>1, <1>2, <1>7, <1>8, <1>9

\* A text is as wide as its tokens with a separator between any two.
LEMMA WidthOf ==
  ASSUME NEW S, Counted(S), NEW tokens \in Seq(S)
  PROVE  /\ tokens = <<>> => Text(tokens).width = 0
         /\ tokens # <<>> => Text(tokens).width = Full(tokens) - 1 /\ Text(tokens).width > 0
<1>1. Text(tokens).width = SumOf(Widths(tokens)) + IF tokens = <<>> THEN 0 ELSE Len(tokens) - 1
  BY DEF Text, Widths
<1>2. CASE tokens = <<>>
  <2>1. Len(tokens) = 0 /\ Full(tokens) = 0 /\ SumOf(Widths(tokens)) \in Nat
    BY <1>2, FullEmpty, FullNat
  <2>2. SumOf(Widths(tokens)) + 0 = 0
    BY <2>1 DEF Full
  <2> QED
    BY <1>1, <1>2, <2>2
<1>3. CASE tokens # <<>>
  <2>1. Len(tokens) \in Nat \ {0}
    BY <1>3
  <2>2. PICK f \in Seq(Nat) : f = Widths(tokens) /\ Len(f) = Len(tokens)
    BY WidthsType
  <2>3. PICK sum : SumOf(f) = sum[Len(f)] /\ Sums(sum, f)
    BY SumSteps
  <2>4. PICK k \in Nat \ {0} : k = Len(f)
    BY <2>1, <2>2
  <2>5. sum[k] = sum[k - 1] + f[k] /\ sum[k - 1] \in Nat
    BY <2>3, <2>4 DEF Sums
  <2>6. f[k] \in Nat \ {0}
    BY <2>2, <2>4, WidthsType
  <2>7. SumOf(f) \in Nat /\ SumOf(f) > 0
    BY <2>3, <2>4, <2>5, <2>6
  <2>8. PICK n \in Nat \ {0} : n = SumOf(f)
    BY <2>7
  <2>9. Text(tokens).width = n + (k - 1)
    BY <1>1, <1>3, <2>2, <2>4, <2>8
  <2>10. Full(tokens) = n + k
    BY <2>2, <2>4, <2>8 DEF Full
  <2>11. n + (k - 1) = (n + k) - 1 /\ n + (k - 1) > 0
    OBVIOUS
  <2> QED
    BY <1>3, <2>9, <2>10, <2>11
<1> QED
  BY <1>2, <1>3

LEMMA FullBound ==
  ASSUME NEW S, Counted(S), NEW tokens \in Seq(S), NEW m \in Nat, \A x \in S : Letters(x) <= m
  PROVE  Full(tokens) <= Len(tokens) * (m + 1)
<1>1. PICK f \in Seq(Nat) : f = Widths(tokens) /\ Len(f) = Len(tokens)
  BY WidthsType
<1>2. \A i \in 1 .. Len(f) : f[i] <= m
  BY <1>1, WidthsType
<1>3. SumOf(f) <= Len(f) * m
  BY <1>2, SumBound
<1>4. PICK k \in Nat : k = Len(f)
  OBVIOUS
<1>5. k * m + k = k * (m + 1) /\ k * m \in Nat
  OBVIOUS
<1>6. Full(tokens) = SumOf(f) + k /\ SumOf(f) \in Nat
  BY <1>1, <1>4, SumIsNat DEF Full
<1>7. SumOf(f) + k <= k * m + k
  BY <1>3, <1>4, <1>5, <1>6
<1> QED
  BY <1>1, <1>4, <1>5, <1>6, <1>7

-----------------------------------------------------------------------------
(* The width of key references *)

\* The tokens that append_key_ref may write for a key.
TokensOf(key) ==
  {<<"alg", ToString(key.alg)>>, <<"usage", ToString(key.usage)>>,
   <<"source", ToString(key.source)>>, <<"key_index", key.index>>,
   <<"key_handle", key.handle>>, <<"external_key", key.external>>,
   <<"key_id", key.keyId>>, <<"device_id", key.deviceId>>}

Ids(key) == StrLen(key.keyId) + StrLen(key.deviceId)

LEMMA IdsType ==
  ASSUME NEW key, Narrow(key)
  PROVE  /\ StrLen(key.keyId) \in 0 .. 63 /\ StrLen(key.deviceId) \in 0 .. 63
         /\ Ids(key) \in 0 .. 126
  BY DEF Narrow, Ids

LEMMA TokensCounted ==
  ASSUME NEW key, Narrow(key)
  PROVE  Counted(TokensOf(key))
<1> SUFFICES ASSUME NEW x \in TokensOf(key) PROVE Letters(x) \in Nat \ {0}
  BY DEF Counted
<1>1. StrLen(x[1]) \in Nat /\ StrLen(x[2]) \in Nat
  BY KeyWordLengths DEF TokensOf, Narrow
<1> QED
  BY <1>1 DEF Letters

LEMMA AddToken ==
  ASSUME NEW S, Counted(S), NEW tokens \in Seq(S), NEW x \in S, NEW text
  PROVE  LET longer == tokens \o (IF text = "" THEN <<>> ELSE <<x>>)
         IN  longer \in Seq(S) /\ Full(longer) <= Full(tokens) + Letters(x) + 1
<1>1. Full(tokens) \in Nat /\ Letters(x) \in Nat
  BY FullNat DEF Counted
<1> DEFINE longer == tokens \o (IF text = "" THEN <<>> ELSE <<x>>)
<1>2. CASE text = ""
  <2>1. tokens \o <<>> = tokens
    OBVIOUS
  <2>2. longer = tokens
    BY <1>2, <2>1
  <2> HIDE DEF longer
  <2>3. longer \in Seq(S) /\ Full(longer) <= Full(tokens) + Letters(x) + 1
    BY <1>1, <2>2
  <2> QED
    BY <2>3 DEF longer
<1>3. CASE text # ""
  <2>1. PICK one \in Seq(S) : one = <<x>> /\ Full(one) = Letters(x) + 1
    BY FullOne
  <2>2. tokens \o one \in Seq(S) /\ Full(tokens \o one) = Full(tokens) + Full(one)
    BY FullBoth
  <2>3. longer = tokens \o one
    BY <1>3, <2>1
  <2> HIDE DEF longer
  <2>4. longer \in Seq(S) /\ Full(longer) = Full(tokens) + (Letters(x) + 1)
    BY <2>1, <2>2, <2>3
  <2>5. Full(longer) <= Full(tokens) + Letters(x) + 1
    BY <1>1, <2>4
  <2> QED
    BY <2>4, <2>5 DEF longer
<1> QED
  BY <1>2, <1>3

\* The six tokens that are always there, then the ids that the key has.
LEMMA RefFull ==
  ASSUME NEW key, Narrow(key), NEW S, Counted(S), TokensOf(key) \subseteq S
  PROVE  KeyRef(key) \in Seq(S) /\ Full(KeyRef(key)) <= 118 + Ids(key)
<1>1. PICK a \in S : a = <<"alg", ToString(key.alg)>>
  BY DEF TokensOf
<1>2. PICK b \in S : b = <<"usage", ToString(key.usage)>>
  BY DEF TokensOf
<1>3. PICK c \in S : c = <<"source", ToString(key.source)>>
  BY DEF TokensOf
<1>4. PICK d \in S : d = <<"key_index", key.index>>
  BY DEF TokensOf
<1>5. PICK e \in S : e = <<"key_handle", key.handle>>
  BY DEF TokensOf
<1>6. PICK g \in S : g = <<"external_key", key.external>>
  BY DEF TokensOf
<1>7. PICK id \in S : id = <<"key_id", key.keyId>>
  BY DEF TokensOf
<1>8. PICK device \in S : device = <<"device_id", key.deviceId>>
  BY DEF TokensOf
<1>9a. /\ a[1] = "alg" /\ a[2] = ToString(key.alg)
       /\ b[1] = "usage" /\ b[2] = ToString(key.usage)
       /\ c[1] = "source" /\ c[2] = ToString(key.source)
       /\ d[1] = "key_index" /\ d[2] = key.index
       /\ e[1] = "key_handle" /\ e[2] = key.handle
       /\ g[1] = "external_key" /\ g[2] = key.external
       /\ id[1] = "key_id" /\ id[2] = key.keyId
       /\ device[1] = "device_id" /\ device[2] = key.deviceId
  BY <1>1, <1>2, <1>3, <1>4, <1>5, <1>6, <1>7, <1>8
<1>9. /\ Letters(a) \in 1 .. 6 /\ Letters(b) \in 1 .. 7 /\ Letters(c) \in 1 .. 8
      /\ Letters(d) \in 1 .. 20 /\ Letters(e) \in 1 .. 25 /\ Letters(g) \in 1 .. 27
      /\ Letters(id) = 7 + StrLen(key.keyId) /\ Letters(device) = 10 + StrLen(key.deviceId)
      /\ StrLen(key.keyId) \in Nat /\ StrLen(key.deviceId) \in Nat
  BY <1>9a, KeyWordLengths DEF Letters, Narrow
<1> DEFINE six  == <<a, b, c, d, e, g>>
           more == six \o (IF key.keyId = "" THEN <<>> ELSE <<id>>)
           all  == more \o (IF key.deviceId = "" THEN <<>> ELSE <<device>>)
<1>10. KeyRef(key) = all
  BY <1>1, <1>2, <1>3, <1>4, <1>5, <1>6, <1>7, <1>8 DEF KeyRef, Optional
<1>11. six \in Seq(S) /\ Full(six) <= 99
  <2>1. /\ six \in Seq(S)
        /\ Full(six) = Letters(a) + Letters(b) + Letters(c) + Letters(d) + Letters(e) + Letters(g) + 6
    BY FullSix
  <2> HIDE DEF six
  <2>2. Letters(a) + Letters(b) + Letters(c) + Letters(d) + Letters(e) + Letters(g) + 6 <= 99
    BY <1>9
  <2> QED
    BY <2>1, <2>2
<1> HIDE DEF six
<1>12. more \in Seq(S) /\ Full(more) <= Full(six) + Letters(id) + 1
  BY <1>11, AddToken
<1> HIDE DEF more
<1>13. all \in Seq(S) /\ Full(all) <= Full(more) + Letters(device) + 1
  BY <1>12, AddToken
<1> HIDE DEF all
<1>14. Full(six) \in Nat /\ Full(more) \in Nat /\ Full(all) \in Nat
  BY <1>11, <1>12, <1>13, FullNat
<1>15. Full(all) <= 118 + Ids(key)
  BY <1>9, <1>11, <1>12, <1>13, <1>14 DEF Ids
<1> QED
  BY <1>10, <1>13, <1>15

\* A text of tokens that, with a separator after each, has at most n characters.
IsText(tokens, n) == \E S : Counted(S) /\ tokens \in Seq(S) /\ Full(tokens) <= n

LEMMA TextWidth ==
  ASSUME NEW tokens, NEW n \in Nat \ {0}, IsText(tokens, n)
  PROVE  /\ Text(tokens).width \in 0 .. n - 1
         /\ Text(tokens).width > 0 <=> tokens # <<>>
<1>1. PICK S : Counted(S) /\ tokens \in Seq(S) /\ Full(tokens) <= n
  BY DEF IsText
<1>2. Full(tokens) \in Nat
  BY <1>1, FullNat
<1>3. /\ tokens = <<>> => Text(tokens).width = 0
      /\ tokens # <<>> => Text(tokens).width = Full(tokens) - 1 /\ Text(tokens).width > 0
  BY <1>1, WidthOf
<1> QED
  BY <1>1, <1>2, <1>3

LEMMA TextEmpty == IsText(<<>>, 0)
<1>1. Counted({}) /\ <<>> \in Seq({})
  BY DEF Counted
<1> QED
  BY <1>1, FullEmpty DEF IsText

LEMMA SeqMore ==
  ASSUME NEW S, NEW T, NEW s \in Seq(S), S \subseteq T
  PROVE  s \in Seq(T)
  OBVIOUS

LEMMA TextBoth ==
  ASSUME NEW s, NEW t, NEW m \in Nat, NEW n \in Nat, IsText(s, m), IsText(t, n)
  PROVE  IsText(s \o t, m + n)
<1>1. PICK S : Counted(S) /\ s \in Seq(S) /\ Full(s) <= m
  BY DEF IsText
<1>2. PICK T : Counted(T) /\ t \in Seq(T) /\ Full(t) <= n
  BY DEF IsText
<1>3. PICK U : U = S \cup T
  OBVIOUS
<1>4. Counted(U) /\ s \in Seq(U) /\ t \in Seq(U)
  <2>1. S \subseteq U /\ T \subseteq U
    BY <1>3
  <2>2. Counted(U)
    BY <1>1, <1>2, <1>3 DEF Counted
  <2> QED
    BY <1>1, <1>2, <2>1, <2>2, SeqMore
<1>5. s \o t \in Seq(U) /\ Full(s \o t) = Full(s) + Full(t)
  BY <1>4, FullBoth
<1>6. Full(s) \in Nat /\ Full(t) \in Nat
  BY <1>1, <1>2, FullNat
<1>7. Full(s \o t) <= m + n
  BY <1>1, <1>2, <1>5, <1>6
<1> QED
  BY <1>4, <1>5, <1>7 DEF IsText

LEMMA TextAtMost ==
  ASSUME NEW tokens, NEW m \in Nat, NEW n \in Nat, m <= n, IsText(tokens, m)
  PROVE  IsText(tokens, n)
<1>1. PICK S : Counted(S) /\ tokens \in Seq(S) /\ Full(tokens) <= m
  BY DEF IsText
<1>2. Full(tokens) \in Nat
  BY <1>1, FullNat
<1>3. Full(tokens) <= n
  BY <1>1, <1>2
<1> QED
  BY <1>1, <1>3 DEF IsText

LEMMA TextRef ==
  ASSUME NEW key, Narrow(key)
  PROVE  \E m \in 0 .. 244 : m = 118 + Ids(key) /\ IsText(KeyRef(key), m)
<1>1. Counted(TokensOf(key)) /\ TokensOf(key) \subseteq TokensOf(key)
  BY TokensCounted
<1>2. KeyRef(key) \in Seq(TokensOf(key)) /\ Full(KeyRef(key)) <= 118 + Ids(key)
  BY <1>1, RefFull
<1>3. 118 + Ids(key) \in 0 .. 244
  BY IdsType
<1>4. IsText(KeyRef(key), 118 + Ids(key))
  BY <1>1, <1>2 DEF IsText
<1> QED
  BY <1>3, <1>4

LEMMA Places ==
  ASSUME NEW S, NEW s \in Seq(S)
  PROVE  /\ DOMAIN s = 1 .. Len(s) /\ Len(s) \in Nat
         /\ s # <<>> => Len(s) >= 1 /\ 1 \in DOMAIN s /\ s[1] \in S
  OBVIOUS

LEMMA PairPlaces ==
  ASSUME NEW S, NEW s \in Seq(S), Len(s) <= 2
  PROVE  /\ 2 \in DOMAIN s <=> Len(s) = 2
         /\ Len(s) = 2 => 1 \in DOMAIN s
<1>1. PICK n \in Nat : n = Len(s) /\ DOMAIN s = 1 .. n
  BY Places
<1>2. n <= 2
  BY <1>1
<1> QED
  BY <1>1, <1>2

\* One key of any length fits 243 characters, and two fit 235 more than their
\* ids have together.
LEMMA TextRefs ==
  ASSUME NEW keys \in Seq(Keys), Len(keys) <= 2, \A i \in DOMAIN keys : Narrow(keys[i])
  PROVE  /\ IsText(KeyRefs(keys), 488)
         /\ Len(keys) # 2 => IsText(KeyRefs(keys), 244)
         /\ Len(keys) = 2 => IsText(KeyRefs(keys), 236 + Ids(keys[1]) + Ids(keys[2]))
<1> DEFINE one == IF 1 \in DOMAIN keys THEN KeyRef(keys[1]) ELSE <<>>
           two == IF 2 \in DOMAIN keys THEN KeyRef(keys[2]) ELSE <<>>
<1>1. KeyRefs(keys) = one \o two
  BY DEF KeyRefs
<1>2. /\ 2 \in DOMAIN keys <=> Len(keys) = 2
      /\ Len(keys) = 2 => 1 \in DOMAIN keys
  BY PairPlaces
<1>3. PICK m \in 0 .. 244 : /\ IsText(one, m)
                            /\ Len(keys) = 2 => m = 118 + Ids(keys[1])
  <2>1. CASE 1 \in DOMAIN keys
    <3>1. one = KeyRef(keys[1])
      BY <2>1
    <3>2. \E k \in 0 .. 244 : k = 118 + Ids(keys[1]) /\ IsText(KeyRef(keys[1]), k)
      BY <2>1, TextRef
    <3> HIDE DEF one
    <3> QED
      BY <3>1, <3>2
  <2>2. CASE 1 \notin DOMAIN keys
    <3>1. one = <<>> /\ Len(keys) # 2
      BY <1>2, <2>2
    <3>2. IsText(one, 0)
      BY <3>1, TextEmpty
    <3> HIDE DEF one
    <3> QED
      BY <3>1, <3>2
  <2> QED
    BY <2>1, <2>2
<1>4. PICK n \in 0 .. 244 : /\ IsText(two, n)
                            /\ Len(keys) # 2 => n = 0
                            /\ Len(keys) = 2 => n = 118 + Ids(keys[2])
  <2>1. CASE 2 \in DOMAIN keys
    <3>1. two = KeyRef(keys[2]) /\ Len(keys) = 2
      BY <1>2, <2>1
    <3>2. \E k \in 0 .. 244 : k = 118 + Ids(keys[2]) /\ IsText(KeyRef(keys[2]), k)
      BY <2>1, TextRef
    <3> HIDE DEF two
    <3> QED
      BY <3>1, <3>2
  <2>2. CASE 2 \notin DOMAIN keys
    <3>1. two = <<>> /\ Len(keys) # 2
      BY <1>2, <2>2
    <3>2. IsText(two, 0)
      BY <3>1, TextEmpty
    <3> HIDE DEF two
    <3> QED
      BY <3>1, <3>2
  <2> QED
    BY <2>1, <2>2
<1> HIDE DEF one, two
<1>5. IsText(KeyRefs(keys), m + n) /\ m + n \in Nat
  BY <1>1, <1>3, <1>4, TextBoth
<1>6. IsText(KeyRefs(keys), 488)
  <2>1. m + n <= 488
    OBVIOUS
  <2> QED
    BY <1>5, <2>1, TextAtMost
<1>7. ASSUME Len(keys) # 2 PROVE IsText(KeyRefs(keys), 244)
  <2>1. m + n <= 244
    BY <1>4, <1>7
  <2> QED
    BY <1>5, <2>1, TextAtMost
<1>8. ASSUME Len(keys) = 2 PROVE IsText(KeyRefs(keys), 236 + Ids(keys[1]) + Ids(keys[2]))
  <2>1. Ids(keys[1]) \in 0 .. 126 /\ Ids(keys[2]) \in 0 .. 126
    BY <1>2, <1>8, IdsType
  <2>2. PICK i \in 0 .. 126, j \in 0 .. 126 : i = Ids(keys[1]) /\ j = Ids(keys[2])
    BY <2>1
  <2>3. m = 118 + i /\ n = 118 + j
    BY <1>3, <1>4, <1>8, <2>2
  <2>4. m + n = 236 + i + j
    BY <2>3
  <2> QED
    BY <1>5, <2>2, <2>4
<1> QED
  BY <1>6, <1>7, <1>8

-----------------------------------------------------------------------------
(* The width of each field *)

\* The ids of two keys have at most 20 characters together: the gateway's 255
\* for key_ref less the 235 that two references without ids may have.
ShortPairs == \A c \in Calls : Len(c.keys) = 2 => Ids(c.keys[1]) + Ids(c.keys[2]) <= 20

LEMMA TextKeyTokens ==
  ASSUME ShortPairs, NEW c \in Calls
  PROVE  IsText(KeyTokens(c), 256)
<1>1. CASE c.function \in BareIndex
  <2>1. PICK x : x = <<"key_index", c.index>>
    OBVIOUS
  <2>2. x[1] = "key_index" /\ x[2] = c.index
    BY <2>1
  <2>3. StrLen(x[1]) = 9 /\ StrLen(x[2]) \in 1 .. 10
    BY <2>2, ArgumentLengths, KeyWordLengths
  <2>4. Letters(x) \in 1 .. 20
    BY <2>3 DEF Letters
  <2>5. Counted({x}) /\ x \in {x}
    BY <2>4 DEF Counted
  <2>6. <<x>> \in Seq({x}) /\ Full(<<x>>) = Letters(x) + 1
    BY <2>5, FullOne
  <2>7. Letters(x) + 1 <= 256
    BY <2>4
  <2>8. IsText(<<x>>, 256)
    BY <2>5, <2>6, <2>7 DEF IsText
  <2>9. KeyTokens(c) = <<x>>
    BY <1>1, <2>1 DEF KeyTokens
  <2> QED
    BY <2>8, <2>9
<1>2. CASE c.function \notin BareIndex
  <2>1. PICK keys \in Seq(Keys) : keys = c.keys
    BY CallsAssumption
  <2>2. Len(keys) <= 2 /\ \A i \in DOMAIN keys : Narrow(keys[i])
    BY <2>1, CallsAssumption, ArgumentLengths
  <2>3. KeyTokens(c) = KeyRefs(keys)
    BY <1>2, <2>1 DEF KeyTokens
  <2>4. CASE Len(keys) # 2
    <3>1. IsText(KeyRefs(keys), 244)
      BY <2>2, <2>4, TextRefs
    <3> QED
      BY <2>3, <3>1, TextAtMost
  <2>5. CASE Len(keys) = 2
    <3>1. IsText(KeyRefs(keys), 236 + Ids(keys[1]) + Ids(keys[2]))
      BY <2>2, <2>5, TextRefs
    <3>2. Ids(keys[1]) \in 0 .. 126 /\ Ids(keys[2]) \in 0 .. 126
      BY <2>2, <2>5, PairPlaces, IdsType
    <3>3. PICK i \in 0 .. 126, j \in 0 .. 126 : i = Ids(keys[1]) /\ j = Ids(keys[2])
      BY <3>2
    <3>4. i + j <= 20
      BY <2>1, <2>5, <3>3 DEF ShortPairs
    <3>5. 236 + i + j \in Nat /\ 236 + i + j <= 256
      BY <3>4
    <3>6. IsText(KeyRefs(keys), 236 + i + j)
      BY <3>1, <3>3
    <3> QED
      BY <2>3, <3>5, <3>6, TextAtMost
  <2> QED
    BY <2>4, <2>5
<1> QED
  BY <1>1, <1>2

LEMMA LettersOf ==
  ASSUME NEW x, StrLen(x[1]) \in 1 .. 14, StrLen(x[2]) \in 1 .. 14
  PROVE  Letters(x) \in Nat \ {0} /\ Letters(x) <= 29
  BY DEF Letters

\* At most five tokens of at most 29 characters.
LEMMA TextFive ==
  ASSUME NEW S, NEW tokens \in Seq(S), Len(tokens) <= 5,
         \A x \in S : StrLen(x[1]) \in 1 .. 14 /\ StrLen(x[2]) \in 1 .. 14
  PROVE  IsText(tokens, 150)
<1>1. \A x \in S : Letters(x) \in Nat \ {0} /\ Letters(x) <= 29
  BY LettersOf
<1>2. Counted(S)
  BY <1>1 DEF Counted
<1>3. PICK m \in Nat : m = 29
  OBVIOUS
<1>4. Full(tokens) <= Len(tokens) * (m + 1)
  BY <1>1, <1>2, <1>3, FullBound
<1>5. PICK k \in Nat : k = Len(tokens)
  OBVIOUS
<1>6. k <= 5
  BY <1>5
<1>7. k * (m + 1) = k * 30
  BY <1>3
<1>8. k * 30 <= 150
  BY <1>6
<1>9. Full(tokens) \in Nat
  BY <1>2, FullNat
<1>10. Full(tokens) <= k * 30
  BY <1>4, <1>5, <1>7
<1>11. Full(tokens) <= 150
  BY <1>8, <1>9, <1>10
<1> QED
  BY <1>2, <1>11 DEF IsText

LEMMA TextArgument ==
  ASSUME NEW c \in Calls, NEW name, StrLen(name) \in 1 .. 14
  PROVE  IsText(Argument(c, name), 150)
<1>0. StrLen(c.number) \in 1 .. 14 /\ StrLen(c.pointer) \in 1 .. 14
  <2>1. StrLen(c.number) \in 1 .. 10 /\ StrLen(c.pointer) \in 1 .. 14
    BY ArgumentLengths
  <2> QED
    BY <2>1
<1>1. /\ StrLen("mode") \in 1 .. 14 /\ StrLen("padding") \in 1 .. 14
      /\ StrLen("hash_alg") \in 1 .. 14 /\ StrLen("security_level") \in 1 .. 14
      /\ StrLen("ex_params") \in 1 .. 14 /\ StrLen("len") \in 1 .. 14
  BY WordLengths
<1> DEFINE S == {<<"mode", c.number>>, <<"padding", c.number>>, <<"hash_alg", c.number>>,
                 <<"security_level", c.number>>, <<"ex_params", c.pointer>>,
                 <<name, c.number>>, <<name, c.pointer>>, <<"len", c.number>>}
<1>2. \A x \in S : StrLen(x[1]) \in 1 .. 14 /\ StrLen(x[2]) \in 1 .. 14
  BY <1>0, <1>1
<1>3. Argument(c, name) \in Seq(S) /\ Len(Argument(c, name)) <= 5
  <2>0. CASE name \in Absent(c)
    BY <2>0 DEF Argument
  <2>1. CASE name = "params" /\ name \notin Absent(c)
    BY <2>1 DEF Argument
  <2>2. CASE name = "length" /\ name \notin Absent(c)
    BY <2>2 DEF Argument
  <2>3. CASE name = "random" /\ name \notin Absent(c)
    BY <2>3 DEF Argument
  <2>4. CASE name # "params" /\ name # "length" /\ name # "random" /\ name \notin Absent(c)
    <3>1. PICK x \in S : x = <<name, c.pointer>>
      OBVIOUS
    <3>2. PICK y \in S : y = <<"len", c.number>>
      OBVIOUS
    <3>3. Argument(c, name) = <<x, y>>
      BY <2>4, <3>1, <3>2 DEF Argument
    <3> HIDE DEF S
    <3> QED
      BY <3>3
  <2> QED
    BY <2>0, <2>1, <2>2, <2>3, <2>4
<1> HIDE DEF S
<1> QED
  BY <1>2, <1>3, TextFive

LEMMA TextArguments ==
  ASSUME NEW c \in Calls, NEW names, \A i \in DOMAIN names : StrLen(names[i]) \in 1 .. 14
  PROVE  IsText(Arguments(c, names), 300)
<1> DEFINE Arg(i) == IF i \in DOMAIN names THEN Argument(c, names[i]) ELSE <<>>
<1>1. ASSUME NEW i PROVE IsText(Arg(i), 150)
  <2>1. CASE i \in DOMAIN names
    BY <2>1, TextArgument
  <2>2. CASE i \notin DOMAIN names
    <3>1. Arg(i) = <<>>
      BY <2>2
    <3> HIDE DEF Arg
    <3> QED
      BY <3>1, TextEmpty, TextAtMost
  <2> QED
    BY <2>1, <2>2
<1>2. Arguments(c, names) = Arg(1) \o Arg(2)
  BY DEF Arguments
<1> HIDE DEF Arg
<1>3. IsText(Arg(1) \o Arg(2), 150 + 150)
  BY <1>1, TextBoth
<1> QED
  BY <1>2, <1>3

-----------------------------------------------------------------------------
(* The line *)

\* The most characters that a field of a line has.
Most(field) ==
  CASE field = "request_id" -> 63
    [] field \in {"domain", "algorithm"} -> 14
    [] field = "action" -> 17
    [] field = "payload" -> 299
    [] field = "aux_payload" -> 787
    [] field = "sequence" -> 74
    [] OTHER -> 255

FieldNames ==
  {"request_id", "domain", "action", "algorithm", "key_ref", "payload", "aux_payload", "sequence"}

\* What build_json is given for each field.
Given(call) ==
  LET f == Functions[call.function]
  IN  [request_id  |-> Word(call.function),
       domain      |-> Word(Domain(call)),
       action      |-> Word(f.action),
       algorithm   |-> Word(AlgorithmName(Algorithm(call))),
       key_ref     |-> Text(KeyTokens(call)),
       payload     |-> Text(Arguments(call, f.payload)),
       aux_payload |-> Text(Arguments(call, f.aux) \o KeyRefs(call.out)),
       sequence    |-> IF call.function \in {"HybridSign", "HybridVerify"}
                       THEN HybridSteps(f.action) ELSE Word("")]

LEMMA LineGiven ==
  ASSUME NEW c
  PROVE  /\ DOMAIN Given(c) = FieldNames
         /\ Line(c) = [field \in {g \in FieldNames : Given(c)[g].width > 0} |-> Given(c)[field]]
<1>1. DOMAIN Given(c) = FieldNames
  BY DEF Given, FieldNames
<1>2. Line(c) = [field \in {g \in DOMAIN Given(c) : Given(c)[g].width > 0} |-> Given(c)[field]]
  BY DEF Line, Given
<1> QED
  BY <1>1, <1>2

LEMMA AlgorithmWidth ==
  ASSUME NEW c \in Calls, Returns(c) = "CCM_OK"
  PROVE  StrLen(AlgorithmName(Algorithm(c))) \in 1 .. 14
<1>1. Algorithm(c) \in Nat
  <2>1. c.alg \in Nat /\ (c.keys # <<>> => c.keys[1] \in Keys)
    BY CallsAssumption, Places
  <2> QED
    BY <2>1 DEF Algorithm, Keys
<1>2. ~(Algorithm(c) > Len(AlgorithmNames))
  BY DEF Returns
<1>3. Len(AlgorithmNames) = 21 /\ DOMAIN AlgorithmNames = 1 .. 21
  BY DEF AlgorithmNames
<1>4. CASE Algorithm(c) = 0
  BY <1>4, WordLengths DEF AlgorithmName
<1>5. CASE Algorithm(c) # 0
  <2>1. Algorithm(c) \in DOMAIN AlgorithmNames
    BY <1>1, <1>2, <1>3, <1>5
  <2>2. StrLen(AlgorithmNames[Algorithm(c)]) \in 1 .. 10
    BY <2>1, WordLengths
  <2>3. AlgorithmName(Algorithm(c)) = AlgorithmNames[Algorithm(c)]
    BY <1>5 DEF AlgorithmName
  <2> QED
    BY <2>2, <2>3
<1> QED
  BY <1>4, <1>5

\* No field is longer than Most, and key_ref is empty only without tokens.
LEMMA GivenWidths ==
  ASSUME ShortPairs, NEW c \in Calls, Returns(c) = "CCM_OK"
  PROVE  /\ \A field \in FieldNames : Given(c)[field].width \in 0 .. Most(field)
         /\ Given(c)["key_ref"].width > 0 <=> KeyTokens(c) # <<>>
<1> DEFINE f == Functions[c.function]
<1>1. c.function \in DOMAIN Functions
  BY CallsAssumption
<1>2. /\ StrLen(c.function) \in 1 .. 63 /\ StrLen(f.domain) \in 1 .. 6 /\ StrLen(f.action) \in 1 .. 17
      /\ \A i \in DOMAIN f.payload : StrLen(f.payload[i]) \in 1 .. 14
      /\ \A i \in DOMAIN f.aux : StrLen(f.aux[i]) \in 1 .. 14
  BY <1>1, WordLengths
<1> HIDE DEF f
<1>3. Given(c)["request_id"].width \in 0 .. 63
  BY <1>2 DEF Given, Word
<1>4. Given(c)["domain"].width \in 0 .. 14
  <2>1. Given(c)["domain"].width = StrLen(Domain(c))
    BY DEF Given, Word
  <2>2. Domain(c) \in {"pqc", f.domain}
    BY DEF Domain, f
  <2>3. StrLen("pqc") \in 1 .. 14
    BY WordLengths
  <2> QED
    BY <1>2, <2>1, <2>2, <2>3
<1>5. Given(c)["action"].width \in 0 .. 17
  BY <1>2 DEF Given, Word, f
<1>6. Given(c)["algorithm"].width \in 0 .. 14
  <2>1. Given(c)["algorithm"].width = StrLen(AlgorithmName(Algorithm(c)))
    BY DEF Given, Word
  <2> QED
    BY <2>1, AlgorithmWidth
<1>7. Given(c)["key_ref"].width \in 0 .. 255 /\ (Given(c)["key_ref"].width > 0 <=> KeyTokens(c) # <<>>)
  <2>1. Given(c)["key_ref"] = Text(KeyTokens(c))
    BY DEF Given
  <2>2. PICK n \in Nat \ {0} : n = 256
    OBVIOUS
  <2>3. IsText(KeyTokens(c), n)
    BY <2>2, TextKeyTokens
  <2>4. Text(KeyTokens(c)).width \in 0 .. n - 1 /\ (Text(KeyTokens(c)).width > 0 <=> KeyTokens(c) # <<>>)
    BY <2>3, TextWidth
  <2> QED
    BY <2>1, <2>2, <2>4
<1>8. Given(c)["payload"].width \in 0 .. 299
  <2>1. Given(c)["payload"] = Text(Arguments(c, f.payload))
    BY DEF Given, f
  <2>2. PICK n \in Nat \ {0} : n = 300
    OBVIOUS
  <2>3. IsText(Arguments(c, f.payload), n)
    BY <1>2, <2>2, TextArguments
  <2>4. Text(Arguments(c, f.payload)).width \in 0 .. n - 1
    BY <2>3, TextWidth
  <2> QED
    BY <2>1, <2>2, <2>4
<1>9. Given(c)["aux_payload"].width \in 0 .. 787
  <2>1. Given(c)["aux_payload"] = Text(Arguments(c, f.aux) \o KeyRefs(c.out))
    BY DEF Given, f
  <2>2. IsText(Arguments(c, f.aux), 300)
    BY <1>2, TextArguments
  <2>3. IsText(KeyRefs(c.out), 488)
    BY CallsAssumption, ArgumentLengths, TextRefs
  <2>4. PICK n \in Nat \ {0} : n = 300 + 488
    OBVIOUS
  <2>5. IsText(Arguments(c, f.aux) \o KeyRefs(c.out), n)
    BY <2>2, <2>3, <2>4, TextBoth
  <2>6. Text(Arguments(c, f.aux) \o KeyRefs(c.out)).width \in 0 .. n - 1
    BY <2>5, TextWidth
  <2> QED
    BY <2>1, <2>4, <2>6
<1>10. Given(c)["sequence"].width \in 0 .. 74
  <2>1. CASE c.function \in {"HybridSign", "HybridVerify"}
    <3>1. Given(c)["sequence"] = HybridSteps(f.action)
      BY <2>1 DEF Given, f
    <3>2. StrLen("asym::classic:sm2>pqc::pqc:dilithium3") \in 1 .. 40
      BY WordLengths
    <3> QED
      BY <1>2, <3>1, <3>2 DEF HybridSteps
  <2>2. CASE c.function \notin {"HybridSign", "HybridVerify"}
    <3>1. Given(c)["sequence"] = Word("")
      BY <2>2 DEF Given
    <3>2. StrLen("") = 0
      BY WordLengths
    <3>3. Word("").width = StrLen("")
      BY DEF Word
    <3>4. Given(c)["sequence"].width = 0
      BY <3>1, <3>2, <3>3
    <3> QED
      BY <3>4
  <2> QED
    BY <2>1, <2>2
<1>11. ASSUME NEW field \in FieldNames PROVE Given(c)[field].width \in 0 .. Most(field)
  <2>1. /\ Most("request_id") = 63 /\ Most("domain") = 14 /\ Most("action") = 17
        /\ Most("algorithm") = 14 /\ Most("key_ref") = 255 /\ Most("payload") = 299
        /\ Most("aux_payload") = 787 /\ Most("sequence") = 74
    BY DEF Most
  <2>2. \/ field = "request_id" \/ field = "domain" \/ field = "action" \/ field = "algorithm"
        \/ field = "key_ref" \/ field = "payload" \/ field = "aux_payload" \/ field = "sequence"
    BY DEF FieldNames
  <2>3. CASE field = "request_id"
    BY <1>3, <2>1, <2>3
  <2>4. CASE field = "domain"
    BY <1>4, <2>1, <2>4
  <2>5. CASE field = "action"
    BY <1>5, <2>1, <2>5
  <2>6. CASE field = "algorithm"
    BY <1>6, <2>1, <2>6
  <2>7. CASE field = "key_ref"
    BY <1>7, <2>1, <2>7
  <2>8. CASE field = "payload"
    BY <1>8, <2>1, <2>8
  <2>9. CASE field = "aux_payload"
    BY <1>9, <2>1, <2>9
  <2>10. CASE field = "sequence"
    BY <1>10, <2>1, <2>10
  <2> QED
    BY <2>2, <2>3, <2>4, <2>5, <2>6, <2>7, <2>8, <2>9, <2>10
<1> QED
  BY <1>7, <1>11

SentNames == FieldNames \cup {"user_pin"}

LEMMA SentWidths ==
  ASSUME ShortPairs, NEW c \in Calls, Returns(c) = "CCM_OK", NEW line, line = Sent(Line(c))
  PROVE  /\ DOMAIN line \subseteq SentNames
         /\ \A field \in DOMAIN line : line[field].width \in 0 .. Most(field)
         /\ IF KeyTokens(c) = <<>> THEN "key_ref" \notin DOMAIN line
            ELSE "key_ref" \in DOMAIN line /\ line["key_ref"].says = KeyTokens(c)
<1> DEFINE written == Line(c)
           given   == Given(c)
<1>1. /\ DOMAIN written = {g \in FieldNames : given[g].width > 0}
      /\ \A field \in DOMAIN written : written[field] = given[field]
  <2>1. written = [field \in {g \in FieldNames : given[g].width > 0} |-> given[field]]
    BY LineGiven
  <2> HIDE DEF written, given
  <2> QED
    BY <2>1
<1>2. /\ \A field \in FieldNames : given[field].width \in 0 .. Most(field)
      /\ given["key_ref"].width > 0 <=> KeyTokens(c) # <<>>
  BY GivenWidths
<1>3. given["key_ref"].says = KeyTokens(c)
  BY DEF Given, Text
<1>4. line = Sent(written)
  OBVIOUS
<1> HIDE DEF written, given
<1>5. "key_ref" \in FieldNames /\ "user_pin" \notin FieldNames
  BY DEF FieldNames
<1>6. \/ line = written
      \/ /\ DOMAIN line = DOMAIN written \cup {"user_pin"}
         /\ line["user_pin"] = Word(SenderPin)
         /\ \A field \in DOMAIN written : field # "user_pin" => line[field] = written[field]
  BY <1>4 DEF Sent
<1>7. Word(SenderPin).width \in 0 .. Most("user_pin")
  <2>1. Word(SenderPin).width = StrLen(SenderPin) /\ Most("user_pin") = 255
    BY DEF Word, Most
  <2> QED
    BY <2>1, ArgumentLengths
<1>8. /\ DOMAIN line \subseteq DOMAIN written \cup {"user_pin"}
      /\ DOMAIN written \subseteq DOMAIN line
      /\ \A field \in DOMAIN written : line[field] = given[field]
      /\ \A field \in DOMAIN line : field \notin DOMAIN written => line[field] = Word(SenderPin) /\ field = "user_pin"
  BY <1>1, <1>5, <1>6
<1>9. \A field \in DOMAIN line : line[field].width \in 0 .. Most(field)
  <2> SUFFICES ASSUME NEW field \in DOMAIN line PROVE line[field].width \in 0 .. Most(field)
    OBVIOUS
  <2>1. CASE field \in DOMAIN written
    BY <1>1, <1>2, <1>8, <2>1
  <2>2. CASE field \notin DOMAIN written
    BY <1>7, <1>8, <2>2
  <2> QED
    BY <2>1, <2>2
<1>10. "key_ref" \in DOMAIN line <=> KeyTokens(c) # <<>>
  BY <1>1, <1>2, <1>5, <1>8
<1>11. "key_ref" \in DOMAIN line => line["key_ref"].says = KeyTokens(c)
  BY <1>3, <1>8, <1>10, <1>1, <1>2, <1>5
<1> QED
  BY <1>1, <1>8, <1>9, <1>10, <1>11 DEF SentNames

LEMMA MostFits ==
  \A field \in SentNames : Most(field) \in Nat /\ Most(field) < Size(field)
  BY DEF SentNames, FieldNames, Most, Size

\* What the terms of LineWidth are at most.
Within(f) ==
  /\ f[1] <= 80 /\ f[2] <= 31 /\ f[3] <= 34 /\ f[4] <= 31 /\ f[5] <= 272 /\ f[6] <= 316
  /\ f[7] <= 804 /\ f[8] = 0 /\ f[9] = 0 /\ f[10] <= 91 /\ f[11] <= 272

Adds(f, sum) ==
  sum[0] = 0 /\ \A i \in 1 .. 11 : f[i] \in Nat /\ sum[i] = sum[i - 1] + f[i]

\* Terms of at most these sizes add up to less than the line's buffer holds.
LEMMA AddEleven ==
  ASSUME NEW f, NEW sum, Within(f), Adds(f, sum)
  PROVE  sum[11] <= 1931
<1>0. sum[0] = 0
  BY DEF Adds
<1>1. /\ sum[1] = sum[0] + f[1] /\ sum[2] = sum[1] + f[2] /\ sum[3] = sum[2] + f[3]
      /\ sum[4] = sum[3] + f[4] /\ sum[5] = sum[4] + f[5] /\ sum[6] = sum[5] + f[6]
      /\ sum[7] = sum[6] + f[7] /\ sum[8] = sum[7] + f[8] /\ sum[9] = sum[8] + f[9]
      /\ sum[10] = sum[9] + f[10] /\ sum[11] = sum[10] + f[11]
  BY DEF Adds
<1>2. /\ f[1] \in Nat /\ f[2] \in Nat /\ f[3] \in Nat /\ f[4] \in Nat /\ f[5] \in Nat
      /\ f[6] \in Nat /\ f[7] \in Nat /\ f[10] \in Nat /\ f[11] \in Nat
  BY DEF Adds
<1>3. sum[3] \in Nat /\ sum[3] <= 145
  BY <1>0, <1>1, <1>2 DEF Within
<1>4. sum[6] \in Nat /\ sum[6] <= 764
  BY <1>1, <1>2, <1>3 DEF Within
<1>5. sum[9] \in Nat /\ sum[9] <= 1568
  BY <1>1, <1>2, <1>4 DEF Within
<1> QED
  BY <1>1, <1>2, <1>5 DEF Within

LEMMA Members ==
  ASSUME NEW S, NEW f \in Seq(S)
  PROVE  \A i \in 1 .. Len(f) : f[i] \in S
  OBVIOUS

LEMMA SumOfEleven ==
  ASSUME NEW f \in Seq(Nat), Len(f) = 11, Within(f)
  PROVE  SumOf(f) <= 1931
<1>1. PICK sum : SumOf(f) = sum[Len(f)] /\ Sums(sum, f)
  BY SumSteps
<1>2. \A i \in 1 .. 11 : sum[i] = sum[i - 1] + f[i]
  BY <1>1 DEF Sums
<1>3. \A i \in 1 .. 11 : f[i] \in Nat
  <2>1. \A i \in 1 .. Len(f) : f[i] \in Nat
    BY Members
  <2> QED
    BY <2>1
<1>4. sum[0] = 0
  BY <1>1 DEF Sums
<1>5. sum[11] <= 1931
  <2>1. Adds(f, sum)
    BY <1>2, <1>3, <1>4, Zenon DEF Adds
  <2> QED
    BY <2>1, AddEleven
<1> QED
  BY <1>1, <1>5

LEMMA LineFits ==
  ASSUME NEW line, DOMAIN line \subseteq SentNames,
         \A field \in DOMAIN line : line[field].width \in 0 .. Most(field)
  PROVE  LineWidth(line) < 2048
<1> DEFINE Term(name) == IF name \in DOMAIN line THEN StrLen(name) + line[name].width + 6 ELSE 0
           f == [i \in 1 .. 11 |-> Term(FieldOrder[i])]
<1>1. Len(FieldOrder) = 11 /\ DOMAIN FieldOrder = 1 .. 11
  BY DEF FieldOrder
<1>2. LineWidth(line) = 1 + SumOf(f)
  BY <1>1 DEF LineWidth
<1>3. ASSUME NEW i \in 1 .. 11, NEW n \in Nat, n = Most(FieldOrder[i])
      PROVE  Term(FieldOrder[i]) \in Nat /\ Term(FieldOrder[i]) <= n + 17
  <2>1. StrLen(FieldOrder[i]) \in 1 .. 11
    BY <1>1, WordLengths
  <2>2. CASE FieldOrder[i] \in DOMAIN line
    <3>1. line[FieldOrder[i]].width \in 0 .. n
      BY <1>3, <2>2
    <3> QED
      BY <2>1, <2>2, <3>1
  <2>3. CASE FieldOrder[i] \notin DOMAIN line
    BY <2>3
  <2> QED
    BY <2>2, <2>3
<1>4. /\ FieldOrder[1] = "request_id" /\ FieldOrder[2] = "domain" /\ FieldOrder[3] = "action"
      /\ FieldOrder[4] = "algorithm" /\ FieldOrder[5] = "key_ref" /\ FieldOrder[6] = "payload"
      /\ FieldOrder[7] = "aux_payload" /\ FieldOrder[8] = "device_hint"
      /\ FieldOrder[9] = "preference" /\ FieldOrder[10] = "sequence"
      /\ FieldOrder[11] = "user_pin"
  BY DEF FieldOrder
<1>5. /\ Most("request_id") = 63 /\ Most("domain") = 14 /\ Most("action") = 17
      /\ Most("algorithm") = 14 /\ Most("key_ref") = 255 /\ Most("payload") = 299
      /\ Most("aux_payload") = 787 /\ Most("sequence") = 74 /\ Most("user_pin") = 255
      /\ Most("device_hint") = 255 /\ Most("preference") = 255
  BY DEF Most
<1>6. Term("device_hint") = 0 /\ Term("preference") = 0
  BY DEF SentNames, FieldNames
<1> HIDE DEF Term
<1>7. Within(f)
  BY <1>3, <1>4, <1>5, <1>6 DEF Within
<1>8. \A i \in 1 .. 11 : Term(FieldOrder[i]) \in Nat
  BY <1>3, <1>4, <1>5
<1>9. f \in Seq(Nat) /\ Len(f) = 11
  BY <1>8
<1> HIDE DEF f
<1>10. SumOf(f) <= 1931 /\ SumOf(f) \in Nat
  <2>1. SumOf(f) \in Nat
    BY <1>9, SumIsNat
  <2>2. SumOf(f) <= 1931
    BY <1>7, <1>9, SumOfEleven
  <2> QED
    BY <2>1, <2>2
<1> QED
  BY <1>2, <1>10

\* Everything that a CCM function writes fits, whatever its arguments.
LEMMA CallArrives ==
  ASSUME ShortPairs, NEW c \in Calls, Returns(c) = "CCM_OK", NEW line, line = Sent(Line(c))
  PROVE  /\ \A field \in DOMAIN line : Has(line, field)
         /\ LineWidth(line) < 2048
         /\ Field(line, "key_ref", <<>>) = KeyTokens(c)
<1>1. /\ DOMAIN line \subseteq SentNames
      /\ \A field \in DOMAIN line : line[field].width \in 0 .. Most(field)
      /\ IF KeyTokens(c) = <<>> THEN "key_ref" \notin DOMAIN line
         ELSE "key_ref" \in DOMAIN line /\ line["key_ref"].says = KeyTokens(c)
  BY SentWidths
<1>2. ASSUME NEW field \in DOMAIN line PROVE Has(line, field)
  <2>1. line[field].width \in 0 .. Most(field) /\ Most(field) \in Nat /\ Most(field) < Size(field)
    BY <1>1, MostFits
  <2>2. Size(field) \in Nat
    BY DEF Size
  <2> QED
    BY <2>1, <2>2 DEF Has
<1>3. LineWidth(line) < 2048
  BY <1>1, LineFits
<1>4. Field(line, "key_ref", <<>>) = KeyTokens(c)
  BY <1>1, <1>2 DEF Field, Has
<1> QED
  BY <1>2, <1>3, <1>4

-----------------------------------------------------------------------------
(* What the line says *)

Hybrid == {"HybridSign", "HybridVerify"}

\* The steps that a call asks for: its own operation on a device of any type, or
\* the two of a hybrid function.
Asked(call) ==
  LET action == Functions[call.function].action
  IN  IF call.function \in Hybrid
      THEN << [op |-> <<"asym", action, "sm2">>, type |-> "classic"],
              [op |-> <<"pqc", action, "dilithium3">>, type |-> "pqc"] >>
      ELSE << [op |-> <<Domain(call), action, AlgorithmName(Algorithm(call))>>,
               type |-> "unknown"] >>

\* Every function is one that the gateway knows.
LEMMA FunctionsKnown ==
  ASSUME NEW f \in DOMAIN Functions
  PROVE  Functions[f].domain \in Domains \ {"auth"} /\ Functions[f].action \in Actions
  BY DEF Functions, F, Domains, Actions

\* The algorithms that CCM knows, by the gateway's names for them.
GatewayNames ==
  {"auto", "sm2", "rsa", "sm3", "sha256", "sm4-cbc", "sm4-ecb", "sm4-mac", "aes-cbc", "aes-ecb",
   "kyber512", "kyber768", "kyber1024", "mlkem768", "dilithium2", "dilithium3", "dilithium5",
   "sm9"}

\* The names that CCM_AlgorithmName gives are the ones the gateway uses.
LEMMA NamesNormal ==
  ASSUME NEW name, \/ name = "auto"
                   \/ \E i \in DOMAIN AlgorithmNames : name = AlgorithmNames[i]
  PROVE  NormalAlgorithm(name) = name
<1>1. name \in GatewayNames
  BY DEF AlgorithmNames, GatewayNames
<1> DEFINE names == [auto       |-> {"", "auto", "none"},
                     kyber768   |-> {"kyber", "kyber-768"},
                     mlkem768   |-> {"ml-kem-768", "mlkem"},
                     dilithium3 |-> {"dilithium", "dilithium-3"}]
<1>2. NormalAlgorithm(name) = Named(names, name, name)
  BY DEF NormalAlgorithm
<1>3. DOMAIN names = {"auto", "kyber768", "mlkem768", "dilithium3"}
  OBVIOUS
<1>0. /\ names["auto"] = {"", "auto", "none"} /\ names["kyber768"] = {"kyber", "kyber-768"}
      /\ names["mlkem768"] = {"ml-kem-768", "mlkem"}
      /\ names["dilithium3"] = {"dilithium", "dilithium-3"}
  OBVIOUS
<1> HIDE DEF names
<1>4. ASSUME NEW n \in DOMAIN names, name \in names[n] PROVE n = "auto" /\ name = "auto"
  <2>1. n = "auto" \/ n = "kyber768" \/ n = "mlkem768" \/ n = "dilithium3"
    BY <1>3
  <2>2. /\ name \notin {"kyber", "kyber-768"} /\ name \notin {"ml-kem-768", "mlkem"}
        /\ name \notin {"dilithium", "dilithium-3"} /\ (name \in {"", "auto", "none"} => name = "auto")
    BY <1>1 DEF GatewayNames
  <2>3. n = "auto"
    BY <1>0, <1>4, <2>1, <2>2
  <2> QED
    BY <1>0, <1>4, <2>2, <2>3
<1>5. name = "auto" => name \in names["auto"]
  BY <1>0
<1>6. CASE name = "auto"
  <2>1. \E n \in DOMAIN names : name \in names[n]
    BY <1>3, <1>5, <1>6
  <2>2. PICK n \in DOMAIN names : n = CHOOSE k \in DOMAIN names : name \in names[k]
    BY <2>1
  <2>3. name \in names[CHOOSE k \in DOMAIN names : name \in names[k]]
    BY <2>1
  <2>4. Named(names, name, name) = CHOOSE k \in DOMAIN names : name \in names[k]
    BY <2>1 DEF Named
  <2> QED
    BY <1>2, <1>4, <1>6, <2>2, <2>3, <2>4
<1>7. CASE name # "auto"
  BY <1>2, <1>4, <1>7 DEF Named
<1> QED
  BY <1>6, <1>7

\* What build_json is given is what parse_request_json finds.
LEMMA SentSays ==
  ASSUME ShortPairs, NEW c \in Calls, Returns(c) = "CCM_OK", NEW line, line = Sent(Line(c)),
         NEW field \in FieldNames
  PROVE  IF Given(c)[field].width > 0
         THEN /\ Has(Line(c), field) /\ Has(line, field)
              /\ Line(c)[field] = Given(c)[field] /\ line[field] = Given(c)[field]
         ELSE ~Has(line, field)
<1> DEFINE written == Line(c)
           given   == Given(c)
<1>1. /\ DOMAIN written = {g \in FieldNames : given[g].width > 0}
      /\ \A g \in DOMAIN written : written[g] = given[g]
  <2>1. written = [g \in {h \in FieldNames : given[h].width > 0} |-> given[g]]
    BY LineGiven
  <2> HIDE DEF written, given
  <2> QED
    BY <2>1
<1>2. given[field].width \in 0 .. Most(field)
  BY GivenWidths
<1>3. Most(field) \in Nat /\ Most(field) < Size(field) /\ Size(field) \in Nat
  BY MostFits DEF SentNames, Size
<1>4. line = Sent(written)
  OBVIOUS
<1> HIDE DEF written, given
<1>5. field # "user_pin"
  BY DEF FieldNames
<1>6. /\ field \in DOMAIN line <=> field \in DOMAIN written
      /\ field \in DOMAIN written => line[field] = written[field]
  BY <1>4, <1>5 DEF Sent
<1>7. given[field].width < Size(field)
  BY <1>2, <1>3
<1> QED
  BY <1>1, <1>6, <1>7 DEF Has, written, given

LEMMA AlgorithmNormal ==
  ASSUME NEW c \in Calls, Returns(c) = "CCM_OK"
  PROVE  NormalAlgorithm(AlgorithmName(Algorithm(c))) = AlgorithmName(Algorithm(c))
<1>1. Algorithm(c) \in Nat
  <2>1. c.alg \in Nat /\ (c.keys # <<>> => c.keys[1] \in Keys)
    BY CallsAssumption, Places
  <2> QED
    BY <2>1 DEF Algorithm, Keys
<1>2. ~(Algorithm(c) > Len(AlgorithmNames))
  BY DEF Returns
<1>3. Len(AlgorithmNames) = 21 /\ DOMAIN AlgorithmNames = 1 .. 21
  BY DEF AlgorithmNames
<1>4. AlgorithmName(Algorithm(c)) = "auto"
        \/ \E i \in DOMAIN AlgorithmNames : AlgorithmName(Algorithm(c)) = AlgorithmNames[i]
  BY <1>1, <1>2, <1>3 DEF AlgorithmName
<1> QED
  BY <1>4, NamesNormal

\* The widths that decide which fields the line has.
LEMMA GivenFields ==
  ASSUME NEW c \in Calls, Returns(c) = "CCM_OK"
  PROVE  /\ Given(c)["request_id"].width > 0
         /\ Given(c)["domain"].width > 0 /\ Given(c)["domain"].says = Domain(c)
         /\ Given(c)["action"].width > 0
         /\ Given(c)["action"].says = Functions[c.function].action
         /\ Given(c)["algorithm"].width > 0
         /\ Given(c)["algorithm"].says = AlgorithmName(Algorithm(c))
         /\ IF c.function \in Hybrid
            THEN Given(c)["sequence"].width > 0 /\ Given(c)["sequence"].says = Asked(c)
            ELSE Given(c)["sequence"].width = 0
<1> DEFINE f == Functions[c.function]
<1>1. c.function \in DOMAIN Functions
  BY CallsAssumption
<1>2. StrLen(c.function) \in 1 .. 63 /\ StrLen(f.domain) \in 1 .. 6 /\ StrLen(f.action) \in 1 .. 17
  BY <1>1, WordLengths
<1> HIDE DEF f
<1>3. \A text : Word(text).says = text /\ Word(text).width = StrLen(text)
  BY DEF Word
<1>4. Given(c)["request_id"].width > 0
  <2>1. Given(c)["request_id"] = Word(c.function)
    BY DEF Given
  <2> QED
    BY <1>2, <1>3, <2>1
<1>5. Given(c)["domain"].width > 0 /\ Given(c)["domain"].says = Domain(c)
  <2>1. Given(c)["domain"] = Word(Domain(c))
    BY DEF Given
  <2>2. Domain(c) \in {"pqc", f.domain}
    BY DEF Domain, f
  <2>3. StrLen("pqc") \in 1 .. 14
    BY WordLengths
  <2>4. StrLen(Domain(c)) > 0
    BY <1>2, <2>2, <2>3
  <2> QED
    BY <1>3, <2>1, <2>4
<1>6. Given(c)["action"].width > 0 /\ Given(c)["action"].says = f.action
  <2>1. Given(c)["action"] = Word(f.action)
    BY DEF Given, f
  <2> QED
    BY <1>2, <1>3, <2>1
<1>7. Given(c)["algorithm"].width > 0 /\ Given(c)["algorithm"].says = AlgorithmName(Algorithm(c))
  <2>1. Given(c)["algorithm"] = Word(AlgorithmName(Algorithm(c)))
    BY DEF Given
  <2> QED
    BY <1>3, <2>1, AlgorithmWidth
<1>8. CASE c.function \in Hybrid
  <2>1. Given(c)["sequence"] = HybridSteps(f.action)
    BY <1>8 DEF Given, Hybrid, f
  <2>2. HybridSteps(f.action).says = Asked(c)
    BY <1>8 DEF HybridSteps, Asked, f
  <2>3. PICK n \in 1 .. 40 : HybridSteps(f.action).width = 2 * StrLen(f.action) + n
    <3>1. StrLen("asym::classic:sm2>pqc::pqc:dilithium3") \in 1 .. 40
      BY WordLengths
    <3> QED
      BY <3>1 DEF HybridSteps
  <2>4. HybridSteps(f.action).width > 0
    BY <1>2, <2>3
  <2> QED
    BY <1>4, <1>5, <1>6, <1>7, <1>8, <2>1, <2>2, <2>4 DEF f
<1>9. CASE c.function \notin Hybrid
  <2>1. Given(c)["sequence"] = Word("")
    BY <1>9 DEF Given, Hybrid
  <2>2. Given(c)["sequence"].width = 0
    <3>1. Word("").width = StrLen("") /\ StrLen("") = 0
      BY <1>3, WordLengths
    <3> QED
      BY <2>1, <3>1
  <2> QED
    BY <1>4, <1>5, <1>6, <1>7, <1>9, <2>2 DEF f
<1> QED
  BY <1>8, <1>9

\* Whatever a CCM function builds and returns CCM_OK for, the gateway accepts, and
\* it takes it for the steps that the caller asked for.
LEMMA CallUnderstood ==
  ASSUME ShortPairs, NEW c \in Calls, Returns(c) = "CCM_OK"
  PROVE  /\ ~Rejected(Line(c))
         /\ Steps(Request(c)) = Asked(c)
         /\ Request(c).sequence = IF c.function \in Hybrid THEN Asked(c) ELSE NoSequence
         /\ <<Request(c).op[1], Request(c).op[2]>> # CheckPinOp
<1> DEFINE written == Line(c)
           line    == Sent(Line(c))
           action  == Functions[c.function].action
           name    == AlgorithmName(Algorithm(c))
           given   == Given(c)
<1>1. /\ given["request_id"].width > 0
      /\ given["domain"].width > 0 /\ given["domain"].says = Domain(c)
      /\ given["action"].width > 0 /\ given["action"].says = action
      /\ given["algorithm"].width > 0 /\ given["algorithm"].says = name
      /\ IF c.function \in Hybrid
         THEN given["sequence"].width > 0 /\ given["sequence"].says = Asked(c)
         ELSE given["sequence"].width = 0
  BY GivenFields
<1>2. {"request_id", "domain", "action", "algorithm", "sequence"} \subseteq FieldNames
  BY DEF FieldNames
<1>3. \A field \in FieldNames :
        IF given[field].width > 0
        THEN /\ Has(written, field) /\ Has(line, field)
             /\ written[field] = given[field] /\ line[field] = given[field]
        ELSE ~Has(line, field)
  BY SentSays
<1>4. action \in Actions /\ Functions[c.function].domain \in Domains \ {"auth"}
  BY CallsAssumption, FunctionsKnown
<1>5. Domain(c) \in Domains \ {"auth"}
  <2>1. "pqc" \in Domains \ {"auth"}
    BY DEF Domains
  <2> QED
    BY <1>4, <2>1 DEF Domain
<1>6. NormalAlgorithm(name) = name
  BY AlgorithmNormal
<1> HIDE DEF written, given, name
<1>7. ~Rejected(written)
  <2>1. Has(written, "request_id") /\ Has(written, "domain") /\ Has(written, "action")
    BY <1>1, <1>2, <1>3
  <2>2. written["domain"].says \in Domains /\ written["action"].says \in Actions
    BY <1>1, <1>2, <1>3, <1>4, <1>5
  <2> QED
    BY <2>1, <2>2 DEF Rejected
<1>8. line["domain"].says = Domain(c) /\ line["action"].says = action
  BY <1>1, <1>2, <1>3
<1>9. \A x : Field(line, "algorithm", x) = name
  BY <1>1, <1>2, <1>3 DEF Field
<1>10. \A x : Field(line, "sequence", x) = IF c.function \in Hybrid THEN Asked(c) ELSE x
  BY <1>1, <1>2, <1>3 DEF Field
<1>11. /\ Request(c).op = <<line["domain"].says, line["action"].says,
                            NormalAlgorithm(Field(line, "algorithm", DefaultAlgorithm(line["action"].says)))>>
       /\ Request(c).sequence = Field(line, "sequence", NoSequence)
  BY DEF Request
<1> HIDE DEF line
<1>12. Request(c).op = <<Domain(c), action, name>>
  BY <1>6, <1>8, <1>9, <1>11
<1>13. Request(c).sequence = IF c.function \in Hybrid THEN Asked(c) ELSE NoSequence
  BY <1>10, <1>11
<1>14. c.function \in Hybrid => Asked(c) # NoSequence
  <2>1. c.function \in Hybrid => HybridSteps(action).says = Asked(c)
    BY DEF HybridSteps, Asked
  <2> QED
    BY <1>4, <2>1, NoSequenceAssumption
<1>15. Steps(Request(c)) = Asked(c)
  <2>1. CASE c.function \in Hybrid
    BY <1>13, <1>14, <2>1 DEF Steps
  <2>2. CASE c.function \notin Hybrid
    <3>1. Steps(Request(c)) = << [op |-> Request(c).op, type |-> "unknown"] >>
      BY <1>13, <2>2 DEF Steps
    <3>2. Asked(c) = << [op |-> <<Domain(c), action, name>>, type |-> "unknown"] >>
      BY <2>2 DEF Asked, name
    <3> QED
      BY <1>12, <3>1, <3>2
  <2> QED
    BY <2>1, <2>2
<1>16. <<Request(c).op[1], Request(c).op[2]>> # CheckPinOp
  <2>1. Request(c).op[1] # "auth"
    BY <1>5, <1>12
  <2> QED
    BY <2>1 DEF CheckPinOp
<1> QED
  BY <1>7, <1>13, <1>15, <1>16 DEF written

=============================================================================
