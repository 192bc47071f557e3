------------------------- MODULE NetstringReadProofs -------------------------
(***************************************************************************)
(* Theorems about the reader, for every list of strings, whatever follows  *)
(* them, however the bytes arrive and wherever the stream is cut.          *)
(***************************************************************************)
EXTENDS NetstringRead, WireFormatProofs, FiniteSetTheorems

-----------------------------------------------------------------------------
\* NumberOf, digit by digit.

LEMMA DigitOfNumeral ==
  ASSUME NEW i \in 1..10
  PROVE  DigitOf(Numerals[i]) = i - 1
<1>1. \A j \in 1..10 : Numerals[j] = Numerals[i] => j = i
  BY SMT DEF Numerals
<1>2. (CHOOSE j \in 1..10 : Numerals[j] = Numerals[i]) = i
  BY <1>1, Zenon
<1> QED BY <1>2 DEF DigitOf

LEMMA NumeralDomain == DOMAIN Numerals = 1..10
BY SMT DEF Numerals

LEMMA DigitOfType ==
  ASSUME NEW c, IsDigit(c)
  PROVE  DigitOf(c) \in 0..9
<1>1. PICK i \in 1..10 : c = Numerals[i]
  BY NumeralDomain DEF IsDigit, Range
<1> QED BY <1>1, DigitOfNumeral

LEMMA NumeralIsDigit ==
  ASSUME NEW i \in 1..10
  PROVE  IsDigit(Numerals[i])
BY NumeralDomain, Zenon DEF IsDigit, Range

LEMMA NoDigits == ~IsDigit(Colon) /\ ~IsDigit(NUL) /\ Colon # NUL /\ Comma # Colon /\ Comma # NUL
<1>1. \A i \in 1..10 : Numerals[i] # Colon /\ Numerals[i] # NUL
  BY SMT DEF Numerals, Colon, NUL
<1>2. Colon # NUL /\ Comma # Colon /\ Comma # NUL
  BY DEF Colon, NUL, Comma
<1> QED BY <1>1, <1>2, NumeralDomain, Zenon DEF IsDigit, Range

\* What FoldLeft computes on the sets of the first positions.
Step(m, c) == m * 10 + DigitOf(c)

FoldsOver(f, s, T) ==
  f = [S \in SUBSET T |->
         IF S = {} THEN 0 ELSE Step(f[S \ {Max(S)}], s[Max(S)])]

LEMMA FoldsAt ==
  ASSUME NEW f, NEW s, NEW T, FoldsOver(f, s, T), NEW S \in SUBSET T
  PROVE  /\ S = {} => f[S] = 0
         /\ S # {} => f[S] = Step(f[S \ {Max(S)}], s[Max(S)])
<1>1. f[S] = IF S = {} THEN 0 ELSE Step(f[S \ {Max(S)}], s[Max(S)])
  BY Zenon DEF FoldsOver
<1> QED BY <1>1, Zenon

LEMMA MaxIs ==
  ASSUME NEW S, NEW m \in S, S \subseteq Int, \A x \in S : x <= m
  PROVE  Max(S) = m
<1>1. \A y \in S : (\A x \in S : x <= y) => y = m
  <2> SUFFICES ASSUME NEW y \in S, \A x \in S : x <= y PROVE y = m
    OBVIOUS
  <2>1. m <= y /\ y <= m /\ y \in Int /\ m \in Int
    OBVIOUS
  <2> QED BY <2>1
<1>2. (CHOOSE y \in S : \A x \in S : x <= y) = m
  BY <1>1, Zenon
<1> QED BY <1>2, Zenon DEF Max

LEMMA FoldsExists ==
  ASSUME NEW s, NEW n \in Nat
  PROVE  \E f : FoldsOver(f, s, 1..n)
<1> DEFINE Q == {m \in Nat : \E f : FoldsOver(f, s, 1..m)}
<1>1. 0 \in Q
  <2> DEFINE g == [S \in SUBSET (1..0) |-> 0]
  <2>1. \A S \in SUBSET (1..0) : S = {}
    OBVIOUS
  <2>2. g = [S \in SUBSET (1..0) |->
               IF S = {} THEN 0 ELSE Step(g[S \ {Max(S)}], s[Max(S)])]
    BY <2>1, Zenon
  <2> QED BY <2>2, Zenon DEF FoldsOver
<1>2. ASSUME NEW m \in Nat, m \in Q
      PROVE  m + 1 \in Q
  <2>1. PICK f : FoldsOver(f, s, 1..m)
    BY <1>2
  <2> DEFINE T == 1..m
             U == 1..(m + 1)
             g == [S \in SUBSET U |->
                     IF S \in SUBSET T THEN f[S]
                     ELSE Step(f[S \ {m + 1}], s[m + 1])]
  <2>2. U = T \cup {m + 1} /\ ~(m + 1 \in T)
    OBVIOUS
  <2>3. ASSUME NEW S \in SUBSET U, ~(S \in SUBSET T)
        PROVE  Max(S) = m + 1 /\ S \ {m + 1} \in SUBSET T
    <3>1. m + 1 \in S /\ \A x \in S : x <= m + 1
      BY <2>3
    <3>2. S \subseteq Int
      OBVIOUS
    <3>3. Max(S) = m + 1
      <4> HIDE DEF U, T
      <4> QED BY <3>1, <3>2, MaxIs
    <3> QED BY <2>2, <3>3
  <2>4. ASSUME NEW S \in SUBSET T, S # {}
        PROVE  S \ {Max(S)} \in SUBSET T
    OBVIOUS
  <2>7. ASSUME NEW S \in SUBSET T
        PROVE  /\ S = {} => f[S] = 0
               /\ S # {} => f[S] = Step(f[S \ {Max(S)}], s[Max(S)])
    <3>1. FoldsOver(f, s, T)
      BY <2>1
    <3>2. S \in SUBSET T
      OBVIOUS
    <3> HIDE DEF T
    <3>3. CASE S = {}
      BY <3>1, <3>2, <3>3, FoldsAt
    <3>4. CASE S # {}
      BY <3>1, <3>2, <3>4, FoldsAt
    <3> QED BY <3>3, <3>4
  <2>5. ASSUME NEW S \in SUBSET U
        PROVE  g[S] = IF S = {} THEN 0
                      ELSE Step(g[S \ {Max(S)}], s[Max(S)])
    <3> HIDE DEF T, U
    <3>1. CASE S \in SUBSET T
      <4>1. g[S] = f[S]
        BY <3>1, Zenon
      <4>2. S = {} => f[S] = 0
        BY <3>1, <2>7, Zenon
      <4>3. ASSUME S # {}
            PROVE  g[S] = Step(g[S \ {Max(S)}], s[Max(S)])
        <5>1. S \ {Max(S)} \in SUBSET T /\ S \ {Max(S)} \in SUBSET U
          BY <3>1, <4>3, <2>4
        <5>2. g[S \ {Max(S)}] = f[S \ {Max(S)}]
          BY <5>1, Zenon
        <5>3. f[S] = Step(f[S \ {Max(S)}], s[Max(S)])
          BY <3>1, <4>3, <2>7, Zenon
        <5> QED BY <4>1, <5>2, <5>3, Zenon
      <4> QED BY <4>1, <4>2, <4>3, Zenon
    <3>2. CASE ~(S \in SUBSET T)
      <4>1. g[S] = Step(f[S \ {m + 1}], s[m + 1])
        BY <3>2, Zenon
      <4>2. Max(S) = m + 1 /\ S \ {m + 1} \in SUBSET T
        BY <3>2, <2>3
      <4>3. S \ {m + 1} \in SUBSET U
        BY <4>2, <2>2
      <4>4. g[S \ {m + 1}] = f[S \ {m + 1}]
        BY <4>2, <4>3, Zenon
      <4>5. S # {}
        BY <3>2
      <4> QED BY <4>1, <4>2, <4>4, <4>5, Zenon
    <3> QED BY <3>1, <3>2
  <2>6. FoldsOver(g, s, U)
    <3> HIDE DEF T, U
    <3>1. g = [S \in SUBSET U |-> g[S]]
      BY Zenon
    <3> HIDE DEF g
    <3> QED BY <2>5, <3>1, Zenon DEF FoldsOver
  <2> QED BY <2>6
<1>3. \A m \in Nat : m \in Q
  <2> HIDE DEF Q
  <2> QED BY <1>1, <1>2, SetInduction
<1> QED BY <1>3

\* The values of the first k digits.
Values(v, s) ==
  /\ v[0] = 0
  /\ \A k \in 1..Len(s) : v[k] = Step(v[k - 1], s[k])

LEMMA FoldLeftValues ==
  ASSUME NEW s, Len(s) \in Nat, DOMAIN s = 1..Len(s)
  PROVE  \E v : /\ Values(v, s)
                /\ FoldLeft(LAMBDA m, c : m * 10 + DigitOf(c), 0, s) = v[Len(s)]
<1> DEFINE n == Len(s)
           f == CHOOSE g : FoldsOver(g, s, 1..n)
           v == [k \in 0..n |-> f[1..k]]
<1>1. FoldsOver(f, s, 1..n)
  BY FoldsExists
<1>2. FoldLeft(LAMBDA m, c : m * 10 + DigitOf(c), 0, s) = f[1..n]
  <2>1. FoldLeft(LAMBDA m, c : m * 10 + DigitOf(c), 0, s) = f[DOMAIN s]
    BY Zenon DEF FoldLeft, MapThenFoldSet, FoldsOver, Step
  <2> QED BY <2>1
<1> HIDE DEF f
<1>3. v[0] = 0
  <2>1. 1..0 = {} /\ 1..0 \in SUBSET (1..n) /\ 0 \in 0..n
    OBVIOUS
  <2>2. v[0] = f[1..0]
    BY <2>1
  <2>3. f[1..0] = 0
    <3> HIDE DEF n
    <3> QED BY <1>1, <2>1, FoldsAt
  <2> QED BY <2>2, <2>3
<1>4. ASSUME NEW k \in 1..n
      PROVE  v[k] = Step(v[k - 1], s[k])
  <2>1. /\ 1..k \in SUBSET (1..n) /\ 1..k # {} /\ (1..k) \ {k} = 1..(k - 1)
        /\ k \in 0..n /\ k - 1 \in 0..n
    <3>1. k \in Nat /\ k >= 1 /\ k <= n /\ n \in Nat
      OBVIOUS
    <3> HIDE DEF v, n
    <3>2. (1..k) \ {k} = 1..(k - 1)
      BY <3>1
    <3>3. 1..k \in SUBSET (1..n) /\ 1..k # {}
      <4>1. \A x \in 1..k : x \in 1..n
        BY <3>1
      <4>2. 1 \in 1..k
        BY <3>1
      <4> QED BY <4>1, <4>2, Zenon
    <3>4. k \in 0..n /\ k - 1 \in 0..n
      BY <3>1
    <3> QED BY <3>2, <3>3, <3>4
  <2>2. Max(1..k) = k
    <3>1. k \in 1..k /\ 1..k \subseteq Int /\ \A x \in 1..k : x <= k
      OBVIOUS
    <3> QED BY <3>1, MaxIs, Zenon
  <2>3. f[1..k] = Step(f[(1..k) \ {Max(1..k)}], s[Max(1..k)])
    <3> DEFINE T == 1..n
               S == 1..k
    <3>1. FoldsOver(f, s, T) /\ S \in SUBSET T /\ S # {}
      BY <1>1, <2>1
    <3> HIDE DEF T, S
    <3>2. f[S] = Step(f[S \ {Max(S)}], s[Max(S)])
      BY <3>1, FoldsAt
    <3> QED BY <3>2 DEF S
  <2>4. v[k] = f[1..k] /\ v[k - 1] = f[1..(k - 1)]
    BY <2>1
  <2> QED BY <2>1, <2>2, <2>3, <2>4, Zenon
<1>5. v[n] = f[1..n]
  BY SMT
<1> HIDE DEF v
<1> QED BY <1>2, <1>3, <1>4, <1>5, Zenon DEF Values

LEMMA NumberOfType ==
  ASSUME NEW s, Len(s) \in Nat, DOMAIN s = 1..Len(s),
         \A k \in 1..Len(s) : IsDigit(s[k])
  PROVE  NumberOf(s) \in 0..NumberCap
<1>1. PICK v : /\ Values(v, s)
               /\ FoldLeft(LAMBDA m, c : m * 10 + DigitOf(c), 0, s) = v[Len(s)]
  BY FoldLeftValues
<1>0. v[0] = 0 /\ \A k \in 1..Len(s) : v[k] = Step(v[k - 1], s[k])
  BY <1>1, Zenon DEF Values
<1>2. \A k \in 1..Len(s) : v[k] = v[k - 1] * 10 + DigitOf(s[k])
  BY <1>0 DEF Step
<1>3. \A k \in 1..Len(s) : DigitOf(s[k]) \in Nat
  BY DigitOfType
<1> DEFINE S == {k \in Nat : k <= Len(s) => v[k] \in Nat}
<1>4. 0 \in S
  BY <1>0
<1>5. ASSUME NEW k \in Nat, k \in S
      PROVE  k + 1 \in S
  <2> SUFFICES ASSUME k + 1 <= Len(s) PROVE v[k + 1] \in Nat
    OBVIOUS
  <2>1. k + 1 \in 1..Len(s) /\ (k + 1) - 1 = k /\ v[k] \in Nat
    BY <1>5
  <2>2. v[k + 1] = v[k] * 10 + DigitOf(s[k + 1]) /\ DigitOf(s[k + 1]) \in Nat
    BY <1>2, <1>3, <2>1
  <2> QED BY <2>1, <2>2
<1>6. \A k \in Nat : k \in S
  <2> HIDE DEF S
  <2> QED BY <1>4, <1>5, SetInduction
<1>7. v[Len(s)] \in Nat
  BY <1>6
<1>8. NumberOf(s) = IF Len(s) > 9 THEN NumberCap
                    ELSE Least(v[Len(s)], NumberCap)
  BY <1>1, Zenon DEF NumberOf
<1>10. NumberCap \in Nat
  BY DEF NumberCap
<1>9. \A a, b \in Nat : Least(a, b) \in 0..b
  BY DEF Least
<1>11. NumberOf(s) = NumberCap \/ NumberOf(s) = Least(v[Len(s)], NumberCap)
  BY <1>8, Zenon
<1>12. Least(v[Len(s)], NumberCap) \in 0..NumberCap
  BY <1>7, <1>9, <1>10
<1>13. NumberCap \in 0..NumberCap
  BY <1>10
<1> QED BY <1>11, <1>12, <1>13, Zenon

LEMMA Tens ==
  ASSUME NEW n \in Nat
  PROVE  /\ n \div 1 = n
         /\ (n \div 10) * 10 + (n % 10) = n
         /\ n \div 100 = (n \div 10) \div 10
         /\ n \div 1000 = (n \div 100) \div 10
         /\ n \div 10000 = (n \div 1000) \div 10
         /\ n < 10 => n \div 10 = 0
         /\ n < 100 => n \div 100 = 0
         /\ n < 1000 => n \div 1000 = 0
         /\ n < 10000 => n \div 10000 = 0
         /\ n < 100000 => n \div 100000 = 0
         /\ n \div 10 \in Nat /\ n \div 100 \in Nat
         /\ n \div 1000 \in Nat /\ n \div 10000 \in Nat
<1>1. n \div 1 = n
  OBVIOUS
<1>2. (n \div 10) * 10 + (n % 10) = n
  OBVIOUS
<1>3. n \div 100 = (n \div 10) \div 10
  OBVIOUS
<1>4. n \div 1000 = (n \div 100) \div 10
  OBVIOUS
<1>5. n \div 10000 = (n \div 1000) \div 10
  OBVIOUS
<1>6. n < 10 => n \div 10 = 0
  OBVIOUS
<1>7. n < 100 => n \div 100 = 0
  OBVIOUS
<1>8. n < 1000 => n \div 1000 = 0
  OBVIOUS
<1>9. n < 10000 => n \div 10000 = 0
  OBVIOUS
<1>10. n < 100000 => n \div 100000 = 0
  OBVIOUS
<1>11. /\ n \div 10 \in Nat /\ n \div 100 \in Nat
       /\ n \div 1000 \in Nat /\ n \div 10000 \in Nat
  OBVIOUS
<1> QED BY <1>1, <1>2, <1>3, <1>4, <1>5, <1>6, <1>7, <1>8, <1>9, <1>10, <1>11

\* Decimal and NumberOf undo each other.
LEMMA NumberOfDecimal ==
  ASSUME NEW n \in Nat, n < NumberCap
  PROVE  /\ NumberOf(Decimal(n)) = n
         /\ Len(Decimal(n)) \in 1..5
         /\ Len(Decimal(n)) >= 3 => n >= 100
         /\ DOMAIN Decimal(n) = 1..Len(Decimal(n))
         /\ \A i \in 1..Len(Decimal(n)) : IsDigit(Decimal(n)[i])
<1> DEFINE k == DigitCount(n)
           D == Decimal(n)
           Unit(i) == PowersOf10[k + 1 - i] \div 10
<1>1. n < 100000 /\ n < Unrepresentable
  BY SMT DEF NumberCap, Unrepresentable
<1>2. k \in 1..9 /\ n < PowersOf10[k] /\ (k > 1 => n >= PowersOf10[k - 1])
  <2> DEFINE P(j) == n < PowersOf10[j] /\ (j > 1 => n >= PowersOf10[j - 1])
  <2>1. \E j \in 1..9 : P(j)
    <3>1. CASE n < 10 BY <3>1, SMT DEF PowersOf10
    <3>2. CASE n >= 10 /\ n < 100
      <4> P(2) BY <3>2, SMT DEF PowersOf10
      <4> QED BY SMT
    <3>3. CASE n >= 100 /\ n < 1000
      <4> P(3) BY <3>3, SMT DEF PowersOf10
      <4> QED BY SMT
    <3>4. CASE n >= 1000 /\ n < 10000
      <4> P(4) BY <3>4, SMT DEF PowersOf10
      <4> QED BY SMT
    <3>5. CASE n >= 10000 /\ n < 100000
      <4> P(5) BY <3>5, SMT DEF PowersOf10
      <4> QED BY SMT
    <3> QED BY <1>1, <3>1, <3>2, <3>3, <3>4, <3>5, SMT
  <2> HIDE DEF P
  <2>2. P(CHOOSE j \in 1..9 : P(j)) /\ (CHOOSE j \in 1..9 : P(j)) \in 1..9
    BY <2>1
  <2> QED BY <2>2 DEF P, DigitCount
<1>3. k \in 1..5 /\ (k >= 3 => n >= 100)
  BY <1>1, <1>2, SMT DEF PowersOf10
<1>4. D = [i \in 1..k |-> Numerals[((n \div Unit(i)) % 10) + 1]]
  BY DEF Decimal
<1>5. Len(D) = k /\ DOMAIN D = 1..k
  <2> HIDE DEF k
  <2> QED BY <1>2, <1>4
<1>6. \A i \in 1..k : Unit(i) \in Nat \ {0}
  BY <1>3, SMT DEF PowersOf10
<1>7. \A i \in 1..k : (n \div Unit(i)) \in Nat
  <2> HIDE DEF Unit, k
  <2>1. \A d \in Nat \ {0} : (n \div d) \in Nat
    OBVIOUS
  <2> QED BY <1>6, <2>1
<1>8. \A i \in 1..k : /\ IsDigit(D[i])
                     /\ DigitOf(D[i]) = (n \div Unit(i)) % 10
  <2> SUFFICES ASSUME NEW i \in 1..k
               PROVE  IsDigit(D[i]) /\ DigitOf(D[i]) = (n \div Unit(i)) % 10
    OBVIOUS
  <2> DEFINE m == n \div Unit(i)
  <2>1. m \in Nat
    BY <1>7
  <2>2. D[i] = Numerals[(m % 10) + 1]
    BY <1>4
  <2> HIDE DEF m
  <2>3. (m % 10) + 1 \in 1..10 /\ ((m % 10) + 1) - 1 = m % 10
    BY <2>1
  <2>4. /\ IsDigit(Numerals[(m % 10) + 1])
        /\ DigitOf(Numerals[(m % 10) + 1]) = ((m % 10) + 1) - 1
    BY <2>3, DigitOfNumeral, NumeralIsDigit
  <2> QED BY <2>2, <2>3, <2>4 DEF m
<1>9. PICK v : /\ Values(v, D)
               /\ FoldLeft(LAMBDA m, c : m * 10 + DigitOf(c), 0, D) = v[Len(D)]
  <2> HIDE DEF D, k
  <2>1. Len(D) \in Nat /\ DOMAIN D = 1..Len(D)
    BY <1>3, <1>5
  <2> QED BY <2>1, FoldLeftValues
<1>10. v[0] = 0 /\ \A i \in 1..k : v[i] = Step(v[i - 1], D[i])
  BY <1>5, <1>9, Zenon DEF Values
<1>11. \A i \in 1..k : v[i] = v[i - 1] * 10 + ((n \div Unit(i)) % 10)
  <2> HIDE DEF D, k, Unit
  <2> QED BY <1>8, <1>10, Zenon DEF Step
<1>12. v[k] = n
  <2> HIDE DEF D
  <2>1. /\ k = 1 => Unit(1) = 1
        /\ k = 2 => Unit(1) = 10 /\ Unit(2) = 1
        /\ k = 3 => Unit(1) = 100 /\ Unit(2) = 10 /\ Unit(3) = 1
        /\ k = 4 => /\ Unit(1) = 1000 /\ Unit(2) = 100 /\ Unit(3) = 10
                    /\ Unit(4) = 1
        /\ k = 5 => /\ Unit(1) = 10000 /\ Unit(2) = 1000 /\ Unit(3) = 100
                    /\ Unit(4) = 10 /\ Unit(5) = 1
    BY SMT DEF PowersOf10
  <2>2. /\ k = 1 => n < 10
        /\ k = 2 => n < 100
        /\ k = 3 => n < 1000
        /\ k = 4 => n < 10000
    BY <1>2, SMT DEF PowersOf10
  <2>3. k \in 1..5
    BY <1>3
  <2> HIDE DEF k, Unit
  <2>4. (n \div Unit(1)) < 10
    <3>1. /\ n < 10 => n \div 1 < 10
          /\ n < 100 => n \div 10 < 10
          /\ n < 1000 => n \div 100 < 10
          /\ n < 10000 => n \div 1000 < 10
          /\ n < 100000 => n \div 10000 < 10
      OBVIOUS
    <3> QED BY <1>1, <2>1, <2>2, <2>3, <3>1
  <2>5. \A i \in 2..k : n \div Unit(i - 1) = (n \div Unit(i)) \div 10
    <3>1. /\ n \div 10 = (n \div 1) \div 10
          /\ n \div 100 = (n \div 10) \div 10
          /\ n \div 1000 = (n \div 100) \div 10
          /\ n \div 10000 = (n \div 1000) \div 10
      BY Tens
    <3> SUFFICES ASSUME NEW i \in 2..k
                 PROVE  n \div Unit(i - 1) = (n \div Unit(i)) \div 10
      OBVIOUS
    <3>2. \/ Unit(i) = 1 /\ Unit(i - 1) = 10
          \/ Unit(i) = 10 /\ Unit(i - 1) = 100
          \/ Unit(i) = 100 /\ Unit(i - 1) = 1000
          \/ Unit(i) = 1000 /\ Unit(i - 1) = 10000
      BY <2>1, <2>3
    <3>3. CASE Unit(i) = 1 /\ Unit(i - 1) = 10
      BY <3>1, <3>3
    <3>4. CASE Unit(i) = 10 /\ Unit(i - 1) = 100
      BY <3>1, <3>4
    <3>5. CASE Unit(i) = 100 /\ Unit(i - 1) = 1000
      BY <3>1, <3>5
    <3>6. CASE Unit(i) = 1000 /\ Unit(i - 1) = 10000
      BY <3>1, <3>6
    <3> QED BY <3>2, <3>3, <3>4, <3>5, <3>6
  <2>6. v[1] = n \div Unit(1)
    <3>1. 1 \in 1..k /\ 1 - 1 = 0
      BY <2>3
    <3>2. v[1] = v[0] * 10 + ((n \div Unit(1)) % 10)
      BY <1>11, <3>1
    <3>3. \A a \in Nat : a < 10 => 0 * 10 + (a % 10) = a
      OBVIOUS
    <3> QED BY <1>7, <1>10, <2>4, <3>1, <3>2, <3>3, Zenon
  <2>7. ASSUME NEW i \in 2..k, v[i - 1] = n \div Unit(i - 1)
        PROVE  v[i] = n \div Unit(i)
    <3>1. i \in 1..k /\ i - 1 \in 1..k
      BY <2>3
    <3>2. \A a, b \in Nat : a = b \div 10 => a * 10 + (b % 10) = b
      BY Tens
    <3>3. v[i] = (n \div Unit(i - 1)) * 10 + ((n \div Unit(i)) % 10)
      BY <1>11, <2>7, <3>1, Zenon
    <3> QED BY <1>7, <2>5, <3>1, <3>2, <3>3, Zenon
  <2>8. v[k] = n \div Unit(k)
    <3>1. k >= 2 => v[2] = n \div Unit(2)
      BY <2>3, <2>6, <2>7
    <3>2. k >= 3 => v[3] = n \div Unit(3)
      BY <2>3, <2>7, <3>1
    <3>3. k >= 4 => v[4] = n \div Unit(4)
      BY <2>3, <2>7, <3>2
    <3>4. k >= 5 => v[5] = n \div Unit(5)
      BY <2>3, <2>7, <3>3
    <3> QED BY <2>3, <2>6, <3>1, <3>2, <3>3, <3>4
  <2>9. Unit(k) = 1 /\ n \div 1 = n
    BY <2>1, <2>3, Tens
  <2> QED BY <2>8, <2>9
<1>13. NumberOf(D) = n
  <2>1. NumberOf(D) = IF Len(D) > 9 THEN NumberCap
                      ELSE Least(v[Len(D)], NumberCap)
    BY <1>9, Zenon DEF NumberOf
  <2>2. ~(Len(D) > 9) /\ v[Len(D)] = n
    BY <1>3, <1>5, <1>12
  <2>3. NumberOf(D) = Least(n, NumberCap)
    BY <2>1, <2>2, Zenon
  <2> QED BY <1>1, <2>3 DEF Least, NumberCap
<1> QED
  BY <1>3, <1>5, <1>8, <1>13

-----------------------------------------------------------------------------
\* The messages.

Byte == (STRING \cup {NUL, Colon, Comma}) \cup {Numerals[i] : i \in 1..10}

Size(l)   == Len(Body(l))
Places(l) == Len(Decimal(Size(l)))

LEMMA ConcatLemma ==
  ASSUME NEW S, NEW s \in Seq(S), NEW t \in Seq(S)
  PROVE  /\ s \o t \in Seq(S)
         /\ Len(s \o t) = Len(s) + Len(t)
         /\ Len(s) \in Nat /\ Len(t) \in Nat
         /\ \A i \in 1..Len(s) : (s \o t)[i] = s[i]
         /\ \A i \in 1..Len(t) : (s \o t)[Len(s) + i] = t[i]
OBVIOUS

LEMMA ByteConcat ==
  \A x, y \in Seq(Byte) :
    /\ x \o y \in Seq(Byte) /\ Len(x \o y) = Len(x) + Len(y)
    /\ \A i \in 1..Len(x) : (x \o y)[i] = x[i]
    /\ \A i \in 1..Len(y) : (x \o y)[Len(x) + i] = y[i]
BY ConcatLemma

LEMMA ListType ==
  ASSUME NEW l \in Lists
  PROVE  /\ l \in Seq(Seq(STRING \ {NUL}))
         /\ Body(l) \in Seq(Byte)
         /\ Size(l) \in Nat /\ Size(l) < NumberCap
<1>1. l \in Seq(Seq(STRING \ {NUL})) /\ Size(l) < NumberCap
  BY ListsAssumption DEF Size
<1>2. Body(l) \in Seq((STRING \ {NUL}) \cup {NUL})
  BY <1>1, BodyType
<1>3. (STRING \ {NUL}) \cup {NUL} \subseteq Byte
  BY DEF Byte
<1>4. Body(l) \in Seq(Byte)
  BY <1>2, <1>3, SeqMonotonic
<1> QED BY <1>1, <1>4, LenProperties DEF Size

\* Digits, a colon, the body, a comma.
LEMMA Shape ==
  ASSUME NEW l \in Lists
  PROVE  /\ Places(l) \in 1..5 /\ (Places(l) >= 3 => Size(l) >= 100)
         /\ Wire[l] \in Seq(Byte)
         /\ Len(Wire[l]) = Places(l) + Size(l) + 2
         /\ \A i \in 1..Places(l) : /\ Wire[l][i] = Decimal(Size(l))[i]
                                    /\ IsDigit(Wire[l][i])
         /\ Wire[l][Places(l) + 1] = Colon
         /\ \A i \in 1..Size(l) : Wire[l][Places(l) + 1 + i] = Body(l)[i]
         /\ Wire[l][Places(l) + Size(l) + 2] = Comma
<1> DEFINE D == Decimal(Size(l))
           B == Body(l)
           p == Places(l)
           n == Size(l)
<1>1. n \in Nat /\ n < NumberCap /\ B \in Seq(Byte)
  BY ListType
<1>2. /\ p \in 1..5 /\ (p >= 3 => n >= 100)
      /\ \A i \in 1..p : IsDigit(D[i])
  <2> HIDE DEF n
  <2> QED BY <1>1, NumberOfDecimal DEF Places, n
<1>3. D \in Seq(Byte)
  <2>1. n < Unrepresentable
    BY <1>1 DEF NumberCap, Unrepresentable
  <2>2. D \in Seq({Numerals[m] : m \in 1..10})
    BY <1>1, <2>1, DecimalLength
  <2>3. {Numerals[m] : m \in 1..10} \subseteq Byte
    BY DEF Byte
  <2> QED BY <2>2, <2>3, SeqMonotonic
<1>4. Wire[l] = ((D \o <<Colon>>) \o B) \o <<Comma>>
  BY DEF Wire, Encode, Size
<1>5. /\ <<Colon>> \in Seq(Byte) /\ Len(<<Colon>>) = 1 /\ <<Colon>>[1] = Colon
      /\ <<Comma>> \in Seq(Byte) /\ Len(<<Comma>>) = 1 /\ <<Comma>>[1] = Comma
  BY DEF Byte
<1> DEFINE s == D \o <<Colon>>
           t == s \o B
           w == t \o <<Comma>>
<1>6. Len(D) = p /\ Len(B) = n
  BY DEF Places, Size
<1> HIDE DEF D, B, p, n
<1>7. /\ s \in Seq(Byte) /\ Len(s) = p + 1
      /\ \A i \in 1..p : s[i] = D[i]
      /\ s[p + 1] = Colon
  BY <1>3, <1>5, <1>6, ConcatLemma
<1> HIDE DEF s
<1>8. /\ t \in Seq(Byte) /\ Len(t) = p + 1 + n
      /\ \A i \in 1..(p + 1) : t[i] = s[i]
      /\ \A i \in 1..n : t[p + 1 + i] = B[i]
  <2>1. /\ t \in Seq(Byte) /\ Len(t) = Len(s) + Len(B)
        /\ \A i \in 1..Len(s) : t[i] = s[i]
        /\ \A i \in 1..Len(B) : t[Len(s) + i] = B[i]
    <3>1. s \in Seq(Byte) /\ B \in Seq(Byte)
      BY <1>1, <1>7
    <3> QED BY <3>1, ByteConcat, Zenon
  <2> QED BY <1>6, <1>7, <2>1, Zenon
<1> HIDE DEF t
<1>9. /\ w \in Seq(Byte) /\ Len(w) = p + 1 + n + 1
      /\ \A i \in 1..(p + 1 + n) : w[i] = t[i]
      /\ w[p + 1 + n + 1] = Comma
  BY <1>5, <1>8, ConcatLemma
<1>10. Wire[l] = w
  BY <1>4 DEF s, t
<1> HIDE DEF w
<1>11. p + 1 + n + 1 = p + n + 2 /\ p + 1 \in 1..(p + 1 + n)
  BY <1>1, <1>2
<1>12. \A i \in 1..p : i \in 1..(p + 1) /\ i \in 1..(p + 1 + n)
  BY <1>1, <1>2
<1>13. \A i \in 1..p : w[i] = D[i]
  BY <1>7, <1>8, <1>9, <1>12
<1>14. w[p + 1] = Colon
  <2>1. p + 1 \in 1..(p + 1)
    BY <1>2
  <2> QED BY <1>7, <1>8, <1>9, <1>11, <2>1
<1>15. \A i \in 1..n : w[p + 1 + i] = B[i]
  <2>1. \A i \in 1..n : p + 1 + i \in 1..(p + 1 + n)
    BY <1>1, <1>2
  <2> QED BY <1>8, <1>9, <2>1
<1>16. Len(w) = p + n + 2 /\ w[p + n + 2] = Comma
  BY <1>9, <1>11
<1> QED
  BY <1>2, <1>9, <1>10, <1>13, <1>14, <1>15, <1>16 DEF p, n, D, B

StreamOf(l) == Wire[l] \o HttpBody

LEMMA StreamShape ==
  ASSUME NEW l \in Lists
  PROVE  /\ StreamOf(l) \in Seq(Byte)
         /\ Len(StreamOf(l)) \in Nat /\ Len(Wire[l]) \in Nat
         /\ Len(Wire[l]) <= Len(StreamOf(l))
         /\ \A i \in 1..Len(Wire[l]) : StreamOf(l)[i] = Wire[l][i]
<1> DEFINE w == Wire[l]
<1>1. w \in Seq(Byte)
  BY Shape
<1>2. HttpBody \in Seq(Byte)
  <2>1. STRING \subseteq Byte
    BY DEF Byte
  <2> QED BY <2>1, BytesAssumption, SeqMonotonic
<1> HIDE DEF w
<1>3. /\ w \o HttpBody \in Seq(Byte)
      /\ Len(w \o HttpBody) = Len(w) + Len(HttpBody)
      /\ Len(w) \in Nat /\ Len(HttpBody) \in Nat
      /\ \A i \in 1..Len(w) : (w \o HttpBody)[i] = w[i]
  BY <1>1, <1>2, ConcatLemma
<1>4. StreamOf(l) = w \o HttpBody
  BY DEF StreamOf, w
<1>5. Len(w \o HttpBody) \in Nat /\ Len(w) <= Len(w \o HttpBody)
  BY <1>3
<1> QED BY <1>3, <1>4, <1>5 DEF w

\* s is how w begins.
Begins(s, w) == Len(s) <= Len(w) /\ \A i \in 1..Len(s) : s[i] = w[i]

LEMMA BeginsSubSeq ==
  ASSUME NEW S, NEW w \in Seq(S), NEW n \in Nat, n <= Len(w)
  PROVE  /\ SubSeq(w, 1, n) \in Seq(S)
         /\ Len(SubSeq(w, 1, n)) = n
         /\ \A i \in 1..n : SubSeq(w, 1, n)[i] = w[i]
OBVIOUS

\* The digits of what a message begins with: all of it, or all its digits.
LEMMA DigitsOfBeginning ==
  ASSUME NEW l \in Lists, NEW buf \in Seq(Byte), Begins(buf, Wire[l]),
         NEW k \in 0..Len(buf), StartsWithDigits(buf, k)
  PROVE  /\ Len(buf) <= Places(l) => k = Len(buf)
         /\ Len(buf) > Places(l) =>
              /\ k = Places(l) /\ buf[k + 1] = Colon
              /\ NumberOf(SubSeq(buf, 1, k)) = Size(l)
<1> DEFINE n == Len(buf)
           p == Places(l)
           w == Wire[l]
<1>1. /\ p \in 1..5 /\ w[p + 1] = Colon
      /\ \A i \in 1..p : w[i] = Decimal(Size(l))[i] /\ IsDigit(w[i])
  BY Shape
<1>2. n \in Nat /\ k \in 0..n /\ \A i \in 1..n : buf[i] = w[i]
  BY LenProperties DEF Begins
<1>3. /\ \A i \in 1..k : IsDigit(buf[i])
      /\ k < n => ~IsDigit(buf[k + 1])
  BY DEF StartsWithDigits
<1>4. ~IsDigit(Colon)
  BY NoDigits
<1> HIDE DEF n, p, w
<1>5. ASSUME n <= p
      PROVE  k = n
  <2> SUFFICES ASSUME k < n PROVE FALSE
    BY <1>2
  <2>1. k + 1 \in 1..n /\ k + 1 \in 1..p
    BY <1>1, <1>2, <1>5
  <2> QED BY <1>1, <1>2, <1>3, <2>1
<1>6. ASSUME n > p
      PROVE  k = p
  <2>1. p + 1 \in 1..n
    BY <1>1, <1>2, <1>6
  <2>2. ~IsDigit(buf[p + 1])
    BY <1>1, <1>2, <1>4, <2>1
  <2>3. ~(p + 1 \in 1..k)
    BY <1>3, <2>2
  <2>4. ~(k < p)
    <3> SUFFICES ASSUME k < p PROVE FALSE
      OBVIOUS
    <3>1. k + 1 \in 1..n /\ k + 1 \in 1..p /\ k < n
      BY <1>1, <1>2, <1>6
    <3> QED BY <1>1, <1>2, <1>3, <3>1
  <2> QED BY <1>1, <1>2, <2>3, <2>4
<1>7. ASSUME n > p
      PROVE  buf[p + 1] = Colon /\ SubSeq(buf, 1, p) = Decimal(Size(l))
  <2>1. p + 1 \in 1..n /\ p \in Nat /\ p <= n
    BY <1>1, <1>2, <1>7
  <2>2. buf[p + 1] = Colon
    BY <1>1, <1>2, <2>1
  <2>3. /\ SubSeq(buf, 1, p) \in Seq(Byte) /\ Len(SubSeq(buf, 1, p)) = p
        /\ \A i \in 1..p : SubSeq(buf, 1, p)[i] = buf[i]
    BY <2>1, BeginsSubSeq DEF n
  <2>4. \A i \in 1..p : buf[i] = Decimal(Size(l))[i]
    <3>1. \A i \in 1..p : i \in 1..n
      BY <2>1, <1>2
    <3> QED BY <1>1, <1>2, <3>1
  <2>5. /\ Decimal(Size(l)) \in Seq({Numerals[m] : m \in 1..10})
        /\ Len(Decimal(Size(l))) = p
    <3>1. Size(l) \in Nat /\ Size(l) < NumberCap
      BY ListType
    <3>2. Size(l) < Unrepresentable
      BY <3>1 DEF NumberCap, Unrepresentable
    <3>3. Decimal(Size(l)) \in Seq({Numerals[m] : m \in 1..10})
      BY <3>1, <3>2, DecimalLength
    <3> QED BY <3>3 DEF p, Places
  <2>6. Decimal(Size(l)) \in Seq(Byte)
    <3>1. {Numerals[m] : m \in 1..10} \subseteq Byte
      BY DEF Byte
    <3> QED BY <2>5, <3>1, SeqMonotonic
  <2>7. \A i \in 1..p : SubSeq(buf, 1, p)[i] = Decimal(Size(l))[i]
    BY <2>3, <2>4
  <2>8. \A s, t \in Seq(Byte) :
          Len(s) = Len(t) /\ (\A i \in 1..Len(s) : s[i] = t[i]) => s = t
    BY SeqEqual
  <2>9. SubSeq(buf, 1, p) = Decimal(Size(l))
    BY <2>3, <2>5, <2>6, <2>7, <2>8, Zenon
  <2> QED BY <2>2, <2>9
<1>8. NumberOf(Decimal(Size(l))) = Size(l)
  BY ListType, NumberOfDecimal
<1> QED
  BY <1>5, <1>6, <1>7, <1>8, Zenon DEF n, p

LEMMA ColonOfBeginning ==
  ASSUME NEW l \in Lists, NEW buf \in Seq(Byte), Begins(buf, Wire[l])
  PROVE  HasColon(buf) <=> Len(buf) > Places(l)
<1> DEFINE n == Len(buf)
           p == Places(l)
           w == Wire[l]
<1>1. /\ p \in 1..5 /\ w[p + 1] = Colon
      /\ \A i \in 1..p : IsDigit(w[i])
  BY Shape
<1>2. n \in Nat /\ DOMAIN buf = 1..n /\ \A i \in 1..n : buf[i] = w[i]
  BY LenProperties DEF Begins
<1>3. ~IsDigit(Colon) /\ ~IsDigit(NUL) /\ Colon # NUL
  BY NoDigits
<1> HIDE DEF n, p, w
<1>4. ASSUME n <= p
      PROVE  ~HasColon(buf)
  <2>1. \A i \in 1..n : i \in 1..p
    BY <1>1, <1>2, <1>4
  <2> QED BY <1>1, <1>2, <1>3, <2>1 DEF HasColon
<1>5. ASSUME n > p
      PROVE  HasColon(buf)
  <2>1. p + 1 \in 1..n
    BY <1>1, <1>2, <1>5
  <2>2. buf[p + 1] = Colon
    BY <1>1, <1>2, <2>1
  <2>3. ASSUME NEW j \in 1..(p + 1)
        PROVE  buf[j] # NUL
    <3>1. j \in 1..n /\ (j \in 1..p \/ j = p + 1)
      BY <1>1, <1>2, <1>5
    <3> QED BY <1>1, <1>2, <1>3, <2>2, <3>1
  <2> QED BY <1>2, <2>1, <2>2, <2>3 DEF HasColon
<1>6. n > p \/ n <= p
  BY <1>1, <1>2
<1> QED BY <1>4, <1>5, <1>6, <1>1, <1>2 DEF n, p

-----------------------------------------------------------------------------
\* Where the reader is in the message.

\* On a pipe read() returns what is there, and a mode that asks for several
\* bytes of the length at once does not look at how many have come.
FirstReadIsWhole == \A r \in Readers : r[1] = "pipe" => r[2] # "min_size"

AtEnd == closed /\ pos = sentTo

Typed ==
  /\ TypeOK
  /\ pos \in Nat /\ drawn \in Nat /\ sentTo \in Nat /\ garbage \in Garbage
  /\ source # "stream" => drawn = pos
  /\ preamble \in Seq(Byte)

\* One read, of InitReadSize bytes, has brought digits and nothing else.
DigitsOnly ==
  /\ pos = InitReadSize /\ pos <= Places(list)
  /\ Begins(preamble, Message)

\* The length is known, and so is where the reader is.
LengthKnown == h_size = Size(list) /\ pos = Places(list) + 1 + next_p

Position ==
  /\ pos <= Len(Message)
  /\ pc \in {"digits", "init", "more"} => next_p = 0
  /\ pc = "digits" => /\ pos <= Places(list) /\ Len(preamble) = pos
                      /\ Begins(preamble, Message)
  /\ pc = "init" => pos = 0 /\ mode = "min_size"
  /\ pc = "init" => InitReadSize <= Len(Message)
  /\ pc = "more" => /\ mode = "min_size" /\ Len(preamble) = InitReadSize
                    /\ DigitsOnly \/ AtEnd
  /\ pc = "rest" => LengthKnown \/ AtEnd
  /\ retval = "SUCCESS" => pos = Len(Message) \/ AtEnd

PInv == Typed /\ Position

LEMMA ListFacts ==
  ASSUME Typed
  PROVE  /\ list \in Lists /\ <<source, mode, min_length>> \in Readers
         /\ Message = Wire[list] /\ Stream = StreamOf(list)
         /\ Len(Message) \in Nat /\ Len(Stream) \in Nat
         /\ Len(Message) <= Len(Stream)
         /\ Stream \in Seq(Byte) /\ Message \in Seq(Byte)
         /\ \A i \in 1..Len(Message) : Stream[i] = Message[i]
         /\ pos \in Nat /\ sentTo \in Nat /\ pos <= sentTo
         /\ sentTo <= Len(Stream)
         /\ drawn \in Nat /\ pos <= drawn /\ drawn <= sentTo
<1>1. list \in Lists /\ <<source, mode, min_length>> \in Readers
  BY DEF Typed, TypeOK
<1>2. Message = Wire[list] /\ Stream = StreamOf(list)
  BY DEF Message, Stream, StreamOf
<1>3. /\ Len(Message) \in Nat /\ Len(Stream) \in Nat
      /\ Len(Message) <= Len(Stream)
      /\ Stream \in Seq(Byte) /\ Message \in Seq(Byte)
      /\ \A i \in 1..Len(Message) : Stream[i] = Message[i]
  BY <1>1, <1>2, StreamShape, Shape, Zenon
<1>4. /\ pos \in Nat /\ sentTo \in Nat /\ pos <= sentTo
      /\ sentTo <= Len(Stream)
      /\ drawn \in Nat /\ pos <= drawn /\ drawn <= sentTo
  BY DEF Typed, TypeOK
<1> QED BY <1>1, <1>2, <1>3, <1>4

\* What a read of n bytes brings.
LEMMA ReadFacts ==
  ASSUME Typed, NEW n \in Nat, Take(n)
  PROVE  /\ Got(n) \in 0..n /\ pos' = pos + Got(n) /\ pos' \in Nat
         /\ pos' <= sentTo
         /\ Got(n) = n \/ pos' = sentTo
         /\ Bytes(n) \in Seq(Byte) /\ Len(Bytes(n)) = Got(n)
         /\ \A i \in 1..Got(n) : Bytes(n)[i] = Stream[pos + i]
         /\ UNCHANGED <<list, source, mode, min_length, garbage, sentTo, closed>>
         /\ Got(n) = n \/ closed \/ (source = "pipe" /\ Got(n) > 0)
         /\ drawn' \in Nat /\ pos' <= drawn' /\ drawn' <= sentTo
         /\ source # "stream" => drawn' = pos'
<1>1. /\ Stream \in Seq(Byte) /\ pos \in Nat /\ sentTo \in Nat /\ pos <= sentTo
      /\ sentTo <= Len(Stream) /\ Len(Stream) \in Nat
  BY ListFacts
<1>2. pos' = pos + Got(n)
  BY DEF Take
<1>3. /\ Got(n) \in 0..n /\ pos + Got(n) <= sentTo /\ pos + Got(n) \in Nat
      /\ Got(n) = n \/ pos + Got(n) = sentTo
  BY <1>1 DEF Got, Least
<1>4. UNCHANGED <<list, source, mode, min_length, garbage, sentTo, closed>>
  BY DEF Take, inputVars, peerVars
<1>5. Got(n) = n \/ closed \/ (source = "pipe" /\ Got(n) > 0)
  BY DEF Take, MayReturn
<1>6. /\ Bytes(n) \in Seq(Byte) /\ Len(Bytes(n)) = Got(n)
      /\ \A i \in 1..Got(n) : Bytes(n)[i] = Stream[pos + i]
  <2> DEFINE g == Got(n)
  <2>1. g \in Nat /\ pos + g <= Len(Stream)
    BY <1>1, <1>3
  <2>2. Bytes(n) = SubSeq(Stream, pos + 1, pos + g)
    BY DEF Bytes
  <2>3. \A S, i, j : S \in Seq(Byte) /\ i \in Nat /\ j \in Nat /\ i + j <= Len(S)
          => /\ SubSeq(S, i + 1, i + j) \in Seq(Byte)
             /\ Len(SubSeq(S, i + 1, i + j)) = j
             /\ \A k \in 1..j : SubSeq(S, i + 1, i + j)[k] = S[i + k]
    OBVIOUS
  <2> HIDE DEF g
  <2>4. Stream \in Seq(Byte) /\ pos \in Nat
    BY <1>1
  <2>5. /\ Bytes(n) \in Seq(Byte) /\ Len(Bytes(n)) = g
        /\ \A i \in 1..g : Bytes(n)[i] = Stream[pos + i]
    <3>1. /\ SubSeq(Stream, pos + 1, pos + g) \in Seq(Byte)
          /\ Len(SubSeq(Stream, pos + 1, pos + g)) = g
          /\ \A i \in 1..g : SubSeq(Stream, pos + 1, pos + g)[i] = Stream[pos + i]
      BY <2>1, <2>3, <2>4
    <3> QED BY <2>2, <3>1, Zenon
  <2> QED BY <2>5 DEF g
<1>7. /\ drawn' \in Nat /\ pos' <= drawn' /\ drawn' <= sentTo
      /\ source # "stream" => drawn' = pos'
  <2>1. drawn' \in IF source # "stream" THEN {pos'}
                   ELSE IF pos' <= drawn THEN {drawn}
                   ELSE pos'..Least(sentTo, pos' + ReadAhead)
    BY DEF Take
  <2>2. /\ drawn \in Nat /\ drawn <= sentTo /\ pos' \in Nat /\ pos' <= sentTo
        /\ sentTo \in Nat
    BY <1>2, <1>3, ListFacts
  <2>3. CASE source # "stream"
    BY <2>1, <2>2, <2>3
  <2>4. CASE source = "stream" /\ pos' <= drawn
    BY <2>1, <2>2, <2>4
  <2>5. CASE source = "stream" /\ ~(pos' <= drawn)
    <3>1. drawn' \in pos'..Least(sentTo, pos' + ReadAhead)
      BY <2>1, <2>5
    <3>2. /\ Least(sentTo, pos' + ReadAhead) \in Nat
          /\ Least(sentTo, pos' + ReadAhead) <= sentTo
      <4>1. \A a, b \in Nat : Least(a, b) \in Nat /\ Least(a, b) <= a
        BY DEF Least
      <4>2. pos' + ReadAhead \in Nat
        <5>1. ReadAhead \in Nat
          BY SizesAssumption, Zenon
        <5>2. \A a, b \in Nat : a + b \in Nat
          OBVIOUS
        <5> QED BY <2>2, <5>1, <5>2, Zenon
      <4> QED BY <2>2, <4>1, <4>2, Zenon
    <3> QED BY <2>2, <2>5, <3>1, <3>2
  <2> QED BY <2>3, <2>4, <2>5
<1> QED BY <1>1, <1>2, <1>3, <1>4, <1>5, <1>6, <1>7, Zenon

LEMMA ParseOutcome ==
  ASSUME NEW buf \in Seq(Byte), Len(buf) <= PREAMBLE_MAX, ParsePreamble(buf)
  PROVE  /\ preamble' = buf /\ h_size' \in 0..NumberCap
         /\ \/ pc' = "rest" /\ retval' = retval /\ next_p' \in 0..PREAMBLE_MAX
            \/ /\ pc' = "done" /\ retval' \in {"MISSING_COLON", "FAULT"}
               /\ next_p' = next_p
<1>1. PICK k \in 0..Len(buf) :
        /\ StartsWithDigits(buf, k)
        /\ preamble' = buf
        /\ h_size' = NumberOf(SubSeq(buf, 1, k))
        /\ IF k < Len(buf) /\ buf[k + 1] = Colon
           THEN /\ mem' = Store(mem, 0, strncpy(SubSeq(buf, k + 2, Len(buf))))
                /\ next_p' = Len(buf) - k - 1
                /\ pc' = "rest"
                /\ UNCHANGED retval
           ELSE /\ \/ Fail("MISSING_COLON")
                   \/ /\ k = PREAMBLE_MAX /\ InitReadSize < PREAMBLE_MAX
                      /\ Fail("FAULT")
                /\ UNCHANGED <<mem, next_p>>
  BY Zenon DEF ParsePreamble
<1>2. Len(buf) \in Nat
  BY LenProperties
<1>3. h_size' \in 0..NumberCap
  <2> DEFINE s == SubSeq(buf, 1, k)
  <2>1. k \in Nat /\ k <= Len(buf)
    BY <1>2
  <2>2. s \in Seq(Byte) /\ Len(s) = k /\ \A i \in 1..k : s[i] = buf[i]
    BY <2>1, BeginsSubSeq
  <2>3. \A i \in 1..k : IsDigit(buf[i])
    BY <1>1, Zenon DEF StartsWithDigits
  <2>4. DOMAIN s = 1..Len(s)
    BY <2>2, LenProperties
  <2>5. \A i \in 1..Len(s) : IsDigit(s[i])
    BY <2>2, <2>3
  <2> HIDE DEF s
  <2>6. NumberOf(s) \in 0..NumberCap
    BY <2>1, <2>2, <2>4, <2>5, NumberOfType
  <2> QED BY <1>1, <2>6, Zenon DEF s
<1>4. CASE k < Len(buf) /\ buf[k + 1] = Colon
  <2>1. next_p' = Len(buf) - k - 1 /\ pc' = "rest" /\ retval' = retval
    BY <1>1, <1>4, Zenon
  <2>2. Len(buf) - k - 1 \in 0..PREAMBLE_MAX
    BY <1>2, <1>4 DEF PREAMBLE_MAX
  <2> QED BY <1>1, <1>3, <2>1, <2>2, Zenon
<1>5. CASE ~(k < Len(buf) /\ buf[k + 1] = Colon)
  <2>1. pc' = "done" /\ retval' \in {"MISSING_COLON", "FAULT"} /\ next_p' = next_p
    BY <1>1, <1>5, Zenon DEF Fail
  <2> QED BY <1>1, <1>3, <2>1, Zenon
<1> QED BY <1>4, <1>5, Zenon

LEMMA ParseBeginning ==
  ASSUME Typed, NEW buf \in Seq(Byte), Begins(buf, Message), ParsePreamble(buf)
  PROVE  /\ Len(buf) <= Places(list) => pc' = "done"
         /\ Len(buf) > Places(list) =>
              /\ h_size' = Size(list)
              /\ next_p' = Len(buf) - Places(list) - 1
              /\ pc' = "rest" /\ retval' = retval
              /\ mem' = Store(mem, 0, strncpy(SubSeq(buf, Places(list) + 2,
                                                     Len(buf))))
<1>1. PICK k \in 0..Len(buf) :
        /\ StartsWithDigits(buf, k)
        /\ preamble' = buf
        /\ h_size' = NumberOf(SubSeq(buf, 1, k))
        /\ IF k < Len(buf) /\ buf[k + 1] = Colon
           THEN /\ mem' = Store(mem, 0, strncpy(SubSeq(buf, k + 2, Len(buf))))
                /\ next_p' = Len(buf) - k - 1
                /\ pc' = "rest"
                /\ UNCHANGED retval
           ELSE /\ \/ Fail("MISSING_COLON")
                   \/ /\ k = PREAMBLE_MAX /\ InitReadSize < PREAMBLE_MAX
                      /\ Fail("FAULT")
                /\ UNCHANGED <<mem, next_p>>
  BY Zenon DEF ParsePreamble
<1>2. list \in Lists /\ Message = Wire[list]
  BY ListFacts
<1>3. /\ Len(buf) <= Places(list) => k = Len(buf)
      /\ Len(buf) > Places(list) =>
           /\ k = Places(list) /\ buf[k + 1] = Colon
           /\ NumberOf(SubSeq(buf, 1, k)) = Size(list)
  <2>1. Begins(buf, Wire[list])
    BY <1>2
  <2> QED BY <1>1, <1>2, <2>1, DigitsOfBeginning, Zenon
<1>4. Len(buf) \in Nat /\ Places(list) \in Nat
  <2>1. Places(list) \in 1..5
    BY <1>2, Shape
  <2> QED BY <2>1, LenProperties
<1>5. ASSUME Len(buf) <= Places(list)
      PROVE  pc' = "done"
  <2>1. ~(k < Len(buf))
    BY <1>3, <1>4, <1>5
  <2> QED BY <1>1, <2>1, Zenon DEF Fail
<1>6. ASSUME Len(buf) > Places(list)
      PROVE  /\ h_size' = Size(list)
             /\ next_p' = Len(buf) - Places(list) - 1
             /\ pc' = "rest" /\ retval' = retval
             /\ mem' = Store(mem, 0, strncpy(SubSeq(buf, Places(list) + 2,
                                                    Len(buf))))
  <2>1. k = Places(list) /\ k < Len(buf) /\ buf[k + 1] = Colon
    BY <1>3, <1>4, <1>6
  <2>2. h_size' = Size(list)
    BY <1>1, <1>3, <1>6, Zenon
  <2>3. /\ mem' = Store(mem, 0, strncpy(SubSeq(buf, k + 2, Len(buf))))
        /\ next_p' = Len(buf) - k - 1
        /\ pc' = "rest" /\ retval' = retval
    BY <1>1, <2>1, Zenon
  <2> QED BY <2>1, <2>2, <2>3, Zenon
<1> QED BY <1>5, <1>6, Zenon

LEMMA DigitsComplete ==
  ASSUME NEW l \in Lists, NEW buf \in Seq(Byte), Begins(buf, Wire[l]),
         Len(buf) = Places(l)
  PROVE  NumberOf(buf) = Size(l)
<1>1. /\ Places(l) \in 1..5
      /\ \A i \in 1..Places(l) : Wire[l][i] = Decimal(Size(l))[i]
  BY Shape
<1>2. \A i \in 1..Places(l) : buf[i] = Decimal(Size(l))[i]
  BY <1>1 DEF Begins
<1>3. Size(l) \in Nat /\ Size(l) < NumberCap /\ Size(l) < Unrepresentable
  BY ListType DEF NumberCap, Unrepresentable
<1>4. Decimal(Size(l)) \in Seq({Numerals[m] : m \in 1..10})
  BY <1>3, DecimalLength
<1>5. {Numerals[m] : m \in 1..10} \subseteq Byte
  BY DEF Byte
<1>6. Decimal(Size(l)) \in Seq(Byte)
  BY <1>4, <1>5, SeqMonotonic
<1>7. Len(Decimal(Size(l))) = Places(l)
  BY DEF Places
<1>8. \A s, t \in Seq(Byte) :
        Len(s) = Len(t) /\ (\A i \in 1..Len(s) : s[i] = t[i]) => s = t
  BY SeqEqual
<1>9. buf = Decimal(Size(l))
  BY <1>2, <1>6, <1>7, <1>8, Zenon
<1> QED BY <1>3, <1>9, NumberOfDecimal

\* How a call goes on: the variables keep their types if what it computes has
\* the right ones.
Continues ==
  \/ pc' \in {"digits", "more", "rest"} /\ retval' = retval
  \/ pc' = "done" /\ retval' \in Codes \ {"none"}

LEMMA TypedStep ==
  ASSUME Typed, pc # "done", NEW n \in Nat, Take(n), Continues,
         preamble' \in Seq(Byte), Len(preamble') <= PREAMBLE_MAX,
         h_size' \in -1..NumberCap, next_p' \in 0..PREAMBLE_MAX
  PROVE  Typed'
<1>1. /\ pos' \in Nat /\ pos' <= sentTo
      /\ UNCHANGED <<list, source, mode, min_length, garbage, sentTo, closed>>
      /\ drawn' \in Nat /\ pos' <= drawn' /\ drawn' <= sentTo
      /\ source # "stream" => drawn' = pos'
  BY ReadFacts
<1>2. Stream' = Stream
  BY <1>1 DEF Stream, Message
<1>3. /\ list' \in Lists /\ <<source', mode', min_length'>> \in Readers
      /\ closed' \in BOOLEAN /\ garbage' \in Garbage
  BY <1>1 DEF Typed, TypeOK
<1>4. /\ 0 <= pos' /\ pos' <= drawn' /\ drawn' <= sentTo' /\ sentTo' <= Len(Stream')
      /\ sentTo' \in Nat
  BY <1>1, <1>2, ListFacts
<1>5. retval = "none"
  BY DEF Typed, TypeOK
<1>6. /\ pc' \in {"digits", "init", "more", "rest", "done"}
      /\ retval' \in Codes
      /\ (pc' = "done") <=> (retval' # "none")
  <2>1. "none" \in Codes
    BY DEF Codes
  <2> QED BY <1>5, <2>1 DEF Continues
<1> QED BY <1>1, <1>3, <1>4, <1>6 DEF Typed, TypeOK

LEMMA PlacesType ==
  ASSUME Typed
  PROVE  /\ Places(list) \in 1..5 /\ Size(list) \in Nat
         /\ Len(Message) = Places(list) + Size(list) + 2
         /\ Places(list) >= 3 => Size(list) >= 100
         /\ Message[Places(list) + 1] = Colon
BY ListFacts, Shape, ListType

LEMMA ReadSizeType ==
  ASSUME Typed
  PROVE  InitReadSize \in 3..11
<1>1. min_length \in Nat
  <2>1. <<source, mode, min_length>> \in SourceKinds \X ModeKinds \X Nat
    BY ListFacts, ReadersAssumption
  <2> QED BY <2>1
<1>2. \A m \in Nat : Least(Most(3, m), 11) \in 3..11
  BY DEF Least, Most
<1> QED BY <1>1, <1>2 DEF InitReadSize, MIN_READ_BUFFER, PREAMBLE_MAX

\* The end of the length, and of a call.
LEMMA RestStep ==
  ASSUME Typed', list' = list, pc' = "rest", pos' <= Len(Message),
         LengthKnown' \/ AtEnd'
  PROVE  Position'
<1>1. Message' = Message
  BY DEF Message
<1>2. retval' # "SUCCESS"
  BY DEF Typed, TypeOK
<1> QED BY <1>1, <1>2 DEF Position

LEMMA DoneStep ==
  ASSUME list' = list, pc' = "done", pos' <= Len(Message),
         retval' = "SUCCESS" => pos' = Len(Message) \/ AtEnd'
  PROVE  Position'
<1>1. Message' = Message
  BY DEF Message
<1> QED BY <1>1 DEF Position

LEMMA InitPosition == Init => PInv
<1> SUFFICES ASSUME Init PROVE PInv
  OBVIOUS
<1>1. list \in Lists /\ garbage \in Garbage
  BY DEF Init
<1>2. <<source, mode, min_length>> \in Readers
  <2>1. PICK r \in Readers : source = r[1] /\ mode = r[2] /\ min_length = r[3]
    BY DEF Init
  <2>2. r \in SourceKinds \X ModeKinds \X Nat
    BY ReadersAssumption
  <2>3. r = <<r[1], r[2], r[3]>>
    BY <2>2
  <2> QED BY <2>1, <2>3
<1>3. /\ sentTo = 0 /\ closed = FALSE /\ pos = 0 /\ drawn = 0 /\ preamble = <<>>
      /\ h_size = 0 /\ next_p = 0 /\ retval = "none"
  BY DEF Init
<1>4. pc = IF mode = "min_size" THEN "init" ELSE "digits"
  BY DEF Init
<1>5. Len(Message) \in Nat /\ Len(Stream) \in Nat /\ Message = Wire[list]
  BY <1>1, StreamShape DEF Message, Stream, StreamOf
<1>6. 0 \in -1..NumberCap /\ 0 \in 0..PREAMBLE_MAX /\ 0 <= PREAMBLE_MAX
  BY DEF NumberCap, PREAMBLE_MAX
<1>7. preamble \in Seq(Byte) /\ Len(preamble) = 0
  BY <1>3, EmptySeq
<1>8. Typed
  <2>1. "none" \in Codes
    BY DEF Codes
  <2>0. closed \in BOOLEAN
    BY <1>3
  <2>2. /\ 0 <= pos /\ pos <= drawn /\ drawn <= sentTo /\ sentTo <= Len(Stream)
        /\ pos \in Nat /\ sentTo \in Nat /\ drawn \in Nat /\ drawn = pos
    BY <1>3, <1>5
  <2>3. pc \in {"digits", "init", "more", "rest", "done"} /\ pc # "done"
    BY <1>4
  <2> QED BY <1>1, <1>2, <1>3, <1>6, <1>7, <2>0, <2>1, <2>2, <2>3 DEF Typed, TypeOK
<1>9. pos <= Places(list) /\ Len(preamble) = pos /\ Begins(preamble, Message)
  BY <1>3, <1>5, <1>7, <1>8, PlacesType DEF Begins
<1>10. mode = "min_size" => InitReadSize <= Len(Message)
  BY <1>5, <1>8, ReadSizeType DEF Init
<1>11. Position
  BY <1>3, <1>4, <1>5, <1>9, <1>10 DEF Position
<1> QED BY <1>8, <1>11 DEF PInv

LEMMA DigitsPreamble ==
  ASSUME PInv, pc = "digits"
  PROVE  /\ preamble \in Seq(Byte) /\ Len(preamble) = pos /\ pos <= Places(list)
         /\ Begins(preamble, Message) /\ next_p = 0
         /\ Len(preamble) <= PREAMBLE_MAX
         /\ NumberOf(preamble) \in 0..NumberCap
<1>1. /\ preamble \in Seq(Byte) /\ Len(preamble) = pos /\ pos <= Places(list)
      /\ Begins(preamble, Message) /\ next_p = 0 /\ Typed
  BY DEF PInv, Position, Typed
<1>2. list \in Lists /\ Message = Wire[list] /\ pos \in Nat
  BY <1>1, ListFacts
<1>3. /\ Places(list) \in 1..5
      /\ \A i \in 1..Places(list) : IsDigit(Wire[list][i])
  BY <1>2, Shape
<1>4. \A i \in 1..Len(preamble) : IsDigit(preamble[i])
  <2>1. \A i \in 1..Len(preamble) : i \in 1..Places(list)
    BY <1>1, <1>2, <1>3
  <2>2. \A i \in 1..Len(preamble) : preamble[i] = Wire[list][i]
    BY <1>1, <1>2 DEF Begins
  <2> QED BY <1>3, <2>1, <2>2
<1>5. Len(preamble) \in Nat /\ DOMAIN preamble = 1..Len(preamble)
  BY <1>1, LenProperties
<1>6. NumberOf(preamble) \in 0..NumberCap
  BY <1>4, <1>5, NumberOfType
<1>7. Len(preamble) <= PREAMBLE_MAX
  BY <1>1, <1>2, <1>3 DEF PREAMBLE_MAX
<1> QED BY <1>1, <1>6, <1>7

\* The end of the digits keeps the types, whatever is behind them.
LEMMA EndOfDigitsOutcome ==
  ASSUME PInv, pc = "digits", NEW c, EndOfDigits(c)
  PROVE  /\ preamble' = preamble /\ next_p' = next_p
         /\ h_size' \in -1..NumberCap
         /\ h_size' \in 0..NumberCap \/ (Scanning /\ preamble = <<>>)
         /\ \/ pc' = "rest" /\ retval' = retval
            \/ pc' = "done" /\ retval' = "MISSING_COLON"
         /\ c = Colon => pc' = "rest"
<1>1. /\ IF Scanning /\ preamble = <<>> THEN h_size' \in StaleSizes
         ELSE h_size' = NumberOf(preamble)
      /\ IF c = Colon \/ Scanning THEN pc' = "rest" /\ retval' = retval
         ELSE pc' = "done" /\ retval' = "MISSING_COLON"
      /\ preamble' = preamble /\ next_p' = next_p
  BY Zenon DEF EndOfDigits, Fail
<1>3. NumberOf(preamble) \in 0..NumberCap
  BY DigitsPreamble
<1>4. \A m : m \in 0..NumberCap \/ m \in StaleSizes => m \in -1..NumberCap
  <2>1. \A m : m \in 0..NumberCap => m \in -1..NumberCap
    OBVIOUS
  <2>2. \A m \in StaleSizes : m \in -1..NumberCap
    BY SizesAssumption, Zenon
  <2> QED BY <2>1, <2>2, Zenon
<1>5. /\ h_size' \in -1..NumberCap
      /\ h_size' \in 0..NumberCap \/ (Scanning /\ preamble = <<>>)
  BY <1>1, <1>3, <1>4, Zenon
<1>6. \/ pc' = "rest" /\ retval' = retval
      \/ pc' = "done" /\ retval' = "MISSING_COLON"
  BY <1>1, Zenon
<1>7. c = Colon => pc' = "rest"
  BY <1>1, Zenon
<1> QED BY <1>1, <1>5, <1>6, <1>7

LEMMA ReadDigitPosition ==
  ASSUME PInv, ReadDigit
  PROVE  PInv' /\ (pc' = "rest" => LengthKnown')
<1> DEFINE c == Bytes(1)[1]
<1>1. Typed /\ pc = "digits" /\ Take(1) /\ Got(1) = 1
  BY DEF PInv, ReadDigit
<1>2. IF IsDigit(c)
      THEN /\ preamble' = Append(preamble, c)
           /\ UNCHANGED <<pc, h_size, mem, next_p, retval>>
      ELSE EndOfDigits(c)
  BY Zenon DEF ReadDigit
<1>3. /\ preamble \in Seq(Byte) /\ Len(preamble) = pos /\ pos <= Places(list)
      /\ Begins(preamble, Message) /\ next_p = 0
      /\ Len(preamble) <= PREAMBLE_MAX
  BY <1>1, DigitsPreamble
<1>4. /\ Places(list) \in 1..5 /\ Size(list) \in Nat
      /\ Len(Message) = Places(list) + Size(list) + 2
      /\ Message[Places(list) + 1] = Colon
  BY <1>1, PlacesType
<1>5. /\ list \in Lists /\ Message = Wire[list] /\ pos \in Nat
      /\ \A i \in 1..Len(Message) : Stream[i] = Message[i]
  BY <1>1, ListFacts
<1>6. /\ pos' = pos + 1 /\ Bytes(1) \in Seq(Byte) /\ Len(Bytes(1)) = 1
      /\ c = Stream[pos + 1]
      /\ UNCHANGED <<list, source, mode, min_length, garbage, sentTo, closed>>
  <2>1. 1 \in Nat
    OBVIOUS
  <2>2. /\ pos' = pos + Got(1) /\ Bytes(1) \in Seq(Byte) /\ Len(Bytes(1)) = Got(1)
        /\ \A i \in 1..Got(1) : Bytes(1)[i] = Stream[pos + i]
        /\ UNCHANGED <<list, source, mode, min_length, garbage, sentTo, closed>>
    BY <1>1, <2>1, ReadFacts, Zenon
  <2>3. 1 \in 1..Got(1)
    BY <1>1
  <2> QED BY <1>1, <2>2, <2>3
<1>7. c \in Byte /\ c = Message[pos + 1] /\ pos' <= Len(Message)
  <2>1. pos + 1 \in 1..Len(Message) /\ pos + 1 <= Len(Message)
    BY <1>3, <1>4, <1>5, SMTT(30)
  <2>2. 1 \in 1..Len(Bytes(1))
    BY <1>6
  <2>3. c \in Byte
    <3> HIDE DEF c
    <3>1. Bytes(1)[1] \in Byte
      BY <1>6, <2>2, ElementOfSeq
    <3> QED BY <3>1 DEF c
  <2> QED BY <1>5, <1>6, <2>1, <2>3
<1> HIDE DEF c
<1>8. CASE IsDigit(c)
  <2>1. /\ preamble' = Append(preamble, c)
        /\ UNCHANGED <<pc, h_size, mem, next_p, retval>>
    BY <1>2, <1>8, Zenon
  <2>2. pos < Places(list)
    <3>1. pos # Places(list)
      BY <1>4, <1>7, <1>8, NoDigits
    <3> QED BY <1>3, <1>4, <1>5, <3>1
  <2>3. /\ preamble' \in Seq(Byte) /\ Len(preamble') = pos + 1
        /\ \A i \in 1..pos : preamble'[i] = preamble[i]
        /\ preamble'[pos + 1] = c
    BY <1>3, <1>5, <1>7, <2>1, AppendProperties
  <2>4. \A i \in 1..(pos + 1) : preamble'[i] = Message[i]
    <3>1. \A i \in 1..(pos + 1) : i \in 1..pos \/ i = pos + 1
      BY <1>5
    <3> QED BY <1>3, <1>7, <2>3, <3>1 DEF Begins
  <2>5. Begins(preamble', Message)
    <3>1. Len(preamble') <= Len(Message)
      BY <1>6, <1>7, <2>3
    <3> QED BY <2>3, <2>4, <3>1 DEF Begins
  <2>6. Typed'
    <3>1. Len(preamble') <= PREAMBLE_MAX
      BY <1>4, <1>5, <2>2, <2>3 DEF PREAMBLE_MAX
    <3>2. h_size' \in -1..NumberCap /\ next_p' \in 0..PREAMBLE_MAX
      BY <1>1, <2>1 DEF Typed, TypeOK
    <3>3. Continues /\ pc # "done" /\ 1 \in Nat
      BY <1>1, <2>1 DEF Continues
    <3> QED BY <1>1, <2>3, <3>1, <3>2, <3>3, TypedStep, Zenon
  <2>7. Position'
    <3>1. Message' = Message
      BY <1>6 DEF Message
    <3>2. pos' <= Places(list') /\ Len(preamble') = pos'
      BY <1>4, <1>5, <1>6, <2>2, <2>3
    <3>3. pc' = "digits" /\ next_p' = 0 /\ retval' # "SUCCESS"
      BY <1>1, <1>3, <2>1 DEF Typed, TypeOK
    <3> QED BY <1>7, <2>5, <3>1, <3>2, <3>3 DEF Position
  <2>8. pc' # "rest"
    BY <1>1, <2>1
  <2> QED BY <2>6, <2>7, <2>8 DEF PInv
<1>9. CASE ~IsDigit(c)
  <2>1. EndOfDigits(c)
    BY <1>2, <1>9, Zenon
  <2>2. pos = Places(list)
    <3>1. ASSUME pos < Places(list) PROVE FALSE
      <4>1. pos + 1 \in 1..Places(list)
        BY <1>5, <1>4, <3>1
      <4>2. \A i \in 1..Places(list) : IsDigit(Message[i])
        BY <1>5, Shape
      <4> QED BY <1>7, <1>9, <4>1, <4>2
    <3> QED BY <1>3, <1>4, <1>5, <3>1
  <2>3. c = Colon
    BY <1>4, <1>7, <2>2
  <2>4. /\ preamble' = preamble /\ next_p' = next_p
        /\ h_size' \in -1..NumberCap
        /\ pc' = "rest"
        /\ (pc' = "rest" /\ retval' = retval) \/ pc' = "done"
    BY <1>1, <2>1, <2>3, EndOfDigitsOutcome
  <2>5. preamble # <<>>
    BY <1>3, <1>4, <2>2, EmptySeq
  <2>6. h_size' = Size(list)
    <3>1. h_size' = NumberOf(preamble)
      BY <2>1, <2>5, Zenon DEF EndOfDigits
    <3>2. NumberOf(preamble) = Size(list)
      BY <1>3, <1>5, <2>2, DigitsComplete
    <3> QED BY <3>1, <3>2
  <2>7. Typed'
    <3>1. retval' = retval
      BY <2>4
    <3>2. Continues /\ pc # "done" /\ 1 \in Nat
      BY <1>1, <2>4, <3>1 DEF Continues
    <3>3. next_p' \in 0..PREAMBLE_MAX
      BY <1>1, <2>4 DEF Typed, TypeOK
    <3> QED BY <1>1, <1>3, <2>4, <3>2, <3>3, TypedStep
  <2>8. LengthKnown'
    <3>1. pos' = Places(list) + 1 + next_p'
      BY <1>3, <1>4, <1>6, <2>2, <2>4
    <3> QED BY <1>6, <2>6, <3>1 DEF LengthKnown
  <2>9. Position'
    BY <1>6, <1>7, <2>4, <2>7, <2>8, RestStep
  <2> QED BY <2>7, <2>8, <2>9 DEF PInv
<1> QED BY <1>8, <1>9

LEMMA ReadDigitAtEndPosition ==
  ASSUME PInv, ReadDigitAtEnd
  PROVE  PInv'
<1>1. Typed /\ Position /\ pc = "digits" /\ Take(1) /\ Got(1) = 0
  BY DEF PInv, ReadDigitAtEnd
<1>2. \/ UNCHANGED <<pc, preamble, h_size, mem, next_p, retval>>
      \/ EndOfDigits(Stale(0))
  BY Zenon DEF ReadDigitAtEnd
<1>3. /\ preamble \in Seq(Byte) /\ Len(preamble) = pos /\ pos <= Places(list)
      /\ Begins(preamble, Message) /\ next_p = 0
      /\ Len(preamble) <= PREAMBLE_MAX
  BY <1>1, DigitsPreamble
<1>4. /\ pos' = pos + Got(1)
      /\ Got(1) = 1 \/ pos' = sentTo
      /\ UNCHANGED <<list, source, mode, min_length, garbage, sentTo, closed>>
      /\ Got(1) = 1 \/ closed \/ (source = "pipe" /\ Got(1) > 0)
  <2>1. 1 \in Nat
    OBVIOUS
  <2> QED BY <1>1, <2>1, ReadFacts
<1>5. pos' = pos /\ AtEnd' /\ 1 \in Nat
  <2>1. pos \in Nat
    BY <1>1, ListFacts
  <2>2. Got(1) # 1 /\ ~(Got(1) > 0) /\ pos + 0 = pos
    BY <1>1, <2>1
  <2>3. pos' = pos
    BY <1>1, <1>4, <2>2
  <2>4. closed' /\ pos' = sentTo'
    BY <1>4, <2>2, Zenon
  <2> QED BY <2>3, <2>4 DEF AtEnd
<1>6. CASE UNCHANGED <<pc, preamble, h_size, mem, next_p, retval>>
  <2>1. Typed'
    <3>1. h_size' \in -1..NumberCap /\ next_p' \in 0..PREAMBLE_MAX
      BY <1>1, <1>6 DEF Typed, TypeOK
    <3>2. Continues /\ pc # "done"
      BY <1>1, <1>6 DEF Continues
    <3> QED BY <1>1, <1>3, <1>5, <1>6, <3>1, <3>2, TypedStep
  <2>2. Position'
    <3>1. Message' = Message
      BY <1>4 DEF Message
    <3>2. pc' = "digits" /\ retval' # "SUCCESS"
      BY <1>1, <1>6 DEF Typed, TypeOK
    <3> QED BY <1>1, <1>3, <1>4, <1>5, <1>6, <3>1, <3>2 DEF Position
  <2> QED BY <2>1, <2>2 DEF PInv
<1>7. CASE EndOfDigits(Stale(0))
  <2>1. /\ preamble' = preamble /\ next_p' = next_p
        /\ h_size' \in -1..NumberCap
        /\ \/ pc' = "rest" /\ retval' = retval
           \/ pc' = "done" /\ retval' = "MISSING_COLON"
    BY <1>1, <1>7, EndOfDigitsOutcome
  <2>2. Typed'
    <3>1. Continues /\ pc # "done"
      BY <1>1, <2>1 DEF Continues, Codes
    <3>2. next_p' \in 0..PREAMBLE_MAX
      BY <1>1, <2>1 DEF Typed, TypeOK
    <3> QED BY <1>1, <1>3, <1>5, <2>1, <3>1, <3>2, TypedStep
  <2>3. pos' <= Len(Message)
    BY <1>1, <1>5 DEF Position
  <2>4. Position'
    <3>1. CASE pc' = "rest"
      BY <1>4, <1>5, <2>2, <2>3, <3>1, RestStep
    <3>2. CASE pc' = "done" /\ retval' = "MISSING_COLON"
      BY <1>4, <2>3, <3>2, DoneStep
    <3> QED BY <2>1, <3>1, <3>2
  <2> QED BY <2>2, <2>4 DEF PInv
<1> QED BY <1>2, <1>6, <1>7

\* What nobody has written is bytes too.
LEMMA StaleIsByte ==
  ASSUME Typed
  PROVE  \A i \in Nat : Stale(i) \in Byte
<1> SUFFICES ASSUME NEW i \in Nat PROVE Stale(i) \in Byte
  OBVIOUS
<1>1. garbage \in Seq(STRING) /\ garbage # <<>>
  BY BytesAssumption DEF Typed
<1>2. Len(garbage) \in Nat /\ Len(garbage) > 0
  BY <1>1
<1>3. \A n \in Nat : n > 0 => (i % n) + 1 \in 1..n
  OBVIOUS
<1>4. (i % Len(garbage)) + 1 \in 1..Len(garbage)
  BY <1>2, <1>3
<1> DEFINE j == (i % Len(garbage)) + 1
<1>5. Stale(i) = garbage[j]
  BY DEF Stale
<1> HIDE DEF j
<1>6. garbage[j] \in STRING
  BY <1>1, <1>4, ElementOfSeq DEF j
<1> QED BY <1>5, <1>6 DEF Byte

LEMMA FilledShape ==
  ASSUME Typed, NEW at \in Nat, NEW s \in Seq(Byte), NEW n \in Nat, Len(s) <= n
  PROVE  /\ Filled(s, at, n) \in Seq(Byte) /\ Len(Filled(s, at, n)) = n
         /\ \A i \in 1..Len(s) : Filled(s, at, n)[i] = s[i]
<1> DEFINE F(i) == Stale(at + Len(s) + i - 1)
           m == n - Len(s)
           t == [i \in 1..m |-> F(i)]
<1>1. m \in Nat /\ Len(s) \in Nat /\ Len(s) + m = n
  BY LenProperties
<1>2. \A i \in 1..m : F(i) \in Byte
  <2>1. \A i \in 1..m : at + Len(s) + i - 1 \in Nat
    BY <1>1
  <2> QED BY <2>1, StaleIsByte
<1>3. Filled(s, at, n) = s \o t
  BY DEF Filled
<1> HIDE DEF F, m
<1>4. t \in Seq(Byte) /\ Len(t) = m
  BY <1>1, <1>2
<1> HIDE DEF t
<1>5. /\ s \o t \in Seq(Byte) /\ Len(s \o t) = Len(s) + Len(t)
      /\ \A i \in 1..Len(s) : (s \o t)[i] = s[i]
  BY <1>4, ConcatLemma
<1> QED BY <1>1, <1>3, <1>4, <1>5

\* A read in the MIN_SIZE mode that brings less than was asked for is the last.
LEMMA ShortReadIsAtEnd ==
  ASSUME FirstReadIsWhole, Typed, mode = "min_size", NEW n \in Nat, Take(n),
         Got(n) # n
  PROVE  AtEnd'
<1>1. source # "pipe"
  <2>1. <<source, mode, min_length>> \in Readers
    BY ListFacts
  <2> QED BY <2>1 DEF FirstReadIsWhole
<1>2. /\ pos' = sentTo /\ sentTo' = sentTo /\ closed' = closed
      /\ closed
  BY <1>1, ReadFacts
<1> QED BY <1>2 DEF AtEnd

\* The first read of the MIN_SIZE mode.
LEMMA FirstRead ==
  ASSUME FirstReadIsWhole, PInv, ReadInit
  PROVE  \E buf \in Seq(Byte) :
           /\ Len(buf) = InitReadSize
           /\ buf = Filled(Bytes(InitReadSize), 0, InitReadSize)
           /\ \/ pos' = InitReadSize /\ Begins(buf, Message)
              \/ AtEnd' /\ pos' < InitReadSize
           /\ IF HasColon(buf) THEN ParsePreamble(buf)
              ELSE /\ pc' = "more"
                   /\ preamble' = buf
                   /\ UNCHANGED <<h_size, mem, next_p, retval>>
<1> DEFINE n == InitReadSize
           b == Bytes(n)
           buf == Filled(b, 0, n)
<1>1. Typed /\ Position /\ pc = "init" /\ Take(n)
  BY DEF PInv, ReadInit
<1>2. n \in 3..11 /\ n \in Nat
  BY <1>1, ReadSizeType
<1>3. mode = "min_size" /\ pos = 0 /\ n <= Len(Message)
  BY <1>1 DEF Position
<1>4. /\ pos' = pos + Got(n) /\ b \in Seq(Byte) /\ Len(b) = Got(n)
      /\ \A i \in 1..Got(n) : b[i] = Stream[pos + i]
      /\ Got(n) \in 0..n
  <2> HIDE DEF n
  <2> QED BY <1>1, <1>2, ReadFacts, Zenon
<1>5. /\ buf \in Seq(Byte) /\ Len(buf) = n
      /\ \A i \in 1..Len(b) : buf[i] = b[i]
  <2> HIDE DEF n, b
  <2>1. Len(b) <= n /\ 0 \in Nat
    BY <1>2, <1>4
  <2> QED BY <1>1, <1>2, <1>4, <2>1, FilledShape, Zenon
<1>6. \/ pos' = n /\ Begins(buf, Message)
      \/ AtEnd' /\ pos' < n
  <2>1. CASE Got(n) = n
    <3> HIDE DEF n, b, buf
    <3>1. pos' = n
      BY <1>2, <1>3, <1>4, <2>1
    <3>2. \A i \in 1..n : buf[i] = Stream[0 + i]
      BY <1>3, <1>4, <1>5, <2>1
    <3>3. /\ \A i \in 1..Len(Message) : Stream[i] = Message[i]
          /\ Len(Message) \in Nat
      BY <1>1, ListFacts
    <3>4. \A i \in 1..n : 0 + i = i /\ i \in 1..Len(Message)
      BY <1>2, <1>3, <3>3
    <3> QED BY <1>3, <1>5, <3>1, <3>2, <3>3, <3>4 DEF Begins
  <2>2. CASE Got(n) # n
    <3> HIDE DEF n, b, buf
    <3>1. AtEnd'
      BY <1>1, <1>2, <1>3, <2>2, ShortReadIsAtEnd
    <3>2. pos' < n
      BY <1>2, <1>3, <1>4, <2>2
    <3> QED BY <3>1, <3>2
  <2> QED BY <2>1, <2>2
<1>7. IF HasColon(buf) THEN ParsePreamble(buf)
      ELSE /\ pc' = "more"
           /\ preamble' = buf
           /\ UNCHANGED <<h_size, mem, next_p, retval>>
  BY Zenon DEF ReadInit
<1> HIDE DEF buf
<1> QED BY <1>5, <1>6, <1>7, Zenon DEF buf

LEMMA PreambleRange ==
  \A m : m \in 3..PREAMBLE_MAX => m \in Nat /\ m <= PREAMBLE_MAX
BY DEF PREAMBLE_MAX

\* What ParsePreamble leaves has the right types, whatever it was given.
LEMMA ParseTyped ==
  ASSUME Typed, pc # "done", NEW n \in Nat, Take(n),
         NEW buf \in Seq(Byte), Len(buf) \in 3..PREAMBLE_MAX, ParsePreamble(buf)
  PROVE  Typed' /\ (pc' = "rest" \/ pc' = "done")
<1>1. /\ preamble' = buf /\ h_size' \in 0..NumberCap
      /\ \/ pc' = "rest" /\ retval' = retval /\ next_p' \in 0..PREAMBLE_MAX
         \/ /\ pc' = "done" /\ retval' \in {"MISSING_COLON", "FAULT"}
            /\ next_p' = next_p
  <2>1. Len(buf) <= PREAMBLE_MAX
    BY PreambleRange, Zenon
  <2> QED BY <2>1, ParseOutcome
<1>2. Len(preamble') <= PREAMBLE_MAX
  BY <1>1, PreambleRange, Zenon
<1>3. next_p' \in 0..PREAMBLE_MAX
  BY <1>1 DEF Typed, TypeOK
<1>4. Continues
  BY <1>1 DEF Continues, Codes
<1>5. \A m : m \in 0..NumberCap => m \in -1..NumberCap
  OBVIOUS
<1>6. h_size' \in -1..NumberCap
  BY <1>1, <1>5, Zenon
<1> QED BY <1>1, <1>2, <1>3, <1>4, <1>6, TypedStep

\* What ParsePreamble leaves, when the reader is at the end of what will come
\* or when it has been given the beginning of the message.
LEMMA ParsePosition ==
  ASSUME PInv, pc \in {"init", "more"}, NEW n \in Nat, Take(n),
         NEW buf \in Seq(Byte), Len(buf) \in 3..PREAMBLE_MAX, ParsePreamble(buf),
         \/ pos' = Len(buf) /\ Begins(buf, Message)
         \/ pos' <= Len(Message) /\ AtEnd'
  PROVE  PInv'
<1>1. Typed
  BY DEF PInv
<1>2. /\ preamble' = buf /\ h_size' \in 0..NumberCap
      /\ \/ pc' = "rest" /\ retval' = retval /\ next_p' \in 0..PREAMBLE_MAX
         \/ /\ pc' = "done" /\ retval' \in {"MISSING_COLON", "FAULT"}
            /\ next_p' = next_p
  <2>1. Len(buf) <= PREAMBLE_MAX
    BY PreambleRange, Zenon
  <2> QED BY <2>1, ParseOutcome
<1>3. Typed'
  <2>1. pc # "done"
    OBVIOUS
  <2> QED BY <1>1, <2>1, ParseTyped
<1>4. list' = list
  BY <1>1, ReadFacts
<1>5. pos' <= Len(Message)
  BY DEF Begins
<1>6. CASE pc' = "done" /\ retval' \in {"MISSING_COLON", "FAULT"}
  BY <1>3, <1>4, <1>5, <1>6, DoneStep DEF PInv
<1>7. CASE pc' = "rest"
  <2>1. CASE AtEnd'
    BY <1>3, <1>4, <1>5, <1>7, <2>1, RestStep DEF PInv
  <2>2. CASE pos' = Len(buf) /\ Begins(buf, Message)
    <3>1. ~(Len(buf) <= Places(list))
      BY <1>1, <1>7, <2>2, ParseBeginning
    <3>2. Len(buf) \in Nat /\ Places(list) \in Nat
      BY <1>1, PlacesType, LenProperties
    <3>3. h_size' = Size(list) /\ next_p' = Len(buf) - Places(list) - 1
      BY <1>1, <2>2, <3>1, <3>2, ParseBeginning
    <3>4. pos' = Places(list) + 1 + next_p'
      BY <2>2, <3>2, <3>3
    <3>5. LengthKnown'
      BY <1>4, <3>3, <3>4 DEF LengthKnown
    <3> QED BY <1>3, <1>4, <1>5, <1>7, <3>5, RestStep DEF PInv
  <2> QED BY <2>1, <2>2
<1> QED BY <1>2, <1>6, <1>7

LEMMA ReadInitPosition ==
  ASSUME FirstReadIsWhole, PInv, ReadInit
  PROVE  PInv'
<1>1. /\ Typed /\ Position /\ pc = "init" /\ Take(InitReadSize)
      /\ InitReadSize \in 3..11
  BY ReadSizeType DEF PInv, ReadInit
<1>2. PICK buf \in Seq(Byte) :
           /\ Len(buf) = InitReadSize
           /\ buf = Filled(Bytes(InitReadSize), 0, InitReadSize)
           /\ \/ pos' = InitReadSize /\ Begins(buf, Message)
              \/ AtEnd' /\ pos' < InitReadSize
           /\ IF HasColon(buf) THEN ParsePreamble(buf)
              ELSE /\ pc' = "more"
                   /\ preamble' = buf
                   /\ UNCHANGED <<h_size, mem, next_p, retval>>
  BY FirstRead
<1>3. InitReadSize \in Nat /\ Len(buf) \in 3..PREAMBLE_MAX
  BY <1>1, <1>2 DEF PREAMBLE_MAX
<1>4. /\ mode = "min_size" /\ pos = 0 /\ InitReadSize <= Len(Message)
      /\ next_p = 0
  BY <1>1 DEF Position
<1>5. /\ pos' = pos + Got(InitReadSize) /\ Got(InitReadSize) \in 0..InitReadSize
      /\ UNCHANGED <<list, source, mode, min_length, garbage, sentTo, closed>>
  BY <1>1, <1>3, ReadFacts
<1>6. pos' <= Len(Message)
  <2>1. Len(Message) \in Nat
    BY <1>1, ListFacts
  <2> QED BY <1>3, <1>4, <1>5, <2>1
<1>7. CASE HasColon(buf)
  <2>1. ParsePreamble(buf)
    BY <1>2, <1>7, Zenon
  <2>2. \/ pos' = Len(buf) /\ Begins(buf, Message)
        \/ pos' <= Len(Message) /\ AtEnd'
    BY <1>2, <1>6, Zenon
  <2>3. pc \in {"init", "more"}
    BY <1>1
  <2> QED BY <1>1, <1>3, <2>1, <2>2, <2>3, ParsePosition
<1>8. CASE ~HasColon(buf)
  <2>1. pc' = "more" /\ preamble' = buf /\ UNCHANGED <<h_size, mem, next_p, retval>>
    BY <1>2, <1>8, Zenon
  <2>2. Typed'
    <3>1. h_size' \in -1..NumberCap /\ next_p' \in 0..PREAMBLE_MAX
      BY <1>1, <2>1 DEF Typed, TypeOK
    <3>2. Continues /\ pc # "done"
      BY <1>1, <2>1 DEF Continues
    <3>3. preamble' \in Seq(Byte) /\ Len(preamble') <= PREAMBLE_MAX
      BY <1>3, <2>1, PreambleRange, Zenon
    <3> QED BY <1>1, <1>3, <3>1, <3>2, <3>3, TypedStep
  <2>3. Message' = Message /\ InitReadSize' = InitReadSize
    BY <1>5 DEF Message, InitReadSize
  <2>4. ASSUME pos' = InitReadSize, Begins(buf, Message)
        PROVE  DigitsOnly'
    <3>1. list \in Lists /\ Begins(buf, Wire[list])
      BY <1>1, <2>4, ListFacts
    <3>2. ~(Len(buf) > Places(list))
      BY <1>8, <3>1, ColonOfBeginning
    <3>3. Places(list) \in Nat
      BY <1>1, PlacesType
    <3>4. pos' <= Places(list')
      BY <1>2, <1>3, <1>5, <2>4, <3>2, <3>3
    <3>5. Begins(preamble', Message')
      BY <2>1, <2>3, <2>4
    <3> QED BY <2>3, <2>4, <3>4, <3>5 DEF DigitsOnly
  <2>5. DigitsOnly' \/ AtEnd'
    BY <1>2, <2>4
  <2>6. retval' # "SUCCESS" /\ next_p' = 0 /\ mode' = "min_size"
    BY <1>1, <1>4, <1>5, <2>1 DEF Typed, TypeOK
  <2>7. Position'
    BY <1>2, <1>6, <2>1, <2>3, <2>5, <2>6 DEF Position
  <2> QED BY <2>2, <2>7 DEF PInv
<1> QED BY <1>7, <1>8

\* The second read of the MIN_SIZE mode; new is what is behind the first.
Second(n) == IF Got(n) = 0 /\ n > 0 THEN <<NUL>> ELSE Bytes(n)

LEMMA AtEndRead ==
  ASSUME Typed, AtEnd, NEW n \in Nat, Take(n)
  PROVE  Got(n) = 0 /\ pos' = pos /\ AtEnd'
<1>1. /\ pos' = pos + Got(n) /\ Got(n) \in 0..n /\ pos' <= sentTo
      /\ UNCHANGED <<list, source, mode, min_length, garbage, sentTo, closed>>
  BY ReadFacts
<1>2. pos = sentTo /\ closed
  BY DEF AtEnd
<1>3. pos \in Nat
  BY ListFacts
<1>4. Got(n) = 0 /\ pos' = pos
  BY <1>1, <1>2, <1>3
<1> QED BY <1>1, <1>2, <1>4 DEF AtEnd

LEMMA SecondRead ==
  ASSUME FirstReadIsWhole, PInv, ReadMore
  PROVE  LET n == PREAMBLE_MAX - InitReadSize
         IN  \E buf \in Seq(Byte) :
               /\ Len(buf) = PREAMBLE_MAX
               /\ buf = preamble \o Filled(Second(n), InitReadSize, n)
               /\ n \in Nat /\ Take(n)
               /\ Second(n) \in Seq(Byte) /\ Len(Second(n)) <= n
               /\ ParsePreamble(buf)
               /\ \/ DigitsOnly /\ pos' = PREAMBLE_MAX /\ Begins(buf, Message)
                  \/ /\ pos' <= Len(Message) /\ AtEnd'
                     /\ DigitsOnly => pos' < PREAMBLE_MAX
<1> DEFINE n == PREAMBLE_MAX - InitReadSize
           new == Second(n)
           t == Filled(new, InitReadSize, n)
           buf == preamble \o t
<1>1. Typed /\ Position /\ pc = "more" /\ Take(n)
  BY Zenon DEF PInv, ReadMore
<1>2. ParsePreamble(buf)
  BY Zenon DEF ReadMore, Second
<1>3. InitReadSize \in 3..11 /\ n \in Nat /\ InitReadSize + n = 11 /\ PREAMBLE_MAX = 11
  BY <1>1, ReadSizeType DEF PREAMBLE_MAX
<1>4. /\ mode = "min_size" /\ Len(preamble) = InitReadSize
      /\ DigitsOnly \/ AtEnd
      /\ preamble \in Seq(Byte) /\ pos <= Len(Message)
  BY <1>1 DEF Position, Typed
<1> HIDE DEF n
<1>5. /\ pos' = pos + Got(n) /\ Bytes(n) \in Seq(Byte) /\ Len(Bytes(n)) = Got(n)
      /\ \A i \in 1..Got(n) : Bytes(n)[i] = Stream[pos + i]
      /\ Got(n) \in 0..n
  BY <1>1, <1>3, ReadFacts, Zenon
<1>6. new \in Seq(Byte) /\ Len(new) <= n
  <2>1. CASE Got(n) = 0 /\ n > 0
    <3>1. new = <<NUL>>
      BY <2>1, Zenon DEF Second
    <3>2. <<NUL>> \in Seq(Byte) /\ Len(<<NUL>>) = 1
      BY DEF Byte
    <3> QED BY <1>3, <2>1, <3>1, <3>2
  <2>2. CASE ~(Got(n) = 0 /\ n > 0)
    <3>1. new = Bytes(n)
      BY <2>2, Zenon DEF Second
    <3> QED BY <1>3, <1>5, <3>1
  <2> QED BY <2>1, <2>2
<1> HIDE DEF new
<1>7. /\ t \in Seq(Byte) /\ Len(t) = n
      /\ \A i \in 1..Len(new) : t[i] = new[i]
  <2>1. InitReadSize \in Nat
    BY <1>3
  <2> QED BY <1>1, <1>3, <1>6, <2>1, FilledShape, Zenon
<1> HIDE DEF t
<1>8. /\ buf \in Seq(Byte) /\ Len(buf) = Len(preamble) + Len(t)
      /\ \A i \in 1..Len(preamble) : buf[i] = preamble[i]
      /\ \A i \in 1..Len(t) : buf[Len(preamble) + i] = t[i]
  <2>1. preamble \in Seq(Byte) /\ t \in Seq(Byte)
    BY <1>4, <1>7
  <2> QED BY <2>1, ByteConcat, Zenon
<1> HIDE DEF buf
<1>9. Len(buf) = PREAMBLE_MAX
  BY <1>3, <1>4, <1>7, <1>8
<1>10. \/ DigitsOnly /\ pos' = PREAMBLE_MAX /\ Begins(buf, Message)
       \/ /\ pos' <= Len(Message) /\ AtEnd'
          /\ DigitsOnly => pos' < PREAMBLE_MAX
  <2>1. CASE AtEnd /\ ~DigitsOnly
    BY <1>1, <1>3, <1>4, <2>1, AtEndRead
  <2>2. CASE DigitsOnly
    <3>1. /\ pos = InitReadSize /\ pos <= Places(list)
          /\ Begins(preamble, Message)
      BY <2>2 DEF DigitsOnly
    <3>2. /\ Places(list) \in 1..5 /\ Size(list) \in Nat
          /\ Len(Message) = Places(list) + Size(list) + 2
          /\ Places(list) >= 3 => Size(list) >= 100
      BY <1>1, PlacesType
    <3>3. 11 <= Len(Message) /\ n > 0
      BY <1>3, <3>1, <3>2
    <3>4. CASE Got(n) # n
      <4>1. AtEnd'
        BY <1>1, <1>3, <1>4, <3>4, ShortReadIsAtEnd
      <4>2. pos' <= Len(Message) /\ pos' < PREAMBLE_MAX
        BY <1>3, <1>5, <3>1, <3>2, <3>3, <3>4
      <4> QED BY <4>1, <4>2
    <3>5. CASE Got(n) = n
      <4>1. new = Bytes(n)
        <5>1. ~(Got(n) = 0 /\ n > 0)
          BY <1>3, <3>3, <3>5
        <5> QED BY <5>1, Zenon DEF Second, new
      <4>2. pos' = 11
        BY <1>3, <1>5, <3>1, <3>5
      <4>3. \A i \in 1..Len(preamble) : buf[i] = Message[i]
        BY <1>8, <3>1 DEF Begins
      <4>4. \A i \in 1..n : buf[InitReadSize + i] = Stream[InitReadSize + i]
        <5>1. \A i \in 1..n : t[i] = Stream[pos + i]
          BY <1>5, <1>7, <3>5, <4>1
        <5> QED BY <1>4, <1>7, <1>8, <3>1, <5>1
      <4>5. \A i \in 1..Len(Message) : Stream[i] = Message[i]
        BY <1>1, ListFacts
      <4>6. ASSUME NEW i \in 1..11
            PROVE  buf[i] = Message[i]
        <5>1. CASE i <= InitReadSize
          <6>1. i \in 1..Len(preamble)
            BY <1>3, <1>4, <5>1
          <6> QED BY <4>3, <6>1
        <5>2. CASE i > InitReadSize
          <6>1. /\ i - InitReadSize \in 1..n
                /\ InitReadSize + (i - InitReadSize) = i
                /\ i \in 1..Len(Message)
            BY <1>3, <3>2, <3>3, <5>2
          <6> QED BY <4>4, <4>5, <6>1
        <5> QED BY <1>3, <5>1, <5>2
      <4>7. Begins(buf, Message)
        BY <1>3, <1>9, <3>3, <4>6 DEF Begins
      <4> QED BY <1>3, <2>2, <4>2, <4>7
    <3> QED BY <3>4, <3>5
  <2> QED BY <1>4, <2>1, <2>2
<1> QED
  BY <1>1, <1>2, <1>3, <1>6, <1>8, <1>9, <1>10, Zenon DEF buf, t, new, n

LEMMA ReadMorePosition ==
  ASSUME FirstReadIsWhole, PInv, ReadMore
  PROVE  PInv'
<1> DEFINE n == PREAMBLE_MAX - InitReadSize
<1>1. PICK buf \in Seq(Byte) :
        /\ Len(buf) = PREAMBLE_MAX
        /\ n \in Nat /\ Take(n)
        /\ ParsePreamble(buf)
        /\ \/ DigitsOnly /\ pos' = PREAMBLE_MAX /\ Begins(buf, Message)
           \/ /\ pos' <= Len(Message) /\ AtEnd'
              /\ DigitsOnly => pos' < PREAMBLE_MAX
  BY SecondRead, Zenon
<1>2. Len(buf) \in 3..PREAMBLE_MAX
  BY <1>1 DEF PREAMBLE_MAX
<1>3. pc \in {"init", "more"}
  BY DEF ReadMore
<1>4. \/ pos' = Len(buf) /\ Begins(buf, Message)
      \/ pos' <= Len(Message) /\ AtEnd'
  BY <1>1, Zenon
<1> HIDE DEF n
<1> QED BY <1>1, <1>2, <1>3, <1>4, ParsePosition

LEMMA CapIsNatural == \A m : m \in 0..NumberCap => m \in Nat
<1>1. NumberCap \in Nat
  BY DEF NumberCap
<1> QED BY <1>1

\* How many bytes ReadRest asks for.
RestSize == IF h_size + 1 < next_p THEN WrappedSize ELSE h_size + 1 - next_p

LEMMA RestSizeType ==
  ASSUME Typed
  PROVE  /\ RestSize \in Nat /\ next_p \in Nat /\ next_p <= 11
         /\ h_size \in Int /\ (h_size = -1 \/ h_size \in 0..NumberCap)
         /\ h_size + 1 < next_p => RestSize = WrappedSize
         /\ ~(h_size + 1 < next_p) => RestSize = h_size + 1 - next_p
<1>1. h_size \in -1..NumberCap /\ next_p \in 0..PREAMBLE_MAX
  BY DEF Typed, TypeOK
<1>2. \A m : m \in -1..NumberCap =>
        m \in Int /\ m >= -1 /\ (m = -1 \/ m \in 0..NumberCap)
  OBVIOUS
<1>3. \A m : m \in 0..PREAMBLE_MAX => m \in Nat /\ m <= 11
  BY DEF PREAMBLE_MAX
<1>4. WrappedSize \in Nat
  BY DEF WrappedSize, NumberCap
<1>5. /\ h_size \in Int /\ h_size >= -1
      /\ h_size = -1 \/ h_size \in 0..NumberCap
      /\ next_p \in Nat /\ next_p <= 11
  BY <1>1, <1>2, <1>3, Zenon
<1> QED BY <1>4, <1>5 DEF RestSize

LEMMA RestOutcome ==
  ASSUME ReadRest
  PROVE  /\ pc = "rest" /\ Take(RestSize)
         /\ mem' = Store(mem, next_p, Bytes(RestSize))
         /\ UNCHANGED <<preamble, h_size, next_p>>
         /\ pc' = "done"
         /\ \/ retval' \in {"FAULT", "TRUNCATED_STRING", "MISSING_TRAILING_COMMA"}
            \/ /\ retval' = "SUCCESS" /\ Got(RestSize) = RestSize
               /\ MemAt(mem', h_size) = Comma
<1>1. /\ pc = "rest" /\ Take(RestSize)
      /\ mem' = Store(mem, next_p, Bytes(RestSize))
      /\ UNCHANGED <<preamble, h_size, next_p>>
      /\ \/ /\ h_size \notin DOMAIN mem
            /\ Fail("FAULT")
         \/ /\ Got(RestSize) # RestSize
            /\ Fail("TRUNCATED_STRING")
         \/ /\ Got(RestSize) = RestSize /\ MemAt(mem', h_size) # Comma
            /\ Fail("MISSING_TRAILING_COMMA")
         \/ /\ Got(RestSize) = RestSize /\ MemAt(mem', h_size) = Comma
            /\ pc' = "done" /\ retval' = "SUCCESS"
  BY Zenon DEF ReadRest, RestSize
<1> QED BY <1>1 DEF Fail

LEMMA RestTyped ==
  ASSUME Typed, ReadRest
  PROVE  Typed' /\ pc' = "done"
<1>1. /\ pc = "rest" /\ Take(RestSize)
      /\ UNCHANGED <<preamble, h_size, next_p>>
      /\ pc' = "done"
      /\ \/ retval' \in {"FAULT", "TRUNCATED_STRING", "MISSING_TRAILING_COMMA"}
         \/ retval' = "SUCCESS"
  BY RestOutcome
<1>2. RestSize \in Nat
  BY RestSizeType
<1>3. Continues /\ pc # "done"
  BY <1>1 DEF Continues, Codes
<1>4. /\ preamble' \in Seq(Byte) /\ Len(preamble') <= PREAMBLE_MAX
      /\ h_size' \in -1..NumberCap /\ next_p' \in 0..PREAMBLE_MAX
  BY <1>1 DEF Typed, TypeOK
<1> QED BY <1>1, <1>2, <1>3, <1>4, TypedStep

LEMMA RestArithmetic ==
  ASSUME NEW p \in Nat, NEW size \in Nat, NEW next \in Nat, NEW got \in Nat,
         got <= size + 1 - next
  PROVE  /\ (p + 1 + next) + got <= p + size + 2
         /\ got = size + 1 - next => (p + 1 + next) + got = p + size + 2
OBVIOUS

LEMMA ReadRestPosition ==
  ASSUME PInv, ReadRest
  PROVE  PInv'
<1>1. Typed /\ Position
  BY DEF PInv
<1>2. /\ pc = "rest" /\ Take(RestSize)
      /\ UNCHANGED <<preamble, h_size, next_p>>
      /\ pc' = "done"
      /\ \/ retval' \in {"FAULT", "TRUNCATED_STRING", "MISSING_TRAILING_COMMA"}
         \/ retval' = "SUCCESS" /\ Got(RestSize) = RestSize
  BY RestOutcome
<1>3. /\ RestSize \in Nat /\ h_size \in Int /\ next_p \in Nat
      /\ ~(h_size + 1 < next_p) => RestSize = h_size + 1 - next_p
  BY <1>1, RestSizeType
<1>4. pos' = pos + Got(RestSize) /\ Got(RestSize) \in 0..RestSize /\ list' = list
  BY <1>1, <1>2, <1>3, ReadFacts
<1>5. Typed'
  BY <1>1, RestTyped
<1>6. pos <= Len(Message)
  BY <1>1 DEF Position
<1>7. CASE AtEnd
  <2>1. pos' = pos /\ AtEnd'
    BY <1>1, <1>2, <1>3, <1>7, AtEndRead
  <2>2. Position'
    BY <1>2, <1>4, <1>6, <2>1, DoneStep
  <2> QED BY <1>5, <2>2 DEF PInv
<1>8. CASE LengthKnown
  <2>1. /\ Places(list) \in 1..5 /\ Size(list) \in Nat
        /\ Len(Message) = Places(list) + Size(list) + 2
    BY <1>1, PlacesType
  <2>2. h_size = Size(list) /\ pos = Places(list) + 1 + next_p
    BY <1>8 DEF LengthKnown
  <2>3. RestSize = h_size + 1 - next_p
    BY <1>3, <1>6, <2>1, <2>2, SMTT(30)
  <2>a. Got(RestSize) \in Nat /\ Got(RestSize) <= Size(list) + 1 - next_p
    BY <1>3, <1>4, <2>2, <2>3
  <2>b. Places(list) \in Nat /\ Size(list) \in Nat /\ next_p \in Nat
    BY <1>3, <2>1
  <2>c. pos' = (Places(list) + 1 + next_p) + Got(RestSize)
    BY <1>4, <2>2, Zenon
  <2>4. pos' <= Len(Message)
    BY <2>1, <2>a, <2>b, <2>c, RestArithmetic
  <2>5. Got(RestSize) = RestSize => pos' = Len(Message)
    BY <2>1, <2>2, <2>3, <2>a, <2>b, <2>c, RestArithmetic
  <2>6. Position'
    BY <1>2, <1>4, <2>4, <2>5, DoneStep
  <2> QED BY <1>5, <2>6 DEF PInv
<1>9. LengthKnown \/ AtEnd
  BY <1>1, <1>2 DEF Position
<1> QED BY <1>7, <1>8, <1>9

LEMMA SendTyped ==
  ASSUME Typed, Send \/ PeerClose
  PROVE  Typed'
<1>2. /\ UNCHANGED <<inputVars, pos, drawn, pc, preamble, h_size, mem, next_p, retval>>
      /\ ~closed
  BY DEF Send, PeerClose
<1>3. UNCHANGED <<list, source, mode, min_length, garbage>>
  BY <1>2 DEF inputVars
<1>4. /\ sentTo \in Nat /\ pos <= sentTo /\ Len(Stream) \in Nat /\ pos \in Nat
      /\ drawn \in Nat /\ pos <= drawn /\ drawn <= sentTo
      /\ sentTo <= Len(Stream)
  BY ListFacts
<1>5. sentTo' \in Nat /\ sentTo <= sentTo' /\ sentTo' <= Len(Stream)
      /\ closed' \in BOOLEAN
  <2>1. CASE PeerClose
    BY <1>4, <2>1 DEF PeerClose
  <2>2. CASE Send
    <3> DEFINE P(n) == /\ n \notin Middle \/ n = Len(Stream)
                       /\ (sentTo + 1)..(n - 1) \subseteq Middle
               T == {n \in (sentTo + 1)..Len(Stream) :
                       n \notin Middle \/ n = Len(Stream)}
    <3>1. sentTo < Len(Stream)
      BY <2>2 DEF Send
    <3>2. PICK m \in T : \A n \in T : m <= n
      <4>1. T \subseteq Nat
        BY <1>4
      <4>2. Len(Stream) \in T
        BY <1>4, <3>1
      <4> HIDE DEF T
      <4> QED BY <4>1, <4>2, LeastNumber
    <3>3. P(m)
      <4>1. m \in (sentTo + 1)..Len(Stream) /\ (m \notin Middle \/ m = Len(Stream))
        BY <3>2
      <4>2. ASSUME NEW n \in (sentTo + 1)..(m - 1)
            PROVE  n \in Middle
        <5>1. n \in (sentTo + 1)..Len(Stream) /\ ~(m <= n)
          BY <1>4, <4>1
        <5> QED BY <3>2, <5>1
      <4> QED BY <4>1, <4>2
    <3>4. m \in (sentTo + 1)..Len(Stream)
      BY <3>2
    <3>5. sentTo' = CHOOSE n \in (sentTo + 1)..Len(Stream) : P(n)
      BY <2>2, Zenon DEF Send
    <3> HIDE DEF P, T
    <3>6. sentTo' \in (sentTo + 1)..Len(Stream)
      BY <3>3, <3>4, <3>5, Zenon
    <3>7. closed' = closed
      BY <2>2 DEF Send
    <3>8. closed' \in BOOLEAN
      BY <3>7 DEF Typed, TypeOK
    <3> QED BY <1>4, <3>6, <3>8
  <2> QED BY <2>1, <2>2
<1>6. Stream' = Stream
  BY <1>3 DEF Message, Stream
<1>7. 0 <= pos' /\ pos' <= drawn' /\ drawn' <= sentTo' /\ sentTo' <= Len(Stream')
  BY <1>2, <1>4, <1>5, <1>6
<1> QED BY <1>2, <1>3, <1>5, <1>7 DEF Typed, TypeOK

LEMMA SendPosition ==
  ASSUME PInv, Send \/ PeerClose
  PROVE  PInv'
<1>1. Typed /\ Position
  BY DEF PInv
<1>2. /\ UNCHANGED <<inputVars, pos, drawn, pc, preamble, h_size, mem, next_p, retval>>
      /\ ~closed
  BY DEF Send, PeerClose
<1>3. UNCHANGED <<list, source, mode, min_length, garbage>>
  BY <1>2 DEF inputVars
<1>4. Message' = Message /\ InitReadSize' = InitReadSize
  BY <1>3 DEF Message, InitReadSize
<1>5. ~AtEnd
  BY <1>2 DEF AtEnd
<1>6. /\ DigitsOnly => DigitsOnly'
      /\ LengthKnown => LengthKnown'
  BY <1>2, <1>3, <1>4 DEF DigitsOnly, LengthKnown
<1>7. Position'
  BY <1>1, <1>2, <1>3, <1>4, <1>5, <1>6 DEF Position
<1> QED BY <1>1, <1>7, SendTyped DEF PInv

\* Position without the names of the calls.
LEMMA PositionInvariant ==
  ASSUME FirstReadIsWhole
  PROVE  Spec => []PInv
<1>1. Init => PInv
  BY InitPosition
<1>2. PInv /\ [Next]_vars => PInv'
  <2> SUFFICES ASSUME PInv, [Next]_vars PROVE PInv'
    OBVIOUS
  <2>1. CASE ReadDigit
    BY <2>1, ReadDigitPosition
  <2>2. CASE ReadDigitAtEnd
    BY <2>2, ReadDigitAtEndPosition
  <2>3. CASE ReadInit
    BY <2>3, ReadInitPosition
  <2>4. CASE ReadMore
    BY <2>4, ReadMorePosition
  <2>5. CASE ReadRest
    BY <2>5, ReadRestPosition
  <2>6. CASE Send \/ PeerClose
    BY <2>6, SendPosition
  <2>7. CASE UNCHANGED vars
    BY <2>7 DEF PInv, Typed, TypeOK, Position, DigitsOnly, LengthKnown, AtEnd,
         Message, Stream, InitReadSize, vars, inputVars, peerVars
  <2> QED BY <2>1, <2>2, <2>3, <2>4, <2>5, <2>6, <2>7 DEF Next, Read
<1> QED BY <1>1, <1>2, PTL DEF Spec

-----------------------------------------------------------------------------
\* The types, also on a pipe in the MIN_SIZE mode, where nothing is known of
\* what preamble_buffer holds.
Widths ==
  /\ Typed
  /\ mode # "min_size" => Position
  /\ mode = "min_size" => /\ pc # "digits"
                          /\ pc = "more" => Len(preamble) = InitReadSize

LEMMA ReadInitTyped ==
  ASSUME Typed, ReadInit
  PROVE  /\ Typed' /\ pc' # "digits"
         /\ pc' = "more" => Len(preamble') = InitReadSize
<1> DEFINE n == InitReadSize
           buf == Filled(Bytes(n), 0, n)
<1>1. pc = "init" /\ Take(n) /\ n \in 3..11
  BY ReadSizeType DEF ReadInit
<1>2. IF HasColon(buf) THEN ParsePreamble(buf)
      ELSE /\ pc' = "more"
           /\ preamble' = buf
           /\ UNCHANGED <<h_size, mem, next_p, retval>>
  BY Zenon DEF ReadInit
<1> HIDE DEF n
<1>3. n \in Nat
  BY <1>1
<1>4. Bytes(n) \in Seq(Byte) /\ Len(Bytes(n)) = Got(n) /\ Got(n) \in 0..n
  BY <1>1, <1>3, ReadFacts, Zenon
<1>5. buf \in Seq(Byte) /\ Len(buf) = n
  <2>1. Len(Bytes(n)) <= n
    BY <1>3, <1>4
  <2> QED BY <1>3, <1>4, <2>1, FilledShape
<1> HIDE DEF buf
<1>6. Len(buf) \in 3..PREAMBLE_MAX
  BY <1>1, <1>5 DEF PREAMBLE_MAX
<1>7. CASE HasColon(buf)
  <2>1. ParsePreamble(buf) /\ pc # "done"
    BY <1>1, <1>2, <1>7
  <2> QED BY <1>1, <1>3, <1>5, <1>6, <2>1, ParseTyped
<1>8. CASE ~HasColon(buf)
  <2>1. pc' = "more" /\ preamble' = buf /\ UNCHANGED <<h_size, next_p, retval>>
    BY <1>2, <1>8, Zenon
  <2>2. h_size' \in -1..NumberCap /\ next_p' \in 0..PREAMBLE_MAX
    BY <2>1 DEF Typed, TypeOK
  <2>3. Continues /\ pc # "done"
    BY <1>1, <2>1 DEF Continues
  <2>4. preamble' \in Seq(Byte) /\ Len(preamble') <= PREAMBLE_MAX
    BY <1>5, <1>6, <2>1, PreambleRange, Zenon
  <2>5. Typed'
    BY <1>1, <1>3, <2>2, <2>3, <2>4, TypedStep
  <2>6. Len(preamble') = InitReadSize
    BY <1>5, <2>1 DEF n
  <2> QED BY <2>1, <2>5, <2>6
<1> QED BY <1>7, <1>8

LEMMA SecondType ==
  ASSUME NEW n \in Nat, Bytes(n) \in Seq(Byte), Len(Bytes(n)) <= n
  PROVE  Second(n) \in Seq(Byte) /\ Len(Second(n)) <= n
<1>1. CASE Got(n) = 0 /\ n > 0
  <2>1. Second(n) = <<NUL>>
    BY <1>1, Zenon DEF Second
  <2>2. <<NUL>> \in Seq(Byte) /\ Len(<<NUL>>) = 1
    BY DEF Byte
  <2> QED BY <1>1, <2>1, <2>2
<1>2. CASE ~(Got(n) = 0 /\ n > 0)
  <2>1. Second(n) = Bytes(n)
    BY <1>2, Zenon DEF Second
  <2> QED BY <2>1
<1> QED BY <1>1, <1>2

LEMMA ReadMoreTyped ==
  ASSUME Typed, ReadMore, Len(preamble) = InitReadSize
  PROVE  Typed' /\ (pc' = "rest" \/ pc' = "done")
<1> DEFINE n == PREAMBLE_MAX - InitReadSize
           t == Filled(Second(n), InitReadSize, n)
           buf == preamble \o t
<1>1. pc = "more" /\ Take(n) /\ ParsePreamble(buf)
  BY Zenon DEF ReadMore, Second
<1>2. n \in Nat /\ InitReadSize + n = 11 /\ PREAMBLE_MAX = 11
  BY ReadSizeType DEF PREAMBLE_MAX
<1> HIDE DEF n
<1>3. Bytes(n) \in Seq(Byte) /\ Len(Bytes(n)) <= n
  <2>1. Bytes(n) \in Seq(Byte) /\ Len(Bytes(n)) = Got(n) /\ Got(n) \in 0..n
    BY <1>1, <1>2, ReadFacts, Zenon
  <2> QED BY <1>2, <2>1
<1>4. Second(n) \in Seq(Byte) /\ Len(Second(n)) <= n
  BY <1>2, <1>3, SecondType
<1>5. t \in Seq(Byte) /\ Len(t) = n
  BY <1>2, <1>4, FilledShape
<1> HIDE DEF t
<1>6. preamble \in Seq(Byte)
  BY DEF Typed
<1>7. buf \in Seq(Byte) /\ Len(buf) = Len(preamble) + Len(t)
  BY <1>5, <1>6, ByteConcat, Zenon
<1> HIDE DEF buf
<1>8. Len(buf) \in 3..PREAMBLE_MAX
  BY <1>2, <1>5, <1>7
<1>9. pc # "done"
  BY <1>1
<1> QED BY <1>1, <1>2, <1>7, <1>8, <1>9, ParseTyped

LEMMA WidthsInvariant == Spec => []Widths
<1>1. Init => Widths
  <2> SUFFICES ASSUME Init PROVE Widths
    OBVIOUS
  <2>1. Typed /\ Position
    BY InitPosition DEF PInv
  <2>2. mode = "min_size" => pc = "init"
    BY Zenon DEF Init
  <2> QED BY <2>1, <2>2 DEF Widths
<1>2. Widths /\ [Next]_vars => Widths'
  <2> SUFFICES ASSUME Widths, [Next]_vars PROVE Widths'
    OBVIOUS
  <2>1. /\ mode' = mode
        /\ UNCHANGED <<list, min_length>>
    BY DEF Next, Read, ReadDigit, ReadDigitAtEnd, ReadInit, ReadMore, ReadRest,
         Send, PeerClose, Take, vars, inputVars
  <2>2. InitReadSize' = InitReadSize
    BY <2>1 DEF InitReadSize
  <2>3. CASE mode # "min_size"
    <3>1. PInv
      BY <2>3 DEF Widths, PInv
    <3>2. CASE ReadDigit
      BY <2>1, <2>3, <3>1, <3>2, ReadDigitPosition DEF Widths, PInv
    <3>3. CASE ReadDigitAtEnd
      BY <2>1, <2>3, <3>1, <3>3, ReadDigitAtEndPosition DEF Widths, PInv
    <3>4. CASE ReadRest
      BY <2>1, <2>3, <3>1, <3>4, ReadRestPosition DEF Widths, PInv
    <3>5. CASE Send \/ PeerClose
      BY <2>1, <2>3, <3>1, <3>5, SendPosition DEF Widths, PInv
    <3>6. ~ReadInit /\ ~ReadMore
      BY <2>3, <3>1 DEF PInv, Position, ReadInit, ReadMore
    <3>7. CASE UNCHANGED vars
      <4>1. PInv'
        BY <3>1, <3>7 DEF PInv, Typed, TypeOK, Position, DigitsOnly, LengthKnown,
             AtEnd, Message, Stream, InitReadSize, vars, inputVars, peerVars
      <4> QED BY <2>1, <2>3, <4>1 DEF Widths, PInv
    <3> QED BY <3>2, <3>3, <3>4, <3>5, <3>6, <3>7 DEF Next, Read
  <2>4. CASE mode = "min_size"
    <3>1. /\ Typed /\ pc # "digits"
          /\ pc = "more" => Len(preamble) = InitReadSize
      BY <2>4 DEF Widths
    <3>2. SUFFICES /\ Typed' /\ pc' # "digits"
                   /\ pc' = "more" => Len(preamble') = InitReadSize
      BY <2>1, <2>2, <2>4 DEF Widths
    <3>3. CASE ReadInit
      BY <3>1, <3>3, ReadInitTyped
    <3>4. CASE ReadMore
      <4>1. pc = "more"
        BY <3>4 DEF ReadMore
      <4>2. Typed' /\ (pc' = "rest" \/ pc' = "done")
        BY <3>1, <3>4, <4>1, ReadMoreTyped
      <4> QED BY <4>2
    <3>5. CASE ReadRest
      BY <3>1, <3>5, RestTyped
    <3>6. CASE Send \/ PeerClose
      <4>1. pc' = pc /\ preamble' = preamble
        BY <3>6 DEF Send, PeerClose
      <4> QED BY <3>1, <3>6, <4>1, SendTyped
    <3>7. ~ReadDigit /\ ~ReadDigitAtEnd
      BY <3>1 DEF ReadDigit, ReadDigitAtEnd
    <3>8. CASE UNCHANGED vars
      <4>1. Typed'
        BY <3>1, <3>8 DEF Typed, TypeOK, Message, Stream, vars, inputVars, peerVars
      <4>2. pc' = pc /\ preamble' = preamble
        BY <3>8 DEF vars
      <4> QED BY <3>1, <4>1, <4>2
    <3> QED BY <3>3, <3>4, <3>5, <3>6, <3>7, <3>8 DEF Next, Read
  <2> QED BY <2>3, <2>4
<1> QED BY <1>1, <1>2, PTL DEF Spec

\* The variables keep their types, no call takes more than has been sent, and
\* preamble_buffer never holds more than it has room for: for every source, in
\* every mode.
THEOREM TypeCorrect == Spec => []TypeOK
<1>1. Widths => TypeOK
  BY DEF Widths, Typed
<1> QED BY <1>1, WidthsInvariant, PTL

\* Nothing behind the netstring is taken, and after a success nothing less
\* unless the netstring was cut.
THEOREM OnlyTheNetstringTheorem ==
  ASSUME FirstReadIsWhole
  PROVE  Spec => []OnlyTheNetstring
<1>1. PInv => OnlyTheNetstring
  <2> SUFFICES ASSUME PInv PROVE OnlyTheNetstring
    OBVIOUS
  <2>1. pos <= Len(Message) /\ (retval = "SUCCESS" => pos = Len(Message) \/ AtEnd)
    BY DEF PInv, Position
  <2>0. (IF source = "stream" THEN pos ELSE drawn) = pos
    BY DEF PInv, Typed
  <2>2. pos \in Nat /\ sentTo \in Nat /\ Len(Message) \in Nat
    BY ListFacts DEF PInv
  <2>3. AtEnd /\ sentTo >= Len(Message) => pos = Len(Message)
    BY <2>1, <2>2 DEF AtEnd
  <2> QED BY <2>0, <2>1, <2>3 DEF OnlyTheNetstring
<1> QED BY <1>1, PositionInvariant, PTL

-----------------------------------------------------------------------------
\* build_strings_array, on a body.

LEMMA EndsIncrease ==
  ASSUME NEW N \in Nat, NEW E, \A k \in 0..N : E[k] \in Nat,
         \A k \in 1..N : E[k - 1] < E[k]
  PROVE  \A j, k \in 0..N : j < k => E[j] < E[k]
<1> DEFINE S == {k \in Nat : k \in 0..N =>
                   \A j \in 0..N : j < k => E[j] < E[k]}
<1>1. 0 \in S
  OBVIOUS
<1>2. ASSUME NEW k \in Nat, k \in S
      PROVE  k + 1 \in S
  <2> SUFFICES ASSUME k + 1 \in 0..N, NEW j \in 0..N, j < k + 1
               PROVE  E[j] < E[k + 1]
    OBVIOUS
  <2>1. k \in 0..N /\ k + 1 \in 1..N /\ (k + 1) - 1 = k
    OBVIOUS
  <2>2. E[k] < E[k + 1] /\ E[k] \in Nat /\ E[k + 1] \in Nat /\ E[j] \in Nat
    BY <2>1
  <2>3. CASE j = k
    BY <2>2, <2>3
  <2>4. CASE j < k
    <3>1. E[j] < E[k]
      BY <1>2, <2>1, <2>4
    <3> QED BY <2>2, <3>1
  <2> QED BY <2>3, <2>4
<1>3. \A k \in Nat : k \in S
  <2> HIDE DEF S
  <2> QED BY <1>1, <1>2, SetInduction
<1> QED BY <1>3

\* The first n of the places E[1], E[2], ...
FirstOf(E, n) == {E[k] : k \in 1..n}

LEMMA EndsCount ==
  ASSUME NEW N \in Nat, NEW E, \A k \in 0..N : E[k] \in Nat,
         \A j, k \in 0..N : j < k => E[j] < E[k]
  PROVE  \A m \in 0..N : /\ IsFiniteSet(FirstOf(E, m))
                         /\ Cardinality(FirstOf(E, m)) = m
<1> DEFINE T(m) == FirstOf(E, m)
           S == {m \in Nat : m \in 0..N =>
                   IsFiniteSet(T(m)) /\ Cardinality(T(m)) = m}
<1>1. 0 \in S
  <2>1. T(0) = {}
    BY DEF FirstOf
  <2> QED BY <2>1, FS_EmptySet
<1>2. ASSUME NEW m \in Nat, m \in S
      PROVE  m + 1 \in S
  <2> SUFFICES ASSUME m + 1 \in 0..N
               PROVE  IsFiniteSet(T(m + 1)) /\ Cardinality(T(m + 1)) = m + 1
    OBVIOUS
  <2>1. m \in 0..N /\ \A k \in 1..m : k \in 0..N /\ k < m + 1
    OBVIOUS
  <2>2. IsFiniteSet(T(m)) /\ Cardinality(T(m)) = m
    BY <1>2, <2>1
  <2>3. T(m + 1) = T(m) \cup {E[m + 1]}
    <3>1. \A k : k \in 1..(m + 1) <=> k \in 1..m \/ k = m + 1
      OBVIOUS
    <3> QED BY <3>1, Zenon DEF FirstOf
  <2>4. E[m + 1] \notin T(m)
    <3> SUFFICES ASSUME NEW k \in 1..m, E[m + 1] = E[k] PROVE FALSE
      BY Zenon DEF FirstOf
    <3>1. E[k] < E[m + 1] /\ E[k] \in Nat
      BY <2>1
    <3> QED BY <3>1
  <2>5. /\ IsFiniteSet(T(m) \cup {E[m + 1]})
        /\ Cardinality(T(m) \cup {E[m + 1]}) = Cardinality(T(m)) + 1
    <3> HIDE DEF T
    <3> QED BY <2>2, <2>4, FS_AddElement, Zenon
  <2> QED BY <2>2, <2>3, <2>5
<1>3. \A m \in Nat : m \in S
  <2> HIDE DEF S
  <2> QED BY <1>1, <1>2, SetInduction
<1> QED BY <1>3

\* The walk finds the NULs one after the other.
NulAt(nuls, k) ==
  CHOOSE i \in nuls : Cardinality({j \in nuls : j <= i}) = k

LEMMA WalkFindsEnds ==
  ASSUME NEW N \in Nat, NEW E, \A k \in 0..N : E[k] \in Nat,
         \A j, k \in 0..N : j < k => E[j] < E[k],
         NEW nuls, nuls = FirstOf(E, N)
  PROVE  \A k \in 1..N : NulAt(nuls, k) = E[k]
<1> DEFINE Upto(i) == {j \in nuls : j <= i}
<1>1. ASSUME NEW m \in 1..N
      PROVE  Cardinality(Upto(E[m])) = m
  <2>2. \A j \in 1..N : E[j] <= E[m] <=> j \in 1..m
    <3> SUFFICES ASSUME NEW j \in 1..N
                 PROVE  E[j] <= E[m] <=> j \in 1..m
      OBVIOUS
    <3>1. j \in 0..N /\ m \in 0..N /\ E[j] \in Nat /\ E[m] \in Nat
      OBVIOUS
    <3>2. CASE j < m
      <4>1. E[j] < E[m]
        BY <3>1, <3>2
      <4> QED BY <3>1, <3>2, <4>1
    <3>3. CASE m < j
      <4>1. E[m] < E[j]
        BY <3>1, <3>3
      <4> QED BY <3>1, <3>3, <4>1
    <3>4. CASE j = m
      BY <3>1, <3>4
    <3> QED BY <3>2, <3>3, <3>4
  <2>3. Upto(E[m]) = FirstOf(E, m)
    <3>1. \A j \in 1..m : j \in 1..N
      OBVIOUS
    <3> QED BY <2>2, <3>1, Zenon DEF FirstOf
  <2>4. m \in 0..N
    OBVIOUS
  <2>5. \A n \in 0..N : Cardinality(FirstOf(E, n)) = n
    BY EndsCount
  <2> QED BY <2>3, <2>4, <2>5, Zenon
<1> SUFFICES ASSUME NEW k \in 1..N PROVE NulAt(nuls, k) = E[k]
  OBVIOUS
<1>2. E[k] \in nuls
  BY Zenon DEF FirstOf
<1> HIDE DEF Upto
<1>3. \A i \in nuls : Cardinality(Upto(i)) = k => i = E[k]
  <2> SUFFICES ASSUME NEW i \in nuls, Cardinality(Upto(i)) = k
               PROVE  i = E[k]
    OBVIOUS
  <2>1. PICK j \in 1..N : i = E[j]
    BY Zenon DEF FirstOf
  <2>2. Cardinality(Upto(E[j])) = j
    BY <1>1, Zenon
  <2> QED BY <2>1, <2>2, Zenon
<1>4. Cardinality(Upto(E[k])) = k
  BY <1>1, Zenon
<1>5. (CHOOSE i \in nuls : Cardinality(Upto(i)) = k) = E[k]
  BY <1>2, <1>3, <1>4, Zenon
<1> QED BY <1>5, Zenon DEF NulAt, Upto

\* The first n of the bytes at strings[0], and where their N NULs are.
BytesAt(m, n) == [i \in 1..n |-> MemAt(m, i - 1)]

NulsAt(E, N, bytes, size) ==
  /\ N \in Nat /\ E[0] = 0 /\ size = E[N]
  /\ \A k \in 0..N : E[k] \in Nat
  /\ \A k \in 1..N : E[k - 1] < E[k]
  /\ {i \in 1..size : bytes[i] = NUL} = FirstOf(E, N)

LEMMA BuildFromEnds ==
  ASSUME NEW N, NEW E, NEW m, NEW size, NEW bytes, bytes = BytesAt(m, size),
         NulsAt(E, N, bytes, size)
  PROVE  build_strings_array(m, size) =
           [k \in 1..N |-> SubSeq(bytes, E[k - 1] + 1, E[k] - 1)]
<1> DEFINE nuls == {i \in 1..size : bytes[i] = NUL}
           count == Cardinality(nuls)
           Nul(k) == IF k = 0 THEN 0 ELSE NulAt(nuls, k)
           ended == [k \in 1..count |->
                       SubSeq(bytes, Nul(k - 1) + 1, Nul(k) - 1)]
           tail == SubSeq(bytes, Nul(count) + 1, size)
<1>1. build_strings_array(m, size) =
        IF tail = <<>> THEN ended ELSE Append(ended, Append(tail, Comma))
  BY DEF build_strings_array, NulAt, BytesAt
<1>0. /\ N \in Nat /\ E[0] = 0 /\ size = E[N]
      /\ \A k \in 0..N : E[k] \in Nat
      /\ \A k \in 1..N : E[k - 1] < E[k]
  BY DEF NulsAt
<1>2. \A j, k \in 0..N : j < k => E[j] < E[k]
  BY <1>0, EndsIncrease
<1>n. nuls = FirstOf(E, N)
  BY DEF NulsAt
<1> HIDE DEF nuls
<1>3. count = N
  <2>1. N \in 0..N
    BY <1>0
  <2>2. \A n \in 0..N : Cardinality(FirstOf(E, n)) = n
    BY <1>0, <1>2, EndsCount
  <2> QED BY <1>n, <2>1, <2>2
<1>4. \A k \in 0..N : Nul(k) = E[k]
  <2>1. \A k \in 1..N : NulAt(nuls, k) = E[k]
    BY <1>0, <1>2, <1>n, WalkFindsEnds
  <2>2. \A k \in 0..N : k = 0 \/ k \in 1..N
    BY <1>0
  <2> QED BY <1>0, <2>1, <2>2, Zenon
<1> HIDE DEF count, Nul
<1>5. tail = <<>>
  <2>1. N \in 0..N /\ size \in Nat
    BY <1>0
  <2>2. Nul(count) = size
    BY <1>0, <1>3, <1>4, <2>1
  <2>3. SubSeq(bytes, size + 1, size) = <<>>
    BY <2>1
  <2> QED BY <2>2, <2>3
<1>6. ended = [k \in 1..N |-> SubSeq(bytes, E[k - 1] + 1, E[k] - 1)]
  <2>1. \A k \in 1..N : k \in 0..N /\ k - 1 \in 0..N
    BY <1>0
  <2>2. \A k \in 1..N : Nul(k - 1) = E[k - 1] /\ Nul(k) = E[k]
    BY <1>4, <2>1
  <2> QED BY <1>3, <2>2
<1> HIDE DEF tail, ended
<1> QED BY <1>1, <1>5, <1>6, Zenon

\* The place of every NUL of a body is the end of a string.
LEMMA NulsOfBody ==
  ASSUME NEW l \in Lists, NEW i \in 1..Size(l)
  PROVE  Body(l)[i] = NUL <=> \E k \in 1..Len(l) : i = UpTo(l, k)
<1> DEFINE N == Len(l)
           S == {k \in Nat : k \in 0..N /\ i <= UpTo(l, k)}
<1>1. l \in Seq(Seq(STRING \ {NUL})) /\ N \in Nat /\ Size(l) \in Nat
  BY ListType, LenProperties
<1>2. \A k \in 1..N : PartAt(l, k)
  BY <1>1, BodyParts
<1>3. UpTo(l, 0) = 0 /\ UpTo(l, N) = Size(l)
  BY <1>1, UpToEnds DEF Size
<1>4. ASSUME NEW k \in 1..N, i = UpTo(l, k)
      PROVE  Body(l)[i] = NUL
  BY <1>2, <1>4 DEF PartAt
<1>5. ASSUME Body(l)[i] = NUL
      PROVE  \E k \in 1..N : i = UpTo(l, k)
  <2>1. N \in S
    BY <1>1, <1>3
  <2>2. PICK k \in S : \A j \in S : k <= j
    <3>1. S \subseteq Nat
      OBVIOUS
    <3> HIDE DEF S
    <3> QED BY <2>1, <3>1, LeastNumber
  <2>3. k \in 0..N /\ i <= UpTo(l, k) /\ k # 0
    BY <1>3, <2>2
  <2>4. k \in 1..N /\ k - 1 \in 0..N /\ k - 1 \in Nat /\ ~(k <= k - 1)
    BY <1>1, <2>3
  <2>5. ~(i <= UpTo(l, k - 1))
    BY <2>2, <2>4
  <2>6. /\ UpTo(l, k - 1) \in Nat
        /\ UpTo(l, k) = UpTo(l, k - 1) + Len(l[k]) + 1
        /\ \A j \in 1..Len(l[k]) : Body(l)[UpTo(l, k - 1) + j] = l[k][j]
    BY <1>2, <2>4, Zenon DEF PartAt
  <2>7. l[k] \in Seq(STRING \ {NUL})
    BY <1>1, <2>4, ElementOfSeq
  <2>8. Len(l[k]) \in Nat /\ \A j \in 1..Len(l[k]) : l[k][j] # NUL
    <3>1. \A s \in Seq(STRING \ {NUL}) :
            Len(s) \in Nat /\ \A j \in 1..Len(s) : s[j] \in STRING \ {NUL}
      BY ElementOfSeq, LenProperties
    <3> QED BY <2>7, <3>1, Zenon
  <2>9. i = UpTo(l, k)
    <3> SUFFICES ASSUME i # UpTo(l, k) PROVE FALSE
      OBVIOUS
    <3> DEFINE j == i - UpTo(l, k - 1)
    <3>1. j \in 1..Len(l[k]) /\ UpTo(l, k - 1) + j = i
      BY <2>3, <2>5, <2>6, <2>8
    <3> QED BY <1>5, <2>6, <2>8, <3>1
  <2> QED BY <2>4, <2>9
<1> QED BY <1>4, <1>5

\* Facts on sequences as functions.
LEMMA SubSeqIs ==
  ASSUME NEW V, NEW s \in Seq(V), NEW a \in Nat, NEW n \in Nat,
         a + n <= Len(s)
  PROVE  SubSeq(s, a + 1, a + n) = [j \in 1..n |-> s[a + j]]
OBVIOUS

LEMMA FunctionIsSeq ==
  ASSUME NEW n \in Nat, NEW f, f = [j \in 1..n |-> f[j]]
  PROVE  f \in Seq({f[j] : j \in 1..n}) /\ Len(f) = n
OBVIOUS

LEMMA SeqIsFunction ==
  ASSUME NEW V, NEW s \in Seq(V)
  PROVE  s = [j \in 1..Len(s) |-> s[j]]
OBVIOUS

\* What has a list's body in memory has its strings.
LEMMA BuildsBack ==
  ASSUME NEW l \in Lists, NEW m,
         \A i \in 1..Size(l) : MemAt(m, i - 1) = Body(l)[i]
  PROVE  build_strings_array(m, Size(l)) = l
<1> DEFINE N == Len(l)
           E == [k \in 0..N |-> UpTo(l, k)]
           size == Size(l)
           bytes == BytesAt(m, size)
<1>1. l \in Seq(Seq(STRING \ {NUL})) /\ N \in Nat /\ size \in Nat
  BY ListType, LenProperties
<1>2. \A k \in 1..N : PartAt(l, k)
  BY <1>1, BodyParts
<1>3. UpTo(l, 0) = 0 /\ UpTo(l, N) = size
  BY <1>1, UpToEnds DEF Size
<1>a. \A k \in 0..N : E[k] = UpTo(l, k)
  OBVIOUS
<1>b. \A k \in 1..N : k \in 0..N /\ k - 1 \in 0..N /\ 0 \in 0..N /\ N \in 0..N
  BY <1>1
<1>c. \A i \in 1..size : bytes[i] = Body(l)[i]
  BY DEF BytesAt
<1>d. \A k \in 1..N : l[k] \in Seq(STRING \ {NUL}) /\ Len(l[k]) \in Nat
  <2>1. \A k \in 1..N : l[k] \in Seq(STRING \ {NUL})
    BY <1>1, ElementOfSeq
  <2> QED BY <2>1, LenProperties
<1> HIDE DEF E, size, bytes, N
<1>4. \A k \in 1..N : /\ E[k - 1] \in Nat /\ E[k] = E[k - 1] + Len(l[k]) + 1
                      /\ E[k] <= size
                      /\ \A j \in 1..Len(l[k]) : Body(l)[E[k - 1] + j] = l[k][j]
  BY <1>2, <1>a, <1>b, Zenon DEF PartAt, size, Size
<1>5. E[0] = 0 /\ size = E[N]
  <2>1. 0 \in 0..N /\ N \in 0..N
    BY <1>1
  <2> QED BY <1>3, <1>a, <2>1
<1>6. \A k \in 0..N : E[k] \in Nat
  <2> SUFFICES ASSUME NEW k \in 0..N PROVE E[k] \in Nat
    OBVIOUS
  <2>1. CASE k = 0
    BY <1>5, <2>1
  <2>2. CASE k # 0
    <3>1. k \in 1..N
      BY <1>1, <2>2
    <3>2. E[k - 1] \in Nat /\ E[k] = E[k - 1] + Len(l[k]) + 1 /\ Len(l[k]) \in Nat
      BY <1>4, <1>d, <3>1
    <3> QED BY <3>2
  <2> QED BY <2>1, <2>2
<1>7. \A k \in 1..N : E[k - 1] < E[k]
  <2> SUFFICES ASSUME NEW k \in 1..N PROVE E[k - 1] < E[k]
    OBVIOUS
  <2>1. E[k - 1] \in Nat /\ E[k] = E[k - 1] + Len(l[k]) + 1 /\ Len(l[k]) \in Nat
    BY <1>4, <1>d
  <2> QED BY <2>1
<1>8. {i \in 1..size : bytes[i] = NUL} = FirstOf(E, N)
  <2>1. \A i \in 1..size :
          bytes[i] = NUL <=> \E k \in 1..N : i = E[k]
    <3>1. \A i \in 1..size :
            Body(l)[i] = NUL <=> \E k \in 1..N : i = UpTo(l, k)
      BY NulsOfBody DEF size, N
    <3> QED BY <1>a, <1>b, <1>c, <3>1, Zenon
  <2>2. \A k \in 1..N : E[k] \in 1..size
    <3> SUFFICES ASSUME NEW k \in 1..N PROVE E[k] \in 1..size
      OBVIOUS
    <3>1. E[k - 1] \in Nat /\ E[k] = E[k - 1] + Len(l[k]) + 1
          /\ Len(l[k]) \in Nat /\ E[k] <= size
      BY <1>4, <1>d
    <3> QED BY <1>1, <3>1
  <2>3. \A i : i \in {j \in 1..size : bytes[j] = NUL} <=> i \in FirstOf(E, N)
    BY <2>1, <2>2, Zenon DEF FirstOf
  <2> QED BY <2>3, Zenon
<1>9. build_strings_array(m, size) =
        [k \in 1..N |-> SubSeq(bytes, E[k - 1] + 1, E[k] - 1)]
  <2>1. NulsAt(E, N, bytes, size)
    BY <1>1, <1>5, <1>6, <1>7, <1>8, Zenon DEF NulsAt
  <2>2. \A n, b : b = BytesAt(m, n) /\ NulsAt(E, N, b, n) =>
          build_strings_array(m, n) =
            [k \in 1..N |-> SubSeq(b, E[k - 1] + 1, E[k] - 1)]
    BY BuildFromEnds
  <2>3. bytes = BytesAt(m, size)
    BY DEF bytes
  <2> QED BY <2>1, <2>2, <2>3, ZenonT(40)
<1>10. ASSUME NEW k \in 1..N
       PROVE  SubSeq(bytes, E[k - 1] + 1, E[k] - 1) = l[k]
  <2> DEFINE a == E[k - 1]
             n == Len(l[k])
             s == SubSeq(bytes, a + 1, E[k] - 1)
  <2>1. /\ a \in Nat /\ n \in Nat /\ E[k] = a + n + 1 /\ E[k] <= size
        /\ \A j \in 1..n : Body(l)[a + j] = l[k][j]
    BY <1>4, <1>d
  <2>2. bytes \in Seq({bytes[i] : i \in 1..size}) /\ Len(bytes) = size
    <3>1. bytes = [i \in 1..size |-> bytes[i]]
      BY DEF bytes, BytesAt
    <3> QED BY <1>1, <3>1, FunctionIsSeq
  <2> HIDE DEF a, n
  <2>3. s = [j \in 1..n |-> bytes[a + j]]
    <3>1. E[k] - 1 = a + n
      BY <2>1
    <3>2. SubSeq(bytes, a + 1, a + n) = [j \in 1..n |-> bytes[a + j]]
      <4>1. a + n <= Len(bytes)
        BY <1>1, <2>1, <2>2
      <4> QED BY <2>1, <2>2, <4>1, SubSeqIs
    <3> QED BY <3>1, <3>2
  <2>4. \A j \in 1..n : bytes[a + j] = l[k][j]
    <3> SUFFICES ASSUME NEW j \in 1..n PROVE bytes[a + j] = l[k][j]
      OBVIOUS
    <3>1. a + j \in 1..size
      BY <1>1, <2>1
    <3> QED BY <1>c, <2>1, <3>1
  <2>5. l[k] = [j \in 1..n |-> l[k][j]]
    BY <1>d, SeqIsFunction DEF n
  <2> HIDE DEF s
  <2>6. s = l[k]
    <3>1. [j \in 1..n |-> bytes[a + j]] = [j \in 1..n |-> l[k][j]]
      BY <2>4, Zenon
    <3> QED BY <2>3, <2>5, <3>1, Zenon
  <2> QED BY <2>6 DEF s, a
<1>11. l = [k \in 1..N |-> l[k]]
  BY <1>1, SeqIsFunction DEF N
<1>12. [k \in 1..N |-> SubSeq(bytes, E[k - 1] + 1, E[k] - 1)]
         = [k \in 1..N |-> l[k]]
  BY <1>10, Zenon
<1> QED BY <1>9, <1>11, <1>12, Zenon DEF size

-----------------------------------------------------------------------------
\* What is in memory.

\* The bytes that came behind the colon are those of the message.
WholeSoFar ==
  /\ LengthKnown
  /\ \A i \in 1..next_p : mem[i - 1] = Message[Places(list) + 1 + i]

\* Nothing more will come, and the comma has not.
Hopeless == AtEnd /\ h_size \in 0..NumberCap /\ next_p = 0

Rebuilt ==
  /\ h_size = Size(list)
  /\ \A i \in 1..Size(list) : mem[i - 1] = Body(list)[i]

MemInv == DOMAIN mem = 0..(Len(Stream) + PREAMBLE_MAX)

Contents ==
  /\ MemInv
  /\ ~CutByStrncpy /\ ~CutInPreamble =>
       /\ pc = "more" => DigitsOnly
       /\ pc = "rest" => WholeSoFar \/ Hopeless
       /\ retval = "SUCCESS" => Rebuilt

LEMMA SubSeqFacts ==
  ASSUME NEW V, NEW s \in Seq(V), NEW a \in Nat, NEW n \in Nat, a + n <= Len(s)
  PROVE  /\ SubSeq(s, a + 1, a + n) \in Seq(V)
         /\ Len(SubSeq(s, a + 1, a + n)) = n
         /\ DOMAIN SubSeq(s, a + 1, a + n) = 1..n
         /\ \A j \in 1..n : SubSeq(s, a + 1, a + n)[j] = s[a + j]
BY SMTT(30)

LEMMA ByteSubSeq ==
  \A a, n \in Nat : \A s \in Seq(Byte) : a + n <= Len(s) =>
    /\ SubSeq(s, a + 1, a + n) \in Seq(Byte)
    /\ Len(SubSeq(s, a + 1, a + n)) = n
    /\ \A j \in 1..n : SubSeq(s, a + 1, a + n)[j] = s[a + j]
<1> TAKE a, n \in Nat
<1> TAKE s \in Seq(Byte)
<1> HAVE a + n <= Len(s)
<1> QED BY SubSeqFacts

\* Storing at strings[0] what strncpy makes of the bytes behind the colon.
LEMMA StrncpyFacts ==
  ASSUME NEW V, NEW s \in Seq(V)
  PROVE  /\ strncpy(s) \in Seq(V \cup {NUL}) /\ Len(strncpy(s)) = Len(s)
         /\ \A i \in 1..Len(s) :
              strncpy(s)[i] = IF \E j \in 1..i : s[j] = NUL THEN NUL ELSE s[i]
<1> DEFINE F(i) == IF \E j \in 1..i : s[j] = NUL THEN NUL ELSE s[i]
<1>1. DOMAIN s = 1..Len(s) /\ Len(s) \in Nat /\ \A i \in 1..Len(s) : s[i] \in V
  BY LenProperties, ElementOfSeq
<1>2. strncpy(s) = [i \in 1..Len(s) |-> F(i)]
  BY <1>1, Zenon DEF strncpy
<1>3. \A i \in 1..Len(s) : F(i) \in V \cup {NUL}
  BY <1>1
<1> HIDE DEF F
<1>4. /\ strncpy(s) \in Seq(V \cup {NUL}) /\ Len(strncpy(s)) = Len(s)
      /\ \A i \in 1..Len(s) : strncpy(s)[i] = F(i)
  BY <1>1, <1>2, <1>3
<1> QED BY <1>4 DEF F

LEMMA StoreFacts ==
  ASSUME NEW m, NEW d \in Nat, DOMAIN m = 0..d, NEW at \in Nat,
         NEW V, NEW s \in Seq(V)
  PROVE  /\ DOMAIN Store(m, at, s) = 0..d
         /\ \A i \in 0..d :
              /\ i < at => Store(m, at, s)[i] = m[i]
              /\ i >= at /\ i < at + Len(s) =>
                   Store(m, at, s)[i] = s[(i - at) + 1]
              /\ i >= at + Len(s) => Store(m, at, s)[i] = m[i]
<1>1. Len(s) \in Nat
  BY LenProperties
<1>2. \A i \in 0..d : /\ i \in at..(at + Len(s) - 1) <=> i >= at /\ i < at + Len(s)
                      /\ i - at + 1 = (i - at) + 1
  BY <1>1
<1>3. \A i \in 0..d : (i < at => ~(i >= at)) /\ (i >= at + Len(s) => ~(i < at + Len(s)))
  BY <1>1
<1>4. DOMAIN Store(m, at, s) = 0..d
  BY DEF Store
<1>5. \A i \in 0..d : Store(m, at, s)[i] =
         IF i \in at..(at + Len(s) - 1) THEN s[i - at + 1] ELSE m[i]
  BY DEF Store
<1> QED BY <1>2, <1>3, <1>4, <1>5, Zenon

LEMMA MemRange ==
  ASSUME Typed, MemInv
  PROVE  /\ Len(Stream) + PREAMBLE_MAX \in Nat
         /\ DOMAIN mem = 0..(Len(Stream) + PREAMBLE_MAX)
         /\ 11 <= Len(Stream) + PREAMBLE_MAX
         /\ Len(Message) <= Len(Stream) + PREAMBLE_MAX
         /\ PREAMBLE_MAX = 11
<1>1. Len(Stream) \in Nat /\ Len(Message) \in Nat /\ Len(Message) <= Len(Stream)
  BY ListFacts
<1> QED BY <1>1 DEF MemInv, PREAMBLE_MAX

LEMMA MessageDigits ==
  ASSUME Typed
  PROVE  /\ \A i \in 1..Places(list) : IsDigit(Message[i]) /\ Message[i] # Colon
         /\ \A i \in 1..Size(list) : Message[Places(list) + 1 + i] = Body(list)[i]
         /\ Message[Places(list) + Size(list) + 2] = Comma
<1>1. list \in Lists /\ Message = Wire[list]
  BY ListFacts
<1>2. \A i \in 1..Places(list) : IsDigit(Message[i])
  BY <1>1, Shape
<1>3. \A i \in 1..Places(list) : Message[i] # Colon
  BY <1>2, NoDigits, Zenon
<1> QED BY <1>1, <1>2, <1>3, Shape

LEMMA MemStore ==
  ASSUME NEW d \in Nat, DOMAIN mem = 0..d
  PROVE  \A at \in Nat, s \in Seq(Byte) :
           /\ DOMAIN Store(mem, at, s) = 0..d
           /\ \A j \in 0..d :
                /\ j < at => Store(mem, at, s)[j] = mem[j]
                /\ j >= at /\ j < at + Len(s) =>
                     Store(mem, at, s)[j] = s[(j - at) + 1]
<1> TAKE at \in Nat, s \in Seq(Byte)
<1>1. /\ DOMAIN Store(mem, at, s) = 0..d
      /\ \A j \in 0..d :
           /\ j < at => Store(mem, at, s)[j] = mem[j]
           /\ j >= at /\ j < at + Len(s) =>
                Store(mem, at, s)[j] = s[(j - at) + 1]
           /\ j >= at + Len(s) => Store(mem, at, s)[j] = mem[j]
  BY StoreFacts
<1> QED BY <1>1, Zenon

\* Where the reader of the MIN_SIZE mode is when it has the colon.
PreambleEnd == IF Places(list) + 1 <= InitReadSize THEN InitReadSize ELSE PREAMBLE_MAX

LEMMA ColonIs ==
  ASSUME Typed
  PROVE  ColonAt = Places(list) + 1
<1> DEFINE p == Places(list)
           C(k) == Message[k] = Colon /\ StartsWithDigits(Message, k - 1)
<1>1. /\ list \in Lists /\ Message = Wire[list] /\ Message \in Seq(Byte)
      /\ Len(Message) \in Nat
  BY ListFacts
<1>2. p \in 1..5 /\ Len(Message) > p /\ Message[p + 1] = Colon
  BY <1>1, PlacesType
<1>3. p + 1 \in DOMAIN Message
  <2>1. DOMAIN Message = 1..Len(Message)
    BY <1>1, LenProperties
  <2> QED BY <1>1, <1>2, <2>1
<1>4. StartsWithDigits(Message, p)
  <2>1. \A i \in 1..p : IsDigit(Message[i])
    BY MessageDigits
  <2>2. ~IsDigit(Message[p + 1])
    BY <1>2, NoDigits
  <2> QED BY <2>1, <2>2 DEF StartsWithDigits
<1>5. C(p + 1)
  <2>1. (p + 1) - 1 = p
    BY <1>2
  <2> QED BY <1>2, <1>4, <2>1
<1>6. \A k \in DOMAIN Message : C(k) => k = p + 1
  <2> SUFFICES ASSUME NEW k \in DOMAIN Message, C(k)
               PROVE  k = p + 1
    OBVIOUS
  <2>1. k - 1 \in 0..Len(Message) /\ k - 1 \in Int /\ k \in Int
    <3>1. DOMAIN Message = 1..Len(Message)
      BY <1>1, LenProperties
    <3>2. \A j \in 1..Len(Message) : j - 1 \in 0..Len(Message) /\ j - 1 \in Int /\ j \in Int
      BY <1>1
    <3> QED BY <3>1, <3>2, Zenon
  <2>2. Begins(Message, Wire[list])
    BY <1>1 DEF Begins
  <2>3. k - 1 = p
    <3>1. StartsWithDigits(Message, k - 1)
      OBVIOUS
    <3>2. \A j \in 0..Len(Message) : StartsWithDigits(Message, j) => j = p
      BY <1>1, <1>2, <2>2, DigitsOfBeginning
    <3> QED BY <2>1, <3>1, <3>2, Zenon
  <2> QED BY <1>2, <2>1, <2>3
<1> HIDE DEF C
<1>7. ColonAt = CHOOSE k \in DOMAIN Message : C(k)
  BY Zenon DEF ColonAt, C
<1>8. ColonAt = p + 1
  BY <1>3, <1>5, <1>6, <1>7, Zenon
<1> QED BY <1>8

LEMMA ResidualIs ==
  ASSUME Typed, mode = "min_size"
  PROVE  /\ FirstBytes = PreambleEnd
         /\ Residual = SubSeq(Message, Places(list) + 2, PreambleEnd)
<1>1. ColonAt = Places(list) + 1
  BY ColonIs
<1>2. FirstBytes = PreambleEnd
  BY <1>1, Zenon DEF FirstBytes, PreambleEnd
<1>3. Places(list) \in 1..5
  BY PlacesType
<1>4. ColonAt + 1 = Places(list) + 2
  BY <1>1, <1>3
<1> QED BY <1>2, <1>4, Zenon DEF Residual

\* What a read leaves alone, and with it what the exceptions depend on.
LEMMA SameCut ==
  ASSUME list' = list, source' = source, mode' = mode, min_length' = min_length
  PROVE  /\ FirstBytes' = FirstBytes /\ CutByStrncpy' = CutByStrncpy
         /\ closed' = closed /\ sentTo' = sentTo => CutInPreamble' = CutInPreamble
<1>1. Message' = Message /\ InitReadSize' = InitReadSize
  BY DEF Message, InitReadSize
<1>2. ColonAt' = ColonAt /\ Scanning' = Scanning
  BY <1>1 DEF ColonAt, Scanning
<1>3. FirstBytes' = FirstBytes
  BY <1>1, <1>2 DEF FirstBytes
<1>4. Residual' = Residual
  BY <1>1, <1>2, <1>3 DEF Residual
<1> QED BY <1>3, <1>4 DEF CutByStrncpy, CutInPreamble

\* A read that comes to the end before the bytes for the length are complete.
LEMMA ShortReadIsCut ==
  ASSUME Typed, mode = "min_size", AtEnd', pos' < PreambleEnd,
         UNCHANGED <<list, source, mode, min_length>>
  PROVE  CutInPreamble'
<1>1. FirstBytes = PreambleEnd
  BY ResidualIs
<1>2. FirstBytes' = FirstBytes
  BY SameCut
<1> QED BY <1>1, <1>2 DEF CutInPreamble, AtEnd

\* What is in memory when the colon has been found.
LEMMA ParseContents ==
  ASSUME Typed, MemInv, mode = "min_size", ~CutByStrncpy, list' = list,
         NEW buf \in Seq(Byte), Len(buf) \in 3..PREAMBLE_MAX,
         Begins(buf, Message), ParsePreamble(buf), pc' = "rest",
         Len(buf) > Places(list) => Len(buf) = PreambleEnd, pos' = Len(buf)
  PROVE  WholeSoFar'
<1> DEFINE p == Places(list)
           c == Len(buf)
           m == c - p - 1
           R == SubSeq(Message, (p + 1) + 1, (p + 1) + m)
           s == SubSeq(buf, (p + 1) + 1, (p + 1) + m)
<1>1. p \in 1..5 /\ p \in Nat
  BY PlacesType
<1>2. c \in Nat /\ c <= 11
  <2>1. c \in Nat /\ c <= PREAMBLE_MAX
    BY PreambleRange, Zenon
  <2> QED BY <2>1 DEF PREAMBLE_MAX
<1>3. ~(c <= p)
  BY ParseBeginning
<1>4. /\ h_size' = Size(list) /\ next_p' = m
      /\ mem' = Store(mem, 0, strncpy(SubSeq(buf, p + 2, c)))
      /\ c = PreambleEnd
  <2>1. c > p
    BY <1>1, <1>2, <1>3
  <2> QED BY <2>1, ParseBeginning
<1>5. m \in Nat /\ m <= 11 /\ (p + 1) + 1 = p + 2 /\ (p + 1) + m = c /\ p + 1 \in Nat
  BY <1>1, <1>2, <1>3
<1>6. c <= Len(Message) /\ \A i \in 1..c : buf[i] = Message[i]
  BY DEF Begins
<1>7. /\ Message \in Seq(Byte) /\ (p + 1) + m <= Len(Message)
      /\ (p + 1) + m <= Len(buf)
  <2>1. (p + 1) + m <= c
    BY <1>2, <1>5
  <2> QED BY <1>5, <1>6, <2>1, ListFacts
<1>8. pos' = Places(list') + 1 + next_p' /\ h_size' = Size(list')
  <2>1. c = p + 1 + m
    BY <1>5
  <2> QED BY <1>4, <2>1
<1> HIDE DEF p, c, m
<1>9. /\ R \in Seq(Byte) /\ Len(R) = m
      /\ \A j \in 1..m : R[j] = Message[(p + 1) + j]
      /\ s \in Seq(Byte) /\ Len(s) = m
      /\ \A j \in 1..m : s[j] = buf[(p + 1) + j]
  BY <1>5, <1>7, ByteSubSeq, ZenonT(40)
<1>10. strncpy(R) = R
  <2>1. Residual = R
    <3>1. Residual = SubSeq(Message, p + 2, PreambleEnd)
      BY ResidualIs DEF p
    <3> QED BY <1>4, <1>5, <3>1, Zenon
  <2> QED BY <2>1 DEF CutByStrncpy
<1>11. mem' = Store(mem, 0, strncpy(s))
  BY <1>4, <1>5, Zenon
<1> HIDE DEF R, s
<1>12. s = R
  <2>1. \A j \in 1..m : (p + 1) + j \in 1..c
    BY <1>5
  <2>2. \A j \in 1..m : s[j] = R[j]
    BY <1>6, <1>9, <2>1
  <2>3. \A x, y \in Seq(Byte) :
          Len(x) = Len(y) /\ (\A i \in 1..Len(x) : x[i] = y[i]) => x = y
    BY SeqEqual
  <2> QED BY <1>9, <2>2, <2>3, Zenon
<1>13. mem' = Store(mem, 0, R)
  BY <1>10, <1>11, <1>12, Zenon
<1>14. \A i \in 1..m : mem'[i - 1] = Message[p + 1 + i]
  <2> DEFINE d == Len(Stream) + PREAMBLE_MAX
  <2>1. d \in Nat /\ DOMAIN mem = 0..d /\ 11 <= d
    BY MemRange
  <2> HIDE DEF d
  <2>2. \A i \in 0..d : i >= 0 /\ i < 0 + Len(R) =>
          Store(mem, 0, R)[i] = R[(i - 0) + 1]
    BY <1>9, <2>1, StoreFacts, SMTT(30)
  <2>3. \A i \in 1..m : /\ i - 1 \in 0..d /\ i - 1 >= 0 /\ i - 1 < 0 + m
                        /\ ((i - 1) - 0) + 1 = i
    BY <1>5, <2>1
  <2>4. \A i \in 1..m : mem'[i - 1] = R[i]
    BY <1>9, <1>13, <2>2, <2>3, Zenon
  <2> QED BY <1>9, <2>4, Zenon
<1>15. \A i \in 1..next_p' : mem'[i - 1] = Message'[Places(list') + 1 + i]
  <2>1. Message' = Message
    BY DEF Message
  <2> QED BY <1>4, <1>14, <2>1, Zenon DEF p
<1> QED BY <1>8, <1>15 DEF WholeSoFar, LengthKnown

\* Memory keeps its size.
LEMMA MemKept ==
  ASSUME Typed, MemInv, list' = list,
         \/ mem' = mem
         \/ \E at \in Nat, s \in Seq(Byte) : mem' = Store(mem, at, s)
  PROVE  MemInv'
<1>1. Stream' = Stream
  BY DEF Stream, Message
<1> DEFINE d == Len(Stream) + PREAMBLE_MAX
<1>2. d \in Nat /\ DOMAIN mem = 0..d
  BY MemRange
<1>3. CASE mem' = mem
  BY <1>1, <1>3 DEF MemInv
<1>4. ASSUME NEW at \in Nat, NEW s \in Seq(Byte), mem' = Store(mem, at, s)
      PROVE  DOMAIN mem' = 0..d
  <2> HIDE DEF d
  <2>1. DOMAIN Store(mem, at, s) = 0..d
    BY <1>2, StoreFacts
  <2> QED BY <1>4, <2>1
<1>5. DOMAIN mem' = 0..d
  BY <1>2, <1>3, <1>4, Zenon
<1>6. (Len(Stream) + PREAMBLE_MAX)' = d
  BY <1>1
<1> HIDE DEF d
<1> QED BY <1>5, <1>6 DEF MemInv

LEMMA ParseKeepsMem ==
  ASSUME Typed, MemInv, list' = list, NEW buf \in Seq(Byte), ParsePreamble(buf)
  PROVE  MemInv'
<1>1. PICK k \in 0..Len(buf) :
        /\ StartsWithDigits(buf, k)
        /\ preamble' = buf
        /\ h_size' = NumberOf(SubSeq(buf, 1, k))
        /\ IF k < Len(buf) /\ buf[k + 1] = Colon
           THEN /\ mem' = Store(mem, 0, strncpy(SubSeq(buf, k + 2, Len(buf))))
                /\ next_p' = Len(buf) - k - 1
                /\ pc' = "rest"
                /\ UNCHANGED retval
           ELSE /\ \/ Fail("MISSING_COLON")
                   \/ /\ k = PREAMBLE_MAX /\ InitReadSize < PREAMBLE_MAX
                      /\ Fail("FAULT")
                /\ UNCHANGED <<mem, next_p>>
  BY Zenon DEF ParsePreamble
<1>2. Len(buf) \in Nat
  BY LenProperties
<1>3. CASE k < Len(buf) /\ buf[k + 1] = Colon
  <2> DEFINE s == SubSeq(buf, k + 2, Len(buf))
  <2>1. s \in Seq(Byte)
    BY <1>2, <1>3
  <2>2. Byte \cup {NUL} = Byte
    BY DEF Byte
  <2> HIDE DEF s
  <2>3. strncpy(s) \in Seq(Byte)
    BY <2>1, <2>2, StrncpyFacts
  <2>4. mem' = Store(mem, 0, strncpy(s)) /\ 0 \in Nat
    BY <1>1, <1>3, Zenon DEF s
  <2> QED BY <2>3, <2>4, MemKept, Zenon
<1>4. CASE ~(k < Len(buf) /\ buf[k + 1] = Colon)
  <2>1. mem' = mem
    BY <1>1, <1>4, Zenon
  <2> QED BY <2>1, MemKept
<1> QED BY <1>3, <1>4

\* A step that leaves "rest" to another and returns nothing.
LEMMA QuietStep ==
  ASSUME MemInv', pc' = "more" => DigitsOnly' \/ CutInPreamble',
         pc' # "rest", retval' # "SUCCESS"
  PROVE  Contents'
BY DEF Contents

LEMMA InitContents == Init => Contents
<1> SUFFICES ASSUME Init PROVE Contents
  OBVIOUS
<1>1. MemInv /\ retval # "SUCCESS" /\ pc # "rest" /\ pc # "more"
  <2>1. DOMAIN mem = 0..(Len(Stream) + PREAMBLE_MAX)
    BY Zenon DEF Init
  <2>2. retval = "none" /\ pc = IF mode = "min_size" THEN "init" ELSE "digits"
    BY Zenon DEF Init
  <2> QED BY <2>1, <2>2 DEF MemInv
<1> QED BY <1>1 DEF Contents

\* No byte of the strings comes with the digits when these are read one by one.
LEMMA DigitContents ==
  ASSUME PInv, PInv', Contents, ReadDigit \/ ReadDigitAtEnd
  PROVE  Contents'
<1>1. pc = "digits" /\ Take(1) /\ list' = list
  BY Zenon DEF ReadDigit, ReadDigitAtEnd, Take, inputVars
<1>2. ASSUME NEW c, EndOfDigits(c)
      PROVE  /\ mem' = mem /\ next_p' = 0 /\ pc' \in {"rest", "done"}
             /\ retval' = retval \/ retval' = "MISSING_COLON"
             /\ h_size' \in 0..NumberCap \/ (Scanning /\ preamble = <<>>)
  <2>1. mem' = mem
    BY <1>2, Zenon DEF EndOfDigits
  <2>2. next_p = 0
    BY <1>1, DigitsPreamble
  <2> QED BY <1>1, <1>2, <2>1, <2>2, EndOfDigitsOutcome
<1>3. \/ \E c : EndOfDigits(c)
      \/ pc' = pc /\ mem' = mem /\ next_p' = next_p /\ retval' = retval
  BY Zenon DEF ReadDigit, ReadDigitAtEnd
<1>4. /\ mem' = mem /\ pc' \in {"digits", "rest", "done"}
      /\ retval' = retval \/ retval' = "MISSING_COLON"
      /\ pc' = "rest" =>
           /\ next_p' = 0
           /\ h_size' \in 0..NumberCap \/ (Scanning /\ preamble = <<>>)
  BY <1>1, <1>2, <1>3
<1>5. retval' # "SUCCESS" /\ pc' # "more"
  <2>1. retval = "none"
    BY <1>1 DEF PInv, Typed, TypeOK
  <2> QED BY <1>4, <2>1
<1>6. MemInv'
  <2>1. Typed /\ MemInv
    BY DEF PInv, Contents
  <2> QED BY <1>1, <1>4, <2>1, MemKept
<1>7. ASSUME pc' = "rest", ~CutInPreamble'
      PROVE  WholeSoFar' \/ Hopeless'
  <2>1. CASE LengthKnown'
    <3>1. \A i \in 1..next_p' : mem'[i - 1] = Message'[Places(list') + 1 + i]
      BY <1>4, <1>7
    <3> QED BY <2>1, <3>1 DEF WholeSoFar
  <2>2. CASE ~LengthKnown'
    <3>1. ReadDigitAtEnd
      BY <1>7, <2>2, ReadDigitPosition
    <3>2. AtEnd'
      BY <1>7, <2>2 DEF PInv, Position
    <3>3. ~(Scanning /\ preamble = <<>>)
      <4> SUFFICES ASSUME Scanning, preamble = <<>> PROVE FALSE
        OBVIOUS
      <4>1. pos = 0
        <5>1. Len(preamble) = pos
          BY <1>1, DigitsPreamble
        <5> QED BY <5>1
      <4>2. pos' = 0
        <5>1. Got(1) = 0
          BY <3>1 DEF ReadDigitAtEnd
        <5>2. pos' = pos + Got(1)
          BY <1>1 DEF Take
        <5> QED BY <4>1, <5>1, <5>2
      <4>3. Scanning' /\ mode' # "min_size"
        <5>1. mode' = mode /\ source' = source
          BY <1>1 DEF Take, inputVars
        <5> QED BY <5>1 DEF Scanning
      <4>4. FirstBytes' = 1
        BY <4>3 DEF FirstBytes
      <4> QED BY <1>7, <3>2, <4>2, <4>4 DEF AtEnd, CutInPreamble
    <3> QED BY <1>4, <1>7, <3>2, <3>3 DEF Hopeless
  <2> QED BY <2>1, <2>2
<1> QED BY <1>5, <1>6, <1>7 DEF Contents

\* What the two reads of the MIN_SIZE mode have in common.
LEMMA ParseStep ==
  ASSUME PInv, PInv', Contents, mode = "min_size", pc # "done",
         UNCHANGED <<list, source, mode, min_length>>,
         NEW buf \in Seq(Byte), Len(buf) \in 3..PREAMBLE_MAX, ParsePreamble(buf),
         \/ CutInPreamble'
         \/ /\ Begins(buf, Message) /\ pos' = Len(buf)
            /\ Len(buf) > Places(list) => Len(buf) = PreambleEnd
  PROVE  Contents'
<1>1. Typed /\ MemInv /\ CutByStrncpy' = CutByStrncpy /\ list' = list
  BY SameCut DEF PInv, Contents
<1>2. MemInv'
  BY <1>1, ParseKeepsMem
<1>3. /\ pc' = "rest" \/ pc' = "done"
      /\ retval' = retval \/ retval' \in {"MISSING_COLON", "FAULT"}
  <2>1. Len(buf) <= PREAMBLE_MAX
    BY PreambleRange, Zenon
  <2> QED BY <2>1, ParseOutcome
<1>4. retval' # "SUCCESS"
  <2>1. retval = "none"
    BY <1>1 DEF Typed, TypeOK
  <2> QED BY <1>3, <2>1
<1>5. ASSUME pc' = "rest", ~CutByStrncpy, ~CutInPreamble'
      PROVE  WholeSoFar'
  BY <1>1, <1>5, ParseContents
<1> QED BY <1>1, <1>2, <1>3, <1>4, <1>5 DEF Contents

\* A read changes neither what was chosen nor the peer.
LEMMA ReadKeeps ==
  ASSUME NEW n, Take(n)
  PROVE  /\ UNCHANGED <<list, source, mode, min_length, sentTo, closed>>
         /\ Message' = Message /\ InitReadSize' = InitReadSize
         /\ PreambleEnd' = PreambleEnd /\ CutInPreamble' = CutInPreamble
         /\ CutByStrncpy' = CutByStrncpy
<1>1. UNCHANGED <<list, source, mode, min_length, sentTo, closed>>
  BY DEF Take, inputVars, peerVars
<1>2. Message' = Message /\ InitReadSize' = InitReadSize
  BY <1>1 DEF Message, InitReadSize
<1>3. PreambleEnd' = PreambleEnd
  BY <1>1, <1>2 DEF PreambleEnd
<1> QED BY <1>1, <1>2, <1>3, SameCut

LEMMA ReadInitContents ==
  ASSUME FirstReadIsWhole, PInv, PInv', Contents, ReadInit
  PROVE  Contents'
<1>1. PICK buf \in Seq(Byte) :
           /\ Len(buf) = InitReadSize
           /\ buf = Filled(Bytes(InitReadSize), 0, InitReadSize)
           /\ \/ pos' = InitReadSize /\ Begins(buf, Message)
              \/ AtEnd' /\ pos' < InitReadSize
           /\ IF HasColon(buf) THEN ParsePreamble(buf)
              ELSE /\ pc' = "more"
                   /\ preamble' = buf
                   /\ UNCHANGED <<h_size, mem, next_p, retval>>
  BY FirstRead
<1>2. Typed /\ Typed' /\ Position /\ pc = "init" /\ MemInv /\ Take(InitReadSize)
  BY Zenon DEF PInv, Contents, ReadInit
<1>3. mode = "min_size"
  BY <1>2 DEF Position
<1>4. /\ UNCHANGED <<list, source, mode, min_length>>
      /\ PreambleEnd' = PreambleEnd /\ Message' = Message
      /\ InitReadSize' = InitReadSize
  BY <1>2, ReadKeeps
<1>5. /\ Len(buf) \in 3..PREAMBLE_MAX /\ InitReadSize \in 3..11
      /\ Places(list) \in 1..5
  BY <1>1, <1>2, PlacesType, ReadSizeType DEF PREAMBLE_MAX
<1>6. ASSUME AtEnd', pos' < InitReadSize
      PROVE  CutInPreamble'
  <2>1. InitReadSize <= PreambleEnd
    BY <1>5 DEF PreambleEnd, PREAMBLE_MAX
  <2>2. PreambleEnd \in Nat /\ pos' \in Nat
    BY <1>2, <1>5 DEF PreambleEnd, PREAMBLE_MAX, Typed
  <2>3. pos' < PreambleEnd
    BY <1>5, <1>6, <2>1, <2>2
  <2> QED BY <1>2, <1>3, <1>4, <1>6, <2>3, ShortReadIsCut
<1>7. CASE HasColon(buf)
  <2>1. ParsePreamble(buf)
    BY <1>1, <1>7, Zenon
  <2>2. Len(buf) > Places(list) => Len(buf) = PreambleEnd
    <3>1. Len(buf) > Places(list) => Places(list) + 1 <= InitReadSize
      BY <1>1, <1>5
    <3> QED BY <1>1, <3>1 DEF PreambleEnd
  <2>3. pc # "done"
    BY <1>2
  <2>4. \/ CutInPreamble'
        \/ /\ Begins(buf, Message) /\ pos' = Len(buf)
           /\ Len(buf) > Places(list) => Len(buf) = PreambleEnd
    BY <1>1, <1>6, <2>2
  <2> QED BY <1>3, <1>4, <1>5, <2>1, <2>3, <2>4, ParseStep
<1>8. CASE ~HasColon(buf)
  <2>1. pc' = "more" /\ preamble' = buf /\ mem' = mem /\ retval' = retval
    BY <1>1, <1>8, Zenon
  <2>2. ASSUME pos' = InitReadSize, Begins(buf, Message)
        PROVE  DigitsOnly'
    <3>1. list \in Lists /\ Begins(buf, Wire[list])
      BY <1>2, <2>2, ListFacts
    <3>2. ~(Len(buf) > Places(list))
      BY <1>8, <3>1, ColonOfBeginning
    <3>3. pos' <= Places(list')
      BY <1>1, <1>4, <1>5, <2>2, <3>2
    <3>4. Begins(preamble', Message')
      BY <1>4, <2>1, <2>2
    <3> QED BY <1>4, <2>2, <3>3, <3>4 DEF DigitsOnly
  <2>3. MemInv'
    BY <1>2, <1>4, <2>1, MemKept
  <2>4. retval' # "SUCCESS" /\ pc' # "rest"
    BY <1>2, <2>1 DEF Typed, TypeOK
  <2>5. DigitsOnly' \/ CutInPreamble'
    BY <1>1, <1>6, <2>2
  <2> QED BY <2>3, <2>4, <2>5, QuietStep
<1> QED BY <1>7, <1>8

LEMMA SendContents ==
  ASSUME PInv, Contents, Send \/ PeerClose
  PROVE  Contents'
<1>1. /\ ~closed
      /\ UNCHANGED <<inputVars, pos, pc, preamble, h_size, mem, next_p, retval>>
  BY Zenon DEF Send, PeerClose
<1>2. /\ list' = list /\ source' = source /\ mode' = mode
      /\ min_length' = min_length /\ pos' = pos
      /\ pc' = pc /\ preamble' = preamble /\ h_size' = h_size /\ mem' = mem
      /\ next_p' = next_p /\ retval' = retval
  BY <1>1 DEF inputVars
<1>3. CutByStrncpy' = CutByStrncpy
  BY <1>2, SameCut
<1>4. Message' = Message /\ Stream' = Stream /\ InitReadSize' = InitReadSize
  BY <1>2 DEF Message, Stream, InitReadSize
<1>5. MemInv'
  BY <1>2, <1>4 DEF Contents, MemInv
<1>6. ~Hopeless /\ ~CutInPreamble
  BY <1>1 DEF Hopeless, AtEnd, CutInPreamble
<1>7. (WholeSoFar => WholeSoFar') /\ (DigitsOnly => DigitsOnly')
  BY <1>2, <1>4 DEF WholeSoFar, LengthKnown, DigitsOnly
<1>8. Rebuilt => Rebuilt'
  BY <1>2 DEF Rebuilt
<1> QED BY <1>2, <1>3, <1>5, <1>6, <1>7, <1>8 DEF Contents

LEMMA ReadMoreContents ==
  ASSUME FirstReadIsWhole, PInv, PInv', Contents, ReadMore
  PROVE  Contents'
<1> DEFINE n == PREAMBLE_MAX - InitReadSize
<1>1. PICK buf \in Seq(Byte) :
        /\ Len(buf) = PREAMBLE_MAX
        /\ n \in Nat /\ Take(n)
        /\ ParsePreamble(buf)
        /\ \/ DigitsOnly /\ pos' = PREAMBLE_MAX /\ Begins(buf, Message)
           \/ /\ pos' <= Len(Message) /\ AtEnd'
              /\ DigitsOnly => pos' < PREAMBLE_MAX
  BY SecondRead, Zenon
<1> HIDE DEF n
<1>2. Typed /\ Typed' /\ Position /\ pc = "more" /\ MemInv
  BY Zenon DEF PInv, Contents, ReadMore
<1>3. mode = "min_size"
  BY <1>2 DEF Position
<1>4. /\ UNCHANGED <<list, source, mode, min_length>>
      /\ PreambleEnd' = PreambleEnd /\ CutInPreamble' = CutInPreamble
      /\ CutByStrncpy' = CutByStrncpy
  BY <1>1, ReadKeeps
<1>5. Len(buf) \in 3..PREAMBLE_MAX /\ InitReadSize \in 3..11 /\ Places(list) \in 1..5
  BY <1>1, <1>2, PlacesType, ReadSizeType DEF PREAMBLE_MAX
<1>6. DigitsOnly => PreambleEnd = PREAMBLE_MAX
  <2>1. DigitsOnly => ~(Places(list) + 1 <= InitReadSize)
    BY <1>5 DEF DigitsOnly
  <2> QED BY <2>1 DEF PreambleEnd
<1>7. CASE CutByStrncpy
  <2>1. MemInv'
    BY <1>1, <1>2, <1>4, ParseKeepsMem
  <2> QED BY <1>4, <1>7, <2>1 DEF Contents
<1>8. CASE ~CutByStrncpy
  <2>1. DigitsOnly \/ CutInPreamble'
    BY <1>2, <1>4, <1>8 DEF Contents
  <2>2. ASSUME DigitsOnly, AtEnd', pos' < PREAMBLE_MAX
        PROVE  CutInPreamble'
    <3>1. pos' < PreambleEnd
      BY <1>6, <2>2
    <3> QED BY <1>2, <1>3, <1>4, <2>2, <3>1, ShortReadIsCut
  <2>3. \/ CutInPreamble'
        \/ /\ Begins(buf, Message) /\ pos' = Len(buf)
           /\ Len(buf) > Places(list) => Len(buf) = PreambleEnd
    BY <1>1, <1>6, <2>1, <2>2
  <2>4. pc # "done"
    BY <1>2
  <2> QED BY <1>1, <1>3, <1>4, <1>5, <2>3, <2>4, ParseStep
<1> QED BY <1>7, <1>8

\* The last read puts the rest of the strings behind what is there.
LEMMA RestCompletes ==
  ASSUME Typed, Position, MemInv, WholeSoFar, Take(RestSize),
         Got(RestSize) = RestSize,
         mem' = Store(mem, next_p, Bytes(RestSize)),
         NEW i \in 1..Size(list)
  PROVE  mem'[i - 1] = Body(list)[i]
<1> DEFINE p == Places(list)
           n == Size(list)
           r == RestSize
           b == Bytes(r)
           d == Len(Stream) + PREAMBLE_MAX
<1>1. /\ h_size = n /\ pos = p + 1 + next_p
      /\ \A j \in 1..next_p : mem[j - 1] = Message[p + 1 + j]
  BY DEF WholeSoFar, LengthKnown
<1>2. p \in Nat /\ n \in Nat /\ Len(Message) = p + n + 2 /\ pos <= Len(Message)
  <2>1. p \in 1..5
    BY PlacesType
  <2> QED BY <2>1, PlacesType DEF Position
<1>3. /\ r \in Nat /\ next_p \in Nat /\ next_p <= n + 1 /\ r = n + 1 - next_p
  <2>1. /\ r \in Nat /\ h_size \in Int /\ next_p \in Nat
        /\ ~(h_size + 1 < next_p) => r = h_size + 1 - next_p
    BY RestSizeType
  <2> HIDE DEF p, n, r
  <2> QED BY <1>1, <1>2, <2>1
<1>4. /\ b \in Seq(Byte) /\ Len(b) = r
      /\ \A j \in 1..r : b[j] = Stream[pos + j]
  <2> HIDE DEF r
  <2>1. /\ Bytes(r) \in Seq(Byte) /\ Len(Bytes(r)) = Got(r)
        /\ \A j \in 1..Got(r) : Bytes(r)[j] = Stream[pos + j]
    BY <1>3, ReadFacts, Zenon DEF r
  <2>2. Got(r) = r
    BY DEF r
  <2> QED BY <2>1, <2>2
<1>5. d \in Nat /\ DOMAIN mem = 0..d /\ Len(Message) <= d
  BY MemRange
<1>6. \A j \in 1..Len(Message) : Stream[j] = Message[j]
  BY ListFacts
<1>7. mem' = Store(mem, next_p, b)
  OBVIOUS
<1>8. Message[p + 1 + i] = Body(list)[i]
  BY MessageDigits
<1>9. i \in 1..n
  OBVIOUS
<1> HIDE DEF p, n, r, b, d
<1>10. \A j \in 0..d :
         /\ j < next_p => mem'[j] = mem[j]
         /\ j >= next_p /\ j < next_p + Len(b) => mem'[j] = b[(j - next_p) + 1]
  <2>1. \A j \in 0..d :
         /\ j < next_p => Store(mem, next_p, b)[j] = mem[j]
         /\ j >= next_p /\ j < next_p + Len(b) =>
              Store(mem, next_p, b)[j] = b[(j - next_p) + 1]
    BY <1>5, <1>3, <1>4, MemStore, Zenon
  <2> QED BY <1>7, <2>1, Zenon
<1>11. i - 1 \in 0..d
  BY <1>2, <1>5, <1>9
<1>12. CASE i <= next_p
  <2>1. i \in 1..next_p /\ i - 1 < next_p
    BY <1>3, <1>9, <1>2, <1>12
  <2>2. mem'[i - 1] = mem[i - 1]
    BY <1>10, <1>11, <2>1
  <2> QED BY <1>1, <1>8, <2>1, <2>2
<1>13. CASE i > next_p
  <2>1. /\ i - 1 >= next_p /\ i - 1 < next_p + r
        /\ ((i - 1) - next_p) + 1 \in 1..r
        /\ pos + (((i - 1) - next_p) + 1) = p + 1 + i
        /\ p + 1 + i \in 1..Len(Message)
    BY <1>1, <1>2, <1>3, <1>9, <1>13
  <2>2. mem'[i - 1] = b[((i - 1) - next_p) + 1]
    BY <1>4, <1>10, <1>11, <2>1
  <2>3. b[((i - 1) - next_p) + 1] = Stream[p + 1 + i]
    BY <1>4, <2>1
  <2> QED BY <1>6, <1>8, <2>1, <2>2, <2>3
<1>14. i <= next_p \/ i > next_p
  BY <1>2, <1>3, <1>9
<1> QED BY <1>12, <1>13, <1>14

\* At the end nothing is left to read, and the comma is still to come.
LEMMA RestIsShort ==
  ASSUME Typed, Hopeless, Take(RestSize)
  PROVE  Got(RestSize) # RestSize
<1> DEFINE r == RestSize
<1>1. /\ r \in Nat /\ h_size \in Int
      /\ ~(h_size + 1 < next_p) => r = h_size + 1 - next_p
  BY RestSizeType
<1>2. h_size \in Nat /\ next_p = 0
  BY CapIsNatural DEF Hopeless
<1> HIDE DEF r
<1>3. r # 0
  BY <1>1, <1>2
<1>4. Got(r) = 0
  BY <1>1, AtEndRead DEF Hopeless, r
<1> QED BY <1>3, <1>4 DEF r

LEMMA ReadRestContents ==
  ASSUME PInv, Contents, ReadRest
  PROVE  Contents'
<1>1. Typed /\ Position /\ MemInv
  BY DEF PInv, Contents
<1>2. /\ pc = "rest" /\ Take(RestSize)
      /\ mem' = Store(mem, next_p, Bytes(RestSize))
      /\ UNCHANGED <<preamble, h_size, next_p>>
      /\ pc' = "done"
      /\ \/ retval' # "SUCCESS"
         \/ /\ retval' = "SUCCESS" /\ Got(RestSize) = RestSize
            /\ MemAt(mem', h_size) = Comma
  BY RestOutcome
<1>3. RestSize \in Nat /\ next_p \in Nat
  BY <1>1, RestSizeType
<1>4. /\ list' = list /\ mode' = mode /\ min_length' = min_length
      /\ Bytes(RestSize) \in Seq(Byte)
  BY <1>1, <1>2, <1>3, ReadFacts
<1>5. CutByStrncpy' = CutByStrncpy /\ CutInPreamble' = CutInPreamble
  BY <1>2, ReadKeeps
<1>6. MemInv'
  BY <1>1, <1>2, <1>3, <1>4, MemKept
<1>7. ASSUME retval' = "SUCCESS", ~CutByStrncpy, ~CutInPreamble
      PROVE  Rebuilt'
  <2>1. Got(RestSize) = RestSize
    BY <1>2, <1>7
  <2>2. WholeSoFar \/ Hopeless
    BY <1>2, <1>7 DEF Contents
  <2>3. WholeSoFar
    BY <1>1, <1>2, <2>1, <2>2, RestIsShort
  <2>4. \A i \in 1..Size(list) : mem'[i - 1] = Body(list)[i]
    BY <1>1, <1>2, <2>1, <2>3, RestCompletes
  <2>5. h_size' = Size(list')
    BY <1>2, <1>4, <2>3 DEF WholeSoFar, LengthKnown
  <2> QED BY <1>4, <2>4, <2>5 DEF Rebuilt
<1> QED BY <1>2, <1>5, <1>6, <1>7 DEF Contents

LEMMA ContentsInvariant ==
  ASSUME FirstReadIsWhole
  PROVE  Spec => [](PInv /\ Contents)
<1>1. ASSUME PInv, PInv', Contents, [Next]_vars
      PROVE  Contents'
  <2>1. CASE ReadDigit \/ ReadDigitAtEnd
    BY <1>1, <2>1, DigitContents
  <2>2. CASE ReadInit
    BY <1>1, <2>2, ReadInitContents
  <2>3. CASE ReadMore
    BY <1>1, <2>3, ReadMoreContents
  <2>4. CASE ReadRest
    BY <1>1, <2>4, ReadRestContents
  <2>5. CASE Send \/ PeerClose
    BY <1>1, <2>5, SendContents
  <2>6. CASE UNCHANGED vars
    <3>1. /\ list' = list /\ source' = source /\ mode' = mode
          /\ min_length' = min_length /\ pos' = pos /\ sentTo' = sentTo /\ closed' = closed
          /\ pc' = pc /\ preamble' = preamble /\ h_size' = h_size
          /\ mem' = mem /\ next_p' = next_p /\ retval' = retval
      BY <2>6 DEF vars, inputVars, peerVars
    <3>2. /\ CutByStrncpy' = CutByStrncpy /\ CutInPreamble' = CutInPreamble
          /\ Message' = Message /\ Stream' = Stream /\ InitReadSize' = InitReadSize
      BY <3>1, SameCut DEF Message, Stream, InitReadSize
    <3>3. (MemInv => MemInv') /\ (Rebuilt => Rebuilt')
      BY <3>1, <3>2 DEF MemInv, Rebuilt
    <3>4. (WholeSoFar => WholeSoFar') /\ (Hopeless => Hopeless')
      BY <3>1, <3>2 DEF WholeSoFar, Hopeless, LengthKnown, AtEnd
    <3>5. DigitsOnly => DigitsOnly'
      BY <3>1, <3>2 DEF DigitsOnly
    <3> QED BY <1>1, <3>1, <3>2, <3>3, <3>4, <3>5 DEF Contents
  <2> QED BY <1>1, <2>1, <2>2, <2>3, <2>4, <2>5, <2>6 DEF Next, Read
<1>2. Spec => []PInv
  BY PositionInvariant
<1> QED BY <1>1, <1>2, InitContents, PTL DEF Spec

\* Success means the strings that were sent, unless strncpy has lost some or the
\* peer has closed before the bytes that are read for the length were complete.
THEOREM SuccessMeansSentTheorem ==
  ASSUME FirstReadIsWhole
  PROVE  Spec => []SuccessMeansSent
<1>1. PInv /\ Contents => SuccessMeansSent
  <2> SUFFICES ASSUME PInv, Contents, retval = "SUCCESS", ~CutByStrncpy,
                      ~CutInPreamble
               PROVE  Strings = list
    BY DEF SuccessMeansSent
  <2>1. Typed /\ MemInv /\ Rebuilt /\ list \in Lists
    BY ListFacts DEF PInv, Contents
  <2>2. \A i \in 1..Size(list) : i - 1 \in DOMAIN mem
    <3> DEFINE d == Len(Stream) + PREAMBLE_MAX
               p == Places(list)
               n == Size(list)
    <3>1. d \in Nat /\ DOMAIN mem = 0..d /\ Len(Message) <= d
      BY <2>1, MemRange
    <3>2. p \in 1..5 /\ n \in Nat /\ Len(Message) = p + n + 2
      BY <2>1, PlacesType
    <3> HIDE DEF d, p, n
    <3>3. \A i \in 1..n : i - 1 \in 0..d
      BY <3>1, <3>2
    <3> QED BY <3>1, <3>3 DEF n
  <2>3. \A i \in 1..Size(list) : MemAt(mem, i - 1) = Body(list)[i]
    BY <2>1, <2>2 DEF Rebuilt, MemAt
  <2>4. build_strings_array(mem, Size(list)) = list
    BY <2>1, <2>3, BuildsBack
  <2> QED BY <2>1, <2>4 DEF Strings, Rebuilt
<1> QED BY <1>1, ContentsInvariant, PTL
=============================================================================
