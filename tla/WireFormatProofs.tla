-------------------------- MODULE WireFormatProofs --------------------------
(***************************************************************************)
(* Lemmas about the two formats, for every list of strings and every       *)
(* header: how long a decimal number is, where the strings of a list are   *)
(* in its body, and what the decoders find in a header in memory.          *)
(*                                                                         *)
(* The induction they need is stated over sets, which the provers can      *)
(* instantiate: it follows from the theorem WFMin of the library.          *)
(***************************************************************************)
EXTENDS NetstringFormat, ScgiHeader, SequenceTheorems, WellFoundedInduction,
        TLAPS

LEMMA LeastNumber ==
  ASSUME NEW T, T \subseteq Nat, T # {}
  PROVE  \E n \in T : \A m \in T : n <= m
<1> DEFINE R == OpToRel(<, Nat)
<1>1. IsWellFoundedOn(R, Nat)
  BY NatLessThanWellFounded
<1>2. \A x, y \in Nat : y < x => <<y, x>> \in R
  BY DEF OpToRel
<1> HIDE DEF R
<1>3. PICK x \in T : \A y \in T : ~ (<<y, x>> \in R)
  BY <1>1, WFMin
<1>4. \A y \in T : ~ (y < x)
  BY <1>2, <1>3
<1>5. \A y \in Nat : ~ (y < x) => x <= y
  OBVIOUS
<1> QED BY <1>4, <1>5

LEMMA SetInduction ==
  ASSUME NEW S, 0 \in S, \A n \in Nat : n \in S => n + 1 \in S
  PROVE  \A n \in Nat : n \in S
<1> SUFFICES ASSUME NEW m \in Nat, m \notin S PROVE FALSE
  OBVIOUS
<1> DEFINE T == Nat \ S
<1>1. PICK n \in T : \A y \in T : n <= y
  <2>1. T \subseteq Nat /\ T # {}
    OBVIOUS
  <2> HIDE DEF T
  <2> QED BY <2>1, LeastNumber
<1>2. n # 0 /\ n - 1 \in Nat
  BY <1>1
<1>3. n - 1 \in S
  BY <1>1, <1>2
<1> QED BY <1>1, <1>2, <1>3

\* What holds of the empty sequence, and of a sequence with one element more,
\* holds of all.
LEMMA SequenceInduction ==
  ASSUME NEW V, NEW S, <<>> \in S,
         \A s \in Seq(V), e \in V : s \in S => Append(s, e) \in S
  PROVE  Seq(V) \subseteq S
<1> DEFINE T == {n \in Nat : \A s \in Seq(V) : Len(s) = n => s \in S}
<1>1. 0 \in T
  BY EmptySeq
<1>2. ASSUME NEW n \in Nat, n \in T
      PROVE  n + 1 \in T
  <2> SUFFICES ASSUME NEW s \in Seq(V), Len(s) = n + 1
               PROVE  s \in S
    OBVIOUS
  <2>1. s # <<>>
    BY EmptySeq
  <2>2. PICK t \in Seq(V), e \in V : s = Append(t, e)
    BY <2>1, SequenceEmptyOrAppend
  <2>3. Len(t) = n
    BY <2>2, AppendProperties, LenProperties
  <2> QED BY <1>2, <2>2, <2>3
<1>3. \A n \in Nat : n \in T
  <2> HIDE DEF T
  <2> QED BY <1>1, <1>2, SetInduction
<1> QED BY <1>3, LenProperties

-----------------------------------------------------------------------------
\* FlattenSeq is the last value of a function that satisfies its recursion.
\* Behind(a, b) is a name the provers do not look into.

Behind(a, b) == a \o b

Flattens(f, s, n) ==
  f = [i \in 1..n |-> IF i = 1 THEN s[i] ELSE Behind(f[i - 1], s[i])]

LEMMA FlattensAt ==
  ASSUME NEW f, NEW s, NEW n, Flattens(f, s, n), NEW i \in 1..n
  PROVE  /\ i = 1 => f[i] = s[i]
         /\ i # 1 => f[i] = Behind(f[i - 1], s[i])
<1>1. f[i] = IF i = 1 THEN s[i] ELSE Behind(f[i - 1], s[i])
  BY Zenon DEF Flattens
<1> QED BY <1>1, Zenon

LEMMA FlattenExists ==
  ASSUME NEW s, NEW n \in Nat
  PROVE  \E f : Flattens(f, s, n)
<1> DEFINE S == {m \in Nat : \E f : Flattens(f, s, m)}
<1>1. 0 \in S
  <2>1. Flattens([i \in 1..0 |-> 0], s, 0)
    BY DEF Flattens
  <2> QED BY <2>1
<1>2. ASSUME NEW m \in Nat, m \in S
      PROVE  m + 1 \in S
  <2>1. PICK f : Flattens(f, s, m)
    BY <1>2
  <2> DEFINE g == [i \in 1..(m + 1) |->
                     IF i <= m THEN f[i]
                     ELSE IF i = 1 THEN s[i] ELSE Behind(f[i - 1], s[i])]
  <2>2. Flattens(g, s, m + 1)
    <3>1. ASSUME NEW i \in 1..(m + 1)
          PROVE  g[i] = IF i = 1 THEN s[i] ELSE Behind(g[i - 1], s[i])
      <4>1. CASE i = 1
        BY <2>1, <4>1 DEF Flattens
      <4>2. CASE i # 1
        <5>1. g[i - 1] = f[i - 1]
          BY <4>2
        <5>2. CASE i <= m
          <6>1. i \in 1..m /\ g[i] = f[i]
            BY <5>2
          <6> QED BY <2>1, <4>2, <5>1, <6>1, FlattensAt
        <5>3. CASE ~(i <= m)
          <6>1. g[i] = IF i = 1 THEN s[i] ELSE Behind(f[i - 1], s[i])
            BY <5>3, Zenon
          <6> QED BY <4>2, <5>1, <6>1, Zenon
        <5> QED BY <5>2, <5>3
      <4> QED BY <4>1, <4>2
    <3> QED BY <3>1 DEF Flattens
  <2> QED BY <2>2
<1>3. \A m \in Nat : m \in S
  <2> HIDE DEF S
  <2> QED BY <1>1, <1>2, SetInduction
<1> QED BY <1>3

LEMMA FlattenSeqFlattens ==
  ASSUME NEW s, Len(s) \in Nat \ {0}
  PROVE  \E f : Flattens(f, s, Len(s)) /\ FlattenSeq(s) = f[Len(s)]
<1> DEFINE f == CHOOSE g : Flattens(g, s, Len(s))
<1>1. Flattens(f, s, Len(s))
  BY FlattenExists
<1>2. FlattenSeq(s) = f[Len(s)]
  BY DEF FlattenSeq, Flattens, Behind
<1> QED BY <1>1, <1>2

\* Up to where two sequences agree, so do the functions.
LEMMA FlattensAgree ==
  ASSUME NEW f, NEW s, NEW g, NEW t, NEW m \in Nat, NEW n \in Nat, m <= n,
         Flattens(f, s, m), Flattens(g, t, n),
         \A i \in 1..m : s[i] = t[i]
  PROVE  \A i \in 1..m : f[i] = g[i]
<1> DEFINE S == {k \in Nat : k \in 1..m => f[k] = g[k]}
<1>1. 0 \in S
  OBVIOUS
<1>2. ASSUME NEW k \in Nat, k \in S
      PROVE  k + 1 \in S
  <2> SUFFICES ASSUME k + 1 \in 1..m
               PROVE  f[k + 1] = g[k + 1]
    OBVIOUS
  <2>1. k + 1 \in 1..n /\ (k + 1) - 1 = k
    OBVIOUS
  <2>2. CASE k = 0
    <3>1. k + 1 = 1
      BY <2>2
    <3> QED BY <2>1, <3>1, FlattensAt
  <2>3. CASE k # 0
    <3>1. k \in 1..m /\ k + 1 # 1
      BY <2>3
    <3>2. f[k] = g[k]
      BY <1>2, <3>1
    <3>3. f[k + 1] = Behind(f[k], s[k + 1])
      BY <2>1, <3>1, FlattensAt
    <3>4. g[k + 1] = Behind(g[k], t[k + 1])
      BY <2>1, <3>1, FlattensAt
    <3> QED BY <3>2, <3>3, <3>4, Zenon
  <2> QED BY <2>2, <2>3
<1>3. \A k \in Nat : k \in S
  <2> HIDE DEF S
  <2> QED BY <1>1, <1>2, SetInduction
<1> QED BY <1>3

-----------------------------------------------------------------------------
\* The body of a list, string by string.

LEMMA BodyEmpty == Body(<<>>) = <<>>
<1>1. [i \in DOMAIN <<>> |-> Append(<<>>[i], NUL)] = <<>>
  OBVIOUS
<1>2. FlattenSeq(<<>>) = <<>>
  BY DEF FlattenSeq
<1> QED BY <1>1, <1>2 DEF Body

LEMMA BodyAppend ==
  ASSUME NEW V, NEW list \in Seq(Seq(V)), NEW str \in Seq(V)
  PROVE  Body(Append(list, str)) = Body(list) \o Append(str, NUL)
<1> DEFINE l == Append(list, str)
           s == [i \in DOMAIN list |-> Append(list[i], NUL)]
           t == [i \in DOMAIN l |-> Append(l[i], NUL)]
           n == Len(list)
<1>1. /\ n \in Nat /\ DOMAIN list = 1..n /\ DOMAIN l = 1..(n + 1)
      /\ \A i \in 1..n : l[i] = list[i]
      /\ l[n + 1] = str
  BY LenProperties, AppendProperties
<1>2. Len(s) = n /\ Len(t) = n + 1
  BY <1>1
<1>3. \A i \in 1..n : s[i] = t[i]
  BY <1>1
<1>4. t[n + 1] = Append(str, NUL)
  BY <1>1
<1>5. Body(list) = FlattenSeq(s) /\ Body(l) = FlattenSeq(t)
  BY DEF Body
<1> HIDE DEF s, t, n
<1>6. PICK g : Flattens(g, t, n + 1) /\ FlattenSeq(t) = g[n + 1]
  BY <1>1, <1>2, FlattenSeqFlattens
<1>7. CASE n = 0
  <2>1. list = <<>>
    BY <1>7, EmptySeq DEF n
  <2>2. g[1] = t[1]
    BY <1>6, <1>7 DEF Flattens
  <2>3. Append(str, NUL) \in Seq(V \cup {NUL})
    BY SeqMonotonic, AppendProperties
  <2>4. <<>> \o Append(str, NUL) = Append(str, NUL)
    BY <2>3, ConcatEmptySeq
  <2>5. n + 1 = 1
    BY <1>7
  <2>6. Body(l) = Append(str, NUL)
    BY <1>4, <1>5, <1>6, <2>2, <2>5, Zenon
  <2> QED BY <2>1, <2>4, <2>6, BodyEmpty, Zenon
<1>8. CASE n # 0
  <2>1. PICK f : Flattens(f, s, n) /\ FlattenSeq(s) = f[n]
    BY <1>1, <1>2, <1>8, FlattenSeqFlattens
  <2>2. f[n] = g[n]
    <3>1. n + 1 \in Nat /\ n <= n + 1 /\ n \in 1..n
      BY <1>1, <1>8
    <3>2. \A i \in 1..n : f[i] = g[i]
      <4>1. n \in Nat /\ n + 1 \in Nat /\ n <= n + 1
        BY <1>1, <3>1
      <4>2. Flattens(f, s, n) /\ Flattens(g, t, n + 1)
        BY <1>6, <2>1
      <4>3. \A i \in 1..n : s[i] = t[i]
        BY <1>3
      <4>4. \A x, y \in Nat :
              x <= y /\ Flattens(f, s, x) /\ Flattens(g, t, y)
                /\ (\A i \in 1..x : s[i] = t[i])
                => \A i \in 1..x : f[i] = g[i]
        BY FlattensAgree
      <4> QED BY <4>1, <4>2, <4>3, <4>4, Zenon
    <3> QED BY <3>1, <3>2
  <2>3. g[n + 1] = Behind(g[n], t[n + 1])
    <3>1. n + 1 \in 1..(n + 1) /\ n + 1 # 1 /\ (n + 1) - 1 = n
      BY <1>1, <1>8
    <3> QED BY <1>6, <3>1, FlattensAt
  <2> QED BY <1>4, <1>5, <1>6, <2>1, <2>2, <2>3, Zenon DEF Behind
<1> QED BY <1>7, <1>8

LEMMA BodyType ==
  ASSUME NEW V, NEW list \in Seq(Seq(V))
  PROVE  Body(list) \in Seq(V \cup {NUL})
<1> DEFINE W == V \cup {NUL}
           S == {l \in Seq(Seq(V)) : Body(l) \in Seq(W)}
<1>1. <<>> \in S
  BY BodyEmpty, EmptySeq
<1>2. ASSUME NEW l \in Seq(Seq(V)), NEW e \in Seq(V), l \in S
      PROVE  Append(l, e) \in S
  <2>1. Append(e, NUL) \in Seq(W)
    BY SeqMonotonic, AppendProperties
  <2>2. Body(l) \o Append(e, NUL) \in Seq(W)
    <3> HIDE DEF W
    <3> QED BY <1>2, <2>1, ConcatProperties
  <2>3. Body(Append(l, e)) \in Seq(W)
    BY <2>2, BodyAppend
  <2> QED BY <2>3, AppendProperties
<1>3. Seq(Seq(V)) \subseteq S
  <2> HIDE DEF S
  <2> QED BY <1>1, <1>2, SequenceInduction
<1> QED BY <1>3

\* The number of bytes of the first i strings.
UpTo(list, i) == Len(Body(SubSeq(list, 1, i)))

\* String i is found behind the first i - 1 strings, with its NUL.
PartAt(list, i) ==
  /\ UpTo(list, i - 1) \in Nat
  /\ UpTo(list, i) = UpTo(list, i - 1) + Len(list[i]) + 1
  /\ UpTo(list, i) <= Len(Body(list))
  /\ \A j \in 1..Len(list[i]) :
       Body(list)[UpTo(list, i - 1) + j] = list[i][j]
  /\ Body(list)[UpTo(list, i)] = NUL

LEMMA LastPart ==
  ASSUME NEW V, NEW l \in Seq(Seq(V)), NEW e \in Seq(V)
  PROVE  /\ PartAt(Append(l, e), Len(l) + 1)
         /\ \A j \in 1..Len(Body(l)) : Body(Append(l, e))[j] = Body(l)[j]
         /\ Len(Body(Append(l, e))) = Len(Body(l)) + Len(e) + 1
<1> DEFINE W == V \cup {NUL}
           m == Append(l, e)
           a == Append(e, NUL)
           n == Len(l)
<1>1. Body(l) \in Seq(W) /\ Len(Body(l)) \in Nat /\ n \in Nat /\ Len(e) \in Nat
  BY BodyType, LenProperties
<1>2. /\ a \in Seq(W) /\ Len(a) = Len(e) + 1
      /\ \A j \in 1..Len(e) : a[j] = e[j]
      /\ a[Len(e) + 1] = NUL
  <2>1. e \in Seq(W) /\ NUL \in W
    BY SeqMonotonic
  <2> HIDE DEF W
  <2> QED BY <2>1, AppendProperties
<1>3. /\ m \in Seq(Seq(V)) /\ Len(m) = n + 1 /\ m[n + 1] = e
      /\ \A i \in 1..n : m[i] = l[i]
  BY AppendProperties
<1>4. Body(m) = Body(l) \o a
  BY BodyAppend
<1>5. SubSeq(m, 1, n + 1) = m
  BY <1>3, SubSeqFull
<1>6. SubSeq(m, 1, (n + 1) - 1) = l
  <2>1. (n + 1) - 1 = n
    BY <1>1
  <2>2. \A i \in 1..n : m[i] \in Seq(V)
    BY <1>1, <1>3, ElementOfSeq
  <2>3. /\ SubSeq(m, 1, n) \in Seq(Seq(V)) /\ Len(SubSeq(m, 1, n)) = n
        /\ \A i \in 1..n : SubSeq(m, 1, n)[i] = m[i]
    <3>1. /\ SubSeq(m, 1, n) \in Seq(Seq(V))
          /\ Len(SubSeq(m, 1, n)) = IF 1 <= n THEN n - 1 + 1 ELSE 0
          /\ \A i \in 1..(n - 1 + 1) : SubSeq(m, 1, n)[i] = m[1 + i - 1]
      <4> HIDE DEF m, n
      <4> QED BY <1>1, <2>2, SubSeqProperties
    <3>2. \A i \in 1..n : 1 + i - 1 = i
      BY <1>1
    <3> HIDE DEF m, n
    <3> QED BY <1>1, <3>1, <3>2
  <2>4. SubSeq(m, 1, n) = l
    <3>1. Len(SubSeq(m, 1, n)) = Len(l)
      BY <2>3
    <3>2. \A i \in 1..Len(SubSeq(m, 1, n)) : SubSeq(m, 1, n)[i] = l[i]
      BY <1>3, <2>3
    <3> HIDE DEF m, n
    <3> QED BY <2>3, <3>1, <3>2, SeqEqual, Zenon
  <2> QED BY <2>1, <2>4
<1> HIDE DEF W, m, a, n
<1>7. /\ Len(Body(m)) = Len(Body(l)) + Len(a)
      /\ \A i \in 1..(Len(Body(l)) + Len(a)) :
           Body(m)[i] = IF i <= Len(Body(l)) THEN Body(l)[i]
                        ELSE a[i - Len(Body(l))]
  <2>1. Body(l) \in Seq(W) /\ a \in Seq(W)
    BY <1>1, <1>2
  <2>2. \A x, y \in Seq(W) :
          /\ Len(x \o y) = Len(x) + Len(y)
          /\ \A i \in 1..(Len(x) + Len(y)) :
               (x \o y)[i] = IF i <= Len(x) THEN x[i] ELSE y[i - Len(x)]
    BY ConcatProperties
  <2>3. /\ Len(Body(l) \o a) = Len(Body(l)) + Len(a)
        /\ \A i \in 1..(Len(Body(l)) + Len(a)) :
             (Body(l) \o a)[i] = IF i <= Len(Body(l)) THEN Body(l)[i]
                                 ELSE a[i - Len(Body(l))]
    BY <2>1, <2>2, Zenon
  <2> QED BY <1>4, <2>3, Zenon
<1>8. UpTo(m, n + 1) = Len(Body(m)) /\ UpTo(m, (n + 1) - 1) = Len(Body(l))
  BY <1>5, <1>6 DEF UpTo
<1> DEFINE b == Len(Body(l))
           k == Len(e)
<1>9. \A j \in 1..b : Body(m)[j] = Body(l)[j]
  BY <1>1, <1>2, <1>7
<1>10. \A j \in 1..k : Body(m)[b + j] = e[j]
  <2> SUFFICES ASSUME NEW j \in 1..k PROVE Body(m)[b + j] = e[j]
    OBVIOUS
  <2>1. b + j \in 1..(b + Len(a)) /\ ~(b + j <= b) /\ (b + j) - b = j
    BY <1>1, <1>2
  <2>2. Body(m)[b + j] = a[(b + j) - b]
    BY <1>7, <2>1, Zenon
  <2> QED BY <1>2, <2>1, <2>2
<1>11. Body(m)[b + k + 1] = NUL
  <2>1. /\ b + k + 1 \in 1..(b + Len(a)) /\ ~(b + k + 1 <= b)
        /\ (b + k + 1) - b = k + 1
    BY <1>1, <1>2
  <2>2. Body(m)[b + k + 1] = a[(b + k + 1) - b]
    BY <1>7, <2>1, Zenon
  <2> QED BY <1>2, <2>1, <2>2
<1>12. Len(Body(m)) = b + k + 1
  BY <1>1, <1>2, <1>7
<1> HIDE DEF b, k
<1>13. PartAt(m, n + 1)
  <2>1. UpTo(m, (n + 1) - 1) = b /\ UpTo(m, n + 1) = b + k + 1 /\ m[n + 1] = e
    BY <1>3, <1>8, <1>12 DEF b
  <2>2. b \in Nat /\ b + k + 1 = b + k + 1 /\ b + k + 1 <= Len(Body(m)) /\ Len(e) = k
    BY <1>1, <1>12 DEF b, k
  <2> QED BY <1>10, <1>11, <2>1, <2>2 DEF PartAt
<1> QED BY <1>9, <1>12, <1>13 DEF b, k, m, n

LEMMA InPart ==
  ASSUME NEW start \in Nat, NEW n \in Nat, NEW length \in Nat, NEW end,
         end = start + n + 1, end <= length
  PROVE  \A j \in 1..n : start + j \in 1..length
OBVIOUS

LEMMA BodyParts ==
  ASSUME NEW V, NEW list \in Seq(Seq(V))
  PROVE  \A i \in 1..Len(list) : PartAt(list, i)
<1> DEFINE S == {l \in Seq(Seq(V)) : \A i \in 1..Len(l) : PartAt(l, i)}
<1>1. <<>> \in S
  BY EmptySeq
<1>2. ASSUME NEW l \in Seq(Seq(V)), NEW e \in Seq(V), l \in S
      PROVE  Append(l, e) \in S
  <2> DEFINE m == Append(l, e)
             n == Len(l)
  <2>1. /\ m \in Seq(Seq(V)) /\ Len(m) = n + 1 /\ n \in Nat
        /\ \A i \in 1..n : m[i] = l[i]
    BY AppendProperties, LenProperties
  <2>2. /\ PartAt(m, n + 1)
        /\ \A j \in 1..Len(Body(l)) : Body(m)[j] = Body(l)[j]
        /\ Len(Body(m)) = Len(Body(l)) + Len(e) + 1
        /\ Len(Body(l)) \in Nat /\ Len(e) \in Nat
    BY LastPart, BodyType, LenProperties
  <2>3. \A i \in 0..n : SubSeq(m, 1, i) = SubSeq(l, 1, i)
    BY <2>1, LenProperties
  <2> HIDE DEF m, n
  <2>4. ASSUME NEW i \in 1..n
        PROVE  PartAt(m, i)
    <3>1. PartAt(l, i)
      BY <1>2 DEF n
    <3>2. UpTo(m, i) = UpTo(l, i) /\ UpTo(m, i - 1) = UpTo(l, i - 1)
      <4>1. i \in 0..n /\ i - 1 \in 0..n
        BY <2>1
      <4> QED BY <2>3, <4>1 DEF UpTo
    <3>3. m[i] = l[i] /\ Len(l[i]) \in Nat
      <4>1. l[i] \in Seq(V)
        BY ElementOfSeq DEF n
      <4> QED BY <2>1, <4>1, LenProperties
    <3>4. /\ UpTo(l, i - 1) \in Nat
          /\ UpTo(l, i) = UpTo(l, i - 1) + Len(l[i]) + 1
          /\ UpTo(l, i) <= Len(Body(l))
      BY <3>1 DEF PartAt
    <3>5. \A j \in 1..Len(l[i]) :
            /\ UpTo(l, i - 1) + j \in 1..Len(Body(l))
            /\ Body(l)[UpTo(l, i - 1) + j] = l[i][j]
      <4>1. \A j \in 1..Len(l[i]) :
              Body(l)[UpTo(l, i - 1) + j] = l[i][j]
        BY <3>1 DEF PartAt
      <4>2. \A j \in 1..Len(l[i]) :
              UpTo(l, i - 1) + j \in 1..Len(Body(l))
        BY <2>2, <3>3, <3>4, InPart, Zenon
      <4> QED BY <4>1, <4>2
    <3>6. UpTo(l, i) \in 1..Len(Body(l))
      BY <2>2, <3>3, <3>4
    <3>7. Body(l)[UpTo(l, i)] = NUL
      BY <3>1 DEF PartAt
    <3>8. UpTo(l, i) <= Len(Body(m))
      BY <2>2, <3>6
    <3>9. Body(m)[UpTo(l, i)] = NUL
      BY <2>2, <3>6, <3>7
    <3>10. \A j \in 1..Len(l[i]) : Body(m)[UpTo(l, i - 1) + j] = l[i][j]
      BY <2>2, <3>5
    <3> QED BY <3>2, <3>3, <3>4, <3>8, <3>9, <3>10 DEF PartAt
  <2>5. \A i \in 1..(n + 1) : PartAt(m, i)
    <3>1. \A i \in 1..(n + 1) : i \in 1..n \/ i = n + 1
      BY <2>1
    <3> QED BY <2>2, <2>4, <3>1
  <2> QED BY <2>1, <2>5 DEF m
<1>3. Seq(Seq(V)) \subseteq S
  <2> HIDE DEF S
  <2> QED BY <1>1, <1>2, SequenceInduction
<1> QED BY <1>3

\* The bounds of the whole.
LEMMA UpToEnds ==
  ASSUME NEW V, NEW list \in Seq(Seq(V))
  PROVE  /\ UpTo(list, 0) = 0
         /\ UpTo(list, Len(list)) = Len(Body(list))
<1>1. SubSeq(list, 1, 0) = <<>>
  BY SubSeqEmpty
<1>2. SubSeq(list, 1, Len(list)) = list
  BY SubSeqFull
<1> QED BY <1>1, <1>2, BodyEmpty, EmptySeq DEF UpTo

-----------------------------------------------------------------------------
\* The length in front of the body.

LEMMA UnrepresentableType == Unrepresentable \in Nat
BY SMT DEF Unrepresentable

\* Every length the structure can hold has between one and nine digits.
LEMMA DigitCountBounds ==
  ASSUME NEW n \in Nat, n < Unrepresentable
  PROVE  DigitCount(n) \in 1..9
<1> DEFINE P(k) == n < PowersOf10[k] /\ (k > 1 => n >= PowersOf10[k - 1])
<1>1. \E k \in 1..9 : P(k)
  <2>1. CASE n < 10 BY <2>1, SMT DEF PowersOf10
  <2>2. CASE n >= 10 /\ n < 100
    <3> P(2) BY <2>2, SMT DEF PowersOf10
    <3> QED BY SMT
  <2>3. CASE n >= 100 /\ n < 1000
    <3> P(3) BY <2>3, SMT DEF PowersOf10
    <3> QED BY SMT
  <2>4. CASE n >= 1000 /\ n < 10000
    <3> P(4) BY <2>4, SMT DEF PowersOf10
    <3> QED BY SMT
  <2>5. CASE n >= 10000 /\ n < 100000
    <3> P(5) BY <2>5, SMT DEF PowersOf10
    <3> QED BY SMT
  <2>6. CASE n >= 100000 /\ n < 1000000
    <3> P(6) BY <2>6, SMT DEF PowersOf10
    <3> QED BY SMT
  <2>7. CASE n >= 1000000 /\ n < 10000000
    <3> P(7) BY <2>7, SMT DEF PowersOf10
    <3> QED BY SMT
  <2>8. CASE n >= 10000000 /\ n < 100000000
    <3> P(8) BY <2>8, SMT DEF PowersOf10
    <3> QED BY SMT
  <2>9. CASE n >= 100000000
    <3>1. PowersOf10[9] = 1000000000 /\ PowersOf10[8] = 100000000
      BY SMT DEF PowersOf10
    <3>2. n < 1000000000
      BY SMT DEF Unrepresentable
    <3> P(9) BY <2>9, <3>1, <3>2, SMT
    <3> QED BY SMT
  <2> QED
    BY <2>1, <2>2, <2>3, <2>4, <2>5, <2>6, <2>7, <2>8, <2>9, SMT
<1> HIDE DEF P
<1>2. (CHOOSE k \in 1..9 : P(k)) \in 1..9
  BY <1>1
<1> QED BY <1>2 DEF DigitCount, P

LEMMA DecimalLength ==
  ASSUME NEW n \in Nat, n < Unrepresentable
  PROVE  /\ Decimal(n) \in Seq({Numerals[m] : m \in 1..10})
         /\ Len(Decimal(n)) \in Nat
         /\ 1 <= Len(Decimal(n)) /\ Len(Decimal(n)) <= 9
<1> DEFINE k == DigitCount(n)
           c(i) == Numerals[((n \div (PowersOf10[k + 1 - i] \div 10)) % 10) + 1]
<1>1. k \in 1..9
  BY DigitCountBounds
<1>2. \A i \in 1..k : c(i) \in {Numerals[m] : m \in 1..10}
  <2> SUFFICES ASSUME NEW i \in 1..k
               PROVE  c(i) \in {Numerals[m] : m \in 1..10}
    OBVIOUS
  <2>1. (PowersOf10[k + 1 - i] \div 10) \in Nat \ {0}
    BY <1>1, SMT DEF PowersOf10
  <2>2. \A m \in Nat : (m % 10) + 1 \in 1..10
    OBVIOUS
  <2>3. \A d \in Nat \ {0} : (n \div d) \in Nat
    OBVIOUS
  <2>4. ((n \div (PowersOf10[k + 1 - i] \div 10)) % 10) + 1 \in 1..10
    BY <2>1, <2>2, <2>3
  <2> QED BY <2>4
<1>3. Decimal(n) = [i \in 1..k |-> c(i)]
  BY DEF Decimal
<1> HIDE DEF k, c
<1> QED BY <1>1, <1>2, <1>3

-----------------------------------------------------------------------------
\* A header in memory.

\* The comma is behind the last token.
LEMMA MemoryIsHeaderAndComma ==
  ASSUME NEW S, NEW header \in Seq(S)
  PROVE  /\ Memory(header) \in Seq(S \cup {Overrun})
         /\ Len(Memory(header)) = Len(header) + 1
         /\ \A i \in 1 .. Len(header) : Memory(header)[i] = header[i]
         /\ Memory(header)[Len(header) + 1] = Overrun
<1>1. header \in Seq(S \cup {Overrun})
  BY SeqMonotonic
<1> QED BY <1>1, AppendProperties DEF Memory

\* A token whose NUL is in place is a C string.
LEMMA CStringAlone ==
  ASSUME NEW S, NEW mem \in Seq(S), NEW joined, NEW i \in 1 .. Len(mem),
         i \notin joined
  PROVE  CString(mem, joined, i) = <<mem[i]>>
<1> DEFINE Ends(k) == k \notin joined /\ \A j \in i .. (k - 1) : j \in joined
<1>1. i \in i .. Len(mem) /\ Ends(i)
  OBVIOUS
<1>2. \A k \in i .. Len(mem) : Ends(k) => k = i
  OBVIOUS
<1>3. (CHOOSE k \in i .. Len(mem) : Ends(k)) = i
  BY <1>1, <1>2
<1> DEFINE s == SubSeq(mem, i, i)
<1>4. CString(mem, joined, i) = s
  BY <1>3 DEF CString
<1>5. s \in Seq(S) /\ Len(s) = 1 /\ s[1] = mem[i]
  BY SubSeqProperties, ElementOfSeq
<1> HIDE DEF s
<1> QED BY <1>4, <1>5

\* A name joined with its value is one C string.
LEMMA CStringJoined ==
  ASSUME NEW S, NEW mem \in Seq(S), NEW joined,
         NEW i \in 1 .. Len(mem), i + 1 <= Len(mem),
         i \in joined, i + 1 \notin joined
  PROVE  CString(mem, joined, i) = <<mem[i], mem[i + 1]>>
<1> DEFINE Ends(k) == k \notin joined /\ \A j \in i .. (k - 1) : j \in joined
<1>1. i + 1 \in i .. Len(mem) /\ Ends(i + 1)
  OBVIOUS
<1>2. \A k \in i .. Len(mem) : Ends(k) => k = i + 1
  OBVIOUS
<1>3. (CHOOSE k \in i .. Len(mem) : Ends(k)) = i + 1
  BY <1>1, <1>2
<1> DEFINE s == SubSeq(mem, i, i + 1)
<1>4. CString(mem, joined, i) = s
  BY <1>3 DEF CString
<1>5. s \in Seq(S) /\ Len(s) = 2 /\ s[1] = mem[i] /\ s[2] = mem[i + 1]
  BY SubSeqProperties, ElementOfSeq
<1> HIDE DEF s
<1> QED BY <1>4, <1>5

\* strcmp tells a name whose NUL is in place from any other.
LEMMA IsStringAlone ==
  ASSUME NEW S, NEW mem \in Seq(S), NEW joined, NEW i \in 1 .. Len(mem),
         i \notin joined, NEW name
  PROVE  IsString(mem, joined, i, name) <=> mem[i] = name
BY CStringAlone DEF IsString

\* A name that has been joined is no longer equal to any.
LEMMA IsStringJoined ==
  ASSUME NEW S, NEW mem \in Seq(S), NEW joined,
         NEW i \in 1 .. Len(mem), i + 1 <= Len(mem),
         i \in joined, i + 1 \notin joined, NEW name
  PROVE  ~IsString(mem, joined, i, name)
<1>1. Len(<<mem[i], mem[i + 1]>>) # Len(<<name>>)
  OBVIOUS
<1> QED BY <1>1, CStringJoined DEF IsString

\* The comma is no token that SumsToOne looks for.
LEMMA OverrunIsNoToken ==
  Overrun \notin VersionOnes /\ Overrun # EmptyString /\ Overrun \notin OneNames
BY VersionAssumption DEF Overrun, EmptyString

\* The sum that is taken for '1' is of tokens of the header.
LEMMA SumsToOneInHeader ==
  ASSUME NEW S, NEW header \in Seq(S), NEW i \in 1 .. Len(header) + 1
  PROVE  SumsToOne(Memory(header), i) <=>
           /\ i <= Len(header)
           /\ \/ header[i] \in VersionOnes
              \/ /\ header[i] = EmptyString
                 /\ i + 1 <= Len(header)
                 /\ header[i + 1] \in OneNames
<1>1. PICK m : m = Memory(header)
  OBVIOUS
<1>2. /\ Len(header) \in Nat
      /\ \A k \in 1 .. Len(header) : m[k] = header[k]
      /\ m[Len(header) + 1] = Overrun
  <2>1. Len(header) \in Nat
    OBVIOUS
  <2>2. \A k \in 1 .. Len(header) : Memory(header)[k] = header[k]
    BY MemoryIsHeaderAndComma
  <2>3. Memory(header)[Len(header) + 1] = Overrun
    BY MemoryIsHeaderAndComma
  <2> QED BY <1>1, <2>1, <2>2, <2>3
<1>3. SumsToOne(Memory(header), i) <=>
        m[i] \in VersionOnes \/ (m[i] = EmptyString /\ m[i + 1] \in OneNames)
  BY <1>1 DEF SumsToOne
<1>4. CASE i = Len(header) + 1
  BY <1>2, <1>3, <1>4, OverrunIsNoToken
<1>5. CASE i \in 1 .. Len(header)
  BY <1>2, <1>3, <1>5, OverrunIsNoToken
<1> QED BY <1>2, <1>4, <1>5
=============================================================================
