----------------------- MODULE NetstringBufferProofs ------------------------
(***************************************************************************)
(* Theorems about the netstring builder, for every size of the structure   *)
(* and every set of strings.                                               *)
(***************************************************************************)
EXTENDS NetstringBufferRefinement, WireFormatProofs

\* The bytes a caller has to keep free.
RoomKept == Reserve >= 1 /\ ("resume" \in Uses => Reserve >= 2)

-----------------------------------------------------------------------------
\* What the steps are built from.

LEMMA Sizes ==
  /\ StrSize \in Nat \ {0} /\ StrSize < Unrepresentable /\ Count \in Nat \ {0}
  /\ Reserve \in Nat
  /\ First = 11 /\ buffer_asize = StrSize + 12
  /\ buffer_asize \in Nat
BY SizeAssumption, UnrepresentableType
   DEF First, buffer_asize, PREAMBLE_MAX, EPILOGUE_MAX

LEMMA EffectiveLengthType ==
  ASSUME NEW str \in Strings, NEW len \in Lengths
  PROVE  EffectiveLength(str, len) \in Nat
BY StringsAssumption, LengthsAssumption DEF EffectiveLength

LEMMA PreambleLength ==
  ASSUME TypeOK, NextString
  PROVE  Len(Preamble) \in Nat /\ 2 <= Len(Preamble) /\ Len(Preamble) <= 10
<1>1. strings_length \in Nat /\ strings_length < Unrepresentable
  BY Sizes, UnrepresentableType DEF TypeOK, NextString
<1> DEFINE d == Decimal(strings_length)
           S == {Numerals[m] : m \in 1..10} \cup {Colon}
<1>2. d \in Seq(S) /\ Len(d) \in Nat /\ 1 <= Len(d) /\ Len(d) <= 9
  <2>1. d \in Seq({Numerals[m] : m \in 1..10}) /\ Len(d) \in Nat /\ 1 <= Len(d) /\ Len(d) <= 9
    BY <1>1, DecimalLength
  <2>2. {Numerals[m] : m \in 1..10} \subseteq S
    OBVIOUS
  <2> HIDE DEF d, S
  <2> QED BY <2>1, <2>2
<1>3. Colon \in S
  OBVIOUS
<1>4. Preamble = Append(d, Colon)
  BY DEF Preamble
<1> HIDE DEF d, S
<1>5. Len(Append(d, Colon)) = Len(d) + 1
  BY <1>2, <1>3, AppendProperties
<1> QED BY <1>2, <1>4, <1>5

\* netstring_end stores inside the block if one byte was kept free, two
\* after a resume.
LEMMA EndEffectFacts ==
  ASSUME TypeOK, NextString, EndEffect,
         strings[strings_count] \notin {NULL, Wild}
  PROVE  /\ DOMAIN buffer' = 0..buffer_asize
         /\ strings[0] = First
         /\ netstring' \in 0..buffer_asize
         /\ netstring_size' \in Nat
         /\ overrun' \in BOOLEAN
         /\ RoomKept /\ ~overrun => ~overrun'
<1> USE Sizes
<1>0. Len(Preamble) \in Nat /\ 2 <= Len(Preamble) /\ Len(Preamble) <= 10
  BY PreambleLength
<1>1. strings[0] = First
  BY DEF TypeOK, NextString, NULL, Wild
<1>2. netstring' = First - Len(Preamble)
  BY <1>1 DEF EndEffect
<1>3. netstring_size' = Len(Preamble) + strings_length + 1
  BY DEF EndEffect
<1>4. DOMAIN buffer' = 0..buffer_asize
  BY DEF EndEffect, Poke, TypeOK
<1>5. overrun' = (overrun \/ Outside(First - Len(Preamble), Len(Preamble))
                          \/ Outside(strings[strings_count], 2))
  BY <1>1 DEF EndEffect
<1>6. ~Outside(First - Len(Preamble), Len(Preamble))
  <2>1. First - Len(Preamble) >= 0 /\ First <= buffer_asize
    BY <1>0
  <2> QED BY <1>0, <2>1 DEF Outside
<1>7. RoomKept =>
        ~Outside(strings[strings_count], 2)
  <2> SUFFICES ASSUME RoomKept
               PROVE  ~Outside(strings[strings_count], 2)
    OBVIOUS
  <2>1. strings[strings_count] \in
          {First + strings_length, First + strings_length + 1}
    BY DEF NextString
  <2>2. strings_count > 0 \/ strings[strings_count] = First
    BY <1>1 DEF NextString, TypeOK
  <2>3. CASE "resume" \in Uses
    BY <2>1, <2>2, <2>3 DEF Outside, NextString, TypeOK, RoomKept
  <2>4. CASE "resume" \notin Uses
    <3>1. strings[strings_count] = First + strings_length
      BY <2>1, <2>4 DEF NextString, NULL, TypeOK
    <3> QED BY <2>2, <3>1 DEF Outside, NextString, TypeOK, RoomKept
  <2> QED BY <2>3, <2>4
<1>8. overrun' \in BOOLEAN
  BY <1>5 DEF TypeOK
<1>9. /\ netstring' \in 0..buffer_asize
      /\ netstring_size' \in Nat
  BY <1>0, <1>2, <1>3 DEF TypeOK
<1> QED BY <1>1, <1>4, <1>5, <1>6, <1>7, <1>8, <1>9

LEMMA PointerArithmetic ==
  /\ NULL = -1 /\ Wild = -2
  /\ \A a \in Nat : a <= buffer_asize => a \in Pointers
  /\ NULL \in Pointers /\ Wild \in Pointers
BY Sizes DEF NULL, Wild, Pointers

\* A stored string fits between the next free byte and the end of the block,
\* whatever the caller keeps free.
LEMMA AppendStep ==
  ASSUME TypeOK, NextString, NEW str \in Strings, NEW len \in Lengths,
         netstring_append(str, len)
  PROVE  /\ TypeOK' /\ NextString'
         /\ Reserve >= 1 /\ NeverStops => NeverStops'
         /\ ~overrun => ~overrun'
<1> USE Sizes, PointerArithmetic
<1> DEFINE n     == EffectiveLength(str, len)
           temp  == strings[strings_count]
           count == strings_count + 1
<1>1. n \in Nat
  BY EffectiveLengthType
<1>2. /\ temp \notin {NULL, Wild}
      /\ strings_length + n + 1 <= StrSize - Reserve
      /\ count <= Count - Reserve
      /\ DOMAIN buffer' = DOMAIN buffer
      /\ overrun' = (overrun \/ Outside(temp, n + 1))
      /\ strings' = [strings EXCEPT ![count] = temp + n + 1]
      /\ strings_count' = count
      /\ strings_length' = strings_length + n + 1
      /\ status' = IF temp + n + 1 < buffer_asize /\ count < Count
                   THEN "running" ELSE "aborted"
      /\ UNCHANGED <<netstring, netstring_size, promised>>
  BY DEF netstring_append, Fits, Poke
<1> HIDE DEF n
<1>3. /\ strings_count \in Nat /\ strings_length \in Nat
      /\ count \in 0..Count /\ count # 0
  BY <1>1, <1>2 DEF TypeOK
<1>4. /\ strings[0] = First
      /\ temp \in {First + strings_length, First + strings_length + 1}
      /\ promised \/ "resume" \notin Uses => temp = First + strings_length
      /\ promised => netstring = NULL
  BY <1>2, <1>3 DEF NextString, TypeOK
<1>5. /\ strings'[0] = First
      /\ strings'[count] = temp + n + 1
  BY <1>2, <1>3, <1>4 DEF TypeOK
<1>6. temp + n + 1 \in Nat /\ temp + n + 1 <= buffer_asize
  BY <1>1, <1>2, <1>3, <1>4
<1>7. TypeOK'
  BY <1>1, <1>2, <1>3, <1>6 DEF TypeOK
<1>8. NextString'
  <2>1. /\ temp + n + 1 \in {First + strings_length', First + strings_length' + 1}
        /\ promised' \/ "resume" \notin Uses => temp + n + 1 = First + strings_length'
    BY <1>1, <1>2, <1>3, <1>4
  <2>2. /\ strings'[strings_count'] = temp + n + 1
        /\ temp + n + 1 # NULL /\ temp + n + 1 # Wild
    BY <1>2, <1>5, <1>6
  <2>3. promised' => netstring' = NULL
    BY <1>2, <1>4
  <2>4. strings_count' > 0 /\ strings_count' # 0
    BY <1>2, <1>3
  <2>5. /\ strings_length' <= StrSize - Reserve
        /\ strings_count' <= Count - Reserve
        /\ strings'[0] = First
    BY <1>2, <1>5, <1>1, <1>3
  <2> HIDE DEF temp
  <2> QED BY <2>1, <2>2, <2>3, <2>4, <2>5 DEF NextString
<1>9. Reserve >= 1 /\ NeverStops => NeverStops'
  BY <1>1, <1>2, <1>3, <1>4 DEF NeverStops, netstring_append
<1>10. ~overrun => ~overrun'
  <2>1. temp \in Nat
    BY <1>3, <1>4
  <2>2. ~Outside(temp, n + 1)
    <3> HIDE DEF temp
    <3> QED BY <1>1, <1>6, <2>1 DEF Outside
  <2> QED BY <1>2, <2>2
<1> QED BY <1>7, <1>8, <1>9, <1>10

LEMMA EndStep ==
  ASSUME TypeOK, NextString, EndEffect,
         strings[strings_count] \notin {NULL, Wild},
         UNCHANGED <<strings_count, strings_length, status, promised>>
  PROVE  TypeOK' /\ NextString'
<1> USE Sizes, PointerArithmetic, EndEffectFacts
<1>1. strings' = [strings EXCEPT ![strings_count] = NULL]
  BY DEF EndEffect
<1>2. TypeOK'
  BY <1>1 DEF TypeOK
<1>3. strings'[strings_count] = NULL
  BY <1>1 DEF TypeOK
<1>4. netstring' # NULL
  OBVIOUS
<1>5. strings_count > 0 => strings'[0] = First
  BY <1>1 DEF TypeOK
<1>6. NextString'
  BY <1>3, <1>4, <1>5 DEF NextString, TypeOK
<1> QED BY <1>2, <1>6

LEMMA ResumeStep ==
  ASSUME TypeOK, NextString, netstring_resume
  PROVE  TypeOK' /\ NextString'
<1> USE Sizes, PointerArithmetic
<1> DEFINE r == IF strings[0] = NULL THEN Wild
                ELSE strings[0] + strings_length + 1
<1>1. /\ strings' = [strings EXCEPT ![strings_count] = r]
      /\ "resume" \in Uses
      /\ netstring # NULL \/ strings_count > 0
      /\ netstring' = NULL /\ netstring_size' = 0
      /\ promised' = FALSE
      /\ UNCHANGED <<buffer, strings_count, strings_length, overrun, status>>
  BY DEF netstring_resume
<1>2. strings_count = 0 => r = Wild
  BY <1>1 DEF NextString
<1>3. strings_count > 0 =>
        r = First + strings_length + 1 /\ r \in Nat /\ r <= buffer_asize
  BY DEF NextString, TypeOK
<1>4. strings_count = 0 \/ strings_count > 0
  BY DEF TypeOK
<1> HIDE DEF r
<1>5. r \in Pointers /\ r # NULL
  BY <1>2, <1>3, <1>4
<1>6. TypeOK'
  BY <1>1, <1>5 DEF TypeOK
<1>7. strings'[strings_count] = r /\ (strings_count > 0 => strings'[0] = strings[0])
  BY <1>1 DEF TypeOK
<1>8. NextString'
  <2>1. CASE strings_count = 0
    BY <1>1, <1>2, <1>7, <2>1 DEF NextString, TypeOK
  <2>2. CASE strings_count > 0
    BY <1>1, <1>3, <1>7, <2>2 DEF NextString, TypeOK
  <2> QED BY <1>4, <2>1, <2>2
<1> QED BY <1>6, <1>8

\* A list that fits is received into the block, whatever was in it.
LEMMA ReadStep ==
  ASSUME TypeOK, NextString, NEW list \in Incoming, netstring_read(list)
  PROVE  /\ TypeOK' /\ NextString'
         /\ ~overrun => ~overrun'
<1> USE Sizes, PointerArithmetic
<1> DEFINE last == Ends(list, Len(list))
<1>1. Len(list) \in Nat /\ Len(list) > 0
  BY IncomingAssumption, EmptySeq, SeqDef
<1>2. /\ Len(list) <= Count - Reserve
      /\ \A i \in 1..Len(list) : Ends(list, i) \in 0..(StrSize - Reserve)
  BY DEF netstring_read, FitsReceived
<1>3. strings[0] = First
  <2>1. strings[0] \notin {NULL, Wild}
    BY DEF netstring_read
  <2>2. strings_count = 0 => strings[0] \in {First, NULL, Wild}
    BY DEF NextString
  <2>3. strings_count > 0 => strings[0] = First
    BY DEF NextString
  <2>4. strings_count = 0 \/ strings_count > 0
    BY DEF TypeOK
  <2> QED BY <2>1, <2>2, <2>3, <2>4
<1>4. last \in Nat /\ last <= StrSize - Reserve
  BY <1>1, <1>2
<1> HIDE DEF last
<1>5. /\ DOMAIN buffer' = DOMAIN buffer
      /\ strings_count' = Len(list)
      /\ strings_length' = last
      /\ overrun' = (overrun \/ Outside(First, last + 1))
      /\ promised' = (netstring = NULL)
      /\ UNCHANGED <<netstring, netstring_size, status>>
  BY <1>3 DEF netstring_read, Poke, last
<1>6. strings' = [i \in 0..Count |->
                    IF i \in 1..Len(list) THEN First + Ends(list, i)
                    ELSE strings[i]]
  BY <1>3 DEF netstring_read, TypeOK
<1>7. /\ strings'[0] = First
      /\ strings'[Len(list)] = First + last
      /\ strings' \in [0..Count -> Pointers]
  <2>1. ASSUME NEW i \in 1..Len(list)
        PROVE  First + Ends(list, i) \in Pointers
    BY <1>2
  <2>2. strings' \in [0..Count -> Pointers]
    BY <1>6, <2>1 DEF TypeOK
  <2> QED BY <1>1, <1>2, <1>3, <1>6, <2>2 DEF last
<1>8. TypeOK'
  BY <1>1, <1>2, <1>4, <1>5, <1>7 DEF TypeOK
<1>9. NextString'
  <2>1. First + last # NULL /\ First + last # Wild
    BY <1>4
  <2>2. /\ strings_count' > 0 /\ strings_count' # 0
        /\ strings_count' <= Count - Reserve
        /\ strings_length' <= StrSize - Reserve
        /\ strings'[0] = First
        /\ strings'[strings_count'] = First + strings_length'
    BY <1>1, <1>2, <1>4, <1>5, <1>7
  <2>3. /\ strings'[strings_count'] # NULL
        /\ strings'[strings_count'] # Wild
    BY <1>5, <2>1, <2>2
  <2>4. promised' => netstring' = NULL
    BY <1>5
  <2> QED BY <2>2, <2>3, <2>4, Zenon DEF NextString
<1>10. ~overrun => ~overrun'
  <2>1. ~Outside(First, last + 1)
    BY <1>4 DEF Outside
  <2> QED BY <1>5, <2>1
<1> QED BY <1>8, <1>9, <1>10

\* For any amount the caller keeps free, with or without resumes: every
\* pointer of the structure lies in the block or right behind it, and the
\* next string goes where the last one ends, or one byte further.
THEOREM BuilderInvariant == Spec => [](TypeOK /\ NextString)
<1> USE Sizes, PointerArithmetic
<1>1. Init => TypeOK /\ NextString
  <2> SUFFICES ASSUME Init PROVE TypeOK /\ NextString
    OBVIOUS
  <2>1. TypeOK
    BY DEF Init, TypeOK
  <2>2. strings[0] = First /\ strings_count = 0 /\ strings_length = 0
    BY DEF Init
  <2> QED BY <2>1, <2>2 DEF NextString, Init
<1>2. TypeOK /\ NextString /\ [Next]_vars => TypeOK' /\ NextString'
  <2> SUFFICES ASSUME TypeOK, NextString, [Next]_vars
               PROVE  TypeOK' /\ NextString'
    OBVIOUS
  <2>1. ASSUME NEW str \in Strings, NEW len \in Lengths,
               netstring_append(str, len)
        PROVE  TypeOK' /\ NextString'
    BY <2>1, AppendStep
  <2>2. ASSUME NEW str \in Strings, NEW len \in Lengths,
               AppendAfterEnd(str, len)
        PROVE  TypeOK' /\ NextString'
    BY <2>2 DEF AppendAfterEnd, TypeOK, NextString
  <2>3. CASE netstring_restart
    <3>1. TypeOK'
      BY <2>3 DEF netstring_restart, TypeOK
    <3>2. strings'[0] = First /\ strings_count' = 0 /\ strings_length' = 0
      BY <2>3 DEF netstring_restart, TypeOK
    <3> QED BY <2>3, <3>1, <3>2 DEF NextString, netstring_restart
  <2>4. CASE netstring_end
    BY <2>4, EndStep DEF netstring_end
  <2>5. CASE netstring_resume
    BY <2>5, ResumeStep
  <2>6. CASE netstring_write
    <3>1. CASE netstring = NULL
      BY <2>6, <3>1, EndStep DEF netstring_write
    <3>2. CASE netstring # NULL
      BY <2>6, <3>2 DEF netstring_write, TypeOK, NextString
    <3> QED BY <3>1, <3>2
  <2>7. CASE ThroughWildPointer
    BY <2>7 DEF ThroughWildPointer, TypeOK, NextString
  <2>9. ASSUME NEW list \in Incoming, netstring_read(list)
        PROVE  TypeOK' /\ NextString'
    BY <2>9, ReadStep
  <2>10. CASE ReadAfterEmptyEnd
    BY <2>10 DEF ReadAfterEmptyEnd, TypeOK, NextString
  <2>11. CASE EndAgain
    BY <2>11 DEF EndAgain, TypeOK, NextString
  <2>8. CASE UNCHANGED vars
    BY <2>8 DEF vars, TypeOK, NextString
  <2> QED
    BY <2>1, <2>2, <2>3, <2>4, <2>5, <2>6, <2>7, <2>8, <2>9, <2>10, <2>11
       DEF Next
<1> QED BY <1>1, <1>2, PTL DEF Spec

\* One free byte is enough for the NUL that netstring_end stores after the
\* comma, two are enough if the structure is resumed: no call ever stores
\* outside the block.
THEOREM InBlockTheorem ==
  ASSUME RoomKept
  PROVE  Spec => []InBlock
<1>1. Init => InBlock
  BY DEF Init, InBlock
<1>2. TypeOK /\ NextString /\ InBlock /\ [Next]_vars => InBlock'
  <2> SUFFICES ASSUME TypeOK, NextString, InBlock, [Next]_vars
               PROVE  InBlock'
    OBVIOUS
  <2>1. ASSUME NEW str \in Strings, NEW len \in Lengths,
               netstring_append(str, len)
        PROVE  InBlock'
    BY <2>1, AppendStep DEF InBlock
  <2>2. CASE netstring_end
    BY <2>2, EndEffectFacts DEF netstring_end, InBlock
  <2>3. CASE netstring_write
    BY <2>3, EndEffectFacts DEF netstring_write, InBlock
  <2>4. CASE UNCHANGED overrun
    BY <2>4 DEF InBlock
  <2>5. ASSUME NEW list \in Incoming, netstring_read(list)
        PROVE  InBlock'
    BY <2>5, ReadStep DEF InBlock
  <2> QED
    BY <2>1, <2>2, <2>3, <2>4, <2>5
       DEF Next, AppendAfterEnd, EndAgain, netstring_restart,
           netstring_resume, ThroughWildPointer, ReadAfterEmptyEnd, vars
<1> QED BY <1>1, <1>2, BuilderInvariant, PTL DEF Spec

\* A caller that keeps one byte and one string free runs into no assert, and
\* into a null pointer only where it uses a structure that is ended, or an
\* empty one that it resumed.
THEOREM NeverStopsTheorem ==
  ASSUME Reserve >= 1
  PROVE  Spec => []NeverStops
<1>1. Init => NeverStops
  BY DEF Init, NeverStops
<1>2. TypeOK /\ NextString /\ NeverStops /\ [Next]_vars => NeverStops'
  <2> SUFFICES ASSUME TypeOK, NextString, NeverStops, [Next]_vars
               PROVE  NeverStops'
    OBVIOUS
  <2>1. ASSUME NEW str \in Strings, NEW len \in Lengths,
               netstring_append(str, len)
        PROVE  NeverStops'
    BY <2>1, AppendStep
  <2>2. ASSUME NEW str \in Strings, NEW len \in Lengths,
               AppendAfterEnd(str, len)
        PROVE  NeverStops'
    BY <2>2 DEF AppendAfterEnd, NextString, NeverStops
  <2>a. CASE EndAgain
    BY <2>a DEF EndAgain, NextString, NeverStops
  <2>3. CASE ThroughWildPointer
    <3>1. strings_count = 0 /\ ~promised
      BY <2>3, Sizes, PointerArithmetic
         DEF ThroughWildPointer, NextString, TypeOK
    <3> QED BY <2>3, <3>1 DEF ThroughWildPointer, NeverStops
  <2>4. CASE ReadAfterEmptyEnd
    <3>1. strings_count = 0
      <4>1. strings[0] # First
        <5>1. strings[0] = NULL
          BY <2>4, Zenon DEF ReadAfterEmptyEnd
        <5>2. First # NULL
          BY Sizes, PointerArithmetic
        <5> QED BY <5>1, <5>2
      <4>2. strings_count > 0 => strings[0] = First
        BY DEF NextString
      <4>3. strings_count = 0 \/ strings_count > 0
        BY Sizes DEF TypeOK
      <4> QED BY <4>1, <4>2, <4>3
    <3>2. netstring # NULL
      BY <2>4, <3>1 DEF ReadAfterEmptyEnd, NextString
    <3> QED BY <2>4, <3>2 DEF ReadAfterEmptyEnd, NeverStops
  <2>5. CASE status' = "running"
    BY <2>5 DEF NeverStops
  <2>6. CASE UNCHANGED vars
    BY <2>6 DEF vars, NeverStops
  <2>7. (netstring_restart \/ netstring_end \/ netstring_resume
           \/ netstring_write \/ \E list \in Incoming : netstring_read(list))
          => status' = "running"
    BY DEF netstring_restart, netstring_end, netstring_resume,
           netstring_write, netstring_read
  <2> QED
    BY <2>1, <2>2, <2>a, <2>3, <2>4, <2>5, <2>6, <2>7 DEF Next
<1> QED BY <1>1, <1>2, BuilderInvariant, PTL DEF Spec

\* The types of the fields, whatever the caller keeps free.
THEOREM TypeCorrect == Spec => []TypeOK
BY BuilderInvariant, PTL

-----------------------------------------------------------------------------
(***************************************************************************)
(* What the block holds.                                                   *)
(***************************************************************************)

Bytes == Chars \cup {NUL}

\* The list l is in the block, as netstring.h:8-36 describes it.
Held(l) ==
  /\ strings_count = Len(l)
  /\ strings_length = Len(Body(l))
  /\ \A i \in 0..(strings_count - 1) : strings[i] = First + UpTo(l, i)
  /\ \A j \in 1..strings_length : buffer[First + j - 1] = Body(l)[j]

\* It is the list that the pointers delimit.
HoldsContents ==
  promised => Contents \in Seq(Seq(Bytes)) /\ Held(Contents)

\* What netstring_end has made of it.
Ended ==
  promised /\ netstring # NULL =>
    /\ netstring = First - Len(Preamble)
    /\ netstring_size = Len(Preamble) + strings_length + 1
    /\ buffer[First + strings_length] = Comma
    /\ \A j \in 1..Len(Preamble) : buffer[netstring + j - 1] = Preamble[j]

\* Every string, also of a message that was resumed, has a NUL that no later
\* string or comma is stored over.
Terminated ==
  \A i \in 0..(strings_count - 1) :
    /\ strings[i] \in Nat /\ strings[i] >= First
    /\ \E e \in strings[i]..(First + strings_length) :
         /\ buffer[e] = NUL
         /\ strings[strings_count] \notin {NULL, Wild}
              => e < strings[strings_count]

BlockInv ==
  /\ netstring = NULL => netstring_size = 0
  /\ HoldsContents
  /\ Ended
  /\ Terminated

\* One byte of the block after a store.
LEMMA AppendArithmetic ==
  ASSUME NEW from \in Nat, NEW length \in Nat, NEW n \in Nat,
         NEW count \in Nat, NEW size \in Nat, count + 1 \in 0..size
  PROVE  /\ from + (length + n + 1) - 1 = from + length + n
         /\ \A i \in 0..((count + 1) - 1) :
              i \in 0..count /\ i # count + 1 /\ i \in 0..size
         /\ \A j \in 1..(length + n + 1) :
              \/ j <= length
              \/ length < j /\ j <= length + n
              \/ j = length + n + 1
OBVIOUS

LEMMA PokeAt ==
  ASSUME NEW mem, NEW at \in Int, NEW seq, Len(seq) \in Nat,
         NEW i \in DOMAIN mem, i \in Int
  PROVE  /\ i < at \/ i >= at + Len(seq) => Poke(mem, at, seq)[i] = mem[i]
         /\ at <= i /\ i < at + Len(seq) =>
              Poke(mem, at, seq)[i] = seq[i - at + 1]
BY DEF Poke

\* Where the pointers of a structure are that nobody has resumed.
LEMMA PromisedPointers ==
  ASSUME TypeOK, NextString, promised
  PROVE  /\ netstring = NULL =>
              /\ strings[0] = First
              /\ strings[strings_count] = First + strings_length
         /\ netstring # NULL => strings[strings_count] = NULL
         /\ strings_count > 0 => strings[0] = First
         /\ strings_length \in Nat /\ strings_count \in Nat
         /\ First + strings_length \in 0..(buffer_asize - 1)
<1> USE Sizes, PointerArithmetic
<1>1. strings_length \in Nat /\ strings_count \in Nat
  BY DEF TypeOK
<1>2. strings[strings_count] \in {NULL, First + strings_length}
  BY DEF NextString
<1>3. strings_count = 0 \/ strings_count > 0
  BY <1>1
<1>4. First + strings_length \in 0..(buffer_asize - 1)
  BY <1>1, <1>3 DEF NextString
<1>5. strings_count > 0 => strings[0] = First
  BY DEF NextString
<1>6. netstring # NULL <=> strings[strings_count] = NULL
  BY DEF NextString
<1>7. strings_count = 0 => strings_length = 0
  BY DEF NextString
<1> QED BY <1>1, <1>2, <1>3, <1>4, <1>5, <1>6, <1>7

\* A list that is held is what the pointers delimit, string by string.
LEMMA HeldIsContents ==
  ASSUME TypeOK, NEW l \in Seq(Seq(Bytes)), Held(l)
  PROVE  /\ Contents = l
         /\ \A i \in 0..(strings_count - 1) :
              EndOfString(i) = First + UpTo(l, i + 1)
<1>0. First \in Nat
  BY Sizes
<1>1. /\ strings_count = Len(l) /\ strings_length = Len(Body(l))
      /\ \A i \in 0..(strings_count - 1) : strings[i] = First + UpTo(l, i)
      /\ \A j \in 1..strings_length : buffer[First + j - 1] = Body(l)[j]
  BY DEF Held
<1>2. strings_count \in Nat /\ strings_length \in Nat
  BY DEF TypeOK
<1>3. \A i \in 1..Len(l) : PartAt(l, i)
  BY BodyParts
<1>4. UpTo(l, 0) = 0 /\ UpTo(l, Len(l)) = Len(Body(l))
  BY UpToEnds
<1>5. ASSUME NEW i \in 0..(strings_count - 1)
      PROVE  EndOfString(i) = First + UpTo(l, i + 1)
  <2>1. CASE i + 1 < strings_count
    <3>1. i + 1 \in 0..(strings_count - 1)
      BY <1>2, <2>1
    <3> QED BY <1>1, <2>1, <3>1 DEF EndOfString
  <2>2. CASE ~(i + 1 < strings_count)
    <3>1. i + 1 = strings_count /\ 0 \in 0..(strings_count - 1)
      BY <1>2, <2>2
    <3>2. strings[0] = First
      BY <1>0, <1>1, <1>4, <3>1
    <3> QED BY <1>0, <1>1, <1>4, <2>2, <3>1, <3>2 DEF EndOfString
  <2> QED BY <2>1, <2>2
<1>6. ASSUME NEW i \in 1..Len(l)
      PROVE  StringAt(i - 1) = l[i]
  <2>1. i - 1 \in 0..(strings_count - 1) /\ (i - 1) + 1 = i
    BY <1>1, <1>2
  <2>2. l[i] \in Seq(Bytes)
    BY ElementOfSeq
  <2>3. Len(l[i]) \in Nat /\ l[i] = [k \in 1..Len(l[i]) |-> l[i][k]]
    BY <2>2, LenProperties
  <2>4. /\ UpTo(l, i - 1) \in Nat
        /\ UpTo(l, i) = UpTo(l, i - 1) + Len(l[i]) + 1
        /\ UpTo(l, i) <= strings_length
    BY <1>1, <1>3 DEF PartAt
  <2>5. \A j \in 1..Len(l[i]) : Body(l)[UpTo(l, i - 1) + j] = l[i][j]
    BY <1>3 DEF PartAt
  <2>6. strings[i - 1] = First + UpTo(l, i - 1)
    BY <1>1, <2>1
  <2>7. EndOfString(i - 1) = First + UpTo(l, i)
    BY <1>5, <2>1
  <2>8. EndOfString(i - 1) - strings[i - 1] - 1 = Len(l[i])
    <3>1. UpTo(l, i - 1) \in Nat /\ Len(l[i]) \in Nat
      BY <2>3, <2>4, Zenon
    <3>2. (First + (UpTo(l, i - 1) + Len(l[i]) + 1)) - (First + UpTo(l, i - 1)) - 1
            = Len(l[i])
      BY <1>0, <3>1
    <3>3. EndOfString(i - 1) = First + (UpTo(l, i - 1) + Len(l[i]) + 1)
      BY <2>4, <2>7, Zenon
    <3> QED BY <2>6, <3>2, <3>3, Zenon
  <2>9. ASSUME NEW k \in 1..Len(l[i])
        PROVE  buffer[strings[i - 1] + k - 1] = l[i][k]
    <3> DEFINE j == UpTo(l, i - 1) + k
    <3>0. Len(l[i]) \in Nat
      BY <2>3
    <3>1. j \in 1..strings_length
      BY <1>2, <2>4, <3>0
    <3>4. (First + UpTo(l, i - 1)) + k - 1 = First + j - 1
      BY <1>0, <2>4, <3>0
    <3>2. Body(l)[j] = l[i][k]
      BY <2>5
    <3> HIDE DEF j
    <3>3. buffer[First + j - 1] = Body(l)[j]
      BY <1>1, <3>1
    <3> QED BY <2>6, <3>2, <3>3, <3>4, Zenon
  <2>10. StringAt(i - 1) =
           [k \in 1..Len(l[i]) |-> buffer[strings[i - 1] + k - 1]]
    BY <2>8 DEF StringAt, Peek
  <2> QED BY <2>3, <2>9, <2>10
<1>7. l = [i \in 1..Len(l) |-> l[i]]
  BY LenProperties
<1>8. Contents = [i \in 1..Len(l) |-> StringAt(i - 1)]
  BY <1>1 DEF Contents
<1>9. Contents = l
  BY <1>6, <1>7, <1>8, Zenon
<1> QED BY <1>5, <1>9

-----------------------------------------------------------------------------
\* What netstring_append stores, and where.

LEMMA CopiedType ==
  ASSUME NEW str \in Strings, NEW n \in Nat
  PROVE  /\ Copied(str, n) \in Seq(Bytes) /\ Len(Copied(str, n)) = n
         /\ \A i \in 1..n :
              Copied(str, n)[i] = IF i <= Len(str) THEN str[i] ELSE NUL
<1>1. Copied(str, n) = [i \in 1..n |-> IF i <= Len(str) THEN str[i] ELSE NUL]
  BY DEF Copied
<1>2. str \in Seq(Chars) /\ Len(str) \in Nat
  BY StringsAssumption, LenProperties
<1>3. ASSUME NEW i \in 1..n
      PROVE  (IF i <= Len(str) THEN str[i] ELSE NUL) \in Bytes
  <2>1. CASE i <= Len(str)
    <3>1. i \in 1..Len(str)
      BY <1>2, <2>1
    <3>2. str[i] \in Chars
      BY <1>2, <3>1, ElementOfSeq
    <3> QED BY <2>1, <3>2, Zenon DEF Bytes
  <2>2. CASE ~(i <= Len(str))
    BY <2>2, Zenon DEF Bytes
  <2> QED BY <2>1, <2>2
<1>4. Copied(str, n) \in [1..n -> Bytes]
  BY <1>1, <1>3
<1>5. Copied(str, n) \in Seq(Bytes)
  BY <1>4, SeqDef
<1>6. Len(Copied(str, n)) = n
  BY <1>1
<1> QED BY <1>1, <1>5, <1>6

\* A string of n bytes and its NUL, stored at offset at.
LEMMA PokedString ==
  ASSUME NEW mem, NEW size \in Nat, NEW at \in Nat, NEW n \in Nat,
         at + n + 1 \in 0..size, DOMAIN mem = 0..size,
         NEW a, Len(a) = n + 1,
         NEW c, \A j \in 1..n : a[j] = c[j], a[n + 1] = NUL,
         NEW new, new = Poke(mem, at, a)
  PROVE  /\ \A i \in 0..size : i < at => new[i] = mem[i]
         /\ \A j \in 1..n : new[at + j - 1] = c[j]
         /\ new[at + n] = NUL
<1>1. ASSUME NEW i \in 0..size
      PROVE  /\ i < at => new[i] = mem[i]
             /\ at <= i /\ i < at + n + 1 => new[i] = a[i - at + 1]
  <2>1. Len(a) \in Nat /\ i \in Int /\ i \in DOMAIN mem
    OBVIOUS
  <2>2. /\ i < at => Poke(mem, at, a)[i] = mem[i]
        /\ at <= i /\ i < at + Len(a) => Poke(mem, at, a)[i] = a[i - at + 1]
    BY <2>1, PokeAt
  <2>3. at + Len(a) = at + n + 1
    OBVIOUS
  <2> QED BY <2>2, <2>3, Zenon
<1>2. ASSUME NEW j \in 1..n
      PROVE  new[at + j - 1] = c[j]
  <2>1. /\ at + j - 1 \in 0..size /\ at <= at + j - 1
        /\ at + j - 1 < at + n + 1 /\ (at + j - 1) - at + 1 = j
    OBVIOUS
  <2>2. new[at + j - 1] = a[(at + j - 1) - at + 1]
    BY <1>1, <2>1, Zenon
  <2> QED BY <2>1, <2>2, Zenon
<1>3. new[at + n] = NUL
  <2>1. /\ at + n \in 0..size /\ at <= at + n
        /\ at + n < at + n + 1 /\ (at + n) - at + 1 = n + 1
    OBVIOUS
  <2>2. new[at + n] = a[(at + n) - at + 1]
    BY <1>1, <2>1, Zenon
  <2> QED BY <2>1, <2>2, Zenon
<1> QED BY <1>1, <1>2, <1>3, Zenon

\* The store of n characters c and a NUL at offset at, as it is observed.
Stored(at, c, n) ==
  /\ \A i \in 0..buffer_asize : i < at => buffer'[i] = buffer[i]
  /\ \A j \in 1..n : buffer'[at + j - 1] = c[j]
  /\ buffer'[at + n] = NUL

\* What an append of n bytes at temp does to an open structure.
Appends(str, n, temp) ==
  /\ n \in Nat /\ temp \in Nat
  /\ temp \in {First + strings_length, First + strings_length + 1}
  /\ temp + n + 1 \in 0..buffer_asize
  /\ strings_count \in Nat /\ strings_length \in Nat
  /\ strings_count + 1 \in 0..Count
  /\ Stored(temp, Copied(str, n), n)
  /\ strings' = [strings EXCEPT ![strings_count + 1] = temp + n + 1]
  /\ strings_count' = strings_count + 1
  /\ strings_length' = strings_length + n + 1
  /\ promised => temp = First + strings_length /\ netstring = NULL

LEMMA AppendStored ==
  ASSUME TypeOK, NextString, NEW str \in Strings, NEW len \in Lengths,
         netstring_append(str, len)
  PROVE  Appends(str, EffectiveLength(str, len), strings[strings_count])
<1>n. PICK n : n = EffectiveLength(str, len)
  OBVIOUS
<1>t. PICK temp : temp = strings[strings_count]
  OBVIOUS
<1>1. n \in Nat
  BY <1>n, EffectiveLengthType
<1>2. /\ temp \notin {NULL, Wild}
      /\ strings_length + n + 1 <= StrSize - Reserve
      /\ strings_count + 1 <= Count - Reserve
      /\ buffer' = Poke(buffer, temp, Append(Copied(str, n), NUL))
      /\ strings' = [strings EXCEPT ![strings_count + 1] = temp + n + 1]
      /\ strings_count' = strings_count + 1
      /\ strings_length' = strings_length + n + 1
  BY <1>n, <1>t DEF netstring_append, Fits
<1>3. strings_count \in Nat /\ strings_length \in Nat
  BY DEF TypeOK
<1>4. temp \in {First + strings_length, First + strings_length + 1}
  BY <1>2, <1>t DEF NextString
<1>5. promised => temp = First + strings_length /\ netstring = NULL
  BY <1>2, <1>t DEF NextString
<1>6. temp \in Nat /\ temp + n + 1 \in 0..buffer_asize
  BY <1>1, <1>2, <1>3, <1>4, Sizes
<1>7. strings_count + 1 \in 0..Count
  BY <1>2, <1>3, Sizes
<1> DEFINE c == Copied(str, n)
           a == Append(c, NUL)
<1>8. /\ Len(a) = n + 1
      /\ \A j \in 1..n : a[j] = c[j]
      /\ a[n + 1] = NUL
  <2>1. c \in Seq(Bytes) /\ Len(c) = n /\ NUL \in Bytes
    BY <1>1, CopiedType DEF Bytes
  <2> HIDE DEF c
  <2> QED BY <2>1, AppendProperties
<1>9. DOMAIN buffer = 0..buffer_asize
  BY DEF TypeOK
<1>10. buffer' = Poke(buffer, temp, a)
  BY <1>2
<1> HIDE DEF a, c
<1>11. Stored(temp, c, n)
  <2>1. buffer_asize \in Nat
    BY Sizes
  <2>2. /\ \A i \in 0..buffer_asize : i < temp => buffer'[i] = buffer[i]
        /\ \A j \in 1..n : buffer'[temp + j - 1] = c[j]
        /\ buffer'[temp + n] = NUL
    BY <1>1, <1>6, <1>8, <1>9, <1>10, <2>1, PokedString
  <2> QED BY <2>2, Zenon DEF Stored
<1>12. Appends(str, n, temp)
  BY <1>1, <1>2, <1>3, <1>4, <1>5, <1>6, <1>7, <1>11, Zenon DEF c, Appends
<1> QED BY <1>n, <1>t, <1>12, Zenon

LEMMA AppendStores ==
  ASSUME TypeOK, NextString, NEW str \in Strings, NEW len \in Lengths,
         netstring_append(str, len),
         NEW n, n = EffectiveLength(str, len),
         NEW temp, temp = strings[strings_count]
  PROVE  /\ n \in Nat /\ temp \in Nat
         /\ temp \in {First + strings_length, First + strings_length + 1}
         /\ temp + n + 1 \in 0..buffer_asize
         /\ strings_count \in Nat /\ strings_length \in Nat
         /\ strings_count + 1 \in 0..Count
         /\ Stored(temp, Copied(str, n), n)
         /\ strings' = [strings EXCEPT ![strings_count + 1] = temp + n + 1]
         /\ strings_count' = strings_count + 1
         /\ strings_length' = strings_length + n + 1
         /\ promised => temp = First + strings_length /\ netstring = NULL
<1>1. Appends(str, EffectiveLength(str, len), strings[strings_count])
  BY AppendStored, Zenon
<1>2. Appends(str, n, temp)
  BY <1>1, Zenon
<1> QED BY <1>2, Zenon DEF Appends

\* The list grows by what strncpy has copied.
LEMMA AppendHeld ==
  ASSUME TypeOK, NextString, promised,
         NEW str \in Strings, NEW len \in Lengths, netstring_append(str, len),
         NEW l \in Seq(Seq(Bytes)), Held(l)
  PROVE  LET c == Copied(str, EffectiveLength(str, len))
         IN  /\ Append(l, c) \in Seq(Seq(Bytes))
             /\ (Held(Append(l, c)))'
<1>c. PICK c : c = Copied(str, EffectiveLength(str, len))
  OBVIOUS
<1>n. PICK n : n = EffectiveLength(str, len)
  OBVIOUS
<1>t. PICK temp : temp = strings[strings_count]
  OBVIOUS
<1> DEFINE m == Append(l, c)
<1>0. First = 11 /\ First \in Nat /\ buffer_asize \in Nat /\ Count \in Nat
  BY Sizes
<1>1. /\ n \in Nat /\ temp \in Nat
      /\ temp = First + strings_length
      /\ temp + n + 1 \in 0..buffer_asize
      /\ strings_count \in Nat /\ strings_length \in Nat
      /\ strings_count + 1 \in 0..Count
  BY <1>n, <1>t, AppendStores, Zenon
<1>2. /\ \A i \in 0..buffer_asize : i < temp => buffer'[i] = buffer[i]
      /\ \A j \in 1..n : buffer'[temp + j - 1] = c[j]
      /\ buffer'[temp + n] = NUL
  <2>1. c = Copied(str, n)
    BY <1>c, <1>n
  <2>2. Stored(temp, Copied(str, n), n)
    BY <1>n, <1>t, AppendStores
  <2> QED BY <2>1, <2>2, Zenon DEF Stored
<1>3. /\ strings' = [strings EXCEPT ![strings_count + 1] = temp + n + 1]
      /\ strings_count' = strings_count + 1
      /\ strings_length' = strings_length + n + 1
  BY <1>n, <1>t, AppendStores
<1>4. c \in Seq(Bytes) /\ Len(c) = n
  BY <1>1, <1>c, <1>n, CopiedType
<1>5. /\ strings_count = Len(l) /\ strings_length = Len(Body(l))
      /\ \A i \in 0..(strings_count - 1) : strings[i] = First + UpTo(l, i)
      /\ \A j \in 1..strings_length : buffer[First + j - 1] = Body(l)[j]
  BY DEF Held
<1>6. m \in Seq(Seq(Bytes)) /\ Len(m) = Len(l) + 1
  BY <1>4, AppendProperties
<1>7. /\ PartAt(m, Len(l) + 1)
      /\ \A j \in 1..Len(Body(l)) : Body(m)[j] = Body(l)[j]
      /\ Len(Body(m)) = Len(Body(l)) + n + 1
  BY <1>4, LastPart
<1>8. /\ UpTo(m, Len(l)) = strings_length
      /\ UpTo(m, Len(l) + 1) = strings_length + n + 1
      /\ m[Len(l) + 1] = c
      /\ \A i \in 0..Len(l) : UpTo(m, i) = UpTo(l, i)
  <2>1. \A i \in 0..Len(l) : SubSeq(m, 1, i) = SubSeq(l, 1, i)
    BY LenProperties, AppendProperties
  <2>2. \A i \in 0..Len(l) : UpTo(m, i) = UpTo(l, i)
    BY <2>1 DEF UpTo
  <2>3. UpTo(l, Len(l)) = strings_length
    BY <1>5, UpToEnds
  <2>4. UpTo(m, Len(m)) = Len(Body(m))
    BY <1>6, UpToEnds
  <2>5. m[Len(l) + 1] = c
    BY <1>4, AppendProperties
  <2>6. Len(l) \in 0..Len(l)
    BY <1>1, <1>5
  <2>7. UpTo(m, Len(l) + 1) = strings_length + n + 1
    BY <1>5, <1>6, <1>7, <2>4
  <2> QED BY <2>2, <2>3, <2>5, <2>6, <2>7
<1> HIDE DEF m
<1>9. \A i \in 0..(strings_count' - 1) : strings'[i] = First + UpTo(m, i)
  <2> SUFFICES ASSUME NEW i \in 0..(strings_count' - 1)
               PROVE  strings'[i] = First + UpTo(m, i)
    OBVIOUS
  <2>1. i \in 0..strings_count /\ i # strings_count + 1 /\ i \in 0..Count
    BY <1>0, <1>1, <1>3, AppendArithmetic, Zenon
  <2>2. strings'[i] = strings[i]
    BY <1>3, <2>1 DEF TypeOK
  <2>3. CASE i = strings_count
    <3>1. strings[i] = First + strings_length
      BY <1>1, <1>t, <2>3
    <3>2. UpTo(m, i) = strings_length
      BY <1>5, <1>8, <2>3
    <3> QED BY <2>2, <3>1, <3>2, Zenon
  <2>4. CASE i # strings_count
    <3>1. i \in 0..(strings_count - 1) /\ i \in 0..Len(l)
      BY <1>1, <1>5, <2>1, <2>4
    <3> QED BY <1>5, <1>8, <2>2, <3>1, Zenon
  <2> QED BY <2>3, <2>4
<1>10. \A j \in 1..strings_length' : buffer'[First + j - 1] = Body(m)[j]
  <2> SUFFICES ASSUME NEW j \in 1..strings_length'
               PROVE  buffer'[First + j - 1] = Body(m)[j]
    OBVIOUS
  <2>0. j \in 1..(strings_length + n + 1)
    BY <1>3
  <2>1. CASE j <= strings_length
    <3>1. /\ j \in 1..strings_length /\ First + j - 1 \in 0..buffer_asize
          /\ First + j - 1 < temp
      BY <1>0, <1>1, <2>0, <2>1
    <3>2. buffer'[First + j - 1] = buffer[First + j - 1]
      BY <1>2, <3>1, Zenon
    <3> QED BY <1>5, <1>7, <3>1, <3>2, Zenon
  <2>2. CASE strings_length < j /\ j <= strings_length + n
    <3> DEFINE k == j - strings_length
    <3>1. k \in 1..n /\ First + j - 1 = temp + k - 1
          /\ strings_length + k = j
      BY <1>0, <1>1, <2>0, <2>2
    <3> HIDE DEF k
    <3>2. buffer'[temp + k - 1] = c[k]
      BY <1>2, <3>1, Zenon
    <3>3. Body(m)[UpTo(m, (Len(l) + 1) - 1) + k] = m[Len(l) + 1][k]
      BY <1>4, <1>7, <1>8, <3>1 DEF PartAt
    <3>4. (Len(l) + 1) - 1 = Len(l)
      BY <1>1, <1>5
    <3> QED BY <1>8, <3>1, <3>2, <3>3, <3>4, Zenon
  <2>3. CASE j = strings_length + n + 1
    <3>1. First + j - 1 = temp + n
      BY <1>0, <1>1, <2>3
    <3>2. Body(m)[UpTo(m, Len(l) + 1)] = NUL
      BY <1>7 DEF PartAt
    <3> QED BY <1>2, <1>8, <2>3, <3>1, <3>2, Zenon
  <2>4. \/ j <= strings_length
        \/ strings_length < j /\ j <= strings_length + n
        \/ j = strings_length + n + 1
    BY <1>0, <1>1, <2>0, AppendArithmetic, Zenon
  <2> QED BY <2>1, <2>2, <2>3, <2>4
<1>11. strings_count' = Len(m) /\ strings_length' = Len(Body(m))
  BY <1>3, <1>5, <1>6, <1>7
<1>12. (Held(m))'
  BY <1>9, <1>10, <1>11 DEF Held
<1> QED BY <1>c, <1>6, <1>12 DEF m

-----------------------------------------------------------------------------
\* What netstring_end stores, and where.

EndStored(temp) ==
  /\ \A i \in 0..buffer_asize :
       First <= i /\ i < temp => buffer'[i] = buffer[i]
  /\ temp \in 0..buffer_asize => buffer'[temp] = Comma
  /\ \A j \in 1..Len(Preamble) : buffer'[netstring' + j - 1] = Preamble[j]

LEMMA EndStores ==
  ASSUME TypeOK, NextString, EndEffect,
         strings[strings_count] \notin {NULL, Wild},
         NEW temp, temp = strings[strings_count]
  PROVE  /\ temp \in Nat
         /\ temp \in {First + strings_length, First + strings_length + 1}
         /\ EndStored(temp)
         /\ strings' = [strings EXCEPT ![strings_count] = NULL]
         /\ netstring' = First - Len(Preamble)
         /\ netstring' # NULL
         /\ netstring_size' = Len(Preamble) + strings_length + 1
<1> USE Sizes, PointerArithmetic
<1>a. PICK q : q = Len(Preamble)
  OBVIOUS
<1>1. q \in Nat /\ 2 <= q /\ q <= 10
  BY <1>a, PreambleLength
<1>2. strings[0] = First
  BY EndEffectFacts
<1>3. strings_length \in Nat /\ strings_count \in Nat
  BY DEF TypeOK
<1>4. temp \in {First + strings_length, First + strings_length + 1}
  BY DEF NextString
<1>5. temp \in Nat /\ temp >= First
  BY <1>3, <1>4
<1>b. PICK one : one = Poke(buffer, First - q, Preamble)
  OBVIOUS
<1>c. PICK two : two = <<Comma, NUL>>
  OBVIOUS
<1>6. /\ buffer' = Poke(one, temp, two)
      /\ strings' = [strings EXCEPT ![strings_count] = NULL]
      /\ netstring' = First - q
      /\ netstring_size' = q + strings_length + 1
  BY <1>2, <1>a, <1>b, <1>c DEF EndEffect
<1>7. DOMAIN buffer = 0..buffer_asize /\ DOMAIN one = 0..buffer_asize
  BY <1>b DEF TypeOK, Poke
<1>8. Len(two) = 2 /\ two[1] = Comma
  BY <1>c
<1>9. ASSUME NEW i \in 0..buffer_asize
      PROVE  /\ i >= First => one[i] = buffer[i]
             /\ First - q <= i /\ i < First =>
                  one[i] = Preamble[i - (First - q) + 1]
  <2>1. /\ i < First - q \/ i >= First - q + Len(Preamble)
             => Poke(buffer, First - q, Preamble)[i] = buffer[i]
        /\ First - q <= i /\ i < First - q + Len(Preamble) =>
             Poke(buffer, First - q, Preamble)[i]
               = Preamble[i - (First - q) + 1]
    <3>1. /\ First - q \in Int /\ Len(Preamble) \in Nat
          /\ i \in DOMAIN buffer /\ i \in Int
      BY <1>1, <1>7, <1>a
    <3> QED BY <3>1, PokeAt
  <2>2. First - q + Len(Preamble) = First
    BY <1>1, <1>a
  <2> QED BY <1>b, <2>1, <2>2, Zenon
<1>10. ASSUME NEW i \in 0..buffer_asize
       PROVE  /\ i < temp => buffer'[i] = one[i]
              /\ i = temp => buffer'[i] = Comma
  <2>1. /\ i < temp \/ i >= temp + 2
             => Poke(one, temp, two)[i] = one[i]
        /\ temp <= i /\ i < temp + 2 =>
             Poke(one, temp, two)[i]
               = two[i - temp + 1]
    <3>1. temp \in Int /\ i \in DOMAIN one /\ Len(two) \in Nat
      BY <1>5, <1>7, <1>8
    <3>2. i \in Int
      OBVIOUS
    <3>3. /\ i < temp \/ i >= temp + Len(two)
               => Poke(one, temp, two)[i] = one[i]
          /\ temp <= i /\ i < temp + Len(two) =>
               Poke(one, temp, two)[i] = two[i - temp + 1]
      BY <3>1, <3>2, PokeAt
    <3> QED BY <1>8, <3>3, Zenon
  <2>2. i = temp => temp <= i /\ i < temp + 2 /\ i - temp + 1 = 1
    BY <1>5
  <2> QED BY <1>6, <1>8, <2>1, <2>2, Zenon
<1>11. EndStored(temp)
  <2>1. \A i \in 0..buffer_asize :
          First <= i /\ i < temp => buffer'[i] = buffer[i]
    BY <1>9, <1>10
  <2>2. temp \in 0..buffer_asize => buffer'[temp] = Comma
    BY <1>10
  <2>3. ASSUME NEW j \in 1..Len(Preamble)
        PROVE  buffer'[netstring' + j - 1] = Preamble[j]
    <3>0. PICK i : i = First - q + j - 1
      OBVIOUS
    <3>1. /\ i \in 0..buffer_asize /\ First - q <= i /\ i < First
          /\ i < temp /\ i - (First - q) + 1 = j
      <4>1. j \in 1..q
        BY <1>a
      <4> QED BY <1>1, <1>5, <3>0, <4>1
    <3>2. buffer'[i] = Preamble[j]
      BY <1>9, <1>10, <3>1, Zenon
    <3> QED BY <1>6, <3>0, <3>2, Zenon
  <2> QED BY <2>1, <2>2, <2>3 DEF EndStored
<1>12. netstring' # NULL
  <2>1. First - q # NULL
    BY <1>1, Sizes DEF NULL
  <2> QED BY <1>6, <2>1, Zenon
<1> QED BY <1>4, <1>5, <1>6, <1>11, <1>12, <1>a

\* netstring_end leaves the list as it is and makes a message of it.
LEMMA EndHeld ==
  ASSUME TypeOK, NextString, promised, EndEffect,
         strings[strings_count] \notin {NULL, Wild},
         UNCHANGED <<strings_count, strings_length, promised>>,
         NEW l, Held(l)
  PROVE  (Held(l))' /\ Ended'
<1> USE Sizes
<1> PICK temp : temp = strings[strings_count]
  OBVIOUS
<1>1. /\ temp \in Nat /\ temp = First + strings_length
      /\ strings_length \in Nat /\ strings_count \in Nat
      /\ First + strings_length \in 0..buffer_asize
  <2>1. temp \in Nat
    BY EndStores
  <2>2. netstring # NULL => temp = NULL
    BY PromisedPointers
  <2>3. netstring = NULL
    BY <2>1, <2>2, PointerArithmetic
  <2> QED BY <2>1, <2>3, PromisedPointers
<1>2. /\ EndStored(temp)
      /\ strings' = [strings EXCEPT ![strings_count] = NULL]
      /\ netstring' = First - Len(Preamble)
      /\ netstring_size' = Len(Preamble) + strings_length + 1
  BY EndStores
<1>3. \A i \in 0..(strings_count - 1) : strings'[i] = strings[i]
  BY <1>1, <1>2 DEF TypeOK
<1>4. \A j \in 1..strings_length :
        buffer'[First + j - 1] = buffer[First + j - 1]
  <2>1. \A j \in 1..strings_length :
          /\ First + j - 1 \in 0..buffer_asize
          /\ First <= First + j - 1 /\ First + j - 1 < temp
    BY <1>1
  <2> QED BY <1>2, <2>1 DEF EndStored
<1>5. (Held(l))'
  BY <1>3, <1>4 DEF Held
<1>6. Preamble' = Preamble
  BY DEF Preamble
<1>7. buffer'[First + strings_length] = Comma
  BY <1>1, <1>2 DEF EndStored
<1>8. \A j \in 1..Len(Preamble) : buffer'[netstring' + j - 1] = Preamble[j]
  BY <1>2 DEF EndStored
<1>9. Ended'
  BY <1>2, <1>6, <1>7, <1>8 DEF Ended
<1> QED BY <1>5, <1>9

-----------------------------------------------------------------------------
\* A list that is held is terminated, string by string.
LEMMA HeldTerminated ==
  ASSUME TypeOK, NextString, NEW l \in Seq(Seq(Bytes)), Held(l)
  PROVE  Terminated
<1> USE Sizes
<1>1. /\ strings_count = Len(l) /\ strings_length = Len(Body(l))
      /\ \A i \in 0..(strings_count - 1) : strings[i] = First + UpTo(l, i)
      /\ \A j \in 1..strings_length : buffer[First + j - 1] = Body(l)[j]
  BY DEF Held
<1>2. strings_count \in Nat /\ strings_length \in Nat
  BY DEF TypeOK
<1> SUFFICES ASSUME NEW i \in 0..(strings_count - 1)
             PROVE  /\ strings[i] \in Nat /\ strings[i] >= First
                    /\ \E e \in strings[i]..(First + strings_length) :
                         /\ buffer[e] = NUL
                         /\ strings[strings_count] \notin {NULL, Wild}
                              => e < strings[strings_count]
  BY DEF Terminated
<1>3. i + 1 \in 1..Len(l) /\ (i + 1) - 1 = i
  BY <1>1, <1>2
<1>4. PartAt(l, i + 1)
  BY <1>3, BodyParts
<1>a. PICK u, v, k : u = UpTo(l, i) /\ v = UpTo(l, i + 1) /\ k = Len(l[i + 1])
  OBVIOUS
<1>5. k \in Nat
  <2>1. l[i + 1] \in Seq(Bytes)
    BY <1>3, ElementOfSeq
  <2> QED BY <2>1, <1>a, LenProperties
<1>6. u \in Nat /\ v = u + k + 1 /\ v <= strings_length
  BY <1>1, <1>3, <1>4, <1>a DEF PartAt
<1>7. strings[i] = First + u
  BY <1>1, <1>a
<1>8. v \in 1..strings_length
  BY <1>2, <1>5, <1>6
<1>9. buffer[First + v - 1] = NUL
  <2>1. buffer[First + v - 1] = Body(l)[v]
    BY <1>1, <1>8
  <2>2. Body(l)[v] = NUL
    BY <1>4, <1>a DEF PartAt
  <2> QED BY <2>1, <2>2
<1>10. First + v - 1 \in (First + u)..(First + strings_length)
  BY <1>2, <1>5, <1>6
<1>11. strings[strings_count] \notin {NULL, Wild}
          => First + v - 1 < strings[strings_count]
  <2>1. strings[strings_count] \notin {NULL, Wild}
          => strings[strings_count]
               \in {First + strings_length, First + strings_length + 1}
    BY DEF NextString
  <2>2. \A t \in {First + strings_length, First + strings_length + 1} :
          First + v - 1 < t
    BY <1>2, <1>8
  <2> QED BY <2>1, <2>2
<1>12. First + u \in Nat /\ First + u >= First
  BY <1>6
<1> QED BY <1>7, <1>9, <1>10, <1>11, <1>12, Zenon

LEMMA HeldAlways ==
  \A l \in Seq(Seq(Bytes)) :
    TypeOK /\ NextString /\ Held(l) => Contents = l /\ Terminated
BY HeldIsContents, HeldTerminated

\* The same of the next state.
LEMMA HeldNext ==
  TypeOK' /\ NextString' =>
    \A l \in Seq(Seq(Bytes)) : (Held(l))' => Contents' = l /\ Terminated'
<1>1. (\A l \in Seq(Seq(Bytes)) :
         TypeOK /\ NextString /\ Held(l) => Contents = l /\ Terminated)'
  BY HeldAlways, PTL
<1> QED BY <1>1

\* A list that is received replaces what was there.
LEMMA ReadHeld ==
  ASSUME TypeOK, NextString, NEW list \in Incoming, netstring_read(list)
  PROVE  list \in Seq(Seq(Bytes)) /\ (Held(list))'
<1> USE Sizes
<1>1. list \in Seq(Seq(Chars)) /\ Len(list) \in Nat
  BY IncomingAssumption, LenProperties
<1>2. list \in Seq(Seq(Bytes))
  <2>1. Seq(Chars) \subseteq Seq(Bytes)
    BY SeqMonotonic DEF Bytes
  <2> QED BY <1>1, <2>1, SeqMonotonic
<1>3. Body(list) \in Seq(Bytes)
  BY <1>1, BodyType DEF Bytes
<1>4. /\ strings_count' = Len(list)
      /\ strings_length' = UpTo(list, Len(list))
      /\ buffer' = Poke(buffer, strings[0], Append(Body(list), Comma))
      /\ strings' = [i \in DOMAIN strings |->
                       IF i \in 1..Len(list)
                       THEN strings[0] + UpTo(list, i) ELSE strings[i]]
      /\ Len(list) <= Count - Reserve
      /\ UpTo(list, Len(list)) \in Nat
      /\ UpTo(list, Len(list)) <= StrSize - Reserve
  <2>1. UpTo(list, Len(list)) \in 0..(StrSize - Reserve)
    <3>1. Len(list) > 0
      BY IncomingAssumption, EmptySeq, SeqDef
    <3>2. Len(list) \in 1..Len(list)
      BY <1>1, <3>1
    <3> QED BY <3>2 DEF netstring_read, FitsReceived, Ends, UpTo
  <2>2. UpTo(list, Len(list)) \in Nat /\ UpTo(list, Len(list)) <= StrSize - Reserve
    BY <2>1
  <2>3. Len(list) <= Count - Reserve
    BY DEF netstring_read, FitsReceived
  <2>4. /\ strings_count' = Len(list)
        /\ strings_length' = UpTo(list, Len(list))
        /\ buffer' = Poke(buffer, strings[0], Append(Body(list), Comma))
    BY DEF netstring_read, Ends, UpTo
  <2>5. strings' = [i \in DOMAIN strings |->
                       IF i \in 1..Len(list)
                       THEN strings[0] + UpTo(list, i) ELSE strings[i]]
    BY DEF netstring_read, Ends, UpTo
  <2> QED BY <2>2, <2>3, <2>4, <2>5
<1>5. strings[0] = First
  <2>1. strings[0] \notin {NULL, Wild}
    BY DEF netstring_read
  <2>2. strings_count = 0 \/ strings_count > 0
    BY DEF TypeOK
  <2> QED BY <2>1, <2>2 DEF NextString
<1>6. UpTo(list, 0) = 0 /\ UpTo(list, Len(list)) = Len(Body(list))
  BY <1>1, UpToEnds
<1> PICK b : b = Len(Body(list))
  OBVIOUS
<1>7. b \in Nat /\ b <= StrSize - Reserve
  BY <1>4, <1>6
<1>8. \A i \in 0..(strings_count' - 1) : strings'[i] = First + UpTo(list, i)
  <2> SUFFICES ASSUME NEW i \in 0..(strings_count' - 1)
               PROVE  strings'[i] = First + UpTo(list, i)
    OBVIOUS
  <2>1. i \in DOMAIN strings /\ (i = 0 \/ i \in 1..Len(list))
    BY <1>1, <1>4 DEF TypeOK
  <2>2. CASE i = 0
    <3>1. i \notin 1..Len(list) /\ First + 0 = First
      BY <2>2
    <3> QED BY <1>4, <1>5, <1>6, <2>1, <2>2, <3>1, Zenon
  <2>3. CASE i \in 1..Len(list)
    BY <1>4, <1>5, <2>1, <2>3, Zenon
  <2> QED BY <2>1, <2>2, <2>3
<1>9. \A j \in 1..b : buffer'[First + j - 1] = Body(list)[j]
  <2> SUFFICES ASSUME NEW j \in 1..b
               PROVE  buffer'[First + j - 1] = Body(list)[j]
    OBVIOUS
  <2>1. PICK a : a = Append(Body(list), Comma)
    OBVIOUS
  <2>2. Len(a) = b + 1 /\ a[j] = Body(list)[j]
    BY <1>3, <2>1
  <2>3. PICK i : i = First + j - 1
    OBVIOUS
  <2>4. /\ i \in DOMAIN buffer /\ i \in Int /\ First \in Int
        /\ First <= i /\ i < First + (b + 1) /\ i - First + 1 = j
        /\ b + 1 \in Nat
    BY <1>7, <2>3 DEF TypeOK
  <2>5. First <= i /\ i < First + Len(a)
          => Poke(buffer, First, a)[i] = a[i - First + 1]
    <3>1. Len(a) \in Nat
      BY <2>2, <2>4
    <3> QED BY <2>4, <3>1, PokeAt
  <2>6. buffer' = Poke(buffer, First, a)
    BY <1>4, <1>5, <2>1
  <2> QED BY <2>2, <2>3, <2>4, <2>5, <2>6, Zenon
<1>10. (Held(list))'
  BY <1>4, <1>6, <1>8, <1>9 DEF Held
<1> QED BY <1>2, <1>10

-----------------------------------------------------------------------------
\* The NULs that end the strings, also after a resume.

\* Nothing is stored below strings[strings_count] but the preamble.
LEMMA AppendTerminated ==
  ASSUME TypeOK, NextString, Terminated,
         NEW str \in Strings, NEW len \in Lengths, netstring_append(str, len)
  PROVE  Terminated'
<1> USE Sizes
<1>a. PICK n : n = EffectiveLength(str, len)
  OBVIOUS
<1>b. PICK temp : temp = strings[strings_count]
  OBVIOUS
<1>1. /\ n \in Nat /\ temp \in Nat
      /\ temp \in {First + strings_length, First + strings_length + 1}
      /\ temp + n + 1 \in 0..buffer_asize
      /\ strings_count \in Nat /\ strings_length \in Nat
      /\ strings_count + 1 \in 0..Count
  BY <1>a, <1>b, AppendStores
<1>2. /\ \A i \in 0..buffer_asize : i < temp => buffer'[i] = buffer[i]
      /\ buffer'[temp + n] = NUL
  <2>1. Stored(temp, Copied(str, n), n)
    BY <1>a, <1>b, AppendStores
  <2> QED BY <2>1, Zenon DEF Stored
<1>3. /\ strings' = [strings EXCEPT ![strings_count + 1] = temp + n + 1]
      /\ strings_count' = strings_count + 1
      /\ strings_length' = strings_length + n + 1
  BY <1>a, <1>b, AppendStores
<1>4. /\ \A i \in 0..strings_count : strings'[i] = strings[i]
      /\ strings'[strings_count'] = temp + n + 1
  <2>1. \A i \in 0..strings_count : i \in 0..Count /\ i # strings_count + 1
    BY <1>1
  <2>2. \A i \in 0..strings_count : strings'[i] = strings[i]
    BY <1>3, <2>1 DEF TypeOK
  <2>3. strings'[strings_count + 1] = temp + n + 1
    BY <1>1, <1>3 DEF TypeOK
  <2> QED BY <1>3, <2>2, <2>3
<1>5. temp \notin {NULL, Wild}
  BY <1>1, PointerArithmetic
<1> SUFFICES ASSUME NEW i \in 0..(strings_count' - 1)
             PROVE  /\ strings'[i] \in Nat /\ strings'[i] >= First
                    /\ \E e \in strings'[i]..(First + strings_length') :
                         /\ buffer'[e] = NUL
                         /\ strings'[strings_count'] \notin {NULL, Wild}
                              => e < strings'[strings_count']
  BY DEF Terminated
<1>6. i \in 0..strings_count
  BY <1>1, <1>3
<1>7. CASE i = strings_count
  <2>1. strings'[i] = temp
    BY <1>4, <1>6, <1>7, <1>b, Zenon
  <2>2. /\ temp + n \in temp..(First + strings_length')
        /\ temp + n < temp + n + 1
        /\ temp \in Nat /\ temp >= First
    BY <1>1, <1>3
  <2> QED BY <1>2, <1>4, <2>1, <2>2, Zenon
<1>8. CASE i # strings_count
  <2>1. i \in 0..(strings_count - 1)
    BY <1>1, <1>6, <1>8
  <2>2. PICK e \in strings[i]..(First + strings_length) :
          /\ buffer[e] = NUL
          /\ temp \notin {NULL, Wild} => e < temp
    BY <1>b, <2>1 DEF Terminated
  <2>3. strings[i] \in Nat /\ strings[i] >= First /\ strings'[i] = strings[i]
    BY <1>4, <1>6, <2>1 DEF Terminated
  <2>4. e < temp
    BY <1>5, <2>2
  <2>5. /\ e \in 0..buffer_asize /\ e < temp + n + 1
        /\ e \in strings[i]..(First + strings_length')
    <3>1. e \in strings[i]..(First + strings_length)
      BY <2>2
    <3>2. strings[i] \in Nat
      BY <2>3
    <3>3. PICK s : s = strings[i]
      OBVIOUS
    <3> QED BY <1>1, <1>3, <2>4, <3>1, <3>2, <3>3
  <2>6. buffer'[e] = NUL
    BY <1>2, <2>2, <2>4, <2>5
  <2> QED BY <1>4, <2>3, <2>5, <2>6, Zenon
<1> QED BY <1>7, <1>8

LEMMA EndTerminated ==
  ASSUME TypeOK, NextString, Terminated, EndEffect,
         strings[strings_count] \notin {NULL, Wild},
         UNCHANGED <<strings_count, strings_length>>
  PROVE  Terminated'
<1> USE Sizes
<1>a. PICK temp : temp = strings[strings_count]
  OBVIOUS
<1>1. /\ temp \in Nat
      /\ temp \in {First + strings_length, First + strings_length + 1}
      /\ EndStored(temp)
      /\ strings' = [strings EXCEPT ![strings_count] = NULL]
  BY <1>a, EndStores
<1>2. \A i \in 0..buffer_asize : First <= i /\ i < temp => buffer'[i] = buffer[i]
  BY <1>1 DEF EndStored
<1>3. strings_count \in 0..Count /\ strings_count \in Nat /\ strings_length \in Nat
  BY DEF TypeOK
<1>4. /\ \A i \in 0..(strings_count - 1) : strings'[i] = strings[i]
      /\ strings'[strings_count] = NULL
  BY <1>1, <1>3 DEF TypeOK
<1> SUFFICES ASSUME NEW i \in 0..(strings_count - 1)
             PROVE  /\ strings'[i] \in Nat /\ strings'[i] >= First
                    /\ \E e \in strings'[i]..(First + strings_length) :
                         /\ buffer'[e] = NUL
                         /\ strings'[strings_count] \notin {NULL, Wild}
                              => e < strings'[strings_count]
  BY DEF Terminated
<1>5. PICK e \in strings[i]..(First + strings_length) :
        /\ buffer[e] = NUL
        /\ temp \notin {NULL, Wild} => e < temp
  BY <1>a DEF Terminated
<1>6. strings[i] \in Nat /\ strings[i] >= First /\ strings'[i] = strings[i]
  BY <1>4 DEF Terminated
<1>7. e < temp
  BY <1>5, <1>a
<1>8. e \in 0..buffer_asize /\ First <= e
  <2>1. strings_count > 0
    BY <1>3
  <2>2. strings_length <= StrSize - Reserve
    BY <2>1 DEF NextString
  <2> QED BY <1>3, <1>5, <1>6, <2>2
<1>9. buffer'[e] = NUL
  BY <1>2, <1>5, <1>7, <1>8
<1> QED BY <1>4, <1>5, <1>6, <1>9, Zenon

LEMMA ResumeTerminated ==
  ASSUME TypeOK, NextString, Terminated, netstring_resume
  PROVE  Terminated'
<1> USE Sizes, PointerArithmetic
<1>1. /\ strings' = [strings EXCEPT
           ![strings_count] = IF strings[0] = NULL THEN Wild
                              ELSE strings[0] + strings_length + 1]
      /\ UNCHANGED <<buffer, strings_count, strings_length>>
  BY DEF netstring_resume
<1>2. strings_count \in 0..Count /\ strings_count \in Nat /\ strings_length \in Nat
  BY DEF TypeOK
<1> SUFFICES ASSUME NEW i \in 0..(strings_count - 1)
             PROVE  /\ strings'[i] \in Nat /\ strings'[i] >= First
                    /\ \E e \in strings'[i]..(First + strings_length) :
                         /\ buffer[e] = NUL
                         /\ strings'[strings_count] \notin {NULL, Wild}
                              => e < strings'[strings_count]
  BY <1>1 DEF Terminated
<1>3. strings[0] = First /\ First # NULL
  BY <1>2 DEF NextString
<1>4. strings'[strings_count] = First + strings_length + 1
  BY <1>1, <1>2, <1>3 DEF TypeOK
<1>5. PICK e \in strings[i]..(First + strings_length) : buffer[e] = NUL
  BY DEF Terminated
<1>6. strings[i] \in Nat /\ strings[i] >= First /\ strings'[i] = strings[i]
  BY <1>1, <1>2 DEF Terminated, TypeOK
<1>7. e < First + strings_length + 1
  BY <1>2, <1>5, <1>6
<1> QED BY <1>4, <1>5, <1>6, <1>7, Zenon

-----------------------------------------------------------------------------
\* A new list that is held is what the pointers delimit.
LEMMA HeldBlock ==
  ASSUME TypeOK', NextString', NEW l \in Seq(Seq(Bytes)), (Held(l))'
  PROVE  Contents' = l /\ HoldsContents' /\ Terminated'
<1>1. Contents' = l /\ Terminated'
  BY HeldNext
<1>2. (Held(Contents))'
  BY <1>1 DEF Held
<1> QED BY <1>1, <1>2 DEF HoldsContents

LEMMA EmptyHeld ==
  /\ strings_count = 0 /\ strings_length = 0 => Held(<<>>)
  /\ strings_count' = 0 /\ strings_length' = 0 => (Held(<<>>))'
BY BodyEmpty, EmptySeq DEF Held

LEMMA EndBlock ==
  ASSUME TypeOK, NextString, TypeOK', NextString', BlockInv, EndEffect,
         strings[strings_count] \notin {NULL, Wild},
         UNCHANGED <<strings_count, strings_length, promised>>
  PROVE  BlockInv' /\ (promised => Contents' = Contents)
<1>1. Terminated'
  BY EndTerminated DEF BlockInv
<1>2. netstring' # NULL
  <2>1. PICK temp : temp = strings[strings_count]
    OBVIOUS
  <2> QED BY <2>1, EndStores
<1>3. ASSUME promised
      PROVE  HoldsContents' /\ Ended' /\ Contents' = Contents
  <2>1. PICK l \in Seq(Seq(Bytes)) : l = Contents /\ Held(l)
    BY <1>3 DEF BlockInv, HoldsContents
  <2>2. (Held(l))' /\ Ended'
    BY <1>3, <2>1, EndHeld
  <2> QED BY <2>1, <2>2, HeldBlock
<1>4. ~promised => HoldsContents' /\ Ended'
  BY DEF HoldsContents, Ended
<1> QED BY <1>1, <1>2, <1>3, <1>4 DEF BlockInv

LEMMA AppendBlock ==
  ASSUME TypeOK, NextString, TypeOK', NextString', BlockInv,
         NEW str \in Strings, NEW len \in Lengths, netstring_append(str, len)
  PROVE  /\ BlockInv'
         /\ promised =>
              Contents' = Append(Contents,
                                 Copied(str, EffectiveLength(str, len)))
<1>1. Terminated'
  BY AppendTerminated DEF BlockInv
<1>2. UNCHANGED <<netstring, netstring_size, promised>>
  BY DEF netstring_append
<1>3. PICK c : c = Copied(str, EffectiveLength(str, len))
  OBVIOUS
<1>4. ASSUME promised
      PROVE  /\ HoldsContents' /\ Contents' = Append(Contents, c)
             /\ netstring = NULL
  <2>1. PICK l \in Seq(Seq(Bytes)) : l = Contents /\ Held(l)
    BY <1>4 DEF BlockInv, HoldsContents
  <2>2. Append(l, c) \in Seq(Seq(Bytes)) /\ (Held(Append(l, c)))'
    BY <1>3, <1>4, <2>1, AppendHeld
  <2>3. PICK m : m = Append(l, c)
    OBVIOUS
  <2>4. m \in Seq(Seq(Bytes)) /\ (Held(m))'
    BY <2>2, <2>3
  <2>5. Contents' = m /\ HoldsContents'
    BY <2>4, HeldBlock
  <2>6. netstring = NULL
    <3>1. PICK n, temp : /\ n = EffectiveLength(str, len)
                         /\ temp = strings[strings_count]
      OBVIOUS
    <3> QED BY <1>4, <3>1, AppendStores
  <2> QED BY <2>1, <2>3, <2>5, <2>6
<1>5. HoldsContents' /\ Ended'
  BY <1>2, <1>4 DEF HoldsContents, Ended
<1> QED BY <1>1, <1>2, <1>3, <1>4, <1>5 DEF BlockInv

LEMMA SameBlock ==
  ASSUME BlockInv,
         UNCHANGED <<buffer, strings, strings_count, strings_length,
                     netstring, netstring_size, promised>>
  PROVE  BlockInv' /\ Contents' = Contents
<1>1. Contents' = Contents
  BY DEF Contents, StringAt, EndOfString, Peek
<1>2. HoldsContents'
  BY <1>1 DEF BlockInv, HoldsContents, Held
<1>3. Ended'
  BY DEF BlockInv, Ended, Preamble
<1>4. Terminated'
  BY DEF BlockInv, Terminated
<1> QED BY <1>1, <1>2, <1>3, <1>4 DEF BlockInv

\* For every size and every list: unless the caller resumes the message, the
\* block holds the list that the pointers delimit, byte by byte, and when it
\* is ended the length and the comma around it; and every string, resumed or
\* not, ends with a NUL that nothing is going to be stored over.
THEOREM BlockInvariant == Spec => [](TypeOK /\ NextString /\ BlockInv)
<1>1. Init => BlockInv
  <2> SUFFICES ASSUME Init PROVE BlockInv
    OBVIOUS
  <2>1. /\ strings_count = 0 /\ strings_length = 0
        /\ netstring = NULL /\ netstring_size = 0
    BY DEF Init
  <2>2. Held(<<>>) /\ <<>> \in Seq(Seq(Bytes))
    BY <2>1, EmptyHeld, EmptySeq
  <2>3. Contents = <<>>
    BY <2>1 DEF Contents
  <2>4. Terminated
    BY <2>1 DEF Terminated
  <2> QED BY <2>1, <2>2, <2>3, <2>4 DEF BlockInv, HoldsContents, Ended
<1>2. TypeOK /\ NextString /\ TypeOK' /\ NextString' /\ BlockInv /\ [Next]_vars
        => BlockInv'
  <2> SUFFICES ASSUME TypeOK, NextString, TypeOK', NextString', BlockInv,
                      [Next]_vars
               PROVE  BlockInv'
    OBVIOUS
  <2>1. ASSUME NEW str \in Strings, NEW len \in Lengths,
               netstring_append(str, len)
        PROVE  BlockInv'
    BY <2>1, AppendBlock
  <2>2. ASSUME NEW str \in Strings, NEW len \in Lengths,
               AppendAfterEnd(str, len)
        PROVE  BlockInv'
    BY <2>2, SameBlock DEF AppendAfterEnd
  <2>3. CASE netstring_restart
    <3>1. (Held(<<>>))' /\ <<>> \in Seq(Seq(Bytes))
      BY <2>3, EmptyHeld, EmptySeq DEF netstring_restart
    <3>2. HoldsContents' /\ Terminated'
      BY <3>1, HeldBlock
    <3> QED BY <2>3, <3>2 DEF netstring_restart, BlockInv, Ended
  <2>4. CASE netstring_end
    BY <2>4, EndBlock DEF netstring_end
  <2>5. CASE netstring_resume
    <3>1. Terminated'
      BY <2>5, ResumeTerminated DEF BlockInv
    <3> QED
      BY <2>5, <3>1 DEF netstring_resume, BlockInv, HoldsContents, Ended
  <2>6. CASE netstring_write
    <3>1. CASE netstring = NULL
      BY <2>6, <3>1, EndBlock DEF netstring_write
    <3>2. CASE netstring # NULL
      BY <2>6, <3>2, SameBlock DEF netstring_write
    <3> QED BY <3>1, <3>2
  <2>7. ASSUME NEW list \in Incoming, netstring_read(list)
        PROVE  BlockInv'
    <3>1. list \in Seq(Seq(Bytes)) /\ (Held(list))'
      BY <2>7, ReadHeld
    <3>2. HoldsContents' /\ Terminated'
      BY <3>1, HeldBlock
    <3>3. /\ promised' = (netstring = NULL)
          /\ UNCHANGED <<netstring, netstring_size>>
      BY <2>7 DEF netstring_read
    <3> QED BY <3>2, <3>3 DEF BlockInv, Ended
  <2>8. CASE ReadAfterEmptyEnd
    BY <2>8, SameBlock DEF ReadAfterEmptyEnd
  <2>9. CASE ThroughWildPointer
    BY <2>9, SameBlock DEF ThroughWildPointer
  <2>10. CASE UNCHANGED vars
    BY <2>10, SameBlock DEF vars
  <2>11. CASE EndAgain
    BY <2>11, SameBlock DEF EndAgain
  <2> QED
    BY <2>1, <2>2, <2>3, <2>4, <2>5, <2>6, <2>7, <2>8, <2>9, <2>10, <2>11
       DEF Next
<1> QED BY <1>1, <1>2, BuilderInvariant, PTL DEF Spec

-----------------------------------------------------------------------------
\* The pointers describe one message: strings that follow each other, each
\* with its NUL, and once the structure is ended the length in front of them
\* and the comma behind, which netstring_size counts.
THEOREM LayoutTheorem == Spec => []Layout
<1>1. TypeOK /\ NextString /\ BlockInv => Layout
  <2> USE Sizes
  <2> SUFFICES ASSUME TypeOK, NextString, BlockInv, promised
               PROVE  Layout
    BY DEF Layout
  <2>1. PICK l \in Seq(Seq(Bytes)) : l = Contents /\ Held(l)
    BY DEF BlockInv, HoldsContents
  <2>2. netstring = NULL =>
          /\ strings[0] = First
          /\ strings[strings_count] = First + strings_length
          /\ netstring_size = 0
    BY PromisedPointers DEF BlockInv
  <2>3. netstring # NULL =>
          /\ strings[strings_count] = NULL
          /\ netstring + Len(Preamble) = First
          /\ netstring_size = Len(Preamble) + strings_length + 1
          /\ buffer[First + strings_length] = Comma
    <3>1. netstring # NULL =>
            /\ netstring = First - Len(Preamble)
            /\ netstring_size = Len(Preamble) + strings_length + 1
            /\ buffer[First + strings_length] = Comma
      BY DEF BlockInv, Ended
    <3>2. First - Len(Preamble) + Len(Preamble) = First
      BY PreambleLength
    <3> QED BY <3>1, <3>2, PromisedPointers
  <2>4. strings_count > 0 => strings[0] = First
    BY PromisedPointers
  <2>5. ASSUME NEW i \in 0..(strings_count - 1)
        PROVE  /\ strings[i] \in First..(EndOfString(i) - 1)
               /\ EndOfString(i) <= First + strings_length
               /\ buffer[EndOfString(i) - 1] = NUL
    <3>1. /\ strings_count = Len(l) /\ strings_length = Len(Body(l))
          /\ strings[i] = First + UpTo(l, i)
      BY <2>1 DEF Held
    <3>2. \A j \in 1..strings_length : buffer[First + j - 1] = Body(l)[j]
      BY <2>1 DEF Held
    <3>3. strings_count \in Nat /\ strings_length \in Nat
      BY DEF TypeOK
    <3>4. i + 1 \in 1..Len(l) /\ (i + 1) - 1 = i
      BY <3>1, <3>3
    <3>5. PartAt(l, i + 1)
      BY <3>4, BodyParts
    <3>a. PICK u, v, k :
            u = UpTo(l, i) /\ v = UpTo(l, i + 1) /\ k = Len(l[i + 1])
      OBVIOUS
    <3>6. k \in Nat
      <4>1. l[i + 1] \in Seq(Bytes)
        BY <3>4, ElementOfSeq
      <4> QED BY <3>a, <4>1, LenProperties
    <3>7. u \in Nat /\ v = u + k + 1 /\ v <= strings_length /\ Body(l)[v] = NUL
      BY <3>1, <3>4, <3>5, <3>a DEF PartAt
    <3>8. EndOfString(i) = First + v
      BY <2>1, <3>a, HeldIsContents
    <3>9. /\ First + u \in First..(First + v - 1)
          /\ First + v <= First + strings_length
          /\ v \in 1..strings_length
      BY <3>3, <3>6, <3>7
    <3>10. buffer[First + v - 1] = NUL
      BY <3>2, <3>7, <3>9
    <3>11. strings[i] = First + u
      BY <3>1, <3>a
    <3>12. PICK e : e = First + v
      OBVIOUS
    <3>13. First + u \in First..(e - 1) /\ e <= First + strings_length
      BY <3>9, <3>12
    <3>15. buffer[e - 1] = NUL
      <4>1. e - 1 = First + v - 1
        BY <3>9, <3>12
      <4> QED BY <3>10, <4>1
    <3>14. EndOfString(i) = e
      BY <3>8, <3>12
    <3> QED BY <3>11, <3>13, <3>14, <3>15, Zenon
  <2> QED BY <2>2, <2>3, <2>4, <2>5 DEF Layout
<1> QED BY <1>1, BlockInvariant, PTL

-----------------------------------------------------------------------------
\* An ended message is the encoding of the list.
LEMMA MessageIsEncoded ==
  ASSUME TypeOK, NextString, BlockInv, promised, netstring # NULL
  PROVE  Peek(buffer, netstring, netstring_size) = Encode(Contents)
<1> USE Sizes
<1>1. PICK l \in Seq(Seq(Bytes)) : l = Contents /\ Held(l)
  BY DEF BlockInv, HoldsContents
<1>a. PICK p, b, D, P, B :
        /\ p = Len(Preamble) /\ b = strings_length
        /\ D = Decimal(strings_length) /\ P = Preamble /\ B = Body(l)
  OBVIOUS
<1>2. /\ strings_length = Len(B)
      /\ \A j \in 1..b : buffer[First + j - 1] = B[j]
  BY <1>1, <1>a DEF Held
<1>3. b \in Nat /\ p \in Nat /\ p <= 10 /\ b < Unrepresentable
  <2>1. b \in Nat
    BY <1>a DEF TypeOK
  <2>2. b < Unrepresentable
    BY <1>a, UnrepresentableType DEF NextString, TypeOK
  <2> QED BY <1>a, <2>1, <2>2, PreambleLength
<1>4. /\ netstring = First - p /\ netstring_size = p + b + 1
      /\ buffer[First + b] = Comma
  BY <1>a DEF BlockInv, Ended
<1>5. \A j \in 1..p : buffer[netstring + j - 1] = P[j]
  BY <1>a DEF BlockInv, Ended
<1>6. PICK W : W = {Numerals[m] : m \in 1..10} \cup Bytes \cup {NUL, Colon, Comma}
  OBVIOUS
<1>7. D \in Seq(W) /\ B \in Seq(W) /\ Colon \in W /\ Comma \in W
  <2>1. D \in Seq({Numerals[m] : m \in 1..10})
    BY <1>3, <1>a, DecimalLength
  <2>2. B \in Seq(Bytes \cup {NUL})
    BY <1>a, BodyType
  <2>3. Colon \in W /\ Comma \in W
    BY <1>6
  <2>4. {Numerals[m] : m \in 1..10} \subseteq W /\ (Bytes \cup {NUL}) \subseteq W
    BY <1>6
  <2>5. D \in Seq(W)
    BY <2>1, <2>4, SeqMonotonic
  <2>6. B \in Seq(W)
    BY <2>2, <2>4, SeqMonotonic
  <2> QED BY <2>3, <2>5, <2>6
<1>8. P = D \o <<Colon>> /\ P \in Seq(W)
  BY <1>7, <1>a, AppendIsConcat, AppendProperties DEF Preamble
<1>9. PICK X : X = P \o B
  OBVIOUS
<1>10. /\ X \in Seq(W) /\ Len(X) = p + b
       /\ \A i \in 1..(p + b) : X[i] = IF i <= p THEN P[i] ELSE B[i - p]
  <2>1. \A x, y \in Seq(W) :
          /\ x \o y \in Seq(W)
          /\ Len(x \o y) = Len(x) + Len(y)
          /\ \A i \in 1..(Len(x) + Len(y)) :
               (x \o y)[i] = IF i <= Len(x) THEN x[i] ELSE y[i - Len(x)]
    BY ConcatProperties
  <2>2. Len(P) = p /\ Len(B) = b
    BY <1>2, <1>a
  <2>3. /\ P \o B \in Seq(W) /\ Len(P \o B) = Len(P) + Len(B)
        /\ \A i \in 1..(Len(P) + Len(B)) :
             (P \o B)[i] = IF i <= Len(P) THEN P[i] ELSE B[i - Len(P)]
    BY <1>7, <1>8, <2>1, Zenon
  <2> QED BY <1>9, <2>2, <2>3, Zenon
<1>11. PICK Y : Y = Append(X, Comma)
  OBVIOUS
<1>12. Y = Encode(Contents)
  <2>1. Y = X \o <<Comma>>
    BY <1>7, <1>10, <1>11, AppendIsConcat
  <2>2. Encode(Contents) = D \o <<Colon>> \o B \o <<Comma>>
    BY <1>1, <1>2, <1>a, Zenon DEF Encode
  <2> QED BY <1>8, <1>9, <2>1, <2>2, Zenon
<1>13. /\ Y = [i \in 1..(p + b + 1) |-> Y[i]]
       /\ \A i \in 1..(p + b) : Y[i] = X[i]
       /\ Y[p + b + 1] = Comma
  <2>1. Y \in Seq(W) /\ Len(Y) = Len(X) + 1
    BY <1>7, <1>10, <1>11, AppendProperties
  <2>2. Y = [i \in 1..Len(Y) |-> Y[i]]
    BY <2>1, LenProperties
  <2>3. Len(Y) = p + b + 1
    BY <1>10, <2>1
  <2>4. (\A i \in 1..Len(X) : Y[i] = X[i]) /\ Y[Len(X) + 1] = Comma
    BY <1>7, <1>10, <1>11, AppendProperties
  <2> QED BY <1>10, <2>2, <2>3, <2>4, Zenon
<1>14. ASSUME NEW i \in 1..(p + b + 1)
       PROVE  buffer[netstring + i - 1] = Y[i]
  <2>1. CASE i <= p
    <3>1. i \in 1..p /\ i \in 1..(p + b)
      BY <1>3, <2>1
    <3> QED BY <1>5, <1>10, <1>13, <2>1, <3>1, Zenon
  <2>2. CASE p < i /\ i <= p + b
    <3>1. /\ i - p \in 1..b /\ i \in 1..(p + b) /\ ~(i <= p)
          /\ (First - p) + i - 1 = First + (i - p) - 1
      BY <1>3, <2>2
    <3> QED BY <1>2, <1>4, <1>10, <1>13, <3>1, Zenon
  <2>3. CASE i = p + b + 1
    <3>1. (First - p) + i - 1 = First + b
      BY <1>3, <2>3
    <3> QED BY <1>4, <1>13, <2>3, <3>1, Zenon
  <2>4. i <= p \/ (p < i /\ i <= p + b) \/ i = p + b + 1
    BY <1>3
  <2> QED BY <2>1, <2>2, <2>3, <2>4
<1>15. Peek(buffer, netstring, netstring_size)
         = [i \in 1..(p + b + 1) |-> buffer[netstring + i - 1]]
  BY <1>4 DEF Peek
<1> QED BY <1>12, <1>13, <1>14, <1>15, Zenon

LEMMA MessageAlways ==
  TypeOK /\ NextString /\ BlockInv /\ promised /\ netstring # NULL
    => Peek(buffer, netstring, netstring_size) = Encode(Contents)
BY MessageIsEncoded

LEMMA MessageNext ==
  TypeOK' /\ NextString' /\ BlockInv' /\ promised' /\ netstring' # NULL
    => Peek(buffer', netstring', netstring_size') = Encode(Contents')
<1>1. (TypeOK /\ NextString /\ BlockInv /\ promised /\ netstring # NULL
         => Peek(buffer, netstring, netstring_size) = Encode(Contents))'
  BY MessageAlways, PTL
<1> QED BY <1>1

-----------------------------------------------------------------------------
\* The steps of the abstract list.

LEMMA SameEncode ==
  ASSUME NEW l
  PROVE  Abstract!Encode(l) = Encode(l)
<1>1. ASSUME NEW s
      PROVE  Abstract!FlattenSeq(s) = FlattenSeq(s)
  BY DEF Abstract!FlattenSeq, FlattenSeq
<1>2. Abstract!Body(l) = Body(l)
  BY <1>1 DEF Abstract!Body, Body, Abstract!NUL, NUL
<1>3. Abstract!PowersOf10 = PowersOf10 /\ Abstract!Numerals = Numerals
  <2>1. Abstract!PowersOf10 = PowersOf10
    BY SMT DEF Abstract!PowersOf10, PowersOf10
  <2>2. Abstract!Numerals = Numerals
    BY SMT DEF Abstract!Numerals, Numerals
  <2> QED BY <2>1, <2>2
<1>4. ASSUME NEW n
      PROVE  Abstract!DigitCount(n) = DigitCount(n)
  BY <1>3, Zenon DEF Abstract!DigitCount, DigitCount
<1>5. ASSUME NEW n
      PROVE  Abstract!Decimal(n) = Decimal(n)
  BY <1>3, <1>4, Zenon DEF Abstract!Decimal, Decimal
<1> QED
  BY <1>2, <1>5, Zenon DEF Abstract!Encode, Encode, Abstract!Colon, Colon,
                           Abstract!Comma, Comma

\* A write puts the encoding of the list on the wire and leaves it as it is.
LEMMA WriteSends ==
  ASSUME TypeOK, NextString, TypeOK', NextString', BlockInv, BlockInv',
         netstring_write, promised
  PROVE  promised' /\ Contents' = Contents /\ sent' = Encode(Contents)
<1>1. /\ promised' = promised
      /\ sent' = Peek(buffer', netstring', netstring_size')
      /\ UNCHANGED <<strings_count, strings_length>>
  BY DEF netstring_write
<1>2. Contents' = Contents /\ netstring' # NULL
  <2>1. CASE netstring # NULL
    <3>1. UNCHANGED <<buffer, strings, strings_count, strings_length,
                      netstring, netstring_size, promised>>
      BY <1>1, <2>1 DEF netstring_write
    <3> QED BY <2>1, <3>1, SameBlock
  <2>2. CASE netstring = NULL
    <3>1. EndEffect /\ strings[strings_count] \notin {NULL, Wild}
      BY <2>2 DEF netstring_write
    <3>2. PICK temp : temp = strings[strings_count]
      OBVIOUS
    <3>3. netstring' # NULL
      BY <3>1, <3>2, EndStores
    <3> QED BY <1>1, <3>1, <3>3, EndBlock
  <2> QED BY <2>1, <2>2
<1>3. sent' = Encode(Contents')
  BY <1>1, <1>2, MessageNext
<1> QED BY <1>1, <1>2, <1>3

LEMMA ListStarts == Init => Abstract!ListInit
BY DEF Init, Contents, Abstract!ListInit

LEMMA AppendedIs ==
  \A str \in Strings, len \in Lengths :
    Copied(str, EffectiveLength(str, len)) \in Appended
BY DEF Appended

\* Up to a resume or a read into an ended structure, and again from the next
\* restart or other read, the pointers and bytes implement a list of strings:
\* for every size and every string, a write sends all strings received and
\* appended since the last restart, in order and nothing else.
THEOREM ImplementsStringListTheorem == Spec => ImplementsStringList
<1>1. Init => Abstract!ListInit
  BY ListStarts, Zenon
<1>2. /\ TypeOK /\ NextString /\ BlockInv
      /\ TypeOK' /\ NextString' /\ BlockInv'
      /\ [Next]_vars
      => [promised' => Abstract!ListNext]_<<Contents, sent>>
  <2> SUFFICES ASSUME TypeOK, NextString, BlockInv, TypeOK', NextString',
                      BlockInv', promised', [Next]_vars
               PROVE  \/ Abstract!ListNext
                      \/ Contents' = Contents /\ sent' = sent
    OBVIOUS
  <2>1. ASSUME NEW str \in Strings, NEW len \in Lengths,
               netstring_append(str, len)
        PROVE  Abstract!ListNext
    <3>1. promised' = promised /\ sent' = <<>>
      BY <2>1 DEF netstring_append
    <3>2. Copied(str, EffectiveLength(str, len)) \in Appended
      BY AppendedIs, Zenon
    <3>3. promised =>
            Contents' = Append(Contents,
                               Copied(str, EffectiveLength(str, len)))
      BY <2>1, AppendBlock
    <3>4. Abstract!Add
      BY <3>1, <3>2, <3>3, Zenon DEF Abstract!Add
    <3> QED BY <3>4 DEF Abstract!ListNext
  <2>2. CASE UNCHANGED <<buffer, strings, strings_count, strings_length,
                         netstring, netstring_size, promised, sent>>
    BY <2>2, SameBlock
  <2>3. CASE netstring_restart
    <3>1. (Held(<<>>))' /\ <<>> \in Seq(Seq(Bytes))
      BY <2>3, EmptyHeld, EmptySeq DEF netstring_restart
    <3>2. Contents' = <<>>
      BY <3>1, HeldBlock
    <3>3. sent' = <<>>
      BY <2>3 DEF netstring_restart
    <3>4. Abstract!Clear
      BY <3>2, <3>3 DEF Abstract!Clear
    <3> QED BY <3>4 DEF Abstract!ListNext
  <2>4. CASE netstring_end
    <3>1. /\ EndEffect /\ strings[strings_count] \notin {NULL, Wild}
          /\ UNCHANGED <<strings_count, strings_length, promised>>
          /\ sent' = sent
      BY <2>4 DEF netstring_end
    <3>2. promised => Contents' = Contents
      BY <3>1, EndBlock
    <3> QED BY <3>1, <3>2
  <2>5. CASE netstring_resume
    BY <2>5 DEF netstring_resume
  <2>6. CASE netstring_write
    <3>1. promised' = promised
      BY <2>6 DEF netstring_write
    <3>2. promised => Contents' = Contents /\ sent' = Encode(Contents)
      BY <2>6, WriteSends
    <3>3. Abstract!Send
      BY <3>1, <3>2, SameEncode, Zenon DEF Abstract!Send
    <3> QED BY <3>3 DEF Abstract!ListNext
  <2>7. ASSUME NEW list \in Incoming, netstring_read(list)
        PROVE  Abstract!ListNext
    <3>1. list \in Seq(Seq(Bytes)) /\ (Held(list))'
      BY <2>7, ReadHeld
    <3>2. Contents' = list
      BY <3>1, HeldBlock
    <3>3. sent' = <<>>
      BY <2>7 DEF netstring_read
    <3>4. Abstract!Receive
      BY <3>2, <3>3 DEF Abstract!Receive
    <3> QED BY <3>4 DEF Abstract!ListNext
  <2> QED
    BY <2>1, <2>2, <2>3, <2>4, <2>5, <2>6, <2>7
       DEF Next, AppendAfterEnd, EndAgain, ReadAfterEmptyEnd,
           ThroughWildPointer, vars
<1> QED
  BY <1>1, <1>2, BlockInvariant, PTL DEF Spec, ImplementsStringList

-----------------------------------------------------------------------------
\* What C reads at offset s: the bytes up to the first NUL.

FirstNul(mem, s, n) == mem[n] = NUL /\ \A m \in s..(n - 1) : mem[m] # NUL

CText(mem, s) ==
  Peek(mem, s, (CHOOSE n \in s..buffer_asize : FirstNul(mem, s, n)) - s)

LEMMA CStringsAreTexts ==
  /\ CStrings = [i \in 1..strings_count |-> CText(buffer, strings[i - 1])]
  /\ CStrings' = [i \in 1..strings_count' |-> CText(buffer', strings'[i - 1])]
BY DEF CStrings, StringAsC, CText, FirstNul

LEMMA TextEnds ==
  ASSUME NEW mem, NEW s \in Nat, NEW n \in s..buffer_asize, FirstNul(mem, s, n)
  PROVE  CText(mem, s) = Peek(mem, s, n - s)
<1> USE Sizes
<1>1. ASSUME NEW k \in s..buffer_asize, FirstNul(mem, s, k)
      PROVE  k = n
  <2>1. mem[k] = NUL /\ mem[n] = NUL
    BY <1>1 DEF FirstNul
  <2>2. ~(k \in s..(n - 1)) /\ ~(n \in s..(k - 1))
    BY <1>1, <2>1 DEF FirstNul
  <2> QED BY <2>2
<1>2. (CHOOSE k \in s..buffer_asize : FirstNul(mem, s, k)) = n
  BY <1>1
<1> QED BY <1>2 DEF CText

\* A text does not change when the bytes up to some NUL stay.
LEMMA TextStays ==
  ASSUME NEW old, NEW new, NEW s \in Nat, NEW e \in s..buffer_asize,
         old[e] = NUL, \A m \in s..e : new[m] = old[m]
  PROVE  CText(new, s) = CText(old, s)
<1> USE Sizes
<1>1. PICK T : T = {n \in s..e : old[n] = NUL}
  OBVIOUS
<1>2. T \subseteq Nat /\ T # {}
  BY <1>1
<1>3. PICK n \in T : \A m \in T : n <= m
  BY <1>2, LeastNumber
<1>4. n \in s..e /\ n \in s..buffer_asize /\ old[n] = NUL
  BY <1>1, <1>3
<1>5. \A m \in s..(n - 1) : m \in s..e /\ m \notin T
  BY <1>3, <1>4
<1>6. FirstNul(old, s, n)
  BY <1>1, <1>4, <1>5 DEF FirstNul
<1>7. FirstNul(new, s, n)
  BY <1>4, <1>5, <1>6 DEF FirstNul
<1>8. CText(old, s) = Peek(old, s, n - s) /\ CText(new, s) = Peek(new, s, n - s)
  BY <1>4, <1>6, <1>7, TextEnds
<1>9. Peek(new, s, n - s) = Peek(old, s, n - s)
  <2>1. \A i \in 1..(n - s) : s + i - 1 \in s..e
    BY <1>4
  <2>2. \A i \in 1..(n - s) : new[s + i - 1] = old[s + i - 1]
    BY <2>1
  <2> QED BY <2>2 DEF Peek
<1> QED BY <1>8, <1>9

\* Characters with a NUL behind them are a text.
LEMMA TextIs ==
  ASSUME NEW mem, NEW s \in Nat, NEW t \in Seq(Chars),
         s + Len(t) \in 0..buffer_asize,
         \A j \in 1..Len(t) : mem[s + j - 1] = t[j],
         mem[s + Len(t)] = NUL
  PROVE  CText(mem, s) = t
<1> USE Sizes
<1>1. PICK k : k = Len(t)
  OBVIOUS
<1>2. k \in Nat /\ s + k \in s..buffer_asize /\ (s + k) - s = k
  BY <1>1, LenProperties
<1>3. \A j \in 1..k : t[j] # NUL
  <2>1. \A j \in 1..k : t[j] \in Chars
    BY <1>1, ElementOfSeq
  <2> QED BY <2>1, StringsAssumption
<1>4. \A m \in s..(s + k - 1) : mem[m] # NUL
  <2> SUFFICES ASSUME NEW m \in s..(s + k - 1)
               PROVE  mem[m] # NUL
    OBVIOUS
  <2>1. PICK j : j = m - s + 1
    OBVIOUS
  <2>2. j \in 1..k /\ s + j - 1 = m
    BY <1>2, <2>1
  <2> QED BY <1>1, <1>3, <2>2
<1>5. FirstNul(mem, s, s + k)
  <2>1. s + k - 1 = (s + k) - 1
    BY <1>2
  <2> QED BY <1>1, <1>4, <2>1 DEF FirstNul
<1>6. CText(mem, s) = Peek(mem, s, k)
  <2>1. CText(mem, s) = Peek(mem, s, (s + k) - s)
    BY <1>2, <1>5, TextEnds
  <2> QED BY <1>2, <2>1
<1>7. t = [j \in 1..k |-> t[j]]
  BY <1>1, LenProperties
<1> QED BY <1>1, <1>6, <1>7 DEF Peek

\* A list of C strings that is held is what C reads.
LEMMA HeldIsRead ==
  ASSUME TypeOK, NextString, NEW l \in Seq(Seq(Chars)), Held(l)
  PROVE  CStrings = l
<1>1. /\ strings_count = Len(l) /\ strings_length = Len(Body(l))
      /\ \A i \in 0..(strings_count - 1) : strings[i] = First + UpTo(l, i)
      /\ \A j \in 1..strings_length : buffer[First + j - 1] = Body(l)[j]
  BY DEF Held
<1>2. strings_count \in Nat /\ strings_length \in Nat
  BY DEF TypeOK
<1>3. ASSUME NEW i \in 1..Len(l)
      PROVE  CText(buffer, strings[i - 1]) = l[i]
  <2>1. i - 1 \in 0..(strings_count - 1) /\ strings_count > 0
    BY <1>1, <1>2
  <2>2. PICK u, k, t : u = UpTo(l, i - 1) /\ t = l[i] /\ k = Len(t)
    OBVIOUS
  <2>3. t \in Seq(Chars) /\ k \in Nat
    BY <2>2, ElementOfSeq, LenProperties
  <2>4. /\ u \in Nat /\ UpTo(l, i) = u + k + 1 /\ u + k + 1 <= strings_length
        /\ \A j \in 1..k : Body(l)[u + j] = t[j]
        /\ Body(l)[u + k + 1] = NUL
    <3>1. PartAt(l, i)
      BY BodyParts
    <3>2. /\ UpTo(l, i - 1) \in Nat
          /\ UpTo(l, i) = UpTo(l, i - 1) + Len(l[i]) + 1
          /\ UpTo(l, i) <= Len(Body(l))
          /\ Body(l)[UpTo(l, i)] = NUL
      BY <3>1 DEF PartAt
    <3>3. \A j \in 1..Len(l[i]) : Body(l)[UpTo(l, i - 1) + j] = l[i][j]
      BY <3>1 DEF PartAt
    <3> QED BY <1>1, <2>2, <3>2, <3>3
  <2>5. PICK s : s = First + u
    OBVIOUS
  <2>6. strings[i - 1] = s
    BY <1>1, <2>1, <2>2, <2>5
  <2>7. /\ s \in Nat /\ s + k \in 0..buffer_asize
        /\ s + k = First + (u + k + 1) - 1
        /\ u + k + 1 \in 1..strings_length
        /\ \A j \in 1..k : /\ u + j \in 1..strings_length
                           /\ s + j - 1 = First + (u + j) - 1
    <3>1. strings_length <= StrSize - Reserve
      BY <2>1 DEF NextString
    <3>2. u \in Nat /\ u + k + 1 <= strings_length
      BY <2>4
    <3>3. /\ s \in Nat /\ s + k \in 0..buffer_asize
          /\ s + k = First + (u + k + 1) - 1
          /\ u + k + 1 \in 1..strings_length
      BY <1>2, <2>3, <2>5, <3>1, <3>2, Sizes
    <3>4. ASSUME NEW j \in 1..k
          PROVE  /\ u + j \in 1..strings_length
                 /\ s + j - 1 = First + (u + j) - 1
      BY <1>2, <2>3, <2>5, <3>2, Sizes
    <3> QED BY <3>3, <3>4
  <2>8. \A j \in 1..k : buffer[s + j - 1] = t[j]
    <3> SUFFICES ASSUME NEW j \in 1..k PROVE buffer[s + j - 1] = t[j]
      OBVIOUS
    <3>1. buffer[First + (u + j) - 1] = Body(l)[u + j]
      BY <1>1, <2>7
    <3> QED BY <2>4, <2>7, <3>1, Zenon
  <2>9. buffer[s + k] = NUL
    <3>1. buffer[First + (u + k + 1) - 1] = Body(l)[u + k + 1]
      BY <1>1, <2>7
    <3> QED BY <2>4, <2>7, <3>1, Zenon
  <2>10. CText(buffer, s) = t
    <3>1. /\ s + Len(t) \in 0..buffer_asize
          /\ \A j \in 1..Len(t) : buffer[s + j - 1] = t[j]
          /\ buffer[s + Len(t)] = NUL
      BY <2>2, <2>7, <2>8, <2>9, Zenon
    <3> QED BY <2>3, <2>7, <3>1, TextIs, Zenon
  <2> QED BY <2>2, <2>6, <2>10
<1>4. l = [i \in 1..Len(l) |-> l[i]]
  BY LenProperties
<1>5. CStrings = [i \in 1..Len(l) |-> CText(buffer, strings[i - 1])]
  BY <1>1, CStringsAreTexts
<1> QED BY <1>3, <1>4, <1>5, Zenon

LEMMA ReadAlways ==
  \A l \in Seq(Seq(Chars)) : TypeOK /\ NextString /\ Held(l) => CStrings = l
BY HeldIsRead

LEMMA ReadNext ==
  TypeOK' /\ NextString' =>
    \A l \in Seq(Seq(Chars)) : (Held(l))' => CStrings' = l
<1>1. (\A l \in Seq(Seq(Chars)) :
         TypeOK /\ NextString /\ Held(l) => CStrings = l)'
  BY ReadAlways, PTL
<1> QED BY <1>1

\* A step that stores only behind the strings, or in front of them.
LowBytesStay ==
  \A b \in First..buffer_asize :
    (strings[strings_count] \notin {NULL, Wild} => b < strings[strings_count])
      => buffer'[b] = buffer[b]

LEMMA TextStaysAt ==
  ASSUME TypeOK, NextString, Terminated, LowBytesStay,
         NEW i \in 0..(strings_count - 1), strings'[i] = strings[i]
  PROVE  CText(buffer', strings'[i]) = CText(buffer, strings[i])
<1> USE Sizes
<1>1. PICK s : s = strings[i]
  OBVIOUS
<1>2. /\ s \in Nat /\ s >= First
      /\ \E e \in s..(First + strings_length) :
           /\ buffer[e] = NUL
           /\ strings[strings_count] \notin {NULL, Wild}
                => e < strings[strings_count]
  BY <1>1 DEF Terminated
<1>3. PICK e \in s..(First + strings_length) :
        /\ buffer[e] = NUL
        /\ strings[strings_count] \notin {NULL, Wild}
             => e < strings[strings_count]
  BY <1>2
<1>4. strings_length \in Nat /\ strings_length <= StrSize - Reserve
  <2>1. strings_count > 0
    BY DEF TypeOK
  <2> QED BY <2>1 DEF TypeOK, NextString
<1>5. e \in s..buffer_asize
  BY <1>2, <1>3, <1>4
<1>6. \A m \in s..e : buffer'[m] = buffer[m]
  <2> SUFFICES ASSUME NEW m \in s..e PROVE buffer'[m] = buffer[m]
    OBVIOUS
  <2>1. m \in First..buffer_asize /\ m <= e
    BY <1>2, <1>5
  <2>2. strings[strings_count] \notin {NULL, Wild}
          => m < strings[strings_count]
    <3> SUFFICES ASSUME strings[strings_count] \notin {NULL, Wild}
                 PROVE  m < strings[strings_count]
      OBVIOUS
    <3>1. PICK t : t = strings[strings_count]
      OBVIOUS
    <3>2. t \in {First + strings_length, First + strings_length + 1}
      BY <3>1 DEF NextString
    <3>3. e < t
      BY <1>3, <3>1
    <3>4. m < t
      BY <1>4, <1>5, <2>1, <3>2, <3>3
    <3> QED BY <3>1, <3>4
  <2> QED BY <2>1, <2>2 DEF LowBytesStay
<1>7. CText(buffer', s) = CText(buffer, s)
  BY <1>2, <1>3, <1>5, <1>6, TextStays
<1> QED BY <1>1, <1>7

LEMMA TextsStay ==
  ASSUME TypeOK, NextString, Terminated, LowBytesStay,
         strings_count' = strings_count,
         \A i \in 0..(strings_count - 1) : strings'[i] = strings[i]
  PROVE  CStrings' = CStrings
<1>1. ASSUME NEW j \in 1..strings_count
      PROVE  CText(buffer', strings'[j - 1]) = CText(buffer, strings[j - 1])
  <2>1. j - 1 \in 0..(strings_count - 1)
    BY DEF TypeOK
  <2> QED BY <2>1, TextStaysAt
<1>2. /\ CStrings = [j \in 1..strings_count |-> CText(buffer, strings[j - 1])]
      /\ CStrings' = [j \in 1..strings_count |-> CText(buffer', strings'[j - 1])]
  BY CStringsAreTexts
<1> QED BY <1>1, <1>2, Zenon

\* C reads what was appended, to the first NUL.
LEMMA NewText ==
  ASSUME TypeOK, NextString, NEW str \in Strings, NEW len \in Lengths,
         netstring_append(str, len)
  PROVE  CText(buffer', strings[strings_count])
           = Visible(str, EffectiveLength(str, len))
<1> USE Sizes
<1>a. PICK n : n = EffectiveLength(str, len)
  OBVIOUS
<1>b. PICK temp : temp = strings[strings_count]
  OBVIOUS
<1>1. /\ n \in Nat /\ temp \in Nat
      /\ temp + n + 1 \in 0..buffer_asize
  BY <1>a, <1>b, AppendStores
<1>2. /\ \A j \in 1..n : buffer'[temp + j - 1] = Copied(str, n)[j]
      /\ buffer'[temp + n] = NUL
  <2>1. Stored(temp, Copied(str, n), n)
    BY <1>a, <1>b, AppendStores
  <2> QED BY <2>1, Zenon DEF Stored
<1>3. \A j \in 1..n :
        Copied(str, n)[j] = IF j <= Len(str) THEN str[j] ELSE NUL
  BY <1>1, CopiedType
<1>c. PICK t : t = Visible(str, n)
  OBVIOUS
<1>d. PICK k : k = Len(t)
  OBVIOUS
<1>4. str \in Seq(Chars) /\ Len(str) \in Nat
  BY StringsAssumption, LenProperties
<1>5. /\ t \in Seq(Chars) /\ k \in Nat /\ k <= n /\ k <= Len(str)
      /\ k < n => k = Len(str)
      /\ \A j \in 1..k : t[j] = str[j]
  <2>1. CASE n < Len(str)
    <3>1. t = SubSeq(str, 1, n)
      BY <1>c, <2>1 DEF Visible
    <3>2. \A j \in 1..n : str[j] \in Chars
      BY <1>1, <1>4, <2>1, ElementOfSeq
    <3>3. /\ t \in Seq(Chars)
          /\ Len(t) = IF 1 <= n THEN n - 1 + 1 ELSE 0
          /\ \A j \in 1..(n - 1 + 1) : t[j] = str[1 + j - 1]
      BY <1>1, <3>1, <3>2, SubSeqProperties
    <3>4. /\ (IF 1 <= n THEN n - 1 + 1 ELSE 0) = n
          /\ n - 1 + 1 = n
          /\ \A j \in 1..n : 1 + j - 1 = j
      BY <1>1
    <3>5. k = n
      BY <1>d, <3>3, <3>4
    <3>6. \A j \in 1..n : t[j] = str[j]
      BY <3>3, <3>4
    <3> QED BY <1>1, <1>4, <2>1, <3>3, <3>5, <3>6
  <2>2. CASE ~(n < Len(str))
    <3>1. t = str
      BY <1>c, <2>2 DEF Visible
    <3> QED BY <1>1, <1>4, <1>d, <2>2, <3>1
  <2> QED BY <2>1, <2>2
<1>6. \A j \in 1..k : buffer'[temp + j - 1] = t[j]
  <2> SUFFICES ASSUME NEW j \in 1..k PROVE buffer'[temp + j - 1] = t[j]
    OBVIOUS
  <2>1. j \in 1..n /\ j <= Len(str)
    BY <1>1, <1>4, <1>5
  <2> QED BY <1>2, <1>3, <1>5, <2>1, Zenon
<1>7. buffer'[temp + k] = NUL
  <2>1. CASE k = n
    BY <1>2, <2>1
  <2>2. CASE k # n
    <3>1. PICK j : j = k + 1
      OBVIOUS
    <3>2. j \in 1..n /\ ~(j <= Len(str)) /\ temp + j - 1 = temp + k
      BY <1>1, <1>4, <1>5, <2>2, <3>1
    <3> QED BY <1>2, <1>3, <3>2, Zenon
  <2> QED BY <2>1, <2>2
<1>8. temp + k \in 0..buffer_asize
  BY <1>1, <1>5
<1>9. CText(buffer', temp) = t
  BY <1>1, <1>5, <1>6, <1>7, <1>8, <1>d, TextIs
<1> QED BY <1>9, <1>a, <1>b, <1>c

LEMMA AppendReads ==
  ASSUME TypeOK, NextString, Terminated,
         NEW str \in Strings, NEW len \in Lengths, netstring_append(str, len)
  PROVE  CStrings' = Append(CStrings, Visible(str, EffectiveLength(str, len)))
<1> USE Sizes
<1>a. PICK n, temp : /\ n = EffectiveLength(str, len)
                     /\ temp = strings[strings_count]
  OBVIOUS
<1>b. PICK t, q : t = Visible(str, n) /\ q = strings_count
  OBVIOUS
<1>1. /\ n \in Nat /\ temp \in Nat /\ q \in Nat /\ q + 1 \in 0..Count
      /\ strings_count' = q + 1
  BY <1>a, <1>b, AppendStores
<1>2. strings' = [strings EXCEPT ![q + 1] = temp + n + 1]
  BY <1>a, <1>b, AppendStores
<1>3. \A i \in 0..q : strings'[i] = strings[i]
  <2>1. \A i \in 0..q : i \in 0..Count /\ i # q + 1
    BY <1>1
  <2> QED BY <1>2, <2>1 DEF TypeOK
<1>4. LowBytesStay
  <2>1. \A i \in 0..buffer_asize : i < temp => buffer'[i] = buffer[i]
    <3>1. Stored(temp, Copied(str, n), n)
      BY <1>a, AppendStores
    <3> QED BY <3>1, Zenon DEF Stored
  <2>2. temp \notin {NULL, Wild}
    BY <1>1, PointerArithmetic
  <2>3. \A b \in First..buffer_asize : b \in 0..buffer_asize
    OBVIOUS
  <2> QED BY <1>a, <2>1, <2>2, <2>3 DEF LowBytesStay
<1>5. /\ CStrings = [j \in 1..q |-> CText(buffer, strings[j - 1])]
      /\ CStrings' = [j \in 1..(q + 1) |-> CText(buffer', strings'[j - 1])]
  BY <1>1, <1>b, CStringsAreTexts, Zenon
<1>c. PICK f : f = CStrings
  OBVIOUS
<1>6. f = [j \in 1..q |-> f[j]] /\ Append(f, t) = [j \in 1..(q + 1) |->
                                       IF j <= q THEN f[j] ELSE t]
  <2>1. f = [j \in 1..q |-> f[j]]
    BY <1>5, <1>c
  <2>2. PICK V : V = {f[j] : j \in 1..q} \cup {t}
    OBVIOUS
  <2>3. f \in Seq(V) /\ t \in V /\ Len(f) = q
    <3>1. f \in [1..q -> V] /\ t \in V
      BY <2>1, <2>2
    <3>2. f \in Seq(V)
      BY <1>1, <3>1, SeqDef
    <3>3. DOMAIN f = 1..q
      BY <2>1
    <3>4. Len(f) = q
      BY <1>1, <3>2, <3>3, LenProperties
    <3> QED BY <3>1, <3>2, <3>4
  <2>4. PICK g : g = Append(f, t)
    OBVIOUS
  <2>5. /\ g \in Seq(V) /\ Len(g) = q + 1
        /\ \A j \in 1..q : g[j] = f[j]
        /\ g[q + 1] = t
    BY <2>3, <2>4, AppendProperties
  <2>6. g = [j \in 1..(q + 1) |-> g[j]]
    BY <2>5, LenProperties
  <2>7. ASSUME NEW j \in 1..(q + 1)
        PROVE  g[j] = IF j <= q THEN f[j] ELSE t
    <3>1. j \in 1..q \/ (j = q + 1 /\ ~(j <= q))
      BY <1>1
    <3> QED BY <1>1, <2>5, <3>1
  <2> QED BY <2>1, <2>4, <2>6, <2>7, Zenon
<1>7. ASSUME NEW j \in 1..(q + 1)
      PROVE  CText(buffer', strings'[j - 1]) = IF j <= q THEN f[j] ELSE t
  <2>1. CASE j <= q
    <3>1. j \in 1..q /\ j - 1 \in 0..(strings_count - 1) /\ j - 1 \in 0..q
      BY <1>1, <1>b, <2>1
    <3>2. CText(buffer', strings'[j - 1]) = CText(buffer, strings[j - 1])
      BY <1>3, <1>4, <3>1, TextStaysAt
    <3>3. f[j] = CText(buffer, strings[j - 1])
      BY <1>5, <1>c, <3>1, Zenon
    <3> QED BY <2>1, <3>2, <3>3, Zenon
  <2>2. CASE ~(j <= q)
    <3>1. j - 1 = q /\ q \in 0..q
      BY <1>1, <2>2
    <3>2. strings'[j - 1] = temp
      BY <1>3, <1>a, <1>b, <3>1, Zenon
    <3>3. CText(buffer', temp) = t
      BY <1>a, <1>b, NewText, Zenon
    <3> QED BY <2>2, <3>2, <3>3, Zenon
  <2> QED BY <2>1, <2>2
<1>8. CStrings' = Append(f, t)
  BY <1>5, <1>6, <1>7, Zenon
<1> QED BY <1>8, <1>a, <1>b, <1>c

\* No call stores over a string that the structure has: what C reads of the
\* list grows by what was appended, or is a list that was received, also
\* after messages were resumed.
THEOREM StringsSurviveTheorem == Spec => StringsSurvive
<1> DEFINE Kept == \/ CStrings' = <<>>
                   \/ CStrings' = CStrings
                   \/ CStrings' \in Incoming
                   \/ \E s \in Strings, n \in Lengths :
                        CStrings' = Append(CStrings,
                                           Visible(s, EffectiveLength(s, n)))
<1>1. TypeOK /\ NextString /\ BlockInv /\ TypeOK' /\ NextString' /\ [Next]_vars
        => [Kept]_vars
  <2> SUFFICES ASSUME TypeOK, NextString, BlockInv, TypeOK', NextString', Next
               PROVE  Kept
    BY Zenon
  <2>0. Terminated
    BY DEF BlockInv
  <2>1. ASSUME NEW str \in Strings, NEW len \in Lengths,
               netstring_append(str, len)
        PROVE  Kept
    BY <2>0, <2>1, AppendReads
  <2>2. CASE UNCHANGED <<buffer, strings, strings_count>>
    <3>1. CStrings' = CStrings
      BY <2>2, CStringsAreTexts
    <3> QED BY <3>1
  <2>3. CASE netstring_restart
    <3>1. strings_count' = 0
      BY <2>3 DEF netstring_restart
    <3>2. CStrings' = <<>>
      BY <3>1 DEF CStrings
    <3> QED BY <3>2
  <2>4. ASSUME EndEffect, strings[strings_count] \notin {NULL, Wild},
               strings_count' = strings_count
        PROVE  Kept
    <3>1. PICK temp : temp = strings[strings_count]
      OBVIOUS
    <3>2. EndStored(temp) /\ strings' = [strings EXCEPT ![strings_count] = NULL]
      BY <2>4, <3>1, EndStores
    <3>3. \A i \in 0..(strings_count - 1) : strings'[i] = strings[i]
      BY <3>2, Sizes DEF TypeOK
    <3>4. LowBytesStay
      <4>1. \A i \in 0..buffer_asize :
              First <= i /\ i < temp => buffer'[i] = buffer[i]
        BY <3>2 DEF EndStored
      <4>2. \A b \in First..buffer_asize : b \in 0..buffer_asize /\ First <= b
        BY Sizes
      <4> QED BY <2>4, <3>1, <4>1, <4>2 DEF LowBytesStay
    <3>5. CStrings' = CStrings
      BY <2>0, <2>4, <3>3, <3>4, TextsStay
    <3> QED BY <3>5
  <2>5. CASE netstring_resume
    <3>1. /\ buffer' = buffer /\ strings_count' = strings_count
          /\ \A i \in 0..(strings_count - 1) : strings'[i] = strings[i]
      <4>1. PICK p : strings' = [strings EXCEPT ![strings_count] = p]
        BY <2>5 DEF netstring_resume
      <4>2. buffer' = buffer /\ strings_count' = strings_count
        BY <2>5 DEF netstring_resume
      <4> QED BY <4>1, <4>2, Sizes DEF TypeOK
    <3>2. LowBytesStay
      BY <3>1 DEF LowBytesStay
    <3>3. CStrings' = CStrings
      BY <2>0, <3>1, <3>2, TextsStay
    <3> QED BY <3>3
  <2>6. ASSUME NEW list \in Incoming, netstring_read(list)
        PROVE  Kept
    <3>1. (Held(list))' /\ list \in Seq(Seq(Chars))
      BY <2>6, ReadHeld, IncomingAssumption
    <3>2. CStrings' = list
      BY <3>1, ReadNext
    <3> QED BY <3>2
  <2>7. CASE netstring_end
    BY <2>4, <2>7 DEF netstring_end
  <2>8. CASE netstring_write
    BY <2>2, <2>4, <2>8 DEF netstring_write
  <2> HIDE DEF Kept
  <2> QED
    BY <2>1, <2>2, <2>3, <2>5, <2>6, <2>7, <2>8
       DEF Next, AppendAfterEnd, EndAgain, ReadAfterEmptyEnd,
           ThroughWildPointer
<1> QED
  BY <1>1, BlockInvariant, PTL DEF Spec, StringsSurvive
=============================================================================
