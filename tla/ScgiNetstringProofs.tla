------------------------ MODULE ScgiNetstringProofs -------------------------
(***************************************************************************)
(* Theorems about the two decoders of scgi_netstring.c, for every set of   *)
(* headers and every env_size.                                             *)
(***************************************************************************)
EXTENDS ScgiNetstring, WireFormatProofs

TypeInv == header \in Headers /\ decoder \in DecoderKinds

\* The pointers netstring_read leaves, and those scgi_netstring2env makes of
\* them together with the NULs it overwrites.
AsRead ==
  joined = {} /\ strings = [i \in DOMAIN header |-> i]

AsEnv ==
  /\ joined = {i \in DOMAIN header : i % 2 = 1}
  /\ strings = [k \in 1 .. (Len(header) \div 2) |-> 2 * k - 1]
  /\ capped

\* The program that uses the netstring library.
NetstringInv ==
  decoder = "netstring" =>
    /\ pc \in {"validate", "2env", "done"}
    /\ retval \in {"none", Validation(header)}
    /\ pc = "validate" => retval = "none"
    /\ pc \in {"validate", "2env"} => AsRead /\ capped
    /\ pc = "2env" => retval \in {"none", "SUCCESS"}
    /\ pc = "done" /\ retval \in {"none", "SUCCESS"} =>
         IF Paired(header) THEN AsEnv ELSE AsRead

\* scgi_read2env: p is at a name and every name before it has been joined with
\* its value, the one that is compared with SCGI too.
Read2EnvInv ==
  decoder = "read2env" =>
    /\ pc \in {"read", "first", "pairs", "done"}
    /\ strings \in Seq(Nat)
    /\ p = 2 * Len(strings) + 1
    /\ joined = {i \in 1 .. p - 1 : i % 2 = 1}
    /\ ~scgi_version
    /\ pc \in {"read", "first"} => p = 1
    /\ pc = "pairs" => /\ LengthFirst(header) /\ mem[2] # EmptyString
                       /\ p <= Len(header) + 2 /\ Len(strings) < EnvSize
    /\ pc # "done" => retval = "none"
    /\ retval \notin {"SUCCESS", "PROTOCOL_ERROR"}

IInv == TypeInv /\ NetstringInv /\ Read2EnvInv /\ ErrorsAreTrue

-----------------------------------------------------------------------------
LEMMA HeaderInMemory ==
  ASSUME TypeInv
  PROVE  /\ header \in Seq(STRING)
         /\ Len(header) \in Nat /\ DOMAIN header = 1 .. Len(header)
         /\ mem \in Seq(STRING \cup {Overrun})
         /\ Len(mem) = Len(header) + 1
         /\ \A i \in 1 .. Len(header) : mem[i] = header[i]
         /\ mem[Len(header) + 1] = Overrun
<1>1. header \in Seq(STRING)
  BY HeadersAssumption DEF TypeInv
<1>2. Len(header) \in Nat /\ DOMAIN header = 1 .. Len(header)
  BY <1>1
<1> QED BY <1>1, <1>2, MemoryIsHeaderAndComma, Zenon DEF mem

\* The pairs of a header that has no odd token.
LEMMA PairsOfHeader ==
  ASSUME NEW h \in Seq(STRING), Paired(h), NEW k \in 1 .. (Len(h) \div 2)
  PROVE  /\ 2 * k - 1 \in 1 .. Len(h) /\ 2 * k \in 1 .. Len(h)
         /\ Pairs(h)[k] = <<h[2 * k - 1], h[2 * k]>>
<1>1. Len(h) \in Nat /\ k \in Nat /\ 1 <= k /\ 2 * k <= Len(h)
  <2>1. Len(h) \in Nat
    OBVIOUS
  <2> QED BY <2>1
<1>2. 2 * k - 1 \in 1 .. Len(h) /\ 2 * k \in 1 .. Len(h)
  BY <1>1
<1> QED BY <1>2 DEF Pairs

-----------------------------------------------------------------------------
(***************************************************************************)
(* scgi_netstring_validate against the requirements on a header.           *)
(***************************************************************************)

\* The first pair, behind the first, with the name SCGI.
ScgiAt(h, k) ==
  /\ k \in 2 .. (Len(h) \div 2)
  /\ h[2 * k - 1] = SCGI_NAME
  /\ \A j \in 2 .. (k - 1) : h[2 * j - 1] # SCGI_NAME

\* The loop over the names stops at that pair, and looks at its value.
LEMMA VersionOfFirstScgi ==
  ASSUME NEW h \in Seq(STRING), Paired(h)
  PROVE  VersionIsOne(h) <=>
           \E k \in 2 .. (Len(h) \div 2) :
             ScgiAt(h, k) /\ SumsToOne(Memory(h), 2 * k)
<1>1. Len(h) \in Nat /\ Len(h) % 2 = 0 /\ DOMAIN h = 1 .. Len(h)
  BY DEF Paired
<1>2. ASSUME NEW i \in ScgiNames(h), \A j \in ScgiNames(h) : i <= j,
             SumsToOne(Memory(h), i + 1)
      PROVE  \E k \in 2 .. (Len(h) \div 2) :
               ScgiAt(h, k) /\ SumsToOne(Memory(h), 2 * k)
  <2>1. /\ i \in 1 .. Len(h) /\ i > 1 /\ i % 2 = 1 /\ h[i] = SCGI_NAME
    BY <1>1, <1>2 DEF ScgiNames
  <2>2. PICK k \in Int : i = 2 * k - 1
    <3>1. i = 2 * ((i + 1) \div 2) - 1 /\ (i + 1) \div 2 \in Int
      BY <2>1
    <3> QED BY <3>1
  <2>3. k \in 2 .. (Len(h) \div 2) /\ i + 1 = 2 * k
    BY <1>1, <2>1, <2>2
  <2>4. \A j \in 2 .. (k - 1) : h[2 * j - 1] # SCGI_NAME
    <3> SUFFICES ASSUME NEW j \in 2 .. (k - 1), h[2 * j - 1] = SCGI_NAME
                 PROVE  FALSE
      OBVIOUS
    <3>1. /\ 2 * j - 1 \in 1 .. Len(h) /\ 2 * j - 1 > 1
          /\ (2 * j - 1) % 2 = 1 /\ 2 * j - 1 < i
      BY <1>1, <2>1, <2>2, <2>3
    <3>2. 2 * j - 1 \in ScgiNames(h)
      BY <1>1, <3>1 DEF ScgiNames
    <3> QED BY <1>2, <2>1, <3>1, <3>2
  <2>5. ScgiAt(h, k)
    BY <2>1, <2>2, <2>3, <2>4 DEF ScgiAt
  <2> QED BY <1>2, <2>3, <2>5
<1>3. ASSUME NEW k \in 2 .. (Len(h) \div 2), ScgiAt(h, k),
             SumsToOne(Memory(h), 2 * k)
      PROVE  VersionIsOne(h)
  <2> DEFINE i == 2 * k - 1
  <2>1. i \in 1 .. Len(h) /\ i > 1 /\ i % 2 = 1 /\ i + 1 = 2 * k
    BY <1>1
  <2>2. h[i] = SCGI_NAME
    BY <1>3 DEF ScgiAt
  <2>3. i \in ScgiNames(h)
    BY <1>1, <2>1, <2>2 DEF ScgiNames
  <2>4. ASSUME NEW j \in ScgiNames(h), j < i
        PROVE  FALSE
    <3>1. j \in 1 .. Len(h) /\ j > 1 /\ j % 2 = 1 /\ h[j] = SCGI_NAME
      BY <1>1 DEF ScgiNames
    <3>2. PICK m \in Int : j = 2 * m - 1
      <4>1. j = 2 * ((j + 1) \div 2) - 1 /\ (j + 1) \div 2 \in Int
        BY <3>1
      <4> QED BY <4>1
    <3>3. m \in 2 .. (k - 1)
      BY <2>4, <3>1, <3>2
    <3> QED BY <1>3, <3>1, <3>2, <3>3 DEF ScgiAt
  <2>5. \A j \in ScgiNames(h) : i <= j
    <3>1. \A j \in ScgiNames(h) : j \in Int
      BY <1>1 DEF ScgiNames
    <3> QED BY <2>1, <2>4, <3>1
  <2>6. SumsToOne(Memory(h), i + 1)
    BY <1>3, <2>1
  <2> HIDE DEF i
  <2> QED BY <2>3, <2>5, <2>6 DEF VersionIsOne
<1> QED BY <1>2, <1>3 DEF VersionIsOne

\* The same pair, among the pairs of the header.
LEMMA ScgiAmongPairs ==
  ASSUME NEW h \in Seq(STRING), Paired(h), NEW k \in 2 .. (Len(h) \div 2)
  PROVE  /\ FirstScgi(h, k) <=> ScgiAt(h, k)
         /\ Pairs(h)[k][2] = h[2 * k]
         /\ k < Len(h) \div 2 => Pairs(h)[k + 1][1] = h[2 * k + 1]
<1>1. Len(h) \in Nat
  OBVIOUS
<1>2. \A j \in 1 .. (Len(h) \div 2) :
        /\ Pairs(h)[j][1] = h[2 * j - 1]
        /\ Pairs(h)[j][2] = h[2 * j]
  BY <1>1, PairsOfHeader
<1>3. k \in 1 .. (Len(h) \div 2) /\ k \in Nat
  BY <1>1
<1>4. \A j \in 2 .. (k - 1) : j \in 1 .. (Len(h) \div 2)
  BY <1>1
<1>5. FirstScgi(h, k) <=> ScgiAt(h, k)
  BY <1>2, <1>3, <1>4 DEF FirstScgi, ScgiAt
<1>6. ASSUME k < Len(h) \div 2
      PROVE  Pairs(h)[k + 1][1] = h[2 * k + 1]
  <2> DEFINE n == k + 1
  <2>1. n \in 1 .. (Len(h) \div 2) /\ 2 * n - 1 = 2 * k + 1
    BY <1>1, <1>3, <1>6
  <2> HIDE DEF n
  <2>2. Pairs(h)[n][1] = h[2 * k + 1]
    BY <1>2, <2>1
  <2> QED BY <2>2 DEF n
<1> QED BY <1>2, <1>3, <1>5, <1>6

\* The loop of scgi_netstring_validate lets a header pass exactly if the value
\* of its first SCGI passes for one.
LEMMA VersionPasses ==
  ASSUME NEW h \in Seq(STRING), Paired(h)
  PROVE  VersionIsOne(h) <=> PassesForOne(h)
<1>1. Len(h) \in Nat /\ Len(h) % 2 = 0
  BY DEF Paired
<1>2. ASSUME NEW k \in 2 .. (Len(h) \div 2)
      PROVE  SumsToOne(Memory(h), 2 * k) <=>
               \/ Pairs(h)[k][2] \in VersionOnes
               \/ /\ Pairs(h)[k][2] = EmptyString
                  /\ k < Len(h) \div 2
                  /\ Pairs(h)[k + 1][1] \in OneNames
  <2>1. 2 * k \in 1 .. Len(h) + 1 /\ 2 * k <= Len(h)
    BY <1>1
  <2>2. 2 * k + 1 <= Len(h) <=> k < Len(h) \div 2
    BY <1>1
  <2> DEFINE i == 2 * k
  <2>3. i \in 1 .. Len(h) + 1 /\ i <= Len(h)
    BY <2>1
  <2> HIDE DEF i
  <2>4. SumsToOne(Memory(h), i) <=>
          \/ h[i] \in VersionOnes
          \/ h[i] = EmptyString /\ i + 1 <= Len(h) /\ h[i + 1] \in OneNames
    BY <2>3, SumsToOneInHeader, Zenon
  <2>5. /\ Pairs(h)[k][2] = h[2 * k]
        /\ k < Len(h) \div 2 => Pairs(h)[k + 1][1] = h[2 * k + 1]
    BY ScgiAmongPairs
  <2> QED BY <2>2, <2>4, <2>5, Zenon DEF i
<1>3. \A k \in 2 .. (Len(h) \div 2) : FirstScgi(h, k) <=> ScgiAt(h, k)
  BY ScgiAmongPairs
<1> QED BY <1>2, <1>3, VersionOfFirstScgi, Zenon DEF PassesForOne

\* A version "1" passes.
LEMMA CompliantPasses ==
  ASSUME NEW h, Compliant(h)
  PROVE  WellFormed(h) /\ PassesForOne(h)
BY VersionAssumption DEF Compliant, PassesForOne

\* What each code of scgi_netstring_validate says of the header.
LEMMA ValidationMeans ==
  ASSUME NEW h \in Seq(STRING)
  PROVE  /\ Validation(h) = "SUCCESS" <=> WellFormed(h) /\ PassesForOne(h)
         /\ Validation(h) # "none"
         /\ Validation(h) # "ABORTED"
         /\ Validation(h) = "PROTOCOL_ERROR" => Len(h) < 4 \/ ~Paired(h)
         /\ Validation(h) = "MISSING_CONTENT_LENGTH" => ~LengthFirst(h)
         /\ Validation(h) = "EMPTY_CONTENT_LENGTH" =>
              LengthFirst(h) /\ h[2] = EmptyString
         /\ Validation(h) = "INVALID_VERSION" =>
              LengthFirst(h) /\ WellFormed(h) /\ ~PassesForOne(h)
<1>1. Len(h) \in Nat /\ (h = <<>> => Len(h) = 0)
  BY EmptySeq
<1>2. CASE Len(h) < 4 \/ ~Paired(h)
  <2>1. ~WellFormed(h)
    BY <1>1, <1>2 DEF WellFormed
  <2>2. Validation(h) = "PROTOCOL_ERROR"
    BY <1>2 DEF Validation, Paired
  <2> QED BY <1>2, <2>1, <2>2
<1>3. CASE Len(h) >= 4 /\ Paired(h) /\ (~LengthFirst(h) \/ h[2] = EmptyString)
  <2>1. ~WellFormed(h)
    BY <1>3 DEF WellFormed
  <2>2. Validation(h) = IF ~LengthFirst(h) THEN "MISSING_CONTENT_LENGTH"
                        ELSE "EMPTY_CONTENT_LENGTH"
    BY <1>1, <1>3 DEF Validation, LengthFirst, Paired
  <2> QED BY <1>3, <2>1, <2>2
<1>4. CASE Len(h) >= 4 /\ Paired(h) /\ LengthFirst(h) /\ h[2] # EmptyString
  <2>1. Validation(h) = IF VersionIsOne(h) THEN "SUCCESS" ELSE "INVALID_VERSION"
    BY <1>1, <1>4 DEF Validation, LengthFirst, Paired
  <2>2. WellFormed(h)
    BY <1>4 DEF WellFormed
  <2>3. VersionIsOne(h) <=> PassesForOne(h)
    BY <1>4, VersionPasses
  <2> QED BY <1>4, <2>1, <2>2, <2>3
<1> QED BY <1>1, <1>2, <1>3, <1>4

-----------------------------------------------------------------------------
(***************************************************************************)
(* The steps of the two decoders.                                          *)
(***************************************************************************)

LEMMA LenAsRead ==
  ASSUME TypeInv, AsRead
  PROVE  Len(strings) = Len(header) /\ DOMAIN strings = DOMAIN header
<1>1. Len(header) \in Nat /\ DOMAIN header = 1 .. Len(header)
  BY HeaderInMemory
<1>2. strings = [i \in 1 .. Len(header) |-> i]
  BY <1>1 DEF AsRead
<1>3. strings \in Seq(Nat)
  BY <1>1, <1>2
<1> QED BY <1>1, <1>2, <1>3, LenProperties

LEMMA ValidateStep ==
  ASSUME IInv, scgi_netstring_validate
  PROVE  IInv'
<1>t. TypeInv /\ NetstringInv /\ Read2EnvInv /\ header \in Seq(STRING)
  BY HeaderInMemory DEF IInv
<1>1. /\ pc = "validate" /\ decoder = "netstring"
      /\ UNCHANGED <<header, decoder, joined, strings, capped>>
      /\ retval' = Validation(header)
      /\ pc' = IF retval' = "SUCCESS" THEN "2env" ELSE "done"
  BY <1>t DEF scgi_netstring_validate, Fail, TypeInv, DecoderKinds, Read2EnvInv
<1>2. Validation(header) # "none"
  BY <1>t, ValidationMeans
<1>3. TypeInv' /\ Read2EnvInv'
  BY <1>t, <1>1 DEF TypeInv, Read2EnvInv
<1>4. NetstringInv'
  BY <1>t, <1>1, <1>2 DEF NetstringInv, AsRead
<1>5. ErrorsAreTrue'
  BY <1>t, <1>1, ValidationMeans DEF ErrorsAreTrue, LengthFirst
<1> QED BY <1>3, <1>4, <1>5 DEF IInv

\* scgi_netstring2env makes name=value of every two pointers.
LEMMA ToEnvStep ==
  ASSUME IInv, scgi_netstring2env
  PROVE  IInv'
<1>t. /\ TypeInv /\ NetstringInv /\ Read2EnvInv /\ ErrorsAreTrue
      /\ Len(header) \in Nat /\ DOMAIN header = 1 .. Len(header)
  BY HeaderInMemory DEF IInv
<1>1. /\ pc = "2env" /\ decoder = "netstring" /\ pc' = "done"
      /\ UNCHANGED <<header, decoder, retval>>
  BY <1>t
     DEF scgi_netstring2env, TypeInv, DecoderKinds, Read2EnvInv
<1>2. AsRead /\ retval \in {"none", "SUCCESS"}
  BY <1>t, <1>1 DEF NetstringInv
<1>3. Len(strings) = Len(header) /\ DOMAIN strings = DOMAIN header
  BY <1>t, <1>2, LenAsRead
<1>4. CASE ~Paired(header)
  BY <1>t, <1>1, <1>2, <1>3, <1>4
     DEF IInv, scgi_netstring2env, Paired, TypeInv, NetstringInv, AsRead,
         Read2EnvInv, ErrorsAreTrue, LengthFirst
<1>5. CASE Paired(header)
  <2>1. /\ joined' = joined \cup
             {strings[i] - 1 : i \in {k \in DOMAIN strings : k % 2 = 0}}
        /\ strings' = [i \in 1 .. (Len(header) \div 2) |->
                         strings[KeptPointer(i)]]
        /\ capped'
    BY <1>3, <1>5 DEF scgi_netstring2env, Paired
  <2>2. joined' = {i \in DOMAIN header : i % 2 = 1}
    <3>1. joined' = {i - 1 : i \in {k \in 1 .. Len(header) : k % 2 = 0}}
      BY <1>t, <1>2, <1>3, <2>1 DEF AsRead
    <3>2. \A i \in 1 .. Len(header) :
            i % 2 = 0 => i - 1 \in 1 .. Len(header) /\ (i - 1) % 2 = 1
      BY <1>t
    <3>3. \A i \in 1 .. Len(header) :
            i % 2 = 1 => /\ i + 1 \in 1 .. Len(header)
                         /\ (i + 1) % 2 = 0 /\ (i + 1) - 1 = i
      BY <1>t, <1>5 DEF Paired
    <3> QED BY <1>t, <3>1, <3>2, <3>3
  <2>3. strings' = [i \in 1 .. (Len(header) \div 2) |-> 2 * i - 1]
    <3>1. \A i \in 1 .. (Len(header) \div 2) : 2 * i - 1 \in DOMAIN header
      BY <1>t
    <3> QED BY <1>2, <2>1, <3>1 DEF AsRead, KeptPointer
  <2>4. NetstringInv'
    BY <1>t, <1>1, <1>5, <2>1, <2>2, <2>3 DEF NetstringInv, AsEnv, Paired
  <2>5. TypeInv' /\ Read2EnvInv' /\ ErrorsAreTrue'
    BY <1>t, <1>1 DEF TypeInv, Read2EnvInv, ErrorsAreTrue, LengthFirst
  <2> QED BY <2>4, <2>5 DEF IInv
<1> QED BY <1>4, <1>5

\* append_env_value of scgi_read2env joins the name at p.
LEMMA TakePairWalks ==
  ASSUME TypeInv, Read2EnvInv, decoder = "read2env", TakePair,
         p <= Len(header)
  PROVE  /\ strings' \in Seq(Nat) /\ Len(strings') = Len(strings) + 1
         /\ p' = 2 * Len(strings') + 1 /\ p' <= Len(header) + 2
         /\ joined' = {i \in 1 .. p' - 1 : i % 2 = 1}
         /\ p \in joined' /\ p + 1 \notin joined' /\ p \in Nat /\ p >= 1
<1>1. strings \in Seq(Nat) /\ p \in Nat
  BY DEF Read2EnvInv
<1> PICK n \in Nat : n = Len(strings)
  BY <1>1
<1>2. p = 2 * n + 1 /\ p' = p + 2
  BY DEF Read2EnvInv, TakePair
<1>3. strings' \in Seq(Nat)
  BY <1>1, AppendProperties DEF TakePair
<1>4. Len(strings') = n + 1
  BY <1>1, AppendProperties DEF TakePair
<1>5. p' <= Len(header) + 2
  <2>1. Len(header) \in Nat
    BY HeaderInMemory
  <2> QED BY <1>1, <1>2, <2>1
<1>6. joined' = {i \in 1 .. p' - 1 : i % 2 = 1}
  <2>1. joined' = {i \in 1 .. p - 1 : i % 2 = 1} \cup {p}
    BY DEF Read2EnvInv, TakePair
  <2>2. p % 2 = 1
    BY <1>2
  <2>3. \A i \in 1 .. p + 1 : i % 2 = 1 => i \in 1 .. p - 1 \/ i = p
    BY <1>1, <2>2
  <2> QED BY <1>1, <1>2, <2>1, <2>2, <2>3
<1>7. p \in joined' /\ p + 1 \notin joined' /\ p >= 1
  BY <1>1, <1>2, <1>6
<1> QED BY <1>1, <1>2, <1>3, <1>4, <1>5, <1>6, <1>7

\* The first name, which has not been joined, is compared as it was sent.
LEMMA FirstPairStep ==
  ASSUME IInv, FirstPair
  PROVE  IInv'
<1>t. /\ TypeInv /\ NetstringInv /\ Read2EnvInv /\ ErrorsAreTrue
      /\ Len(header) \in Nat
  BY HeaderInMemory DEF IInv
<1>1. /\ pc = "first" /\ decoder = "read2env" /\ p = 1 /\ ~scgi_version
      /\ retval = "none"
      /\ UNCHANGED <<header, decoder, scgi_version>>
  BY <1>t DEF FirstPair, TypeInv, DecoderKinds, NetstringInv, Read2EnvInv
<1>2. IsString(mem, joined, p, CONTENT_LENGTH) <=> LengthFirst(header)
  <2>1. 1 \in 1 .. Len(mem) /\ 1 \notin joined
    BY <1>t, <1>1, HeaderInMemory DEF Read2EnvInv
  <2>2. mem \in Seq(STRING \cup {Overrun})
    BY <1>t, HeaderInMemory
  <2>3. IsString(mem, joined, p, CONTENT_LENGTH) <=> mem[1] = CONTENT_LENGTH
    BY <1>1, <2>1, <2>2, IsStringAlone
  <2>4. CASE Len(header) = 0
    <3>1. header = <<>> /\ mem[1] = Overrun
      BY <1>t, <2>4, HeaderInMemory, EmptySeq
    <3> QED BY <2>3, <3>1 DEF LengthFirst, Overrun, CONTENT_LENGTH
  <2>5. CASE Len(header) > 0
    <3>1. header # <<>> /\ mem[1] = header[1]
      BY <1>t, <2>5, HeaderInMemory
    <3> QED BY <2>3, <3>1 DEF LengthFirst
  <2> QED BY <1>t, <2>4, <2>5
<1>3. LengthFirst(header) => p <= Len(header)
  BY <1>t, <1>1, HeaderInMemory, EmptySeq DEF LengthFirst
<1>4. LengthFirst(header) /\ mem[p + 1] = EmptyString
        => header[2] = EmptyString
  <2>1. CASE Len(header) = 1
    <3>1. mem[2] = Overrun
      BY <1>t, <2>1, HeaderInMemory
    <3> QED BY <1>1, <3>1, OverrunIsNoToken
  <2>2. CASE Len(header) >= 2
    <3>1. mem[2] = header[2]
      BY <1>t, <2>2, HeaderInMemory
    <3> QED BY <1>1, <3>1
  <2>3. ASSUME LengthFirst(header)
        PROVE  Len(header) = 1 \/ Len(header) >= 2
    <3>1. p <= Len(header)
      BY <1>3, <2>3
    <3>2. p = 1 /\ Len(header) \in Nat
      BY <1>t, <1>1
    <3>3. \A n \in Nat : 1 <= n => n = 1 \/ n >= 2
      OBVIOUS
    <3>4. 1 <= Len(header)
      BY <3>1, <3>2, Zenon
    <3> QED BY <3>2, <3>3, <3>4, Zenon
  <2> QED BY <2>1, <2>2, <2>3, Zenon
<1>5. ASSUME NEW code \in {"MISSING_CONTENT_LENGTH", "EMPTY_CONTENT_LENGTH"},
             Fail(code), UNCHANGED <<joined, strings, p>>
      PROVE  TypeInv' /\ NetstringInv' /\ Read2EnvInv'
  BY <1>t, <1>1, <1>5
     DEF Fail, TypeInv, NetstringInv, Read2EnvInv
<1>6. CASE ~LengthFirst(header)
  <2>1. Fail("MISSING_CONTENT_LENGTH") /\ UNCHANGED <<joined, strings, p>>
    BY <1>2, <1>6 DEF FirstPair
  <2>2. ErrorsAreTrue'
    BY <1>1, <1>6, <2>1
       DEF Fail, ErrorsAreTrue, LengthFirst, RightButForVersion
  <2> QED BY <1>5, <2>1, <2>2 DEF IInv
<1>7. CASE LengthFirst(header) /\ mem[p + 1] = EmptyString
  <2>1. Fail("EMPTY_CONTENT_LENGTH") /\ UNCHANGED <<joined, strings, p>>
    BY <1>2, <1>7 DEF FirstPair
  <2>2. mem[2] = EmptyString
    BY <1>1, <1>7
  <2>3. ErrorsAreTrue'
    BY <1>1, <1>4, <1>7, <2>1, <2>2
       DEF Fail, ErrorsAreTrue, LengthFirst, RightButForVersion, mem
  <2> QED BY <1>5, <2>1, <2>3 DEF IInv
<1>8. CASE LengthFirst(header) /\ mem[p + 1] # EmptyString
  <2>1. TakePair /\ pc' = "pairs" /\ UNCHANGED retval
    BY <1>2, <1>8 DEF FirstPair
  <2>4. mem' = mem /\ mem'[2] # EmptyString
    BY <1>1, <1>8 DEF mem
  <2>5. Len(strings') < EnvSize
    <3>1. Len(strings') = Len(strings) + 1 /\ Len(strings) \in Nat
      BY <1>t, <1>1, <1>3, <1>8, <2>1, TakePairWalks DEF Read2EnvInv
    <3>2. 1 = 2 * Len(strings) + 1
      BY <1>t, <1>1 DEF Read2EnvInv
    <3> QED BY <3>1, <3>2, EnvSizeAssumption
  <2>2. Read2EnvInv'
    BY <1>t, <1>1, <1>3, <1>8, <2>1, <2>4, <2>5, TakePairWalks
       DEF Read2EnvInv, LengthFirst
  <2>3. TypeInv' /\ NetstringInv' /\ ErrorsAreTrue'
    BY <1>t, <1>1, <2>1
       DEF TypeInv, NetstringInv, ErrorsAreTrue
  <2> QED BY <2>2, <2>3 DEF IInv
<1> QED BY <1>6, <1>7, <1>8

\* A further name is joined before it is compared, and so is never SCGI.
LEMMA NextPairStep ==
  ASSUME IInv, NextPair
  PROVE  IInv'
<1>t. /\ TypeInv /\ NetstringInv /\ Read2EnvInv /\ ErrorsAreTrue
      /\ Len(header) \in Nat
  BY HeaderInMemory DEF IInv
<1>1. /\ pc = "pairs" /\ decoder = "read2env" /\ p <= Len(header) /\ TakePair
      /\ LengthFirst(header) /\ ~scgi_version /\ retval = "none"
      /\ mem[2] # EmptyString
      /\ UNCHANGED <<header, decoder>>
  BY <1>t DEF NextPair, TypeInv, DecoderKinds, NetstringInv, Read2EnvInv
<1>2. /\ strings' \in Seq(Nat) /\ p' = 2 * Len(strings') + 1
      /\ p' <= Len(header) + 2
      /\ joined' = {i \in 1 .. p' - 1 : i % 2 = 1}
      /\ p \in joined' /\ p + 1 \notin joined' /\ p \in Nat /\ p >= 1
  BY <1>t, <1>1, TakePairWalks
<1>3. ~IsString(mem, joined', p, SCGI_NAME)
  <2>1. mem \in Seq(STRING \cup {Overrun})
    BY <1>t, HeaderInMemory
  <2>2. p \in 1 .. Len(mem) /\ p + 1 <= Len(mem)
    BY <1>t, <1>1, <1>2, HeaderInMemory
  <2> QED BY <1>2, <2>1, <2>2, IsStringJoined
<1>4. ~scgi_version'
  BY <1>1, <1>3 DEF NextPair
<1>5. \/ Len(strings') >= EnvSize /\ pc' = "done" /\ retval' = "ABORTED"
      \/ ~(Len(strings') >= EnvSize) /\ UNCHANGED <<pc, retval>>
  BY <1>3 DEF NextPair, Fail
<1>10. pc' = "pairs" => mem'[2] # EmptyString /\ Len(strings') < EnvSize
  <2>1. Len(strings') \in Nat /\ EnvSize \in Nat
    BY <1>2, EnvSizeAssumption
  <2>2. \A a, b \in Nat : ~(a >= b) => a < b
    OBVIOUS
  <2>3. mem' = mem
    BY <1>1 DEF mem
  <2>4. "pairs" # "done"
    OBVIOUS
  <2> QED BY <1>1, <1>5, <2>1, <2>2, <2>3, <2>4, Zenon
<1>6. Read2EnvInv'
  BY <1>1, <1>2, <1>4, <1>5, <1>10 DEF Read2EnvInv, LengthFirst
<1>7. Len(strings') >= EnvSize => (Len(header) + 1) \div 2 >= EnvSize
  <2>1. Len(strings') \in Nat /\ EnvSize \in Nat
    BY <1>2, EnvSizeAssumption
  <2>2. 2 * Len(strings') + 1 <= Len(header) + 2
    BY <1>2
  <2> QED BY <1>t, <2>1, <2>2
<1>8. ErrorsAreTrue'
  <2>1. Len(strings') >= EnvSize => ~RightButForVersion(header)
    <3>1. (Len(header) + 1) \div 2 \in Nat /\ EnvSize \in Nat
      BY <1>t, EnvSizeAssumption
    <3>2. \A a, b \in Nat : a >= b => ~(a < b)
      OBVIOUS
    <3> QED BY <1>7, <3>1, <3>2, Zenon DEF RightButForVersion
  <2>2. RightButForVersion(header') = RightButForVersion(header)
    BY <1>1
  <2> HIDE DEF RightButForVersion
  <2> QED BY <1>t, <1>1, <1>5, <1>7, <2>1, <2>2 DEF ErrorsAreTrue
<1>9. TypeInv' /\ NetstringInv'
  BY <1>t, <1>1 DEF TypeInv, NetstringInv
<1> QED BY <1>6, <1>8, <1>9 DEF IInv

\* The inductive invariant of both decoders.
THEOREM DecoderInvariant == Spec => []IInv
<1>1. Init => IInv
  <2> SUFFICES ASSUME Init PROVE IInv
    OBVIOUS
  <2>1. TypeInv /\ Len(header) \in Nat
    <3>1. TypeInv
      BY DecodersAssumption DEF Init, TypeInv
    <3> QED BY <3>1, HeaderInMemory
  <2>2. NetstringInv
    BY DEF Init, NetstringInv, AsRead
  <2>3. Read2EnvInv
    <3> SUFFICES ASSUME decoder = "read2env"
                 PROVE  Read2EnvInv
      BY DEF Read2EnvInv
    <3>1. strings \in Seq(Nat) /\ Len(strings) = 0
      BY EmptySeq DEF Init
    <3>2. p = 1 /\ ~scgi_version /\ pc = "read" /\ retval = "none"
      BY DEF Init
    <3>3. joined = {i \in 1 .. p - 1 : i % 2 = 1}
      <4>1. {i \in 1 .. p - 1 : i % 2 = 1} = {}
        BY <3>2
      <4> QED BY <4>1 DEF Init
    <3> QED BY <3>1, <3>2, <3>3 DEF Read2EnvInv
  <2>4. ErrorsAreTrue
    BY DEF Init, ErrorsAreTrue
  <2> QED BY <2>1, <2>2, <2>3, <2>4 DEF IInv
<1>2. IInv /\ [Next]_vars => IInv'
  <2> SUFFICES ASSUME IInv, [Next]_vars PROVE IInv'
    OBVIOUS
  <2>t. TypeInv /\ NetstringInv /\ Read2EnvInv /\ ErrorsAreTrue
    BY DEF IInv
  <2>1. CASE ReadHeader
    <3>1. /\ pc = "read" /\ decoder = "read2env"
          /\ \/ pc' = "done" /\ retval' = "MISSING_TRAILING_COMMA"
             \/ pc' = "first" /\ UNCHANGED retval
          /\ UNCHANGED <<header, decoder, joined, strings, p, scgi_version>>
      BY <2>t, <2>1 DEF ReadHeader, Fail, TypeInv, DecoderKinds, NetstringInv
    <3> QED
      BY <2>t, <3>1
         DEF IInv, TypeInv, NetstringInv, Read2EnvInv, ErrorsAreTrue
  <2>2. CASE PairsEnd
    <3>1. /\ pc = "pairs" /\ decoder = "read2env"
          /\ ~scgi_version /\ LengthFirst(header)
      BY <2>t, <2>2
         DEF PairsEnd, TypeInv, DecoderKinds, NetstringInv, Read2EnvInv
    <3>2. /\ pc' = "done" /\ retval' = "INVALID_VERSION"
          /\ UNCHANGED <<header, decoder, joined, strings, p, scgi_version>>
      BY <2>2, <3>1 DEF PairsEnd, Fail
    <3>3. RightButForVersion(header)
      <4>1. /\ mem[2] # EmptyString /\ Len(strings) < EnvSize
            /\ p = 2 * Len(strings) + 1 /\ p > Len(header)
            /\ Len(strings) \in Nat /\ Len(header) \in Nat
        BY <2>t, <2>2, <3>1, HeaderInMemory DEF PairsEnd, Read2EnvInv
      <4>2. (Len(header) + 1) \div 2 < EnvSize
        BY <4>1, EnvSizeAssumption
      <4> QED BY <3>1, <4>1, <4>2 DEF RightButForVersion, mem
    <3>4. ErrorsAreTrue'
      BY <3>1, <3>2, <3>3 DEF ErrorsAreTrue, RightButForVersion
    <3>5. TypeInv' /\ NetstringInv' /\ Read2EnvInv'
      BY <2>t, <3>1, <3>2 DEF TypeInv, NetstringInv, Read2EnvInv
    <3> QED BY <3>4, <3>5 DEF IInv
  <2>3. CASE UNCHANGED vars
    <3>1. TypeInv' /\ NetstringInv'
      BY <2>t, <2>3 DEF vars, TypeInv, NetstringInv, AsRead, AsEnv
    <3>2. mem' = mem
      BY <2>3 DEF vars, mem
    <3>3. Read2EnvInv'
      BY <2>t, <2>3, <3>2 DEF vars, Read2EnvInv
    <3>4. ErrorsAreTrue'
      BY <2>t, <2>3 DEF vars, ErrorsAreTrue
    <3> QED BY <3>1, <3>3, <3>4 DEF IInv
  <2> QED
    BY <2>1, <2>2, <2>3, ValidateStep, ToEnvStep, FirstPairStep, NextPairStep
       DEF Next, scgi_read2env
<1> QED BY <1>1, <1>2, PTL DEF Spec

-----------------------------------------------------------------------------
\* scgi_netstring_validate accepts a compliant header, however many pairs it
\* has, and exactly those others whose only fault is a version that passes for
\* "1": for all values and names whose bytes have that sum.
THEOREM ValidatesComplianceTheorem == Spec => []ValidatesCompliance
<1>1. IInv => ValidatesCompliance
  <2> SUFFICES ASSUME IInv, decoder = "netstring", retval # "none"
               PROVE  /\ Compliant(header) => retval = "SUCCESS"
                      /\ retval = "SUCCESS" <=>
                           WellFormed(header) /\ PassesForOne(header)
    BY DEF ValidatesCompliance
  <2>1. retval = Validation(header)
    BY DEF IInv, NetstringInv
  <2>2. header \in Seq(STRING)
    BY HeaderInMemory DEF IInv
  <2> QED BY <2>1, <2>2, ValidationMeans, CompliantPasses
<1> QED BY <1>1, DecoderInvariant, PTL

\* What scgi_netstring2env leaves is the pairs of the header, in order, and a
\* header with an odd token is left as it was.
THEOREM EnvIsThePairsTheorem == Spec => []EnvIsThePairs
<1>1. IInv => EnvIsThePairs
  <2> SUFFICES ASSUME IInv, decoder = "netstring", pc = "done",
                      retval \in {"none", "SUCCESS"}
               PROVE  EnvIsThePairs
    BY DEF EnvIsThePairs
  <2>1. /\ header \in Seq(STRING) /\ Len(header) \in Nat
        /\ DOMAIN header = 1 .. Len(header)
        /\ mem \in Seq(STRING \cup {Overrun}) /\ Len(mem) = Len(header) + 1
        /\ \A i \in 1 .. Len(header) : mem[i] = header[i]
    BY HeaderInMemory DEF IInv
  <2>2. CASE Paired(header)
    <3>1. AsEnv
      BY <2>2 DEF IInv, NetstringInv
    <3>2. ASSUME NEW k \in 1 .. (Len(header) \div 2)
          PROVE  CString(mem, joined, strings[k]) = Pairs(header)[k]
      <4>1. strings[k] = 2 * k - 1
        BY <3>1, <3>2 DEF AsEnv
      <4>2. k \in Nat /\ 1 <= k /\ 2 * k <= Len(header)
        BY <2>1
      <4>3. 2 * k - 1 \in joined /\ 2 * k \notin joined
        BY <2>1, <3>1, <4>2 DEF AsEnv
      <4> PICK i \in Nat : i = 2 * k - 1
        BY <4>2
      <4>4. i \in 1 .. Len(mem) /\ i + 1 <= Len(mem) /\ i + 1 = 2 * k
        BY <2>1, <4>2
      <4>5. CString(mem, joined, i) = <<mem[i], mem[i + 1]>>
        BY <2>1, <4>3, <4>4, CStringJoined
      <4>6. Pairs(header)[k] = <<header[2 * k - 1], header[2 * k]>>
        BY <2>1, <2>2, PairsOfHeader
      <4>7. mem[i] = header[2 * k - 1] /\ mem[i + 1] = header[2 * k]
        BY <2>1, <4>2, <4>4
      <4> QED BY <4>1, <4>5, <4>6, <4>7
    <3>3. DOMAIN strings = 1 .. (Len(header) \div 2)
      BY <3>1 DEF AsEnv
    <3>4. [k \in DOMAIN strings |-> CString(mem, joined, strings[k])]
            = Pairs(header)
      BY <3>2, <3>3 DEF Pairs
    <3> QED BY <2>2, <3>1, <3>4 DEF EnvIsThePairs, AsEnv
  <2>3. CASE ~Paired(header)
    <3>1. AsRead
      BY <2>3 DEF IInv, NetstringInv
    <3>2. ASSUME NEW i \in DOMAIN header
          PROVE  CString(mem, joined, strings[i]) = <<header[i]>>
      <4>1. strings[i] = i /\ i \notin joined
        BY <3>1 DEF AsRead
      <4>2. i \in 1 .. Len(mem) /\ mem[i] = header[i]
        BY <2>1
      <4> QED BY <2>1, <4>1, <4>2, CStringAlone
    <3>3. DOMAIN strings = DOMAIN header
      BY <3>1 DEF AsRead
    <3> QED BY <2>3, <3>2, <3>3 DEF EnvIsThePairs
  <2> QED BY <2>2, <2>3
<1> QED BY <1>1, DecoderInvariant, PTL

\* No code lies about the header, but for the INVALID_VERSION of scgi_read2env:
\* every header that gets so far is refused with it, and none is accepted.
THEOREM ErrorsAreTrueTheorem == Spec => []ErrorsAreTrue
<1>1. IInv => ErrorsAreTrue
  BY DEF IInv
<1> QED BY <1>1, DecoderInvariant, PTL
=============================================================================
