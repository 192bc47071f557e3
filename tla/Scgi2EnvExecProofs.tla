------------------------ MODULE Scgi2EnvExecProofs --------------------------
(***************************************************************************)
(* Theorems about scgi2env-exec, for every set of headers, everything that *)
(* may arrive of them and every size of new_env[].                         *)
(***************************************************************************)
EXTENDS Scgi2EnvExec, WireFormatProofs

\* The names that main() has walked past.
Walked == {i \in ScgiNames(header) : i < p}

TypeInv ==
  /\ header \in Headers /\ wire \in Wires
  /\ pc \in {"scanf", "fread", "first", "pairs", "execle", "program",
             "crashed", "exited"}
  /\ scgi_version \in BOOLEAN
  /\ new_env \in Seq(Nat)

\* p is at a name, each name before it is joined with its value, and the
\* pointers stored are to those names.
WalkInv ==
  /\ p = 2 * Len(new_env) + 1
  /\ \A k \in 1 .. Len(new_env) : new_env[k] = 2 * k - 1
  /\ joined = {i \in 1 .. p - 1 : i % 2 = 1}
  /\ p <= Len(header) + 2

\* Once the loop has met the SCGI variable, scgi_version is of the last one,
\* unless that has no value.
VersionInv ==
  pc \notin {"scanf", "fread", "first"} /\ Walked # {} =>
    \E i \in Walked : /\ \A j \in Walked : j <= i
                      /\ \/ scgi_version <=> SumsToOne(mem, i + 1)
                         \/ i = Len(header)

\* What the program point tells of the header and of the outcome.
ProgressInv ==
  /\ pc \in {"scanf", "fread", "first"} => p = 1 /\ scgi_version \in BOOLEAN
  /\ pc \in {"pairs", "execle", "program"} => LengthFirst(header) /\ p > 1
  /\ pc \in {"execle", "program"} =>
       p > Len(header) /\ scgi_version /\ EnvFits
  /\ pc # "exited" => exit_code = NoExit /\ output # "503"

IInv == TypeInv /\ WalkInv /\ VersionInv /\ ProgressInv /\ ExitCodesAreTrue

-----------------------------------------------------------------------------
\* The exit codes are different from each other and from none.
LEMMA ExitCodes ==
  /\ NoExit = -1
  /\ RETVAL_PROTOCOL_ERROR = 1 /\ RETVAL_UNABLE_TO_EXEC = 2
  /\ RETVAL_MISSING_CONTENT_LENGTH = 3 /\ RETVAL_INVALID_SCGI = 4
  /\ RETVAL_TOO_MANY_ENVS = 5 /\ RETVAL_OTHER = 6
BY DEF NoExit, RETVAL_PROTOCOL_ERROR, RETVAL_UNABLE_TO_EXEC,
       RETVAL_MISSING_CONTENT_LENGTH, RETVAL_INVALID_SCGI,
       RETVAL_TOO_MANY_ENVS, RETVAL_OTHER

LEMMA HeaderInMemory ==
  ASSUME TypeInv
  PROVE  /\ header \in Seq(STRING)
         /\ Len(header) \in Nat
         /\ mem \in Seq(STRING \cup {Overrun})
         /\ Len(mem) = Len(header) + 1
         /\ \A i \in 1 .. Len(header) : mem[i] = header[i]
         /\ mem[Len(header) + 1] = Overrun
<1>1. header \in Seq(STRING)
  BY HeadersAssumption DEF TypeInv
<1>2. Len(header) \in Nat
  BY <1>1
<1> QED BY <1>1, <1>2, MemoryIsHeaderAndComma, Zenon DEF mem

\* The name at p is not joined yet: strcmp compares it.
LEMMA NameAtP ==
  ASSUME TypeInv, WalkInv, p <= Len(header) + 1, NEW name
  PROVE  IsString(mem, joined, p, name) <=> mem[p] = name
<1>1. p \in 1 .. Len(mem)
  BY HeaderInMemory DEF WalkInv, TypeInv
<1>2. p \notin joined
  BY <1>1 DEF WalkInv
<1>3. mem \in Seq(STRING \cup {Overrun})
  BY HeaderInMemory
<1> QED BY <1>1, <1>2, <1>3, IsStringAlone

\* append_env_value and the store keep the pointers at every other token.
LEMMA TakePairWalks ==
  ASSUME TypeInv, WalkInv, TakePair, UNCHANGED header, p <= Len(header)
  PROVE  WalkInv' /\ new_env' \in Seq(Nat) /\ p' = p + 2
<1>1. new_env \in Seq(Nat) /\ p \in Nat
  BY DEF TypeInv, WalkInv
<1> PICK n \in Nat : n = Len(new_env)
  BY <1>1
<1>2. /\ p = 2 * n + 1 /\ p' = p + 2
      /\ \A k \in 1 .. n : new_env[k] = 2 * k - 1
  BY DEF WalkInv, TakePair
<1>3. new_env' \in Seq(Nat)
  BY <1>1, AppendProperties DEF TakePair
<1>4. Len(new_env') = n + 1
  BY <1>1, AppendProperties DEF TakePair
<1>5. /\ \A k \in 1 .. n : new_env'[k] = new_env[k]
      /\ new_env'[n + 1] = p
  BY <1>1, AppendProperties DEF TakePair
<1>6. p' = 2 * Len(new_env') + 1
  BY <1>2, <1>4
<1>7. p' <= Len(header') + 2
  <2>1. Len(header) \in Nat
    BY HeaderInMemory
  <2>2. p + 2 <= Len(header) + 2
    BY <1>1, <2>1
  <2> QED BY <1>2, <2>2
<1>8. \A k \in 1 .. n + 1 : new_env'[k] = 2 * k - 1
  BY <1>2, <1>5
<1>9. joined' = {i \in 1 .. p' - 1 : i % 2 = 1}
  <2>1. joined' = {i \in 1 .. p - 1 : i % 2 = 1} \cup {p}
    BY DEF WalkInv, TakePair
  <2>2. p % 2 = 1
    BY <1>2
  <2>3. \A i \in 1 .. p + 1 : i % 2 = 1 => i \in 1 .. p - 1 \/ i = p
    BY <1>1, <2>2
  <2> QED BY <1>1, <1>2, <2>1, <2>2, <2>3
<1> QED BY <1>2, <1>3, <1>4, <1>6, <1>7, <1>8, <1>9 DEF WalkInv

\* The value that counts is read where LastScgiPasses reads it.
LEMMA LastScgi ==
  ASSUME TypeInv, NEW i \in ScgiNames(header),
         \A j \in ScgiNames(header) : j <= i
  PROVE  LastScgiPasses(header) <=> SumsToOne(mem, i + 1)
<1>1. /\ header \in Seq(STRING) /\ Len(header) \in Nat
      /\ i \in 1 .. Len(header)
  BY HeaderInMemory DEF ScgiNames
<1>2. i + 1 \in 1 .. Len(header) + 1
  BY <1>1
<1>3. SumsToOne(mem, i + 1) <=>
        /\ i + 1 <= Len(header)
        /\ \/ header[i + 1] \in VersionOnes
           \/ /\ header[i + 1] = EmptyString
              /\ (i + 1) + 1 <= Len(header)
              /\ header[(i + 1) + 1] \in OneNames
  BY <1>1, <1>2, SumsToOneInHeader, Zenon DEF mem
<1>4. \A j \in ScgiNames(header) :
        (\A k \in ScgiNames(header) : k <= j) => j = i
  BY <1>1 DEF ScgiNames
<1>5. (i + 1) + 1 = i + 2 /\ (i + 1 <= Len(header) <=> i < Len(header))
  BY <1>1
<1> QED BY <1>3, <1>4, <1>5 DEF LastScgiPasses

-----------------------------------------------------------------------------
\* No step before the loop, and none behind it, moves p.
LEMMA StandsStill ==
  ASSUME TypeInv, WalkInv, VersionInv,
         UNCHANGED <<header, wire, p, joined, new_env, scgi_version>>,
         pc \in {"scanf", "fread", "first"} => p = 1,
         pc' \in {"scanf", "fread", "first", "pairs", "execle", "program",
                  "crashed", "exited"}
  PROVE  TypeInv' /\ WalkInv' /\ VersionInv'
<1>1. TypeInv' /\ WalkInv'
  BY DEF TypeInv, WalkInv
<1>2. Walked' = Walked /\ mem' = mem
  BY DEF Walked, mem
<1>3. p = 1 => Walked = {}
  <2>1. DOMAIN header = 1 .. Len(header) /\ Len(header) \in Nat
    BY HeaderInMemory
  <2> QED BY <2>1 DEF Walked, ScgiNames
<1>4. VersionInv'
  BY <1>2, <1>3 DEF VersionInv
<1> QED BY <1>1, <1>4

\* The first pair is a name CONTENT_LENGTH, and whatever is behind it.
LEMMA FirstPairStep ==
  ASSUME IInv, FirstPair
  PROVE  IInv'
<1>t. TypeInv /\ WalkInv /\ VersionInv /\ ProgressInv /\ ExitCodesAreTrue
  BY DEF IInv
<1>1. p = 1 /\ Len(header) \in Nat
  BY <1>t, HeaderInMemory DEF FirstPair, ProgressInv
<1>2. IsString(mem, joined, p, CONTENT_LENGTH) <=> mem[1] = CONTENT_LENGTH
  BY <1>t, <1>1, NameAtP
<1>3. mem[1] = CONTENT_LENGTH <=> LengthFirst(header)
  <2>1. CASE Len(header) = 0
    <3>1. header = <<>> /\ mem[1] = Overrun
      BY <1>t, <2>1, HeaderInMemory, EmptySeq
    <3> QED BY <3>1 DEF LengthFirst, Overrun, CONTENT_LENGTH
  <2>2. CASE Len(header) > 0
    <3>1. header # <<>> /\ mem[1] = header[1]
      BY <1>t, <1>1, <2>2, HeaderInMemory
    <3> QED BY <3>1 DEF LengthFirst
  <2> QED BY <1>1, <2>1, <2>2
<1>4. CASE ~LengthFirst(header)
  <2>1. /\ ExitWith(RETVAL_MISSING_CONTENT_LENGTH)
        /\ UNCHANGED <<header, wire, joined, new_env, p, scgi_version, output>>
    BY <1>2, <1>3, <1>4 DEF FirstPair, inputVars
  <2>2. TypeInv' /\ WalkInv' /\ VersionInv'
    BY <1>t, <1>1, <2>1, StandsStill DEF ExitWith
  <2>3. ProgressInv'
    BY <2>1 DEF ExitWith, ProgressInv
  <2>4. ExitCodesAreTrue'
    BY <1>t, <1>4, <2>1, ExitCodes
       DEF ExitWith, ExitCodesAreTrue, FirstPair, ProgressInv
  <2> QED BY <2>2, <2>3, <2>4 DEF IInv
<1>5. CASE LengthFirst(header)
  <2>1. /\ TakePair /\ pc' = "pairs"
        /\ UNCHANGED <<header, wire, scgi_version, exit_code, output>>
    BY <1>2, <1>3, <1>5 DEF FirstPair, inputVars
  <2>2. p <= Len(header)
    BY <1>t, <1>1, <1>5, HeaderInMemory, EmptySeq DEF LengthFirst
  <2>3. WalkInv' /\ new_env' \in Seq(Nat) /\ p' = 3
    BY <1>t, <1>1, <2>1, <2>2, TakePairWalks
  <2>4. TypeInv'
    BY <1>t, <2>1, <2>3 DEF TypeInv
  <2>5. VersionInv'
    <3>1. Walked' = {}
      BY <1>1, <2>1, <2>3 DEF Walked, ScgiNames
    <3> QED BY <3>1 DEF VersionInv
  <2>6. ProgressInv' /\ ExitCodesAreTrue'
    BY <1>t, <1>5, <2>1, <2>3, ExitCodes
       DEF FirstPair, ProgressInv, ExitCodesAreTrue, LengthFirst
  <2> QED BY <2>3, <2>4, <2>5, <2>6 DEF IInv
<1> QED BY <1>4, <1>5

\* A further pair: if its name is the SCGI variable, it is the last so far.
LEMMA NextPairStep ==
  ASSUME IInv, NextPair
  PROVE  IInv'
<1>t. TypeInv /\ WalkInv /\ VersionInv /\ ProgressInv /\ ExitCodesAreTrue
  BY DEF IInv
<1>1. /\ pc = "pairs" /\ p <= Len(header) /\ TakePair
      /\ UNCHANGED <<header, wire, pc, exit_code, output>>
  BY DEF NextPair, inputVars, resultVars
<1>2. WalkInv' /\ new_env' \in Seq(Nat) /\ p' = p + 2
  BY <1>t, <1>1, TakePairWalks
<1>3. p \in Nat /\ p > 1 /\ p % 2 = 1 /\ Len(header) \in Nat
  BY <1>t, <1>1, HeaderInMemory DEF ProgressInv, WalkInv, TypeInv
<1>4. IsString(mem, joined, p, SCGI_NAME) <=> header[p] = SCGI_NAME
  <2>1. mem[p] = header[p]
    BY <1>t, <1>1, <1>3, HeaderInMemory
  <2> QED BY <1>t, <1>1, <1>3, <2>1, NameAtP
<1>5. TypeInv'
  BY <1>t, <1>1, <1>2 DEF TypeInv, NextPair, SumsToOne, VersionOf
<1>6. mem' = mem
  BY <1>1 DEF mem
<1>7. DOMAIN header = 1 .. Len(header)
  BY <1>t, HeaderInMemory
<1>8. VersionInv'
  <2>1. CASE header[p] = SCGI_NAME
    <3>1. (scgi_version' <=> SumsToOne(mem, p + 1)) \/ p = Len(header)
      <4>1. scgi_version' \in VersionOf(p + 1)
        BY <1>4, <2>1 DEF NextPair
      <4>2. ~(p + 1 <= Len(header)) => p = Len(header)
        BY <1>1, <1>3
      <4> QED BY <4>1, <4>2, Zenon DEF VersionOf
    <3>2. p \in Walked'
      BY <1>1, <1>2, <1>3, <1>7, <2>1 DEF Walked, ScgiNames
    <3>3. \A j \in Walked' : j <= p
      BY <1>1, <1>2, <1>3, <1>7 DEF Walked, ScgiNames
    <3> QED BY <1>1, <1>6, <3>1, <3>2, <3>3 DEF VersionInv
  <2>2. CASE header[p] # SCGI_NAME
    <3>1. scgi_version' = scgi_version
      BY <1>4, <2>2, Zenon DEF NextPair
    <3>2. Walked' = Walked
      BY <1>1, <1>2, <1>3, <1>7, <2>2 DEF Walked, ScgiNames
    <3> QED BY <1>t, <1>1, <1>6, <3>1, <3>2 DEF VersionInv
  <2> QED BY <2>1, <2>2
<1>9. ProgressInv' /\ ExitCodesAreTrue'
  BY <1>t, <1>1, <1>2, <1>3, ExitCodes
     DEF ProgressInv, ExitCodesAreTrue, LengthFirst
<1> QED BY <1>2, <1>5, <1>8, <1>9 DEF IInv

\* Behind the loop every SCGI variable of the header has been walked past.
LEMMA VersionAtEnd ==
  ASSUME IInv, pc \in {"pairs", "execle", "program"}, p > Len(header),
         ScgiNames(header) # {}
  PROVE  \/ LastScgiPasses(header) <=> scgi_version
         \/ Len(header) \in ScgiNames(header) /\ ~LastScgiPasses(header)
<1>1. Walked = ScgiNames(header)
  <2>1. DOMAIN header = 1 .. Len(header) /\ Len(header) \in Nat
    BY HeaderInMemory DEF IInv
  <2> QED BY <2>1 DEF Walked, ScgiNames, IInv, WalkInv, TypeInv
<1>2. PICK i \in ScgiNames(header) :
        /\ \A j \in ScgiNames(header) : j <= i
        /\ (scgi_version <=> SumsToOne(mem, i + 1)) \/ i = Len(header)
  BY <1>1 DEF IInv, VersionInv
<1>3. ASSUME i = Len(header)
      PROVE  ~LastScgiPasses(header)
  <2>1. i \in Nat /\ \A j \in ScgiNames(header) : j \in Nat
    <3>1. DOMAIN header = 1 .. Len(header)
      BY HeaderInMemory DEF IInv
    <3> QED BY <3>1 DEF ScgiNames
  <2>2. \A j \in ScgiNames(header) :
          (\A k \in ScgiNames(header) : k <= j) => ~(j < i)
    BY <2>1
  <2> QED BY <1>3, <2>2 DEF LastScgiPasses
<1> QED BY <1>2, <1>3, LastScgi DEF IInv

LEMMA CheckStep ==
  ASSUME IInv, Check
  PROVE  IInv'
<1>t. TypeInv /\ WalkInv /\ VersionInv /\ ProgressInv /\ ExitCodesAreTrue
  BY DEF IInv
<1>1. /\ pc = "pairs" /\ p > Len(header)
      /\ pc' \in {"exited", "execle"}
      /\ UNCHANGED <<header, wire, p, joined, new_env, scgi_version, output>>
  BY DEF Check, ExitWith, inputVars, envVars
<1>2. TypeInv' /\ WalkInv' /\ VersionInv'
  BY <1>t, <1>1, StandsStill
<1>3. exit_code = NoExit /\ output # "503" /\ p > 1 /\ LengthFirst(header)
  BY <1>t, <1>1 DEF ProgressInv
<1>4. CASE ~scgi_version
  <2>1. ~LastScgiPasses(header)
    <3>1. CASE ScgiNames(header) = {}
      BY <3>1 DEF LastScgiPasses
    <3>2. CASE ScgiNames(header) # {}
      BY <1>1, <1>4, <3>2, VersionAtEnd
    <3> QED BY <3>1, <3>2
  <2>2. ExitWith(RETVAL_INVALID_SCGI)
    BY <1>4 DEF Check
  <2>3. LastScgiPasses(header)' <=> LastScgiPasses(header)
    BY <1>1
  <2>4. ExitCodesAreTrue'
    BY <1>1, <1>3, <2>1, <2>2, <2>3, ExitCodes DEF ExitWith, ExitCodesAreTrue
  <2> QED BY <1>2, <2>2, <2>4 DEF IInv, ProgressInv, ExitWith
<1>5. CASE scgi_version /\ ~EnvFits
  <2>1. ExitWith(RETVAL_TOO_MANY_ENVS)
    BY <1>5 DEF Check
  <2>2. /\ Len(new_env) = (Len(header) + 1) \div 2
        /\ Len(new_env) >= MAX_ENV_COUNT
    <3>1. Len(header) \in Nat /\ Len(new_env) \in Nat
      BY <1>t, HeaderInMemory DEF TypeInv
    <3>2. MAX_ENV_COUNT <= Len(new_env)
      BY <1>5, <3>1, MaxAssumption DEF EnvFits
    <3>3. p = 2 * Len(new_env) + 1 /\ p <= Len(header) + 2
      BY <1>t DEF WalkInv
    <3>4. Len(new_env) = (Len(header) + 1) \div 2
      BY <1>1, <3>1, <3>3
    <3> QED BY <3>1, <3>2, <3>4, MaxAssumption
  <2>3. ExitCodesAreTrue'
    BY <1>1, <1>3, <2>1, <2>2, ExitCodes DEF ExitWith, ExitCodesAreTrue
  <2> QED BY <1>2, <2>1, <2>3 DEF IInv, ProgressInv, ExitWith
<1>6. CASE scgi_version /\ EnvFits
  <2>1. pc' = "execle" /\ UNCHANGED exit_code
    BY <1>6 DEF Check
  <2>2. ProgressInv' /\ ExitCodesAreTrue'
    BY <1>t, <1>1, <1>3, <1>6, <2>1, ExitCodes
       DEF ProgressInv, ExitCodesAreTrue, EnvFits, LengthFirst
  <2> QED BY <1>2, <2>2 DEF IInv
<1> QED BY <1>4, <1>5, <1>6

\* Only a header that is not pairs, or too many, leads main() outside its
\* buffer and its array.
LEMMA OnlyBadHeadersOverrun ==
  ASSUME TypeInv, WalkInv, Overruns
  PROVE  \/ header = <<>> \/ ~Paired(header)
         \/ Len(header) \div 2 >= MAX_ENV_COUNT
<1>1. /\ header \in Seq(STRING) /\ Len(header) \in Nat /\ Len(new_env) \in Nat
      /\ p = 2 * Len(new_env) + 1 /\ p <= Len(header) + 2
  BY HeaderInMemory DEF TypeInv, WalkInv
<1>2. CASE Len(header) < 2
  <2>1. CASE Len(header) = 0
    BY <1>1, <2>1, EmptySeq
  <2>2. CASE Len(header) = 1
    BY <2>2 DEF Paired
  <2> QED BY <1>1, <1>2, <2>1, <2>2
<1>3. CASE p = Len(header)
  BY <1>1, <1>3 DEF Paired
<1>4. CASE ~EnvFits
  <2>1. MAX_ENV_COUNT <= Len(new_env) /\ MAX_ENV_COUNT \in Nat
    BY <1>1, <1>4, MaxAssumption DEF EnvFits
  <2>2. 2 * Len(new_env) <= Len(header) + 1
    BY <1>1
  <2>3. Len(header) % 2 = 0 => Len(header) \div 2 >= MAX_ENV_COUNT
    BY <1>1, <2>1, <2>2
  <2> QED BY <2>3 DEF Paired
<1> QED BY <1>2, <1>3, <1>4 DEF Overruns

-----------------------------------------------------------------------------
\* The walk through the header, in every reachable state.
THEOREM WalkInvariant == Spec => []IInv
<1>1. Init => IInv
  <2> SUFFICES ASSUME Init PROVE IInv
    OBVIOUS
  <2>1. header \in Headers /\ wire \in Wires /\ pc = "scanf"
    BY DEF Init
  <2>2. new_env \in Seq(Nat) /\ Len(new_env) = 0
    BY EmptySeq DEF Init
  <2>3. TypeInv
    BY <2>1, <2>2 DEF Init, TypeInv
  <2>4. WalkInv
    <3>1. Len(header) \in Nat
      BY <2>3, HeaderInMemory
    <3>2. p = 1
      BY DEF Init
    <3>3. joined = {i \in 1 .. p - 1 : i % 2 = 1}
      <4>1. {i \in 1 .. p - 1 : i % 2 = 1} = {}
        BY <3>2
      <4> QED BY <4>1 DEF Init
    <3>4. \A k \in 1 .. Len(new_env) : new_env[k] = 2 * k - 1
      BY <2>2
    <3> QED BY <2>2, <3>1, <3>2, <3>3, <3>4 DEF WalkInv
  <2>5. VersionInv
    BY <2>1 DEF VersionInv
  <2>6. ProgressInv
    BY <2>1 DEF Init, ProgressInv
  <2>7. ExitCodesAreTrue
    <3>1. exit_code = -1 /\ output # "503"
      BY ExitCodes DEF Init
    <3> QED BY <2>1, <3>1, ExitCodes DEF ExitCodesAreTrue
  <2> QED BY <2>3, <2>4, <2>5, <2>6, <2>7 DEF IInv
<1>2. IInv /\ [Next]_vars => IInv'
  <2> SUFFICES ASSUME IInv, [Next]_vars PROVE IInv'
    OBVIOUS
  <2>t. TypeInv /\ WalkInv /\ VersionInv /\ ProgressInv /\ ExitCodesAreTrue
    BY DEF IInv
  <2>1. ASSUME ReadSize \/ ReadHeader
        PROVE  IInv'
    <3>1. /\ pc \in {"scanf", "fread"} /\ pc' \in {"fread", "first", "exited"}
          /\ UNCHANGED <<header, wire, p, joined, new_env, scgi_version, output>>
      BY <2>1 DEF ReadSize, ReadHeader, ExitWith, inputVars, envVars
    <3>2. TypeInv' /\ WalkInv' /\ VersionInv'
      BY <2>t, <3>1, StandsStill DEF ProgressInv
    <3>3. ProgressInv' /\ ExitCodesAreTrue'
      BY <2>t, <2>1, <3>1, ExitCodes
         DEF ReadSize, ReadHeader, ExitWith, ProgressInv, ExitCodesAreTrue,
             TypeInv
    <3> QED BY <3>2, <3>3 DEF IInv
  <2>2. ASSUME Overruns \/ Exec \/ ExecFails
        PROVE  IInv'
    <3>1. /\ pc \in {"first", "pairs", "execle"}
          /\ pc' \in {"crashed", "program", "exited"}
          /\ UNCHANGED <<header, wire, p, joined, new_env, scgi_version>>
      BY <2>2 DEF Overruns, Exec, ExecFails, ExitWith, inputVars, envVars
    <3>2. TypeInv' /\ WalkInv' /\ VersionInv'
      BY <2>t, <3>1, StandsStill DEF ProgressInv
    <3>4. pc' = "crashed" => \/ header = <<>> \/ ~Paired(header)
                             \/ Len(header) \div 2 >= MAX_ENV_COUNT
      BY <2>t, <2>2, OnlyBadHeadersOverrun DEF Overruns, Exec, ExecFails, ExitWith
    <3>5. Len(header) \div 2 = Len(header') \div 2 /\ Paired(header') = Paired(header)
      BY <3>1
    <3>6. ExitCodesAreTrue'
      BY <2>t, <2>2, <3>1, <3>4, <3>5, ExitCodes
         DEF Overruns, Exec, ExecFails, ExitWith, ProgressInv, resultVars,
             ExitCodesAreTrue, LengthFirst
    <3>3. ProgressInv' /\ ExitCodesAreTrue'
      BY <2>t, <2>2, <3>1, <3>6, ExitCodes
         DEF Overruns, Exec, ExecFails, ExitWith, ProgressInv, resultVars,
             ExitCodesAreTrue, EnvFits, LengthFirst
    <3> QED BY <3>2, <3>3 DEF IInv
  <2>3. CASE UNCHANGED vars
    <3>1. UNCHANGED <<header, wire, pc, p, joined, new_env, scgi_version,
                      exit_code, output>>
      BY <2>3 DEF vars
    <3> QED
      BY <3>1 DEF IInv, TypeInv, WalkInv, VersionInv, Walked, mem, ProgressInv,
                  ExitCodesAreTrue, EnvFits
  <2> QED
    BY <2>1, <2>2, <2>3, FirstPairStep, NextPairStep, CheckStep
       DEF Next, main
<1> QED BY <1>1, <1>2, PTL DEF Spec

\* A pair of the header is one C string, once its name has been walked past.
LEMMA PairIsOneString ==
  ASSUME TypeInv, WalkInv, p > Len(header), NEW k \in DOMAIN Pairs(header)
  PROVE  CString(mem, joined, new_env[k]) = Pairs(header)[k]
<1>1. p > Len(header)
  OBVIOUS
<1>2. Len(header) \in Nat /\ Len(new_env) \in Nat
  BY HeaderInMemory DEF TypeInv
<1>3. k \in 1 .. (Len(header) \div 2)
  BY DEF Pairs
<1>4. k \in Nat /\ 1 <= k /\ 2 * k <= Len(header)
  BY <1>2, <1>3
<1>5. k \in 1 .. Len(new_env)
  BY <1>1, <1>2, <1>4 DEF WalkInv
<1>6. new_env[k] = 2 * k - 1
  BY <1>5 DEF WalkInv
<1>7. 2 * k - 1 \in joined /\ 2 * k \notin joined
  BY <1>1, <1>2, <1>4 DEF WalkInv
<1>8. /\ mem \in Seq(STRING \cup {Overrun})
      /\ 2 * k - 1 \in 1 .. Len(mem) /\ 2 * k <= Len(mem)
  BY <1>2, <1>4, HeaderInMemory
<1>9. CString(mem, joined, 2 * k - 1) = <<mem[2 * k - 1], mem[2 * k]>>
  <2> DEFINE i == 2 * k - 1
  <2>1. i + 1 = 2 * k
    BY <1>4
  <2> HIDE DEF i
  <2>2. CString(mem, joined, i) = <<mem[i], mem[i + 1]>>
    BY <1>7, <1>8, <2>1, CStringJoined DEF i
  <2> QED BY <2>1, <2>2 DEF i
<1>10. mem[2 * k - 1] = header[2 * k - 1] /\ mem[2 * k] = header[2 * k]
  BY <1>2, <1>4, HeaderInMemory
<1> QED BY <1>1, <1>3, <1>6, <1>9, <1>10 DEF Pairs

\* A name without a value, behind the pairs, makes a string with the comma.
LEMMA LastNameOverruns ==
  ASSUME TypeInv, WalkInv, p > Len(header), ~Paired(header),
         Len(new_env) = (Len(header) + 1) \div 2
  PROVE  CString(mem, joined, new_env[Len(new_env)])
           = <<header[Len(header)], Overrun>>
<1>1. Len(header) \in Nat /\ Len(new_env) \in Nat
  BY HeaderInMemory DEF TypeInv
<1> DEFINE i == Len(header)
<1>2. i % 2 = 1 /\ i \in 1 .. Len(header) /\ 2 * Len(new_env) - 1 = i
  BY <1>1 DEF Paired
<1>3. Len(new_env) \in 1 .. Len(new_env)
  BY <1>1, <1>2
<1>4. new_env[Len(new_env)] = i
  BY <1>2, <1>3 DEF WalkInv
<1>5. i \in joined /\ i + 1 \notin joined
  BY <1>1, <1>2 DEF WalkInv
<1>6. /\ mem \in Seq(STRING \cup {Overrun})
      /\ i \in 1 .. Len(mem) /\ i + 1 <= Len(mem)
      /\ mem[i] = header[i] /\ mem[i + 1] = Overrun
  BY <1>1, <1>2, HeaderInMemory
<1> HIDE DEF i
<1>7. CString(mem, joined, i) = <<mem[i], mem[i + 1]>>
  BY <1>5, <1>6, CStringJoined
<1> QED BY <1>4, <1>6, <1>7, Zenon DEF i

\* The program that is executed has an environment of the pairs of the header
\* and of nothing else but, if the header ends with a name, that name and what
\* lies behind: for every header and every size of new_env[].
THEOREM EnvIsThePairsTheorem == Spec => []EnvIsThePairs
<1>1. IInv => EnvIsThePairs
  <2> SUFFICES ASSUME IInv, pc \in {"execle", "program"}
               PROVE  EnvIsThePairs
    BY DEF EnvIsThePairs
  <2>t. TypeInv /\ WalkInv /\ ProgressInv
    BY DEF IInv
  <2>1. Len(new_env) < MAX_ENV_COUNT /\ p > Len(header)
    BY <2>t DEF ProgressInv, EnvFits
  <2>2. Len(header) \in Nat /\ Len(new_env) \in Nat
    BY <2>t, HeaderInMemory DEF TypeInv
  <2>3. Len(new_env) = (Len(header) + 1) \div 2
    <3>1. p = 2 * Len(new_env) + 1 /\ p <= Len(header) + 2
      BY <2>t DEF WalkInv
    <3> QED BY <2>1, <2>2, <3>1
  <2>4. ASSUME NEW k \in DOMAIN Pairs(header)
        PROVE  CString(mem, joined, new_env[k]) = Pairs(header)[k]
    BY <2>t, <2>1, <2>2, <2>4, PairIsOneString
  <2>5. ASSUME ~Paired(header)
        PROVE  CString(mem, joined, new_env[Len(new_env)])
                 = <<header[Len(header)], Overrun>>
    BY <2>t, <2>1, <2>2, <2>3, <2>5, LastNameOverruns
  <2> QED BY <2>1, <2>3, <2>4, <2>5 DEF EnvIsThePairs
<1> QED BY <1>1, WalkInvariant, PTL

\* The length comes first in every request the program is executed for, and
\* the last SCGI variable, if it has a value, passes for one: for all values
\* and names whose bytes have that sum.
THEOREM OnlyCompliantRequestsTheorem == Spec => []OnlyCompliantRequests
<1>1. IInv => OnlyCompliantRequests
  BY VersionAtEnd DEF OnlyCompliantRequests, IInv, ProgressInv
<1> QED BY <1>1, WalkInvariant, PTL

\* No exit code lies about the request, and the 503 response and the code of a
\* failed execle() go together.
THEOREM ExitCodesAreTrueTheorem == Spec => []ExitCodesAreTrue
<1>1. IInv => ExitCodesAreTrue
  BY DEF IInv
<1> QED BY <1>1, WalkInvariant, PTL
=============================================================================
