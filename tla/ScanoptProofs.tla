--------------------------- MODULE ScanoptProofs ----------------------------
(***************************************************************************)
(* Theorems about the option scanner, for every list of options, command   *)
(* line and environment.                                                   *)
(***************************************************************************)
EXTENDS Scanopt, SequenceTheorems, TLAPS

\* What a list of options is, and what does not change while it is scanned.
ListOK ==
  /\ names \in Seq(OptionNames)
  /\ args \in Seq(Arguments)
  /\ env \in [Ids -> Int]
  /\ onDup \in {"overwrite", "ignore", "append", "error"}
  /\ DOMAIN assigned = Ids

\* An option counts its uses under any of its names; the environment counts
\* as one where there are none.
Counted ==
  ~Crashed =>
    \A i \in Ids :
      /\ seen[i] # <<>> => options[i].count = Len(seen[i])
      /\ options[i].count > 0 =>
           seen[i] # <<>> \/ (phase \in {"next", "done"} /\ env[i] # NULL)

\* The working data of an option are those of the use that counts.
HoldsTheUse(i) ==
  IF names[i].arg = "none"
  THEN names[i].val \in {"set", "unset"} =>
         options[i].iVal = Meaning(i, UseThatCounts(i))
  ELSE options[i].optarg = Meaning(i, UseThatCounts(i))

Held ==
  ~Crashed =>
    \A i \in Ids : IsRoot(i) /\ options[i].count > 0 => HoldsTheUse(i)

\* What is in argArray[] of an option that appends, until there is no room for
\* a further text and when there is none.
Kept(i, p) ==
  IF seen[i] = <<>> THEN NULL
  ELSE IF p = 0 THEN TextOfUse(i, 1)
  ELSE IF p \in 2..Len(seen[i]) THEN seen[i][p].value ELSE NULL

Appended ==
    \A i \in Ids :
      names[i].dup = "append" /\ (seen[i] # <<>> \/ options[i].count = 0)
        /\ (Crashed => Len(seen[i]) = SO_DUP_MAX) =>
        \A p \in 0..SO_DUP_MAX : options[i].argArray[p] = Kept(i, p)

\* A required argument is left out only under a name that takes none.
RequiredArguments ==
  \A i \in Ids : \A k \in DOMAIN seen[i] :
    names[i].arg = "required" /\ seen[i][k].value = NULL =>
      ~IsRoot(seen[i][k].opt)

\* A synonym or a complement is a name of what is no basic option.
Loose == \E j \in Ids : ~HasRoot(j)

\* Only in such a list does a use count for a synonym or a complement; and after
\* the use that finds no room there is no other.
SeenUses ==
  \A i \in Ids :
    /\ ~IsRoot(i) /\ seen[i] # <<>> => Loose
    /\ names[i].dup = "append" => Len(seen[i]) <= SO_DUP_MAX

\* Before scanopt_next is called no variable is assigned; the options before
\* the cursor are those that have been handed out.
ToHandOut(i) == options[i].count > 0 \/ (IsRoot(i) /\ env[i] # NULL)

Before == {"new", "refused", "scan", "scanned"}

HandedOut ==
  /\ phase \in Before =>
       current_index = 1 /\ \A i \in Ids : assigned[i] = <<>>
  /\ phase \in {"next", "done"} =>
       \A i \in Ids :
         assigned[i] # <<>> <=> i < current_index /\ ToHandOut(i)
  /\ phase = "done" => current_index = Len(names) + 2

Validated == validated => \A i \in Ids : Acceptable(i)

ScanInv ==
  /\ TypeOK /\ ListOK
  /\ Counted /\ Held /\ Appended /\ RequiredArguments /\ SeenUses
  /\ HandedOut /\ Validated
  /\ RightUseCounts /\ ValidatedNeverStops

-----------------------------------------------------------------------------
\* What the steps are built from.

OptionData ==
  [count : Nat, optarg : Int, iVal : Int, argArray : [0..SO_DUP_MAX -> Int]]

\* The list does not change.
LEMMA SameList ==
  ASSUME UNCHANGED names
  PROVE  /\ Ids' = Ids /\ Loose' = Loose
         /\ \A i : /\ IsRoot(i)' = IsRoot(i) /\ HasRoot(i)' = HasRoot(i)
                   /\ HasMeaning(i)' = HasMeaning(i)
                   /\ ArgType(i)' = ArgType(i) /\ Acceptable(i)' = Acceptable(i)
                   /\ \A u : /\ Given(i, u)' = Given(i, u)
                             /\ Meaning(i, u)' = Meaning(i, u)
<1>1. Ids' = Ids /\ \A i : IsRoot(i)' = IsRoot(i)
  BY DEF Ids, IsRoot
<1>2. \A i : HasRoot(i)' = HasRoot(i)
  BY <1>1 DEF HasRoot, IsRoot
<1>3. \A i : ArgType(i)' = ArgType(i)
  BY DEF ArgType, IsRoot
<1>4. \A i, u : Given(i, u)' = Given(i, u)
  BY <1>3 DEF Given
<1>5. \A i : Acceptable(i)' = Acceptable(i)
  BY <1>3 DEF Acceptable
<1>6. \A i, u : Meaning(i, u)' = Meaning(i, u)
  BY <1>4 DEF Meaning, Complements, Direct
<1>7. \A i : HasMeaning(i)' = HasMeaning(i)
  BY <1>1 DEF HasMeaning
<1>8. Loose' = Loose
  BY <1>1, <1>2 DEF Loose
<1> QED BY <1>1, <1>2, <1>3, <1>4, <1>5, <1>6, <1>7, <1>8

LEMMA NamesType ==
  ASSUME ListOK, NEW i \in Ids
  PROVE  names[i] \in OptionNames
BY DEF ListOK, Ids

LEMMA GivenType ==
  ASSUME ListOK, NEW i \in Ids, NEW value \in Int
  PROVE  Given(i, value) \in Int
<1>1. names[i].default \in Int
  BY NamesType DEF OptionNames
<1> QED BY <1>1 DEF Given

LEMMA FlagType ==
  ASSUME NEW val, NEW complement
  PROVE  Flag(val, complement) \in Int
BY DEF Flag

\* The argument type of a basic option.
LEMMA RootArgType ==
  ASSUME NEW i, IsRoot(i)
  PROVE  ArgType(i) = names[i].arg
BY DEF ArgType

\* What define_option makes of one use.
LEMMA DefinedIs ==
  ASSUME ListOK, NEW i \in Ids, NEW o \in OptionData,
         NEW complement \in BOOLEAN, NEW value \in Int
  PROVE  LET d == Defined(o, i, complement, value)
         IN  /\ d \in OptionData /\ d.count = o.count
             /\ ArgType(i) # "none" => d.optarg = Given(i, value)
             /\ ArgType(i) = "none" /\ names[i].val \in {"set", "unset"} =>
                  d.iVal = Flag(names[i].val, complement)
             /\ names[i].dup = "append" =>
                  d.argArray = [o.argArray EXCEPT ![0] = Given(i, value)]
<1> DEFINE n == names[i]
           a == ArgType(i)
           v == Given(i, value)
           f == Flag(n.val, complement)
           c == CASE a = "none" /\ n.val \in {"set", "unset"} ->
                       [o EXCEPT !.optarg = f, !.iVal = f]
                  [] a = "none" /\ n.val = "count" ->
                       [o EXCEPT !.iVal = o.optarg + 1]
                  [] a = "none" /\ n.val \notin {"set", "unset", "count"} -> o
                  [] a # "none" ->
                       [o EXCEPT !.optarg = v,
                                 !.iVal = IF n.val = "count" THEN @ + v ELSE @]
           d == IF n.dup = "append" THEN [c EXCEPT !.argArray[0] = v] ELSE c
<1>1. v \in Int /\ f \in Int
  BY GivenType, FlagType
<1>2. d = Defined(o, i, complement, value)
  BY DEF Defined
<1> HIDE DEF a
<1>3. /\ c \in OptionData /\ c.count = o.count /\ c.argArray = o.argArray
      /\ a # "none" => c.optarg = v
      /\ a = "none" /\ n.val \in {"set", "unset"} => c.iVal = f
  <2> HIDE DEF n, v, f
  <2>1. CASE a = "none" /\ n.val \in {"set", "unset"}
    <3>1. c = [o EXCEPT !.optarg = f, !.iVal = f]
      BY <2>1
    <3> HIDE DEF c
    <3> QED BY <1>1, <2>1, <3>1 DEF OptionData
  <2>2. CASE a = "none" /\ n.val = "count"
    <3>1. c = [o EXCEPT !.iVal = o.optarg + 1]
      BY <2>2
    <3>2. o.optarg + 1 \in Int
      BY DEF OptionData
    <3> HIDE DEF c
    <3> QED BY <2>2, <3>1, <3>2 DEF OptionData
  <2>3. CASE a = "none" /\ n.val \notin {"set", "unset", "count"}
    <3>1. c = o
      BY <2>3
    <3> HIDE DEF c
    <3> QED BY <2>3, <3>1
  <2>4. CASE a # "none"
    <3> DEFINE k == IF n.val = "count" THEN o.iVal + v ELSE o.iVal
    <3>1. c = [o EXCEPT !.optarg = v, !.iVal = k]
      BY <2>4
    <3>2. k \in Int
      BY <1>1 DEF OptionData
    <3> HIDE DEF c, k
    <3> QED BY <1>1, <2>4, <3>1, <3>2 DEF OptionData
  <2> QED BY <2>1, <2>2, <2>3, <2>4
<1> HIDE DEF c, n, v, f
<1>5. /\ d \in OptionData /\ d.count = c.count /\ d.optarg = c.optarg
      /\ d.iVal = c.iVal
      /\ n.dup = "append" => d.argArray = [c.argArray EXCEPT ![0] = v]
  BY <1>1, <1>3 DEF OptionData
<1> QED BY <1>2, <1>3, <1>5 DEF n, v, f, a

Modes == {"overwrite", "ignore", "append", "error"}

LEMMA DupModeType ==
  ASSUME ListOK, NEW i \in Ids
  PROVE  /\ DupMode(i) \in Modes
         /\ names[i].dup = "append" => DupMode(i) = "append"
<1>1. names[i].dup \in {"default", "overwrite", "ignore", "append", "error"}
  BY NamesType DEF OptionNames
<1> QED BY <1>1 DEF ListOK, DupMode, Modes

\* What one more use makes of an option.
LEMMA UsedIs ==
  ASSUME ListOK, NEW i \in Ids, options[i] \in OptionData,
         NEW complement \in BOOLEAN, NEW value \in Int
  PROVE  LET o == options[i]
             u == Used(i, complement, value)
         IN  /\ u \in OptionData /\ u.count = o.count + 1
             /\ o.count = 0 \/ DupMode(i) = "overwrite" =>
                  /\ ArgType(i) # "none" => u.optarg = Given(i, value)
                  /\ ArgType(i) = "none" /\ names[i].val \in {"set", "unset"} =>
                       u.iVal = Flag(names[i].val, complement)
                  /\ names[i].dup = "append" =>
                       u.argArray = [o.argArray EXCEPT ![0] = Given(i, value)]
             /\ o.count > 0 /\ DupMode(i) # "overwrite" =>
                  u.optarg = o.optarg /\ u.iVal = o.iVal
             /\ o.count > 0 /\ names[i].dup = "append" =>
                  u.argArray = [o.argArray EXCEPT ![o.count + 1] = value]
<1> DEFINE o == options[i]
           n == o.count + 1
           p == [o EXCEPT !.count = @ + 1]
           u == Used(i, complement, value)
<1>1. o.count \in Nat /\ n \in Nat /\ p \in OptionData /\ p.count = n
      /\ p.optarg = o.optarg /\ p.iVal = o.iVal /\ p.argArray = o.argArray
  BY DEF OptionData
<1>2. n = 1 <=> o.count = 0
  BY <1>1
<1>3. n > 1 <=> o.count > 0
  BY <1>1
<1>4. DupMode(i) \in Modes /\ (names[i].dup = "append" => DupMode(i) = "append")
  BY DupModeType
<1>5. CASE o.count = 0 \/ DupMode(i) = "overwrite"
  <2>1. u = Defined(p, i, complement, value)
    BY <1>1, <1>2, <1>5 DEF Used
  <2>2. o.count = 0 \/ names[i].dup # "append"
    BY <1>4, <1>5
  <2> HIDE DEF p, u
  <2>3. /\ u \in OptionData /\ u.count = p.count
        /\ ArgType(i) # "none" => u.optarg = Given(i, value)
        /\ ArgType(i) = "none" /\ names[i].val \in {"set", "unset"} =>
             u.iVal = Flag(names[i].val, complement)
        /\ names[i].dup = "append" =>
             u.argArray = [p.argArray EXCEPT ![0] = Given(i, value)]
    BY <1>1, <2>1, DefinedIs
  <2> QED BY <1>1, <1>5, <2>2, <2>3 DEF u
<1>6. CASE o.count > 0 /\ DupMode(i) \in {"ignore", "error"}
  <2>1. u = p
    BY <1>1, <1>2, <1>3, <1>6 DEF Used
  <2>2. names[i].dup # "append"
    BY <1>4, <1>6
  <2> HIDE DEF p, u
  <2> QED BY <1>1, <1>2, <1>6, <2>1, <2>2 DEF u
<1>7. CASE o.count > 0 /\ DupMode(i) = "append"
  <2>1. u = [p EXCEPT !.argArray[p.count] = value]
    BY <1>1, <1>2, <1>3, <1>7 DEF Used
  <2> HIDE DEF p, u
  <2>2. /\ u \in OptionData /\ u.count = n
        /\ u.optarg = p.optarg /\ u.iVal = p.iVal
        /\ u.argArray = [p.argArray EXCEPT ![n] = value]
    BY <1>1, <2>1 DEF OptionData
  <2> QED BY <1>1, <1>2, <1>7, <2>2 DEF u
<1> QED BY <1>1, <1>4, <1>5, <1>6, <1>7 DEF Modes

Use == [opt : Ids, value : Int]

\* One more use in the history of option r.
LEMMA SeenAfter ==
  ASSUME seen \in [Ids -> Seq(Use)], NEW r \in Ids, NEW u \in Use,
         seen' = [seen EXCEPT ![r] = Append(@, u)]
  PROVE  /\ seen' \in [Ids -> Seq(Use)]
         /\ \A j \in Ids \ {r} : seen'[j] = seen[j]
         /\ Len(seen[r]) \in Nat /\ (Len(seen[r]) = 0 <=> seen[r] = <<>>)
         /\ DOMAIN seen[r] = 1..Len(seen[r])
         /\ DOMAIN seen'[r] = 1..(Len(seen[r]) + 1)
         /\ seen'[r] # <<>> /\ Len(seen'[r]) = Len(seen[r]) + 1
         /\ \A k \in 1..Len(seen[r]) : seen'[r][k] = seen[r][k]
         /\ seen'[r][Len(seen[r]) + 1] = u
         /\ Last(seen'[r]) = u
         /\ Head(seen'[r]) = IF seen[r] = <<>> THEN u ELSE Head(seen[r])
<1> DEFINE s == seen[r]
           t == Append(s, u)
<1>1. s \in Seq(Use)
  OBVIOUS
<1>2. seen'[r] = t /\ \A j \in Ids \ {r} : seen'[j] = seen[j]
  OBVIOUS
<1>3. /\ t \in Seq(Use) /\ t # <<>> /\ Len(t) = Len(s) + 1
      /\ \A k \in 1..Len(s) : t[k] = s[k]
      /\ t[Len(s) + 1] = u
  BY <1>1, AppendProperties
<1>4. seen' \in [Ids -> Seq(Use)]
  BY <1>3
<1>5. Len(s) \in Nat /\ DOMAIN s = 1..Len(s) /\ (Len(s) = 0 <=> s = <<>>)
  BY <1>1, LenProperties, EmptySeq
<1>6. DOMAIN t = 1..(Len(s) + 1)
  BY <1>3, LenProperties
<1> HIDE DEF s, t
<1>7. Last(t) = u
  BY <1>3 DEF Last
<1>8. Head(t) = IF s = <<>> THEN u ELSE Head(s)
  <2>1. Head(t) = t[1]
    BY <1>3, HeadTailProperties
  <2>2. CASE s = <<>>
    BY <1>3, <1>5, <2>1, <2>2
  <2>3. CASE s # <<>>
    <3>1. Head(s) = s[1] /\ 1 \in 1..Len(s)
      BY <1>1, <1>5, <2>3, HeadTailProperties
    <3> QED BY <1>3, <2>1, <2>3, <3>1
  <2> QED BY <2>2, <2>3
<1> QED BY <1>2, <1>3, <1>4, <1>5, <1>6, <1>7, <1>8 DEF s

-----------------------------------------------------------------------------
\* One action after the other.

\* find_id fails, or the assert, only in a loose list.
LEMMA NotReached ==
  ASSUME ListOK, NEW i \in Ids, ~Reached(i)
  PROVE  Loose
<1>1. CASE names[i].kind # "syn"
  <2>1. Direct(i) = i /\ Item(i) \notin Ids
    BY <1>1 DEF Reached, Direct
  <2>2. names[i].kind = "comp" /\ names[i].root \notin Ids
    BY <2>1 DEF Item, Complements
  <2> QED BY <2>2 DEF Loose, HasRoot, IsRoot
<1>2. CASE names[i].kind = "syn"
  <2>1. Direct(i) = names[i].root
    BY <1>2 DEF Direct
  <2>2. CASE names[i].root \notin Ids \/ ~IsRoot(names[i].root)
    BY <1>2, <2>2 DEF Loose, HasRoot, IsRoot
  <2>3. CASE names[i].root \in Ids /\ IsRoot(names[i].root)
    <3>1. Item(i) = Direct(i)
      BY <2>1, <2>3 DEF Item, Complements, IsRoot
    <3> QED BY <2>1, <2>3, <3>1 DEF Reached, IsRoot
  <2> QED BY <2>2, <2>3
<1> QED BY <1>1, <1>2

\* The option a name stands for.
LEMMA ItemIs ==
  ASSUME ListOK, NEW i \in Ids, Reached(i)
  PROVE  /\ Item(i) \in Ids
         /\ IsRoot(i) => Item(i) = i
         /\ ~IsRoot(Item(i)) => Loose
<1>1. Item(i) \in Ids /\ Direct(i) \in Ids /\ names[Direct(i)].kind # "syn"
  BY DEF Reached
<1>2. IsRoot(i) => Item(i) = i
  BY DEF IsRoot, Item, Direct, Complements
<1>3. ASSUME ~IsRoot(Item(i)) PROVE Loose
  <2>1. names[Direct(i)].kind \in {"root", "syn", "comp"}
    BY <1>1, NamesType DEF OptionNames
  <2>2. CASE names[Direct(i)].kind = "comp"
    <3>1. Item(i) = names[Direct(i)].root
      BY <2>2 DEF Item, Complements
    <3> QED BY <1>1, <1>3, <2>2, <3>1 DEF Loose, HasRoot, IsRoot
  <2>3. CASE names[Direct(i)].kind = "root"
    <3>1. Item(i) = Direct(i)
      BY <2>3 DEF Item, Complements
    <3> QED BY <1>3, <2>3, <3>1 DEF IsRoot
  <2> QED BY <1>1, <2>1, <2>2, <2>3
<1> QED BY <1>1, <1>2, <1>3

\* The arguments of the reasons to stop.
LEMMA LooseIsAReason ==
  ASSUME Loose, UNCHANGED names
  PROVE  ValidatedNeverStops'
BY SameList DEF Loose, ValidatedNeverStops

\* getopt_long has returned an option: a program that stops there says why.
LEMMA TakeStops ==
  ASSUME ScanInv, phase = "scan", NEW i \in Ids, NEW value \in Int,
         IsRoot(i) /\ names[i].arg = "required" => value # NULL,
         Reached(i), NEW r, r = Item(i),
         UNCHANGED <<names, validated, env, onDup>>,
         seen' = [seen EXCEPT ![r] = Append(@, [opt |-> i, value |-> value])],
         Overflows(r) \/ Undefinable(r, value), validated
  PROVE  ValidatedNeverStops'
<1>0. r \in Ids /\ (IsRoot(i) => r = i) /\ (~IsRoot(r) => Loose)
  BY ItemIs DEF ScanInv
<1>1. /\ Len(seen[r]) \in Nat /\ DOMAIN seen'[r] = 1..(Len(seen[r]) + 1)
      /\ Len(seen'[r]) = Len(seen[r]) + 1
      /\ seen'[r][Len(seen[r]) + 1] = [opt |-> i, value |-> value]
  BY <1>0, SeenAfter DEF ScanInv, TypeOK, Use
<1>3. CASE Overflows(r)
  <2>1. options[r].count > 0 /\ options[r].count \in Nat
    BY <1>0, <1>3 DEF Overflows, Appends, ScanInv, TypeOK
  <2>2. options[r].count = Len(seen[r])
    <3>1. seen[r] # <<>>
      BY <1>0, <2>1 DEF ScanInv, Counted, Crashed
    <3> QED BY <1>0, <3>1 DEF ScanInv, Counted, Crashed
  <2>3. Len(seen'[r]) >= SO_DUP_MAX /\ DupMode(r)' = "append" /\ r \in Ids'
    BY <1>0, <1>1, <1>3, <2>2 DEF Overflows, Appends, DupMode, Ids
  <2> QED BY <2>3 DEF ValidatedNeverStops
<1>l. CASE Loose
  BY <1>l, LooseIsAReason
<1>4. CASE IsRoot(r) /\ Undefinable(r, value)
  <2>0. ArgType(r) = names[r].arg /\ names[r].arg \in {"none", "required", "optional"}
    BY <1>0, <1>4, RootArgType, NamesType DEF ScanInv, OptionNames
  <2>a. ConvertsNull(r, value)
    BY <1>4, <2>0 DEF Undefinable
  <2>b. Acceptable(r)
    BY <1>0 DEF ScanInv, Validated
  <2>1. names[r].val = "count" /\ names[r].arg # "none"
    BY <2>0, <2>a, <2>b DEF ConvertsNull, Acceptable
  <2>2. Given(r, value) = NULL
    BY <2>0, <2>1, <2>a DEF ConvertsNull
  <2> DEFINE k == Len(seen[r]) + 1
  <2>5. k \in DOMAIN seen'[r] /\ seen'[r][k].value = value
        /\ seen'[r][k].opt = i /\ r \in Ids'
    BY <1>0, <1>1 DEF Ids
  <2> HIDE DEF k
  <2>6. CASE names[r].arg = "optional"
    <3>1. value = NULL /\ names[r].default = NULL
      BY <2>0, <2>2, <2>6 DEF Given
    <3> QED BY <2>5, <2>6, <3>1 DEF ValidatedNeverStops
  <2>7. CASE names[r].arg = "required"
    <3>1. value = NULL
      BY <2>0, <2>2, <2>7 DEF Given
    <3>2. ~IsRoot(i)
      BY <1>0, <2>7, <3>1
    <3>3. ~IsRoot(i)'
      BY <3>2 DEF IsRoot
    <3> QED BY <2>5, <2>7, <3>1, <3>3 DEF ValidatedNeverStops, IsRoot
  <2> QED BY <2>0, <2>1, <2>6, <2>7
<1> QED BY <1>0, <1>3, <1>l, <1>4

\* Before the program stops, every use of an option has room.
LEMMA NoneFull ==
  ASSUME ScanInv, ~Crashed, NEW i \in Ids, names[i].dup = "append"
  PROVE  Len(seen[i]) # SO_DUP_MAX /\ Len(seen[i]) < SO_DUP_MAX
<1>1. DupMode(i) = "append" /\ options[i].count < SO_DUP_MAX
  BY DupModeType DEF ScanInv, TypeOK
<1>2. CASE seen[i] = <<>>
  BY <1>2, EmptySeq, DupMaxAssumption
<1>3. CASE seen[i] # <<>>
  <2>1. options[i].count = Len(seen[i])
    BY <1>3 DEF ScanInv, Counted
  <2>2. options[i].count \in Nat
    BY DEF ScanInv, TypeOK
  <2> QED BY <1>1, <2>1, <2>2, DupMaxAssumption
<1> QED BY <1>2, <1>3

LEMMA StopsBetweenUses ==
  ASSUME ScanInv, ~Crashed, phase' \in {"stopped", "corrupt"},
         UNCHANGED <<names, seen>>
  PROVE  Appended'
<1>1. Ids' = Ids /\ Crashed'
  BY SameList DEF Crashed
<1>2. \A i \in Ids : names[i].dup = "append" => Len(seen[i]) # SO_DUP_MAX
  BY NoneFull
<1> QED BY <1>1, <1>2 DEF Appended


\* The scan stops: what the options were does not matter any more.
LEMMA Stopping ==
  ASSUME ScanInv, phase' \in {"stopped", "corrupt"},
         options' \in [Ids -> OptionData],
         seen' \in [Ids -> Seq(Use)],
         Appended', RequiredArguments', SeenUses', ValidatedNeverStops',
         args' \in Seq(Arguments), current_index' \in 1..(Len(names) + 2),
         \A i \in Ids : assigned[i] # <<>> => seen'[i] = seen[i],
         UNCHANGED <<names, validated, onDup, env, assigned, current>>
  PROVE  ScanInv'
<1>1. Ids' = Ids
  BY SameList
<1>2. TypeOK'
  BY <1>1 DEF ScanInv, TypeOK, OptionData, Use, Crashed
<1>3. ListOK'
  BY <1>1 DEF ScanInv, ListOK
<1>4. Counted' /\ Held'
  BY DEF Counted, Held, Crashed
<1>5. HandedOut'
  BY DEF HandedOut, Before
<1>6. Validated'
  BY SameList DEF ScanInv, Validated
<1>7. RightUseCounts'
  <2> SUFFICES ASSUME NEW i \in Ids, HasMeaning(i), assigned[i] # <<>>
               PROVE  assigned[i][1] = Meaning(i, UseThatCounts(i))'
    BY <1>1, SameList DEF RightUseCounts
  <2>1. UseThatCounts(i)' = UseThatCounts(i)
    BY DEF UseThatCounts, DupMode
  <2>2. Meaning(i, UseThatCounts(i))' = Meaning(i, UseThatCounts(i))
    BY <2>1, SameList
  <2> QED BY <2>2 DEF ScanInv, RightUseCounts
<1> QED BY <1>2, <1>3, <1>4, <1>5, <1>6, <1>7 DEF ScanInv

LEMMA TakeStep ==
  ASSUME ScanInv, phase = "scan", NEW i \in Ids, NEW value \in Int,
         NEW rest \in Seq(Arguments),
         IsRoot(i) /\ names[i].arg = "required" => value # NULL,
         Take(i, value, rest)
  PROVE  ScanInv'
<1> DEFINE u == [opt |-> i, value |-> value]
           complement == Complements(i)
<1>0. /\ UNCHANGED <<names, validated, onDup, env, current_index, assigned,
                     current>>
      /\ args' = rest /\ Ids' = Ids
      /\ \A j \in Ids : assigned[j] = <<>>
      /\ current_index' \in 1..(Len(names) + 2)
  BY SameList DEF Take, listVars, ScanInv, HandedOut, Before, TypeOK
<1>a. CASE ~Reached(i)
  <2>1. phase' = "stopped" /\ UNCHANGED <<seen, options>>
    BY <1>a DEF Take
  <2>2. ValidatedNeverStops'
    BY <1>0, <1>a, NotReached, LooseIsAReason DEF ScanInv
  <2>3. RequiredArguments' /\ SeenUses'
    BY <1>0, <2>1, SameList DEF ScanInv, RequiredArguments, SeenUses
  <2>4. /\ options' \in [Ids -> OptionData] /\ seen' \in [Ids -> Seq(Use)]
    BY <2>1 DEF ScanInv, TypeOK, OptionData, Use
  <2>5. Appended'
    BY <1>0, <2>1, StopsBetweenUses DEF Crashed
  <2> QED BY <1>0, <2>1, <2>2, <2>3, <2>4, <2>5, Stopping
<1>b. CASE Reached(i)
  <2>r. PICK r : r = Item(i)
    OBVIOUS
  <2>1. r \in Ids /\ (IsRoot(i) => r = i) /\ (~IsRoot(r) => Loose)
    BY <1>b, <2>r, ItemIs DEF ScanInv
  <2>2. TakeFor(r, i, value)
    BY <1>b, <2>r DEF Take
  <2>3. seen' = [seen EXCEPT ![r] = Append(@, u)]
    BY <2>2 DEF TakeFor
  <2>4. u \in Use /\ seen \in [Ids -> Seq(Use)] /\ u.opt = i /\ u.value = value
    BY DEF Use, ScanInv, TypeOK
  <2> HIDE DEF u
  <2>5. /\ seen' \in [Ids -> Seq(Use)]
        /\ \A j \in Ids \ {r} : seen'[j] = seen[j]
        /\ Len(seen[r]) \in Nat /\ (Len(seen[r]) = 0 <=> seen[r] = <<>>)
        /\ DOMAIN seen[r] = 1..Len(seen[r])
        /\ DOMAIN seen'[r] = 1..(Len(seen[r]) + 1)
        /\ seen'[r] # <<>> /\ Len(seen'[r]) = Len(seen[r]) + 1
        /\ \A k \in 1..Len(seen[r]) : seen'[r][k] = seen[r][k]
        /\ seen'[r][Len(seen[r]) + 1] = u
        /\ Last(seen'[r]) = u
        /\ Head(seen'[r]) = IF seen[r] = <<>> THEN u ELSE Head(seen[r])
    BY <2>1, <2>3, <2>4, SeenAfter
  <2>6. options[r] \in OptionData /\ options \in [Ids -> OptionData]
    BY <2>1 DEF ScanInv, TypeOK, OptionData
  <2>o. options[r].count \in Nat
    BY <2>6 DEF OptionData
  <2>7. options[r].count = Len(seen[r])
    <3>1. seen[r] # <<>> => options[r].count = Len(seen[r])
      BY <2>1 DEF ScanInv, Counted, Crashed
    <3>2. options[r].count > 0 => seen[r] # <<>>
      BY <2>1 DEF ScanInv, Counted, Crashed
    <3> QED BY <2>5, <2>o, <3>1, <3>2
  <2>9. RequiredArguments'
    <3> SUFFICES ASSUME NEW j \in Ids, NEW k \in DOMAIN seen'[j],
                        names[j].arg = "required", seen'[j][k].value = NULL
                 PROVE  ~IsRoot(seen'[j][k].opt)
      BY <1>0 DEF RequiredArguments, IsRoot
    <3>1. CASE j # r
      BY <2>5, <3>1 DEF ScanInv, RequiredArguments
    <3>2. CASE j = r /\ k \in 1..Len(seen[r])
      BY <2>5, <3>2 DEF ScanInv, RequiredArguments
    <3>3. CASE j = r /\ k = Len(seen[r]) + 1
      BY <2>1, <2>4, <2>5, <3>3
    <3> QED BY <2>5, <3>1, <3>2, <3>3
  <2>c. ~Crashed
    BY DEF Crashed
  <2>10. SeenUses'
    <3> SUFFICES ASSUME NEW j \in Ids
                 PROVE  /\ ~IsRoot(j) /\ seen'[j] # <<>> => Loose
                        /\ names[j].dup = "append" => Len(seen'[j]) <= SO_DUP_MAX
      BY <1>0, SameList DEF SeenUses
    <3>1. CASE j # r
      BY <2>5, <3>1 DEF ScanInv, SeenUses
    <3>2. CASE j = r
      <4>1. names[r].dup = "append" => Len(seen[r]) < SO_DUP_MAX
        BY <2>1, <2>c, NoneFull
      <4> QED BY <2>1, <2>5, <3>2, <4>1, DupMaxAssumption
    <3> QED BY <3>1, <3>2
  <2> DEFINE o == options[r]
             v == Used(r, complement, value)
  <2>11. /\ v \in OptionData /\ v.count = o.count + 1
         /\ o.count = 0 \/ DupMode(r) = "overwrite" =>
              /\ ArgType(r) # "none" => v.optarg = Given(r, value)
              /\ ArgType(r) = "none" /\ names[r].val \in {"set", "unset"} =>
                   v.iVal = Flag(names[r].val, complement)
              /\ names[r].dup = "append" =>
                   v.argArray = [o.argArray EXCEPT ![0] = Given(r, value)]
         /\ o.count > 0 /\ DupMode(r) # "overwrite" =>
              v.optarg = o.optarg /\ v.iVal = o.iVal
         /\ o.count > 0 /\ names[r].dup = "append" =>
              v.argArray = [o.argArray EXCEPT ![o.count + 1] = value]
    <3>1. ListOK
      BY DEF ScanInv
    <3>2. PICK c \in BOOLEAN : c = complement
      BY DEF Complements
    <3> HIDE DEF complement
    <3>3. v = Used(r, c, value)
      BY <3>2
    <3>4. r \in Ids /\ options[r] \in OptionData
      BY <2>1, <2>6
    <3> HIDE DEF v
    <3> QED BY <3>1, <3>2, <3>3, <3>4, UsedIs
  <2> HIDE DEF v
  <2>12. IF Defines(r) /\ Undefinable(r, value)
         THEN phase' = "stopped" /\ UNCHANGED options
         ELSE /\ options' = [options EXCEPT ![r] = v]
              /\ phase' \in IF Overflows(r) THEN {"stopped", "corrupt"} ELSE {"scan"}
    BY <2>2 DEF TakeFor, v
  <2>15. ASSUME options' = [options EXCEPT ![r] = v]
         PROVE  Appended'
    <3>c. ~Crashed
      BY DEF Crashed
    <3>3. /\ options'[r] = v /\ \A j \in Ids \ {r} : options'[j] = options[j]
      BY <2>1, <2>6, <2>11, <2>15
    <3>7. Appended'
      <4> SUFFICES ASSUME NEW j \in Ids, names[j].dup = "append",
                          seen'[j] # <<>> \/ options'[j].count = 0,
                          NEW p \in 0..SO_DUP_MAX
                   PROVE  options'[j].argArray[p] = Kept(j, p)'
        BY <1>0, <2>15 DEF Appended
      <4>1. CASE j # r
        <5>1. seen'[j] = seen[j] /\ options'[j] = options[j]
          BY <2>5, <3>3, <4>1
        <5>2. options[j].argArray[p] = Kept(j, p)
          BY <3>c, <5>1 DEF ScanInv, Appended
        <5>3. Kept(j, p)' = Kept(j, p)
          BY <1>0, <5>1, SameList DEF Kept, TextOfUse
        <5> QED BY <5>1, <5>2, <5>3
      <4>2. CASE j = r
        <5>0. options[r].argArray[p] = Kept(r, p)
              /\ o.argArray \in [0..SO_DUP_MAX -> Int] /\ 0 \in 0..SO_DUP_MAX
          <6>1. seen[r] # <<>> \/ options[r].count = 0
            BY <2>5, <2>7
          <6>2. options[r].argArray[p] = Kept(r, p)
            BY <2>1, <3>c, <4>2, <6>1 DEF ScanInv, Appended
          <6>3. o.argArray \in [0..SO_DUP_MAX -> Int]
            BY <2>6 DEF OptionData
          <6> QED BY <6>2, <6>3, DupMaxAssumption
        <5>a. Kept(r, p)' = IF p = 0 THEN Given(r, seen'[r][1].value)
                            ELSE IF p \in 2..(o.count + 1) THEN seen'[r][p].value
                            ELSE NULL
          BY <1>0, <2>5, <2>7, SameList DEF Kept, TextOfUse
        <5>1. CASE seen[r] = <<>>
          <6>1. o.count = 0 /\ seen'[r][1] = u
            BY <2>5, <2>7, <5>1
          <6>2. v.argArray = [o.argArray EXCEPT ![0] = Given(r, value)]
            BY <2>11, <4>2, <6>1
          <6>3. p # 0 => o.argArray[p] = NULL
            BY <5>0, <5>1 DEF Kept
          <6>4. ~(p \in 2..(o.count + 1))
            BY <6>1
          <6> QED BY <2>4, <3>3, <4>2, <5>0, <5>a, <6>1, <6>2, <6>3, <6>4
        <5>2. CASE seen[r] # <<>>
          <6>1. o.count > 0 /\ seen'[r][1] = seen[r][1] /\ seen'[r][o.count + 1] = u
            BY <2>5, <2>7, <5>2
          <6>2. v.argArray = [o.argArray EXCEPT ![o.count + 1] = value]
            BY <2>11, <4>2, <6>1
          <6>3. Kept(r, p) = IF p = 0 THEN Given(r, seen[r][1].value)
                             ELSE IF p \in 2..o.count THEN seen[r][p].value
                             ELSE NULL
            BY <2>7, <5>2 DEF Kept, TextOfUse
          <6>4. CASE p = o.count + 1
            <7>1. p # 0 /\ p \in 2..(o.count + 1)
              BY <2>o, <6>1, <6>4
            <7>2. v.argArray[p] = value
              BY <5>0, <6>2, <6>4
            <7> QED BY <2>4, <3>3, <4>2, <5>a, <6>1, <6>4, <7>1, <7>2
          <6>5. CASE p # o.count + 1
            <7>1. v.argArray[p] = o.argArray[p]
              BY <5>0, <6>2, <6>5
            <7>2. p \in 2..(o.count + 1) <=> p \in 2..o.count
              BY <2>o, <6>5
            <7>3. p \in 2..o.count => seen'[r][p] = seen[r][p]
              BY <2>5, <2>7, <2>o
            <7> QED BY <3>3, <4>2, <5>0, <5>a, <6>1, <6>3, <7>1, <7>2, <7>3
          <6> QED BY <6>4, <6>5
        <5> QED BY <5>1, <5>2
      <4> QED BY <4>1, <4>2
    <3> QED BY <3>7
  <2>13. CASE (Defines(r) /\ Undefinable(r, value)) \/ Overflows(r)
    <3>1. phase' \in {"stopped", "corrupt"} /\ options' \in [Ids -> OptionData]
      BY <2>6, <2>11, <2>12, <2>13
    <3>2. ValidatedNeverStops'
      <4>1. CASE validated
        BY <1>0, <1>b, <2>3, <2>13, <2>r, <4>1, TakeStops DEF u
      <4>2. CASE ~validated
        BY <1>0, <4>2 DEF ValidatedNeverStops
      <4> QED BY <4>1, <4>2
    <3>3. Appended'
      <4>1. CASE Defines(r) /\ Undefinable(r, value)
        <5> SUFFICES ASSUME NEW j \in Ids, names[j].dup = "append",
                            Len(seen'[j]) = SO_DUP_MAX
                     PROVE  FALSE
          BY <1>0, <3>1 DEF Appended, Crashed
        <5>1. Len(seen[j]) # SO_DUP_MAX
          BY <2>c, NoneFull
        <5>2. j = r
          BY <2>5, <5>1
        <5>3. DupMode(r) = "append"
          BY <5>2, DupModeType DEF ScanInv
        <5>4. Len(seen'[r]) = 1
          <6>1. options[r].count = 0
            BY <4>1, <5>3 DEF Defines
          <6>2. Len(seen[r]) = 0
            BY <2>7, <6>1, Zenon
          <6>3. Len(seen'[r]) = Len(seen[r]) + 1
            BY <2>5
          <6> QED BY <6>2, <6>3
        <5>5. Len(seen'[r]) = SO_DUP_MAX
          BY <5>2, Zenon
        <5>6. SO_DUP_MAX = 1
          BY <5>4, <5>5, Zenon
        <5> QED BY <5>6, DupMaxAssumption
      <4>2. CASE ~(Defines(r) /\ Undefinable(r, value))
        BY <2>12, <2>15, <4>2
      <4> QED BY <4>1, <4>2
    <3> QED BY <1>0, <2>5, <2>9, <2>10, <3>1, <3>2, <3>3, Stopping
  <2>14. CASE ~(Defines(r) /\ Undefinable(r, value)) /\ ~Overflows(r)
    <3>1. phase' = "scan" /\ options' = [options EXCEPT ![r] = v] /\ ~Crashed'
      BY <2>12, <2>14 DEF Crashed
    <3>3. /\ options' \in [Ids -> OptionData] /\ options'[r] = v
          /\ \A j \in Ids \ {r} : options'[j] = options[j]
      BY <2>1, <2>6, <2>11, <3>1
    <3>c. ~Crashed
      BY DEF Crashed
    <3>l. DupMode(r) = "append" => o.count + 1 < SO_DUP_MAX
      <4>1. CASE o.count = 0
        BY <4>1, DupMaxAssumption
      <4>2. CASE o.count > 0
        BY <2>14, <2>o, <4>2, DupMaxAssumption DEF Overflows, Appends
      <4> QED BY <2>o, <4>1, <4>2
    <3>4. TypeOK'
      <4>1. \A j \in Ids : DupMode(j)' = DupMode(j)
        BY <1>0 DEF DupMode
      <4>2. \A j \in Ids : DupMode(j) = "append" => options'[j].count < SO_DUP_MAX
        BY <2>11, <3>3, <3>c, <3>l DEF ScanInv, TypeOK
      <4> QED BY <1>0, <2>5, <3>1, <3>3, <4>1, <4>2
           DEF TypeOK, ScanInv, Use, OptionData
    <3>5. Counted'
      <4>1. v.count = Len(seen'[r])
        BY <2>5, <2>7, <2>11
      <4> QED BY <1>0, <2>5, <3>1, <3>3, <3>c, <4>1 DEF Counted, ScanInv
    <3>6. Held'
      <4> SUFFICES ASSUME NEW j \in Ids, IsRoot(j), options'[j].count > 0
                   PROVE  HoldsTheUse(j)'
        BY <1>0, SameList DEF Held
      <4>1. CASE j # r
        <5>1. seen'[j] = seen[j] /\ options'[j] = options[j]
          BY <2>5, <3>3, <4>1
        <5>2. HoldsTheUse(j)
          BY <3>c, <5>1 DEF ScanInv, Held
        <5>3. UseThatCounts(j)' = UseThatCounts(j)
          <6>1. DupMode(j)' = DupMode(j) /\ env'[j] = env[j]
            BY <1>0 DEF DupMode
          <6>2. /\ Last(seen'[j]) = Last(seen[j])
                /\ Head(seen'[j]) = Head(seen[j])
                /\ seen'[j] = <<>> <=> seen[j] = <<>>
            BY <5>1
          <6> QED BY <6>1, <6>2 DEF UseThatCounts
        <5>4. Meaning(j, UseThatCounts(j))' = Meaning(j, UseThatCounts(j))
          BY <1>0, <5>3, SameList
        <5> QED BY <1>0, <5>1, <5>2, <5>4 DEF HoldsTheUse
      <4>2. CASE j = r
        <5>0. ArgType(r) = names[r].arg
          BY <4>2, RootArgType
        <5>1. UseThatCounts(r)' =
                IF seen[r] = <<>> \/ DupMode(r) = "overwrite" THEN u
                ELSE UseThatCounts(r)
          BY <1>0, <2>5 DEF UseThatCounts, DupMode
        <5>2. CASE seen[r] = <<>> \/ DupMode(r) = "overwrite"
          <6>1. UseThatCounts(r)' = u
            BY <5>1, <5>2
          <6>2. o.count = 0 \/ DupMode(r) = "overwrite"
            BY <2>5, <2>7, <5>2
          <6>3. Meaning(r, UseThatCounts(r))' =
                  IF names[r].arg = "none" THEN Flag(names[r].val, complement)
                  ELSE Given(r, value)
            BY <1>0, <2>4, <6>1, SameList DEF Meaning
          <6> QED BY <1>0, <2>11, <3>3, <4>2, <5>0, <6>2, <6>3 DEF HoldsTheUse
        <5>3. CASE seen[r] # <<>> /\ DupMode(r) # "overwrite"
          <6>1. Meaning(r, UseThatCounts(r))' = Meaning(r, UseThatCounts(r))
            BY <1>0, <5>1, <5>3, SameList
          <6>2. o.count > 0
            BY <2>5, <2>7, <5>3
          <6>3. HoldsTheUse(r)
            BY <2>1, <3>c, <4>2, <6>2 DEF ScanInv, Held
          <6>4. options'[r].optarg = options[r].optarg
                /\ options'[r].iVal = options[r].iVal
            BY <2>11, <3>3, <5>3, <6>2
          <6> QED BY <1>0, <4>2, <6>1, <6>3, <6>4 DEF HoldsTheUse
        <5> QED BY <5>2, <5>3
      <4> QED BY <4>1, <4>2
    <3>7. Appended'
      BY <2>15, <3>1
    <3>8. ValidatedNeverStops'
      BY <3>1 DEF ValidatedNeverStops
    <3>9. ListOK' /\ HandedOut' /\ Validated' /\ RightUseCounts'
      BY <1>0, <3>1, SameList
      DEF ScanInv, ListOK, HandedOut, Before, Validated, RightUseCounts
    <3> QED BY <2>9, <2>10, <3>4, <3>5, <3>6, <3>7, <3>8, <3>9 DEF ScanInv
  <2> QED BY <2>13, <2>14
<1> QED BY <1>a, <1>b

LEMMA InitScan == ASSUME Init PROVE ScanInv
<1>1. PICK c \in Programs : names = c[1] /\ args = c[2]
  BY DEF Init
<1>2. /\ validated = FALSE /\ seen = [i \in Ids |-> <<>>]
      /\ options = [i \in Ids |->
           [count |-> 0, optarg |-> names[i].init, iVal |-> 0,
            argArray |-> [k \in 0..SO_DUP_MAX |-> NULL]]]
      /\ onDup \in OnDups /\ env \in Environments /\ phase \in StartPhases
      /\ current_index = 1 /\ assigned = [i \in Ids |-> <<>>]
      /\ current = [id |-> NULL, optarg |-> NULL, optcount |-> 0]
  BY DEF Init
<1>3. phase \in Before /\ ~Crashed /\ phase \in {"new", "scan"}
  BY <1>2, PhasesAssumption DEF Before, Crashed
<1>4. ListOK
  <2>1. names \in Seq(OptionNames) /\ args \in Seq(Arguments)
    BY <1>1, ProgramsAssumption
  <2>2. env \in [Ids -> Int]
    BY <1>1, <1>2, ProgramsAssumption DEF Ids
  <2> QED BY <1>2, <2>1, <2>2, OnDupsAssumption DEF ListOK
<1>5. TypeOK
  <2>1. options \in [Ids -> OptionData]
    <3> SUFFICES ASSUME NEW i \in Ids
                 PROVE  [count |-> 0, optarg |-> names[i].init, iVal |-> 0,
                         argArray |-> [k \in 0..SO_DUP_MAX |-> NULL]]
                          \in OptionData
      BY <1>2
    <3>1. names[i].init \in Int
      BY <1>4, NamesType DEF OptionNames
    <3> QED BY <3>1 DEF OptionData, NULL
  <2>2. \A i \in Ids : /\ options[i].count = 0 /\ seen[i] = <<>>
                       /\ assigned[i] = <<>>
    BY <1>2
  <2>3. \A i \in Ids : options[i].count < SO_DUP_MAX /\ Len(assigned[i]) <= 1
    BY <2>2, DupMaxAssumption
  <2>4. seen \in [Ids -> Seq([opt : Ids, value : Int])]
    BY <1>2
  <2>5. current_index \in 1..(Len(names) + 2)
    BY <1>2, <1>4 DEF ListOK
  <2> QED BY <1>2, <1>3, <2>1, <2>3, <2>4, <2>5 DEF TypeOK, OptionData
<1>6. \A i \in Ids : /\ options[i].count = 0 /\ seen[i] = <<>>
                     /\ assigned[i] = <<>>
                     /\ \A p \in 0..SO_DUP_MAX : options[i].argArray[p] = NULL
  BY <1>2
<1>7. Counted /\ Held /\ RequiredArguments /\ SeenUses
  BY <1>6, EmptySeq, DupMaxAssumption DEF Counted, Held, RequiredArguments, SeenUses
<1>8. HandedOut /\ Validated /\ RightUseCounts
  BY <1>2, <1>3, <1>6 DEF HandedOut, Validated, RightUseCounts, Before
<1>9. Appended /\ ValidatedNeverStops
  BY <1>2, <1>6 DEF Appended, Kept, ValidatedNeverStops
<1> QED BY <1>4, <1>5, <1>7, <1>8, <1>9 DEF ScanInv

\* Steps that change neither an option nor a variable.
LEMMA PhaseStep ==
  ASSUME ScanInv, phase \in Before, phase' \in Before \cup {"next"},
         validated' \in BOOLEAN, args' \in Seq(Arguments), Validated',
         UNCHANGED <<names, seen, options, onDup, env, current_index, assigned,
                     current>>
  PROVE  ScanInv'
<1>1. ~Crashed /\ ~Crashed' /\ phase \notin {"next", "done"}
  BY DEF Before, Crashed
<1>2. /\ Ids' = Ids
      /\ \A i : /\ IsRoot(i)' = IsRoot(i)
                /\ \A u : Given(i, u)' = Given(i, u) /\ Meaning(i, u)' = Meaning(i, u)
  BY SameList
<1>3. TypeOK' /\ ListOK'
  <2>1. TypeOK'
    BY <1>1, <1>2 DEF ScanInv, TypeOK, Before, DupMode
  <2>2. ListOK'
    BY <1>2 DEF ScanInv, ListOK
  <2> QED BY <2>1, <2>2
<1>4. \A i \in Ids : HoldsTheUse(i)' <=> HoldsTheUse(i)
  <2> SUFFICES ASSUME NEW i \in Ids PROVE HoldsTheUse(i)' <=> HoldsTheUse(i)
    OBVIOUS
  <2>1. UseThatCounts(i)' = UseThatCounts(i)
    BY DEF UseThatCounts, DupMode
  <2>2. Meaning(i, UseThatCounts(i))' = Meaning(i, UseThatCounts(i))
    BY <2>1, SameList
  <2> QED BY <2>2 DEF HoldsTheUse
<1>5. Counted'
  BY <1>1, <1>2 DEF ScanInv, Counted
<1>6. Held'
  BY <1>1, <1>2, <1>4 DEF ScanInv, Held
<1>7. RequiredArguments' /\ SeenUses'
  BY <1>2, SameList DEF ScanInv, RequiredArguments, SeenUses
<1>8. HandedOut'
  <2>1. current_index = 1 /\ \A i \in Ids : assigned[i] = <<>>
    BY DEF ScanInv, HandedOut
  <2>2. \A i \in Ids : ~(i < 1)
    BY DEF ScanInv, ListOK, Ids
  <2> QED BY <1>2, <2>1, <2>2 DEF HandedOut, Before
<1>9. RightUseCounts'
  <2>1. \A i \in Ids : assigned[i] = <<>>
    BY DEF ScanInv, HandedOut
  <2> QED BY <1>2, <2>1 DEF RightUseCounts
<1>10. Appended'
  BY <1>1, <1>2 DEF ScanInv, Appended, Kept, TextOfUse
<1>11. ValidatedNeverStops'
  BY <1>1 DEF ValidatedNeverStops
<1> QED BY <1>3, <1>5, <1>6, <1>7, <1>8, <1>9, <1>10, <1>11 DEF ScanInv

LEMMA ValidateStep == ASSUME ScanInv, scanopt_validate PROVE ScanInv'
<1>1. /\ phase = "new"
      /\ UNCHANGED <<names, args, seen, options, onDup, env, current_index,
                     assigned, current>>
  BY DEF scanopt_validate
<1>2. CASE \A i \in Ids : names[i].named /\ Acceptable(i)
  <2>1. phase' = "scan" /\ validated' = TRUE
    BY <1>2 DEF scanopt_validate
  <2>2. Validated'
    BY <1>1, <1>2, SameList DEF Validated
  <2> QED BY <1>1, <2>1, <2>2, PhaseStep DEF Before, ScanInv, ListOK
<1>3. CASE ~\A i \in Ids : names[i].named /\ Acceptable(i)
  <2>1. phase' = "refused" /\ validated' = validated
    BY <1>3 DEF scanopt_validate
  <2>2. Validated'
    BY <1>1, <2>1, SameList DEF ScanInv, Validated
  <2> QED BY <1>1, <2>1, <2>2, PhaseStep DEF Before, ScanInv, ListOK, TypeOK
<1> QED BY <1>2, <1>3

LEMMA FirstArgument ==
  ASSUME ListOK, args # <<>>
  PROVE  /\ Head(args) \in Arguments /\ Tail(args) \in Seq(Arguments)
         /\ Len(args) > 1 =>
              args[2] \in Arguments /\ Tail(Tail(args)) \in Seq(Arguments)
<1>1. args \in Seq(Arguments)
  BY DEF ListOK
<1>2. /\ Head(args) \in Arguments /\ Tail(args) \in Seq(Arguments)
      /\ Len(Tail(args)) = Len(args) - 1 /\ Len(args) \in Nat
  BY <1>1, HeadTailProperties, LenProperties
<1>3. ASSUME Len(args) > 1
      PROVE  args[2] \in Arguments /\ Tail(Tail(args)) \in Seq(Arguments)
  <2>1. args[2] \in Arguments
    BY <1>1, <1>2, <1>3, ElementOfSeq
  <2>2. Tail(args) # <<>>
    <3>1. Len(Tail(args)) # 0
      BY <1>2, <1>3
    <3> QED BY <3>1, EmptySeq
  <2> QED BY <1>2, <2>1, <2>2, HeadTailProperties
<1> QED BY <1>2, <1>3

\* The program crashes before getopt_long is called.
LEMMA UnstartedStep == ASSUME ScanInv, ScanUnstarted PROVE ScanInv'
<1>1. /\ phase = "scan" /\ phase' = "stopped"
      /\ UNCHANGED <<names, validated, args, seen, options, onDup, env,
                     current_index, assigned, current>>
  BY DEF ScanUnstarted, listVars
<1>2. Loose
  BY DEF ScanUnstarted, LongNamesHaveRoots, Loose, HasRoot, IsRoot
<1>3. ValidatedNeverStops'
  BY <1>1, <1>2, LooseIsAReason
<1>4. RequiredArguments' /\ SeenUses'
  BY <1>1, SameList DEF ScanInv, RequiredArguments, SeenUses
<1>5. /\ options' \in [Ids -> OptionData] /\ seen' \in [Ids -> Seq(Use)]
      /\ args' \in Seq(Arguments) /\ current_index' \in 1..(Len(names) + 2)
  BY <1>1 DEF ScanInv, TypeOK, OptionData, Use, ListOK
<1>6. Appended'
  BY <1>1, StopsBetweenUses DEF Crashed
<1> QED BY <1>1, <1>3, <1>4, <1>5, <1>6, Stopping

LEMMA ScanStep == ASSUME ScanInv, scanopt_scan PROVE ScanInv'
<1>1. phase = "scan"
  BY DEF scanopt_scan, ScanUnstarted, ScanAttached, ScanDetached, ScanError,
         ScanEnd, AtOption, Scanning
<1>2. ListOK /\ validated \in BOOLEAN
  BY DEF ScanInv, TypeOK
<1>3. ASSUME args # <<>>
      PROVE  /\ Head(args).arg \in Int
             /\ Tail(args) \in Seq(Arguments)
             /\ Len(args) > 1 =>
                  /\ TextOf(args[2]) \in Int /\ TextOf(args[2]) # NULL
                  /\ Tail(Tail(args)) \in Seq(Arguments)
  <2>1. /\ Head(args) \in Arguments /\ Tail(args) \in Seq(Arguments)
        /\ Len(args) > 1 =>
             args[2] \in Arguments /\ Tail(Tail(args)) \in Seq(Arguments)
    BY <1>2, <1>3, FirstArgument
  <2>2. \A t \in Arguments : /\ t.arg \in Int /\ TextOf(t) \in Int
                            /\ TextOf(t) # NULL
    BY DEF Arguments, TextOf, NULL, Word
  <2> QED BY <2>1, <2>2
<1>4. CASE ScanAttached
  <2> DEFINE t == Head(args)
  <2>1. PICK value \in Passed(t) :
          /\ args # <<>> /\ t.opt \in Ids
          /\ GetoptArg(t) = "required" => t.arg # NULL
          /\ Take(t.opt, value, Tail(args))
    BY <1>4 DEF ScanAttached, AtOption, Found
  <2>2. ASSUME IsRoot(t.opt), names[t.opt].arg = "required" PROVE value # NULL
    <3>1. GetoptArg(t) = "required"
      BY <2>2 DEF GetoptArg, IsRoot
    <3>2. value = t.arg
      BY <3>1 DEF Passed
    <3> QED BY <2>1, <3>1, <3>2
  <2>3. value \in Int /\ Tail(args) \in Seq(Arguments)
    BY <1>3, <2>1 DEF Passed, NULL
  <2> HIDE DEF t
  <2> QED BY <1>1, <2>1, <2>2, <2>3, TakeStep
<1>5. CASE ScanDetached
  <2>1. /\ args # <<>> /\ Head(args).opt \in Ids /\ Len(args) > 1
        /\ Take(Head(args).opt, TextOf(args[2]), Tail(Tail(args)))
    BY <1>5 DEF ScanDetached, AtOption, Found
  <2>2. /\ TextOf(args[2]) \in Int /\ TextOf(args[2]) # NULL
        /\ Tail(Tail(args)) \in Seq(Arguments)
    BY <1>3, <2>1
  <2> QED BY <1>1, <2>1, <2>2, TakeStep
<1>6. CASE ScanError
  <2>1. /\ args # <<>> /\ args' = Tail(args)
        /\ UNCHANGED <<listVars, seen, options, onDup, env, phase,
                       current_index, assigned, current>>
    BY <1>6 DEF ScanError
  <2>2. Validated'
    BY <2>1, SameList DEF listVars, ScanInv, Validated
  <2> QED BY <1>1, <1>2, <1>3, <2>1, <2>2, PhaseStep DEF Before, listVars
<1>7. CASE ScanEnd
  <2>1. /\ phase' = "scanned"
        /\ UNCHANGED <<listVars, args, seen, options, onDup, env,
                       current_index, assigned, current>>
    BY <1>7 DEF ScanEnd
  <2>2. Validated'
    BY <2>1, SameList DEF listVars, ScanInv, Validated
  <2>3. args \in Seq(Arguments)
    BY <1>2 DEF ListOK
  <2> QED BY <1>1, <1>2, <2>1, <2>2, <2>3, PhaseStep DEF Before, listVars
<1> QED BY <1>4, <1>5, <1>6, <1>7, UnstartedStep DEF scanopt_scan

LEMMA StartNextStep == ASSUME ScanInv, StartNext PROVE ScanInv'
<1>1. /\ phase = "scanned" /\ phase' = "next"
      /\ UNCHANGED <<listVars, args, seen, options, onDup, env,
                     current_index, assigned, current>>
  BY DEF StartNext
<1>2. Validated'
  BY <1>1, SameList DEF listVars, ScanInv, Validated
<1>3. args \in Seq(Arguments) /\ validated \in BOOLEAN
  BY DEF ScanInv, ListOK, TypeOK
<1> QED BY <1>1, <1>2, <1>3, PhaseStep DEF Before, listVars

-----------------------------------------------------------------------------
\* The environment.

\* What an option is with its environment variable.
\* DefinedIs for a value of its own.
LEMMA DefinedAs ==
  ASSUME ListOK
  PROVE  \A i \in Ids : \A o \in OptionData : \A c \in BOOLEAN : \A e \in Int :
           /\ Defined(o, i, c, e) \in OptionData
           /\ Defined(o, i, c, e).count = o.count
           /\ ArgType(i) # "none" => Defined(o, i, c, e).optarg = Given(i, e)
           /\ ArgType(i) = "none" /\ names[i].val \in {"set", "unset"} =>
                Defined(o, i, c, e).iVal = Flag(names[i].val, c)
<1> TAKE i \in Ids
<1> TAKE o \in OptionData
<1> TAKE c \in BOOLEAN
<1> TAKE e \in Int
<1> DEFINE d == Defined(o, i, c, e)
<1>1. /\ d \in OptionData /\ d.count = o.count
      /\ ArgType(i) # "none" => d.optarg = Given(i, e)
      /\ ArgType(i) = "none" /\ names[i].val \in {"set", "unset"} =>
           d.iVal = Flag(names[i].val, c)
      /\ names[i].dup = "append" =>
           d.argArray = [o.argArray EXCEPT ![0] = Given(i, e)]
  BY DefinedIs
<1> QED BY <1>1

LEMMA WithEnvironmentIs ==
  ASSUME ScanInv, ~Crashed, NEW i \in Ids
  PROVE  LET w == WithEnvironment(i)
         IN  /\ w \in OptionData
             /\ w.count = IF FromEnvironment(i) THEN 1 ELSE options[i].count
             /\ ~FromEnvironment(i) => w = options[i]
             /\ FromEnvironment(i) =>
                  /\ seen[i] = <<>> /\ env[i] # NULL /\ options[i].count = 0
                  /\ UseThatCounts(i) = [opt |-> i, value |-> env[i]]
                  /\ IsRoot(i) /\ names[i].arg # "none" =>
                       w.optarg = Meaning(i, UseThatCounts(i))
                  /\ IsRoot(i) /\ names[i].arg = "none"
                       /\ names[i].val \in {"set", "unset"} =>
                       w.iVal = Meaning(i, UseThatCounts(i))
<1> DEFINE o == [options[i] EXCEPT !.count = @ + 1]
<1>1. ListOK /\ options[i] \in OptionData /\ env[i] \in Int
  BY DEF ScanInv, TypeOK, OptionData, ListOK
<1>2. CASE ~FromEnvironment(i)
  BY <1>1, <1>2 DEF WithEnvironment
<1>3. CASE FromEnvironment(i)
  <2>1. options[i].count = 0 /\ env[i] # NULL
    BY <1>3 DEF FromEnvironment
  <2>2. o \in OptionData /\ o.count = 1
    BY <1>1, <2>1 DEF OptionData
  <2>3. WithEnvironment(i) = Defined(o, i, FALSE, env[i])
    BY <1>3 DEF WithEnvironment
  <2>4. seen[i] = <<>>
    <3>1. seen[i] # <<>> => Len(seen[i]) # 0
      <4>1. seen[i] \in Seq(Use)
        BY DEF ScanInv, TypeOK, Use
      <4> QED BY <4>1, EmptySeq
    <3> QED BY <2>1, <3>1 DEF ScanInv, Counted
  <2>5. UseThatCounts(i) = [opt |-> i, value |-> env[i]]
    BY <2>4 DEF UseThatCounts
  <2>6. IsRoot(i) =>
          Meaning(i, UseThatCounts(i)) =
            IF names[i].arg = "none" THEN Flag(names[i].val, FALSE)
            ELSE Given(i, env[i])
    <3>1. UseThatCounts(i).opt = i /\ UseThatCounts(i).value = env[i]
      BY <2>5
    <3>2. IsRoot(i) => Complements(i) = FALSE
      BY DEF IsRoot, Complements, Direct
    <3> QED BY <3>1, <3>2 DEF Meaning
  <2> DEFINE w == Defined(o, i, FALSE, env[i])
  <2> HIDE DEF o
  <2>7. /\ w \in OptionData /\ w.count = o.count
        /\ ArgType(i) # "none" => w.optarg = Given(i, env[i])
        /\ ArgType(i) = "none" /\ names[i].val \in {"set", "unset"} =>
             w.iVal = Flag(names[i].val, FALSE)
    <3>1. FALSE \in BOOLEAN
      OBVIOUS
    <3> QED BY <1>1, <2>2, <3>1, DefinedAs
  <2>8. IsRoot(i) => ArgType(i) = names[i].arg
    BY RootArgType
  <2> QED BY <1>3, <2>1, <2>2, <2>3, <2>4, <2>5, <2>6, <2>7, <2>8
<1> QED BY <1>2, <1>3

\* The options of S take their environment variables.
LEMMA EnvironmentTaken ==
  ASSUME ScanInv, phase \in {"scanned", "next"}, phase' \in {"next", "done"},
         NEW S, S \subseteq Ids,
         options' = [j \in Ids |-> IF j \in S THEN WithEnvironment(j)
                                   ELSE options[j]],
         UNCHANGED <<listVars, args, seen, onDup, env>>
  PROVE  /\ options' \in [Ids -> OptionData]
         /\ \A j \in Ids : DupMode(j)' = "append" => options'[j].count < SO_DUP_MAX
         /\ Counted' /\ Held' /\ Appended' /\ RequiredArguments' /\ SeenUses'
         /\ Validated' /\ ValidatedNeverStops'
<1>1. /\ ~Crashed /\ ~Crashed'
      /\ UNCHANGED <<names, validated, seen, onDup, env>>
  BY DEF listVars, Crashed
<1>2. /\ Ids' = Ids /\ \A j : IsRoot(j)' = IsRoot(j)
      /\ \A j : DupMode(j)' = DupMode(j)
      /\ \A j, u : Given(j, u)' = Given(j, u)
  BY <1>1, SameList DEF DupMode
<1>3. /\ options \in [Ids -> OptionData]
      /\ \A j \in Ids : DupMode(j) = "append" => options[j].count < SO_DUP_MAX
  BY <1>1 DEF ScanInv, TypeOK, OptionData
<1> DEFINE w(j) == WithEnvironment(j)
<1>4. ASSUME NEW j \in Ids
      PROVE  /\ w(j) \in OptionData
             /\ w(j).count = IF FromEnvironment(j) THEN 1 ELSE options[j].count
             /\ ~FromEnvironment(j) => w(j) = options[j]
             /\ FromEnvironment(j) =>
                  /\ seen[j] = <<>> /\ env[j] # NULL /\ options[j].count = 0
                  /\ IsRoot(j) /\ names[j].arg # "none" =>
                       w(j).optarg = Meaning(j, UseThatCounts(j))
                  /\ IsRoot(j) /\ names[j].arg = "none"
                       /\ names[j].val \in {"set", "unset"} =>
                       w(j).iVal = Meaning(j, UseThatCounts(j))
  <2> HIDE DEF w
  <2> QED BY <1>1, WithEnvironmentIs DEF w
<1> HIDE DEF w
<1>5. \A j \in Ids : options'[j] = IF j \in S THEN w(j) ELSE options[j]
  BY DEF w
<1>6. options' \in [Ids -> OptionData]
  BY <1>3, <1>4 DEF w
<1>7. ASSUME NEW j \in Ids
      PROVE  \/ options'[j] = options[j]
             \/ /\ seen[j] = <<>> /\ env[j] # NULL
                /\ options'[j].count = 1
                /\ IsRoot(j) /\ names[j].arg # "none" =>
                     options'[j].optarg = Meaning(j, UseThatCounts(j))
                /\ IsRoot(j) /\ names[j].arg = "none"
                     /\ names[j].val \in {"set", "unset"} =>
                     options'[j].iVal = Meaning(j, UseThatCounts(j))
  <2>1. CASE j \notin S
    BY <1>5, <2>1
  <2>2. CASE j \in S /\ ~FromEnvironment(j)
    BY <1>4, <1>5, <2>2
  <2>3. CASE j \in S /\ FromEnvironment(j)
    <3>1. options'[j] = w(j)
      BY <1>5, <2>3
    <3> QED BY <1>4, <2>3, <3>1
  <2> QED BY <2>1, <2>2, <2>3
<1>8. \A j \in Ids : DupMode(j)' = "append" => options'[j].count < SO_DUP_MAX
  <2>1. 1 < SO_DUP_MAX
    BY DupMaxAssumption
  <2> QED BY <1>2, <1>3, <1>7, <2>1
<1>9. Counted'
  <2> SUFFICES ASSUME NEW j \in Ids
               PROVE  /\ seen[j] # <<>> => options'[j].count = Len(seen[j])
                      /\ options'[j].count > 0 => seen[j] # <<>> \/ env[j] # NULL
    BY <1>1, <1>2 DEF Counted
  <2>1. /\ seen[j] # <<>> => options[j].count = Len(seen[j])
        /\ options[j].count > 0 => seen[j] # <<>> \/ env[j] # NULL
    <3>1. Counted
      BY DEF ScanInv
    <3> QED BY <1>1, <3>1 DEF Counted
  <2> QED BY <1>7, <2>1
<1>10. Held'
  <2> SUFFICES ASSUME NEW j \in Ids, IsRoot(j), options'[j].count > 0
               PROVE  HoldsTheUse(j)'
    BY <1>2 DEF Held
  <2>1. UseThatCounts(j)' = UseThatCounts(j)
    BY <1>1 DEF UseThatCounts, DupMode
  <2>2. Meaning(j, UseThatCounts(j))' = Meaning(j, UseThatCounts(j))
    BY <1>1, <2>1, SameList
  <2>3. CASE options'[j] = options[j]
    <3>1. HoldsTheUse(j)
      BY <1>1, <2>3 DEF ScanInv, Held
    <3> QED BY <1>1, <2>2, <2>3, <3>1 DEF HoldsTheUse
  <2>4. CASE options'[j] # options[j]
    BY <1>1, <1>7, <2>2, <2>4 DEF HoldsTheUse
  <2> QED BY <2>3, <2>4
<1>11. RequiredArguments' /\ SeenUses'
  BY <1>1, SameList DEF ScanInv, RequiredArguments, SeenUses
<1>12. Validated'
  BY <1>1, SameList DEF ScanInv, Validated
<1>13. Appended'
  <2> SUFFICES ASSUME NEW j \in Ids, names[j].dup = "append",
                      seen[j] # <<>> \/ options'[j].count = 0,
                      NEW p \in 0..SO_DUP_MAX
               PROVE  options'[j].argArray[p] = Kept(j, p)'
    BY <1>1, <1>2 DEF Appended
  <2>1. options'[j] = options[j]
    BY <1>7
  <2>2. options[j].argArray[p] = Kept(j, p)
    BY <1>1, <2>1 DEF ScanInv, Appended
  <2>3. Kept(j, p)' = Kept(j, p)
    BY <1>1, <1>2 DEF Kept, TextOfUse
  <2> QED BY <2>1, <2>2, <2>3
<1>14. ValidatedNeverStops'
  BY <1>1 DEF ValidatedNeverStops
<1> QED BY <1>6, <1>8, <1>9, <1>10, <1>11, <1>12, <1>13, <1>14

\* A variable of the environment is no null pointer.
LEMMA NoNullVariable ==
  ASSUME ScanInv, validated, NEW i \in Ids, IsRoot(i), env[i] # NULL
  PROVE  ~Undefinable(i, env[i])
<1>0. ArgType(i) = names[i].arg /\ names[i].arg \in {"none", "required", "optional"}
  BY RootArgType, NamesType DEF ScanInv, OptionNames
<1> SUFFICES ASSUME ConvertsNull(i, env[i]) PROVE FALSE
  BY <1>0 DEF Undefinable
<1>a. Acceptable(i)
  BY DEF ScanInv, Validated
<1>1. names[i].val = "count" /\ ArgType(i) # "none"
  BY <1>a DEF ConvertsNull, Acceptable
<1>2. Given(i, env[i]) = env[i]
  BY DEF Given
<1> QED BY <1>1, <1>2 DEF ConvertsNull

\* The environment has a variable that no option can take.
Untakable(i) == FromEnvironment(i) /\ Undefinable(i, env[i])

LEMMA ApplyEnvironmentStep ==
  ASSUME ScanInv, scanopt_apply_environment
  PROVE  ScanInv'
<1>1. /\ phase = "scanned"
      /\ UNCHANGED <<listVars, args, seen, onDup, env, current_index, assigned,
                     current>>
      /\ UNCHANGED <<names, validated>>
  BY DEF scanopt_apply_environment, listVars
<1>2. Ids' = Ids /\ \A j : IsRoot(j)' = IsRoot(j)
  BY <1>1, SameList
<1>3. ListOK'
  BY <1>1, <1>2 DEF ScanInv, ListOK
<1>4. current_index = 1 /\ \A j \in Ids : assigned[j] = <<>>
  BY <1>1 DEF ScanInv, HandedOut, Before
<1>a. IF \E i \in Ids : Untakable(i)
      THEN phase' = "stopped" /\ options' = options
      ELSE phase' = "next" /\ options' = [i \in Ids |-> WithEnvironment(i)]
  BY DEF scanopt_apply_environment, Untakable
<1>6. CASE \E i \in Ids : Untakable(i)
  <2>1. phase' = "stopped" /\ options' = options
    BY <1>a, <1>6
  <2>2. /\ options' \in [Ids -> OptionData] /\ seen' \in [Ids -> Seq(Use)]
        /\ args' \in Seq(Arguments) /\ current_index' \in 1..(Len(names) + 2)
    BY <1>1, <2>1 DEF ScanInv, TypeOK, OptionData, Use, ListOK
  <2>4. RequiredArguments' /\ SeenUses'
    BY <1>1, SameList DEF ScanInv, RequiredArguments, SeenUses
  <2>5. ValidatedNeverStops'
    <3> SUFFICES ASSUME validated PROVE ValidatedNeverStops'
      BY <1>1 DEF ValidatedNeverStops
    <3>1. PICK i \in Ids : env[i] # NULL /\ Undefinable(i, env[i])
      BY <1>6 DEF FromEnvironment, Untakable
    <3>2. ~IsRoot(i)
      BY <3>1, NoNullVariable
    <3> QED BY <1>1, <1>2, <3>1, <3>2 DEF ValidatedNeverStops
  <2>6. Appended'
    BY <1>1, <2>1, StopsBetweenUses DEF Crashed
  <2> QED BY <1>1, <2>1, <2>2, <2>4, <2>5, <2>6, Stopping
<1>7. CASE \A i \in Ids : ~Untakable(i)
  <2>1. phase' = "next" /\ options' = [i \in Ids |-> WithEnvironment(i)]
    BY <1>a, <1>7
  <2>2. options' = [j \in Ids |-> IF j \in Ids THEN WithEnvironment(j)
                                  ELSE options[j]]
    BY <2>1
  <2>4. /\ options' \in [Ids -> OptionData]
        /\ \A j \in Ids : DupMode(j)' = "append" => options'[j].count < SO_DUP_MAX
        /\ Counted' /\ Held' /\ Appended' /\ RequiredArguments' /\ SeenUses'
        /\ Validated' /\ ValidatedNeverStops'
    BY <1>1, <2>1, <2>2, EnvironmentTaken
  <2>5. TypeOK'
    BY <1>1, <1>2, <2>1, <2>4 DEF ScanInv, TypeOK, OptionData
  <2>6. HandedOut' /\ RightUseCounts'
    <3>1. \A j \in Ids : ~(j < 1)
      BY DEF ScanInv, ListOK, Ids
    <3> QED BY <1>1, <1>2, <1>4, <2>1, <3>1 DEF HandedOut, Before, RightUseCounts
  <2> QED BY <1>3, <2>4, <2>5, <2>6 DEF ScanInv
<1> QED BY <1>6, <1>7, Zenon

-----------------------------------------------------------------------------
\* scanopt_next.

\* It stops at the options that were used under any name or in the environment.
LEMMA UsedIsToHandOut ==
  ASSUME ScanInv, NEW i \in Ids
  PROVE  IsUsed(i) <=> ToHandOut(i)
<1>1. options[i].count \in Nat
  BY DEF ScanInv, TypeOK
<1>2. options[i].count = 0 \/ options[i].count > 0
  BY <1>1
<1> QED BY <1>2 DEF IsUsed, ToHandOut, FromEnvironment

\* The use that counts is one of the uses.
LEMMA UseThatCountsIsAUse ==
  ASSUME ScanInv, NEW i \in Ids, seen[i] # <<>>
  PROVE  \E k \in DOMAIN seen[i] : seen[i][k] = UseThatCounts(i)
<1>1. seen[i] \in Seq(Use)
  BY DEF ScanInv, TypeOK, Use
<1>2. Len(seen[i]) \in Nat /\ Len(seen[i]) # 0 /\ DOMAIN seen[i] = 1..Len(seen[i])
  BY <1>1, EmptySeq, LenProperties
<1>3. 1 \in DOMAIN seen[i] /\ Len(seen[i]) \in DOMAIN seen[i]
  BY <1>2
<1>4. Head(seen[i]) = seen[i][1] /\ Last(seen[i]) = seen[i][Len(seen[i])]
  BY <1>1, HeadTailProperties DEF Last
<1> QED BY <1>3, <1>4 DEF UseThatCounts

\* A number without a text to convert.
NoNumber(i) == names[i].val = "int" /\ WithEnvironment(i).optarg = NULL

LEMMA NoNumberHasReason ==
  ASSUME ScanInv, phase = "next", validated, NEW i \in Ids, IsRoot(i), IsUsed(i),
         NoNumber(i)
  PROVE  /\ \E k \in DOMAIN seen[i] :
              /\ seen[i][k].value = NULL
              /\ names[i].arg = "required" => ~IsRoot(seen[i][k].opt)
         /\ \/ names[i].arg = "required"
            \/ names[i].arg = "optional" /\ names[i].default = NULL
<1>c. ~Crashed
  BY DEF Crashed
<1>1. options[i].count > 0 \/ FromEnvironment(i)
  BY DEF IsUsed
<1>a. ArgType(i) = names[i].arg
  BY RootArgType
<1>2. names[i].arg \in {"required", "optional"}
  <2>1. names[i].arg \in {"none", "required", "optional"}
    BY NamesType DEF ScanInv, OptionNames
  <2>2. names[i].val = "int"
    BY DEF NoNumber
  <2>3. Acceptable(i)
    BY DEF ScanInv, Validated
  <2> QED BY <1>a, <2>1, <2>2, <2>3 DEF Acceptable
<1>3. Given(i, UseThatCounts(i).value) = NULL
  <2>1. WithEnvironment(i).optarg = Meaning(i, UseThatCounts(i))
    <3>1. CASE FromEnvironment(i)
      BY <1>c, <1>2, <3>1, WithEnvironmentIs
    <3>2. CASE ~FromEnvironment(i)
      <4>1. WithEnvironment(i) = options[i]
        BY <3>2 DEF WithEnvironment
      <4>2. HoldsTheUse(i)
        <5>1. Held
          BY DEF ScanInv
        <5> QED BY <1>1, <1>c, <3>2, <5>1 DEF Held
      <4> QED BY <1>2, <4>1, <4>2 DEF HoldsTheUse
    <3> QED BY <3>1, <3>2
  <2> QED BY <1>2, <2>1 DEF Meaning, NoNumber
<1>4. /\ UseThatCounts(i).value = NULL
      /\ names[i].arg = "optional" => names[i].default = NULL
  BY <1>3, <1>a DEF Given
<1>5. seen[i] # <<>>
  <2> SUFFICES ASSUME seen[i] = <<>> PROVE FALSE
    OBVIOUS
  <2>1. env[i] # NULL
    <3>1. options[i].count > 0 => env[i] # NULL
      BY <1>c DEF ScanInv, Counted
    <3> QED BY <1>1, <3>1 DEF FromEnvironment
  <2>2. UseThatCounts(i).value = env[i]
    BY DEF UseThatCounts
  <2> QED BY <1>4, <2>1, <2>2
<1>6. PICK k \in DOMAIN seen[i] : seen[i][k] = UseThatCounts(i)
  BY <1>5, UseThatCountsIsAUse
<1>7. seen[i][k].value = NULL
  BY <1>4, <1>6
<1>8. names[i].arg = "required" => ~IsRoot(seen[i][k].opt)
  BY <1>7 DEF ScanInv, RequiredArguments
<1> QED BY <1>2, <1>4, <1>7, <1>8

\* The option that scanopt_next returns.
Returned(i) ==
  /\ i >= current_index /\ IsUsed(i)
  /\ \A j \in current_index..(i - 1) : ~IsUsed(j)

LEMMA CursorType ==
  ASSUME ScanInv
  PROVE  /\ current_index \in Int
         /\ \A i \in Ids : i \in Int /\ i + 1 \in 1..(Len(names) + 2)
<1>1. Len(names) \in Nat /\ Ids = 1..Len(names)
  BY DEF ScanInv, ListOK, Ids
<1> QED BY <1>1 DEF ScanInv, TypeOK

LEMMA NextStops ==
  ASSUME ScanInv, phase = "next", NEW i \in Ids, Returned(i), Unassignable(i),
         phase' = "stopped", current_index' = i + 1,
         UNCHANGED <<listVars, args, seen, onDup, env, options, assigned, current>>
  PROVE  ScanInv'
<1>1. UNCHANGED <<names, validated>>
  BY DEF listVars
<1>2. Ids' = Ids /\ \A j : IsRoot(j)' = IsRoot(j)
  BY <1>1, SameList
<1>3. /\ options' \in [Ids -> OptionData] /\ seen' \in [Ids -> Seq(Use)]
      /\ args' \in Seq(Arguments) /\ current_index' \in 1..(Len(names) + 2)
  BY CursorType DEF ScanInv, TypeOK, OptionData, Use, ListOK
<1>4. RequiredArguments' /\ SeenUses'
  BY <1>1, SameList DEF ScanInv, RequiredArguments, SeenUses
<1>c. ~Crashed
  BY DEF Crashed
<1>5. seen[i] # <<>> \/ env[i] # NULL
  <2>1. options[i].count > 0 \/ FromEnvironment(i)
    BY DEF Returned, IsUsed
  <2> QED BY <1>c, <2>1 DEF ScanInv, Counted, FromEnvironment
<1>9. ValidatedNeverStops'
  <2> SUFFICES ASSUME validated PROVE ValidatedNeverStops'
    BY <1>1 DEF ValidatedNeverStops
  <2>1. CASE ~IsRoot(i)
    <3>1. CASE env[i] # NULL
      BY <1>1, <1>2, <2>1, <3>1 DEF ValidatedNeverStops
    <3>2. CASE seen[i] # <<>>
      <4>1. Loose
        BY <2>1, <3>2 DEF ScanInv, SeenUses
      <4> QED BY <1>1, <4>1, LooseIsAReason
    <3> QED BY <1>5, <3>1, <3>2
  <2>2. CASE names[i].variable = "null"
    BY <1>1, <1>2, <1>5, <2>2 DEF ValidatedNeverStops
  <2>3. CASE IsRoot(i) /\ names[i].variable # "null"
    <3>1. IsUsed(i)
      BY DEF Returned
    <3>2. NoNumber(i)
      BY <2>3, NoNullVariable DEF Unassignable, FromEnvironment, Undefinable, NoNumber
    <3>3. /\ \E k \in DOMAIN seen[i] :
               /\ seen[i][k].value = NULL
               /\ names[i].arg = "required" => ~IsRoot(seen[i][k].opt)
          /\ \/ names[i].arg = "required"
             \/ names[i].arg = "optional" /\ names[i].default = NULL
      BY <2>3, <3>1, <3>2, NoNumberHasReason
    <3>4. PICK k \in DOMAIN seen[i] :
            /\ seen[i][k].value = NULL
            /\ names[i].arg = "required" => ~IsRoot(seen[i][k].opt)
      BY <3>3
    <3> QED BY <1>1, <1>2, <3>3, <3>4 DEF ValidatedNeverStops, IsRoot
  <2> QED BY <2>1, <2>2, <2>3
<1>6. Appended'
  BY <1>1, <1>c, StopsBetweenUses
<1> QED BY <1>1, <1>3, <1>4, <1>6, <1>9, Stopping

LEMMA NextReturns ==
  ASSUME ScanInv, phase = "next", NEW i \in Ids, Returned(i),
         options' = [options EXCEPT ![i] = WithEnvironment(i)],
         assigned' = [assigned EXCEPT ![i] = <<Assigned(options'[i], i)>>],
         current'.id = i, phase' = "next", current_index' = i + 1,
         UNCHANGED <<listVars, args, seen, onDup, env>>
  PROVE  ScanInv'
<1>1. UNCHANGED <<names, validated>>
  BY DEF listVars
<1>2. Ids' = Ids /\ \A j : IsRoot(j)' = IsRoot(j)
  BY <1>1, SameList
<1>3. DOMAIN assigned = Ids /\ ~Crashed
  BY DEF Returned, IsUsed, ScanInv, ListOK, Crashed
<1>4. ListOK'
  BY <1>1, <1>2, <1>3 DEF ScanInv, ListOK
<1>5. /\ options' \in [Ids -> OptionData]
      /\ \A j \in Ids : DupMode(j)' = "append" => options'[j].count < SO_DUP_MAX
      /\ Counted' /\ Held' /\ Appended' /\ RequiredArguments' /\ SeenUses'
      /\ Validated' /\ ValidatedNeverStops'
  <2> DEFINE S == {i}
  <2>1. options' = [j \in Ids |-> IF j \in S THEN WithEnvironment(j)
                                  ELSE options[j]]
    <3>1. options \in [Ids -> OptionData]
      BY DEF ScanInv, TypeOK, OptionData
    <3> QED BY <3>1
  <2>2. S \subseteq Ids
    OBVIOUS
  <2> HIDE DEF S
  <2> QED BY <2>1, <2>2, EnvironmentTaken
<1>6. PICK a : assigned' = [assigned EXCEPT ![i] = <<a>>] /\ a = Assigned(options'[i], i)
  OBVIOUS
<1>7. /\ assigned'[i] = <<a>> /\ <<a>> # <<>> /\ Len(<<a>>) = 1 /\ <<a>>[1] = a
      /\ \A j \in Ids \ {i} : assigned'[j] = assigned[j]
  BY <1>3, <1>6
<1>8. TypeOK'
  <2>1. current_index' \in 1..(Len(names) + 2)
    BY CursorType
  <2>2. \A j \in Ids : Len(assigned'[j]) <= 1
    BY <1>7 DEF ScanInv, TypeOK
  <2> QED BY <1>1, <1>2, <1>5, <2>1, <2>2 DEF ScanInv, TypeOK, OptionData
<1>w. /\ options'[i] = WithEnvironment(i)
      /\ \A j \in Ids \ {i} : options'[j] = options[j]
  BY DEF ScanInv, TypeOK
<1>u. options'[i].count > 0
  <2>1. options[i].count > 0 \/ FromEnvironment(i)
    BY DEF Returned, IsUsed
  <2> QED BY <1>3, <1>w, <2>1, WithEnvironmentIs
<1>9. HandedOut'
  <2>0. ToHandOut(i)' /\ ToHandOut(i)
    BY <1>u, UsedIsToHandOut DEF ToHandOut, Returned
  <2> SUFFICES ASSUME NEW j \in Ids
               PROVE  assigned'[j] # <<>> <=> j < i + 1 /\ ToHandOut(j)
    <3>1. \A j \in Ids : ToHandOut(j)' <=> ToHandOut(j)
      BY <1>2, <1>w, <2>0 DEF ToHandOut
    <3> QED BY <1>2, <3>1 DEF HandedOut, Before
  <2>1. assigned[j] # <<>> <=> j < current_index /\ ToHandOut(j)
    BY DEF ScanInv, HandedOut
  <2>2. IsUsed(j) <=> ToHandOut(j)
    BY UsedIsToHandOut
  <2>3. i \in Int /\ j \in Int /\ current_index \in Int /\ i >= current_index
    BY CursorType DEF Returned
  <2>4. CASE j = i
    <3>1. i < i + 1
      BY <2>3
    <3> QED BY <1>7, <2>0, <2>4, <3>1
  <2>5. CASE j < current_index
    <3>1. j < i + 1 /\ j # i
      BY <2>3, <2>5
    <3> QED BY <1>7, <2>1, <2>5, <3>1
  <2>6. CASE j \in current_index..(i - 1)
    <3>1. ~(j < current_index) /\ j # i
      BY <2>3, <2>6
    <3>2. ~IsUsed(j)
      BY <2>6 DEF Returned
    <3> QED BY <1>7, <2>1, <2>2, <3>1, <3>2
  <2>7. CASE j > i
    <3>1. ~(j < current_index) /\ j # i /\ ~(j < i + 1)
      BY <2>3, <2>7
    <3> QED BY <1>7, <2>1, <3>1
  <2>8. j = i \/ j < current_index \/ j \in current_index..(i - 1) \/ j > i
    BY <2>3
  <2> QED BY <2>4, <2>5, <2>6, <2>7, <2>8
<1>10. RightUseCounts'
  <2> SUFFICES ASSUME NEW j \in Ids, HasMeaning(j), assigned'[j] # <<>>
               PROVE  assigned'[j][1] = Meaning(j, UseThatCounts(j))'
    BY <1>1, <1>2, SameList DEF RightUseCounts
  <2>1. UseThatCounts(j)' = UseThatCounts(j)
    BY <1>1 DEF UseThatCounts, DupMode
  <2>2. Meaning(j, UseThatCounts(j))' = Meaning(j, UseThatCounts(j))
    BY <1>1, <2>1, SameList
  <2>3. CASE j # i
    BY <1>7, <2>2, <2>3 DEF ScanInv, RightUseCounts
  <2>4. CASE j = i
    <3>0. IsRoot(i)
      BY <2>4 DEF HasMeaning
    <3>2. HoldsTheUse(i)'
      <4>1. Held' /\ ~Crashed'
        BY <1>5 DEF Crashed
      <4> QED BY <1>2, <1>u, <3>0, <4>1 DEF Held
    <3>3. a = Meaning(i, UseThatCounts(i))'
      BY <1>1, <1>6, <2>4, <3>2 DEF HoldsTheUse, HasMeaning, Assigned
    <3> QED BY <1>7, <2>4, <3>3
  <2> QED BY <2>3, <2>4
<1> QED BY <1>4, <1>5, <1>8, <1>9, <1>10 DEF ScanInv

LEMMA NextEnds ==
  ASSUME ScanInv, phase = "next", \A i \in Ids : i >= current_index => ~IsUsed(i),
         phase' = "done", current_index' = Len(names) + 2,
         UNCHANGED <<listVars, args, seen, onDup, env, options, assigned, current>>
  PROVE  ScanInv'
<1>1. UNCHANGED <<names, validated>>
  BY DEF listVars
<1>2. Ids' = Ids /\ \A j : IsRoot(j)' = IsRoot(j)
  BY <1>1, SameList
<1>3. ListOK'
  BY <1>1, <1>2 DEF ScanInv, ListOK
<1>4. /\ \A j \in Ids : DupMode(j)' = "append" => options'[j].count < SO_DUP_MAX
      /\ Counted' /\ Held' /\ Appended' /\ RequiredArguments' /\ SeenUses'
      /\ Validated' /\ ValidatedNeverStops'
  <2> DEFINE S == {}
  <2>1. options' = [j \in Ids |-> IF j \in S THEN WithEnvironment(j)
                                  ELSE options[j]]
    BY DEF ScanInv, TypeOK
  <2>2. S \subseteq Ids
    OBVIOUS
  <2> HIDE DEF S
  <2> QED BY <2>1, <2>2, EnvironmentTaken
<1>5. Len(names) \in Nat /\ Ids = 1..Len(names)
  BY DEF ScanInv, ListOK, Ids
<1>6. TypeOK'
  <2>1. current_index' \in 1..(Len(names) + 2)
    BY <1>5
  <2> QED BY <1>1, <1>2, <1>4, <2>1 DEF ScanInv, TypeOK
<1>7. HandedOut'
  <2> SUFFICES ASSUME NEW j \in Ids
               PROVE  assigned[j] # <<>> <=> j < Len(names) + 2 /\ ToHandOut(j)
    <3>1. \A j \in Ids : ToHandOut(j)' <=> ToHandOut(j)
      BY <1>1, <1>2 DEF ToHandOut
    <3> QED BY <1>1, <1>2, <3>1 DEF HandedOut, Before
  <2>1. assigned[j] # <<>> <=> j < current_index /\ ToHandOut(j)
    BY DEF ScanInv, HandedOut
  <2>2. IsUsed(j) <=> ToHandOut(j)
    BY UsedIsToHandOut
  <2>3. current_index \in Int /\ j \in Int /\ j < Len(names) + 2
    BY <1>5 DEF ScanInv, TypeOK
  <2>4. j < current_index \/ j >= current_index
    BY <2>3
  <2> QED BY <2>1, <2>2, <2>3, <2>4
<1>8. RightUseCounts'
  <2> SUFFICES ASSUME NEW j \in Ids, HasMeaning(j), assigned[j] # <<>>
               PROVE  assigned[j][1] = Meaning(j, UseThatCounts(j))'
    BY <1>1, <1>2, SameList DEF RightUseCounts
  <2>1. UseThatCounts(j)' = UseThatCounts(j)
    BY <1>1 DEF UseThatCounts, DupMode
  <2>2. Meaning(j, UseThatCounts(j))' = Meaning(j, UseThatCounts(j))
    BY <1>1, <2>1, SameList
  <2> QED BY <2>2 DEF ScanInv, RightUseCounts
<1> QED BY <1>3, <1>4, <1>6, <1>7, <1>8 DEF ScanInv

LEMMA NextStep == ASSUME ScanInv, scanopt_next("next", "done") PROVE ScanInv'
<1>1. phase = "next" /\ UNCHANGED <<listVars, args, seen, onDup, env>>
  BY DEF scanopt_next
<1>2. \/ \E i \in Ids :
           /\ Returned(i)
           /\ IF Unassignable(i)
              THEN phase' = "stopped" /\ UNCHANGED <<options, assigned, current>>
              ELSE /\ options' = [options EXCEPT ![i] = WithEnvironment(i)]
                   /\ assigned' = [assigned EXCEPT
                                     ![i] = <<Assigned(options'[i], i)>>]
                   /\ current'.id = i
                   /\ phase' = "next"
           /\ current_index' = i + 1
      \/ /\ \A i \in Ids : i >= current_index => ~IsUsed(i)
         /\ current_index' = Len(names) + 2
         /\ phase' = "done"
         /\ UNCHANGED <<options, assigned, current>>
  BY DEF scanopt_next, Returned, Following
<1>3. CASE \A i \in Ids : i >= current_index => ~IsUsed(i)
  BY <1>1, <1>2, <1>3, NextEnds DEF Returned
<1>4. CASE ~(\A i \in Ids : i >= current_index => ~IsUsed(i))
  <2>1. PICK i \in Ids :
           /\ Returned(i)
           /\ IF Unassignable(i)
              THEN phase' = "stopped" /\ UNCHANGED <<options, assigned, current>>
              ELSE /\ options' = [options EXCEPT ![i] = WithEnvironment(i)]
                   /\ assigned' = [assigned EXCEPT
                                     ![i] = <<Assigned(options'[i], i)>>]
                   /\ current'.id = i
                   /\ phase' = "next"
           /\ current_index' = i + 1
    BY <1>2, <1>4
  <2>2. CASE Unassignable(i)
    BY <1>1, <2>1, <2>2, NextStops
  <2>3. CASE ~Unassignable(i)
    BY <1>1, <2>1, <2>3, NextReturns
  <2> QED BY <2>2, <2>3
<1> QED BY <1>3, <1>4

LEMMA StutterStep == ASSUME ScanInv, UNCHANGED vars PROVE ScanInv'
<1>1. UNCHANGED <<names, validated, args, seen, options, onDup, env, phase,
                  current_index, assigned, current>>
  BY DEF vars, listVars
<1>2. /\ Ids' = Ids
      /\ \A i : /\ IsRoot(i)' = IsRoot(i) /\ HasRoot(i)' = HasRoot(i)
                /\ HasMeaning(i)' = HasMeaning(i) /\ DupMode(i)' = DupMode(i)
                /\ \A u : Given(i, u)' = Given(i, u) /\ Meaning(i, u)' = Meaning(i, u)
  BY <1>1, SameList DEF DupMode
<1>3. TypeOK' /\ ListOK'
  BY <1>1, <1>2 DEF ScanInv, TypeOK, ListOK, Crashed
<1>4. Counted' /\ RequiredArguments' /\ SeenUses' /\ HandedOut' /\ Validated'
  BY <1>1, <1>2, SameList DEF ScanInv, Counted, RequiredArguments, SeenUses,
     HandedOut, ToHandOut, Validated, Crashed
<1>5. \A i : UseThatCounts(i)' = UseThatCounts(i)
  BY <1>1 DEF UseThatCounts, DupMode
<1>6. \A i : Meaning(i, UseThatCounts(i))' = Meaning(i, UseThatCounts(i))
  BY <1>1, <1>5, SameList
<1>7. Held' /\ RightUseCounts'
  BY <1>1, <1>2, <1>6 DEF ScanInv, Held, HoldsTheUse, RightUseCounts, Crashed
<1>8. Appended' /\ ValidatedNeverStops'
  BY <1>1, <1>2 DEF ScanInv, Appended, Kept, TextOfUse, ValidatedNeverStops, Crashed
<1> QED BY <1>3, <1>4, <1>7, <1>8 DEF ScanInv

-----------------------------------------------------------------------------
\* The scanner keeps, for every list of options, command line and environment,
\* the working data of the use that counts, and hands out in scanopt_next what
\* was used up to its cursor.
THEOREM ScanInvariant == Spec => []ScanInv
<1>1. Init => ScanInv
  BY InitScan
<1>2. ScanInv /\ [Next]_vars => ScanInv'
  BY ValidateStep, ScanStep, ApplyEnvironmentStep, StartNextStep, NextStep,
     StutterStep DEF Next
<1> QED BY <1>1, <1>2, PTL DEF Spec

\* The scanner's data keep their types, and while the program runs the number
\* of uses of an option that appends stays below SO_DUP_MAX.
THEOREM TypeCorrect == Spec => []TypeOK
<1>1. ScanInv => TypeOK
  BY DEF ScanInv
<1> QED BY <1>1, ScanInvariant, PTL

\* A variable that scanopt_next has assigned has the value of the first or the
\* last use, as the mode for duplicates says, under whatever names the option
\* was given; that of the environment only if the command line has none.
THEOREM RightUseCountsTheorem == Spec => []RightUseCounts
<1>1. ScanInv => RightUseCounts
  BY DEF ScanInv
<1> QED BY <1>1, ScanInvariant, PTL

\* argArray[] has the texts of all uses of an option of mode append, in order,
\* and no others: the first at 0, the k-th at k, the SO_DUP_MAX-th behind the
\* array.
THEOREM AppendKeepsAllTheorem == Spec => []AppendKeepsAll
<1>1. ScanInv => AppendKeepsAll
  <2> SUFFICES ASSUME ScanInv, NEW i \in Ids, names[i].dup = "append",
                      seen[i] # <<>>
               PROVE  /\ ~Crashed \/ Len(seen[i]) = SO_DUP_MAX =>
                           \A p \in 0..SO_DUP_MAX :
                             options[i].argArray[p] = TextAt(i, p)
                      /\ Len(seen[i]) <= SO_DUP_MAX
                      /\ Len(seen[i]) = SO_DUP_MAX => Crashed
    BY DEF AppendKeepsAll
  <2>1. ASSUME NEW p \in 0..SO_DUP_MAX, ~Crashed \/ Len(seen[i]) = SO_DUP_MAX
        PROVE  options[i].argArray[p] = TextAt(i, p)
    <3>1. options[i].argArray[p] = Kept(i, p)
      BY <2>1 DEF ScanInv, Appended
    <3>2. Kept(i, p) = TextAt(i, p)
      BY DEF Kept, TextAt, TextOfUse
    <3> QED BY <3>1, <3>2
  <2>2. Len(seen[i]) = SO_DUP_MAX => Crashed
    BY NoneFull
  <2>3. Len(seen[i]) <= SO_DUP_MAX
    BY DEF ScanInv, SeenUses
  <2> QED BY <2>1, <2>2, <2>3
<1> QED BY <1>1, ScanInvariant, PTL

\* A list that scanopt_validate has accepted leaves the scanner six ways to
\* stop, and no others.
THEOREM ValidatedNeverStopsTheorem == Spec => []ValidatedNeverStops
<1>1. ScanInv => ValidatedNeverStops
  BY DEF ScanInv
<1> QED BY <1>1, ScanInvariant, PTL

\* A program that calls scanopt_next until it returns -1 has been given each
\* option that was used, each basic option of the environment, each synonym and
\* complement that the environment has defined, and nothing else.
THEOREM EveryUsedOptionTheorem == Spec => []EveryUsedOption
<1>1. ScanInv => EveryUsedOption
  <2> SUFFICES ASSUME ScanInv, phase = "done", NEW i \in Ids
               PROVE  assigned[i] # <<>> <=>
                        \/ seen[i] # <<>>
                        \/ env[i] # NULL /\ (IsRoot(i) \/ options[i].count > 0)
    BY DEF EveryUsedOption
  <2>1. i < current_index
    BY DEF ScanInv, HandedOut, ListOK, Ids
  <2>2. assigned[i] # <<>> <=> ToHandOut(i)
    BY <2>1 DEF ScanInv, HandedOut
  <2>3. seen[i] # <<>> => options[i].count > 0
    <3>1. seen[i] # <<>> => Len(seen[i]) > 0
      <4>1. seen[i] \in Seq(Use)
        BY DEF ScanInv, TypeOK, Use
      <4> QED BY <4>1, EmptySeq, LenProperties
    <3> QED BY <3>1 DEF ScanInv, Counted, Crashed
  <2>4. options[i].count > 0 => seen[i] # <<>> \/ env[i] # NULL
    BY DEF ScanInv, Counted, Crashed
  <2> QED BY <2>2, <2>3, <2>4 DEF ToHandOut
<1> QED BY <1>1, ScanInvariant, PTL
=============================================================================
