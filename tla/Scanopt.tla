------------------------------ MODULE Scanopt -------------------------------
(***************************************************************************)
(* The option scanner, scanopt/scanopt.c: scanopt_scan takes the options   *)
(* from the command line through getopt_long and keeps them in the list;   *)
(* scanopt_next hands them out one by one, and takes from the environment  *)
(* those that were not on the command line.                                *)
(*                                                                         *)
(* The id of an option is its position in the list.  The texts of          *)
(* arguments are numbers, what atoi makes of them.  A program that crashes *)
(* or fails an assertion has "stopped"; one that has overwritten its own   *)
(* counts is "corrupt", and is not followed any further.                   *)
(***************************************************************************)
EXTENDS Integers, Sequences, SequencesExt

CONSTANTS
  Programs,     \* the lists of options, each with an argument vector
  StartPhases,  \* "new" if the program validates its list, "scan" if not
  Environments, \* the environments: for every option a text, or NULL
  OnDups,       \* the defaults scanopt_set_ondup may have set
  SO_DUP_MAX

VARIABLES
  names,        \* the list of options: names and variables, in one table
  validated,    \* scanopt_validate has returned
  args,         \* what getopt_long has not taken yet of argv
  seen,         \* seen[i]: what getopt_long has returned for the basic option i
                \* and its other names, in order
  options,      \* the working data of option_t
  onDup,
  env,          \* env[i]: the value of the environment variable of i
  phase,        \* "new", "refused", "scan", "scanned", "next", "done", "stopped"
                \* or "corrupt"
  current_index,
  assigned,     \* assigned[i]: <<>>, or <<v>> with v what optval, and the variable
                \* of option i if it has one, were given
  current       \* what scanopt_next has returned last: id, optarg, optcount

listVars == <<names, validated>>
vars == <<listVars, args, seen, options, onDup, env, phase, current_index,
          assigned, current>>

NULL    == -1
Word    == 0      \* an argument that is no option
Unknown == -1     \* an option that is not in the list

Ids       == DOMAIN names
IsRoot(i) == names[i].kind = "root"

\* An entry of the three tables.  The root of a synonym or a complement is any
\* id: whether the list has that option, nothing tests.  A variable may have a
\* null pointer for its address; what the macros make of an option without a
\* variable is an optional text of mode "default".
OptionNames ==
  {n \in [named : BOOLEAN, long : BOOLEAN,
          kind : {"root", "syn", "comp"}, root : Nat,
          arg : {"none", "required", "optional"},
          variable : {"none", "null", "set"},
          val : {"text", "set", "unset", "count", "int", "array"},
          dup : {"default", "overwrite", "ignore", "append", "error"},
          init : Int, default : Int] :
     n.variable = "none" => /\ n.val = "text" /\ n.dup = "default"
                            /\ n.init = NULL /\ n.default = NULL}

\* An element of argv, and the option that getopt_long finds in it.
Arguments ==
  {t \in [opt : Int, form : {"long", "short", "word"}, arg : Int] :
     t.opt = Word => t.arg # NULL}

ASSUME ProgramsAssumption ==
  \A c \in Programs :
    /\ c[1] \in Seq(OptionNames)
    /\ c[2] \in Seq(Arguments)
    /\ \A e \in Environments : e \in [DOMAIN c[1] -> Int]
ASSUME PhasesAssumption == StartPhases \subseteq {"new", "scan"}
ASSUME OnDupsAssumption ==
  OnDups \subseteq {"overwrite", "ignore", "append", "error"}
ASSUME DupMaxAssumption == SO_DUP_MAX \in Nat /\ SO_DUP_MAX > 1

\* SO_OPTION_ARG, the low byte of the type.  In a synonym or a complement that
\* is the low byte of an id, and an argument type only if that is 0, 1 or 2.
ArgType(i) ==
  LET low == names[i].root % 256
  IN  CASE IsRoot(i) -> names[i].arg
        [] ~IsRoot(i) /\ low = 0 -> "none"
        [] ~IsRoot(i) /\ low = 1 -> "required"
        [] ~IsRoot(i) /\ low = 2 -> "optional"
        [] ~IsRoot(i) /\ low > 2 -> "id"

\* The option that the name of i stands for: find_shortName and the table of
\* long names follow a synonym, scanopt_scan then follows a complement.
Direct(i) == IF names[i].kind = "syn" THEN names[i].root ELSE i

Complements(i) == names[Direct(i)].kind = "comp"
Item(i) == IF Complements(i) THEN names[Direct(i)].root ELSE Direct(i)

\* find_id finds the option, and the assert is for no synonym.
Reached(i) ==
  /\ Direct(i) \in Ids /\ names[Direct(i)].kind # "syn"
  /\ Item(i) \in Ids

\* How getopt_long treats the argument of a name.  The short name of a synonym
\* or a complement takes none; the has_arg of a long complement, or of a long
\* synonym of what is no basic option, is no argument type but not 0 either,
\* which getopt_long takes for an argument behind "=" that may be left out.
GetoptArg(t) ==
  LET i == t.opt
  IN  CASE IsRoot(i) -> names[i].arg
        [] ~IsRoot(i) /\ t.form # "long" -> "none"
        [] names[i].kind = "comp" /\ t.form = "long" -> "id"
        [] names[i].kind = "syn" /\ t.form = "long" -> ArgType(names[i].root)

\* The values optarg may then have: the getopt_long of glibc sets it to what is
\* behind "=", that of BSD leaves it a null pointer.
Passed(t) == IF GetoptArg(t) = "id" THEN {t.arg, NULL} ELSE {t.arg}

\* Whatever is next in argv is the argument of an option that requires one.
TextOf(t) == IF t.opt = Word THEN t.arg ELSE 0

-----------------------------------------------------------------------------
\* scanopt_new: every value is the initial one.
Init ==
  /\ \E c \in Programs : names = c[1] /\ args = c[2]
  /\ validated = FALSE
  /\ seen = [i \in Ids |-> <<>>]
  /\ options = [i \in Ids |-> [count |-> 0, optarg |-> names[i].init,
                               iVal |-> 0,
                               argArray |-> [k \in 0..SO_DUP_MAX |-> NULL]]]
  /\ onDup \in OnDups
  /\ env \in Environments
  /\ phase \in StartPhases
  /\ current_index = 1
  /\ assigned = [i \in Ids |-> <<>>]
  /\ current = [id |-> NULL, optarg |-> NULL, optcount |-> 0]

\* Mutant: the type of an option without argument is not looked at.
ArgumentOnly(i) == ArgType(i) = "required" => names[i].default = NULL

\* The ARG_TYPE constraints.
Acceptable(i) ==
  /\ ArgType(i) \in {"none", "required"} => names[i].default = NULL
  /\ ArgType(i) = "none" => names[i].val \in {"text", "set", "unset"}

\* An option is named if it has some name, none of them empty, and a short one
\* of one character other than ":" and "?".  The constraints on complements
\* are for negative ids, at which scanopt_new ends the list.
scanopt_validate ==
  /\ phase = "new"
  /\ IF \A i \in Ids : names[i].named /\ Acceptable(i)
     THEN phase' = "scan" /\ validated' = TRUE
     ELSE phase' = "refused" /\ UNCHANGED validated
  /\ UNCHANGED <<names, args, seen, options, onDup, env, current_index,
                 assigned, current>>

-----------------------------------------------------------------------------
Flag(val, complement) == IF (val = "set") # complement THEN 1 ELSE 0

\* The text an option is defined by: an optional argument has a default.
Given(i, value) ==
  IF ArgType(i) = "optional" /\ value = NULL THEN names[i].default ELSE value

\* atoi of a null pointer: a counter without initial value or argument.
ConvertsNull(i, value) ==
  /\ names[i].val = "count"
  /\ IF ArgType(i) = "none" THEN options[i].optarg = NULL
     ELSE Given(i, value) = NULL

\* Where define_option does not return.
Undefinable(i, value) == ArgType(i) = "id" \/ ConvertsNull(i, value)

\* define_option.  A counter restarts at its initial value with each use.
Defined(o, i, complement, value) ==
  LET n == names[i]
      v == Given(i, value)
      a == ArgType(i)
      d == CASE a = "none" /\ n.val \in {"set", "unset"} ->
                  [o EXCEPT !.optarg = Flag(n.val, complement),
                            !.iVal = Flag(n.val, complement)]
             [] a = "none" /\ n.val = "count" ->
                  [o EXCEPT !.iVal = o.optarg + 1]
             [] a = "none" /\ n.val \notin {"set", "unset", "count"} -> o
             [] a # "none" ->
                  [o EXCEPT !.optarg = v,
                            !.iVal = IF n.val = "count" THEN @ + v ELSE @]
  IN  IF n.dup = "append" THEN [d EXCEPT !.argArray[0] = v] ELSE d

DupMode(i) == IF names[i].dup = "default" THEN onDup ELSE names[i].dup

\* Mutant: an option in append mode is defined again by each use.
AppendDefines(i, complement, value) ==
  LET o == [options[i] EXCEPT !.count = @ + 1]
  IN  IF o.count = 1 \/ DupMode(i) \in {"overwrite", "append"}
      THEN Defined(o, i, complement, value) ELSE o

\* One more use of option i.  The second one is appended at index 2.
Used(i, complement, value) ==
  LET o == [options[i] EXCEPT !.count = @ + 1]
  IN  CASE o.count = 1 \/ DupMode(i) = "overwrite" ->
             Defined(o, i, complement, value)
        [] o.count > 1 /\ DupMode(i) \in {"ignore", "error"} -> o
        [] o.count > 1 /\ DupMode(i) = "append" ->
             [o EXCEPT !.argArray[o.count] = value]

Defines(i) == options[i].count = 0 \/ DupMode(i) = "overwrite"
Appends(i) == options[i].count > 0 /\ DupMode(i) = "append"

\* Mutant: the assert lets one more use through.
OverflowsLate(i) == Appends(i) /\ options[i].count + 1 > SO_DUP_MAX

\* The use is stored behind argArray[], in argArray[SO_DUP_MAX].
Overflows(i) == Appends(i) /\ options[i].count + 1 >= SO_DUP_MAX

-----------------------------------------------------------------------------
(***************************************************************************)
(* scanopt_scan, one round of its loop at a time.                          *)
(***************************************************************************)

\* One more use of option r under the name i.  The assert is behind the store:
\* if that has hit the count, which is next to argArray[], the assert reads
\* what the store has left there, and fails or not.
TakeFor(r, i, value) ==
  /\ seen' = [seen EXCEPT ![r] = Append(@, [opt |-> i, value |-> value])]
  /\ IF Defines(r) /\ Undefinable(r, value)
     THEN phase' = "stopped" /\ UNCHANGED options
     ELSE /\ options' = [options EXCEPT ![r] = Used(r, Complements(i), value)]
          /\ phase' \in IF Overflows(r) THEN {"stopped", "corrupt"} ELSE {phase}

\* getopt_long has returned option i with the text value and leaves rest.
Take(i, value, rest) ==
  /\ args' = rest
  /\ IF Reached(i) THEN TakeFor(Item(i), i, value)
     ELSE phase' = "stopped" /\ UNCHANGED <<seen, options>>
  /\ UNCHANGED <<listVars, onDup, env, current_index, assigned, current>>

\* create_longopt_struct looks up the root of every synonym with a long name.
LongNamesHaveRoots ==
  \A i \in Ids : names[i].kind = "syn" /\ names[i].long => names[i].root \in Ids

ScanUnstarted ==
  /\ phase = "scan" /\ ~LongNamesHaveRoots
  /\ phase' = "stopped"
  /\ UNCHANGED <<listVars, args, seen, options, onDup, env, current_index,
                 assigned, current>>

Scanning == phase = "scan" /\ LongNamesHaveRoots

\* getopt_long finds the name in its tables.
Found(t) == t.opt \in Ids /\ (t.form = "long" => names[t.opt].long)

AtOption == Scanning /\ args # <<>> /\ Found(Head(args))

\* An option whose argument is a part of it, or which takes none.
ScanAttached ==
  /\ AtOption
  /\ GetoptArg(Head(args)) = "none" => Head(args).arg = NULL
  /\ GetoptArg(Head(args)) = "required" => Head(args).arg # NULL
  /\ \E value \in Passed(Head(args)) :
       Take(Head(args).opt, value, Tail(args))

\* A required argument may be the next one, even if that is an option.
ScanDetached ==
  /\ AtOption
  /\ GetoptArg(Head(args)) = "required"
  /\ Head(args).arg = NULL
  /\ Len(args) > 1
  /\ Take(Head(args).opt, TextOf(args[2]), Tail(Tail(args)))

\* ':' and '?': the message is printed and the loop goes on.
ScanError ==
  /\ Scanning /\ args # <<>>
  /\ \/ Head(args).opt # Word /\ ~Found(Head(args))
     \/ AtOption /\ GetoptArg(Head(args)) = "none" /\ Head(args).arg # NULL
     \/ /\ AtOption /\ GetoptArg(Head(args)) = "required"
        /\ Head(args).arg = NULL /\ Len(args) = 1
  /\ args' = Tail(args)
  /\ UNCHANGED <<listVars, seen, options, onDup, env, phase, current_index,
                 assigned, current>>

\* getopt_long stops at the first argument that is no option.
ScanEnd ==
  /\ Scanning
  /\ args # <<>> => Head(args).opt = Word
  /\ phase' = "scanned"
  /\ UNCHANGED <<listVars, args, seen, options, onDup, env, current_index,
                 assigned, current>>

scanopt_scan ==
  ScanUnstarted \/ ScanAttached \/ ScanDetached \/ ScanError \/ ScanEnd

-----------------------------------------------------------------------------
\* Mutant: the environment is applied to options of the command line too.
AlwaysFromEnvironment(i) == env[i] # NULL

\* apply_env, for an option that was not used.
FromEnvironment(i) == options[i].count = 0 /\ env[i] # NULL

WithEnvironment(i) ==
  IF FromEnvironment(i)
  THEN Defined([options[i] EXCEPT !.count = @ + 1], i, FALSE, env[i])
  ELSE options[i]

\* scanopt_apply_environment, which does not leave out synonyms and
\* complements: define_option fails for them, or defines them like an option.
scanopt_apply_environment ==
  /\ phase = "scanned"
  /\ IF \E i \in Ids : FromEnvironment(i) /\ Undefinable(i, env[i])
     THEN phase' = "stopped" /\ UNCHANGED options
     ELSE /\ options' = [i \in Ids |-> WithEnvironment(i)]
          /\ phase' = "next"
  /\ UNCHANGED <<listVars, args, seen, onDup, env, current_index, assigned,
                 current>>

\* The options scanopt_next stops at: what has been used, on the command line
\* or, a basic option, by the environment at the time of this call.  `continue`
\* goes to the loop's condition, so that what has a count is not passed over.
IsUsed(i) == options[i].count > 0 \/ (IsRoot(i) /\ FromEnvironment(i))

\* The call does not return: a conversion of, or a store through, a null pointer.
Unassignable(i) ==
  \/ FromEnvironment(i) /\ ConvertsNull(i, env[i])
  \/ names[i].variable = "null"
  \/ names[i].val = "int" /\ WithEnvironment(i).optarg = NULL

\* Mutant: the index is moved before and after the test.
Skipping(i) == i + 2

Following(i) == i + 1

\* assign_variable.
Assigned(o, i) ==
  CASE names[i].val \in {"set", "unset", "count"} -> o.iVal
    [] names[i].val \in {"text", "int"} -> o.optarg
    [] names[i].val = "array" -> o.argArray

\* One call of scanopt_next: the next used option, or the end of the list.
scanopt_next(returned, ended) ==
  /\ phase = "next"
  /\ \/ \E i \in Ids :
          /\ i >= current_index /\ IsUsed(i)
          /\ \A j \in current_index..(i - 1) : ~IsUsed(j)
          /\ IF Unassignable(i)
             THEN phase' = "stopped" /\ UNCHANGED <<options, assigned, current>>
             ELSE /\ options' = [options EXCEPT ![i] = WithEnvironment(i)]
                  /\ assigned' = [assigned EXCEPT
                                    ![i] = <<Assigned(options'[i], i)>>]
                  /\ current' = [id |-> i, optarg |-> options'[i].optarg,
                                 optcount |-> options'[i].count]
                  /\ phase' = returned
          /\ current_index' = Following(i)
     \/ /\ \A i \in Ids : i >= current_index => ~IsUsed(i)
        /\ current_index' = Len(names) + 2
        /\ phase' = ended
        /\ UNCHANGED <<options, assigned, current>>
  /\ UNCHANGED <<listVars, args, seen, onDup, env>>

\* A program that applies the environment at once, or leaves that to
\* scanopt_next.
StartNext ==
  /\ phase = "scanned"
  /\ phase' = "next"
  /\ UNCHANGED <<listVars, args, seen, options, onDup, env, current_index,
                 assigned, current>>

Next ==
  scanopt_validate \/ scanopt_scan \/ scanopt_apply_environment \/ StartNext
    \/ scanopt_next("next", "done")

Spec == Init /\ [][Next]_vars

-----------------------------------------------------------------------------
Crashed == phase \in {"stopped", "corrupt"}

\* The variables keep their types; while the program runs, the uses of an
\* option that appends have their places in argArray[].
TypeOK ==
  /\ options \in [Ids -> [count : Nat, optarg : Int, iVal : Int,
                          argArray : [0..SO_DUP_MAX -> Int]]]
  /\ \A i \in Ids :
       /\ DupMode(i) = "append" /\ ~Crashed => options[i].count < SO_DUP_MAX
       /\ Len(assigned[i]) <= 1
  /\ seen \in [Ids -> Seq([opt : Ids, value : Int])]
  /\ phase \in {"new", "refused", "scan", "scanned", "next", "done", "stopped",
                "corrupt"}
  /\ validated \in BOOLEAN
  /\ current_index \in 1..(Len(names) + 2)
  /\ current.id \in Ids \cup {NULL}

\* What one use of option i means.
Meaning(i, u) ==
  IF names[i].arg = "none" THEN Flag(names[i].val, Complements(u.opt))
  ELSE Given(i, u.value)

HasMeaning(i) ==
  /\ IsRoot(i)
  /\ IF names[i].arg = "none" THEN names[i].val \in {"set", "unset"}
     ELSE names[i].val \in {"text", "int"}

UseThatCounts(i) ==
  IF seen[i] = <<>> THEN [opt |-> i, value |-> env[i]]
  ELSE IF DupMode(i) = "overwrite" THEN Last(seen[i]) ELSE Head(seen[i])

\* Which of several uses counts is what the mode for duplicates says
\* (scanopt.h:16-19), under any mixture of names, synonyms and complements;
\* the environment counts only for an option the command line does not have.
RightUseCounts ==
  \A i \in Ids :
    HasMeaning(i) /\ assigned[i] # <<>> =>
      assigned[i][1] = Meaning(i, UseThatCounts(i))

\* The text of the k-th use; only the first may be the default value of an
\* argument that was left out.
TextOfUse(i, k) ==
  IF k = 1 THEN Given(i, seen[i][1].value) ELSE seen[i][k].value

\* argArray[p] of an option that appends and has been used.
TextAt(i, p) ==
  IF p = 0 \/ p \in 2..Len(seen[i]) THEN TextOfUse(i, IF p = 0 THEN 1 ELSE p)
  ELSE NULL

\* argArray[] has the texts of all uses of an option that appends, in their
\* order, and otherwise null pointers (scanopt.h:17).  It is not quite the
\* "argv-style array of values" of scanopt.c:95: the first text is at 0 and the
\* k-th at k, so that a null pointer ends it behind the first.  And the use
\* that finds no room is the last one but is not refused: its text is stored
\* at SO_DUP_MAX, behind the array, before the assert (scanopt.c:311-312).
AppendKeepsAll ==
  \A i \in Ids :
    names[i].dup = "append" /\ seen[i] # <<>> =>
      /\ ~Crashed \/ Len(seen[i]) = SO_DUP_MAX =>
           \A p \in 0..SO_DUP_MAX : options[i].argArray[p] = TextAt(i, p)
      /\ Len(seen[i]) <= SO_DUP_MAX
      /\ Len(seen[i]) = SO_DUP_MAX => Crashed

\* The roots of all synonyms and complements are basic options of the list.
HasRoot(i) ==
  IsRoot(i) \/ (names[i].root \in Ids /\ IsRoot(names[i].root))

\* A program whose list scanopt_validate has accepted stops, whatever it is
\* called with, for one of six reasons that nothing tests: more arguments than
\* argArray[] has room for; a synonym or a complement of what is no basic option
\* of the list, though scanopt.c:580-581 says that scanopt_validate looks
\* whether it is "present in the table"; a variable in the environment for a
\* synonym or a complement; an optional argument that is left out and has no
\* default value, which the table of scanopt.c:595-599 asks for; a required
\* argument under a name that takes none, a complement or the short name of a
\* synonym; and the use of an option whose variable has a null address.
ValidatedNeverStops ==
  validated /\ Crashed =>
    \E i \in Ids :
      \/ DupMode(i) = "append" /\ Len(seen[i]) >= SO_DUP_MAX
      \/ ~HasRoot(i)
      \/ ~IsRoot(i) /\ env[i] # NULL
      \/ /\ names[i].arg = "optional" /\ names[i].default = NULL
         /\ \E k \in DOMAIN seen[i] : seen[i][k].value = NULL
      \/ /\ names[i].arg = "required"
         /\ \E k \in DOMAIN seen[i] :
              seen[i][k].value = NULL /\ ~IsRoot(seen[i][k].opt)
      \/ names[i].variable = "null" /\ (seen[i] # <<>> \/ env[i] # NULL)

\* A program that calls scanopt_next until it returns -1 has seen every
\* option that the command line has counted a use for, and every basic option
\* of the environment, whichever way the environment was applied.  "Never
\* return anything that is NOT associated with the root" (scanopt.c:379-380) is
\* not what it does: it has also seen the synonyms and the complements that
\* have a variable of their own in the environment, if that was applied by
\* scanopt_apply_environment.  It has seen nothing else.
EveryUsedOption ==
  phase = "done" =>
    \A i \in Ids :
      assigned[i] # <<>> <=>
        \/ seen[i] # <<>>
        \/ env[i] # NULL /\ (IsRoot(i) \/ options[i].count > 0)
=============================================================================
