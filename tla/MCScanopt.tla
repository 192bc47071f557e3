----------------------------- MODULE MCScanopt ------------------------------
(***************************************************************************)
(* A list with one option of each kind for TLC, every command line of up   *)
(* to three arguments, and environments that set one variable or several.  *)
(***************************************************************************)
EXTENDS Scanopt

Entry(kind, root, arg, val, dup, init, default) ==
  [named |-> TRUE, long |-> TRUE, kind |-> kind, root |-> root, arg |-> arg,
   variable |-> IF val = "text" /\ dup = "default" THEN "none" ELSE "set",
   val |-> val, dup |-> dup, init |-> init, default |-> default]

LIST   == 1
LEVEL  == 2
NAME   == 3
ALIAS  == 4
FLAG   == 5
NOFLAG == 6
COUNT  == 7

MCNames == <<
  Entry("root", 0, "required", "array", "append", NULL, NULL),
  Entry("root", 0, "optional", "int", "ignore", NULL, 7),
  Entry("root", 0, "required", "text", "default", NULL, NULL),
  Entry("syn", NAME, "none", "text", "default", NULL, NULL),
  Entry("root", 0, "none", "set", "overwrite", 0, NULL),
  Entry("comp", FLAG, "none", "text", "default", NULL, NULL),
  Entry("root", 0, "none", "count", "default", 0, NULL)>>

Token(opt, form, arg) == [opt |-> opt, form |-> form, arg |-> arg]

Tokens ==
  {Token(LIST, "long", 1), Token(LIST, "long", 2),
   Token(LEVEL, "long", NULL), Token(LEVEL, "long", 2),
   Token(NAME, "long", 1), Token(NAME, "short", NULL),
   Token(ALIAS, "long", 2), Token(ALIAS, "short", NULL),
   Token(FLAG, "long", NULL), Token(FLAG, "long", 1),
   Token(NOFLAG, "short", NULL), Token(NOFLAG, "long", 1),
   Token(COUNT, "long", NULL),
   Token(Unknown, "long", NULL), Token(Word, "word", 2)}

CommandLines(n) == UNION {[1..k -> Tokens] : k \in 0..n}

\* Lists that scanopt_validate has something to say of: a counter with an
\* argument, a flag that is a number, a level and a name with and without a
\* default value, and an option without a name; a counter and a flag with a
\* synonym.
Counting == Entry("root", 0, "required", "count", "overwrite", NULL, NULL)
Valid == [MCNames EXCEPT ![COUNT] = Counting]

OtherLists ==
  {Valid, [Valid EXCEPT ![LEVEL].default = NULL],
   [Valid EXCEPT ![LEVEL].default = NULL, ![LEVEL].val = "count"],
   [Valid EXCEPT ![FLAG].val = "int"],
   [Valid EXCEPT ![COUNT].arg = "none"],
   [Valid EXCEPT ![ALIAS].root = COUNT], [Valid EXCEPT ![NOFLAG].kind = "syn"],
   [Valid EXCEPT ![NAME].variable = "set", ![NAME].default = 3],
   [Valid EXCEPT ![LIST].named = FALSE]}

\* Lists whose synonyms and complements are not names of a basic option: of
\* none at all, without and with a long name, of each other; names of options
\* 1 and 2; and variables without an address.
Gone == Len(MCNames) + 2

LooseLists ==
  {[Valid EXCEPT ![ALIAS].root = Gone],
   [Valid EXCEPT ![ALIAS].root = Gone, ![ALIAS].long = FALSE],
   [Valid EXCEPT ![NOFLAG].root = Gone], [Valid EXCEPT ![NOFLAG].root = NAME],
   [Valid EXCEPT ![ALIAS].root = NOFLAG],
   [Valid EXCEPT ![ALIAS].root = LIST, ![NOFLAG].root = ALIAS],
   [Valid EXCEPT ![ALIAS].root = LEVEL, ![NOFLAG].root = LEVEL],
   [Valid EXCEPT ![NAME].variable = "null"],
   [Valid EXCEPT ![LEVEL].variable = "null"]}

MCPrograms ==
  ({MCNames} \X CommandLines(3)) \cup ((OtherLists \cup LooseLists) \X CommandLines(2))
    \cup ({Valid} \X [1..3 -> {Token(LIST, "long", 1), Token(COUNT, "long", 2)}])

Unset == [i \in 1..Len(MCNames) |-> NULL]

MCEnvironments ==
  {Unset, [Unset EXCEPT ![ALIAS] = 4], [Unset EXCEPT ![NOFLAG] = 1],
   [Unset EXCEPT ![NAME] = 4, ![LEVEL] = 4, ![FLAG] = 0]}
=============================================================================
