-------------------------- MODULE NetstringUtility --------------------------
(***************************************************************************)
(* netstring/netstring_utility.c, as a shell runs it: commands one after   *)
(* the other, the later ones on the files of the earlier (sth/tester.bash  *)
(* encodes a file and decodes the result).                                 *)
(*                                                                         *)
(* A file is a text or a netstring.  A line of a text is a sequence of     *)
(* tokens, joined with "=" if there are two; a netstring holds tokens, of  *)
(* Size bytes each.                                                        *)
(***************************************************************************)
EXTENDS ScgiHeader, NetstringFormat, SequencesExt

CONSTANTS
  Size,                 \* Size[token]: how many bytes
  Jobs,                 \* the sequences of commands
  Disks,                \* what the files hold at first
  Unwritable,           \* the names of files that cannot be created
  MAX_LENGTH_DEFAULT, MAX_STRINGS_DEFAULT,   \* netstring.h:81-87
  TIMING_DEFAULT        \* what --timing means without a number

\* The settings whose values are numbers, under one name in the environment
\* and on the command line.
Numeric == {"min_length", "max_length", "max_strings"}

ASSUME SizeAssumption == \A t \in DOMAIN Size : Size[t] \in Nat
ASSUME LimitsAssumption ==
  MAX_LENGTH_DEFAULT \in Nat /\ MAX_STRINGS_DEFAULT \in Nat

\* env holds the variables that are set; args and files are the options and
\* the operands; stdin may be a pipe that delivers the file of that name.
ASSUME JobsAssumption ==
  \A job \in Jobs : \A c \in Range(job) :
    /\ c.piped \in BOOLEAN
    /\ DOMAIN c.args \subseteq Nat /\ DOMAIN c.files \subseteq Nat
    /\ {c.stdin, c.stdout} \cup Range(c.files) \subseteq
         UNION {DOMAIN d : d \in Disks} \cup Unwritable

VARIABLES
  job,         \* chosen once
  disk,        \* disk[name]: the form and the lines of a file
  exits,       \* how the commands ended that have ended
  pc,          \* where the current command is
  settings,    \* the static variables of the utility and of netstring.c
  taken,       \* how many options it has taken
  in, out,     \* fp_in and fp_out, or fd_in and fd_out
  strings,     \* the strings of its NETSTRING
  rounds,      \* how often it has read
  retval,      \* what the last read returned
  overrun      \* the commands that have stored outside their NETSTRING

cmdVars == <<settings, taken, in, out, strings, rounds, retval>>
vars == <<job, disk, exits, pc, cmdVars, overrun>>

NULL == -1
PREAMBLE_MAX == 11
MIN_READ_BUFFER == 3

Turn == Len(exits) + 1
Cmd  == job[Turn]

File(form, lines) == [form |-> form, lines |-> lines]
Empty == File("text", <<>>)

\* The command ends, and the shell starts the next one.
Stop(how) ==
  /\ exits' = Append(exits, how)
  /\ pc' = IF Turn = Len(job) THEN "done" ELSE "env"

\* How many bytes the strings of a list take, each with its NUL.
Total(list) == FoldLeft(LAMBDA n, t : n + Size[t] + 1, 0, list)

-----------------------------------------------------------------------------
\* netstring_set_min_length, _max_length and _max_strings assert this.
Legal(name, n) == n > 0 /\ (name = "max_length" => n < MAX_LENGTH_DEFAULT)

Init ==
  /\ job \in Jobs
  /\ disk \in Disks
  /\ exits = <<>>
  /\ pc = "env"
  /\ settings = [min_length |-> 0, max_length |-> MAX_LENGTH_DEFAULT,
                 max_strings |-> MAX_STRINGS_DEFAULT, init_read |-> "min_size",
                 operation |-> "encode", streams |-> FALSE, scgi |-> FALSE,
                 timing |-> 0]
  /\ taken = 0
  /\ in = job[1].stdin /\ out = job[1].stdout
  /\ strings = <<>>
  /\ rounds = 0
  /\ retval = "none"
  /\ overrun = {}

\* The initial values and set_options_via_envs: USE_STREAMS wins over
\* USE_FILES, and USE_SCGI sets a number of strings.
FromEnvironment(env) ==
  LET Value(name, default) == IF name \in DOMAIN env THEN env[name] ELSE default
  IN  [min_length  |-> Value("min_length", 0),
       max_length  |-> Value("max_length", MAX_LENGTH_DEFAULT),
       max_strings |-> IF "use_scgi" \in DOMAIN env THEN PREAMBLE_MAX
                       ELSE Value("max_strings", MAX_STRINGS_DEFAULT),
       init_read   |-> IF "min_size" \in DOMAIN env THEN "min_size"
                       ELSE IF "brute" \in DOMAIN env THEN "brute"
                       ELSE IF "preamble" \in DOMAIN env THEN "preamble"
                       ELSE "min_size",
       operation   |-> "encode",
       streams     |-> "use_streams" \in DOMAIN env,
       scgi        |-> "use_scgi" \in DOMAIN env,
       timing      |-> 0]

\* The shell has emptied the file for the output before the program starts.
SetOptionsViaEnvs ==
  /\ pc = "env"
  /\ disk' = [disk EXCEPT ![Cmd.stdout] = Empty]
  /\ settings' = FromEnvironment(Cmd.env)
  /\ in' = Cmd.stdin /\ out' = Cmd.stdout
  /\ taken' = 0 /\ strings' = <<>> /\ rounds' = 0 /\ retval' = "none"
  /\ IF \A name \in Numeric \cap DOMAIN Cmd.env : Legal(name, Cmd.env[name])
     THEN pc' = "options" /\ UNCHANGED exits
     ELSE Stop("aborted")
  /\ UNCHANGED <<job, overrun>>

\* The settings after the option o.
WithOption(s, o) ==
  CASE o.opt \in Numeric                -> [s EXCEPT ![o.opt] = o.arg]
    [] o.opt \in {"encode", "decode"}   -> [s EXCEPT !.operation = o.opt]
    [] o.opt \in {"use_files", "use_streams"} ->
         [s EXCEPT !.streams = (o.opt = "use_streams")]
    [] o.opt = "scgi"                   -> [s EXCEPT !.scgi = TRUE]
    [] o.opt = "timing"                 ->
         [s EXCEPT !.timing = IF o.arg = NULL THEN TIMING_DEFAULT ELSE o.arg]
    [] OTHER                            -> s

KnownOptions == Numeric \cup
  {"encode", "decode", "use_files", "use_streams", "scgi", "timing"}

\* read_options, one option at a time.
ReadOption ==
  /\ pc = "options"
  /\ taken < Len(Cmd.args)
  /\ taken' = taken + 1
  /\ LET o == Cmd.args[taken + 1]
     IN  /\ settings' = WithOption(settings, o)
         /\ IF o.opt \notin KnownOptions THEN Stop("usage")
            ELSE IF o.opt \in Numeric /\ ~Legal(o.opt, o.arg)
            THEN Stop("aborted")
            ELSE UNCHANGED <<exits, pc>>
  /\ UNCHANGED <<job, disk, in, out, strings, rounds, retval, overrun>>

\* The output is opened, and emptied, before the input.  A file that cannot be
\* opened is reported at most, and then fileno goes through the null pointer.
OpenFiles ==
  /\ pc = "options"
  /\ taken = Len(Cmd.args)
  /\ LET n == Len(Cmd.files)
     IN  /\ disk' = IF n = 2 /\ Cmd.files[2] \notin Unwritable
                    THEN [disk EXCEPT ![Cmd.files[2]] = Empty] ELSE disk
         /\ out' = IF n = 2 THEN Cmd.files[2] ELSE out
         /\ in'  = IF n \in {1, 2} THEN Cmd.files[1] ELSE in
         /\ IF n > 2 THEN Stop("usage")
            ELSE IF out' \in Unwritable \/ disk'[in'].form = "missing"
            THEN Stop("crashed")
            ELSE pc' = settings.operation /\ UNCHANGED exits
  /\ UNCHANGED <<job, settings, taken, strings, rounds, retval, overrun>>

-----------------------------------------------------------------------------
(***************************************************************************)
(* --encode, of a text.  The strings of the NETSTRING lie behind           *)
(* PREAMBLE_MAX bytes for the preamble, and one byte is kept behind them.  *)
(***************************************************************************)

\* netstring_end stores the comma and a NUL behind the strings.
EndOverruns(list) == Total(list) + 2 > settings.max_length + 1

Overruns(happens) ==
  overrun' = IF happens THEN overrun \cup {Turn} ELSE overrun

\* Mutant: the number of the strings is not looked at.
AppendUnchecked ==
  /\ pc = "encode"
  /\ disk[in].form = "text"
  /\ Len(strings) < Len(disk[in].lines)
  /\ strings' = Append(strings, disk[in].lines[Len(strings) + 1][1])
  /\ Overruns(Total(strings') > settings.max_length + 1)
  /\ IF Total(strings') <= settings.max_length
     THEN UNCHANGED <<exits, pc>> ELSE Stop("aborted")
  /\ UNCHANGED <<job, disk, settings, taken, in, out, rounds, retval>>

\* fgetln, and netstring_append with its asserts behind the store.
AppendLine ==
  /\ pc = "encode"
  /\ disk[in].form = "text"
  /\ Len(strings) < Len(disk[in].lines)
  /\ strings' = Append(strings, disk[in].lines[Len(strings) + 1][1])
  /\ Overruns(Total(strings') > settings.max_length + 1)
  /\ IF /\ Total(strings') <= settings.max_length
        /\ Len(strings') < settings.max_strings
     THEN UNCHANGED <<exits, pc>> ELSE Stop("aborted")
  /\ UNCHANGED <<job, disk, settings, taken, in, out, rounds, retval>>

\* netstring_end and netstring_write or _fwrite.
EndAndWrite ==
  /\ pc = "encode"
  /\ disk[in].form = "text"
  /\ Len(strings) = Len(disk[in].lines)
  /\ Overruns(EndOverruns(strings))
  /\ disk' = [disk EXCEPT ![out] = File("netstring", strings)]
  /\ Stop("SUCCESS")
  /\ UNCHANGED <<job, cmdVars>>

-----------------------------------------------------------------------------
(***************************************************************************)
(* --decode.  What netstring_read and netstring_fread do byte by byte is   *)
(* the module NetstringRead; here is what comes of it on a file.           *)
(***************************************************************************)

MinSize == settings.init_read = "min_size"

\* The bytes of the first read, and those behind the colon in it or, if there
\* is none, in the first and the second.
InitReadSize ==
  LET least == IF settings.min_length > MIN_READ_BUFFER
               THEN settings.min_length ELSE MIN_READ_BUFFER
  IN  IF least < PREAMBLE_MAX THEN least ELSE PREAMBLE_MAX

Residual(list) ==
  LET digits == DigitCount(Total(list))
  IN  (IF digits < InitReadSize THEN InitReadSize ELSE PREAMBLE_MAX)
        - digits - 1

MessageSize(list) == DigitCount(Total(list)) + 1 + Total(list) + 1

Fragment == "(the rest of a string)"

\* strncpy makes NULs of the residual bytes behind the first NUL: empty
\* strings, and what is left of the string the residue ends in.
Cut(list) ==
  /\ MinSize /\ list # <<>>
  /\ Total(SubSeq(list, 1, 1)) < Residual(list)

AsRead(list) ==
  IF ~Cut(list) THEN list
  ELSE LET r == Residual(list)
           End(k) == Total(SubSeq(list, 1, k))
           whole == {k \in DOMAIN list : End(k) <= r}
           m == CHOOSE k \in whole : \A j \in whole : j <= k
           rest == SubSeq(list, m + 1, Len(list))
       IN  <<list[1]>> \o [i \in 1..(r - End(1)) |-> EmptyString]
             \o IF End(m) = r THEN rest ELSE <<Fragment>> \o Tail(rest)

\* A message shorter than the first read is taken for a cut one, unless it is
\* one byte shorter: no list of the runs is.  If the residue goes up to the
\* comma that is lost with the rest.
ReadCode(list) ==
  IF MinSize /\ MessageSize(list) < InitReadSize THEN "TRUNCATED_STRING"
  ELSE IF Cut(list) /\ Residual(list) > Total(list)
  THEN "MISSING_TRAILING_COMMA" ELSE "SUCCESS"

\* Mutant: the input is not rewound.
FirstRound == rounds = 0

\* lseek and rewind bring the message back, but not on a pipe.
Rewound == rounds = 0 \/ ~Cmd.piped \/ Cmd.files # <<>>

ReadMessage ==
  /\ pc = "decode" /\ rounds <= settings.timing
  /\ Rewound /\ disk[in].form = "netstring"
  /\ \E list \in {disk[in].lines} :
       /\ retval' = ReadCode(list)
       /\ strings' = IF retval' = "SUCCESS" THEN AsRead(list) ELSE strings
       /\ Overruns(\/ Total(list) > settings.max_length
                  \/ /\ MinSize
                     /\ Residual(list) > settings.max_length + 1
                  \/ Len(strings') > settings.max_strings)
  /\ rounds' = rounds + 1
  /\ UNCHANGED <<job, disk, exits, pc, settings, taken, in, out>>

\* At the end of file, and on a text.  What was in memory is taken for the
\* preamble: a number, or none; digits for ever; the old preamble.
ByDigits ==
  \/ settings.init_read = "brute"
  \/ settings.init_read = "preamble" /\ ~settings.streams

ReadNoMessage ==
  /\ pc = "decode" /\ rounds <= settings.timing
  /\ ~Rewound \/ disk[in].form = "text"
  /\ \/ /\ retval' \in {"MISSING_COLON", "TRUNCATED_STRING",
                        "MISSING_TRAILING_COMMA"}
        /\ rounds' = rounds + 1
        /\ UNCHANGED <<exits, pc>>
     \/ /\ ~Rewound /\ MinSize
        /\ retval = "SUCCESS"
        /\ rounds' = rounds + 1
        /\ UNCHANGED <<retval, exits, pc>>
     \/ /\ Stop(IF ByDigits THEN "hung" ELSE "crashed")
        /\ UNCHANGED <<rounds, retval>>
  /\ UNCHANGED <<job, disk, settings, taken, in, out, strings, overrun>>

\* Mutant: the strings are printed whatever the read returned.
RetvalIgnored ==
  /\ pc = "decode" /\ rounds > settings.timing
  /\ Stop("SUCCESS")
  /\ disk' = [disk EXCEPT ![out] = File("text",
                IF settings.scgi THEN Pairs(strings)
                ELSE [i \in DOMAIN strings |-> <<strings[i]>>])]
  /\ UNCHANGED <<job, cmdVars, overrun>>

\* netstring_end, and with --scgi the validation and the pairs.
PrintStrings ==
  /\ pc = "decode" /\ rounds > settings.timing
  /\ \E code \in {IF retval = "SUCCESS" /\ settings.scgi
                  THEN Validation(strings) ELSE retval} :
       /\ Stop(code)
       /\ disk' = IF code # "SUCCESS" THEN disk
                  ELSE [disk EXCEPT ![out] = File("text",
                          IF settings.scgi THEN Pairs(strings)
                          ELSE [i \in DOMAIN strings |-> <<strings[i]>>])]
  /\ Overruns(retval = "SUCCESS" /\ EndOverruns(disk[in].lines))
  /\ UNCHANGED <<job, cmdVars>>

Decode == ReadMessage \/ ReadNoMessage \/ PrintStrings

Next ==
  SetOptionsViaEnvs \/ ReadOption \/ OpenFiles \/ AppendLine \/ EndAndWrite
    \/ Decode

Spec == Init /\ [][Next]_vars

-----------------------------------------------------------------------------
Codes ==
  {"SUCCESS", "MISSING_COLON", "TRUNCATED_STRING", "MISSING_TRAILING_COMMA",
   "PROTOCOL_ERROR", "MISSING_CONTENT_LENGTH", "EMPTY_CONTENT_LENGTH",
   "INVALID_VERSION"}

\* The variables keep their types, no command is in two places of its loops,
\* and --encode never holds more strings than there is room for.
TypeOK ==
  /\ \A i \in DOMAIN exits :
       exits[i] \in Codes \cup {"usage", "aborted", "crashed", "hung"}
  /\ pc \in {"env", "options", "encode", "decode", "done"}
  /\ (pc = "done") <=> (Len(exits) = Len(job))
  /\ taken \in Nat /\ rounds \in 0..(settings.timing + 1)
  /\ retval \in Codes \cup {"none"}
  /\ overrun \subseteq DOMAIN job
  /\ pc = "encode" => Len(strings) < settings.max_strings
  /\ \A name \in DOMAIN disk :
       disk[name].form \in {"text", "netstring", "missing"}

\* What a command line and an environment say: the last option that speaks of
\* the setting, or else the variable, or else the default.
Said(c, opts) == SelectSeq(c.args, LAMBDA o : o.opt \in opts)

Number(c, name, default) ==
  IF Said(c, {name}) # <<>> THEN Last(Said(c, {name})).arg
  ELSE IF name = "max_strings" /\ "use_scgi" \in DOMAIN c.env THEN PREAMBLE_MAX
  ELSE IF name \in DOMAIN c.env THEN c.env[name] ELSE default

Operation(c) ==
  IF Said(c, {"encode", "decode"}) = <<>> THEN "encode"
  ELSE Last(Said(c, {"encode", "decode"})).opt

Scgi(c) == "use_scgi" \in DOMAIN c.env \/ Said(c, {"scgi"}) # <<>>

Input(c)  == IF c.files = <<>> THEN c.stdin ELSE c.files[1]
Output(c) == IF Len(c.files) = 2 THEN c.files[2] ELSE c.stdout

\* Its options are in order, it has files to work on, and it does not empty
\* its own input.
WellCalled(c) ==
  /\ \A i \in DOMAIN c.args :
       /\ c.args[i].opt \in KnownOptions
       /\ c.args[i].opt \in Numeric => Legal(c.args[i].opt, c.args[i].arg)
  /\ \A name \in Numeric \cap DOMAIN c.env : Legal(name, c.env[name])
  /\ Len(c.files) <= 2
  /\ Output(c) \notin Unwritable
  /\ disk[Input(c)].form # "missing"
  /\ Input(c) \notin {Output(c), c.stdout}

\* One byte more than the strings, or one string more, fits into its NETSTRING.
HasRoom(c, list) ==
  /\ Total(list) < Number(c, "max_length", MAX_LENGTH_DEFAULT)
  /\ Len(list) < Number(c, "max_strings", MAX_STRINGS_DEFAULT)

\* Only a file can be read a second time.
ReadsOnce(c) ==
  c.piped /\ c.files = <<>> =>
    Said(c, {"timing"}) = <<>> \/ Last(Said(c, {"timing"})).arg = 0

Text(lines, scgi) ==
  File("text", IF scgi THEN Pairs([i \in DOMAIN lines |-> lines[i][1]]) ELSE lines)

\* A text that is encoded by one command and decoded by the next is the text
\* it was, or its pairs: under any options in any order, from files, pipes and
\* redirections, as long as both commands have room for it, --scgi has
\* nothing to refuse and strncpy loses nothing (sth/tester.bash).
RoundTrip ==
  pc = "done" /\ Len(job) = 2 =>
    LET E == job[1]
        D == job[2]
        lines == disk[Input(E)].lines
        list  == [i \in DOMAIN lines |-> lines[i][1]]
    IN  /\ Operation(E) = "encode" /\ Operation(D) = "decode"
        /\ WellCalled(E) /\ WellCalled(D) /\ ReadsOnce(D)
        /\ Output(E) = Input(D) /\ Input(E) \notin {Output(D), D.stdout}
        /\ HasRoom(E, list) /\ HasRoom(D, list)
        /\ ~Cut(list) /\ ReadCode(list) = "SUCCESS"
        /\ Scgi(D) => Validation(list) = "SUCCESS"
        => /\ exits = <<"SUCCESS", "SUCCESS">>
           /\ overrun = {}
           /\ disk[Output(D)] = Text(lines, Scgi(D))

\* A number that a command is given and that an assert refuses: 0, and for
\* --max-length 65,535, are the defaults of netstring_utility.c:32 and :58-61,
\* which no one may name.
Refused(c) ==
  \/ \E name \in Numeric \cap DOMAIN c.env : ~Legal(name, c.env[name])
  \/ \E i \in DOMAIN c.args :
       c.args[i].opt \in Numeric /\ ~Legal(c.args[i].opt, c.args[i].arg)

\* More than --encode takes.  As many strings as --max-strings says are too
\* many, although netstring_utility.c:38-39 calls that the maximum number.
TooMuch(c, list) ==
  \/ Total(list) > Number(c, "max_length", MAX_LENGTH_DEFAULT)
  \/ Len(list) >= Number(c, "max_strings", MAX_STRINGS_DEFAULT)

\* What each code says of the header.
HeaderFault(how, list) ==
  CASE how = "PROTOCOL_ERROR"         -> Len(list) < 4 \/ ~Paired(list)
    [] how = "MISSING_CONTENT_LENGTH" -> ~LengthFirst(list)
    [] how = "EMPTY_CONTENT_LENGTH"   -> LengthFirst(list)
                                           /\ list[2] = EmptyString
    [] how = "INVALID_VERSION"        ->
         <<SCGI_NAME, SCGI_VALUE>> \notin Range(Tail(Pairs(list)))

\* How a command ended tells the truth, whatever it was called with.
\*
\* Success of --encode: the output is a netstring that is not too much.
\* Success of --decode: its input is a netstring, whose strings it has printed,
\* unless strncpy lost some.  It looks at no limit, although :34-39 sets them
\* for both operations: beyond them it stores outside its NETSTRING, and so
\* does the comma of --encode if the strings take --max-length bytes.
\*
\* A code of the reader: the input is no netstring, or not any more after the
\* first round on a pipe, or has fewer bytes than --min-length promised.  A code
\* of the validation: that fault.  An abort: a number that is refused, or too
\* much to encode.  No return: no file, no netstring, or a pipe at its end.
ExitCodesAreTrue ==
  pc \in {"env", "done"} /\ exits # <<>> =>
    LET c == job[Len(exits)]
        how == Last(exits)
        list == disk[in].lines
        overran == Len(exits) \in overrun
        max_length == Number(c, "max_length", MAX_LENGTH_DEFAULT)
        max_strings == Number(c, "max_strings", MAX_STRINGS_DEFAULT)
    IN  /\ how = "SUCCESS" /\ Operation(c) = "encode" =>
             /\ disk[out].form = "netstring" /\ ~TooMuch(c, disk[out].lines)
             /\ overran <=> Total(disk[out].lines) = max_length
        /\ how = "SUCCESS" /\ Operation(c) = "decode" =>
             /\ disk[in].form = "netstring" /\ disk[out].form = "text"
             /\ overran <=> \/ Total(list) >= max_length
                            \/ Len(AsRead(list)) > max_strings
             /\ Cut(list) \/ disk[out] =
                  Text([i \in DOMAIN list |-> <<list[i]>>], Scgi(c))
        /\ how \in {"MISSING_COLON", "TRUNCATED_STRING",
                     "MISSING_TRAILING_COMMA"} =>
             \/ disk[in].form # "netstring" \/ ~ReadsOnce(c)
             \/ Total(list) < Number(c, "min_length", 0)
        /\ how \in {"PROTOCOL_ERROR", "MISSING_CONTENT_LENGTH",
                     "EMPTY_CONTENT_LENGTH", "INVALID_VERSION"} =>
             Scgi(c) /\ (Cut(list) \/ HeaderFault(how, list))
        /\ how = "aborted" =>
             \/ Refused(c)
             \/ /\ Operation(c) = "encode"
                /\ TooMuch(c, [i \in DOMAIN list |-> list[i][1]])
        /\ Refused(c) => how \in {"aborted", "usage"}
        /\ how \in {"crashed", "hung"} =>
             \/ disk[in].form # "netstring" \/ out \in Unwritable
             \/ ~ReadsOnce(c)
=============================================================================
