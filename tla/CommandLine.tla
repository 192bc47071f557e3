---------------------------- MODULE CommandLine -----------------------------
(***************************************************************************)
(* The command line of the server, set_command_line_options() of           *)
(* accept-fork/command_line.c, on the option scanner.  command_line.c is   *)
(* written for an earlier interface of scanopt that has the same           *)
(* operations.  The id of an option is its position in option_list.        *)
(*                                                                         *)
(* A configuration file is a set of assignments to environment variables,  *)
(* which putenv makes.                                                     *)
(***************************************************************************)
EXTENDS Integers, Sequences, SequencesExt

CONSTANTS
  CommandLines,  \* argument vectors
  Environments,  \* the environments the program may inherit: a text, or NULL,
                 \* for every option that has an environment variable
  Configs,       \* the configuration files: [lines, newline]
  FileKind,      \* FileKind[t]: "missing", "regular" or "directory"
  Addresses,     \* the texts inet_pton parses
  Users,         \* the texts getpwnam knows
  NullAddresses  \* what becomes of an option that scanopt_assign_variable has
                 \* given a null address: "null" if scanopt_next stores through
                 \* it, like assign_variable of scanopt.c; "set" if it does not

VARIABLES
  names, validated, args, seen, options, onDup, env, phase, current_index,
  assigned, current,
  argc,          \* how many arguments there were
  inherited,     \* the environment main() was called with
  config,        \* the content of the configuration files
  has_default,   \* the file that the implicit --config names exists
  globals,       \* the variables of command_line.h
  exit_code

scanVars  == <<names, validated, args, seen, options, onDup, current_index,
               assigned, current>>
inputVars == <<argc, inherited, config, has_default>>
vars == <<scanVars, inputVars, env, phase, globals, exit_code>>

-----------------------------------------------------------------------------
NULL == -1

\* Texts that no argument is: the directories define_scgi_dir falls back on.
HomeDir == -2
WorkDir == -3

o_CONF       == 1
o_BIND       == 2
o_FILTER     == 3
o_FOREGROUND == 4
o_DAEMON     == 5
e_SCGI_DIR   == 6
o_HELP       == 7
o_UDS        == 8
o_PORT       == 9
o_SOCKET     == 10
o_USER       == 11
o_VERBOSE    == 12
o_VERSION    == 13
o_WORKERS    == 14

DEFAULT_WORKERS == 5
MAX_WORKERS     == 15

\* argType, as in option_list, and what configure_options adds: the variable
\* with its type, its initial and its default value.
Entry(arg, variable, val, init, default) ==
  [named |-> TRUE, long |-> TRUE, kind |-> "root", root |-> o_FOREGROUND,
   arg |-> arg, variable |-> variable, val |-> val, dup |-> "default",
   init |-> init, default |-> default]

Text   == Entry("required", "none", "text", NULL, NULL)
NoText == Entry("none", "none", "text", NULL, NULL)
Flag   == Entry("none", "set", "set", NULL, NULL)

option_list ==
  <<Text, Text, Text, Flag,
    [Entry("none", "set", "unset", NULL, NULL) EXCEPT !.kind = "comp"],
    [Text EXCEPT !.long = FALSE], Flag, NoText, Text, NoText, Text,
    Entry("optional", "set", "int", 0, 1), Flag,
    Entry("required", "set", "int", DEFAULT_WORKERS, NULL)>>

configure_options(address) ==
  [option_list EXCEPT ![o_VERBOSE].variable = address,
                      ![o_WORKERS].variable = address]

Scan == INSTANCE Scanopt WITH
  Programs <- {configure_options(a) : a \in NullAddresses} \X CommandLines,
  StartPhases <- {"scan"}, OnDups <- {"overwrite"}, SO_DUP_MAX <- 10

\* The options that have no environment variable.
NoVariable == {o_CONF, o_HELP, o_UDS, o_VERSION}

OptionTexts ==
  {e \in [DOMAIN option_list -> Int] : \A i \in NoVariable : e[i] = NULL}

ASSUME TextsAssumption == NULL \notin Addresses
ASSUME AddressesAssumption == NullAddresses \subseteq {"null", "set"}
ASSUME CommandLinesAssumption == CommandLines \subseteq Seq(Scan!Arguments)
ASSUME VariablesAssumption ==
  /\ Environments \subseteq OptionTexts
  /\ \A c \in Configs : c.lines \in OptionTexts

Exit(code) == phase' = "exited" /\ exit_code' = code

-----------------------------------------------------------------------------
Init ==
  /\ Scan!Init
  /\ argc = Len(args)
  /\ inherited = env
  /\ config \in Configs
  /\ has_default \in BOOLEAN
  /\ globals = [server_ip |-> NULL, port |-> 0, filter_name |-> NULL,
                socket_flag |-> 0, user |-> 0, verbose_level |-> 0,
                workers |-> 0, scgi_dir |-> NULL]
  /\ exit_code = NULL

\* scanopt_scan.
ScanArguments ==
  Scan!scanopt_scan /\ UNCHANGED <<inputVars, globals, exit_code>>

\* Mutant: setenv with overwrite = 0 in place of putenv.
SourceKeeps ==
  /\ env' = [i \in DOMAIN env |->
               IF env[i] = NULL THEN config.lines[i] ELSE env[i]]
  /\ phase' = "next"

\* source_config_file, of a regular file: its assert wants every line to end
\* with a newline.
Source ==
  IF config.newline
  THEN /\ env' = [i \in DOMAIN env |->
                    IF config.lines[i] # NULL THEN config.lines[i] ELSE env[i]]
       /\ phase' = "next"
  ELSE phase' = "stopped" /\ UNCHANGED env

\* define_scgi_dir, and the implicit --config if no option was scanned.  The
\* name of that file is the directory's with "config" behind it, no "/".
BootStrap ==
  /\ phase = "scanned"
  /\ \E d \in IF /\ env[e_SCGI_DIR] \in DOMAIN FileKind \ {NULL}
                 /\ FileKind[env[e_SCGI_DIR]] = "directory"
              THEN {env[e_SCGI_DIR]} ELSE {HomeDir, WorkDir} :
       globals' = [globals EXCEPT !.scgi_dir = d]
  /\ IF Len(args) = argc /\ has_default THEN Source
     ELSE phase' = "next" /\ UNCHANGED env
  /\ UNCHANGED <<scanVars, inputVars, exit_code>>

\* scanopt_next, until it returns -1.
NextOption ==
  /\ Scan!scanopt_next("apply", "done")
  /\ UNCHANGED <<inputVars, globals, exit_code>>

-----------------------------------------------------------------------------
(***************************************************************************)
(* apply_option_definitions, by option.                                    *)
(***************************************************************************)
optarg == current.optarg

Applying(id) ==
  /\ phase = "apply"
  /\ current.id = id
  /\ UNCHANGED <<scanVars, inputVars>>

\* The option sets a variable, or the program exits if it is not acceptable.
SetIf(acceptable, field, value) ==
  IF acceptable
  THEN /\ globals' = [globals EXCEPT ![field] = value]
       /\ phase' = "next"
       /\ UNCHANGED <<env, exit_code>>
  ELSE Exit(1) /\ UNCHANGED <<globals, env>>

\* A directory opens like a file, and has no lines.
ApplyConf ==
  /\ Applying(o_CONF)
  /\ IF current.optcount > 1 \/ FileKind[optarg] = "missing"
     THEN Exit(1) /\ UNCHANGED env
     ELSE /\ IF FileKind[optarg] = "regular" THEN Source
             ELSE phase' = "next" /\ UNCHANGED env
          /\ UNCHANGED exit_code
  /\ UNCHANGED globals

ApplyScgiDir == Applying(e_SCGI_DIR) /\ SetIf(TRUE, "scgi_dir", optarg)

\* S_ISREG(...) != 0 refuses just the regular files.
ApplyFilter ==
  /\ Applying(o_FILTER)
  /\ SetIf(FileKind[optarg] = "directory", "filter_name", optarg)

ApplyUser == Applying(o_USER) /\ SetIf(optarg \in Users, "user", optarg)

\* Mutant: the number of workers is not limited.
WorkersUnlimited ==
  Applying(o_WORKERS) /\ SetIf(TRUE, "workers", optarg)

ApplyWorkers ==
  /\ Applying(o_WORKERS)
  /\ SetIf(TRUE, "workers",
           IF optarg \in 0..MAX_WORKERS THEN optarg ELSE DEFAULT_WORKERS)

ApplyVerbose == Applying(o_VERBOSE) /\ SetIf(TRUE, "verbose_level", optarg)

\* These variables have been assigned by scanopt_next.
ApplyFlag ==
  /\ \/ Applying(o_FOREGROUND) \/ Applying(o_HELP) \/ Applying(o_VERSION)
  /\ phase' = "next"
  /\ UNCHANGED <<globals, env, exit_code>>

ApplyBind ==
  /\ Applying(o_BIND)
  /\ SetIf(globals.socket_flag = 0 /\ optarg \in Addresses,
           "server_ip", optarg)

\* Mutant: --port is not tested for --uds, which comes before it in the list.
PortUnchecked ==
  Applying(o_PORT) /\ SetIf(TRUE, "port", optarg)

ApplyPort ==
  /\ Applying(o_PORT)
  /\ SetIf(globals.socket_flag = 0, "port", optarg)

ApplySocket ==
  /\ Applying(o_SOCKET) \/ Applying(o_UDS)
  /\ SetIf(globals.server_ip = NULL /\ globals.port = 0, "socket_flag", 1)

apply_option_definitions ==
  ApplyConf \/ ApplyScgiDir \/ ApplyFilter \/ ApplyUser \/ ApplyWorkers
    \/ ApplyVerbose \/ ApplyFlag \/ ApplyBind \/ ApplyPort \/ ApplySocket

-----------------------------------------------------------------------------
IsSet(flag) == assigned[flag] = <<1>>

\* Mutant: superfluous arguments are looked for only without a port.
CheckEndpointOnly ==
  /\ phase = "done"
  /\ IF IsSet(o_VERSION) \/ IsSet(o_HELP) THEN Exit(0)
     ELSE IF globals.port = 0 /\ args # <<>> THEN Exit(1)
     ELSE phase' = "serving" /\ UNCHANGED exit_code
  /\ UNCHANGED <<scanVars, inputVars, env, globals>>

\* The end of set_command_line_options: information first, then the checks.
Check ==
  /\ phase = "done"
  /\ IF IsSet(o_VERSION) \/ IsSet(o_HELP) THEN Exit(0)
     ELSE IF globals.port = 0 /\ globals.socket_flag = 0 THEN Exit(1)
     ELSE IF args # <<>> THEN Exit(1)
     ELSE phase' = "serving" /\ UNCHANGED exit_code
  /\ UNCHANGED <<scanVars, inputVars, env, globals>>

Next ==
  ScanArguments \/ BootStrap \/ NextOption \/ apply_option_definitions
    \/ Check

Spec == Init /\ [][Next]_vars

-----------------------------------------------------------------------------
\* The variables keep their types; the server has at most the workers it can.
TypeOK ==
  /\ phase \in {"scan", "scanned", "next", "apply", "done", "exited",
                "serving", "stopped"}
  /\ exit_code \in {NULL, 0, 1}
  /\ phase = "exited" <=> exit_code # NULL
  /\ globals.workers \in 0..MAX_WORKERS
  /\ globals.socket_flag \in {0, 1}
  /\ phase = "apply" => current.id \in DOMAIN option_list \ {o_DAEMON}

\* What the user asked for: the last use on the command line, else the
\* configuration file that was named or implied, else the environment.
Uses(i) == seen[i]

ConfigRead ==
  \/ Len(args) = argc /\ has_default
  \/ Uses(o_CONF) # <<>> /\ FileKind[Last(Uses(o_CONF)).value] = "regular"

Asked(i) ==
  IF Uses(i) # <<>> THEN Scan!Meaning(i, Last(Uses(i)))
  ELSE LET text == IF ConfigRead /\ config.lines[i] # NULL
                   THEN config.lines[i] ELSE inherited[i]
       IN  IF text # NULL
           THEN Scan!Meaning(i, [opt |-> i, value |-> text]) ELSE NULL

IsAsked(i) ==
  \/ Uses(i) # <<>>
  \/ ConfigRead /\ config.lines[i] # NULL
  \/ inherited[i] # NULL

\* Every source has its rank, in spite of the order of the list: a server that
\* starts has the values of the command line, then those of the configuration
\* file, then those of its environment (command_line.c:78-99).  What no source
\* names is as command_line.c:30-40 initialises it, except for scgi_dir: the five
\* workers of command_line.c:433 are given to no variable, and 0 remains.
SourcesInOrder ==
  phase = "serving" =>
    /\ globals.server_ip = Asked(o_BIND)
    /\ globals.port = IF IsAsked(o_PORT) THEN Asked(o_PORT) ELSE 0
    /\ globals.filter_name = Asked(o_FILTER)
    /\ globals.socket_flag = 1 <=> IsAsked(o_SOCKET) \/ IsAsked(o_UDS)
    /\ globals.user = IF IsAsked(o_USER) THEN Asked(o_USER) ELSE 0
    /\ IsSet(o_FOREGROUND) <=> Asked(o_FOREGROUND) = 1
    /\ globals.verbose_level =
         IF IsAsked(o_VERBOSE) THEN Asked(o_VERBOSE) ELSE 0
    /\ ~IsAsked(o_WORKERS) => globals.workers = 0
    /\ IsAsked(o_WORKERS) =>
         globals.workers = IF Asked(o_WORKERS) \in 0..MAX_WORKERS
                           THEN Asked(o_WORKERS) ELSE DEFAULT_WORKERS
    /\ IF IsAsked(e_SCGI_DIR) THEN globals.scgi_dir = Asked(e_SCGI_DIR)
       ELSE globals.scgi_dir \in {HomeDir, WorkDir}

\* A server that starts has one endpoint: a port, with or without an address,
\* or a socket (the "Illegal use of both" messages of apply_option_definitions
\* and the sanity check), wherever the options came from and in any order.
OneEndpoint ==
  phase = "serving" =>
    /\ globals.port # 0 <=> globals.socket_flag = 0
    /\ globals.socket_flag = 1 => globals.server_ip = NULL

\* The options the program refuses, from all of their sources: an address
\* beside a socket, a port beside one (--port 0 is one for --uds, which the list
\* has before it, and none for --socket, which it has behind), a text that names
\* nothing, a second --config (but not one beside other options, as
\* command_line.h:8 has it), and a filter that is a regular file, where the
\* message of command_line.c:270 asks for one.
FaultyOption ==
  LET socket == IsAsked(o_SOCKET) \/ IsAsked(o_UDS)
  IN  \/ socket /\ IsAsked(o_BIND)
      \/ /\ socket /\ IsAsked(o_PORT)
         /\ Asked(o_PORT) # 0 \/ IsAsked(o_UDS)
      \/ IsAsked(o_BIND) /\ Asked(o_BIND) \notin Addresses
      \/ IsAsked(o_USER) /\ Asked(o_USER) \notin Users
      \/ IsAsked(o_FILTER) /\ FileKind[Asked(o_FILTER)] # "directory"
      \/ Len(Uses(o_CONF)) > 1
      \/ Uses(o_CONF) # <<>> /\ FileKind[Uses(o_CONF)[1].value] = "missing"

\* No endpoint, or an argument too many.
BadComposition ==
  \/ /\ ~IsAsked(o_SOCKET) /\ ~IsAsked(o_UDS)
     /\ IsAsked(o_PORT) => Asked(o_PORT) = 0
  \/ args # <<>>

Information == IsAsked(o_HELP) \/ IsAsked(o_VERSION)

\* An option that is refused ends the program with status 1 even beside --help
\* and --version, which command_line.h:16-20 lets take effect whatever else is
\* given: they have precedence over the sanity checks only.  The program informs
\* with status 0 exactly if it was asked to and refuses no option, and serves
\* exactly if it was not asked to and finds no fault of either kind; it matters
\* nowhere which source an option came from (command_line.c:152-174).
ExitCodesAreTrue ==
  /\ exit_code = 0 => Information /\ ~FaultyOption
  /\ exit_code = 1 => FaultyOption \/ (~Information /\ BadComposition)
  /\ phase = "serving" => ~Information /\ ~FaultyOption /\ ~BadComposition
=============================================================================
