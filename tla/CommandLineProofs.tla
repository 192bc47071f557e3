------------------------- MODULE CommandLineProofs --------------------------
(***************************************************************************)
(* Theorems about the command line of the server, for every argument       *)
(* vector, environment and configuration file.                             *)
(***************************************************************************)
EXTENDS CommandLine, SequenceTheorems, TLAPS

\* The variables of command_line.h are one record.
Fields == {"server_ip", "port", "filter_name", "socket_flag", "user",
           "verbose_level", "workers", "scgi_dir"}

HasFields == DOMAIN globals = Fields

\* What the options for the endpoint exclude, at each step through the list: a
\* socket is set only while there is neither an address nor a port, and either
\* of these only while there is no socket.
Endpoint ==
  globals.socket_flag = 1 => globals.server_ip = NULL /\ globals.port = 0

\* The list is option_list, but for the addresses of two variables, and the last
\* use of an option counts.
Options == DOMAIN option_list

Listed ==
  /\ DOMAIN names = Options /\ Len(names) = Len(option_list)
  /\ onDup = "overwrite"
  /\ \A i \in Options :
       /\ names[i].kind = option_list[i].kind /\ names[i].root = option_list[i].root
       /\ names[i].arg = option_list[i].arg /\ names[i].val = option_list[i].val
       /\ names[i].dup = option_list[i].dup /\ names[i].init = option_list[i].init
       /\ names[i].default = option_list[i].default

\* No use is counted for a complement.
Uncounted == DOMAIN options = Options /\ options[o_DAEMON].count = 0

EndpointInv ==
  Listed /\ Uncounted /\ HasFields /\ TypeOK /\ Endpoint /\ OneEndpoint

\* The option that a name belongs to.
BasicOf(i) == IF i = o_DAEMON THEN o_FOREGROUND ELSE i

-----------------------------------------------------------------------------
\* The list of options.
LEMMA OptionsAre ==
  /\ Options = 1..14 /\ Len(option_list) = 14
  /\ \A i \in Options :
       /\ option_list[i].dup = "default" /\ option_list[i].init \in Int
       /\ option_list[i].arg \in {"none", "required", "optional"}
       /\ option_list[i].val \in {"text", "set", "unset", "int"}
       /\ option_list[i].default \in Int
       /\ option_list[i].kind = IF i = o_DAEMON THEN "comp" ELSE "root"
       /\ option_list[i].root = o_FOREGROUND
<1>1. Options = 1..14 /\ Len(option_list) = 14
  BY DEF Options, option_list
<1>2. ASSUME NEW i \in Options
      PROVE  /\ option_list[i].dup = "default" /\ option_list[i].init \in Int
             /\ option_list[i].arg \in {"none", "required", "optional"}
             /\ option_list[i].val \in {"text", "set", "unset", "int"}
             /\ option_list[i].default \in Int
             /\ option_list[i].kind = IF i = o_DAEMON THEN "comp" ELSE "root"
             /\ option_list[i].root = o_FOREGROUND
  BY <1>1 DEF option_list, Entry, Text, NoText, Flag, o_DAEMON, NULL,
              DEFAULT_WORKERS
<1> QED BY <1>1, <1>2

\* The arguments of the options that have a case with a condition.
LEMMA ArgumentsAre ==
  /\ \A i \in {o_CONF, o_BIND, o_FILTER, e_SCGI_DIR, o_PORT, o_USER, o_WORKERS} :
       option_list[i].arg = "required"
  /\ option_list[o_VERBOSE].arg = "optional" /\ option_list[o_DAEMON].arg = "none"
  /\ \A i \in {o_FOREGROUND, o_HELP, o_VERSION} :
       option_list[i].arg = "none" /\ option_list[i].val = "set"
BY DEF option_list, Entry, Text, NoText, Flag, o_CONF, o_BIND, o_FILTER,
       o_PORT, o_USER, o_VERBOSE, o_FOREGROUND, o_HELP, o_VERSION, e_SCGI_DIR,
       o_WORKERS, o_DAEMON

\* The options are numbers, which are all different.
LEMMA OptionsAreNumbers ==
  /\ o_CONF = 1 /\ o_BIND = 2 /\ o_FILTER = 3 /\ o_FOREGROUND = 4 /\ o_DAEMON = 5
  /\ e_SCGI_DIR = 6 /\ o_HELP = 7 /\ o_UDS = 8 /\ o_PORT = 9 /\ o_SOCKET = 10
  /\ o_USER = 11 /\ o_VERBOSE = 12 /\ o_VERSION = 13 /\ o_WORKERS = 14
BY DEF o_CONF, o_BIND, o_FILTER, o_FOREGROUND, o_DAEMON, e_SCGI_DIR, o_HELP,
       o_UDS, o_PORT, o_SOCKET, o_USER, o_VERBOSE, o_VERSION, o_WORKERS

\* The options that set a variable of command_line.h.
SettingOptions ==
  {o_BIND, o_PORT, o_VERBOSE, o_SOCKET, o_UDS, o_FILTER, o_USER, o_WORKERS,
   e_SCGI_DIR}

LEMMA SettingOptionsAre ==
  /\ SettingOptions \subseteq Options \ {o_CONF, o_DAEMON}
  /\ {o_CONF, o_FOREGROUND, o_HELP, o_VERSION} \subseteq Options \ SettingOptions
<1> USE OptionsAreNumbers
<1> QED BY OptionsAre DEF SettingOptions

\* Sequences that are not empty.
LEMMA LengthIs ==
  ASSUME NEW S, NEW s \in Seq(S)
  PROVE  Len(s) \in Nat /\ (s = <<>> <=> Len(s) = 0)
BY LenProperties, EmptySeq

LEMMA LastIs ==
  ASSUME NEW S, NEW s \in Seq(S), s # <<>>
  PROVE  Last(s) = s[Len(s)] /\ Len(s) \in DOMAIN s
<1>1. Len(s) \in Nat /\ Len(s) # 0 /\ DOMAIN s = 1..Len(s)
  BY LenProperties, LengthIs
<1> QED BY <1>1 DEF Last

\* Every name in the list belongs to one option, which is its own root.
LEMMA RootsAre ==
  ASSUME Listed, NEW i \in Options
  PROVE  /\ Scan!IsRoot(i) <=> i # o_DAEMON
         /\ Scan!Reached(i) /\ Scan!Item(i) = BasicOf(i)
         /\ Scan!Complements(i) = (option_list[i].kind = "comp")
         /\ BasicOf(i) \in Options \ {o_DAEMON}
         /\ i # o_DAEMON => Scan!ArgType(i) = option_list[i].arg
<1>1. names[i].kind = IF i = o_DAEMON THEN "comp" ELSE "root"
  BY OptionsAre DEF Listed
<1>2. names[i].root = o_FOREGROUND
  BY OptionsAre DEF Listed
<1>3. o_FOREGROUND \in Options \ {o_DAEMON}
  BY OptionsAre, OptionsAreNumbers
<1>4. Scan!Direct(i) = i
  BY <1>1 DEF Scan!Direct
<1>5. Scan!Complements(i) = (i = o_DAEMON)
  BY <1>1, <1>4 DEF Scan!Complements
<1>6. option_list[i].kind = "comp" <=> i = o_DAEMON
  BY OptionsAre
<1>7. Scan!Item(i) = BasicOf(i)
  BY <1>2, <1>4, <1>5 DEF Scan!Item, BasicOf
<1>8. BasicOf(i) \in Options \ {o_DAEMON}
  BY <1>3 DEF BasicOf
<1>9. Scan!Reached(i)
  BY <1>1, <1>4, <1>7, <1>8 DEF Scan!Reached, Scan!Ids, Listed
<1>10. i # o_DAEMON => Scan!ArgType(i) = option_list[i].arg
  <2>1. names[i].arg = option_list[i].arg
    BY DEF Listed
  <2> QED BY <1>1, <2>1 DEF Scan!ArgType, Scan!IsRoot
<1> QED BY <1>1, <1>5, <1>6, <1>7, <1>8, <1>9, <1>10 DEF Scan!IsRoot

-----------------------------------------------------------------------------
\* An option sets one variable, or the program exits.
LEMMA SetIfIs ==
  ASSUME HasFields, NEW acceptable, NEW field \in Fields, NEW value,
         SetIf(acceptable, field, value)
  PROVE  \/ /\ acceptable /\ phase' = "next" /\ exit_code' = exit_code
            /\ HasFields'
            /\ globals'[field] = value
            /\ \A f \in Fields \ {field} : globals'[f] = globals[f]
         \/ /\ ~acceptable /\ phase' = "exited" /\ exit_code' = 1
            /\ globals' = globals
<1>1. CASE acceptable
  <2>1. /\ globals' = [globals EXCEPT ![field] = value]
        /\ phase' = "next" /\ exit_code' = exit_code
    BY <1>1 DEF SetIf
  <2> QED BY <1>1, <2>1 DEF HasFields
<1>2. CASE ~acceptable
  BY <1>2 DEF SetIf, Exit
<1> QED BY <1>1, <1>2

\* The variables that the properties are about, and the test in front of each.
LEMMA ApplyIs ==
  ASSUME EndpointInv, apply_option_definitions
  PROVE  /\ phase = "apply" /\ UNCHANGED <<names, onDup, options>> /\ HasFields'
         /\ \/ phase' \in {"next", "stopped"} /\ exit_code' = exit_code
            \/ phase' = "exited" /\ exit_code' = 1
         /\ globals'.workers \in 0..MAX_WORKERS
         /\ globals'.socket_flag \in {0, 1}
         /\ Endpoint'
<1>0. HasFields
  BY DEF EndpointInv
<1>1. phase = "apply" /\ UNCHANGED <<names, onDup, options>>
  BY DEF apply_option_definitions, ApplyConf, ApplyScgiDir, ApplyFilter,
         ApplyUser, ApplyWorkers, ApplyVerbose, ApplyFlag, ApplyBind,
         ApplyPort, ApplySocket, Applying, scanVars
<1>2. /\ globals.workers \in 0..MAX_WORKERS /\ globals.socket_flag \in {0, 1}
      /\ Endpoint
  BY DEF EndpointInv, TypeOK
<1> DEFINE Same(fields) == \A f \in fields : globals'[f] = globals[f]
           Goal == /\ HasFields'
                   /\ \/ phase' \in {"next", "stopped"} /\ exit_code' = exit_code
                      \/ phase' = "exited" /\ exit_code' = 1
                   /\ globals'.workers \in 0..MAX_WORKERS
                   /\ globals'.socket_flag \in {0, 1}
                   /\ Endpoint'
<1>3. CASE ApplyConf \/ ApplyFlag
  <2>1. globals' = globals
    BY <1>3 DEF ApplyConf, ApplyFlag
  <2>2. \/ phase' \in {"next", "stopped"} /\ exit_code' = exit_code
        \/ phase' = "exited" /\ exit_code' = 1
    BY <1>3 DEF ApplyConf, ApplyFlag, Exit, Source
  <2>3. HasFields' /\ Endpoint'
    BY <1>0, <1>2, <2>1 DEF HasFields, Endpoint
  <2> QED BY <1>1, <1>2, <2>1, <2>2, <2>3
<1>4. ASSUME NEW acceptable, NEW field \in {"scgi_dir", "filter_name", "user",
                                             "verbose_level"},
             NEW value, SetIf(acceptable, field, value)
      PROVE  Goal
  <2>1. field \in Fields
    BY DEF Fields
  <2>2. \/ /\ phase' = "next" /\ exit_code' = exit_code /\ HasFields'
           /\ Same(Fields \ {field})
        \/ phase' = "exited" /\ exit_code' = 1 /\ globals' = globals
    BY <1>0, <1>4, <2>1, SetIfIs
  <2>3. Same({"workers", "socket_flag", "server_ip", "port"})
    BY <2>2 DEF Fields
  <2>4. HasFields'
    BY <1>0, <2>2 DEF HasFields
  <2> QED BY <1>2, <2>2, <2>3, <2>4 DEF Endpoint
<1>5. CASE ApplyScgiDir \/ ApplyFilter \/ ApplyUser \/ ApplyVerbose
  BY <1>1, <1>4, <1>5 DEF ApplyScgiDir, ApplyFilter, ApplyUser, ApplyVerbose
<1>6. CASE ApplyWorkers
  <2> DEFINE n == IF optarg \in 0..MAX_WORKERS THEN optarg ELSE DEFAULT_WORKERS
  <2>1. SetIf(TRUE, "workers", n)
    BY <1>6 DEF ApplyWorkers
  <2>2. n \in 0..MAX_WORKERS
    BY DEF DEFAULT_WORKERS, MAX_WORKERS
  <2> HIDE DEF n
  <2>3. /\ phase' = "next" /\ exit_code' = exit_code /\ HasFields'
        /\ globals'["workers"] = n /\ Same(Fields \ {"workers"})
    BY <1>0, <2>1, SetIfIs DEF Fields
  <2>4. Same({"socket_flag", "server_ip", "port"})
    BY <2>3 DEF Fields
  <2> QED BY <1>1, <1>2, <2>2, <2>3, <2>4 DEF Endpoint
<1>7. CASE ApplyBind \/ ApplyPort
  <2>1. PICK acceptable \in BOOLEAN, field \in {"server_ip", "port"} :
          /\ SetIf(acceptable, field, optarg)
          /\ acceptable => globals.socket_flag = 0
    BY <1>7 DEF ApplyBind, ApplyPort
  <2>2. \/ /\ acceptable /\ phase' = "next" /\ exit_code' = exit_code
           /\ HasFields' /\ Same(Fields \ {field})
        \/ phase' = "exited" /\ exit_code' = 1 /\ globals' = globals
    BY <1>0, <2>1, SetIfIs DEF Fields
  <2>3. CASE globals' = globals /\ phase' = "exited" /\ exit_code' = 1
    <3>1. HasFields' /\ Endpoint'
      BY <1>0, <1>2, <2>3 DEF HasFields, Endpoint
    <3> QED BY <1>1, <1>2, <2>3, <3>1
  <2>4. CASE /\ acceptable /\ phase' = "next" /\ exit_code' = exit_code
             /\ HasFields' /\ Same(Fields \ {field})
    <3>1. Same({"workers", "socket_flag"})
      BY <2>4 DEF Fields
    <3>2. globals'.socket_flag = 0
      BY <2>1, <2>4, <3>1
    <3> QED BY <1>1, <1>2, <2>4, <3>1, <3>2 DEF Endpoint
  <2> QED BY <2>2, <2>3, <2>4
<1>8. CASE ApplySocket
  <2>1. SetIf(globals.server_ip = NULL /\ globals.port = 0, "socket_flag", 1)
    BY <1>8 DEF ApplySocket
  <2>2. \/ /\ globals.server_ip = NULL /\ globals.port = 0
           /\ phase' = "next" /\ exit_code' = exit_code /\ HasFields'
           /\ globals'["socket_flag"] = 1 /\ Same(Fields \ {"socket_flag"})
        \/ phase' = "exited" /\ exit_code' = 1 /\ globals' = globals
    BY <1>0, <2>1, SetIfIs DEF Fields
  <2>3. CASE globals' = globals /\ phase' = "exited" /\ exit_code' = 1
    <3>1. HasFields' /\ Endpoint'
      BY <1>0, <1>2, <2>3 DEF HasFields, Endpoint
    <3> QED BY <1>1, <1>2, <2>3, <3>1
  <2>4. CASE /\ globals.server_ip = NULL /\ globals.port = 0
             /\ phase' = "next" /\ exit_code' = exit_code /\ HasFields'
             /\ globals'["socket_flag"] = 1 /\ Same(Fields \ {"socket_flag"})
    <3>1. Same({"workers", "server_ip", "port"})
      BY <2>4 DEF Fields
    <3> QED BY <1>1, <1>2, <2>4, <3>1 DEF Endpoint
  <2> QED BY <2>2, <2>3, <2>4
<1> QED BY <1>1, <1>3, <1>5, <1>6, <1>7, <1>8 DEF apply_option_definitions

\* Steps that leave the variables of command_line.h as they are.
LEMMA SameGlobals ==
  ASSUME EndpointInv, UNCHANGED <<names, onDup>>, Uncounted', globals' = globals,
         phase' \in {"scan", "scanned", "next", "apply", "done", "exited",
                     "serving", "stopped"},
         exit_code' \in {NULL, 0, 1}, phase' = "exited" <=> exit_code' # NULL,
         phase' = "apply" => current'.id \in DOMAIN option_list \ {o_DAEMON},
         phase' = "serving" => globals.port # 0 \/ globals.socket_flag # 0
  PROVE  EndpointInv'
<1>1. HasFields' /\ Endpoint' /\ globals.socket_flag \in {0, 1}
  BY DEF EndpointInv, HasFields, Endpoint, TypeOK
<1>2. TypeOK'
  BY DEF EndpointInv, TypeOK
<1>3. OneEndpoint'
  BY <1>1 DEF OneEndpoint, Endpoint
<1>4. Listed'
  BY DEF EndpointInv, Listed
<1> QED BY <1>1, <1>2, <1>3, <1>4 DEF EndpointInv

\* An option of the list is defined by every use, whatever the use is.
LEMMA OptionDefined ==
  ASSUME Listed, NEW i \in Options \ {o_DAEMON}, NEW value
  PROVE  ~Scan!Undefinable(i, value)
<1>1. Scan!ArgType(i) \in {"none", "required", "optional"}
  BY RootsAre, OptionsAre
<1>2. names[i].val # "count"
  BY OptionsAre DEF Listed
<1> QED BY <1>1, <1>2 DEF Scan!Undefinable, Scan!ConvertsNull

\* A name of the list is taken for the option it belongs to.
LEMMA TakeIs ==
  ASSUME Listed, NEW i \in Options, NEW value, NEW rest, Scan!Take(i, value, rest)
  PROVE  /\ args' = rest
         /\ UNCHANGED <<names, onDup, env, current_index, assigned, current>>
         /\ seen' = [seen EXCEPT ![BasicOf(i)] =
                                    Append(@, [opt |-> i, value |-> value])]
         /\ options' = [options EXCEPT ![BasicOf(i)] =
                           Scan!Used(BasicOf(i), option_list[i].kind = "comp", value)]
         /\ IF Scan!Overflows(BasicOf(i)) THEN phase' \in {"stopped", "corrupt"}
                                          ELSE phase' = phase
<1>1. /\ Scan!Reached(i) /\ Scan!Item(i) = BasicOf(i)
      /\ BasicOf(i) \in Options \ {o_DAEMON}
      /\ Scan!Complements(i) = (option_list[i].kind = "comp")
  BY RootsAre
<1>2. Scan!TakeFor(BasicOf(i), i, value)
  BY <1>1 DEF Scan!Take
<1>3. ~Scan!Undefinable(BasicOf(i), value)
  BY <1>1, OptionDefined
<1>4. /\ args' = rest
      /\ UNCHANGED <<names, onDup, env, current_index, assigned, current>>
  BY DEF Scan!Take, Scan!listVars
<1>5. /\ seen' = [seen EXCEPT ![BasicOf(i)] =
                                 Append(@, [opt |-> i, value |-> value])]
      /\ options' = [options EXCEPT ![BasicOf(i)] =
                        Scan!Used(BasicOf(i), Scan!Complements(i), value)]
      /\ IF Scan!Overflows(BasicOf(i)) THEN phase' \in {"stopped", "corrupt"}
                                       ELSE phase' = phase
  BY <1>2, <1>3 DEF Scan!TakeFor
<1> QED BY <1>1, <1>4, <1>5

\* The scan starts: the list has no synonym.
LEMMA Starts == ASSUME Listed PROVE Scan!LongNamesHaveRoots
<1>1. \A i \in Options : names[i].kind # "syn"
  BY OptionsAre DEF Listed
<1> QED BY <1>1 DEF Scan!LongNamesHaveRoots, Scan!Ids, Listed

\* The arguments are scanned with option_list; a complement is handed out as
\* the option it belongs to.
LEMMA ScanArgumentsStep == ASSUME EndpointInv, ScanArguments PROVE EndpointInv'
<1>1. Listed /\ Uncounted /\ globals' = globals /\ exit_code' = exit_code
  BY DEF ScanArguments, EndpointInv
<1>2. phase = "scan"
  BY DEF ScanArguments, Scan!scanopt_scan, Scan!ScanUnstarted, Scan!ScanAttached,
         Scan!ScanDetached, Scan!ScanError, Scan!ScanEnd, Scan!AtOption,
         Scan!Scanning
<1>3. exit_code = NULL
  BY <1>2 DEF EndpointInv, TypeOK
<1>4. ASSUME NEW i \in Options, NEW value, NEW rest, Scan!Take(i, value, rest)
      PROVE  UNCHANGED <<names, onDup>> /\ Uncounted' /\ phase' \in {"scan", "stopped"}
  <2>1. /\ UNCHANGED <<names, onDup>>
        /\ options' = [options EXCEPT ![BasicOf(i)] =
                          Scan!Used(BasicOf(i), option_list[i].kind = "comp", value)]
        /\ IF Scan!Overflows(BasicOf(i)) THEN phase' \in {"stopped", "corrupt"}
                                         ELSE phase' = phase
    BY <1>1, <1>4, TakeIs
  <2>2. BasicOf(i) # o_DAEMON
    BY <1>1, RootsAre
  <2>3. ~Scan!Overflows(BasicOf(i))
    <3>1. names[BasicOf(i)].dup = "default"
      BY <1>1, RootsAre, OptionsAre DEF Listed
    <3> QED BY <1>1, <3>1 DEF Scan!Overflows, Scan!Appends, Scan!DupMode, Listed
  <2>4. Uncounted'
    BY <1>1, <2>1, <2>2 DEF Uncounted
  <2> QED BY <1>2, <2>1, <2>3, <2>4
<1>5. /\ UNCHANGED <<names, onDup>> /\ Uncounted' /\ phase' \in {"scan", "scanned", "stopped"}
  <2>1. CASE Scan!ScanUnstarted
    BY <1>1, <2>1, Starts DEF Scan!ScanUnstarted
  <2>2. CASE Scan!ScanAttached
    <3>1. PICK value : Scan!Take(Head(args).opt, value, Tail(args))
      BY <2>2 DEF Scan!ScanAttached
    <3>2. Head(args).opt \in Options
      BY <1>1, <2>2 DEF Scan!ScanAttached, Scan!AtOption, Scan!Found, Scan!Ids,
                        Listed
    <3> QED BY <1>4, <3>1, <3>2
  <2>3. CASE Scan!ScanDetached
    <3>1. Scan!Take(Head(args).opt, Scan!TextOf(args[2]), Tail(Tail(args)))
      BY <2>3 DEF Scan!ScanDetached
    <3>2. Head(args).opt \in Options
      BY <1>1, <2>3 DEF Scan!ScanDetached, Scan!AtOption, Scan!Found, Scan!Ids,
                        Listed
    <3> QED BY <1>4, <3>1, <3>2
  <2>4. CASE Scan!ScanError \/ Scan!ScanEnd
    BY <1>1, <1>2, <2>4 DEF Scan!ScanError, Scan!ScanEnd, Scan!listVars, Uncounted
  <2> QED BY <2>1, <2>2, <2>3, <2>4 DEF ScanArguments, Scan!scanopt_scan
<1> QED BY <1>1, <1>3, <1>5, SameGlobals DEF NULL

LEMMA NextOptionStep == ASSUME EndpointInv, NextOption PROVE EndpointInv'
<1>1. /\ UNCHANGED <<names, onDup>> /\ globals' = globals /\ exit_code' = exit_code
      /\ phase = "next" /\ phase' \in {"apply", "done", "stopped"}
  BY DEF NextOption, Scan!scanopt_next, Scan!listVars
<1>2. exit_code = NULL
  BY <1>1 DEF EndpointInv, TypeOK
<1>3. Listed /\ Uncounted /\ o_DAEMON \in Options
  BY OptionsAre, OptionsAreNumbers DEF EndpointInv
<1>4. ~Scan!IsUsed(o_DAEMON)
  BY <1>3, RootsAre DEF Scan!IsUsed, Uncounted
<1>5. \/ options' = options /\ phase' # "apply"
      \/ \E i \in Options :
           /\ i # o_DAEMON /\ options' = [options EXCEPT ![i] = Scan!WithEnvironment(i)]
           /\ current'.id = i
  <2>1. Scan!Ids = Options
    BY <1>3 DEF Scan!Ids, Listed
  <2> QED BY <1>4, <2>1 DEF NextOption, Scan!scanopt_next
<1>6. Uncounted'
  BY <1>3, <1>5 DEF Uncounted
<1>7. phase' = "apply" => current'.id \in DOMAIN option_list \ {o_DAEMON}
  BY <1>5 DEF Options
<1> QED BY <1>1, <1>2, <1>6, <1>7, SameGlobals DEF NULL

LEMMA BootStrapStep == ASSUME EndpointInv, BootStrap PROVE EndpointInv'
<1>1. PICK d : globals' = [globals EXCEPT !.scgi_dir = d]
  BY DEF BootStrap
<1>2. /\ UNCHANGED <<names, onDup, options>> /\ exit_code' = exit_code /\ phase = "scanned"
      /\ phase' \in {"next", "stopped"}
  BY DEF BootStrap, Source, scanVars
<1>3. /\ HasFields'
      /\ \A f \in {"workers", "socket_flag", "server_ip", "port"} :
           globals'[f] = globals[f]
  BY <1>1 DEF EndpointInv, HasFields, Fields
<1>4. TypeOK'
  BY <1>2, <1>3 DEF EndpointInv, TypeOK
<1>5. Endpoint' /\ OneEndpoint'
  BY <1>2, <1>3 DEF EndpointInv, Endpoint, OneEndpoint
<1>6. Listed' /\ Uncounted'
  BY <1>2 DEF EndpointInv, Listed, Uncounted
<1> QED BY <1>3, <1>4, <1>5, <1>6 DEF EndpointInv

LEMMA ApplyStep == ASSUME EndpointInv, apply_option_definitions PROVE EndpointInv'
<1>1. /\ phase = "apply" /\ UNCHANGED <<names, onDup, options>> /\ HasFields'
      /\ \/ phase' \in {"next", "stopped"} /\ exit_code' = exit_code
         \/ phase' = "exited" /\ exit_code' = 1
      /\ globals'.workers \in 0..MAX_WORKERS
      /\ globals'.socket_flag \in {0, 1}
      /\ Endpoint'
  BY ApplyIs
<1>2. exit_code = NULL
  BY <1>1 DEF EndpointInv, TypeOK
<1>3. TypeOK'
  BY <1>1, <1>2 DEF TypeOK, NULL
<1>4. OneEndpoint'
  BY <1>1 DEF OneEndpoint
<1>5. Listed' /\ Uncounted'
  BY <1>1 DEF EndpointInv, Listed, Uncounted
<1> QED BY <1>1, <1>3, <1>4, <1>5 DEF EndpointInv

LEMMA CheckStep == ASSUME EndpointInv, Check PROVE EndpointInv'
<1>1. /\ UNCHANGED <<names, onDup, options>> /\ globals' = globals /\ phase = "done"
      /\ \/ phase' = "exited" /\ exit_code' \in {0, 1}
         \/ /\ phase' = "serving" /\ exit_code' = exit_code
            /\ ~(globals.port = 0 /\ globals.socket_flag = 0)
  BY DEF Check, Exit, scanVars
<1>2. exit_code = NULL
  BY <1>1 DEF EndpointInv, TypeOK
<1>3. Uncounted'
  BY <1>1 DEF EndpointInv, Uncounted
<1> QED BY <1>1, <1>2, <1>3, SameGlobals DEF NULL

\* The list, as the program starts with it.
LEMMA InitList ==
  ASSUME Init
  PROVE  /\ Listed /\ args \in CommandLines /\ Scan!Ids = Options
         /\ options = [i \in Options |->
                         [count |-> 0, optarg |-> names[i].init, iVal |-> 0,
                          argArray |-> [k \in 0..10 |-> NULL]]]
<1>1. PICK a \in NullAddresses : names = configure_options(a) /\ args \in CommandLines
  BY DEF Init, Scan!Init
<1>2. Listed
  <2>1. /\ DOMAIN names = Options /\ Len(names) = Len(option_list)
    BY <1>1, OptionsAreNumbers DEF configure_options, Options, option_list
  <2>2. ASSUME NEW i \in Options
        PROVE  \/ names[i] = option_list[i]
               \/ names[i] = [option_list[i] EXCEPT !.variable = a]
    <3>1. CASE i = o_VERBOSE
      BY <1>1, <3>1, OptionsAreNumbers DEF configure_options, Options
    <3>2. CASE i = o_WORKERS
      BY <1>1, <3>2, OptionsAreNumbers DEF configure_options, Options
    <3>3. CASE i # o_VERBOSE /\ i # o_WORKERS
      BY <1>1, <3>3 DEF configure_options, Options
    <3> QED BY <3>1, <3>2, <3>3
  <2>3. ASSUME NEW i \in Options
        PROVE  DOMAIN option_list[i] = {"named", "long", "kind", "root", "arg",
                                        "variable", "val", "dup", "init", "default"}
    BY OptionsAre DEF option_list, Entry, Text, NoText, Flag
  <2>4. ASSUME NEW i \in Options
        PROVE  /\ names[i].kind = option_list[i].kind
               /\ names[i].root = option_list[i].root
               /\ names[i].arg = option_list[i].arg
               /\ names[i].val = option_list[i].val
               /\ names[i].dup = option_list[i].dup
               /\ names[i].init = option_list[i].init
               /\ names[i].default = option_list[i].default
    BY <2>2, <2>3
  <2>5. onDup = "overwrite"
    BY DEF Init, Scan!Init
  <2> QED BY <2>1, <2>4, <2>5 DEF Listed
<1> QED BY <1>1, <1>2 DEF Init, Scan!Init, Scan!Ids, Listed, Scan!NULL, NULL

\* The endpoint options exclude each other at every step through the list.
THEOREM EndpointInvariant == Spec => []EndpointInv
<1>1. Init => EndpointInv
  <2> SUFFICES ASSUME Init PROVE EndpointInv
    OBVIOUS
  <2>1. Listed /\ Uncounted /\ phase = "scan"
    <3>1. o_DAEMON \in Options
      BY OptionsAre, OptionsAreNumbers
    <3> QED BY <3>1, InitList DEF Init, Scan!Init, Uncounted
  <2>2. /\ HasFields /\ exit_code = NULL /\ globals.workers = 0
        /\ globals.socket_flag = 0
    BY DEF Init, HasFields, Fields
  <2> QED BY <2>1, <2>2 DEF EndpointInv, TypeOK, Endpoint, OneEndpoint, MAX_WORKERS
<1>2. EndpointInv /\ [Next]_vars => EndpointInv'
  <2>1. ASSUME EndpointInv, UNCHANGED vars PROVE EndpointInv'
    BY <2>1 DEF vars, scanVars, EndpointInv, Listed, Uncounted, HasFields, TypeOK,
                Endpoint, OneEndpoint
  <2> QED BY <2>1, ScanArgumentsStep, NextOptionStep, BootStrapStep, ApplyStep,
             CheckStep DEF Next
<1> QED BY <1>1, <1>2, PTL DEF Spec

\* The variables keep their types: the option that apply_option_definitions
\* has a case for, one of the exit codes, and at most the workers it can have.
THEOREM TypeCorrect == Spec => []TypeOK
<1>1. EndpointInv => TypeOK
  BY DEF EndpointInv
<1> QED BY <1>1, EndpointInvariant, PTL

\* A server that starts has a port or a socket, not both, and no address with
\* a socket, whichever of the command line, the configuration file and the
\* environment each of the options came from.
THEOREM OneEndpointTheorem == Spec => []OneEndpoint
<1>1. EndpointInv => OneEndpoint
  BY DEF EndpointInv
<1> QED BY <1>1, EndpointInvariant, PTL
-----------------------------------------------------------------------------
(***************************************************************************)
(* Where the values come from.  The command line is frozen once it has been *)
(* scanned; the environment is final once the configuration file has been   *)
(* read, which is before the second option of the list is handed out.       *)
(***************************************************************************)
Use == [opt : Options, value : Int]

OptionData ==
  [count : Nat, optarg : Int, iVal : Int, argArray : [0..10 -> Int]]

\* The environment after a configuration file, and the one that is final.
Sourced ==
  [i \in Options |-> IF config.lines[i] # NULL THEN config.lines[i]
                                               ELSE inherited[i]]

Implied == Len(args) = argc /\ has_default
Final   == IF ConfigRead THEN Sourced ELSE inherited

\* What one use of an option means: Meaning of the scanner, for this list.
MeaningOf(i, u) ==
  CASE option_list[i].arg = "none" ->
         Scan!Flag(option_list[i].val, option_list[u.opt].kind = "comp")
    [] option_list[i].arg = "optional" /\ u.value = NULL ->
         option_list[i].default
    [] OTHER -> u.value

\* What getopt_long has returned and left.  A --config that was scanned keeps
\* the implicit one from being read.
Line ==
  /\ argc \in Nat /\ args \in Seq(Scan!Arguments) /\ Len(args) <= argc
  /\ seen \in [Options -> Seq(Use)]
  /\ \A i \in Options : \A k \in DOMAIN seen[i] : BasicOf(seen[i][k].opt) = i
  /\ seen[o_CONF] # <<>> => Len(args) < argc
  /\ onDup = "overwrite"

\* The working data of an option that was scanned are those of its last use;
\* one that was neither scanned nor handed out has none.
Meant(i, o, u) ==
  IF option_list[i].arg = "none"
  THEN option_list[i].val = "set" => o.iVal = MeaningOf(i, u)
  ELSE o.optarg = MeaningOf(i, u)

Data ==
  phase # "stopped" =>
    \A i \in Options :
      /\ seen[i] # <<>> => options[i].count = Len(seen[i])
                           /\ Meant(i, options[i], Last(seen[i]))
      /\ seen[i] = <<>> /\ i >= current_index => options[i].count = 0

\* --config is applied to the inherited environment, every other option to the
\* final one.
AtConf == phase = "apply" /\ current.id = o_CONF

Variables ==
  /\ env \in [Options -> Int] /\ env[o_CONF] = NULL
  /\ inherited \in [Options -> Int] /\ inherited[o_CONF] = NULL
  /\ config.lines \in [Options -> Int] /\ config.lines[o_CONF] = NULL
  /\ phase \in {"scan", "scanned"} \/ AtConf => env = inherited
  /\ phase = "next" /\ current_index = 1 =>
       env = IF Implied THEN Sourced ELSE inherited
  /\ (phase \in {"next", "done"} /\ current_index > 1)
       \/ (phase = "apply" /\ ~AtConf) => env = Final

\* The options before the cursor that were asked for have been handed out.
Live == phase \notin {"stopped", "exited"}

HandedOut ==
  /\ DOMAIN assigned = Options /\ options \in [Options -> OptionData]
  /\ current_index \in Nat \ {0}
  /\ phase \in {"scan", "scanned"} => current_index = 1
  /\ phase \in {"done", "serving"} => current_index = Len(option_list) + 2
  /\ Live => \A i \in Options :
       /\ assigned[i] # <<>> <=>
            i < current_index /\ i # o_DAEMON /\ IsAsked(i)
       /\ assigned[i] # <<>> /\ option_list[i].val = "set" =>
            assigned[i] = <<Asked(i)>>
  /\ phase = "apply" =>
       /\ current.id = current_index - 1 /\ IsAsked(current.id)
       /\ option_list[current.id].arg # "none" => optarg = Asked(current.id)
       /\ current.id = o_CONF =>
            seen[o_CONF] # <<>> /\ current.optcount = Len(seen[o_CONF])

\* What has been applied is in the variables of command_line.h.
Applied(i) == i < current_index /\ IsAsked(i) /\ ~(phase = "apply" /\ current.id = i)

Limited(n) == IF n \in 0..MAX_WORKERS THEN n ELSE DEFAULT_WORKERS

Globals ==
  Live =>
    /\ globals.server_ip = IF Applied(o_BIND) THEN Asked(o_BIND) ELSE NULL
    /\ globals.port = IF Applied(o_PORT) THEN Asked(o_PORT) ELSE 0
    /\ globals.verbose_level = IF Applied(o_VERBOSE) THEN Asked(o_VERBOSE) ELSE 0
    /\ globals.socket_flag = 1 <=> Applied(o_SOCKET) \/ Applied(o_UDS)
    /\ globals.filter_name = IF Applied(o_FILTER) THEN Asked(o_FILTER) ELSE NULL
    /\ globals.user = IF Applied(o_USER) THEN Asked(o_USER) ELSE 0
    /\ globals.workers = IF Applied(o_WORKERS) THEN Limited(Asked(o_WORKERS)) ELSE 0
    /\ Applied(e_SCGI_DIR) => globals.scgi_dir = Asked(e_SCGI_DIR)
    /\ /\ phase \notin {"scan", "scanned"}
       /\ inherited[e_SCGI_DIR] = NULL /\ ~Applied(e_SCGI_DIR)
       => globals.scgi_dir \in {HomeDir, WorkDir}

\* The test that option i has passed when it has been applied.
Tests(i) ==
  /\ i = o_CONF => /\ ~(Len(Uses(o_CONF)) > 1)
                   /\ FileKind[Uses(o_CONF)[1].value] # "missing"
  /\ i = o_BIND => Asked(o_BIND) \in Addresses
  /\ i = o_FILTER => FileKind[Asked(o_FILTER)] = "directory"
  /\ i = o_PORT => ~IsAsked(o_UDS)
  /\ i = o_USER => Asked(o_USER) \in Users

Tested == Live => \A i \in Options : Applied(i) => Tests(i)

SourceInv ==
  /\ EndpointInv /\ Line /\ Data /\ Variables /\ HandedOut /\ Globals /\ Tested
  /\ SourcesInOrder /\ ExitCodesAreTrue

-----------------------------------------------------------------------------
LEMMA MeaningIs ==
  ASSUME Listed, NEW i \in Options, NEW u, u.opt \in Options
  PROVE  Scan!Meaning(i, u) = MeaningOf(i, u)
<1>1. /\ names[i].arg = option_list[i].arg /\ names[i].val = option_list[i].val
      /\ names[i].default = option_list[i].default
      /\ option_list[i].arg \in {"none", "required", "optional"}
  BY OptionsAre DEF Listed
<1>2. Scan!Complements(u.opt) = (option_list[u.opt].kind = "comp")
  BY RootsAre
<1>3. option_list[i].arg # "none" => Scan!ArgType(i) = option_list[i].arg
  <2>1. option_list[o_DAEMON].arg = "none"
    BY ArgumentsAre
  <2> QED BY <2>1, RootsAre
<1> QED BY <1>1, <1>2, <1>3 DEF Scan!Meaning, Scan!Given, MeaningOf, Scan!NULL, NULL

\* What define_option makes of one use of an option of this list.
LEMMA DefinedIs ==
  ASSUME Listed, NEW i \in Options \ {o_DAEMON}, NEW o \in OptionData,
         NEW complement \in BOOLEAN, NEW value \in Int
  PROVE  LET d == Scan!Defined(o, i, complement, value)
         IN  /\ d \in OptionData /\ d.count = o.count
             /\ option_list[i].arg # "none" => d.optarg = Scan!Given(i, value)
             /\ option_list[i].arg = "none" /\ option_list[i].val = "set" =>
                  d.iVal = Scan!Flag("set", complement)
<1> DEFINE n == names[i]
           v == Scan!Given(i, value)
           f == Scan!Flag(n.val, complement)
           d == Scan!Defined(o, i, complement, value)
<1>0. Scan!ArgType(i) = n.arg /\ n.arg = option_list[i].arg
      /\ n.val = option_list[i].val
  BY RootsAre DEF Listed
<1>1. v \in Int /\ f \in Int
  BY OptionsAre DEF Scan!Given, Scan!Flag, Listed
<1>2. /\ n.dup # "append" /\ n.val \in {"text", "set", "unset", "int"}
      /\ n.arg \in {"none", "required", "optional"}
  BY OptionsAre DEF Listed
<1>3. CASE n.arg = "none" /\ n.val \in {"set", "unset"}
  <2>1. d = [o EXCEPT !.optarg = f, !.iVal = f]
    BY <1>0, <1>2, <1>3 DEF Scan!Defined
  <2> HIDE DEF d, f, v
  <2>2. d \in OptionData /\ d.count = o.count /\ d.iVal = f
    BY <1>1, <2>1 DEF OptionData
  <2> QED BY <1>0, <1>3, <2>2 DEF d, f
<1>4. CASE n.arg = "none" /\ n.val \notin {"set", "unset"}
  <2>1. d = o
    BY <1>0, <1>2, <1>4 DEF Scan!Defined
  <2> QED BY <1>0, <1>4, <2>1
<1>5. CASE n.arg # "none"
  <2>1. d = [o EXCEPT !.optarg = v, !.iVal = o.iVal]
    BY <1>0, <1>2, <1>5 DEF Scan!Defined
  <2> HIDE DEF d, f, v
  <2>2. d \in OptionData /\ d.count = o.count /\ d.optarg = v
    BY <1>1, <2>1 DEF OptionData
  <2> QED BY <1>0, <1>5, <2>2 DEF d, v
<1> QED BY <1>3, <1>4, <1>5

\* No use of an option of this list is appended, and each one counts.
LEMMA UsedIs ==
  ASSUME Listed, NEW i \in Options \ {o_DAEMON}, options[i] \in OptionData,
         NEW complement \in BOOLEAN, NEW value \in Int
  PROVE  LET u == Scan!Used(i, complement, value)
         IN  /\ ~Scan!Overflows(i)
             /\ u \in OptionData /\ u.count = options[i].count + 1
             /\ option_list[i].arg # "none" => u.optarg = Scan!Given(i, value)
             /\ option_list[i].arg = "none" /\ option_list[i].val = "set" =>
                  u.iVal = Scan!Flag("set", complement)
<1> DEFINE p == [options[i] EXCEPT !.count = @ + 1]
           u == Scan!Used(i, complement, value)
<1>1. Scan!DupMode(i) = "overwrite"
  BY OptionsAre DEF Scan!DupMode, Listed
<1>2. ~Scan!Overflows(i)
  BY <1>1 DEF Scan!Overflows, Scan!Appends
<1>3. p \in OptionData /\ p.count = options[i].count + 1
  BY DEF OptionData
<1>4. u = Scan!Defined(p, i, complement, value)
  BY <1>1 DEF Scan!Used
<1> HIDE DEF p, u
<1> QED BY <1>2, <1>3, <1>4, DefinedIs DEF u

\* One more use in the history of option r.
LEMMA SeenAfter ==
  ASSUME seen \in [Options -> Seq(Use)], NEW r \in Options, NEW u \in Use,
         seen' = [seen EXCEPT ![r] = Append(@, u)]
  PROVE  /\ seen' \in [Options -> Seq(Use)]
         /\ \A j \in Options \ {r} : seen'[j] = seen[j]
         /\ Len(seen[r]) \in Nat /\ (seen[r] = <<>> <=> Len(seen[r]) = 0)
         /\ seen'[r] # <<>> /\ Len(seen'[r]) = Len(seen[r]) + 1
         /\ Last(seen'[r]) = u
         /\ \A k \in DOMAIN seen'[r] :
              \/ seen'[r][k] = u
              \/ k \in DOMAIN seen[r] /\ seen'[r][k] = seen[r][k]
<1> DEFINE s == seen[r]
           t == Append(s, u)
<1>1. s \in Seq(Use)
  OBVIOUS
<1>2. /\ seen'[r] = t /\ \A j \in Options \ {r} : seen'[j] = seen[j]
  OBVIOUS
<1>3. /\ t \in Seq(Use) /\ t # <<>> /\ Len(t) = Len(s) + 1
      /\ \A k \in 1..Len(s) : t[k] = s[k]
      /\ t[Len(s) + 1] = u
  BY <1>1, AppendProperties
<1>4. seen' \in [Options -> Seq(Use)]
  BY <1>3
<1>5. Len(s) \in Nat /\ DOMAIN s = 1..Len(s) /\ (s = <<>> <=> Len(s) = 0)
  BY <1>1, LenProperties, EmptySeq
<1>6. DOMAIN t = 1..(Len(s) + 1)
  BY <1>3, LenProperties
<1> HIDE DEF s, t
<1>7. Last(t) = u
  BY <1>3 DEF Last
<1>8. \A k \in DOMAIN t : t[k] = u \/ (k \in DOMAIN s /\ t[k] = s[k])
  <2> SUFFICES ASSUME NEW k \in DOMAIN t, k # Len(s) + 1
               PROVE  k \in DOMAIN s /\ t[k] = s[k]
    BY <1>3
  <2>1. k \in 1..Len(s)
    BY <1>5, <1>6
  <2> QED BY <1>3, <1>5, <2>1
<1> QED BY <1>2, <1>3, <1>4, <1>5, <1>7, <1>8 DEF s, t

\* What one use means is what define_option makes of it.
LEMMA UsedIsMeant ==
  ASSUME Listed, NEW i \in Options, NEW r \in Options, NEW u, NEW value, NEW o,
         u.opt = i, u.value = value,
         option_list[r].arg # "none" => o.optarg = Scan!Given(r, value),
         option_list[r].arg = "none" /\ option_list[r].val = "set" =>
           o.iVal = Scan!Flag("set", option_list[i].kind = "comp")
  PROVE  Meant(r, o, u)
<1>1. Scan!Complements(u.opt) = (option_list[i].kind = "comp")
  BY RootsAre
<1>2. names[r].arg = option_list[r].arg /\ names[r].val = option_list[r].val
  BY DEF Listed
<1>3. \/ /\ option_list[r].arg = "none" /\ option_list[r].val = "set"
         /\ Scan!Meaning(r, u) = Scan!Flag("set", option_list[i].kind = "comp")
      \/ option_list[r].arg = "none" /\ option_list[r].val # "set"
      \/ option_list[r].arg # "none" /\ Scan!Meaning(r, u) = Scan!Given(r, value)
  BY <1>1, <1>2 DEF Scan!Meaning
<1> QED BY <1>3, MeaningIs DEF Meant

-----------------------------------------------------------------------------
\* While arguments are scanned nothing has been handed out or applied.
LEMMA ScanningFrame ==
  ASSUME SourceInv, phase = "scan", EndpointInv', Line', Data',
         phase' \in {"scan", "scanned"},
         options' \in [Options -> OptionData],
         UNCHANGED <<inputVars, env, current_index, assigned, globals, exit_code>>
  PROVE  SourceInv'
<1>1. current_index = 1 /\ Live /\ exit_code = NULL
  BY DEF SourceInv, HandedOut, Live, EndpointInv, TypeOK
<1>2. \A i \in Options : ~(i < 1)
  BY OptionsAre
<1>3. Variables'
  BY <1>1 DEF SourceInv, Variables, AtConf, inputVars
<1>4. HandedOut'
  <2>1. \A i \in Options : assigned[i] = <<>>
    BY <1>1, <1>2 DEF SourceInv, HandedOut
  <2> QED BY <1>1, <1>2, <2>1 DEF SourceInv, HandedOut
<1>5. Globals'
  <2>1. \A i \in SettingOptions : ~Applied(i) /\ ~Applied(i)'
    BY <1>1, <1>2, SettingOptionsAre DEF Applied
  <2>2. Globals /\ Live
    BY <1>1 DEF SourceInv
  <2> QED BY <2>1, <2>2 DEF Globals, SettingOptions
<1>6. Tested'
  BY <1>1, <1>2 DEF Tested, Applied
<1>7. SourcesInOrder' /\ ExitCodesAreTrue'
  BY <1>1 DEF SourcesInOrder, ExitCodesAreTrue, NULL
<1> QED BY <1>3, <1>4, <1>5, <1>6, <1>7 DEF SourceInv

\* getopt_long has returned an option.
LEMMA TakeStep ==
  ASSUME SourceInv, phase = "scan", EndpointInv', NEW i \in Options,
         NEW value \in Int, NEW rest \in Seq(Scan!Arguments),
         Len(rest) < Len(args), Scan!Take(i, value, rest),
         UNCHANGED <<inputVars, globals, exit_code>>
  PROVE  SourceInv'
<1> DEFINE u == [opt |-> i, value |-> value]
           complement == option_list[i].kind = "comp"
<1>0. Listed
  BY DEF SourceInv, EndpointInv
<1>r. PICK r : r = BasicOf(i)
  OBVIOUS
<1>1. r \in Options \ {o_DAEMON}
  BY <1>0, <1>r, RootsAre
<1>2. /\ UNCHANGED <<names, onDup, env, current_index, assigned>>
      /\ args' = rest
      /\ seen' = [seen EXCEPT ![r] = Append(@, u)]
      /\ options' = [options EXCEPT ![r] = Scan!Used(r, complement, value)]
      /\ IF Scan!Overflows(r) THEN phase' \in {"stopped", "corrupt"}
                              ELSE phase' = phase
  BY <1>0, <1>r, TakeIs
<1>3. u \in Use /\ u.opt = i /\ u.value = value
  BY DEF Use
<1> HIDE DEF u
<1>4. /\ seen' \in [Options -> Seq(Use)]
      /\ \A j \in Options \ {r} : seen'[j] = seen[j]
      /\ Len(seen[r]) \in Nat /\ (seen[r] = <<>> <=> Len(seen[r]) = 0)
      /\ seen'[r] # <<>> /\ Len(seen'[r]) = Len(seen[r]) + 1
      /\ Last(seen'[r]) = u
      /\ \A k \in DOMAIN seen'[r] :
           \/ seen'[r][k] = u
           \/ k \in DOMAIN seen[r] /\ seen'[r][k] = seen[r][k]
  <2>1. seen \in [Options -> Seq(Use)]
    BY DEF SourceInv, Line
  <2>2. r \in Options /\ u \in Use /\ seen' = [seen EXCEPT ![r] = Append(@, u)]
    BY <1>1, <1>2, <1>3, Zenon
  <2> QED BY <2>1, <2>2, SeenAfter, ZenonT(40)
<1>5. options \in [Options -> OptionData] /\ onDup = "overwrite"
  BY DEF SourceInv, HandedOut, Line
<1>6. PICK d : d = Scan!Used(r, complement, value)
  OBVIOUS
<1>7. /\ ~Scan!Overflows(r) /\ d \in OptionData
      /\ d.count = options[r].count + 1
      /\ option_list[r].arg # "none" => d.optarg = Scan!Given(r, value)
      /\ option_list[r].arg = "none" /\ option_list[r].val = "set" =>
           d.iVal = Scan!Flag("set", complement)
  BY <1>0, <1>1, <1>5, <1>6, UsedIs
<1>8. options' = [options EXCEPT ![r] = d] /\ phase' = phase
  BY <1>2, <1>6, <1>7
<1>9. /\ options' \in [Options -> OptionData] /\ options'[r] = d
      /\ \A j \in Options \ {r} : options'[j] = options[j]
  BY <1>1, <1>5, <1>7, <1>8
<1>10. Line'
  <2>1. \A j \in Options : \A k \in DOMAIN seen'[j] :
          BasicOf(seen'[j][k].opt) = j
    <3> SUFFICES ASSUME NEW j \in Options, NEW k \in DOMAIN seen'[j]
                 PROVE  BasicOf(seen'[j][k].opt) = j
      OBVIOUS
    <3>1. CASE j = r
      <4>1. CASE seen'[r][k] = u
        BY <1>3, <1>r, <3>1, <4>1
      <4>2. CASE k \in DOMAIN seen[r] /\ seen'[r][k] = seen[r][k]
        BY <1>1, <3>1, <4>2 DEF SourceInv, Line
      <4> QED BY <1>4, <3>1, <4>1, <4>2
    <3>2. CASE j # r
      BY <1>4, <3>2 DEF SourceInv, Line
    <3> QED BY <3>1, <3>2
  <2>2. Len(rest) <= argc /\ Len(rest) < argc
    <3>1. Len(rest) \in Nat /\ Len(args) \in Nat
      BY LenProperties DEF SourceInv, Line
    <3> QED BY <3>1 DEF SourceInv, Line
  <2>3. argc' = argc
    BY DEF inputVars
  <2>4. argc' \in Nat /\ args' \in Seq(Scan!Arguments) /\ onDup' = "overwrite"
    BY <1>2, <1>5, <2>3 DEF SourceInv, Line
  <2> QED BY <1>2, <1>4, <2>1, <2>2, <2>3, <2>4 DEF Line
<1>11. Data'
  <2> SUFFICES ASSUME NEW j \in Options
               PROVE  /\ seen'[j] # <<>> =>
                           /\ options'[j].count = Len(seen'[j])
                           /\ Meant(j, options'[j], Last(seen'[j]))
                      /\ seen'[j] = <<>> /\ j >= current_index' =>
                           options'[j].count = 0
    BY DEF Data
  <2>2. CASE j = r
    <3>1. Meant(r, d, u)
      BY <1>0, <1>1, <1>3, <1>7, UsedIsMeant
    <3>2. options[r].count = Len(seen[r])
      <4>1. current_index = 1 /\ r >= 1
        BY <1>1, OptionsAre DEF SourceInv, HandedOut
      <4> QED BY <1>1, <1>4, <4>1 DEF SourceInv, Data
    <3> QED BY <1>4, <1>7, <1>9, <2>2, <3>1, <3>2
  <2>3. CASE j # r
    <3>1. seen'[j] = seen[j] /\ options'[j] = options[j]
      BY <1>4, <1>9, <2>3
    <3> QED BY <1>2, <1>8, <3>1 DEF SourceInv, Data
  <2> QED BY <2>2, <2>3
<1> QED BY <1>2, <1>8, <1>9, <1>10, <1>11, ScanningFrame

LEMMA ScanStep == ASSUME SourceInv, ScanArguments PROVE SourceInv'
<1>1. EndpointInv'
  BY ScanArgumentsStep DEF SourceInv
<1>2. /\ phase = "scan" /\ Scan!scanopt_scan
      /\ UNCHANGED <<inputVars, globals, exit_code>>
  BY DEF ScanArguments, Scan!scanopt_scan, Scan!ScanUnstarted, Scan!ScanAttached,
         Scan!ScanDetached, Scan!ScanError, Scan!ScanEnd, Scan!AtOption,
         Scan!Scanning
<1>3. Listed /\ args \in Seq(Scan!Arguments) /\ Len(args) \in Nat
  BY LenProperties DEF SourceInv, EndpointInv, Line
<1>4. ASSUME args # <<>>
      PROVE  /\ Head(args) \in Scan!Arguments /\ Tail(args) \in Seq(Scan!Arguments)
             /\ Len(Tail(args)) = Len(args) - 1
             /\ Head(args).arg \in Int
  <2>1. /\ Head(args) \in Scan!Arguments /\ Tail(args) \in Seq(Scan!Arguments)
        /\ Len(Tail(args)) = Len(args) - 1
    BY <1>3, <1>4, HeadTailProperties
  <2> QED BY <2>1 DEF Scan!Arguments
<1>5. CASE Scan!ScanAttached
  <2>1. args # <<>> /\ Head(args).opt \in Options
    BY <1>3, <1>5 DEF Scan!ScanAttached, Scan!AtOption, Scan!Found, Scan!Ids, Listed
  <2>2. PICK value \in Scan!Passed(Head(args)) :
          Scan!Take(Head(args).opt, value, Tail(args))
    BY <1>5 DEF Scan!ScanAttached
  <2>3. value \in Int
    BY <1>4, <2>1, <2>2 DEF Scan!Passed, Scan!NULL
  <2>4. Len(Tail(args)) < Len(args)
    BY <1>3, <1>4, <2>1
  <2> QED BY <1>1, <1>2, <1>4, <2>1, <2>2, <2>3, <2>4, TakeStep
<1>6. CASE Scan!ScanDetached
  <2>1. /\ args # <<>> /\ Head(args).opt \in Options /\ Len(args) > 1
        /\ Scan!Take(Head(args).opt, Scan!TextOf(args[2]), Tail(Tail(args)))
    BY <1>3, <1>6 DEF Scan!ScanDetached, Scan!AtOption, Scan!Found, Scan!Ids, Listed
  <2>2. args[2] \in Scan!Arguments
    BY <1>3, <2>1, ElementOfSeq
  <2>3. Scan!TextOf(args[2]) \in Int
    BY <2>2 DEF Scan!TextOf, Scan!Arguments
  <2>4. Tail(args) # <<>>
    <3>1. Len(Tail(args)) # 0
      BY <1>3, <1>4, <2>1
    <3> QED BY <1>4, <2>1, <3>1, EmptySeq
  <2>5. /\ Tail(Tail(args)) \in Seq(Scan!Arguments)
        /\ Len(Tail(Tail(args))) = Len(Tail(args)) - 1
    BY <1>4, <2>1, <2>4, HeadTailProperties
  <2>6. Len(Tail(Tail(args))) < Len(args)
    BY <1>3, <1>4, <2>1, <2>5
  <2> QED BY <1>1, <1>2, <2>1, <2>3, <2>5, <2>6, TakeStep
<1>7. CASE Scan!ScanError \/ Scan!ScanEnd
  <2>1. /\ UNCHANGED <<names, seen, options, onDup, env, current_index, assigned>>
        /\ phase' \in {"scan", "scanned"}
    BY <1>2, <1>7 DEF Scan!ScanError, Scan!ScanEnd, Scan!listVars
  <2>2. args' \in Seq(Scan!Arguments) /\ Len(args') \in Nat /\ Len(args') <= Len(args)
    <3>1. CASE Scan!ScanError
      <4>1. args # <<>> /\ args' = Tail(args)
        BY <3>1 DEF Scan!ScanError
      <4>2. Len(args') \in Nat
        BY <1>4, <4>1, LenProperties
      <4> QED BY <1>3, <1>4, <4>1, <4>2
    <3>2. CASE Scan!ScanEnd
      BY <1>3, <3>2 DEF Scan!ScanEnd
    <3> QED BY <1>7, <3>1, <3>2
  <2>3. argc' = argc
    BY <1>2 DEF inputVars
  <2>5. Line'
    <3>2. Len(args') <= argc' /\ (seen'[o_CONF] # <<>> => Len(args') < argc')
      BY <1>3, <2>1, <2>2, <2>3 DEF SourceInv, Line
    <3> QED BY <2>1, <2>2, <2>3, <3>2 DEF SourceInv, Line
  <2>6. Data'
    BY <1>2, <2>1 DEF SourceInv, Data
  <2>7. options' \in [Options -> OptionData]
    BY <2>1 DEF SourceInv, HandedOut
  <2> QED BY <1>1, <1>2, <2>1, <2>5, <2>6, <2>7, ScanningFrame
<1>8. ~Scan!ScanUnstarted
  BY <1>3, Starts DEF Scan!ScanUnstarted
<1> QED BY <1>2, <1>5, <1>6, <1>7, <1>8 DEF Scan!scanopt_scan

-----------------------------------------------------------------------------
\* What the command line and the files ask for does not change after the scan.
LEMMA Frozen ==
  ASSUME UNCHANGED <<names, args, seen, onDup, inputVars>>
  PROVE  /\ Implied' = Implied /\ Sourced' = Sourced /\ Final' = Final
         /\ \A i : (IsAsked(i)' <=> IsAsked(i)) /\ Asked(i)' = Asked(i)
         /\ \A i : Tests(i)' <=> Tests(i)
         /\ (FaultyOption' <=> FaultyOption) /\ (BadComposition' <=> BadComposition)
         /\ (Information' <=> Information)
         /\ Line => Line'
<1>1. /\ argc' = argc /\ inherited' = inherited /\ config' = config
      /\ has_default' = has_default
  BY DEF inputVars
<1>2. ConfigRead' = ConfigRead /\ Implied' = Implied /\ Sourced' = Sourced
  BY <1>1 DEF ConfigRead, Implied, Sourced, Uses
<1>3. Final' = Final
  BY <1>1, <1>2 DEF Final
<1>4. \A i : (IsAsked(i)' <=> IsAsked(i)) /\ Asked(i)' = Asked(i)
  BY <1>1, <1>2 DEF IsAsked, Asked, Uses, Scan!Meaning, Scan!Given,
       Scan!Complements, Scan!Direct, Scan!ArgType, Scan!IsRoot
<1>5. \A i : Tests(i)' <=> Tests(i)
  BY <1>4 DEF Tests, Uses
<1>6. (FaultyOption' <=> FaultyOption) /\ (BadComposition' <=> BadComposition)
      /\ (Information' <=> Information)
  BY <1>4 DEF FaultyOption, BadComposition, Information, Uses
<1>7. Line => Line'
  BY <1>1 DEF Line
<1> QED BY <1>2, <1>3, <1>4, <1>5, <1>6, <1>7

\* What is asked for: the last use, or what the final environment has.
LEMMA AskedIs ==
  ASSUME SourceInv, NEW i \in Options
  PROVE  /\ IsAsked(i) <=> seen[i] # <<>> \/ Final[i] # NULL
         /\ seen[i] # <<>> => Asked(i) = MeaningOf(i, Last(seen[i]))
         /\ seen[i] = <<>> =>
              Asked(i) = IF Final[i] # NULL
                         THEN MeaningOf(i, [opt |-> i, value |-> Final[i]])
                         ELSE NULL
         /\ Final[o_CONF] = NULL /\ Sourced[o_CONF] = NULL
<1>1. Listed /\ o_CONF \in Options
  BY OptionsAre, OptionsAreNumbers DEF SourceInv, EndpointInv
<1>2. Final[i] = IF ConfigRead /\ config.lines[i] # NULL THEN config.lines[i]
                                                         ELSE inherited[i]
  BY DEF Final, Sourced
<1>3. \A u : u.opt \in Options => Scan!Meaning(i, u) = MeaningOf(i, u)
  BY <1>1, MeaningIs
<1>7. seen[i] # <<>> => Last(seen[i]).opt \in Options
  <2>1. seen[i] \in Seq(Use)
    BY DEF SourceInv, Line
  <2>2. seen[i] # <<>> => Last(seen[i]) \in Use
    BY <2>1, LastIs, ElementOfSeq, LenProperties
  <2> QED BY <2>2 DEF Use
<1>8. \A n : LET u == [opt |-> i, value |-> n]
            IN  Scan!Meaning(i, u) = MeaningOf(i, u)
  BY <1>3
<1>4. IsAsked(i) <=> seen[i] # <<>> \/ Final[i] # NULL
  BY <1>2 DEF IsAsked, Uses
<1>5. Final[o_CONF] = NULL /\ Sourced[o_CONF] = NULL
  BY <1>1 DEF Final, Sourced, SourceInv, Variables
<1>6. Asked(i) = IF seen[i] # <<>> THEN MeaningOf(i, Last(seen[i]))
                 ELSE IF Final[i] # NULL
                      THEN MeaningOf(i, [opt |-> i, value |-> Final[i]])
                      ELSE NULL
  BY <1>2, <1>3, <1>7, <1>8 DEF Asked, Uses
<1> QED BY <1>4, <1>5, <1>6

\* Which configuration file is read: the implicit one only if no --config was
\* scanned.
LEMMA FinalIs ==
  ASSUME SourceInv
  PROVE  /\ seen[o_CONF] = <<>> =>
              Final = IF Implied THEN Sourced ELSE inherited
         /\ seen[o_CONF] # <<>> =>
              /\ ~Implied
              /\ Final = IF FileKind[Last(seen[o_CONF]).value] = "regular"
                         THEN Sourced ELSE inherited
<1>1. Len(args) \in Nat /\ argc \in Nat
  BY LenProperties DEF SourceInv, Line
<1>2. seen[o_CONF] # <<>> => Len(args) # argc
  BY <1>1 DEF SourceInv, Line
<1> QED BY <1>2 DEF Final, ConfigRead, Implied, Uses

\* source_config_file.
LEMMA SourceIs ==
  ASSUME SourceInv, Source
  PROVE  \/ phase' = "stopped" /\ env' = env
         \/ phase' = "next" /\ (env = inherited => env' = Sourced)
<1>1. CASE env = inherited
  <2>1. DOMAIN env = Options
    BY DEF SourceInv, Variables
  <2> QED BY <1>1, <2>1 DEF Source, Sourced
<1>2. CASE env # inherited
  BY <1>2 DEF Source
<1> QED BY <1>1, <1>2

LEMMA SourcedType ==
  ASSUME SourceInv
  PROVE  Sourced \in [Options -> Int] /\ Sourced[o_CONF] = NULL
<1>1. Sourced \in [Options -> Int]
  BY DEF SourceInv, Variables, Sourced
<1>2. o_CONF \in Options
  BY OptionsAre, OptionsAreNumbers
<1> QED BY <1>1, <1>2, AskedIs

-----------------------------------------------------------------------------
\* Before the options are handed out.
LEMMA BootStep == ASSUME SourceInv, BootStrap PROVE SourceInv'
<1>1. EndpointInv'
  BY BootStrapStep DEF SourceInv
<1>2. /\ phase = "scanned" /\ exit_code' = exit_code
      /\ UNCHANGED <<names, args, seen, onDup, options, current_index, assigned,
                     current, inputVars>>
      /\ IF Implied THEN Source ELSE phase' = "next" /\ env' = env
  BY DEF BootStrap, scanVars, Implied
<1>3. PICK d :
        /\ globals' = [globals EXCEPT !.scgi_dir = d]
        /\ env[e_SCGI_DIR] = NULL => d \in {HomeDir, WorkDir}
  BY DEF BootStrap
<1>4. /\ \A f \in Fields \ {"scgi_dir"} : globals'[f] = globals[f]
      /\ globals'.scgi_dir = d
  <2>1. DOMAIN globals = Fields /\ "scgi_dir" \in Fields
    BY DEF SourceInv, EndpointInv, HasFields, Fields
  <2>2. globals' = [globals EXCEPT !.scgi_dir = d]
    BY <1>3
  <2> HIDE DEF Fields
  <2> QED BY <2>1, <2>2, Zenon
<1>5. /\ current_index = 1 /\ exit_code = NULL /\ env = inherited
      /\ phase' \in {"next", "stopped"}
  BY <1>2 DEF SourceInv, HandedOut, Variables, EndpointInv, TypeOK, Source
<1>6. Line'
  BY <1>2, Frozen DEF SourceInv
<1>7. Data'
  BY <1>2, <1>5 DEF SourceInv, Data
<1>8. Variables'
  <2>1. \/ phase' = "stopped" /\ env' = env
        \/ phase' = "next" /\ env' = IF Implied THEN Sourced ELSE inherited
    BY <1>2, <1>5, SourceIs
  <2>2. env' \in [Options -> Int] /\ env'[o_CONF] = NULL
    BY <1>5, <2>1, SourcedType DEF SourceInv, Variables
  <2>3. Implied' = Implied /\ Sourced' = Sourced
    BY <1>2, Frozen
  <2> QED BY <1>2, <1>5, <2>1, <2>2, <2>3 DEF SourceInv, Variables, AtConf, inputVars
<1>9. \A i \in Options : ~(i < 1)
  BY OptionsAre
<1>10. HandedOut'
  <2>1. \A i \in Options : assigned[i] = <<>>
    BY <1>2, <1>5, <1>9 DEF SourceInv, HandedOut, Live
  <2> QED BY <1>2, <1>5, <1>9, <2>1 DEF SourceInv, HandedOut
<1>11. Globals'
  <2>1. \A i \in SettingOptions : ~Applied(i) /\ ~Applied(i)'
    BY <1>2, <1>5, <1>9, SettingOptionsAre DEF Applied
  <2>2. /\ globals.server_ip = NULL /\ globals.port = 0
        /\ globals.verbose_level = 0 /\ globals.socket_flag # 1
        /\ globals.filter_name = NULL /\ globals.user = 0 /\ globals.workers = 0
    BY <1>2, <2>1 DEF SourceInv, Globals, Live, SettingOptions
  <2>3. inherited[e_SCGI_DIR] = NULL => globals'.scgi_dir \in {HomeDir, WorkDir}
    <3>1. env[e_SCGI_DIR] = inherited[e_SCGI_DIR]
      BY <1>5
    <3> QED BY <1>3, <1>4, <3>1, Zenon
  <2>4. inherited' = inherited
    BY <1>2 DEF inputVars
  <2>5. \A f \in {"server_ip", "port", "verbose_level", "socket_flag",
                  "filter_name", "user", "workers"} : globals'[f] = globals[f]
    BY <1>4 DEF Fields
  <2> QED BY <2>1, <2>2, <2>3, <2>4, <2>5 DEF Globals, SettingOptions
<1>12. SourcesInOrder' /\ ExitCodesAreTrue'
  BY <1>2, <1>5 DEF SourcesInOrder, ExitCodesAreTrue, NULL
<1>13. Tested'
  BY <1>2, <1>5, <1>9 DEF Tested, Applied
<1> QED BY <1>1, <1>6, <1>7, <1>8, <1>10, <1>11, <1>12, <1>13 DEF SourceInv

-----------------------------------------------------------------------------
(***************************************************************************)
(* scanopt_next.  The environment is final where it counts: unless the next *)
(* option is --config, which has no variable.                               *)
(***************************************************************************)
LEMMA CountIs ==
  ASSUME SourceInv, phase # "stopped", NEW i \in Options, i >= current_index
  PROVE  /\ options[i] \in OptionData
         /\ options[i].count > 0 <=> seen[i] # <<>>
         /\ options[i].count = 0 <=> seen[i] = <<>>
<1>1. options[i] \in OptionData /\ options[i].count \in Nat
  BY DEF SourceInv, HandedOut, OptionData
<1>2. Len(seen[i]) \in Nat /\ (seen[i] = <<>> <=> Len(seen[i]) = 0)
  BY LenProperties, EmptySeq DEF SourceInv, Line
<1>3. options[i].count = Len(seen[i])
  BY <1>2 DEF SourceInv, Data
<1> QED BY <1>1, <1>2, <1>3

LEMMA EnvironmentIsFinal ==
  ASSUME SourceInv, phase = "next", current_index > 1 \/ ~Scan!IsUsed(o_CONF)
  PROVE  env = Final
<1>1. CASE current_index > 1
  BY <1>1 DEF SourceInv, Variables
<1>2. CASE ~(current_index > 1)
  <2>1. current_index = 1
    BY <1>2 DEF SourceInv, HandedOut
  <2>2. o_CONF \in Options /\ o_CONF >= current_index /\ o_CONF # o_DAEMON
    BY <2>1, OptionsAre, OptionsAreNumbers
  <2>4. ~(options[o_CONF].count > 0)
    BY <1>2 DEF Scan!IsUsed
  <2>5. seen[o_CONF] = <<>>
    BY <2>2, <2>4, CountIs
  <2> QED BY <2>1, <2>5, FinalIs DEF SourceInv, Variables
<1> QED BY <1>1, <1>2

LEMMA UsedIsAsked ==
  ASSUME SourceInv, phase = "next", NEW i \in Options, i >= current_index,
         i = o_CONF \/ env = Final
  PROVE  /\ Scan!IsUsed(i) <=> i # o_DAEMON /\ IsAsked(i)
         /\ Scan!FromEnvironment(i) <=> seen[i] = <<>> /\ Final[i] # NULL
         /\ env[i] = Final[i]
<1>1. Listed /\ options[o_DAEMON].count = 0 /\ ~(0 > 0)
  BY DEF SourceInv, EndpointInv, Uncounted
<1>2. env[i] = Final[i]
  BY AskedIs DEF SourceInv, Variables
<1>3. Scan!FromEnvironment(i) <=> seen[i] = <<>> /\ Final[i] # NULL
  BY <1>2, CountIs DEF Scan!FromEnvironment, Scan!NULL, NULL
<1>4. Scan!IsUsed(i) <=> i # o_DAEMON /\ (seen[i] # <<>> \/ Final[i] # NULL)
  BY <1>1, <1>3, CountIs, RootsAre DEF Scan!IsUsed
<1> QED BY <1>2, <1>3, <1>4, AskedIs

\* The working data of an option that is handed out are what is asked for.
LEMMA WithEnvironmentIs ==
  ASSUME SourceInv, phase = "next", NEW i \in Options, i >= current_index,
         i = o_CONF \/ env = Final, Scan!IsUsed(i)
  PROVE  LET w == Scan!WithEnvironment(i)
         IN  /\ w \in OptionData
             /\ IF option_list[i].arg = "none"
                THEN option_list[i].val = "set" => w.iVal = Asked(i)
                ELSE w.optarg = Asked(i)
             /\ i = o_CONF => seen[i] # <<>> /\ w.count = Len(seen[i])
             /\ seen[i] # <<>> =>
                  w.count = Len(seen[i]) /\ Meant(i, w, Last(seen[i]))
<1> DEFINE w == Scan!WithEnvironment(i)
<1>0. Listed /\ i # o_DAEMON
  BY UsedIsAsked DEF SourceInv, EndpointInv
<1>1. CASE seen[i] # <<>>
  <2>1. w = options[i]
    BY <1>1, UsedIsAsked DEF Scan!WithEnvironment
  <2> HIDE DEF w
  <2>2. options[i].count = Len(seen[i]) /\ Meant(i, options[i], Last(seen[i]))
    BY <1>1 DEF SourceInv, Data
  <2>3. Asked(i) = MeaningOf(i, Last(seen[i]))
    BY <1>1, AskedIs
  <2>4. IF option_list[i].arg = "none"
        THEN option_list[i].val = "set" => w.iVal = Asked(i)
        ELSE w.optarg = Asked(i)
    BY <2>1, <2>2, <2>3 DEF Meant
  <2> QED BY <1>1, <2>1, <2>2, <2>4, CountIs DEF w
<1>2. CASE seen[i] = <<>>
  <2>1. Scan!FromEnvironment(i) /\ env[i] = Final[i] /\ Final[i] # NULL
    BY <1>2, UsedIsAsked, AskedIs
  <2>2. PICK p : p = [options[i] EXCEPT !.count = @ + 1]
    OBVIOUS
  <2>3. p \in OptionData
    <3>1. options[i] \in OptionData
      BY CountIs
    <3> QED BY <2>2, <3>1 DEF OptionData
  <2>4. w = Scan!Defined(p, i, FALSE, env[i])
    BY <2>1, <2>2 DEF Scan!WithEnvironment
  <2> HIDE DEF w
  <2>5. /\ w \in OptionData
        /\ option_list[i].arg # "none" => w.optarg = Scan!Given(i, env[i])
        /\ option_list[i].arg = "none" /\ option_list[i].val = "set" =>
             w.iVal = Scan!Flag("set", FALSE)
    <3>1. env[i] \in Int
      BY DEF SourceInv, Variables
    <3> QED BY <1>0, <2>3, <2>4, <3>1, DefinedIs
  <2>6. PICK u : u = [opt |-> i, value |-> Final[i]]
    OBVIOUS
  <2>7. u.opt = i /\ u.value = env[i]
    BY <2>1, <2>6
  <2>8. Asked(i) = MeaningOf(i, u)
    BY <1>2, <2>1, <2>6, AskedIs
  <2>9. option_list[i].kind # "comp"
    BY <1>0, OptionsAre
  <2>10. Meant(i, w, u)
    BY <1>0, <2>5, <2>7, <2>9, UsedIsMeant
  <2>11. i # o_CONF
    BY <2>1, AskedIs
  <2>12. IF option_list[i].arg = "none"
         THEN option_list[i].val = "set" => w.iVal = Asked(i)
         ELSE w.optarg = Asked(i)
    BY <2>8, <2>10 DEF Meant
  <2> QED BY <1>2, <2>5, <2>11, <2>12 DEF w
<1> QED BY <1>1, <1>2

\* What scanopt_next does with the variables of the scanner.
IsNext(i) ==
  /\ i >= current_index /\ Scan!IsUsed(i)
  /\ \A j \in current_index..(i - 1) : ~Scan!IsUsed(j)

HandsOut(i) ==
  /\ options' = [options EXCEPT ![i] = Scan!WithEnvironment(i)]
  /\ assigned' = [assigned EXCEPT ![i] = <<Scan!Assigned(options'[i], i)>>]
  /\ current' = [id |-> i, optarg |-> options'[i].optarg,
                 optcount |-> options'[i].count]
  /\ phase' = "apply"

LEMMA NextOptionIs ==
  ASSUME SourceInv, NextOption
  PROVE  /\ phase = "next"
         /\ UNCHANGED <<names, args, seen, onDup, inputVars, env, globals, exit_code>>
         /\ \/ \E i \in Options :
                 /\ IsNext(i) /\ current_index' = i + 1
                 /\ \/ phase' = "stopped" /\ UNCHANGED <<options, assigned>>
                    \/ HandsOut(i)
            \/ /\ \A i \in Options : i >= current_index => ~Scan!IsUsed(i)
               /\ current_index' = 16
               /\ phase' = "done"
               /\ UNCHANGED <<options, assigned>>
<1>1. Scan!Ids = Options /\ Len(names) = 14
  BY OptionsAre DEF Scan!Ids, SourceInv, EndpointInv, Listed
<1> QED BY <1>1 DEF NextOption, Scan!scanopt_next, Scan!Following, Scan!listVars,
                    IsNext, HandsOut

\* Between scanopt_next and the application of an option nothing is applied.
LEMMA StillApplied ==
  ASSUME SourceInv, phase = "next",
         UNCHANGED <<names, args, seen, onDup, inputVars, globals>>,
         phase' \notin {"scan", "scanned"},
         \A i \in Options \ {o_DAEMON} :
           (i < current_index' /\ IsAsked(i)
              /\ ~(phase' = "apply" /\ current'.id = i))
           <=> i < current_index /\ IsAsked(i)
  PROVE  Globals' /\ Tested'
<1>1. \A i : /\ (IsAsked(i)' <=> IsAsked(i)) /\ Asked(i)' = Asked(i)
             /\ Tests(i)' <=> Tests(i)
  BY Frozen
<1>2. \A i \in Options \ {o_DAEMON} : Applied(i)' <=> Applied(i)
  BY <1>1 DEF Applied
<1>3. Globals /\ Tested /\ Live /\ inherited' = inherited
  BY DEF SourceInv, Live, inputVars
<1>4. Globals'
  <2>1. \A i \in SettingOptions :
          (Applied(i)' <=> Applied(i)) /\ Asked(i)' = Asked(i)
    BY <1>1, <1>2, SettingOptionsAre
  <2> QED BY <1>3, <2>1 DEF Globals, SettingOptions
<1>5. Tests(o_DAEMON)
  BY OptionsAreNumbers DEF Tests
<1>6. Tested'
  BY <1>1, <1>2, <1>3, <1>5 DEF Tested
<1> QED BY <1>4, <1>6

\* Each option is handed out in turn, --config with the inherited environment.
LEMMA NextReturns ==
  ASSUME SourceInv, phase = "next", EndpointInv', NEW i \in Options,
         IsNext(i), HandsOut(i), current_index' = i + 1,
         UNCHANGED <<names, args, seen, onDup, inputVars, env, globals, exit_code>>
  PROVE  SourceInv'
<1> DEFINE w == Scan!WithEnvironment(i)
<1> /\ i >= current_index /\ Scan!IsUsed(i)
    /\ \A j \in current_index..(i - 1) : ~Scan!IsUsed(j)
  BY DEF IsNext
<1> /\ options' = [options EXCEPT ![i] = Scan!WithEnvironment(i)]
    /\ assigned' = [assigned EXCEPT ![i] = <<Scan!Assigned(options'[i], i)>>]
    /\ current'.id = i /\ current'.optarg = options'[i].optarg
    /\ current'.optcount = options'[i].count /\ phase' = "apply"
  BY DEF HandsOut
<1>0. /\ Listed /\ current_index \in Nat \ {0}
      /\ DOMAIN assigned = Options /\ options \in [Options -> OptionData]
      /\ exit_code = NULL /\ Live
  BY DEF SourceInv, EndpointInv, HandedOut, TypeOK, Live
<1>1. i \in 1..14
  BY OptionsAre
<1>2. i = o_CONF \/ env = Final
  <2>1. CASE current_index > 1
    BY <2>1, EnvironmentIsFinal
  <2>2. CASE ~(current_index > 1) /\ i # o_CONF
    <3>1. o_CONF \in current_index..(i - 1)
      BY <1>0, <1>1, <2>2, OptionsAreNumbers
    <3> QED BY <3>1, EnvironmentIsFinal
  <2> QED BY <2>1, <2>2
<1>3. i # o_DAEMON /\ IsAsked(i)
  BY <1>2, UsedIsAsked
<1>4. /\ w \in OptionData
      /\ IF option_list[i].arg = "none"
         THEN option_list[i].val = "set" => w.iVal = Asked(i)
         ELSE w.optarg = Asked(i)
      /\ i = o_CONF => seen[i] # <<>> /\ w.count = Len(seen[i])
      /\ seen[i] # <<>> => w.count = Len(seen[i]) /\ Meant(i, w, Last(seen[i]))
  BY <1>2, WithEnvironmentIs
<1> HIDE DEF w
<1>5. /\ options' \in [Options -> OptionData] /\ options'[i] = w
      /\ \A j \in Options \ {i} : options'[j] = options[j]
  BY <1>0, <1>4 DEF w
<1>6. PICK a : assigned' = [assigned EXCEPT ![i] = <<a>>] /\ a = Scan!Assigned(w, i)
  BY <1>5
<1>7. /\ assigned'[i] = <<a>> /\ <<a>> # <<>> /\ DOMAIN assigned' = Options
      /\ \A j \in Options \ {i} : assigned'[j] = assigned[j]
  BY <1>0, <1>6
<1>8. option_list[i].val = "set" => a = Asked(i)
  <2> SUFFICES ASSUME option_list[i].val = "set" PROVE a = Asked(i)
    OBVIOUS
  <2>1. option_list[i].arg = "none"
    BY <1>1 DEF option_list, Entry, Text, NoText, Flag, o_VERBOSE, o_WORKERS
  <2>2. a = w.iVal
    BY <1>0, <1>6 DEF Scan!Assigned, Listed
  <2> QED BY <1>4, <2>1, <2>2
<1>9. \A j : (IsAsked(j)' <=> IsAsked(j)) /\ Asked(j)' = Asked(j)
  BY Frozen
<1>10. Line'
  BY Frozen DEF SourceInv
<1>11. Data'
  <2> SUFFICES ASSUME NEW j \in Options
               PROVE  /\ seen[j] # <<>> =>
                           /\ options'[j].count = Len(seen[j])
                           /\ Meant(j, options'[j], Last(seen[j]))
                      /\ seen[j] = <<>> /\ j >= i + 1 => options'[j].count = 0
    BY DEF Data
  <2>1. CASE j = i
    BY <1>1, <1>4, <1>5, <2>1
  <2>2. CASE j # i
    <3>1. j >= i + 1 => j >= current_index
      BY <1>0, <1>1, OptionsAre
    <3> QED BY <1>5, <2>2, <3>1 DEF SourceInv, Data
  <2> QED BY <2>1, <2>2
<1>12. Variables'
  <2>1. Final' = Final
    BY Frozen
  <2>2. i = o_CONF => env = inherited
    <3>1. SUFFICES ASSUME i = o_CONF PROVE env = inherited
      OBVIOUS
    <3>2. current_index = 1
      BY <1>0, <3>1, OptionsAreNumbers
    <3>3. seen[o_CONF] # <<>>
      BY <1>4, <3>1
    <3> QED BY <3>2, <3>3, FinalIs DEF SourceInv, Variables
  <2>3. AtConf' <=> i = o_CONF
    BY DEF AtConf
  <2> QED BY <1>2, <2>1, <2>2, <2>3 DEF SourceInv, Variables, inputVars
<1>13. HandedOut'
  <2>1. ASSUME NEW j \in Options
        PROVE  /\ assigned'[j] # <<>> <=> j < i + 1 /\ j # o_DAEMON /\ IsAsked(j)
               /\ assigned'[j] # <<>> /\ option_list[j].val = "set" =>
                    assigned'[j] = <<Asked(j)>>
    <3>1. /\ assigned[j] # <<>> <=> j < current_index /\ j # o_DAEMON /\ IsAsked(j)
          /\ assigned[j] # <<>> /\ option_list[j].val = "set" =>
               assigned[j] = <<Asked(j)>>
      BY <1>0 DEF SourceInv, HandedOut
    <3>2. j \in 1..14
      BY OptionsAre
    <3>3. CASE j = i
      <4>1. j < i + 1
        BY <1>1, <3>3
      <4> QED BY <1>3, <1>7, <1>8, <3>3, <4>1
    <3>4. CASE j \in current_index..(i - 1)
      <4>1. env = Final \/ j = o_CONF
        BY <1>0, <1>1, <1>2, <3>2, <3>4, OptionsAreNumbers
      <4>2. ~(j # o_DAEMON /\ IsAsked(j))
        <5>1. j >= current_index
          BY <3>4
        <5> QED BY <3>4, <4>1, <5>1, UsedIsAsked
      <4>3. j # i
        BY <1>1, <3>4
      <4> QED BY <1>7, <3>1, <4>2, <4>3
    <3>5. CASE j < current_index
      <4>1. j # i /\ j < i + 1
        BY <1>0, <1>1, <3>2, <3>5
      <4> QED BY <1>7, <3>1, <3>5, <4>1
    <3>6. CASE j > i
      <4>1. j # i /\ ~(j < i + 1) /\ ~(j < current_index)
        BY <1>0, <1>1, <3>2, <3>6
      <4> QED BY <1>7, <3>1, <4>1
    <3>7. j = i \/ j \in current_index..(i - 1) \/ j < current_index \/ j > i
      BY <1>0, <1>1, <3>2
    <3> QED BY <3>3, <3>4, <3>5, <3>6, <3>7
  <2>2. current_index' \in Nat \ {0} /\ current'.id = current_index' - 1
    BY <1>1
  <2>3. option_list[i].arg # "none" => current'.optarg = Asked(i)
    BY <1>4, <1>5
  <2>4. i = o_CONF => seen[o_CONF] # <<>> /\ current'.optcount = Len(seen[o_CONF])
    BY <1>4, <1>5
  <2> QED BY <1>3, <1>5, <1>7, <1>9, <2>1, <2>2, <2>3, <2>4
          DEF HandedOut, optarg
<1>14. Globals' /\ Tested'
  <2>1. \A j \in Options \ {o_DAEMON} :
          (j < i + 1 /\ IsAsked(j) /\ j # i) <=> j < current_index /\ IsAsked(j)
    <3> SUFFICES ASSUME NEW j \in Options \ {o_DAEMON}
                 PROVE  (j < i + 1 /\ IsAsked(j) /\ j # i)
                           <=> j < current_index /\ IsAsked(j)
      OBVIOUS
    <3>1. j \in Options /\ j \in 1..14 /\ j # o_DAEMON
      BY OptionsAre
    <3>2. CASE j \in current_index..(i - 1)
      <4>1. env = Final
        BY <1>0, <1>1, <1>2, <3>1, <3>2, OptionsAreNumbers
      <4>2. ~IsAsked(j)
        <5>1. j >= current_index
          BY <3>2
        <5> QED BY <3>1, <3>2, <4>1, <5>1, UsedIsAsked
      <4> QED BY <4>2
    <3>3. CASE j \notin current_index..(i - 1)
      <4>1. (j < i + 1 /\ j # i) <=> j < current_index
        BY <1>0, <1>1, <3>1, <3>3
      <4> QED BY <4>1
    <3> QED BY <3>2, <3>3
  <2>2. \A j : current'.id = j <=> j = i
    OBVIOUS
  <2> QED BY <2>1, <2>2, StillApplied
<1>15. SourcesInOrder' /\ ExitCodesAreTrue'
  BY <1>0 DEF SourcesInOrder, ExitCodesAreTrue, NULL
<1> QED BY <1>10, <1>11, <1>12, <1>13, <1>14, <1>15 DEF SourceInv

\* The list is at its end.
LEMMA NextEnds ==
  ASSUME SourceInv, phase = "next", EndpointInv',
         \A i \in Options : i >= current_index => ~Scan!IsUsed(i),
         phase' = "done", current_index' = 16,
         UNCHANGED <<names, args, seen, onDup, inputVars, env, globals, exit_code,
                     options, assigned>>
  PROVE  SourceInv'
<1>0. /\ current_index \in Nat \ {0} /\ exit_code = NULL /\ Live
      /\ Len(option_list) + 2 = 16
  BY OptionsAre DEF SourceInv, EndpointInv, HandedOut, TypeOK, Live
<1>1. env = Final
  <2>1. o_CONF \in Options /\ (current_index > 1 \/ o_CONF >= current_index)
    BY <1>0, OptionsAre, OptionsAreNumbers
  <2> QED BY <2>1, EnvironmentIsFinal
<1>2. \A j \in Options : j # o_DAEMON /\ IsAsked(j) => j < current_index
  <2> SUFFICES ASSUME NEW j \in Options, j # o_DAEMON, IsAsked(j),
                      ~(j < current_index)
               PROVE  FALSE
    OBVIOUS
  <2>1. j >= current_index
    BY <1>0, OptionsAre
  <2> QED BY <1>1, <2>1, UsedIsAsked
<1>3. \A j \in Options : j < 16 /\ ~(j >= 16)
  BY OptionsAre
<1>4. \A j : (IsAsked(j)' <=> IsAsked(j)) /\ Asked(j)' = Asked(j)
  BY Frozen
<1>5. Line'
  BY Frozen DEF SourceInv
<1>6. Data'
  BY <1>3 DEF SourceInv, Data
<1>7. Variables'
  <2>1. Final' = Final
    BY Frozen
  <2> QED BY <1>1, <2>1 DEF SourceInv, Variables, AtConf, inputVars
<1>8. HandedOut'
  <2>1. \A j \in Options :
          /\ assigned[j] # <<>> <=> j < 16 /\ j # o_DAEMON /\ IsAsked(j)
          /\ assigned[j] # <<>> /\ option_list[j].val = "set" =>
               assigned[j] = <<Asked(j)>>
    BY <1>0, <1>2, <1>3 DEF SourceInv, HandedOut
  <2> QED BY <1>0, <1>4, <2>1 DEF SourceInv, HandedOut
<1>9. Globals' /\ Tested'
  <2>1. phase' # "apply" /\ phase' \notin {"scan", "scanned"}
    OBVIOUS
  <2> QED BY <1>2, <1>3, <2>1, StillApplied
<1>10. SourcesInOrder' /\ ExitCodesAreTrue'
  BY <1>0 DEF SourcesInOrder, ExitCodesAreTrue, NULL
<1> QED BY <1>5, <1>6, <1>7, <1>8, <1>9, <1>10 DEF SourceInv

\* A program that has stopped or ended keeps little more than its types.
LEMMA StopsStep ==
  ASSUME SourceInv, EndpointInv', phase' = "stopped" \/ phase' = "exited",
         phase' = "exited" => FaultyOption /\ phase # "stopped",
         options' = options, DOMAIN assigned' = Options,
         current_index' \in Nat \ {0},
         phase' = "exited" =>
           current_index' = current_index,
         env' \in [Options -> Int], env'[o_CONF] = NULL,
         exit_code' # 0,
         UNCHANGED <<names, args, seen, onDup, inputVars>>
  PROVE  SourceInv'
<1>1. Line' /\ (FaultyOption' <=> FaultyOption)
  BY Frozen DEF SourceInv
<1>2. Data'
  BY DEF SourceInv, Data
<1>3. Variables'
  BY DEF SourceInv, Variables, AtConf, inputVars
<1>4. HandedOut' /\ Globals' /\ Tested'
  BY DEF SourceInv, HandedOut, Globals, Tested, Live
<1>5. SourcesInOrder'
  BY DEF SourcesInOrder
<1>6. ExitCodesAreTrue'
  <2>1. phase' = "exited" <=> exit_code' # NULL
    BY DEF EndpointInv, TypeOK
  <2>2. exit_code' = 1 => FaultyOption'
    BY <1>1, <2>1 DEF NULL
  <2> QED BY <2>2 DEF ExitCodesAreTrue
<1> QED BY <1>1, <1>2, <1>3, <1>4, <1>5, <1>6 DEF SourceInv

LEMMA NextStep == ASSUME SourceInv, NextOption PROVE SourceInv'
<1>1. EndpointInv'
  BY NextOptionStep DEF SourceInv
<1>2. /\ phase = "next"
      /\ UNCHANGED <<names, args, seen, onDup, inputVars, env, globals, exit_code>>
  BY NextOptionIs
<1>3. ASSUME NEW i \in Options, IsNext(i), current_index' = i + 1,
             \/ phase' = "stopped" /\ UNCHANGED <<options, assigned>>
             \/ HandsOut(i)
      PROVE  SourceInv'
  <2>1. CASE phase' = "stopped" /\ UNCHANGED <<options, assigned>>
    <3>1. current_index' \in Nat \ {0}
      BY <1>3, OptionsAre
    <3>2. DOMAIN assigned = Options /\ env \in [Options -> Int] /\ env[o_CONF] = NULL
      BY DEF SourceInv, HandedOut, Variables
    <3>3. exit_code # 0
      BY <1>2 DEF SourceInv, EndpointInv, TypeOK, NULL
    <3> QED BY <1>1, <1>2, <2>1, <3>1, <3>2, <3>3, StopsStep
  <2>2. CASE HandsOut(i)
    BY <1>1, <1>2, <1>3, <2>2, NextReturns
  <2> QED BY <1>3, <2>1, <2>2
<1>4. CASE /\ \A i \in Options : i >= current_index => ~Scan!IsUsed(i)
           /\ current_index' = 16
           /\ phase' = "done"
           /\ UNCHANGED <<options, assigned>>
  BY <1>1, <1>2, <1>4, NextEnds
<1> QED BY <1>3, <1>4, NextOptionIs

-----------------------------------------------------------------------------
(***************************************************************************)
(* apply_option_definitions, by option.                                    *)
(***************************************************************************)
LEMMA ApplyingIs ==
  ASSUME SourceInv, NEW id \in Options, Applying(id)
  PROVE  /\ phase = "apply" /\ current.id = id /\ exit_code = NULL
         /\ IsAsked(id) /\ id < current_index
         /\ option_list[id].arg # "none" => optarg = Asked(id)
         /\ id # o_CONF => env = Final
         /\ id = o_CONF => /\ env = inherited /\ seen[o_CONF] # <<>>
                           /\ current.optcount = Len(seen[o_CONF])
         /\ UNCHANGED <<names, args, seen, options, onDup, current_index,
                        assigned, current, inputVars>>
<1>1. phase = "apply" /\ current.id = id
  BY DEF Applying
<1>2. exit_code = NULL
  BY <1>1 DEF SourceInv, EndpointInv, TypeOK
<1>3. /\ IsAsked(id) /\ id = current_index - 1 /\ current_index \in Nat
      /\ option_list[id].arg # "none" => optarg = Asked(id)
      /\ id = o_CONF => /\ seen[o_CONF] # <<>>
                        /\ current.optcount = Len(seen[o_CONF])
  BY <1>1 DEF SourceInv, HandedOut
<1>4. id < current_index
  BY <1>3
<1>5. /\ id # o_CONF => env = Final
      /\ id = o_CONF => env = inherited
  BY <1>1 DEF SourceInv, Variables, AtConf
<1>6. UNCHANGED <<names, args, seen, options, onDup, current_index, assigned,
                  current, inputVars>>
  BY DEF Applying, scanVars
<1> QED BY <1>1, <1>2, <1>3, <1>4, <1>5, <1>6

\* An option that is applied counts among those that are in the variables.
LEMMA AppliedAfter ==
  ASSUME SourceInv, NEW id \in Options, Applying(id), phase' = "next"
  PROVE  \A i \in Options : /\ Applied(i)' <=> Applied(i) \/ i = id
                            /\ Asked(i)' = Asked(i)
                            /\ ~Applied(id)
<1>1. \A i : (IsAsked(i)' <=> IsAsked(i)) /\ Asked(i)' = Asked(i)
  BY ApplyingIs, Frozen
<1>2. \A i \in Options : Applied(i)' <=> i < current_index /\ IsAsked(i)
  BY <1>1, ApplyingIs DEF Applied
<1>3. \A i \in Options : Applied(i) <=> i < current_index /\ IsAsked(i) /\ i # id
  BY ApplyingIs DEF Applied
<1> QED BY <1>1, <1>2, <1>3, ApplyingIs

\* The walk through the list goes on.
LEMMA GoesOn ==
  ASSUME SourceInv, NEW id \in Options, Applying(id), EndpointInv',
         phase' = "next", exit_code' = exit_code, env' = Final, Globals',
         Tests(id)
  PROVE  SourceInv'
<1>1. Final' = Final /\ Line'
  BY ApplyingIs, Frozen DEF SourceInv
<1>2. \A i : (IsAsked(i)' <=> IsAsked(i)) /\ Asked(i)' = Asked(i)
  BY ApplyingIs, Frozen
<1>3. Data'
  BY ApplyingIs DEF SourceInv, Data
<1>4. Final \in [Options -> Int] /\ Final[o_CONF] = NULL
  <2>1. inherited \in [Options -> Int] /\ inherited[o_CONF] = NULL
    BY DEF SourceInv, Variables
  <2> QED BY <2>1, SourcedType DEF Final
<1>5. Variables'
  <2>1. current_index > 1
    <3>1. id \in 1..14 /\ id < current_index /\ current_index \in Nat
      BY ApplyingIs, OptionsAre DEF SourceInv, HandedOut
    <3> QED BY <3>1
  <2> QED BY <1>1, <1>4, <2>1, ApplyingIs DEF SourceInv, Variables, AtConf, inputVars
<1>6. HandedOut'
  BY <1>2, ApplyingIs DEF SourceInv, HandedOut, Live
<1>7. SourcesInOrder' /\ ExitCodesAreTrue'
  BY ApplyingIs DEF SourcesInOrder, ExitCodesAreTrue, NULL
<1>8. Tested'
  <2>1. \A i : Tests(i)' <=> Tests(i)
    BY ApplyingIs, Frozen
  <2>2. \A i \in Options : Applied(i)' => Applied(i) \/ i = id
    BY AppliedAfter
  <2>3. Tested /\ Live
    BY ApplyingIs DEF SourceInv, Live
  <2> QED BY <2>1, <2>2, <2>3 DEF Tested
<1> QED BY <1>1, <1>3, <1>5, <1>6, <1>7, <1>8 DEF SourceInv

\* A program that refuses an option has been asked for a fault.
LEMMA Refuses ==
  ASSUME SourceInv, NEW id \in Options, Applying(id), EndpointInv',
         phase' \in {"stopped", "exited"}, exit_code' \in {NULL, 1},
         phase' = "exited" => FaultyOption,
         env' = env
  PROVE  SourceInv'
<1>1. /\ DOMAIN assigned = Options /\ current_index \in Nat \ {0}
      /\ env \in [Options -> Int] /\ env[o_CONF] = NULL
  BY DEF SourceInv, HandedOut, Variables
<1> QED BY <1>1, ApplyingIs, StopsStep DEF NULL

\* An option that sets no variable.
LEMMA OtherGlobals ==
  ASSUME SourceInv, NEW id \in Options \ SettingOptions, Applying(id),
         phase' = "next", globals' = globals
  PROVE  Globals'
<1>1. \A i \in SettingOptions : (Applied(i)' <=> Applied(i)) /\ Asked(i)' = Asked(i)
  BY AppliedAfter, SettingOptionsAre
<1>2. Globals /\ Live /\ phase = "apply" /\ inherited' = inherited
  BY ApplyingIs DEF SourceInv, Live, inputVars
<1> QED BY <1>1, <1>2 DEF Globals, SettingOptions

LEMMA ConfStep == ASSUME SourceInv, EndpointInv', ApplyConf PROVE SourceInv'
<1>1. Applying(o_CONF) /\ o_CONF \in Options \ SettingOptions
  BY SettingOptionsAre DEF ApplyConf
<1>2. /\ globals' = globals /\ exit_code = NULL
      /\ env = inherited /\ seen[o_CONF] # <<>>
      /\ current.optcount = Len(seen[o_CONF])
      /\ optarg = Asked(o_CONF)
  BY <1>1, ApplyingIs, ArgumentsAre DEF ApplyConf
<1>3. optarg = Last(seen[o_CONF]).value
  <2>1. Asked(o_CONF) = MeaningOf(o_CONF, Last(seen[o_CONF]))
    BY <1>1, <1>2, AskedIs
  <2> QED BY <1>2, <2>1, ArgumentsAre DEF MeaningOf
<1>6. ~(Len(seen[o_CONF]) > 1) => Last(seen[o_CONF]) = seen[o_CONF][1]
  <2> SUFFICES ASSUME ~(Len(seen[o_CONF]) > 1)
               PROVE  Last(seen[o_CONF]) = seen[o_CONF][1]
    OBVIOUS
  <2>1. seen[o_CONF] \in Seq(Use)
    BY <1>1 DEF SourceInv, Line
  <2>2. PICK n \in Nat : n = Len(seen[o_CONF]) /\ n # 0
    BY <1>2, <2>1, LengthIs
  <2>3. n # 0 /\ ~(n > 1)
    BY <2>2
  <2>4. n = 1
    BY <2>3
  <2> QED BY <2>2, <2>4 DEF Last
<1>4. CASE current.optcount > 1 \/ FileKind[optarg] = "missing"
  <2>1. phase' = "exited" /\ exit_code' = 1 /\ env' = env
    BY <1>4 DEF ApplyConf, Exit
  <2>2. FaultyOption
    <3>1. CASE Len(seen[o_CONF]) > 1
      BY <3>1 DEF FaultyOption, Uses
    <3>2. CASE ~(Len(seen[o_CONF]) > 1)
      BY <1>2, <1>3, <1>4, <1>6, <3>2 DEF FaultyOption, Uses
    <3> QED BY <3>1, <3>2
  <2> QED BY <1>1, <2>1, <2>2, Refuses
<1>5. CASE ~(current.optcount > 1 \/ FileKind[optarg] = "missing")
  <2>1. /\ exit_code' = exit_code
        /\ IF FileKind[optarg] = "regular" THEN Source
           ELSE phase' = "next" /\ env' = env
    BY <1>5 DEF ApplyConf
  <2>2. Final = IF FileKind[optarg] = "regular" THEN Sourced ELSE inherited
    BY <1>2, <1>3, FinalIs
  <2>3. \/ phase' = "stopped" /\ env' = env
        \/ phase' = "next" /\ env' = Final
    BY <1>2, <2>1, <2>2, SourceIs
  <2>4. CASE phase' = "stopped" /\ env' = env
    BY <1>1, <1>2, <2>1, <2>4, Refuses
  <2>5. CASE phase' = "next" /\ env' = Final
    <3>1. Globals'
      BY <1>1, <1>2, <2>5, OtherGlobals
    <3>2. Tests(o_CONF)
      BY <1>2, <1>3, <1>5, <1>6, OptionsAreNumbers DEF Tests, Uses
    <3> QED BY <1>1, <2>1, <2>5, <3>1, <3>2, GoesOn
  <2> QED BY <2>3, <2>4, <2>5
<1> QED BY <1>4, <1>5

\* --foreground, --help and --version: scanopt_next has assigned them.
LEMMA FlagStep == ASSUME SourceInv, EndpointInv', ApplyFlag PROVE SourceInv'
<1>1. /\ Applying(o_FOREGROUND) \/ Applying(o_HELP) \/ Applying(o_VERSION)
      /\ phase' = "next" /\ globals' = globals /\ env' = env
      /\ exit_code' = exit_code
  BY DEF ApplyFlag
<1>2. PICK id \in {o_FOREGROUND, o_HELP, o_VERSION} : Applying(id)
  BY <1>1
<1>3. id \in Options \ SettingOptions /\ id # o_CONF
  BY SettingOptionsAre, OptionsAreNumbers
<1>4. Tests(id)
  BY OptionsAreNumbers DEF Tests
<1>5. env' = Final /\ Globals'
  BY <1>1, <1>2, <1>3, ApplyingIs, OtherGlobals
<1> QED BY <1>1, <1>2, <1>3, <1>4, <1>5, GoesOn

\* The variable that an option sets, and its value.
Sets(id, field, value) ==
  \/ id = o_BIND /\ field = "server_ip" /\ value = Asked(id)
  \/ id = o_PORT /\ field = "port" /\ value = Asked(id)
  \/ id = o_VERBOSE /\ field = "verbose_level" /\ value = Asked(id)
  \/ id \in {o_SOCKET, o_UDS} /\ field = "socket_flag" /\ value = 1
  \/ id = o_FILTER /\ field = "filter_name" /\ value = Asked(id)
  \/ id = o_USER /\ field = "user" /\ value = Asked(id)
  \/ id = o_WORKERS /\ field = "workers" /\ value = Limited(Asked(id))
  \/ id = e_SCGI_DIR /\ field = "scgi_dir" /\ value = Asked(id)

LEMMA SettingStep ==
  ASSUME SourceInv, EndpointInv', NEW id \in SettingOptions, Applying(id),
         NEW acceptable, NEW field \in Fields, NEW value,
         SetIf(acceptable, field, value), acceptable \/ FaultyOption,
         acceptable => Tests(id), Sets(id, field, value)
  PROVE  SourceInv'
<1>1. id \in Options /\ id # o_CONF
  BY SettingOptionsAre
<1>2. env = Final /\ exit_code = NULL /\ Live /\ phase = "apply"
  BY <1>1, ApplyingIs DEF Live
<1>3. HasFields /\ env' = env
  BY DEF SetIf, SourceInv, EndpointInv
<1>4. \/ /\ acceptable /\ phase' = "next" /\ exit_code' = exit_code
         /\ globals'[field] = value
         /\ \A f \in Fields \ {field} : globals'[f] = globals[f]
      \/ ~acceptable /\ phase' = "exited" /\ exit_code' = 1
  BY <1>3, SetIfIs
<1>5. CASE ~acceptable /\ phase' = "exited" /\ exit_code' = 1
  BY <1>1, <1>3, <1>5, Refuses
<1>6. CASE /\ acceptable /\ phase' = "next" /\ exit_code' = exit_code
           /\ globals'[field] = value
           /\ \A f \in Fields \ {field} : globals'[f] = globals[f]
  <2>1. \A f \in Fields : f # field => globals'[f] = globals[f]
    BY <1>6
  <2>2. \A i \in SettingOptions :
          /\ Applied(i)' <=> Applied(i) \/ i = id
          /\ Asked(i)' = Asked(i)
    BY <1>1, <1>6, AppliedAfter, SettingOptionsAre
  <2>3. Globals /\ inherited' = inherited
    BY <1>1, ApplyingIs DEF SourceInv, inputVars
  <2>4. /\ globals'[field] = value /\ phase' = "next"
        /\ Sets(id, field, value)
    BY <1>6
  <2>5. globals'.server_ip = IF Applied(o_BIND)' THEN Asked(o_BIND)' ELSE NULL
    BY <1>2, <2>1, <2>2, <2>3, <2>4, OptionsAreNumbers
       DEF Globals, Fields, SettingOptions, Sets
  <2>6. globals'.port = IF Applied(o_PORT)' THEN Asked(o_PORT)' ELSE 0
    BY <1>2, <2>1, <2>2, <2>3, <2>4, OptionsAreNumbers
       DEF Globals, Fields, SettingOptions, Sets
  <2>7. globals'.verbose_level =
          IF Applied(o_VERBOSE)' THEN Asked(o_VERBOSE)' ELSE 0
    BY <1>2, <2>1, <2>2, <2>3, <2>4, OptionsAreNumbers
       DEF Globals, Fields, SettingOptions, Sets
  <2>8. globals'.socket_flag = 1 <=> Applied(o_SOCKET)' \/ Applied(o_UDS)'
    BY <1>2, <2>1, <2>2, <2>3, <2>4, OptionsAreNumbers
       DEF Globals, Fields, SettingOptions, Sets
  <2>9. globals'.filter_name = IF Applied(o_FILTER)' THEN Asked(o_FILTER)' ELSE NULL
    BY <1>2, <2>1, <2>2, <2>3, <2>4, OptionsAreNumbers
       DEF Globals, Fields, SettingOptions, Sets
  <2>10. globals'.user = IF Applied(o_USER)' THEN Asked(o_USER)' ELSE 0
    BY <1>2, <2>1, <2>2, <2>3, <2>4, OptionsAreNumbers
       DEF Globals, Fields, SettingOptions, Sets
  <2>11. globals'.workers =
           IF Applied(o_WORKERS)' THEN Limited(Asked(o_WORKERS))' ELSE 0
    <3>1. Limited(Asked(o_WORKERS))' = Limited(Asked(o_WORKERS))
      BY <2>2 DEF Limited, SettingOptions
    <3> QED BY <1>2, <2>1, <2>2, <2>3, <2>4, <3>1, OptionsAreNumbers
            DEF Globals, Fields, SettingOptions, Sets
  <2>12. /\ Applied(e_SCGI_DIR)' => globals'.scgi_dir = Asked(e_SCGI_DIR)'
         /\ inherited'[e_SCGI_DIR] = NULL /\ ~Applied(e_SCGI_DIR)'
            => globals'.scgi_dir \in {HomeDir, WorkDir}
    BY <1>2, <2>1, <2>2, <2>3, <2>4, OptionsAreNumbers
       DEF Globals, Fields, SettingOptions, Sets
  <2>13. Globals'
    BY <2>5, <2>6, <2>7, <2>8, <2>9, <2>10, <2>11, <2>12 DEF Globals
  <2> QED BY <1>1, <1>2, <1>3, <1>6, <2>13, GoesOn
<1> QED BY <1>4, <1>5, <1>6

\* What is in a variable was asked for.
LEMMA WasAsked ==
  ASSUME SourceInv, Live
  PROVE  /\ globals.server_ip # NULL => IsAsked(o_BIND)
         /\ globals.port # 0 => IsAsked(o_PORT) /\ Asked(o_PORT) # 0
         /\ globals.socket_flag # 0 => Applied(o_SOCKET) \/ Applied(o_UDS)
<1>1. globals.socket_flag # 0 => globals.socket_flag = 1
  BY DEF SourceInv, EndpointInv, TypeOK
<1> QED BY <1>1 DEF SourceInv, Globals, Applied

\* The test of each option that has one.
LEMMA TestsAre ==
  /\ Tests(o_BIND) <=> Asked(o_BIND) \in Addresses
  /\ Tests(o_FILTER) <=> FileKind[Asked(o_FILTER)] = "directory"
  /\ Tests(o_PORT) <=> ~IsAsked(o_UDS)
  /\ Tests(o_USER) <=> Asked(o_USER) \in Users
<1>1. /\ o_BIND \notin {o_CONF, o_FILTER, o_PORT, o_USER}
      /\ o_FILTER \notin {o_CONF, o_PORT, o_USER}
      /\ o_PORT \notin {o_CONF, o_USER} /\ o_USER # o_CONF
  BY OptionsAreNumbers
<1> QED BY <1>1 DEF Tests

LEMMA SettingSteps ==
  ASSUME SourceInv, EndpointInv',
         \/ ApplyBind \/ ApplyPort \/ ApplyVerbose \/ ApplySocket
         \/ ApplyScgiDir \/ ApplyFilter \/ ApplyUser \/ ApplyWorkers
  PROVE  SourceInv'
<1>0. /\ \A i \in SettingOptions : i \in Options
      /\ {o_BIND, o_PORT, o_VERBOSE, o_SOCKET, o_UDS, o_FILTER, o_USER,
          o_WORKERS, e_SCGI_DIR} \subseteq SettingOptions
      /\ {"server_ip", "port", "filter_name", "socket_flag", "user",
          "verbose_level", "workers", "scgi_dir"} \subseteq Fields
  BY SettingOptionsAre DEF SettingOptions, Fields
<1>1. phase = "apply" => Live
  BY DEF Live
<1>9. \A i \in {o_VERBOSE, o_SOCKET, o_UDS, o_WORKERS, e_SCGI_DIR} : Tests(i)
  BY OptionsAreNumbers DEF Tests
<1>10. Live => \A i : Applied(i) => IsAsked(i) /\ i < current_index
  BY DEF Applied
<1>2. CASE ApplyBind
  <2>1. PICK a : a = (globals.socket_flag = 0 /\ optarg \in Addresses)
    OBVIOUS
  <2>2. Applying(o_BIND) /\ SetIf(a, "server_ip", optarg)
    BY <1>2, <2>1 DEF ApplyBind
  <2>3. IsAsked(o_BIND) /\ optarg = Asked(o_BIND) /\ phase = "apply"
    BY <1>0, <2>2, ApplyingIs, ArgumentsAre
  <2>4. a \/ FaultyOption
    BY <1>1, <1>10, <2>1, <2>3, WasAsked DEF FaultyOption
  <2>5. Sets(o_BIND, "server_ip", optarg)
    BY <2>3 DEF Sets
  <2>6. a => Tests(o_BIND)
    BY <2>1, <2>3, TestsAre
  <2> QED BY <1>0, <2>2, <2>4, <2>5, <2>6, SettingStep
<1>3. CASE ApplyPort
  <2>1. PICK a : a = (globals.socket_flag = 0)
    OBVIOUS
  <2>2. Applying(o_PORT) /\ SetIf(a, "port", optarg)
    BY <1>3, <2>1 DEF ApplyPort
  <2>3. IsAsked(o_PORT) /\ optarg = Asked(o_PORT) /\ phase = "apply"
        /\ current.id = o_PORT
    BY <1>0, <2>2, ApplyingIs, ArgumentsAre
  <2>7. current_index = 10
    <3>1. current.id = current_index - 1 /\ current_index \in Nat
      BY <2>3 DEF SourceInv, HandedOut
    <3>2. current_index - 1 = 9
      BY <2>3, <3>1, OptionsAreNumbers
    <3> QED BY <3>1, <3>2
  <2>8. ~Applied(o_SOCKET) /\ (IsAsked(o_UDS) <=> Applied(o_UDS))
    BY <2>3, <2>7, OptionsAreNumbers DEF Applied
  <2>4. a \/ FaultyOption
    <3>1. ~a => IsAsked(o_UDS)
      BY <1>1, <2>1, <2>3, <2>8, WasAsked
    <3> QED BY <2>3, <3>1 DEF FaultyOption
  <2>5. Sets(o_PORT, "port", optarg)
    BY <2>3 DEF Sets
  <2>6. a => Tests(o_PORT)
    <3>4. a => globals.socket_flag = 0
      BY <2>1, Zenon
    <3>1. a => ~(globals.socket_flag = 1)
      BY <3>4
    <3>2. a => ~Applied(o_UDS)
      BY <1>1, <2>3, <3>1 DEF SourceInv, Globals
    <3> QED BY <2>8, <3>2, TestsAre
  <2> QED BY <1>0, <2>2, <2>4, <2>5, <2>6, SettingStep
<1>4. CASE ApplyVerbose
  <2>1. Applying(o_VERBOSE) /\ SetIf(TRUE, "verbose_level", optarg)
    BY <1>4 DEF ApplyVerbose
  <2>2. optarg = Asked(o_VERBOSE)
    BY <1>0, <2>1, ApplyingIs, ArgumentsAre
  <2>3. Sets(o_VERBOSE, "verbose_level", optarg)
    BY <2>2 DEF Sets
  <2> QED BY <1>0, <1>9, <2>1, <2>3, SettingStep
<1>5. CASE ApplySocket
  <2>1. PICK a : a = (globals.server_ip = NULL /\ globals.port = 0)
    OBVIOUS
  <2>2. PICK id \in {o_SOCKET, o_UDS} :
          Applying(id) /\ SetIf(a, "socket_flag", 1)
    BY <1>5, <2>1 DEF ApplySocket
  <2>3. IsAsked(id) /\ phase = "apply"
    BY <1>0, <2>2, ApplyingIs
  <2>4. a \/ FaultyOption
    BY <1>1, <2>1, <2>2, <2>3, WasAsked DEF FaultyOption
  <2>5. Sets(id, "socket_flag", 1)
    BY <2>2 DEF Sets
  <2> QED BY <1>0, <1>9, <2>2, <2>4, <2>5, SettingStep
<1>6. CASE ApplyScgiDir
  <2>1. Applying(e_SCGI_DIR) /\ SetIf(TRUE, "scgi_dir", optarg)
    BY <1>6 DEF ApplyScgiDir
  <2>2. optarg = Asked(e_SCGI_DIR)
    BY <1>0, <2>1, ApplyingIs, ArgumentsAre
  <2>3. Sets(e_SCGI_DIR, "scgi_dir", optarg)
    BY <2>2 DEF Sets
  <2> QED BY <1>0, <1>9, <2>1, <2>3, SettingStep
<1>7. CASE ApplyFilter
  <2>1. PICK a : a = (FileKind[optarg] = "directory")
    OBVIOUS
  <2>2. Applying(o_FILTER) /\ SetIf(a, "filter_name", optarg)
    BY <1>7, <2>1 DEF ApplyFilter
  <2>3. IsAsked(o_FILTER) /\ optarg = Asked(o_FILTER)
    BY <1>0, <2>2, ApplyingIs, ArgumentsAre
  <2>4. a \/ FaultyOption
    BY <2>1, <2>3 DEF FaultyOption
  <2>5. Sets(o_FILTER, "filter_name", optarg)
    BY <2>3 DEF Sets
  <2>6. a => Tests(o_FILTER)
    BY <2>1, <2>3, TestsAre
  <2> QED BY <1>0, <2>2, <2>4, <2>5, <2>6, SettingStep
<1>8. CASE ApplyUser
  <2>1. PICK a : a = (optarg \in Users)
    OBVIOUS
  <2>2. Applying(o_USER) /\ SetIf(a, "user", optarg)
    BY <1>8, <2>1 DEF ApplyUser
  <2>3. IsAsked(o_USER) /\ optarg = Asked(o_USER)
    BY <1>0, <2>2, ApplyingIs, ArgumentsAre
  <2>4. a \/ FaultyOption
    BY <2>1, <2>3 DEF FaultyOption
  <2>5. Sets(o_USER, "user", optarg)
    BY <2>3 DEF Sets
  <2>6. a => Tests(o_USER)
    BY <2>1, <2>3, TestsAre
  <2> QED BY <1>0, <2>2, <2>4, <2>5, <2>6, SettingStep
<1>11. CASE ApplyWorkers
  <2>1. PICK n : n = Limited(optarg)
    OBVIOUS
  <2>2. Applying(o_WORKERS) /\ SetIf(TRUE, "workers", n)
    BY <1>11, <2>1 DEF ApplyWorkers, Limited
  <2>3. optarg = Asked(o_WORKERS)
    BY <1>0, <2>2, ApplyingIs, ArgumentsAre
  <2>4. Sets(o_WORKERS, "workers", n)
    BY <2>1, <2>3 DEF Sets
  <2> QED BY <1>0, <1>9, <2>2, <2>4, SettingStep
<1> QED BY <1>2, <1>3, <1>4, <1>5, <1>6, <1>7, <1>8, <1>11

LEMMA ApplySourceStep ==
  ASSUME SourceInv, apply_option_definitions PROVE SourceInv'
<1>1. EndpointInv'
  BY ApplyStep DEF SourceInv
<1> QED BY <1>1, ConfStep, FlagStep, SettingSteps DEF apply_option_definitions

-----------------------------------------------------------------------------
\* --help and --version have one name each, and one meaning.
LEMMA InformationIs ==
  ASSUME SourceInv, NEW i \in {o_HELP, o_VERSION}, IsAsked(i)
  PROVE  Asked(i) = 1
<1>1. /\ i \in Options /\ i # o_DAEMON /\ i # o_FOREGROUND
      /\ option_list[i].arg = "none" /\ option_list[i].val = "set"
  BY OptionsAre, OptionsAreNumbers, ArgumentsAre
<1>2. option_list[i].kind # "comp"
  BY <1>1, OptionsAre
<1>3. \A u : u.opt = i => MeaningOf(i, u) = 1
  BY <1>1, <1>2 DEF MeaningOf, Scan!Flag
<1>4. CASE seen[i] = <<>>
  <2>1. PICK u : u = [opt |-> i, value |-> Final[i]]
    OBVIOUS
  <2>2. Asked(i) = MeaningOf(i, u) /\ u.opt = i
    BY <1>1, <1>4, <2>1, AskedIs
  <2> QED BY <1>3, <2>2
<1>5. CASE seen[i] # <<>>
  <2>1. seen[i] \in Seq(Use)
    BY <1>1 DEF SourceInv, Line
  <2>2. Last(seen[i]) = seen[i][Len(seen[i])] /\ Len(seen[i]) \in DOMAIN seen[i]
    BY <1>5, <2>1, LastIs
  <2>3. BasicOf(Last(seen[i]).opt) = i
    BY <1>1, <2>2 DEF SourceInv, Line
  <2>4. Last(seen[i]).opt = i
    BY <1>1, <2>3 DEF BasicOf
  <2> QED BY <1>1, <1>3, <1>5, <2>4, AskedIs
<1> QED BY <1>4, <1>5

\* What the program has when all options are applied.
LEMMA DoneIs ==
  ASSUME SourceInv, phase = "done"
  PROVE  /\ \A i \in {o_FOREGROUND, o_HELP, o_VERSION} :
              IsSet(i) <=> IsAsked(i) /\ Asked(i) = 1
         /\ \A i \in Options : IsAsked(i) => Tests(i)
         /\ \A i \in Options : ~IsAsked(i) => Asked(i) = NULL
         /\ globals.server_ip = Asked(o_BIND)
         /\ globals.port = IF IsAsked(o_PORT) THEN Asked(o_PORT) ELSE 0
         /\ globals.verbose_level =
              IF IsAsked(o_VERBOSE) THEN Asked(o_VERBOSE) ELSE 0
         /\ globals.socket_flag = 1 <=> IsAsked(o_SOCKET) \/ IsAsked(o_UDS)
         /\ globals.filter_name = Asked(o_FILTER)
         /\ globals.user = IF IsAsked(o_USER) THEN Asked(o_USER) ELSE 0
         /\ globals.workers =
              IF IsAsked(o_WORKERS) THEN Limited(Asked(o_WORKERS)) ELSE 0
         /\ IF IsAsked(e_SCGI_DIR) THEN globals.scgi_dir = Asked(e_SCGI_DIR)
            ELSE globals.scgi_dir \in {HomeDir, WorkDir}
<1>1. current_index = 16 /\ Live
  BY OptionsAre DEF SourceInv, HandedOut, Live
<1>2. \A i \in Options : i < current_index
  BY <1>1, OptionsAre
<1>3. \A i \in Options \ {o_DAEMON} : IsAsked(i) <=> assigned[i] # <<>>
  BY <1>1, <1>2 DEF SourceInv, HandedOut
<1>4. ASSUME NEW i \in {o_FOREGROUND, o_HELP, o_VERSION}
      PROVE  IsSet(i) <=> IsAsked(i) /\ Asked(i) = 1
  <2>1. i \in Options \ {o_DAEMON} /\ option_list[i].val = "set"
    BY OptionsAre, OptionsAreNumbers, ArgumentsAre
  <2>2. CASE IsAsked(i)
    <3>1. assigned[i] = <<Asked(i)>>
      BY <1>1, <1>3, <2>1, <2>2 DEF SourceInv, HandedOut
    <3> QED BY <2>2, <3>1 DEF IsSet
  <2>3. CASE ~IsAsked(i)
    <3>1. assigned[i] = <<>>
      BY <1>3, <2>1, <2>3
    <3> QED BY <2>3, <3>1 DEF IsSet
  <2> QED BY <2>2, <2>3
<1>5. \A i \in Options : Applied(i) <=> IsAsked(i)
  BY <1>2 DEF Applied
<1>6. \A i \in Options : ~IsAsked(i) => Asked(i) = NULL
  BY AskedIs
<1>7. \A i \in Options : IsAsked(i) => Tests(i)
  BY <1>1, <1>5 DEF SourceInv, Tested
<1>8. \A i \in SettingOptions :
        /\ Applied(i) <=> IsAsked(i)
        /\ ~IsAsked(i) => Asked(i) = NULL
  BY <1>5, <1>6, SettingOptionsAre
<1>9. ~IsAsked(e_SCGI_DIR) => inherited[e_SCGI_DIR] = NULL
  BY DEF IsAsked
<1>10. Globals /\ phase \notin {"scan", "scanned"}
  BY DEF SourceInv
<1>11. /\ globals.server_ip = Asked(o_BIND)
       /\ globals.port = IF IsAsked(o_PORT) THEN Asked(o_PORT) ELSE 0
       /\ globals.verbose_level =
            IF IsAsked(o_VERBOSE) THEN Asked(o_VERBOSE) ELSE 0
       /\ globals.socket_flag = 1 <=> IsAsked(o_SOCKET) \/ IsAsked(o_UDS)
       /\ globals.filter_name = Asked(o_FILTER)
       /\ globals.user = IF IsAsked(o_USER) THEN Asked(o_USER) ELSE 0
       /\ globals.workers =
            IF IsAsked(o_WORKERS) THEN Limited(Asked(o_WORKERS)) ELSE 0
       /\ IF IsAsked(e_SCGI_DIR) THEN globals.scgi_dir = Asked(e_SCGI_DIR)
          ELSE globals.scgi_dir \in {HomeDir, WorkDir}
  BY <1>1, <1>8, <1>9, <1>10 DEF Globals, SettingOptions
<1> QED BY <1>4, <1>6, <1>7, <1>11

\* A program that has applied its options has refused none.
LEMMA NoFault ==
  ASSUME SourceInv, phase = "done"
  PROVE  /\ ~FaultyOption
         /\ BadComposition <=>
              (globals.port = 0 /\ globals.socket_flag = 0) \/ args # <<>>
<1> DEFINE socket == IsAsked(o_SOCKET) \/ IsAsked(o_UDS)
<1>0. {o_CONF, o_BIND, o_FILTER, o_PORT, o_USER} \subseteq Options
  BY SettingOptionsAre DEF SettingOptions
<1>1. \A i \in Options : IsAsked(i) => Tests(i)
  BY DoneIs
<1>2. /\ globals.server_ip = Asked(o_BIND)
      /\ globals.port = IF IsAsked(o_PORT) THEN Asked(o_PORT) ELSE 0
      /\ globals.socket_flag = 1 <=> socket
  BY DoneIs
<1>3. /\ globals.socket_flag \in {0, 1}
      /\ globals.socket_flag = 1 => globals.server_ip = NULL /\ globals.port = 0
  BY DEF SourceInv, EndpointInv, TypeOK, Endpoint
<1>4. IsAsked(o_BIND) => Asked(o_BIND) \in Addresses
  BY <1>0, <1>1 DEF Tests
<1>5. ~(socket /\ IsAsked(o_BIND))
  BY <1>2, <1>3, <1>4, TextsAssumption
<1>6. IsAsked(o_PORT) => ~IsAsked(o_UDS)
  BY <1>0, <1>1 DEF Tests
<1>7. ~(/\ socket /\ IsAsked(o_PORT)
        /\ Asked(o_PORT) # 0 \/ IsAsked(o_UDS))
  BY <1>2, <1>3, <1>6
<1>8. BadComposition <=>
        (globals.port = 0 /\ globals.socket_flag = 0) \/ args # <<>>
  BY <1>2, <1>3 DEF BadComposition
<1>9. ~(IsAsked(o_USER) /\ Asked(o_USER) \notin Users)
  BY <1>0, <1>1 DEF Tests
<1>10. ~(IsAsked(o_FILTER) /\ FileKind[Asked(o_FILTER)] # "directory")
  BY <1>0, <1>1 DEF Tests
<1>11. Uses(o_CONF) # <<>> => Tests(o_CONF)
  BY <1>0, <1>1 DEF IsAsked
<1>12. Len(Uses(o_CONF)) > 1 => Uses(o_CONF) # <<>>
  BY <1>0, LengthIs DEF SourceInv, Line, Uses
<1>13. /\ ~(Len(Uses(o_CONF)) > 1)
       /\ ~(Uses(o_CONF) # <<>> /\ FileKind[Uses(o_CONF)[1].value] = "missing")
  BY <1>11, <1>12 DEF Tests
<1> QED BY <1>4, <1>5, <1>7, <1>8, <1>9, <1>10, <1>13 DEF FaultyOption

\* The end of set_command_line_options.
LEMMA CheckSourceStep == ASSUME SourceInv, Check PROVE SourceInv'
<1>1. EndpointInv'
  BY CheckStep DEF SourceInv
<1>2. /\ phase = "done" /\ exit_code = NULL
      /\ UNCHANGED <<names, args, seen, options, onDup, current_index, assigned,
                     inputVars, env, globals>>
      /\ \/ /\ IsSet(o_VERSION) \/ IsSet(o_HELP)
            /\ phase' = "exited" /\ exit_code' = 0
         \/ /\ ~IsSet(o_VERSION) /\ ~IsSet(o_HELP)
            /\ (globals.port = 0 /\ globals.socket_flag = 0) \/ args # <<>>
            /\ phase' = "exited" /\ exit_code' = 1
         \/ /\ ~IsSet(o_VERSION) /\ ~IsSet(o_HELP) /\ args = <<>>
            /\ ~(globals.port = 0 /\ globals.socket_flag = 0)
            /\ phase' = "serving" /\ exit_code' = exit_code
  BY DEF Check, Exit, scanVars, SourceInv, EndpointInv, TypeOK
<1>3. \A i : (IsAsked(i)' <=> IsAsked(i)) /\ Asked(i)' = Asked(i)
  BY <1>2, Frozen
<1>4. Line' /\ (FaultyOption' <=> FaultyOption)
      /\ (BadComposition' <=> BadComposition)
      /\ (Information' <=> Information)
  BY <1>2, Frozen DEF SourceInv
<1>5. Data'
  BY <1>2 DEF SourceInv, Data
<1>6. Variables'
  BY <1>2 DEF SourceInv, Variables, AtConf, inputVars
<1>7. HandedOut'
  BY <1>2, <1>3 DEF SourceInv, HandedOut, Live
<1>8. Globals' /\ Tested'
  <2>1. \A i : (Applied(i)' <=> Applied(i)) /\ (Tests(i)' <=> Tests(i))
    BY <1>2, <1>3, Frozen DEF Applied
  <2>2. Limited(Asked(o_WORKERS))' = Limited(Asked(o_WORKERS))
    BY <1>3 DEF Limited
  <2>3. inherited' = inherited
    BY <1>2 DEF inputVars
  <2> QED BY <1>2, <1>3, <2>1, <2>2, <2>3 DEF SourceInv, Globals, Tested, Live
<1>9. SourcesInOrder'
  <2> SUFFICES ASSUME phase' = "serving" PROVE SourcesInOrder'
    BY DEF SourcesInOrder
  <2>1. IsSet(o_FOREGROUND) <=> Asked(o_FOREGROUND) = 1
    <3>1. o_FOREGROUND \in Options
      BY OptionsAre, OptionsAreNumbers
    <3>2. ~IsAsked(o_FOREGROUND) => Asked(o_FOREGROUND) = NULL
      BY <3>1, AskedIs
    <3>3. NULL # 1
      BY DEF NULL
    <3> QED BY <1>2, <3>2, <3>3, DoneIs
  <2>2. IsSet(o_FOREGROUND)' <=> IsSet(o_FOREGROUND)
    BY <1>2 DEF IsSet
  <2>3. /\ ~IsAsked(o_WORKERS) => globals.workers = 0
        /\ IsAsked(o_WORKERS) =>
             globals.workers = IF Asked(o_WORKERS) \in 0..MAX_WORKERS
                               THEN Asked(o_WORKERS) ELSE DEFAULT_WORKERS
    BY <1>2, DoneIs DEF Limited
  <2> QED BY <1>2, <1>3, <2>1, <2>2, <2>3, DoneIs DEF SourcesInOrder
<1>10. ExitCodesAreTrue'
  <2>1. IsSet(o_VERSION) \/ IsSet(o_HELP) <=> IsAsked(o_HELP) \/ IsAsked(o_VERSION)
    BY <1>2, DoneIs, InformationIs
  <2>a. /\ ~FaultyOption
        /\ BadComposition <=>
             (globals.port = 0 /\ globals.socket_flag = 0) \/ args # <<>>
    BY <1>2, NoFault
  <2>2. CASE /\ IsSet(o_VERSION) \/ IsSet(o_HELP)
             /\ phase' = "exited" /\ exit_code' = 0
    BY <1>3, <1>4, <2>1, <2>2, <2>a DEF ExitCodesAreTrue, Information
  <2>3. CASE /\ ~IsSet(o_VERSION) /\ ~IsSet(o_HELP)
             /\ (globals.port = 0 /\ globals.socket_flag = 0) \/ args # <<>>
             /\ phase' = "exited" /\ exit_code' = 1
    BY <1>3, <1>4, <2>1, <2>3, <2>a DEF ExitCodesAreTrue, Information
  <2>4. CASE /\ ~IsSet(o_VERSION) /\ ~IsSet(o_HELP) /\ args = <<>>
             /\ ~(globals.port = 0 /\ globals.socket_flag = 0)
             /\ phase' = "serving" /\ exit_code' = exit_code
    <3>1. ~FaultyOption /\ ~BadComposition /\ ~Information
      BY <2>1, <2>4, <2>a DEF Information
    <3> QED BY <1>2, <1>4, <2>4, <3>1 DEF ExitCodesAreTrue, NULL
  <2> QED BY <1>2, <2>2, <2>3, <2>4
<1> QED BY <1>1, <1>4, <1>5, <1>6, <1>7, <1>8, <1>9, <1>10 DEF SourceInv

LEMMA StutterStep == ASSUME SourceInv, UNCHANGED vars PROVE SourceInv'
<1>1. UNCHANGED <<names, args, seen, options, onDup, current_index, assigned,
                  current, inputVars, env, phase, globals, exit_code>>
  BY DEF vars, scanVars
<1>2. \A i : (IsAsked(i)' <=> IsAsked(i)) /\ Asked(i)' = Asked(i)
  BY <1>1, Frozen
<1>3. /\ Line' /\ Final' = Final /\ Implied' = Implied /\ Sourced' = Sourced
      /\ (FaultyOption' <=> FaultyOption) /\ (BadComposition' <=> BadComposition)
         /\ (Information' <=> Information)
      /\ \A i : Tests(i)' <=> Tests(i)
  BY <1>1, Frozen DEF SourceInv
<1>4. EndpointInv'
  BY <1>1 DEF SourceInv, EndpointInv, Listed, Uncounted, HasFields, TypeOK,
              Endpoint, OneEndpoint
<1>5. Data' /\ Variables'
  BY <1>1, <1>3 DEF SourceInv, Data, Variables, AtConf, inputVars
<1>6. HandedOut'
  BY <1>1, <1>2 DEF SourceInv, HandedOut, Live, optarg
<1>7. Globals' /\ Tested'
  <2>1. \A i : Applied(i)' <=> Applied(i)
    BY <1>1, <1>2 DEF Applied
  <2>2. Limited(Asked(o_WORKERS))' = Limited(Asked(o_WORKERS))
    BY <1>2 DEF Limited
  <2>3. inherited' = inherited
    BY <1>1 DEF inputVars
  <2> QED BY <1>1, <1>2, <1>3, <2>1, <2>2, <2>3
          DEF SourceInv, Globals, Tested, Live
<1>8. SourcesInOrder'
  BY <1>1, <1>2 DEF SourceInv, SourcesInOrder, IsSet
<1>9. ExitCodesAreTrue'
  BY <1>1, <1>2, <1>3 DEF SourceInv, ExitCodesAreTrue
<1> QED BY <1>3, <1>4, <1>5, <1>6, <1>7, <1>8, <1>9 DEF SourceInv

LEMMA InitSources == ASSUME Init PROVE SourceInv
<1>1. /\ Listed /\ args \in CommandLines
      /\ seen = [i \in Options |-> <<>>] /\ onDup = "overwrite"
      /\ options = [i \in Options |->
                      [count |-> 0, optarg |-> names[i].init, iVal |-> 0,
                       argArray |-> [k \in 0..10 |-> NULL]]]
      /\ env \in Environments /\ phase = "scan" /\ current_index = 1
      /\ assigned = [i \in Options |-> <<>>]
  BY InitList DEF Init, Scan!Init
<1>2. /\ argc = Len(args) /\ inherited = env /\ config \in Configs
      /\ exit_code = NULL
      /\ globals.server_ip = NULL /\ globals.port = 0
      /\ globals.verbose_level = 0 /\ globals.socket_flag = 0
      /\ globals.filter_name = NULL /\ globals.user = 0
      /\ globals.workers = 0 /\ HasFields
  BY DEF Init, HasFields, Fields
<1>3. EndpointInv
  <2>1. Uncounted
    <3>1. o_DAEMON \in Options
      BY OptionsAre, OptionsAreNumbers
    <3> QED BY <1>1, <3>1 DEF Uncounted
  <2> QED BY <1>1, <1>2, <2>1
          DEF EndpointInv, TypeOK, Endpoint, OneEndpoint, MAX_WORKERS
<1>4. Line
  <2>1. args \in Seq(Scan!Arguments)
    BY <1>1, CommandLinesAssumption
  <2>2. Len(args) \in Nat
    BY <2>1, LenProperties
  <2>3. seen \in [Options -> Seq(Use)] /\ \A i \in Options : seen[i] = <<>>
    BY <1>1
  <2>4. o_CONF \in Options
    BY OptionsAre, OptionsAreNumbers
  <2> QED BY <1>1, <1>2, <2>1, <2>2, <2>3, <2>4 DEF Line
<1>5. Data
  BY <1>1 DEF Data
<1>6. Variables
  <2>1. env \in OptionTexts /\ config.lines \in OptionTexts
    BY <1>1, <1>2, VariablesAssumption
  <2>2. o_CONF \in NoVariable
    BY DEF NoVariable
  <2> QED BY <1>1, <1>2, <2>1, <2>2 DEF Variables, AtConf, OptionTexts, Options
<1>7. HandedOut
  <2>1. options \in [Options -> OptionData]
    <3>1. \A i \in Options : names[i].init \in Int
      BY <1>1, OptionsAre DEF Listed
    <3> QED BY <1>1, <3>1 DEF OptionData, NULL
  <2>2. /\ \A i \in Options : assigned[i] = <<>>
        /\ \A i \in Options : ~(i < 1)
    <3>1. \A i \in Options : ~(i < 1)
      BY OptionsAre
    <3> QED BY <1>1, <3>1
  <2> QED BY <1>1, <2>1, <2>2 DEF HandedOut, Live
<1>8. Globals
  <2>1. \A i \in SettingOptions : ~Applied(i)
    BY <1>1, SettingOptionsAre, OptionsAre DEF Applied
  <2> QED BY <1>1, <1>2, <2>1 DEF Globals, SettingOptions
<1>10. Tested
  <2>1. \A i \in Options : ~(i < 1)
    BY OptionsAre
  <2> QED BY <1>1, <2>1 DEF Tested, Applied
<1>9. SourcesInOrder /\ ExitCodesAreTrue
  BY <1>1, <1>2 DEF SourcesInOrder, ExitCodesAreTrue, NULL
<1> QED BY <1>3, <1>4, <1>5, <1>6, <1>7, <1>8, <1>9, <1>10 DEF SourceInv

\* The variables hold, at each step through the list, what the sources of the
\* options before the cursor ask for in their order of precedence; the
\* environment is the final one as soon as an option other than --config is
\* handed out.
THEOREM SourceInvariant == Spec => []SourceInv
<1>1. Init => SourceInv
  BY InitSources
<1>2. SourceInv /\ [Next]_vars => SourceInv'
  BY ScanStep, BootStep, NextStep, ApplySourceStep, CheckSourceStep, StutterStep
     DEF Next
<1> QED BY <1>1, <1>2, PTL DEF Spec

\* A server that starts has, in each variable of command_line.h, the value of
\* the command line, else that of the configuration file, else that of its
\* environment, else the one the variable is initialised with, although the
\* file changes the environment in the middle of the walk through the list.
THEOREM SourcesInOrderTheorem == Spec => []SourcesInOrder
<1>1. SourceInv => SourcesInOrder
  BY DEF SourceInv
<1> QED BY <1>1, SourceInvariant, PTL

\* Status 0 is for --help and --version where no option is refused; status 1
\* is for an option that is refused, even beside those two, or for a bad
\* composition without them; and a server that starts has none of the three.
THEOREM ExitCodesAreTrueTheorem == Spec => []ExitCodesAreTrue
<1>1. SourceInv => ExitCodesAreTrue
  BY DEF SourceInv
<1> QED BY <1>1, SourceInvariant, PTL
=============================================================================
