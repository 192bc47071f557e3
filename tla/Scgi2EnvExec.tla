---------------------------- MODULE Scgi2EnvExec ----------------------------
(***************************************************************************)
(* main() of scgi-launch/scgi2env-exec.c: the program that the socket tool *)
(* starts for each connection.  It reads the SCGI header from stdin, makes *)
(* an environment of it and becomes the CGI program.                       *)
(*                                                                         *)
(* stdin is a stream of stdio: what it takes from the connection to fill   *)
(* its buffer is up to the library.                                        *)
(***************************************************************************)
EXTENDS ScgiHeader

CONSTANTS
  Headers,        \* the headers a peer may send
  Wires,          \* what arrives of them, a subset of WireKinds
  MAX_ENV_COUNT

\* A whole request; one that does not begin with a number, or has no colon
\* behind it; one whose number malloc has no memory for, such as a negative
\* one; one that ends inside the header; one with another character in the
\* comma's place.
WireKinds ==
  {"whole", "no_size", "no_colon", "bad_size", "truncated", "no_comma"}

ASSUME HeadersAssumption == \A h \in Headers : h \in Seq(STRING)
ASSUME WiresAssumption == Wires \subseteq WireKinds
ASSUME MaxAssumption == MAX_ENV_COUNT \in Nat \ {0, 1}

VARIABLES
  header, wire,   \* chosen once
  pc,             \* "exited", "program" and "crashed" are final
  p,              \* the walking pointer
  joined,         \* the NULs that have become "="
  new_env,        \* the pointers stored so far
  scgi_version,   \* whether the variable is '1'
  body,           \* "stdin" or, once stdio has it, "buffer"
  exit_code,      \* none until main() exits
  output          \* what the client reads: "", "503" or "program"

vars == <<header, wire, pc, p, joined, new_env, scgi_version, body, exit_code,
          output>>

inputVars  == <<header, wire>>
resultVars == <<exit_code, output>>
envVars    == <<p, joined, new_env, scgi_version>>

NoExit == -1
RETVAL_PROTOCOL_ERROR == 1
RETVAL_UNABLE_TO_EXEC == 2
RETVAL_MISSING_CONTENT_LENGTH == 3
RETVAL_INVALID_SCGI == 4
RETVAL_TOO_MANY_ENVS == 5
RETVAL_OTHER == 6

mem == Memory(header)

ExitWith(code) == pc' = "exited" /\ exit_code' = code

\* The first env_count pointers fit into new_env[], with the NULL behind.
EnvFits == Len(new_env) < MAX_ENV_COUNT

\* scgi_version is not initialised: it may hold a '1'.
Init ==
  /\ header \in Headers /\ wire \in Wires
  /\ pc = "scanf"
  /\ p = 1 /\ joined = {} /\ new_env = <<>>
  /\ scgi_version \in BOOLEAN
  /\ body = "stdin"
  /\ exit_code = NoExit /\ output = ""

\* Filling stdio's buffer may take bytes of the body that have arrived.
FillBuffer == body' \in {body, "buffer"}

\* scanf("%d:", &header_size), which returns 1 with or without the colon.
ReadSize ==
  /\ pc = "scanf"
  /\ FillBuffer
  /\ IF wire = "no_size" THEN ExitWith(RETVAL_PROTOCOL_ERROR)
     ELSE pc' = "fread" /\ UNCHANGED exit_code
  /\ UNCHANGED <<inputVars, envVars, output>>

\* malloc, and fread of the header and the comma.
ReadHeader ==
  /\ pc = "fread"
  /\ FillBuffer
  /\ \/ wire \in {"bad_size", "truncated"} /\ ExitWith(RETVAL_OTHER)
     \/ wire = "no_comma" /\ ExitWith(RETVAL_PROTOCOL_ERROR)
     \/ wire \in {"whole", "no_colon"} /\ pc' = "first" /\ UNCHANGED exit_code
  /\ UNCHANGED <<inputVars, envVars, output>>

\* append_env_value and the store into new_env[env_count ++].
TakePair ==
  /\ joined'  = joined \cup {p}
  /\ new_env' = Append(new_env, p)
  /\ p' = p + 2

\* Mutant: the first name is not compared.
FirstPairUnchecked ==
  /\ pc = "first"
  /\ TakePair
  /\ pc' = "pairs"
  /\ UNCHANGED <<inputVars, scgi_version, body, resultVars>>

FirstPair ==
  /\ pc = "first"
  /\ IF IsString(mem, joined, p, CONTENT_LENGTH)
     THEN TakePair /\ pc' = "pairs" /\ UNCHANGED exit_code
     ELSE /\ ExitWith(RETVAL_MISSING_CONTENT_LENGTH)
          /\ UNCHANGED <<joined, new_env, p>>
  /\ UNCHANGED <<inputVars, scgi_version, body, output>>

\* Mutant: the SCGI variable is looked for after the join.
JoinedBeforeCompare ==
  /\ pc = "pairs"
  /\ p <= Len(header)
  /\ TakePair
  /\ scgi_version' = IF IsString(mem, joined', p, SCGI_NAME)
                     THEN SumsToOne(mem, p + 1) ELSE scgi_version
  /\ UNCHANGED <<inputVars, pc, body, resultVars>>

\* What scgi_version may be of the value that is token i: behind the header it
\* is the comma and a byte that nothing has written.
VersionOf(i) == IF i <= Len(header) THEN {SumsToOne(mem, i)} ELSE BOOLEAN

\* Here the SCGI variable is looked for first, and the last one counts.
\* Nothing keeps the loop inside new_env[], nor the value inside the header.
NextPair ==
  /\ pc = "pairs"
  /\ p <= Len(header)
  /\ scgi_version' \in IF IsString(mem, joined, p, SCGI_NAME)
                       THEN VersionOf(p + 1) ELSE {scgi_version}
  /\ TakePair
  /\ UNCHANGED <<inputVars, pc, body, resultVars>>

\* A store outside new_env[] may end the program at once or later, and so may
\* the search for a NUL behind the buffer.
Overruns ==
  /\ \/ pc = "first" /\ Len(header) < 2
     \/ pc = "pairs" /\ (p = Len(header) \/ ~EnvFits)
  /\ pc' = "crashed"
  /\ UNCHANGED <<inputVars, envVars, body, resultVars>>

\* Mutant: env_count > MAX_ENV_COUNT.
CheckOffByOne ==
  /\ pc = "pairs"
  /\ p > Len(header)
  /\ IF ~scgi_version THEN ExitWith(RETVAL_INVALID_SCGI)
     ELSE IF Len(new_env) > MAX_ENV_COUNT THEN ExitWith(RETVAL_TOO_MANY_ENVS)
     ELSE pc' = "execle" /\ UNCHANGED exit_code
  /\ UNCHANGED <<inputVars, envVars, body, output>>

\* The NULL pointer, the version and, only then, the count.
Check ==
  /\ pc = "pairs"
  /\ p > Len(header)
  /\ IF ~scgi_version THEN ExitWith(RETVAL_INVALID_SCGI)
     ELSE IF ~EnvFits THEN ExitWith(RETVAL_TOO_MANY_ENVS)
     ELSE pc' = "execle" /\ UNCHANGED exit_code
  /\ UNCHANGED <<inputVars, envVars, body, output>>

\* The CGI program has the environment and what is left of stdin.
Exec ==
  /\ pc = "execle"
  /\ pc' = "program"
  /\ output' = "program"
  /\ UNCHANGED <<inputVars, envVars, body, exit_code>>

\* execle returns: the 503 response.
ExecFails ==
  /\ pc = "execle"
  /\ output' = "503"
  /\ ExitWith(RETVAL_UNABLE_TO_EXEC)
  /\ UNCHANGED <<inputVars, envVars, body>>

main ==
  ReadSize \/ ReadHeader \/ FirstPair \/ NextPair \/ Overruns \/ Check
    \/ Exec \/ ExecFails

Next == main

Spec == Init /\ [][Next]_vars

-----------------------------------------------------------------------------
\* Of the names SCGI behind the first pair the value of the last one counts,
\* and by the sum of its first two bytes (scgi2env-exec.c:143): it passes for
\* one if it begins like "1" and its NUL or with two others of that sum, or is
\* empty in front of a name that begins with '1'.
LastScgiPasses(h) ==
  \E i \in ScgiNames(h) :
    /\ \A j \in ScgiNames(h) : j <= i
    /\ i < Len(h)
    /\ \/ h[i + 1] \in VersionOnes
       \/ h[i + 1] = EmptyString /\ i + 2 <= Len(h) /\ h[i + 2] \in OneNames

\* The program that is executed has an environment of the pairs of the
\* header, each as one string, once, in order and inside new_env[], and of
\* nothing else but for one string: scgi2env-exec.c:10-13 knows only names with
\* their values, but a header that ends with a name is not refused, and that
\* name and what lies behind the buffer (:123-124) become a variable.
EnvIsThePairs ==
  pc \in {"execle", "program"} =>
    /\ Len(new_env) = (Len(header) + 1) \div 2
    /\ Len(new_env) < MAX_ENV_COUNT
    /\ \A k \in DOMAIN Pairs(header) :
         CString(mem, joined, new_env[k]) = Pairs(header)[k]
    /\ ~Paired(header) => CString(mem, joined, new_env[Len(new_env)])
                            = <<header[Len(header)], Overrun>>

\* The requests that the CGI program is executed for begin with their length,
\* and if an SCGI variable has a value in the header, the value of the last
\* passes for one.  That is all that is left of "A header field (name/value)
\* SCGI/1 must exist" (scgi2env-exec.c:20): other values pass by their sum, a
\* header without an SCGI variable by what the stack held, and one whose last
\* SCGI has no value by what lies behind the buffer.
OnlyCompliantRequests ==
  pc = "program" =>
    /\ LengthFirst(header)
    /\ ScgiNames(header) # {} =>
         LastScgiPasses(header) \/ Len(header) \in ScgiNames(header)

\* The exit codes of scgi2env-exec.c:41-47 tell the truth, and a client whose
\* program could not be executed is told so.  RETVAL_TOO_MANY_ENVS comes when
\* all the pointers are stored, so that the one it would have prevented is
\* already outside new_env[] (:146-153), and may have ended the program; that
\* happens to no header that is pairs and fits.
ExitCodesAreTrue ==
  /\ exit_code = RETVAL_PROTOCOL_ERROR => wire \in {"no_size", "no_comma"}
  /\ exit_code = RETVAL_OTHER => wire \in {"bad_size", "truncated"}
  /\ exit_code = RETVAL_MISSING_CONTENT_LENGTH => ~LengthFirst(header)
  /\ exit_code = RETVAL_INVALID_SCGI => ~LastScgiPasses(header)
  /\ exit_code = RETVAL_TOO_MANY_ENVS =>
       /\ Len(new_env) = (Len(header) + 1) \div 2
       /\ Len(new_env) >= MAX_ENV_COUNT
  /\ pc = "crashed" => \/ header = <<>> \/ ~Paired(header)
                       \/ Len(header) \div 2 >= MAX_ENV_COUNT
  /\ exit_code = RETVAL_UNABLE_TO_EXEC <=> output = "503"

\* scgi2env-exec.c:113: "<body> is left on stdin" for the program.
BodyIsLeft == pc = "program" => body = "stdin"
=============================================================================
