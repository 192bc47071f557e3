--------------------------- MODULE ScgiNetstring ----------------------------
(***************************************************************************)
(* netstring/scgi_netstring.c: what a program that has read a netstring    *)
(* does with it as an SCGI header (the decode operation of                 *)
(* netstring_utility.c): scgi_netstring_validate and scgi_netstring2env;   *)
(* or scgi_read2env, which does both on its own.                           *)
(***************************************************************************)
EXTENDS ScgiHeader

CONSTANTS
  Headers,    \* the headers a peer may send
  Decoders,   \* which of the two ways the program uses
  EnvSize     \* env_size of scgi_read2env

DecoderKinds == {"netstring", "read2env"}

ASSUME HeadersAssumption == \A h \in Headers : h \in Seq(STRING)
ASSUME DecodersAssumption == Decoders \subseteq DecoderKinds
ASSUME EnvSizeAssumption == EnvSize \in Nat \ {0, 1}

VARIABLES
  header, decoder,  \* chosen once
  joined,           \* the NULs that have become "="
  strings,          \* the first strings_count pointers, or env[]
  capped,           \* whether a NULL pointer follows them
  p,                \* the walking pointer of scgi_read2env
  scgi_version,     \* whether it is '1'
  pc,
  retval            \* "none" until a call has returned

vars == <<header, decoder, joined, strings, capped, p, scgi_version, pc,
          retval>>

mem == Memory(header)

Fail(code) == pc' = "done" /\ retval' = code

\* netstring_read has built strings[] and netstring_end has capped it, and the
\* program may or may not validate them first; or scgi_read2env is called.
Init ==
  /\ header \in Headers
  /\ decoder \in Decoders
  /\ joined = {}
  /\ strings = IF decoder = "netstring" THEN [i \in DOMAIN header |-> i]
               ELSE <<>>
  /\ capped = (decoder = "netstring")
  /\ p = 1
  /\ scgi_version = FALSE
  /\ pc \in IF decoder = "netstring" THEN {"validate", "2env"} ELSE {"read"}
  /\ retval = "none"

-----------------------------------------------------------------------------
scgi_netstring_validate ==
  /\ pc = "validate"
  /\ IF Validation(header) = "SUCCESS"
     THEN pc' = "2env" /\ retval' = "SUCCESS"
     ELSE Fail(Validation(header))
  /\ UNCHANGED <<header, decoder, joined, strings, capped, p, scgi_version>>

\* Mutant: strings[i] = strings[i*2 - 1].
KeptOffByOne(i) == IF i = 1 THEN 1 ELSE 2 * i - 2

\* The pointer that becomes pointer i: strings[i] = strings[i*2], counted
\* from one.
KeptPointer(i) == 2 * i - 1

scgi_netstring2env ==
  /\ pc = "2env"
  /\ IF Len(strings) % 2 # 0 THEN UNCHANGED <<joined, strings, capped>>
     ELSE /\ joined' = joined \cup
                {strings[i] - 1 : i \in {k \in DOMAIN strings : k % 2 = 0}}
          /\ strings' = [i \in 1..(Len(strings) \div 2) |->
                           strings[KeptPointer(i)]]
          /\ capped' = TRUE
  /\ pc' = "done"
  /\ UNCHANGED <<header, decoder, p, scgi_version, retval>>

-----------------------------------------------------------------------------
(***************************************************************************)
(* scgi_read2env, for a message of at least NETSTRING_PREAMBLE_MAX bytes.  *)
(***************************************************************************)

\* The two reads.  The comma is looked for one byte behind the comma, in
\* memory that was not read into.
ReadHeader ==
  /\ pc = "read"
  /\ \/ Fail("MISSING_TRAILING_COMMA")
     \/ pc' = "first" /\ UNCHANGED retval
  /\ UNCHANGED <<header, decoder, joined, strings, capped, p, scgi_version>>

\* append_env_value(_name, _value), the store and the count.
TakePair ==
  /\ joined'  = joined \cup {p}
  /\ strings' = Append(strings, p)
  /\ p' = p + 2

FirstPair ==
  /\ pc = "first"
  /\ IF ~IsString(mem, joined, p, CONTENT_LENGTH)
     THEN Fail("MISSING_CONTENT_LENGTH") /\ UNCHANGED <<joined, strings, p>>
     ELSE IF mem[p + 1] = EmptyString
     THEN Fail("EMPTY_CONTENT_LENGTH") /\ UNCHANGED <<joined, strings, p>>
     ELSE TakePair /\ pc' = "pairs" /\ UNCHANGED retval
  /\ UNCHANGED <<header, decoder, capped, scgi_version>>

\* One round of either loop.  The first ends at the SCGI variable, whose name
\* is compared after it has been joined with its value.
NextPair ==
  /\ pc = "pairs"
  /\ p <= Len(header)
  /\ TakePair
  /\ scgi_version' =
       (scgi_version \/ /\ IsString(mem, joined', p, SCGI_NAME)
                        /\ SumsToOne(mem, p + 1))
  /\ IF Len(strings') >= EnvSize THEN Fail("ABORTED")
     ELSE IF IsString(mem, joined', p, SCGI_NAME) /\ ~scgi_version'
     THEN Fail("INVALID_VERSION")
     ELSE UNCHANGED <<pc, retval>>
  /\ UNCHANGED <<header, decoder, capped>>

PairsEnd ==
  /\ pc = "pairs"
  /\ p > Len(header)
  /\ capped' = scgi_version
  /\ IF scgi_version THEN pc' = "done" /\ retval' = "SUCCESS"
     ELSE Fail("INVALID_VERSION")
  /\ UNCHANGED <<header, decoder, joined, strings, p, scgi_version>>

-----------------------------------------------------------------------------
scgi_read2env == ReadHeader \/ FirstPair \/ NextPair \/ PairsEnd

Next == scgi_netstring_validate \/ scgi_netstring2env \/ scgi_read2env

Spec == Init /\ [][Next]_vars

-----------------------------------------------------------------------------
\* What an SCGI header has to be, scgi_netstring.c:56-62: what does not concern
\* the version, the first pair behind the first whose name is SCGI, and its
\* value.
WellFormed(h) ==
  /\ Len(h) >= 4 /\ Paired(h)
  /\ LengthFirst(h) /\ h[2] # EmptyString

FirstScgi(h, k) ==
  /\ Pairs(h)[k][1] = SCGI_NAME
  /\ \A j \in 2..(k - 1) : Pairs(h)[j][1] # SCGI_NAME

Compliant(h) ==
  /\ WellFormed(h)
  /\ \E k \in 2..(Len(h) \div 2) :
       FirstScgi(h, k) /\ Pairs(h)[k][2] = SCGI_VALUE

\* The values that the sum value[0] + value[1] takes for '1'
\* (scgi_netstring.c:131): those that begin like "1" and its NUL, or with two
\* other bytes that have the same sum, and the empty value if the name behind
\* it begins with '1'.
PassesForOne(h) ==
  \E k \in 2..(Len(h) \div 2) :
    /\ FirstScgi(h, k)
    /\ \/ Pairs(h)[k][2] \in VersionOnes
       \/ /\ Pairs(h)[k][2] = EmptyString
          /\ k < Len(h) \div 2 /\ Pairs(h)[k + 1][1] \in OneNames

\* scgi_netstring_validate accepts every compliant header, and refuses the
\* others but for those, against scgi_netstring.c:61 ("The value of the SCGI
\* variable must have the value of '1'"), that lack nothing but a version "1"
\* and have one that passes for it.
ValidatesCompliance ==
  decoder = "netstring" /\ retval # "none" =>
    /\ Compliant(header) => retval = "SUCCESS"
    /\ retval = "SUCCESS" <=> WellFormed(header) /\ PassesForOne(header)

\* scgi_netstring2env, of any header it does not refuse, leaves what execle
\* takes: every pair once and in order, as one string name=value, and a NULL
\* pointer behind the last.  A header that it refuses is left as it was.
EnvIsThePairs ==
  decoder = "netstring" /\ pc = "done" /\ retval \in {"none", "SUCCESS"} =>
    IF Paired(header)
    THEN capped /\ [i \in DOMAIN strings |-> CString(mem, joined, strings[i])]
                     = Pairs(header)
    ELSE [i \in DOMAIN strings |-> CString(mem, joined, strings[i])]
           = [i \in DOMAIN header |-> <<header[i]>>]

\* A header that scgi_read2env has no complaint about but one.
RightButForVersion(h) ==
  /\ LengthFirst(h) /\ Memory(h)[2] # EmptyString
  /\ (Len(h) + 1) \div 2 < EnvSize

\* The codes blame the right part of the header, in the order of the checks:
\* the length, the first name, its value, the SCGI variable.  The exception is
\* scgi_read2env, which scgi_netstring.h:21-29 calls a "specialized
\* implementation" of reading, validating and converting: it blames the
\* version of every header in which it gets that far, the compliant ones too,
\* since it looks for the name SCGI in strings that it has joined with their
\* values (scgi_netstring.c:244-249), and it returns SUCCESS for none.
ErrorsAreTrue ==
  /\ retval = "PROTOCOL_ERROR" => Len(header) < 4 \/ ~Paired(header)
  /\ retval = "MISSING_CONTENT_LENGTH" => ~LengthFirst(header)
  /\ retval = "EMPTY_CONTENT_LENGTH" =>
       LengthFirst(header) /\ header[2] = EmptyString
  /\ retval = "INVALID_VERSION" =>
       IF decoder = "netstring"
       THEN WellFormed(header) /\ ~PassesForOne(header)
       ELSE RightButForVersion(header)
  /\ retval = "ABORTED" => (Len(header) + 1) \div 2 >= EnvSize
  /\ decoder = "read2env" /\ retval # "none" =>
       /\ retval # "SUCCESS"
       /\ RightButForVersion(header) =>
            retval \in {"INVALID_VERSION", "MISSING_TRAILING_COMMA"}
=============================================================================
