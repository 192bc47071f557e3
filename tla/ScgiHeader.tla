----------------------------- MODULE ScgiHeader -----------------------------
(***************************************************************************)
(* The header of an SCGI request in memory: a sequence of C strings, name  *)
(* and value in turn, each ended by a NUL.  Both decoders of the           *)
(* repository join a name and its value in place, by storing "=" over the  *)
(* NUL between them.                                                       *)
(*                                                                         *)
(* A header is a sequence of tokens, a pointer into it is the number of    *)
(* the token it points at, and joined is the set of tokens whose NUL has   *)
(* become "=".                                                             *)
(***************************************************************************)
EXTENDS Integers, Sequences, FiniteSets

CONSTANTS
  VersionOnes,  \* the strings whose first two bytes sum to '1'
  OneNames      \* the strings that begin with '1'

CONTENT_LENGTH == "CONTENT_LENGTH"
SCGI_NAME      == "SCGI"
SCGI_VALUE     == "1"

EmptyString == ""

\* The header in memory.  Behind it is the comma: who walks past the last
\* token finds it, and whatever follows, up to some NUL.
Overrun == ","
Memory(header) == Append(header, Overrun)

\* The string "1" and its NUL are one of many pairs of bytes: '0' and 1 are
\* another.  An empty string is not among these: its second byte is not its own.
ASSUME VersionAssumption ==
  /\ VersionOnes \subseteq STRING /\ OneNames \subseteq STRING
  /\ SCGI_VALUE \in VersionOnes \cap OneNames
  /\ {EmptyString, Overrun, SCGI_NAME, CONTENT_LENGTH}
       \cap (VersionOnes \cup OneNames) = {}

\* The C string at token i, as the tokens it consists of.
CString(mem, joined, i) ==
  LET last == CHOOSE k \in i..Len(mem) :
                k \notin joined /\ \A j \in i..(k - 1) : j \in joined
  IN  SubSeq(mem, i, last)

\* strcmp(p, name) == 0
IsString(mem, joined, i, name) == CString(mem, joined, i) = <<name>>

\* value[0] + value[1] == '1' for the value that is token i, which may be an
\* empty value in front of a name that begins with '1'.
SumsToOne(mem, i) ==
  \/ mem[i] \in VersionOnes
  \/ mem[i] = EmptyString /\ mem[i + 1] \in OneNames

-----------------------------------------------------------------------------
(***************************************************************************)
(* scgi_netstring_validate, of a header whose NULs are all in place.       *)
(***************************************************************************)

\* The names behind the first one that are the SCGI variable.
ScgiNames(header) ==
  {i \in DOMAIN header : i > 1 /\ i % 2 = 1 /\ header[i] = SCGI_NAME}

\* Mutant: the loop has no break, the last SCGI counts.
LastScgiCounts(header) ==
  \E i \in ScgiNames(header) :
    /\ \A j \in ScgiNames(header) : j <= i
    /\ SumsToOne(Memory(header), i + 1)

\* The loop over the names stops at the first SCGI.
VersionIsOne(header) ==
  \E i \in ScgiNames(header) :
    /\ \A j \in ScgiNames(header) : i <= j
    /\ SumsToOne(Memory(header), i + 1)

\* Mutant: an empty CONTENT_LENGTH is as good as any.
ValidateAnyLength(header) ==
  IF Len(header) < 4 \/ Len(header) % 2 # 0 THEN "PROTOCOL_ERROR"
  ELSE IF header[1] # CONTENT_LENGTH THEN "MISSING_CONTENT_LENGTH"
  ELSE IF ~VersionIsOne(header) THEN "INVALID_VERSION"
  ELSE "SUCCESS"

\* The code it returns, by the first test that fails.
Validation(header) ==
  IF Len(header) < 4 \/ Len(header) % 2 # 0 THEN "PROTOCOL_ERROR"
  ELSE IF header[1] # CONTENT_LENGTH THEN "MISSING_CONTENT_LENGTH"
  ELSE IF header[2] = EmptyString THEN "EMPTY_CONTENT_LENGTH"
  ELSE IF ~VersionIsOne(header) THEN "INVALID_VERSION"
  ELSE "SUCCESS"

-----------------------------------------------------------------------------
(***************************************************************************)
(* The requirements on a header, in the words of the "Input Requirements"  *)
(* in scgi_netstring.c and scgi2env-exec.c.                                *)
(***************************************************************************)

Paired(header) == Len(header) % 2 = 0

\* Name-value pairs in order.
Pairs(header) ==
  [k \in 1..(Len(header) \div 2) |-> <<header[2 * k - 1], header[2 * k]>>]

LengthFirst(header) == header # <<>> /\ header[1] = CONTENT_LENGTH
=============================================================================
