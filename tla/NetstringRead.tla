--------------------------- MODULE NetstringRead ----------------------------
(***************************************************************************)
(* The receiving half of netstring/netstring.c: netstring_read, on a       *)
(* descriptor, and netstring_fread, on a stdio stream, while the peer is   *)
(* still sending the message and the HTTP body behind it.                  *)
(*                                                                         *)
(* One action is one call of read() or fread() and what the code computes  *)
(* up to the next one.  read() returns what has arrived, at most what was  *)
(* asked for; fread() waits for all of it or for the end of file, and the  *)
(* buffer of the stream takes more from the descriptor than it is asked    *)
(* for.                                                                    *)
(***************************************************************************)
EXTENDS Integers, Sequences, SequencesExt, NetstringFormat

CONSTANTS
  Lists,       \* the lists of strings a peer sends
  HttpBody,    \* the bytes it sends behind the netstring
  Readers,     \* what the message is read from, netstring_init_read_mode
               \* and netstring_min_length
  Middle,      \* the bytes of the stream that no piece ends with
  Truncation,  \* whether the peer may close before it has sent everything
  ReadAhead,   \* the room in the buffer of a stream behind what is asked for
  Garbage,     \* what memory may hold that nobody has written, byte by byte
  StaleSizes   \* and what the variable h_size may; -1 is the largest size_t

\* A length that no message has: larger numbers behave as this one, and so
\* does a size_t that went below zero.
NumberCap   == 100000
WrappedSize == NumberCap

\* netstring_read on a regular file, which is whole when it is read, and on a
\* pipe or a socket; netstring_fread.
SourceKinds == {"regular", "pipe", "stream"}
ModeKinds == {"brute", "min_size", "preamble"}

\* Strings are C strings, and no netstring is longer than the largest number
\* the model has.
ASSUME ListsAssumption ==
  /\ Lists \subseteq Seq(Seq(STRING \ {NUL}))
  /\ \A l \in Lists : Len(Body(l)) < NumberCap
ASSUME BytesAssumption ==
  HttpBody \in Seq(STRING) /\ Garbage \subseteq Seq(STRING) \ {<<>>}
ASSUME SizesAssumption ==
  ReadAhead \in Nat /\ StaleSizes \subseteq -1..NumberCap
ASSUME ReadersAssumption == Readers \subseteq SourceKinds \X ModeKinds \X Nat
ASSUME MiddleAssumption == Middle \subseteq Nat

PREAMBLE_MAX    == 11
MIN_READ_BUFFER == 3

VARIABLES
  list, source, mode, min_length, garbage,  \* chosen once
  sentTo,       \* how many bytes of the stream the peer has sent
  closed,       \* the peer has closed its side
  pos,          \* how many bytes the reader has been given
  drawn,        \* how many have been taken from the descriptor
  pc,           \* the next call: "digits", "init", "more", "rest" or "done"
  preamble,     \* preamble_buffer, or the digits read_int has seen
  h_size,
  mem,          \* the bytes from strings[0] on
  next_p,       \* the offset in mem where the rest of the strings goes
  retval        \* "none" until the call returns

inputVars == <<list, source, mode, min_length, garbage>>
peerVars  == <<sentTo, closed>>
vars == <<inputVars, peerVars, pos, drawn, pc, preamble, h_size, mem,
          next_p, retval>>

\* Evaluated once for every list.
Wire    == [l \in Lists |-> Encode(l)]
Message == Wire[list]
Stream  == Message \o HttpBody

Least(a, b) == IF a <= b THEN a ELSE b
Most(a, b)  == IF a <= b THEN b ELSE a

\* How much the first read of the MIN_SIZE mode asks for.
InitReadSize == Least(Most(MIN_READ_BUFFER, min_length), PREAMBLE_MAX)

-----------------------------------------------------------------------------
\* read() and fread() of n bytes.

Got(n)    == Least(n, sentTo - pos)
Bytes(n)  == SubSeq(Stream, pos + 1, pos + Got(n))

MayReturn(n) ==
  \/ Got(n) = n \/ closed
  \/ source = "pipe" /\ Got(n) > 0

\* The last read() of a stream that has to fill its buffer takes what there
\* is, up to the room in it.
Take(n) ==
  /\ MayReturn(n)
  /\ pos' = pos + Got(n)
  /\ drawn' \in IF source # "stream" THEN {pos'}
               ELSE IF pos' <= drawn THEN {drawn}
               ELSE pos'..Least(sentTo, pos' + ReadAhead)
  /\ UNCHANGED <<inputVars, peerVars>>

-----------------------------------------------------------------------------
\* Memory nobody has written: preamble_buffer or the variable digit, and behind
\* them the bytes from strings[0] on.  Blanks and signs, which strtol skips,
\* are left out.
Stale(i)   == garbage[(i % Len(garbage)) + 1]
Unfilled(i) == Stale(PREAMBLE_MAX + 1 + i)

-----------------------------------------------------------------------------
\* Decimal numbers, as read_int, strtol and fscanf take them.

IsDigit(c)  == c \in Range(Numerals)
DigitOf(c)  == (CHOOSE i \in 1..10 : Numerals[i] = c) - 1
NumberOf(s) ==
  LET n == FoldLeft(LAMBDA m, c : m * 10 + DigitOf(c), 0, s)
  IN  IF Len(s) > 9 THEN NumberCap ELSE Least(n, NumberCap)

\* s starts with k digits and no more.
StartsWithDigits(s, k) ==
  /\ \A i \in 1..k : IsDigit(s[i])
  /\ k < Len(s) => ~IsDigit(s[k + 1])

MemAt(m, i) == IF i \in DOMAIN m THEN m[i] ELSE Unfilled(i)

Store(m, at, s) ==
  [i \in DOMAIN m |-> IF i \in at..(at + Len(s) - 1) THEN s[i - at + 1]
                      ELSE m[i]]

Fail(code) == pc' = "done" /\ retval' = code

-----------------------------------------------------------------------------
\* "If we set a minimum string length, we can adjust the amount of characters
\* that can safely be read": no message is shorter than the first read.
Init ==
  /\ list \in Lists
  /\ \E r \in Readers : source = r[1] /\ mode = r[2] /\ min_length = r[3]
  /\ mode = "min_size" => Len(Wire[list]) >= InitReadSize
  /\ garbage \in Garbage
  /\ sentTo = 0 /\ closed = FALSE
  /\ pos = 0 /\ drawn = 0
  /\ pc = IF mode = "min_size" THEN "init" ELSE "digits"
  /\ preamble = <<>>
  /\ h_size = 0
  /\ mem = [i \in 0..(Len(Stream) + PREAMBLE_MAX) |-> Unfilled(i)]
  /\ next_p = 0
  /\ retval = "none"

\* fscanf("%zu:"), the PREAMBLE mode of netstring_fread.
Scanning == mode = "preamble" /\ source = "stream"

\* The digits are complete and c is the character behind them.  fscanf does
\* not tell whether there was a colon, and without a digit it leaves h_size as
\* it was on the stack.
EndOfDigits(c) ==
  /\ IF Scanning /\ preamble = <<>> THEN h_size' \in StaleSizes
     ELSE h_size' = NumberOf(preamble)
  /\ IF c = Colon \/ Scanning THEN pc' = "rest" /\ UNCHANGED retval
     ELSE Fail("MISSING_COLON")
  /\ UNCHANGED <<preamble, mem, next_p>>

\* read_int and fread_int, one character at a time; netstring_read does the
\* same in the PREAMBLE mode.
ReadDigit ==
  /\ pc = "digits"
  /\ Take(1)
  /\ Got(1) = 1
  /\ LET c == Bytes(1)[1]
     IN  IF IsDigit(c)
         THEN /\ preamble' = Append(preamble, c)
              /\ UNCHANGED <<pc, h_size, mem, next_p, retval>>
         ELSE EndOfDigits(c)

\* At the end of file read() leaves the variable digit as it was: the last
\* digit again, for ever, or what was on the stack.  fscanf returns.
ReadDigitAtEnd ==
  /\ pc = "digits"
  /\ Take(1)
  /\ Got(1) = 0
  /\ IF ~Scanning /\ (preamble # <<>> \/ IsDigit(Stale(0)))
     THEN UNCHANGED <<pc, preamble, h_size, mem, next_p, retval>>
     ELSE EndOfDigits(Stale(0))

\* The MIN_SIZE mode: what preamble_buffer holds from the offset at on when s of
\* the n bytes asked for have come.
Filled(s, at, n) == s \o [i \in 1..(n - Len(s)) |-> Stale(at + Len(s) + i - 1)]

\* strncpy stops at a NUL and writes NULs from there on.
strncpy(s) ==
  [i \in DOMAIN s |-> IF \E j \in 1..i : s[j] = NUL THEN NUL ELSE s[i]]

\* Mutant: the residual bytes are copied from the colon on.
ColonNotSkipped(buf) ==
  \E k \in 0..Len(buf) :
    /\ StartsWithDigits(buf, k)
    /\ preamble' = buf
    /\ h_size' = NumberOf(SubSeq(buf, 1, k))
    /\ IF k < Len(buf) /\ buf[k + 1] = Colon
       THEN /\ mem' = Store(mem, 0, strncpy(SubSeq(buf, k + 1, Len(buf) - 1)))
            /\ next_p' = Len(buf) - k - 1
            /\ pc' = "rest"
            /\ UNCHANGED retval
       ELSE /\ Fail("MISSING_COLON")
            /\ UNCHANGED <<mem, next_p>>

\* strtol, the test for the colon, and the copy of the residual bytes.  Eleven
\* digits make strtol go on behind them, where nobody has put a NUL unless the
\* first read asked for as many; a colon there gives strncpy a negative length.
ParsePreamble(buf) ==
  \E k \in 0..Len(buf) :
    /\ StartsWithDigits(buf, k)
    /\ preamble' = buf
    /\ h_size' = NumberOf(SubSeq(buf, 1, k))
    /\ IF k < Len(buf) /\ buf[k + 1] = Colon
       THEN /\ mem' = Store(mem, 0, strncpy(SubSeq(buf, k + 2, Len(buf))))
            /\ next_p' = Len(buf) - k - 1
            /\ pc' = "rest"
            /\ UNCHANGED retval
       ELSE /\ \/ Fail("MISSING_COLON")
               \/ /\ k = PREAMBLE_MAX /\ InitReadSize < PREAMBLE_MAX
                  /\ Fail("FAULT")
            /\ UNCHANGED <<mem, next_p>>

\* strchr(buf, ':'), which looks no further than a NUL.
HasColon(buf) ==
  \E i \in DOMAIN buf : buf[i] = Colon /\ \A j \in 1..i : buf[j] # NUL

ReadInit ==
  /\ pc = "init"
  /\ Take(InitReadSize)
  /\ \E buf \in {Filled(Bytes(InitReadSize), 0, InitReadSize)} :
         IF HasColon(buf)
         THEN ParsePreamble(buf)
         ELSE /\ pc' = "more"
              /\ preamble' = buf
              /\ UNCHANGED <<h_size, mem, next_p, retval>>

\* Mutant: the second read asks for a whole preamble again.
PreambleReadAgain ==
  /\ pc = "more"
  /\ Take(PREAMBLE_MAX)
  /\ ParsePreamble(preamble \o Filled(Bytes(PREAMBLE_MAX), InitReadSize,
                                       PREAMBLE_MAX))

\* The second read overwrites the NUL behind the first, if anything comes.
ReadMore ==
  /\ pc = "more"
  /\ LET n   == PREAMBLE_MAX - InitReadSize
         new == IF Got(n) = 0 /\ n > 0 THEN <<NUL>> ELSE Bytes(n)
     IN  /\ Take(n)
         /\ \E buf \in {preamble \o Filled(new, InitReadSize, n)} :
              ParsePreamble(buf)

-----------------------------------------------------------------------------
\* The walk of next_start through the h_size bytes at strings[0].  The last
\* string runs into the comma when no NUL ends it.
build_strings_array(m, size) ==
  LET bytes  == [i \in 1..size |-> MemAt(m, i - 1)]
      nuls   == {i \in 1..size : bytes[i] = NUL}
      count  == Cardinality(nuls)
      Nul(k) == IF k = 0 THEN 0
                ELSE CHOOSE i \in nuls :
                       Cardinality({j \in nuls : j <= i}) = k
      ended  == [k \in 1..count |->
                   SubSeq(bytes, Nul(k - 1) + 1, Nul(k) - 1)]
      tail   == SubSeq(bytes, Nul(count) + 1, size)
  IN  IF tail = <<>> THEN ended
      ELSE Append(ended, Append(tail, Comma))

\* The strings of a netstring that has been read, through strings[].
Strings == build_strings_array(mem, h_size)

\* Mutant: the comma is not read with the strings.
CommaLeftBehind ==
  /\ pc = "rest"
  /\ h_size > next_p
  /\ LET n == h_size - next_p
     IN  /\ Take(n)
         /\ mem' = Store(mem, next_p, Bytes(n))
         /\ IF Got(n) = n THEN pc' = "done" /\ retval' = "SUCCESS"
            ELSE Fail("TRUNCATED_STRING")
  /\ UNCHANGED <<preamble, h_size, next_p>>

\* Mutant: after a short read everything is asked for again.
RetriesFromStart ==
  /\ pc = "rest"
  /\ LET n == h_size + 1 - next_p
     IN  /\ Take(n)
         /\ mem' = Store(mem, next_p, Bytes(n))
         /\ IF Got(n) = n THEN pc' = "done" /\ retval' = "SUCCESS"
            ELSE UNCHANGED <<pc, retval>>
  /\ UNCHANGED <<preamble, h_size, next_p>>

\* Mutant: what the last read returns is not looked at.
RestUncounted ==
  /\ pc = "rest"
  /\ LET n     == IF h_size + 1 < next_p THEN WrappedSize
                 ELSE h_size + 1 - next_p
         comma == MemAt(mem', h_size)
     IN  /\ Take(n)
         /\ mem' = Store(mem, next_p, Bytes(n))
         /\ IF comma = Comma THEN pc' = "done" /\ retval' = "SUCCESS"
            ELSE Fail("MISSING_TRAILING_COMMA")
  /\ UNCHANGED <<preamble, h_size, next_p>>

\* The bytes of the strings that are still to come, and the comma.  h_size is
\* not compared with what the NETSTRING has room for: where memory ends is not
\* modelled, except that a byte far outside may not be there at all.
ReadRest ==
  /\ pc = "rest"
  /\ LET n     == IF h_size + 1 < next_p THEN WrappedSize
                 ELSE h_size + 1 - next_p
         comma == MemAt(mem', h_size)
     IN  /\ Take(n)
         /\ mem' = Store(mem, next_p, Bytes(n))
         /\ \/ /\ h_size \notin DOMAIN mem
               /\ Fail("FAULT")
            \/ /\ Got(n) # n
               /\ Fail("TRUNCATED_STRING")
            \/ /\ Got(n) = n /\ comma # Comma
               /\ Fail("MISSING_TRAILING_COMMA")
            \/ /\ Got(n) = n /\ comma = Comma
               /\ pc' = "done" /\ retval' = "SUCCESS"
  /\ UNCHANGED <<preamble, h_size, next_p>>

-----------------------------------------------------------------------------
\* The peer sends up to the next place where a piece may end; longer pieces are
\* several of these with no read in between.
Send ==
  /\ ~closed
  /\ sentTo < Len(Stream)
  /\ sentTo' = CHOOSE n \in (sentTo + 1)..Len(Stream) :
                  /\ n \notin Middle \/ n = Len(Stream)
                  /\ (sentTo + 1)..(n - 1) \subseteq Middle
  /\ UNCHANGED <<inputVars, closed, pos, drawn, pc, preamble, h_size, mem,
                 next_p, retval>>

PeerClose ==
  /\ ~closed
  /\ Truncation \/ sentTo = Len(Stream)
  /\ closed' = TRUE
  /\ UNCHANGED <<inputVars, sentTo, pos, drawn, pc, preamble, h_size, mem,
                 next_p, retval>>

Read == ReadDigit \/ ReadDigitAtEnd \/ ReadInit \/ ReadMore \/ ReadRest

Next == Read \/ Send \/ PeerClose

Spec == Init /\ [][Next]_vars

\* The reader is scheduled, and the peer sends what it has: it is a client
\* that is not waiting for an answer yet, or a file.
FairSpec == Spec /\ WF_vars(Read) /\ WF_vars(Send) /\ WF_vars(PeerClose)

-----------------------------------------------------------------------------
Codes == {"none", "SUCCESS", "MISSING_COLON", "TRUNCATED_STRING",
          "MISSING_TRAILING_COMMA", "FAULT"}

\* The variables keep their types, and no call takes more than has been
\* sent.
TypeOK ==
  /\ list \in Lists /\ <<source, mode, min_length>> \in Readers
  /\ closed \in BOOLEAN
  /\ 0 <= pos /\ pos <= drawn /\ drawn <= sentTo /\ sentTo <= Len(Stream)
  /\ pc \in {"digits", "init", "more", "rest", "done"}
  /\ Len(preamble) <= PREAMBLE_MAX
  /\ h_size \in -1..NumberCap
  /\ next_p \in 0..PREAMBLE_MAX
  /\ retval \in Codes
  /\ (pc = "done") <=> (retval # "none")

\* How far the reads go that look for the length: the bytes without which a
\* mode that does not count them works on what was in memory.
ColonAt == CHOOSE k \in DOMAIN Message :
             Message[k] = Colon /\ StartsWithDigits(Message, k - 1)
FirstBytes ==
  IF mode = "min_size"
  THEN IF ColonAt <= InitReadSize THEN InitReadSize ELSE PREAMBLE_MAX
  ELSE IF Scanning THEN 1 ELSE 0

CutInPreamble == closed /\ sentTo < FirstBytes

\* The bytes behind the colon that come with the preamble in the MIN_SIZE mode,
\* and whether copying them as a C string loses some: a string that ends
\* between the colon and the last of them.
Residual == SubSeq(Message, ColonAt + 1, FirstBytes)

CutByStrncpy == mode = "min_size" /\ strncpy(Residual) # Residual

\* A read that reports success has rebuilt the strings the peer encoded,
\* however the bytes arrived (netstring_read, netstring_fread and
\* build_strings_array), but for two cases in which netstring.h:135-139 ("Reads
\* a netstring", "Returns a non-zero on an error") is not what the code does:
\* strncpy loses some of the residual bytes (netstring.c:348), for which see
\* ReadsTheNetstring; or the stream ends within the bytes that are read for the
\* length (:323), for which see CutIsAnError.
SuccessMeansSent ==
  retval = "SUCCESS" => Strings = list \/ CutByStrncpy \/ CutInPreamble

\* netstring.h:135-139 without the first exception: the structure has the
\* strings of the netstring, or the call "Returns a non-zero on an error".
ReadsTheNetstring == retval = "SUCCESS" => Strings = list \/ CutInPreamble

\* A netstring of which a part is missing is an error, but for one case: the
\* stream ends within the bytes that are read for the length (netstring.c:323
\* and :336 do not look at how many have come), and what memory held there is
\* the rest of a whole netstring, up to the comma, so that nothing is left to be
\* read.  netstring.h:139 promises a non-zero there too.
CutIsAnError ==
  retval = "SUCCESS" /\ sentTo < Len(Message) =>
    CutInPreamble /\ h_size + 1 = next_p

\* What follows the netstring, the body of the HTTP request, is left for the
\* next reader: netstring.c:231-232, "we need to take care to ONLY read the
\* netstring".  netstring_read leaves it on the descriptor.  netstring_fread
\* leaves it in the stream, for a caller that goes on with it, and not on the
\* descriptor, where a program that is executed looks for it: stdio takes what
\* it has room for, against :271-272, "WITHOUT fear of over consuming file
\* data".  No more is taken, and after a success nothing less unless the
\* netstring was cut.
OnlyTheNetstring ==
  LET taken == IF source = "stream" THEN pos ELSE drawn
  IN  /\ taken <= Len(Message)
      /\ retval = "SUCCESS" /\ sentTo >= Len(Message) => taken = Len(Message)

\* Every call returns, with success or with an error code, but for one whose
\* peer has closed in the middle of the length: read_int does not look at what
\* read() returns and takes the same character for ever.
EventuallyReturns ==
  <>(pc = "done" \/ (pc = "digits" /\ closed /\ pos = sentTo))
=============================================================================
