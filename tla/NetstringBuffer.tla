-------------------------- MODULE NetstringBuffer ---------------------------
(***************************************************************************)
(* The NETSTRING structure of netstring/netstring.c, which netstring_start *)
(* allocates, and netstring_append, _end, _resume, _restart, _write and    *)
(* _read, which move pointers over one block of memory.                    *)
(*                                                                         *)
(* A pointer into the block is its offset from the start of the block.     *)
(* The offset asize is the first byte that does not belong to the block.   *)
(* A step that goes through a null or a wild pointer ends the program.     *)
(***************************************************************************)
EXTENDS Integers, Sequences, NetstringFormat

CONSTANTS
  Chars,     \* the characters a string is made of, without NUL
  Strings,   \* the strings a caller appends
  Lengths,   \* the explicit lengths it passes; 0 is "compute it"
  StrSize,   \* str_size of netstring_start
  Count,     \* count of netstring_start
  Reserve,   \* how many bytes and strings the caller keeps free
  Incoming,  \* the lists of strings it receives with netstring_read
  Uses       \* which of AllUses the caller makes

\* Mutants: no room for the preamble, none for the epilogue.
NoPreamble == 0
NoEpilogue == 0

PREAMBLE_MAX == 11
EPILOGUE_MAX == 1

ASSUME StringsAssumption == Strings \subseteq Seq(Chars) /\ NUL \notin Chars
ASSUME LengthsAssumption == Lengths \subseteq Nat
ASSUME SizeAssumption ==
  /\ StrSize \in Nat \ {0} /\ StrSize < Unrepresentable
  /\ Count \in Nat \ {0}
  /\ Reserve \in Nat
ASSUME IncomingAssumption == Incoming \subseteq Seq(Seq(Chars)) \ {<<>>}

\* "resume open" is a resume of a structure that was not ended, such as one that
\* was read; "implicit resume" an append to an ended structure, "late read" a
\* read into one, and "end again" another netstring_end.
AllUses == {"resume", "resume open", "implicit resume", "read", "late read",
            "end again"}
ASSUME UsesAssumption == Uses \subseteq AllUses

VARIABLES
  buffer,          \* the bytes of the block, and the one after it
  strings,         \* strings[i]: a pointer, i <= strings_asize
  strings_count,
  strings_length,
  netstring,       \* NULL until netstring_end
  netstring_size,
  overrun,         \* a byte outside the block has been written
  status,          \* "running", "aborted" by an assert, or "crashed"
  sent,            \* the bytes written since the strings last changed
  promised         \* the caller has not resumed this message, nor read it into
                   \* an ended structure

vars == <<buffer, strings, strings_count, strings_length, netstring,
          netstring_size, overrun, status, sent, promised>>

NULL == -1         \* the null pointer
Wild == -2         \* a pointer to no object: unset, or NULL + n

\* Mutant: the preamble is left out of the size of the block.
PreambleForgotten == StrSize + EPILOGUE_MAX

buffer_asize == PREAMBLE_MAX + StrSize + EPILOGUE_MAX
First == PREAMBLE_MAX               \* where the strings start
Pointers == {NULL, Wild} \cup 0..buffer_asize

-----------------------------------------------------------------------------
\* The block after seq is stored at offset at; what is outside it is lost.
Poke(mem, at, seq) ==
  [i \in DOMAIN mem |->
     IF i \in at..(at + Len(seq) - 1) THEN seq[i - at + 1] ELSE mem[i]]

Outside(at, n) == at < 0 \/ at + n > buffer_asize

\* The bytes from offset at, n of them.
Peek(mem, at, n) == [i \in 1..n |-> mem[at + i - 1]]

\* What strncpy(temp, str, len) stores: len bytes, padded with NUL.
Copied(str, len) ==
  [i \in 1..len |-> IF i <= Len(str) THEN str[i] ELSE NUL]

EffectiveLength(str, len) == IF len = 0 THEN Len(str) ELSE len

\* netstring_start: malloc leaves the memory undetermined, "?" here.
Init ==
  /\ buffer = [i \in 0..buffer_asize |-> "?"]
  /\ strings = [i \in 0..Count |-> IF i = 0 THEN First ELSE Wild]
  /\ strings_count = 0
  /\ strings_length = 0
  /\ netstring = NULL
  /\ netstring_size = 0
  /\ overrun = FALSE
  /\ status = "running"
  /\ sent = <<>>
  /\ promised = TRUE

\* Mutant: the length of the old strings stays.
RestartKeepsLength ==
  /\ status = "running"
  /\ netstring' = NULL
  /\ netstring_size' = 0
  /\ strings' = [strings EXCEPT ![0] = First]
  /\ strings_count' = 0
  /\ sent' = <<>>
  /\ promised' = TRUE
  /\ UNCHANGED <<buffer, strings_length, overrun, status>>

netstring_restart ==
  /\ status = "running"
  /\ netstring' = NULL
  /\ netstring_size' = 0
  /\ strings' = [strings EXCEPT ![0] = First]
  /\ strings_count' = 0
  /\ strings_length' = 0
  /\ sent' = <<>>
  /\ promised' = TRUE
  /\ UNCHANGED <<buffer, overrun, status>>

\* The caller keeps to the size it gave to netstring_start.
Fits(n) ==
  /\ strings_length + n + 1 <= StrSize - Reserve
  /\ strings_count + 1 <= Count - Reserve

\* Mutant: the NUL is stored and not counted.
AppendUncounted(str, len) ==
  LET n    == EffectiveLength(str, len)
      temp == strings[strings_count]
  IN /\ status = "running"
     /\ temp \notin {NULL, Wild}
     /\ Fits(n)
     /\ buffer' = Poke(buffer, temp, Append(Copied(str, n), NUL))
     /\ strings' = [strings EXCEPT ![strings_count + 1] = temp + n + 1]
     /\ strings_count' = strings_count + 1
     /\ strings_length' = strings_length + n
     /\ sent' = <<>>
     /\ UNCHANGED <<overrun, status, netstring, netstring_size, promised>>

\* On an open structure.  The two asserts come after the stores, and the
\* second one compares the new count.
netstring_append(str, len) ==
  LET n     == EffectiveLength(str, len)
      temp  == strings[strings_count]
      count == strings_count + 1
  IN /\ status = "running"
     /\ temp \notin {NULL, Wild}
     /\ Fits(n)
     /\ buffer' = Poke(buffer, temp, Append(Copied(str, n), NUL))
     /\ overrun' = (overrun \/ Outside(temp, n + 1))
     /\ strings' = [strings EXCEPT ![count] = temp + n + 1]
     /\ strings_count' = count
     /\ strings_length' = strings_length + n + 1
     /\ status' = IF temp + n + 1 < buffer_asize /\ count < Count
                  THEN "running" ELSE "aborted"
     /\ sent' = <<>>
     /\ UNCHANGED <<netstring, netstring_size, promised>>

\* netstring_append after netstring_end: it resumes the structure, and then
\* stores through the null pointer it had read before.
AppendAfterEnd(str, len) ==
  /\ "implicit resume" \in Uses
  /\ status = "running"
  /\ strings[strings_count] = NULL
  /\ Fits(EffectiveLength(str, len))
  /\ status' = "crashed"
  /\ UNCHANGED <<buffer, strings, strings_count, strings_length, netstring,
                 netstring_size, overrun, sent, promised>>

\* Mutant: the length in the preamble is that of the strings and the comma.
PreambleOfAll == Append(Decimal(strings_length + 1), Colon)

\* What netstring_end makes of an open structure.
Preamble == Append(Decimal(strings_length), Colon)

EndEffect ==
  LET start == strings[0] - Len(Preamble)
      temp  == strings[strings_count]
  IN /\ buffer' = Poke(Poke(buffer, start, Preamble), temp, <<Comma, NUL>>)
     /\ overrun' = (overrun \/ Outside(start, Len(Preamble))
                            \/ Outside(temp, 2))
     /\ strings' = [strings EXCEPT ![strings_count] = NULL]
     /\ netstring' = start
     /\ netstring_size' = Len(Preamble) + strings_length + 1

\* After a resume of an empty structure, append, end, write and read alike
\* store through the pointer NULL + 1.
ThroughWildPointer ==
  /\ status = "running"
  /\ strings[strings_count] = Wild
  /\ status' = "crashed"
  /\ UNCHANGED <<buffer, strings, strings_count, strings_length, netstring,
                 netstring_size, overrun, sent, promised>>

\* On an open structure.
netstring_end ==
  /\ status = "running"
  /\ strings[strings_count] \notin {NULL, Wild}
  /\ EndEffect
  /\ UNCHANGED <<strings_count, strings_length, status, sent, promised>>

\* On a structure that is ended: the preamble is stored once more, and then the
\* comma through the null pointer that the first call left.
EndAgain ==
  /\ "end again" \in Uses
  /\ status = "running"
  /\ strings[strings_count] = NULL
  /\ status' = "crashed"
  /\ UNCHANGED <<buffer, strings, strings_count, strings_length, netstring,
                 netstring_size, overrun, sent, promised>>

\* Mutant: the next string starts on the NUL of the last one.
ResumeOnNul ==
  /\ "resume" \in Uses
  /\ status = "running"
  /\ netstring # NULL \/ ("resume open" \in Uses /\ strings_count > 0)
  /\ strings' = [strings EXCEPT
       ![strings_count] = IF strings[0] = NULL THEN Wild
                          ELSE strings[0] + strings_length - 1]
  /\ netstring' = NULL
  /\ netstring_size' = 0
  /\ promised' = FALSE
  /\ UNCHANGED <<buffer, strings_count, strings_length, overrun, status, sent>>

\* On a structure that was ended (netstring.h:39-56) or read into (:61-69).
\* The next string goes one past the comma, not on it.
netstring_resume ==
  /\ "resume" \in Uses
  /\ status = "running"
  /\ netstring # NULL \/ ("resume open" \in Uses /\ strings_count > 0)
  /\ strings' = [strings EXCEPT
       ![strings_count] = IF strings[0] = NULL THEN Wild
                          ELSE strings[0] + strings_length + 1]
  /\ netstring' = NULL
  /\ netstring_size' = 0
  /\ promised' = FALSE
  /\ UNCHANGED <<buffer, strings_count, strings_length, overrun, status, sent>>

\* netstring_fwrite does the same.  Both end an open structure first.
netstring_write ==
  /\ status = "running"
  /\ \/ /\ netstring # NULL
        /\ UNCHANGED <<buffer, overrun, strings, netstring, netstring_size>>
     \/ /\ netstring = NULL
        /\ strings[strings_count] \notin {NULL, Wild}
        /\ EndEffect
  /\ sent' = Peek(buffer', netstring', netstring_size')
  /\ UNCHANGED <<strings_count, strings_length, status, promised>>

\* Where string i of a received list ends.
Ends(list, i) == Len(Body(SubSeq(list, 1, i)))

\* The sender keeps to the size too.
FitsReceived(list) ==
  /\ Len(list) <= Count - Reserve
  /\ \A i \in 1..Len(list) : Ends(list, i) \in 0..(StrSize - Reserve)

\* netstring_read and netstring_fread that succeed.  They set all but the
\* fields netstring and netstring_size: what was ended before stays so.
netstring_read(list) ==
  /\ "read" \in Uses
  /\ status = "running"
  /\ netstring = NULL \/ "late read" \in Uses
  /\ strings[0] \notin {NULL, Wild}
  /\ FitsReceived(list)
  /\ buffer' = Poke(buffer, strings[0], Append(Body(list), Comma))
  /\ strings' = [i \in DOMAIN strings |->
                   IF i \in 1..Len(list) THEN strings[0] + Ends(list, i)
                   ELSE strings[i]]
  /\ strings_count' = Len(list)
  /\ strings_length' = Ends(list, Len(list))
  /\ overrun' = (overrun \/ Outside(strings[0], Ends(list, Len(list)) + 1))
  /\ promised' = (netstring = NULL)
  /\ sent' = <<>>
  /\ UNCHANGED <<netstring, netstring_size, status>>

\* netstring_read into a structure that was ended when it was empty.
ReadAfterEmptyEnd ==
  /\ {"read", "late read"} \subseteq Uses
  /\ status = "running"
  /\ strings[0] = NULL
  /\ status' = "crashed"
  /\ UNCHANGED <<buffer, strings, strings_count, strings_length, netstring,
                 netstring_size, overrun, sent, promised>>

Next ==
  \/ \E str \in Strings, len \in Lengths :
       netstring_append(str, len) \/ AppendAfterEnd(str, len)
  \/ netstring_restart \/ netstring_end \/ EndAgain \/ netstring_resume
  \/ netstring_write
  \/ (\E list \in Incoming : netstring_read(list)) \/ ReadAfterEmptyEnd
  \/ ThroughWildPointer

Spec == Init /\ [][Next]_vars

-----------------------------------------------------------------------------
\* The types of the fields of NETSTRING.
TypeOK ==
  /\ DOMAIN buffer = 0..buffer_asize
  /\ strings \in [0..Count -> Pointers]
  /\ strings_count \in 0..Count
  /\ strings_length \in Nat
  /\ netstring \in {NULL} \cup 0..buffer_asize
  /\ netstring_size \in Nat
  /\ overrun \in BOOLEAN
  /\ status \in {"running", "aborted", "crashed"}
  /\ promised \in BOOLEAN

\* The strings as a reader of the structure finds them: string i starts at
\* strings[i] and its NUL is right before the next one.
EndOfString(i) ==
  IF i + 1 < strings_count THEN strings[i + 1] ELSE strings[0] + strings_length

StringAt(i) == Peek(buffer, strings[i], EndOfString(i) - strings[i] - 1)

Contents == [i \in 1..strings_count |-> StringAt(i - 1)]

\* String i as C reads it: up to the first NUL.
StringAsC(i) ==
  LET stop == CHOOSE n \in strings[i]..buffer_asize :
                /\ buffer[n] = NUL
                /\ \A m \in strings[i]..(n - 1) : buffer[m] # NUL
  IN  Peek(buffer, strings[i], stop - strings[i])

CStrings == [i \in 1..strings_count |-> StringAsC(i - 1)]

\* What C sees of a string appended with the length n.
Visible(str, n) == IF n < Len(str) THEN SubSeq(str, 1, n) ELSE str

\* Whatever is ended, resumed or written, the strings array keeps every
\* string it has, in order, and grows by one at its end, or is that of a list
\* that was received: netstring_end and netstring_resume may not store over a
\* string.
StringsSurvive ==
  [][\/ CStrings' = <<>>
     \/ CStrings' = CStrings
     \/ CStrings' \in Incoming
     \/ \E s \in Strings, n \in Lengths :
          CStrings' = Append(CStrings, Visible(s, EffectiveLength(s, n)))]_vars

\* A caller that leaves one byte and one string of what it allocated free, two
\* bytes if it resumes, never makes the library store outside the block
\* (netstring_append, netstring_read, and the "," and NUL of netstring_end).
InBlock == ~overrun

\* Nor does it run into an assert, in any order of calls; and into a null
\* pointer only by appending to, ending or reading into a structure that is
\* ended, or after it has resumed an empty one.
NeverStops ==
  /\ status # "aborted"
  /\ status = "crashed" =>
       netstring # NULL \/ (~promised /\ strings_count = 0)

\* Where the next string goes, by how the structure was used: not what
\* netstring.h promises of it (that is Layout), but what the stores of any order
\* of calls depend on.  Inductive, with TypeOK.
NextString ==
  /\ strings_count = 0 =>
       /\ strings_length = 0 /\ strings[0] \in {First, NULL, Wild}
       /\ netstring # NULL => strings[0] = NULL
  /\ strings_count > 0 =>
       /\ strings_length <= StrSize - Reserve
       /\ strings_count <= Count - Reserve
       /\ strings[0] = First
       /\ strings[strings_count] # Wild
  /\ strings[strings_count] \in
       {NULL, Wild, First + strings_length, First + strings_length + 1}
  /\ strings[strings_count] = NULL => netstring # NULL
  /\ promised \/ "resume" \notin Uses =>
       strings[strings_count] \in {NULL, First + strings_length}
  /\ promised => (netstring # NULL <=> strings[strings_count] = NULL)

\* The strings lie one behind the other, and the range that netstring_write
\* sends is theirs.
Contiguous ==
  /\ \A i \in 0..(strings_count - 1) : strings[i] = First + Ends(CStrings, i)
  /\ strings_length = Ends(CStrings, strings_count)

Bounded ==
  /\ netstring + Len(Preamble) = First
  /\ netstring_size = Len(Preamble) + strings_length + 1
  /\ buffer[First + strings_length] = Comma

\* netstring.h:39-71 lists orders of operations that end with a write of the
\* strings, netstring_resume "effectively undoes" netstring_end (:122-123) and
\* netstring_read "updates the NETSTRING data structure" (:137-138).  What is
\* sent is the encoding of the strings exactly if they are contiguous and the
\* range is theirs: it is not if a string was padded to its length, nor, against
\* these lines, if one was appended after a resume, which leaves the comma in
\* the message and counts one byte too few (netstring.c:148), or if the
\* structure had been ended before it was read into (:366).
SendsItsStrings ==
  [][netstring_write =>
       (sent' = Encode(CStrings') <=> Contiguous' /\ Bounded')]_vars

\* While the structure is open the next string goes right behind the last,
\* and when it is ended the pointers of netstring.h:8-36 describe one
\* message that ends with the comma, unless the caller has resumed it or read
\* it into an ended structure.
Layout ==
  status = "running" /\ promised =>
    /\ netstring = NULL =>
         /\ strings[0] = First
         /\ strings[strings_count] = First + strings_length
         /\ netstring_size = 0
    /\ netstring # NULL =>
         /\ strings[strings_count] = NULL
         /\ netstring + Len(Preamble) = First
         /\ netstring_size = Len(Preamble) + strings_length + 1
         /\ buffer[First + strings_length] = Comma
    /\ strings_count > 0 => strings[0] = First
    /\ \A i \in 0..(strings_count - 1) :
         /\ strings[i] \in First..(EndOfString(i) - 1)
         /\ EndOfString(i) <= First + strings_length
         /\ buffer[EndOfString(i) - 1] = NUL
=============================================================================
