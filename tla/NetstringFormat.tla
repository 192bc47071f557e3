-------------------------- MODULE NetstringFormat ---------------------------
(***************************************************************************)
(* The wire format that netstring/netstring.c writes and reads: a list of  *)
(* strings as <length> ":" <strings, each ended by NUL> "," where the      *)
(* length is in decimal.  Characters are one-character strings.            *)
(***************************************************************************)
EXTENDS Integers, Sequences, SequencesExt

NUL   == "NUL"
Colon == ":"
Comma == ","

\* Powers of ten: the decimal form fits the eleven characters the code
\* reserves for it, with ":" and the NUL of sprintf, up to nine digits.
PowersOf10 == <<10, 100, 1000, 10000, 100000, 1000000, 10000000, 100000000,
                1000000000>>
Unrepresentable == 1000000000

Numerals == <<"0", "1", "2", "3", "4", "5", "6", "7", "8", "9">>

\* The number of decimal digits of n \in 0..(Unrepresentable - 1).
DigitCount(n) ==
  CHOOSE k \in 1..9 :
    n < PowersOf10[k] /\ (k > 1 => n >= PowersOf10[k - 1])

\* The characters sprintf("%zu") prints.
Decimal(n) ==
  LET k == DigitCount(n)
  IN  [i \in 1..k |->
         Numerals[((n \div (PowersOf10[k + 1 - i] \div 10)) % 10) + 1]]

\* The strings of the list one after the other, each with its NUL.
Body(list) == FlattenSeq([i \in DOMAIN list |-> Append(list[i], NUL)])

Encode(list) ==
  Decimal(Len(Body(list))) \o <<Colon>> \o Body(list) \o <<Comma>>
=============================================================================
