-------------------------- MODULE MCNetstringRead ---------------------------
(***************************************************************************)
(* Messages and memory for TLC: a length of one digit, two or three, so    *)
(* that the colon is found in the first read and in the second, or is      *)
(* missing from both, with and without bytes of the strings behind it, and *)
(* with and without a string that ends among these.                        *)
(***************************************************************************)
EXTENDS NetstringRead

MCHttpBody == <<"x", "y">>

Letters(n) == [i \in 1..n |-> "a"]

\* "0:,", "1:", "2:", "4:", "12:", "102:" and "103:"
MCLists ==
  {<<>>, <<<<>>>>, <<<<"a">>>>, <<<<"a">>, <<"b">>>>, <<Letters(10), <<>>>>,
   <<Letters(101)>>, <<Letters(1), Letters(100)>>}

MCMiddle == (20..100) \cup (111..1000)

\* The lists whose strings the MIN_SIZE mode does not return.
CutLists == {<<Letters(1), Letters(100)>>}

\* Every mode on a file and on a stream; on a pipe the one that does not rely
\* on the first read being complete.
MCReaders ==
  ({"regular", "stream"} \X {"brute", "min_size", "preamble"} \X {0})
    \cup {<<"regular", "min_size", 11>>, <<"stream", "min_size", 5>>,
          <<"pipe", "brute", 0>>}

\* netstring_read as it is used on a file, without any option.
DefaultReader == {<<"regular", "min_size", 0>>}

\* Bytes nobody wrote: a digit, the colon and the comma everywhere, and what an
\* earlier call may have left, a short netstring behind its first byte.
MCGarbage == {<<"9">>, <<":">>, <<",">>, <<"?", ":", "a", "b", ",">>}

\* What fscanf may find in h_size.
MCStaleSizes == {-1, 0, NumberCap}
=============================================================================
