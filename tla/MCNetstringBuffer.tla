-------------------------- MODULE MCNetstringBuffer -------------------------
(***************************************************************************)
(* An instance of the netstring builder for TLC.                           *)
(***************************************************************************)
EXTENDS NetstringBufferRefinement

MCChars == {"a", "b"}

\* A string of two characters, with its own length and padded to six, which
\* takes the total length from one decimal digit to two.
MCStrings == {<<"a", "b">>}
MCLengths == {0, 6}

\* A list of one string, and one that ends with an empty string.
MCIncoming == {<<<<"a", "b">>>>, <<<<"b">>, <<>>>>}
=============================================================================
