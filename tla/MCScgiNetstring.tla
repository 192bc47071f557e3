-------------------------- MODULE MCScgiNetstring ---------------------------
(***************************************************************************)
(* Headers for TLC: every sequence of up to six tokens, that is of up to   *)
(* three pairs, complete or not, with names doubled, missing and misplaced.*)
(* The value that sums to '1' and is not "1" stands for '0' and a byte of 1.*)
(***************************************************************************)
EXTENDS ScgiNetstring

Tokens ==
  {CONTENT_LENGTH, SCGI_NAME, SCGI_VALUE, EmptyString, "0^A"}

MCHeaders == UNION {[1..k -> Tokens] : k \in 0..6}
=============================================================================
