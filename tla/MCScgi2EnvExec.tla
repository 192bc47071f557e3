--------------------------- MODULE MCScgi2EnvExec ---------------------------
(***************************************************************************)
(* Headers for TLC: every sequence of up to four tokens, and of up to six, *)
(* three pairs, that begins with a CONTENT_LENGTH of 1: one pair more than *)
(* an environment of MAX_ENV_COUNT = 3 has room for.  The value that sums   *)
(* to '1' and is not "1" stands for '0' and a byte of 1.                   *)
(***************************************************************************)
EXTENDS Scgi2EnvExec

Tokens ==
  {CONTENT_LENGTH, SCGI_NAME, SCGI_VALUE, EmptyString, "0^A"}

MCHeaders ==
  UNION {[1..k -> Tokens] : k \in 0..4}
    \cup {<<CONTENT_LENGTH, SCGI_VALUE>> \o h :
             h \in UNION {[1..k -> Tokens] : k \in 3..4}}
=============================================================================
