--------------------------- MODULE MCCommandLine ----------------------------
(***************************************************************************)
(* Command lines of up to two arguments for TLC, and of three that name a  *)
(* configuration file first; environments and configuration files that     *)
(* set none, one or two of the variables.                                  *)
(*                                                                         *)
(* The texts: 0 is a number, or a name of nothing; 1 names a regular file, *)
(* an address and a user; 16 names a directory.                            *)
(***************************************************************************)
EXTENDS CommandLine

MCFileKind ==
  [t \in {0, 1, 16} |-> CASE t = 0 -> "missing" [] t = 1 -> "regular"
                          [] t = 16 -> "directory"]

Token(opt, form, arg) == [opt |-> opt, form |-> form, arg |-> arg]

\* As in Scanopt.
Word    == 0
Unknown == -1

Conf == Token(o_CONF, "long", 1)

Tokens ==
  {Conf, Token(o_CONF, "long", 0), Token(o_CONF, "long", 16),
   Token(o_BIND, "long", 1), Token(o_BIND, "short", NULL),
   Token(o_FILTER, "long", 1), Token(o_FILTER, "long", 16),
   Token(o_FOREGROUND, "short", NULL), Token(o_DAEMON, "long", NULL),
   Token(o_HELP, "long", NULL), Token(o_UDS, "long", NULL),
   Token(o_PORT, "long", 0), Token(o_PORT, "short", 1),
   Token(o_SOCKET, "long", NULL), Token(o_USER, "long", 0),
   Token(o_VERBOSE, "long", NULL), Token(o_VERSION, "short", NULL),
   Token(o_WORKERS, "long", 16), Token(Unknown, "long", NULL),
   Token(Word, "word", 1)}

MCCommandLines ==
  UNION {[1..k -> Tokens] : k \in 0..2}
    \cup {<<Conf>> \o h : h \in [1..2 -> Tokens]}

Unset == [i \in DOMAIN option_list |-> NULL]

MCEnvironments ==
  {Unset, [Unset EXCEPT ![o_PORT] = 16],
   [Unset EXCEPT ![o_SOCKET] = 1, ![o_WORKERS] = 1],
   [Unset EXCEPT ![o_FOREGROUND] = 0, ![e_SCGI_DIR] = 16, ![o_BIND] = 1]}

MCConfigs ==
  {[lines |-> Unset, newline |-> FALSE], [lines |-> Unset, newline |-> TRUE],
   [lines |-> [Unset EXCEPT ![o_PORT] = 1], newline |-> TRUE],
   [lines |-> [Unset EXCEPT ![o_SOCKET] = 1, ![o_USER] = 1], newline |-> TRUE]}
=============================================================================
