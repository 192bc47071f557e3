------------------------ MODULE MCNetstringUtility -------------------------
(***************************************************************************)
(* Texts, commands and shells for TLC: every text is encoded and decoded   *)
(* with each choice of limits, of read modes, and of ways to name files.   *)
(***************************************************************************)
EXTENDS NetstringUtility

A == "a"         \* one byte
B == "bcdefg"    \* six

MCSize == [t \in {A, B, EmptyString, CONTENT_LENGTH, SCGI_NAME, SCGI_VALUE} |->
             CASE t = EmptyString -> 0
               [] t = CONTENT_LENGTH -> 14
               [] t = SCGI_NAME -> 4
               [] t = B -> 6
               [] OTHER -> 1]

Lines(list) == [i \in DOMAIN list |-> <<list[i]>>]

Header == <<CONTENT_LENGTH, A, SCGI_NAME, SCGI_VALUE>>

\* Strings that just fit the limits, of 34 bytes or two or thirteen, and that
\* do not; with one end among the bytes of the first read; and a header.
Lists ==
  {<<>>, <<A>>, <<B>>, <<A, B>>, <<EmptyString, B>>, Header,
   [i \in 1..5 |-> B], [i \in 1..12 |-> IF i = 1 THEN B ELSE A],
   [i \in 1..12 |-> EmptyString], <<B, B, B, B, A, A, A>>}

MCDisks ==
  {[name \in {"text", "encoded", "decoded", "none", "screen"} |->
      IF name = "none" THEN File("missing", <<>>)
      ELSE IF name = "text" THEN File("text", Lines(list)) ELSE Empty]
     : list \in Lists}

Opt(opt, arg) == [opt |-> opt, arg |-> arg]
E == Opt("encode", NULL)
D == Opt("decode", NULL)

Command(env, args, files, stdin, piped, stdout) ==
  [env |-> env, args |-> args, files |-> files, stdin |-> stdin,
   piped |-> piped, stdout |-> stdout]

NoEnv == [v \in {} |-> 0]
Env(v, n) == [w \in {v} |-> n]

Encoders ==
  {Command(NoEnv, <<>>, <<>>, "text", FALSE, "encoded"),
   Command(NoEnv, <<E>>, <<"text", "encoded">>, "screen", FALSE, "screen"),
   Command(NoEnv, <<D, E>>, <<"text">>, "screen", FALSE, "encoded"),
   Command(Env("max_length", 7), <<E>>, <<>>, "text", TRUE, "encoded"),
   Command(Env("max_length", 7), <<Opt("max_length", 24)>>, <<>>, "text",
           TRUE, "encoded"),
   Command(Env("use_scgi", 1), <<E>>, <<"text">>, "screen", FALSE, "encoded"),
   Command(NoEnv, <<Opt("max_strings", 2), E>>, <<>>, "text", FALSE, "encoded"),
   Command(NoEnv, <<Opt("max_length", MAX_LENGTH_DEFAULT), E>>, <<>>, "text",
           FALSE, "encoded"),
   Command(NoEnv, <<E>>, <<"text", "text">>, "screen", FALSE, "encoded"),
   Command(NoEnv, <<E>>, <<"none", "encoded">>, "screen", FALSE, "screen"),
   Command(NoEnv, <<E>>, <<"text", "nowhere">>, "screen", FALSE, "screen"),
   Command(Env("max_strings", 0), <<E>>, <<>>, "text", FALSE, "encoded")}

DecoderOptions ==
  {<<D>>, <<E, D>>, <<D, Opt("scgi", NULL)>>, <<D, Opt("timing", 1)>>,
   <<D, Opt("min_length", 5)>>, <<D, Opt("min_length", 0)>>,
   <<Opt("min_length", 11), Opt("max_length", 7), D>>,
   <<Opt("timing", NULL), D, Opt("timing", 0)>>,
   <<Opt("timing", NULL), Opt("use_streams", NULL), D>>,
   <<D, Opt("max_length", 7)>>, <<D, Opt("max_strings", 2)>>,
   <<D, Opt("max_length", 36)>>, <<D, Opt("verbose", NULL)>>,
   <<D, Opt("use_streams", NULL), Opt("use_files", NULL), Opt("scgi", NULL)>>}

DecoderEnvs ==
  {NoEnv, Env("use_scgi", 1), Env("brute", 1), Env("preamble", 1),
   [v \in {"use_streams", "preamble"} |-> 1],
   [v \in {"brute", "preamble", "min_length"} |-> 9]}

\* Redirected, piped, named, the same name twice, and too many.
Shells ==
  {[files |-> <<>>, stdin |-> "encoded", piped |-> FALSE, stdout |-> "decoded"],
   [files |-> <<>>, stdin |-> "encoded", piped |-> TRUE, stdout |-> "decoded"],
   [files |-> <<"encoded", "decoded">>, stdin |-> "screen", piped |-> TRUE,
    stdout |-> "screen"],
   [files |-> <<"encoded", "encoded">>, stdin |-> "screen", piped |-> FALSE,
    stdout |-> "screen"],
   [files |-> <<"encoded", "decoded", "screen">>, stdin |-> "screen",
    piped |-> FALSE, stdout |-> "screen"]}

Decoders ==
  {Command(env, args, shell.files, shell.stdin, shell.piped, shell.stdout) :
     env \in DecoderEnvs, args \in DecoderOptions, shell \in Shells}

MCJobs == {<<e, d>> : e \in Encoders, d \in Decoders}
=============================================================================
