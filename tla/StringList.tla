----------------------------- MODULE StringList -----------------------------
(***************************************************************************)
(* What netstring.h promises, without memory: a list of strings that grows *)
(* at its end, may be emptied or replaced by one that is received, and is  *)
(* sent in the netstring format, all of it, each time it is written.       *)
(***************************************************************************)
EXTENDS Sequences, NetstringFormat

CONSTANTS Texts,      \* the strings that may be appended
          Received    \* the lists that may be received

VARIABLES list,       \* the strings of the message
          sent        \* what was written since the list last changed

ListInit == list = <<>> /\ sent = <<>>

Add == \E t \in Texts : list' = Append(list, t) /\ sent' = <<>>

Clear == list' = <<>> /\ sent' = <<>>

Receive == list' \in Received /\ sent' = <<>>

Send == sent' = Encode(list) /\ UNCHANGED list

\* To end or to resume the message changes nothing of it.
ListNext == Clear \/ Receive \/ Add \/ Send

ListSpec == ListInit /\ [][ListNext]_<<list, sent>>
=============================================================================
