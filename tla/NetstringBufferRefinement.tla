---------------------- MODULE NetstringBufferRefinement ---------------------
(***************************************************************************)
(* The pointers and bytes of NetstringBuffer implement the list of strings *)
(* of StringList.                                                          *)
(***************************************************************************)
EXTENDS NetstringBuffer

\* What a call of netstring_append with a string and a length appends.
Appended == {Copied(s, EffectiveLength(s, n)) : s \in Strings, n \in Lengths}

Abstract ==
  INSTANCE StringList WITH Texts <- Appended, Received <- Incoming,
                           list <- Contents

\* netstring.h:39-71, 117-124: whatever was ended, restarted, received or
\* written before, a write puts all strings received and appended so far, in
\* order and nothing else, on the wire in the netstring format.  The code keeps
\* this promise in every step that leads to a message that was not resumed, nor
\* read into a structure that was ended; for those see SendsItsStrings.
ImplementsStringList ==
  /\ Abstract!ListInit
  /\ [][promised' => Abstract!ListNext]_<<Contents, sent>>
=============================================================================
