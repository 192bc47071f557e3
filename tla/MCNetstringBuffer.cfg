SPECIFICATION Spec
CONSTANTS
  Chars <- MCChars
  Strings <- MCStrings
  Lengths <- MCLengths
  StrSize = 12
  Count = 4
  Reserve = 2
  Incoming <- MCIncoming
  Uses <- AllUses
INVARIANTS
  TypeOK
  
  Layout
  
PROPERTIES
  StringsSurvive
  SendsItsStrings
  ImplementsStringList
CHECK_DEADLOCK FALSE
