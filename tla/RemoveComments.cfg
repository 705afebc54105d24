\* remove_comments on every backslash-free text of up to 7 characters.
CONSTANTS
  Alphabet <- CodeAlphabet
  MaxLen = 7
  NoChar = NoChar
SPECIFICATION Spec
INVARIANTS
  StripsCommentsExactly
\* The function returns: a finished run has no successor.
CHECK_DEADLOCK FALSE
