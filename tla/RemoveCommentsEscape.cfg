\* A string literal holding an escaped quote followed by "//".
CONSTANTS
  Alphabet <- EscapeAlphabet
  MaxLen = 6
  NoChar = NoChar
SPECIFICATION Spec
INVARIANT StripsCommentsExactly
CHECK_DEADLOCK FALSE
