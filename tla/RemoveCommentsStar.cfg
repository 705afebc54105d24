\* A block comment whose body ends in '*': "/** doc **/".
CONSTANTS
  Alphabet <- CodeAlphabet
  MaxLen = 6
  NoChar = NoChar
SPECIFICATION Spec
INVARIANT BlockCommentEndsAtFirstTerminator
CHECK_DEADLOCK FALSE
