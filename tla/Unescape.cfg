\* Escapes, continuations and control characters in contents up to 5
\* characters, and `\u{` followed by up to 8 digit, underscore or brace
\* characters.
CONSTANTS
  Sources <- MCSources
SPECIFICATION Spec
INVARIANTS
  UnescapesValidLiterals
  MarksInvalidLiterals
CHECK_DEADLOCK FALSE
