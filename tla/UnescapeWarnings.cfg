\* A literal whose line continuation skips a blank line.
CONSTANTS
  Sources <- EscapeSources
SPECIFICATION Spec
INVARIANT
  WarningsKeepLiteral
CHECK_DEADLOCK FALSE
