----------------------------- MODULE MCUnescape -----------------------------
(* Model-checking instance of Unescape: the literal contents checked.      *)
EXTENDS Unescape

\* Every escape kind but \u, line continuations and bare control characters.
EscapeSources ==
  Literals({"\\", "n", "x", "u", "7", "F", "z", "\"", "\n", " ", "\r", "\f"}, 5)

\* `\u{` followed by every digit run over 0, 1, D with underscores and braces:
\* reaches 0xDD00 (a surrogate), 0x110000 (out of range) and seven digits.
UnicodeSources ==
  { <<"\\", "u", "{">> \o d : d \in BoundedSeq({"0", "1", "D", "_", "}"}, 8) }
\* Both sets of literals.
MCSources == EscapeSources \cup UnicodeSources
=============================================================================
