------------------------- MODULE MCRemoveComments --------------------------
(* Model-checking instance of RemoveComments: the alphabets of the runs.  *)
EXTENDS RemoveComments

\* Code text without backslashes: comments, both quotes, newlines.
CodeAlphabet == {Slash, Star, NL, "\"", "'", "a"}

\* Text that exercises escapes in string literals, without block comments.
EscapeAlphabet == {Slash, "\"", "\\", "a"}
=============================================================================
