--------------------------- MODULE RemoveComments ---------------------------
(***************************************************************************)
(* The comment stripper that main() runs on every Yul source before it is *)
(* parsed: utils::remove_comments (src/src/yul2ir/utils.rs).  It walks    *)
(* the text once, one character per iteration of its outer `while let`   *)
(* loop, with two inner loops that skip a `//` comment up to its newline  *)
(* and a `/* */` comment up to its terminator.  The flags in_string,     *)
(* string_char and in_multiline are the function's local variables; the  *)
(* variable loop records which of the three loops is running.            *)
(*                                                                         *)
(* Characters are one-character strings drawn from the constant Alphabet; *)
(* every source text of length at most MaxLen is an initial state.       *)
(***************************************************************************)
EXTENDS Naturals, Sequences, SequencesExt

CONSTANTS
  Alphabet,   \* the characters a source text is made of
  MaxLen,     \* the longest source text checked
  NoChar      \* string_char = None

Slash == "/"
Star  == "*"
NL    == "\n"
Quote == {"\"", "'"}

ASSUME Alphabet \subseteq {Slash, Star, NL, "\"", "'", "\\", "a"}
ASSUME MaxLen \in Nat

VARIABLES
  src,          \* the argument `code`, fixed for the whole run
  chars,        \* the part of `code` the iterator has not yet returned
  result,       \* the output String built so far
  in_multiline,
  in_string,
  string_char,
  loop          \* "main", "line" (skip to newline), "block" (skip to */), "done"

vars == <<src, chars, result, in_multiline, in_string, string_char, loop>>

Init ==
  /\ src \in BoundedSeq(Alphabet, MaxLen)
  /\ chars = src
  /\ result = <<>>
  /\ in_multiline = FALSE
  /\ in_string = FALSE
  /\ string_char = NoChar
  /\ loop = "main"

\* The head of the iterator, in the outer loop.
MainChar(c) == loop = "main" /\ chars # <<>> /\ Head(chars) = c

-----------------------------------------------------------------------------
(* Outer loop, arm '"' | '\''.  The `if !in_multiline` test is always    *)
(* true here: in_multiline is set only inside the block loop, which      *)
(* clears it or runs the iterator dry.                                    *)

OpenString ==
  \E c \in Quote :
    /\ MainChar(c)
    /\ string_char = NoChar
    /\ in_string' = TRUE
    /\ string_char' = c
    /\ result' = Append(result, c)
    /\ chars' = Tail(chars)
    /\ UNCHANGED <<src, in_multiline, loop>>

CloseString ==
  \E c \in Quote :
    /\ MainChar(c)
    /\ string_char = c
    /\ in_string' = FALSE
    /\ string_char' = NoChar
    /\ result' = Append(result, c)
    /\ chars' = Tail(chars)
    /\ UNCHANGED <<src, in_multiline, loop>>

\* The other quote character inside a string: pushed, no state change.
OtherQuoteInString ==
  \E c \in Quote :
    /\ MainChar(c)
    /\ string_char \notin {NoChar, c}
    /\ result' = Append(result, c)
    /\ chars' = Tail(chars)
    /\ UNCHANGED <<src, in_multiline, in_string, string_char, loop>>

(* Arm '/' if !in_string: the next character is taken from the iterator  *)
(* and decides between a line comment, a block comment and plain text.   *)

SlashAtEnd ==
  /\ MainChar(Slash) /\ ~in_string
  /\ Len(chars) = 1
  /\ result' = Append(result, Slash)
  /\ chars' = <<>>
  /\ UNCHANGED <<src, in_multiline, in_string, string_char, loop>>

LineCommentStart ==
  /\ MainChar(Slash) /\ ~in_string
  /\ Len(chars) >= 2 /\ chars[2] = Slash
  /\ chars' = Tail(Tail(chars))
  /\ loop' = "line"
  /\ UNCHANGED <<src, result, in_multiline, in_string, string_char>>

BlockCommentStart ==
  /\ MainChar(Slash) /\ ~in_string
  /\ Len(chars) >= 2 /\ chars[2] = Star
  /\ in_multiline' = TRUE
  /\ chars' = Tail(Tail(chars))
  /\ loop' = "block"
  /\ UNCHANGED <<src, result, in_string, string_char>>

SlashNotComment ==
  /\ MainChar(Slash) /\ ~in_string
  /\ Len(chars) >= 2 /\ chars[2] \notin {Slash, Star}
  /\ result' = result \o <<Slash, chars[2]>>
  /\ chars' = Tail(Tail(chars))
  /\ UNCHANGED <<src, in_multiline, in_string, string_char, loop>>

\* Arm `_ if !in_multiline`: any other character, and '/' inside a string.
PlainChar ==
  /\ loop = "main" /\ chars # <<>>
  /\ Head(chars) \notin Quote
  /\ Head(chars) = Slash => in_string
  /\ ~in_multiline
  /\ result' = Append(result, Head(chars))
  /\ chars' = Tail(chars)
  /\ UNCHANGED <<src, in_multiline, in_string, string_char, loop>>

-----------------------------------------------------------------------------
(* `for c in chars.by_ref()`: skip to the end of a `//` comment and keep *)
(* its newline.                                                           *)

LineCommentSkip ==
  /\ loop = "line" /\ chars # <<>> /\ Head(chars) # NL
  /\ chars' = Tail(chars)
  /\ UNCHANGED <<src, result, in_multiline, in_string, string_char, loop>>

\* Mutant: the newline that ends a `//` comment is not kept.
LineCommentEndDropsNewline ==
  /\ loop = "line" /\ chars # <<>> /\ Head(chars) = NL
  /\ chars' = Tail(chars)
  /\ loop' = "main"
  /\ UNCHANGED <<src, result, in_multiline, in_string, string_char>>

LineCommentEnd ==
  /\ loop = "line" /\ chars # <<>> /\ Head(chars) = NL
  /\ result' = Append(result, NL)
  /\ chars' = Tail(chars)
  /\ loop' = "main"
  /\ UNCHANGED <<src, in_multiline, in_string, string_char>>

(* `while let Some(c) = chars.next()` inside a block comment.  On '*'   *)
(* the code takes one more character to compare with '/'; that character *)
(* is consumed whether or not it is the '/'.                              *)

BlockCommentSkip ==
  /\ loop = "block" /\ chars # <<>> /\ Head(chars) # Star
  /\ chars' = Tail(chars)
  /\ UNCHANGED <<src, result, in_multiline, in_string, string_char, loop>>

BlockCommentEnd ==
  /\ loop = "block" /\ Len(chars) >= 2
  /\ chars[1] = Star /\ chars[2] = Slash
  /\ in_multiline' = FALSE
  /\ chars' = Tail(Tail(chars))
  /\ loop' = "main"
  /\ UNCHANGED <<src, result, in_string, string_char>>

BlockCommentStar ==
  /\ loop = "block" /\ chars # <<>> /\ Head(chars) = Star
  /\ Len(chars) >= 2 => chars[2] # Slash
  /\ chars' = SubSeq(chars, 3, Len(chars))
  /\ UNCHANGED <<src, result, in_multiline, in_string, string_char, loop>>

\* The iterator is exhausted in whichever loop is running: return result.
Return ==
  /\ loop \in {"main", "line", "block"} /\ chars = <<>>
  /\ loop' = "done"
  /\ UNCHANGED <<src, chars, result, in_multiline, in_string, string_char>>

Next ==
  \/ OpenString \/ CloseString \/ OtherQuoteInString
  \/ SlashAtEnd \/ LineCommentStart \/ BlockCommentStart \/ SlashNotComment
  \/ PlainChar
  \/ LineCommentSkip \/ LineCommentEnd
  \/ BlockCommentSkip \/ BlockCommentEnd \/ BlockCommentStar
  \/ Return

Spec == Init /\ [][Next]_vars

-----------------------------------------------------------------------------
(***************************************************************************)
(* Reference: what the function's comment says it does, written as a     *)
(* lexer over the states "code", "line", "block" and an open quote.  A    *)
(* `//` comment becomes its newline, a `/* */` comment ends at the first  *)
(* "*/" after its opener, and inside a string a backslash escapes the     *)
(* next character, as in Yul string literals.                             *)
(***************************************************************************)
RECURSIVE Lex(_, _)
Lex(s, st) ==
  IF s = <<>> THEN <<>>
  ELSE LET c    == Head(s)
           rest == Tail(s)
       IN CASE st = "line" ->
                 IF c = NL THEN <<NL>> \o Lex(rest, "code") ELSE Lex(rest, "line")
            [] st = "block" ->
                 IF IsPrefix(<<Star, Slash>>, s) THEN Lex(Tail(rest), "code")
                 ELSE Lex(rest, "block")
            [] st \in Quote ->
                 IF c = "\\" /\ rest # <<>> THEN <<c, Head(rest)>> \o Lex(Tail(rest), st)
                 ELSE <<c>> \o Lex(rest, IF c = st THEN "code" ELSE st)
            [] OTHER ->
                 IF c \in Quote THEN <<c>> \o Lex(rest, c)
                 ELSE IF IsPrefix(<<Slash, Slash>>, s) THEN Lex(Tail(rest), "line")
                 ELSE IF IsPrefix(<<Slash, Star>>, s) THEN Lex(Tail(rest), "block")
                 ELSE <<c>> \o Lex(rest, "code")

Stripped(s) == Lex(s, "code")

(* The irregular constructs of s, lexed as above: "starEnd" when a block *)
(* comment's body ends in '*' ("/* **/"), "straySlash" when a '/' in code *)
(* does not open a comment (Yul has no '/' token, so that text is never   *)
(* valid input).  The state "block*" is a block comment whose last body   *)
(* character was '*'.                                                     *)
RECURSIVE Irregular(_, _)
Irregular(s, st) ==
  IF s = <<>> THEN {}
  ELSE LET c    == Head(s)
           rest == Tail(s)
       IN CASE st \in {"block", "block*"} ->
                 IF IsPrefix(<<Star, Slash>>, s)
                 THEN (IF st = "block*" THEN {"starEnd"} ELSE {})
                        \cup Irregular(Tail(rest), "code")
                 ELSE Irregular(rest, IF c = Star THEN "block*" ELSE "block")
            [] st = "line" ->
                 Irregular(rest, IF c = NL THEN "code" ELSE "line")
            [] st \in Quote ->
                 IF c = "\\" /\ rest # <<>> THEN Irregular(Tail(rest), st)
                 ELSE Irregular(rest, IF c = st THEN "code" ELSE st)
            [] OTHER ->
                 IF c \in Quote THEN Irregular(rest, c)
                 ELSE IF IsPrefix(<<Slash, Slash>>, s) THEN Irregular(Tail(rest), "line")
                 ELSE IF IsPrefix(<<Slash, Star>>, s) THEN Irregular(Tail(rest), "block")
                 ELSE (IF c = Slash THEN {"straySlash"} ELSE {}) \cup Irregular(rest, "code")

-----------------------------------------------------------------------------
TypeOK ==
  /\ src \in Seq(Alphabet) /\ chars \in Seq(Alphabet) /\ result \in Seq(Alphabet)
  /\ in_multiline \in BOOLEAN /\ in_string \in BOOLEAN
  /\ string_char \in Quote \cup {NoChar}
  /\ loop \in {"main", "line", "block", "done"}

(* When remove_comments returns, its result is the source with exactly    *)
(* its comments removed (a `//` comment leaving its newline), for every   *)
(* source without irregular constructs.  This pins the whole character   *)
(* loop, its two inner loops and the string tracking against the lexer.  *)
StripsCommentsExactly ==
  (loop = "done" /\ Irregular(src, "code") = {}) => result = Stripped(src)

(* A block comment ends at its first "*/" even when its body ends in '*' *)
(* ("/** doc **/"): for valid Yul text the result is the lexer's.        *)
BlockCommentEndsAtFirstTerminator ==
  (loop = "done" /\ "straySlash" \notin Irregular(src, "code"))
    => result = Stripped(src)

=============================================================================
