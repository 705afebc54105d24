------------------------------ MODULE Unescape ------------------------------
(***************************************************************************)
(* The string-literal unescaper of src/src/yul2ir/utils.rs (taken from    *)
(* rustc's lexer): unescape_str_wrap_error(s) runs the loop of            *)
(* unescape_str_or_byte_str in Mode::Str, which scans one character or    *)
(* escape per iteration (scan_escape) and hands the result to a callback. *)
(* The callback pushes the character onto buf, or on an error sets the    *)
(* flag `error` and replaces buf by the text "<Lexer error: string: E>";  *)
(* the loop goes on after an error.                                        *)
(*                                                                         *)
(* Mode::Str is the only mode the code uses: in_double_quotes holds and   *)
(* is_bytes does not, so the byte-literal branches of scan_escape are      *)
(* left out.  Characters are one-character strings; what the function     *)
(* outputs is a sequence of code points.  The error text is kept as the   *)
(* name of the error (buf_msg) followed by what was pushed after it       *)
(* (buf_text).                                                             *)
(***************************************************************************)
EXTENDS Naturals, Sequences, SequencesExt

CONSTANT
  Sources     \* the literal contents the parser can pass in

NoError == "none"

\* Code points of the characters the checked alphabets use.
CodePoint ==
  [ c \in {"\\", "n", "r", "t", "x", "u", "{", "}", "_", "0", "1", "7", "D", "F", "z",
           "\"", "'", "\n", " ", "\r", "\t", "\f"} |->
      CASE c = "\\" -> 92  [] c = "n" -> 110 [] c = "r" -> 114 [] c = "t" -> 116
        [] c = "x" -> 120  [] c = "u" -> 117 [] c = "{" -> 123 [] c = "}" -> 125
        [] c = "_" -> 95   [] c = "0" -> 48  [] c = "1" -> 49  [] c = "7" -> 55
        [] c = "D" -> 68   [] c = "F" -> 70  [] c = "z" -> 122 [] c = "\"" -> 34
        [] c = "'" -> 39   [] c = "\n" -> 10 [] c = " " -> 32  [] c = "\r" -> 13
        [] c = "\t" -> 9   [] c = "\f" -> 12 ]

\* char::to_digit(16).
HexValue == [ c \in {"0", "1", "7", "D", "F"} |->
                CASE c = "0" -> 0 [] c = "1" -> 1 [] c = "7" -> 7 [] c = "D" -> 13 [] c = "F" -> 15 ]
IsHex(c) == c \in DOMAIN HexValue

\* The one-character escapes `\"`, `\n`, `\r`, `\t`, `\\`, `\'`, `\0`.
SimpleEscape == [ c \in {"\"", "n", "r", "t", "\\", "'", "0"} |->
                    CASE c = "\"" -> 34 [] c = "n" -> 10 [] c = "r" -> 13 [] c = "t" -> 9
                      [] c = "\\" -> 92 [] c = "'" -> 39 [] c = "0" -> 0 ]

Ok(cp)  == [ok |-> TRUE, val |-> cp]
Err(e)  == [ok |-> FALSE, val |-> e]
Scanned(r, rest) == [res |-> r, rest |-> rest]

is_ascii(x) == x <= 127

\* Mutant: surrogates are let through.
IsScalarNoSurrogate(v) == v <= 1114111

\* std::char::from_u32 succeeds: not a surrogate, at most 0x10FFFF.
IsScalar(v) == v <= 1114111 /\ ~(55296 <= v /\ v <= 57343)

\* Mutant: underscores are counted as digits.
RECURSIVE UnicodeDigitsCountingUnderscores(_, _, _)
UnicodeDigitsCountingUnderscores(rest, n_digits, value) ==
  IF rest = <<>> THEN Scanned(Err("UnclosedUnicodeEscape"), <<>>)
  ELSE LET c == Head(rest) IN
       CASE c = "_" -> UnicodeDigitsCountingUnderscores(Tail(rest), n_digits + 1, value)
         [] c = "}" ->
              Scanned(IF n_digits > 6 THEN Err("OverlongUnicodeEscape")
                      ELSE IF IsScalar(value) THEN Ok(value)
                      ELSE IF value > 1114111 THEN Err("OutOfRangeUnicodeEscape")
                      ELSE Err("LoneSurrogateUnicodeEscape"),
                      Tail(rest))
         [] ~IsHex(c) -> Scanned(Err("InvalidCharInUnicodeEscape"), Tail(rest))
         [] n_digits + 1 > 6 -> UnicodeDigitsCountingUnderscores(Tail(rest), n_digits + 1, value)
         [] OTHER -> UnicodeDigitsCountingUnderscores(Tail(rest), n_digits + 1, value * 16 + HexValue[c])

(* The loop over the digits of `\u{..}` after the first one; n_digits     *)
(* counts digits, and value stops growing after six.                      *)
RECURSIVE UnicodeDigits(_, _, _)
UnicodeDigits(rest, n_digits, value) ==
  IF rest = <<>> THEN Scanned(Err("UnclosedUnicodeEscape"), <<>>)
  ELSE LET c == Head(rest) IN
       CASE c = "_" -> UnicodeDigits(Tail(rest), n_digits, value)
         [] c = "}" ->
              Scanned(IF n_digits > 6 THEN Err("OverlongUnicodeEscape")
                      ELSE IF IsScalar(value) THEN Ok(value)
                      ELSE IF value > 1114111 THEN Err("OutOfRangeUnicodeEscape")
                      ELSE Err("LoneSurrogateUnicodeEscape"),
                      Tail(rest))
         [] ~IsHex(c) -> Scanned(Err("InvalidCharInUnicodeEscape"), Tail(rest))
         [] n_digits + 1 > 6 -> UnicodeDigits(Tail(rest), n_digits + 1, value)
         [] OTHER -> UnicodeDigits(Tail(rest), n_digits + 1, value * 16 + HexValue[c])

\* After `\u`: the brace and the first digit.
UnicodeEscape(rest) ==
  IF rest = <<>> THEN Scanned(Err("NoBraceInUnicodeEscape"), <<>>)
  ELSE IF Head(rest) # "{" THEN Scanned(Err("NoBraceInUnicodeEscape"), Tail(rest))
  ELSE LET r == Tail(rest) IN
       IF r = <<>> THEN Scanned(Err("UnclosedUnicodeEscape"), <<>>)
       ELSE CASE Head(r) = "_" -> Scanned(Err("LeadingUnderscoreUnicodeEscape"), Tail(r))
              [] Head(r) = "}" -> Scanned(Err("EmptyUnicodeEscape"), Tail(r))
              [] ~IsHex(Head(r)) -> Scanned(Err("InvalidCharInUnicodeEscape"), Tail(r))
              [] OTHER -> UnicodeDigits(Tail(r), 1, HexValue[Head(r)])

\* Mutant: the is_ascii check of a \x escape is missing.
HexEscapeNoRangeCheck(rest) ==
  IF rest = <<>> THEN Scanned(Err("TooShortHexEscape"), <<>>)
  ELSE IF ~IsHex(Head(rest)) THEN Scanned(Err("InvalidCharInHexEscape"), Tail(rest))
  ELSE IF Tail(rest) = <<>> THEN Scanned(Err("TooShortHexEscape"), <<>>)
  ELSE IF ~IsHex(rest[2]) THEN Scanned(Err("InvalidCharInHexEscape"), Tail(Tail(rest)))
  ELSE Scanned(Ok(HexValue[rest[1]] * 16 + HexValue[rest[2]]), Tail(Tail(rest)))

\* After `\x`: exactly two hex digits, at most 0x7F.
HexEscape(rest) ==
  IF rest = <<>> THEN Scanned(Err("TooShortHexEscape"), <<>>)
  ELSE IF ~IsHex(Head(rest)) THEN Scanned(Err("InvalidCharInHexEscape"), Tail(rest))
  ELSE IF Tail(rest) = <<>> THEN Scanned(Err("TooShortHexEscape"), <<>>)
  ELSE IF ~IsHex(rest[2]) THEN Scanned(Err("InvalidCharInHexEscape"), Tail(Tail(rest)))
  ELSE LET value == HexValue[rest[1]] * 16 + HexValue[rest[2]] IN
       Scanned(IF is_ascii(value) THEN Ok(value) ELSE Err("OutOfRangeHexEscape"),
               Tail(Tail(rest)))

\* scan_escape(first_char, chars, Mode::Str): the result and the rest of chars.
scan_escape(first_char, rest) ==
  IF first_char # "\\" THEN
     Scanned(CASE first_char \in {"\t", "\n"} -> Err("EscapeOnlyChar")
               [] first_char = "\r" -> Err("BareCarriageReturn")
               [] first_char = "\"" -> Err("EscapeOnlyChar")
               [] OTHER -> Ok(CodePoint[first_char]),
             rest)
  ELSE IF rest = <<>> THEN Scanned(Err("LoneSlash"), <<>>)
  ELSE LET second_char == Head(rest) IN
       CASE second_char \in DOMAIN SimpleEscape ->
              Scanned(Ok(SimpleEscape[second_char]), Tail(rest))
         [] second_char = "x" -> HexEscape(Tail(rest))
         [] second_char = "u" -> UnicodeEscape(Tail(rest))
         [] OTHER -> Scanned(Err("InvalidEscape"), Tail(rest))

-----------------------------------------------------------------------------
VARIABLES
  src,      \* the argument s
  chars,    \* the part of s the loop has not consumed
  buf_msg,  \* the error named in buf's "<Lexer error..>" text, or NoError
  buf_text, \* the code points pushed onto buf (after that text)
  error,    \* the closure's flag `error`
  pc        \* "check" (the contains test), "loop", "done"

vars == <<src, chars, buf_msg, buf_text, error, pc>>

Init ==
  /\ src \in Sources
  /\ chars = src
  /\ buf_msg = NoError
  /\ buf_text = <<>>
  /\ error = FALSE
  /\ pc = "check"

\* The closure passed as callback: push the character, or replace buf.
Callback(r, msg, text) ==
  IF r.ok THEN [msg |-> msg, text |-> Append(text, r.val)]
  ELSE [msg |-> r.val, text |-> <<>>]

ApplyCallbacks(rs) ==
  LET b == FoldLeft(LAMBDA acc, r : Callback(r, acc.msg, acc.text),
                    [msg |-> buf_msg, text |-> buf_text], rs)
  IN  /\ buf_msg' = b.msg
      /\ buf_text' = b.text
      /\ error' = (error \/ \E i \in 1..Len(rs) : ~rs[i].ok)

\* `s.contains(&['\\', '\r'][..])` fails: s is returned as it is.
ReturnUnchanged ==
  /\ pc = "check"
  /\ \A i \in 1..Len(src) : src[i] \notin {"\\", "\r"}
  /\ buf_text' = [i \in 1..Len(src) |-> CodePoint[src[i]]]
  /\ pc' = "done"
  /\ UNCHANGED <<src, chars, buf_msg, error>>

StartUnescape ==
  /\ pc = "check"
  /\ \E i \in 1..Len(src) : src[i] \in {"\\", "\r"}
  /\ pc' = "loop"
  /\ UNCHANGED <<src, chars, buf_msg, buf_text, error>>

IsContinuation(s) == Len(s) >= 2 /\ s[1] = "\\" /\ s[2] = "\n"

(* One iteration of `while let Some(first_char) = chars.next()` that is *)
(* not a line continuation: '\n' and '\t' are taken as they are, anything *)
(* else goes through scan_escape; the callback gets the result.           *)
UnescapeChar ==
  /\ pc = "loop" /\ chars # <<>> /\ ~IsContinuation(chars)
  /\ LET first_char == Head(chars)
         sc == IF first_char \in {"\n", "\t"}
               THEN Scanned(Ok(CodePoint[first_char]), Tail(chars))
               ELSE scan_escape(first_char, Tail(chars))
     IN /\ ApplyCallbacks(<<sc.res>>)
        /\ chars' = sc.rest
  /\ UNCHANGED <<src, pc>>

AsciiSpace == {" ", "\t", "\n", "\r"}
\* char::is_whitespace, for the characters the checked alphabets use.
IsWhitespace(c) == c \in AsciiSpace \cup {"\f"}

\* Mutant: the last skipped whitespace character is left in chars.
SkipWhitespaceOffByOne ==
  /\ pc = "loop" /\ IsContinuation(chars)
  /\ LET tail == Tail(chars)
         first_non_space ==
           IF \A i \in 1..Len(tail) : tail[i] \in AsciiSpace THEN Len(tail)
           ELSE Min({i \in 1..Len(tail) : tail[i] \notin AsciiSpace}) - 1
         rest == SubSeq(tail, first_non_space, Len(tail))
         multiple == \E i \in 2..first_non_space : tail[i] = "\n"
         unskipped == rest # <<>> /\ IsWhitespace(Head(rest))
     IN /\ ApplyCallbacks(
              (IF multiple THEN <<Err("MultipleSkippedLinesWarning")>> ELSE <<>>)
              \o (IF unskipped THEN <<Err("UnskippedWhitespaceWarning")>> ELSE <<>>))
        /\ chars' = rest
  /\ UNCHANGED <<src, pc>>

(* '\\' followed by '\n': skip_ascii_whitespace.  tail starts at the     *)
(* '\n'; first_non_space is the length of its run of ASCII whitespace.   *)
(* A second newline in the run, or a non-ASCII whitespace character right *)
(* after it, is reported through the callback as a warning.               *)
skip_ascii_whitespace ==
  /\ pc = "loop" /\ IsContinuation(chars)
  /\ LET tail == Tail(chars)
         first_non_space ==
           IF \A i \in 1..Len(tail) : tail[i] \in AsciiSpace THEN Len(tail)
           ELSE Min({i \in 1..Len(tail) : tail[i] \notin AsciiSpace}) - 1
         rest == SubSeq(tail, first_non_space + 1, Len(tail))
         multiple == \E i \in 2..first_non_space : tail[i] = "\n"
         unskipped == rest # <<>> /\ IsWhitespace(Head(rest))
     IN /\ ApplyCallbacks(
              (IF multiple THEN <<Err("MultipleSkippedLinesWarning")>> ELSE <<>>)
              \o (IF unskipped THEN <<Err("UnskippedWhitespaceWarning")>> ELSE <<>>))
        /\ chars' = rest
  /\ UNCHANGED <<src, pc>>

\* The loop ends; buf is returned.
Return ==
  /\ pc = "loop" /\ chars = <<>>
  /\ pc' = "done"
  /\ UNCHANGED <<src, chars, buf_msg, buf_text, error>>

Next ==
  \/ ReturnUnchanged \/ StartUnescape
  \/ UnescapeChar \/ skip_ascii_whitespace \/ Return

Spec == Init /\ [][Next]_vars

-----------------------------------------------------------------------------
(***************************************************************************)
(* Reference: a string literal's contents as the Rust reference defines  *)
(* them, which the code's comments follow.  A content is a sequence of     *)
(* tokens: a character other than '\\', '"' and a bare CR; `\'`, `\"`,   *)
(* `\n`, `\r`, `\t`, `\\`, `\0`; `\x` with an octal then a hex digit;   *)
(* `\u{` with one to six hex digits, each followed by any underscores,    *)
(* and `}`, naming a Unicode scalar value; `\` + LF, which is skipped     *)
(* with the ASCII whitespace after it.  After a continuation, a second    *)
(* skipped LF or a non-ASCII whitespace character is a warning (a lint),  *)
(* not an error.  Token(s) is the token at the start of s, with len = 0   *)
(* when none starts there.                                                 *)
(***************************************************************************)
OctDigit == {"0", "1", "7"}

\* Unicode scalar values: every code point except the surrogates.
ScalarValue(v) == v \in 0..55295 \/ v \in 57344..1114111

\* The length of the longest prefix of s drawn from S.
RECURSIVE RunLength(_, _)
RunLength(s, S) == IF s # <<>> /\ Head(s) \in S THEN 1 + RunLength(Tail(s), S) ELSE 0

HexNumber(ds) == FoldLeft(LAMBDA v, d : v * 16 + HexValue[d], 0, ds)

NoToken == [len |-> 0, out |-> <<>>, warn |-> FALSE]
Token(s) ==
  CASE s[1] \notin {"\\", "\"", "\r"} -> [len |-> 1, out |-> <<CodePoint[s[1]]>>, warn |-> FALSE]
    [] s[1] # "\\" \/ Len(s) = 1 -> NoToken
    [] s[2] \in DOMAIN SimpleEscape -> [len |-> 2, out |-> <<SimpleEscape[s[2]]>>, warn |-> FALSE]
    [] s[2] = "x" ->
         IF Len(s) >= 4 /\ s[3] \in OctDigit /\ IsHex(s[4])
         THEN [len |-> 4, out |-> <<HexNumber(<<s[3], s[4]>>)>>, warn |-> FALSE]
         ELSE NoToken
    [] s[2] = "u" ->
         LET body   == SubSeq(s, 4, 3 + RunLength(SubSeq(s, 4, Len(s)), DOMAIN HexValue \cup {"_"}))
             digits == SelectSeq(body, IsHex)
         IN IF /\ Len(s) >= 4 + Len(body) /\ s[3] = "{" /\ s[4 + Len(body)] = "}"
               /\ body # <<>> /\ IsHex(body[1]) /\ Len(digits) <= 6
               /\ ScalarValue(HexNumber(digits))
            THEN [len |-> 4 + Len(body), out |-> <<HexNumber(digits)>>, warn |-> FALSE]
            ELSE NoToken
    [] s[2] = "\n" ->
         LET skipped == SubSeq(s, 2, 1 + RunLength(Tail(s), AsciiSpace))
             after   == SubSeq(s, 2 + Len(skipped), Len(s))
         IN [len |-> 1 + Len(skipped), out |-> <<>>,
             warn |-> \/ \E i \in 2..Len(skipped) : skipped[i] = "\n"
                      \/ after # <<>> /\ Head(after) \in {"\f"}]
    [] OTHER -> NoToken

RECURSIVE Ref(_)
Ref(s) ==
  IF s = <<>> THEN [valid |-> TRUE, out |-> <<>>, warn |-> FALSE]
  ELSE LET t == Token(s)
           r == Ref(SubSeq(s, t.len + 1, Len(s)))
       IN IF t.len = 0 THEN [valid |-> FALSE, out |-> <<>>, warn |-> FALSE]
          ELSE [valid |-> r.valid, out |-> t.out \o r.out, warn |-> t.warn \/ r.warn]

(* The contents the lexer can hand over: a '"' only where it is escaped, *)
(* that is after an odd run of backslashes.                                *)
EscapedQuotes(s) ==
  \A i \in 1..Len(s) :
    s[i] = "\"" => RunLength(Reverse(SubSeq(s, 1, i - 1)), {"\\"}) % 2 = 1

Literals(A, n) == {s \in BoundedSeq(A, n) : EscapedQuotes(s)}

-----------------------------------------------------------------------------
TypeOK ==
  /\ src \in Sources /\ chars \in Seq(DOMAIN CodePoint)
  /\ buf_text \in Seq(Nat) /\ error \in BOOLEAN
  /\ pc \in {"check", "loop", "done"}

(* unescape_str_wrap_error returns exactly the characters a valid literal  *)
(* denotes, for every literal without warnings: the scan of each escape,    *)
(* how far it consumes, and the line-continuation skip all agree with the   *)
(* Rust reference.                                                          *)
UnescapesValidLiterals ==
  (pc = "done" /\ Ref(src).valid /\ ~Ref(src).warn)
    => buf_msg = NoError /\ buf_text = Ref(src).out

(* Every literal the reference rejects comes back carrying the             *)
(* "<Lexer error..>" text: no malformed escape (a \x above 0x7F, an        *)
(* overlong or out-of-range \u, a surrogate, a bare CR) is decoded into a  *)
(* character silently.                                                     *)
MarksInvalidLiterals ==
  (pc = "done" /\ ~Ref(src).valid) => buf_msg # NoError

(* A valid literal, warnings included, is returned as the characters it     *)
(* denotes: the doc comments of EscapeError call the skipped-line and       *)
(* unskipped-whitespace cases warnings.                                     *)
WarningsKeepLiteral ==
  (pc = "done" /\ Ref(src).valid) => buf_msg = NoError /\ buf_text = Ref(src).out

=============================================================================
