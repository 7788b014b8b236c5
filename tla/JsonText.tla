------------------------------ MODULE JsonText ------------------------------
(***************************************************************************)
(* The tokens of a JSON text as the vendored jsoncpp reads them (OurReader *)
(* in src/json/jsoncpp.cpp) with the settings of CharReaderBuilder:        *)
(* comments are allowed, single quotes and special floats are not.         *)
(*                                                                         *)
(* A text is a sequence of characters, which are strings of one character; *)
(* a position is an index into it, and Len(text) + 1 is end_.  The reader  *)
(* keeps nothing but a position, so that a token is a function of the text *)
(* and the position it is read from.                                       *)
(***************************************************************************)
EXTENDS Integers, SequencesExt, FiniteSetsExt

Space == {" ", "\t", "\r", "\n"}
Digit == {"0", "1", "2", "3", "4", "5", "6", "7", "8", "9"}
LineEnd == {"\n", "\r"}

NUL == "NUL"    \* what getNextChar returns at the end, and a character of a text
BOM == "BOM"    \* the three bytes of a byte order mark

\* getNextChar, and a look at *current_ behind a test for end_.
CharAt(t, p) == IF p <= Len(t) THEN t[p] ELSE NUL

\* The first of some positions, or the end.
FirstOf(t, positions) == Min(positions \cup {Len(t) + 1})

\* while (*current is in set) ++current
Behind(t, p, set) == FirstOf(t, {q \in p .. Len(t) : t[q] \notin set})

\* match: the characters from p on are those of the pattern.
Match(t, p, pattern) == IsPrefix(pattern, SubSeq(t, p, Len(t)))

SkipBom(t) == IF CharAt(t, 1) = BOM THEN 2 ELSE 1

-----------------------------------------------------------------------------
(* The ends of the longer tokens; p is the position behind what began them *)

\* readNumber: digits, a fraction, an exponent; any of them may be empty.
NumberEnd(t, p) ==
    LET integral == Behind(t, p, Digit)
        fraction == IF CharAt(t, integral) = "." THEN Behind(t, integral + 1, Digit) ELSE integral
        exponent == IF CharAt(t, fraction + 1) \in {"+", "-"} THEN fraction + 2 ELSE fraction + 1
    IN  IF CharAt(t, fraction) \in {"e", "E"} THEN Behind(t, exponent, Digit) ELSE fraction

\* A backslash takes the character behind it along: a quote is the closing one
\* when an even number of them stands before it.
Escaped(t, p, q) ==
    LET plain == Max({p - 1} \cup {r \in p .. q - 1 : t[r] # "\\"})
    IN  (q - 1 - plain) % 2 = 1

\* readString: the closing quote, or the end.
ClosingQuote(t, p) ==
    FirstOf(t, {q \in p .. Len(t) : t[q] = "\"" /\ ~Escaped(t, p, q)})

\* readCStyleComment: the star of the closing mark, or the end.
ClosingStar(t, p) ==
    FirstOf(t, {q \in p .. Len(t) : t[q] = "*" /\ CharAt(t, q + 1) = "/"})

\* readCppStyleComment takes the end of its line along.
LineCommentEnd(t, p) ==
    LET q == FirstOf(t, {r \in p .. Len(t) : t[r] \in LineEnd})
    IN  IF Match(t, q, <<"\r", "\n">>) THEN q + 2 ELSE Min({q + 1, Len(t) + 1})

-----------------------------------------------------------------------------
(* Tokens *)

Token(type, start, end) == [type |-> type, start |-> start, end |-> end]

ReadString(t, start) ==
    LET q == ClosingQuote(t, start + 1)
    IN  IF q <= Len(t) THEN Token("string", start, q + 1) ELSE Token("error", start, q)

\* readComment.  A comment that is not closed is still one if the text ends in
\* a slash, which is taken for the end of the closing mark.
ReadComment(t, start) ==
    LET q == ClosingStar(t, start + 2)
    IN  CASE CharAt(t, start + 1) = "*" /\ q <= Len(t) -> Token("comment", start, q + 2)
          [] CharAt(t, start + 1) = "*" /\ q > Len(t) ->
                 IF start + 2 <= Len(t) /\ Last(t) = "/"
                 THEN Token("comment", start, q)
                 ELSE Token("error", start, q)
          [] CharAt(t, start + 1) = "/" ->
                 Token("comment", start, LineCommentEnd(t, start + 2))
          [] OTHER -> Token("error", start, Min({start + 2, Len(t) + 1}))

\* A sign is part of a number, unless an infinity follows.
ReadSigned(t, start) ==
    IF CharAt(t, start + 1) = "I"
    THEN Token("error", start, start + 2)
    ELSE Token("number", start, NumberEnd(t, start + 1))

ReadWord(t, start, type, rest) ==
    IF Match(t, start + 1, rest)
    THEN Token(type, start, start + 1 + Len(rest))
    ELSE Token("error", start, start + 1)

Punctuation == {"{", "}", "[", "]", ",", ":"}

(***************************************************************************)
(* readToken from position p, spaces skipped.  A token that is not ok has  *)
(* the type "error", and ends where the reader has got to by then.         *)
(***************************************************************************)
ReadToken(t, p) ==
    LET start == Behind(t, p, Space)
        c == CharAt(t, start)
    IN  CASE c \in Punctuation -> Token(c, start, start + 1)
          [] c = "\"" -> ReadString(t, start)
          [] c = "/" -> ReadComment(t, start)
          [] c \in Digit -> Token("number", start, NumberEnd(t, start + 1))
          [] c \in {"-", "+"} -> ReadSigned(t, start)
          [] c = "t" -> ReadWord(t, start, "true", <<"r", "u", "e">>)
          [] c = "f" -> ReadWord(t, start, "false", <<"a", "l", "s", "e">>)
          [] c = "n" -> ReadWord(t, start, "null", <<"u", "l", "l">>)
          [] c = NUL -> Token("end", start, Min({start + 1, Len(t) + 1}))
          [] OTHER -> Token("error", start, start + 1)

\* skipCommentTokens, and the loops that read on while the token is a comment.
SkipComments(t, p) ==
    LET next[q \in 1 .. Len(t) + 1] ==
            LET token == ReadToken(t, q)
            IN  IF token.type = "comment" THEN next[token.end] ELSE token
    IN  next[p]

\* recoverFromError: the position behind the next token of the type, of any
\* depth, or the end.
Recover(t, p, type) ==
    LET skip[q \in 1 .. Len(t) + 1] ==
            LET token == ReadToken(t, q)
            IN  IF token.type \in {type, "end"} THEN token.end ELSE skip[token.end]
    IN  skip[p]
=============================================================================
