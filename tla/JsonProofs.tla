----------------------------- MODULE JsonProofs -----------------------------
(***************************************************************************)
(* Proofs about the JSON reader and what the logger takes from it, for     *)
(* every text, stack limit and width: what a token, a comment and a        *)
(* recovery leave of the text; from that, that readValue, readObject and   *)
(* readArray come to an end; that a number is read as what its digits      *)
(* denote and an integer or a string as what was written; that numbers are *)
(* converted faithfully; and, from what is on the reader's stack, that the *)
(* elements of every array read are.                                       *)
(***************************************************************************)
EXTENDS JsonGrammar, WellFoundedInduction, FiniteSetTheorems, SequenceTheorems, TLAPS

\* A sequence, of whatever it holds.
IsSeq(s) == s \in Seq(Range(s))

LEMMA AnySeq == ASSUME NEW S, NEW s \in Seq(S) PROVE IsSeq(s)
  BY DEF IsSeq, Range

\* The positions of a text, its end included.
Place(t) == 1 .. Len(t) + 1

-----------------------------------------------------------------------------
(* The first of some positions *)

\* A set of natural numbers has a least element.
LEMMA Least ==
    ASSUME NEW S, S \subseteq Nat, S # {}
    PROVE  Min(S) \in S /\ \A k \in S : Min(S) <= k
  <1> DEFINE Before == OpToRel(<, Nat)
  <1>1. \A j, k \in Nat : j < k => <<j, k>> \in Before
    BY DEF OpToRel
  <1>2. IsWellFoundedOn(Before, Nat)
    BY NatLessThanWellFounded
  <1> HIDE DEF Before
  <1>3. PICK m \in S : \A k \in S : ~ (<<k, m>> \in Before)
    BY <1>2, WFMin
  <1>4. \A k \in S : m <= k
    <2> SUFFICES ASSUME NEW k \in S PROVE m <= k
      OBVIOUS
    <2>1. k \in Nat /\ m \in Nat /\ ~(k < m)
      BY <1>1, <1>3
    <2> QED BY <2>1
  <1> QED BY <1>4 DEF Min

LEMMA FirstIs ==
    ASSUME NEW t, IsSeq(t), NEW p \in Place(t),
           NEW positions, positions \subseteq p .. Len(t)
    PROVE  /\ FirstOf(t, positions) \in p .. Len(t) + 1
           /\ FirstOf(t, positions) \in positions \cup {Len(t) + 1}
  <1> DEFINE S == positions \cup {Len(t) + 1}
  <1>1. Len(t) \in Nat
    BY DEF IsSeq
  <1>2. S \subseteq p .. Len(t) + 1 /\ S \subseteq Nat /\ S # {}
    <2> DEFINE n == Len(t)
    <2>1. n \in Nat /\ p \in 1 .. n + 1 /\ positions \subseteq p .. n
      BY <1>1 DEF Place
    <2>2. n + 1 \in p .. n + 1 /\ \A q \in p .. n + 1 : q \in Nat
      <3> HIDE DEF n
      <3> QED BY <2>1
    <2>3. \A q \in p .. n : q \in p .. n + 1
      <3> HIDE DEF n
      <3> QED BY <2>1
    <2> QED BY <2>1, <2>2, <2>3
  <1> HIDE DEF S
  <1>3. Min(S) \in S
    BY <1>2, Least
  <1> QED BY <1>2, <1>3 DEF FirstOf, S

LEMMA BehindIs ==
    ASSUME NEW t, IsSeq(t), NEW p \in Place(t), NEW set
    PROVE  Behind(t, p, set) \in p .. Len(t) + 1
  <1> DEFINE positions == {q \in p .. Len(t) : t[q] \notin set}
  <1>1. positions \subseteq p .. Len(t)
    OBVIOUS
  <1> HIDE DEF positions
  <1>2. FirstOf(t, positions) \in p .. Len(t) + 1
    BY <1>1, FirstIs
  <1> QED BY <1>2 DEF Behind, positions

\* What stands at a position, if it is not the mark of the end.
LEMMA CharIs ==
    ASSUME NEW t, IsSeq(t), NEW p \in Nat, CharAt(t, p) # NUL
    PROVE  p <= Len(t)
  BY DEF CharAt

-----------------------------------------------------------------------------
(* Where tokens end *)

LEMMA NumberEnds ==
    ASSUME NEW t, IsSeq(t), NEW p \in Place(t)
    PROVE  NumberEnd(t, p) \in p .. Len(t) + 1
  <1> DEFINE n == Len(t)
             integral == Behind(t, p, Digit)
             fraction == IF CharAt(t, integral) = "." THEN Behind(t, integral + 1, Digit) ELSE integral
             exponent == IF CharAt(t, fraction + 1) \in {"+", "-"} THEN fraction + 2 ELSE fraction + 1
  <1>1. n \in Nat /\ p \in 1 .. n + 1
    BY DEF IsSeq, Place
  <1>2. integral \in p .. n + 1
    BY BehindIs
  <1>3. fraction \in integral .. n + 1
    <2>1. CASE CharAt(t, integral) = "."
      <3>1. integral \in Nat /\ CharAt(t, integral) # NUL
        BY <1>1, <1>2, <2>1 DEF NUL
      <3>2. integral <= n
        BY <3>1, CharIs
      <3>3. integral + 1 \in Place(t)
        BY <1>1, <1>2, <3>2 DEF Place
      <3>4. Behind(t, integral + 1, Digit) \in integral + 1 .. n + 1
        BY <3>3, BehindIs
      <3> HIDE DEF n, integral
      <3> QED BY <1>1, <1>2, <2>1, <3>4
    <2>2. CASE CharAt(t, integral) # "."
      <3> HIDE DEF n, integral
      <3> QED BY <1>1, <1>2, <2>2
    <2> QED BY <2>1, <2>2
  <1>4. CharAt(t, fraction) \in {"e", "E"} => Behind(t, exponent, Digit) \in fraction .. n + 1
    <2> SUFFICES ASSUME CharAt(t, fraction) \in {"e", "E"}
                 PROVE  Behind(t, exponent, Digit) \in fraction .. n + 1
      OBVIOUS
    <2> HIDE DEF integral, fraction
    <2>1. fraction \in Nat /\ CharAt(t, fraction) # NUL
      <3> HIDE DEF n
      <3> QED BY <1>1, <1>2, <1>3 DEF NUL
    <2>2. fraction <= n
      BY <2>1, CharIs
    <2>3. CharAt(t, fraction + 1) \in {"+", "-"} => fraction + 1 <= n
      <3>1. fraction + 1 \in Nat /\ (CharAt(t, fraction + 1) \in {"+", "-"} => CharAt(t, fraction + 1) # NUL)
        BY <2>1 DEF NUL
      <3> QED BY <3>1, CharIs
    <2>4. exponent \in Place(t) /\ fraction <= exponent
      <3> HIDE DEF n
      <3>1. exponent \in 1 .. n + 1 /\ fraction <= exponent
        BY <1>1, <1>2, <1>3, <2>1, <2>2, <2>3
      <3> QED BY <3>1 DEF Place, n
    <2> HIDE DEF exponent
    <2>5. Behind(t, exponent, Digit) \in exponent .. n + 1
      BY <2>4, BehindIs
    <2> HIDE DEF n
    <2> QED BY <1>1, <2>1, <2>4, <2>5 DEF Place, n
  <1>5. NumberEnd(t, p) = IF CharAt(t, fraction) \in {"e", "E"} THEN Behind(t, exponent, Digit) ELSE fraction
    BY DEF NumberEnd
  <1> HIDE DEF n, integral, fraction, exponent
  <1>6. NumberEnd(t, p) \in fraction .. n + 1
    BY <1>1, <1>2, <1>3, <1>4, <1>5
  <1> QED BY <1>1, <1>2, <1>3, <1>6 DEF n

\* A pattern that is matched lies within the text.
LEMMA MatchFits ==
    ASSUME NEW t, IsSeq(t), NEW p \in Place(t), NEW pattern, IsSeq(pattern), Match(t, p, pattern)
    PROVE  p + Len(pattern) <= Len(t) + 1
  <1>1. Len(pattern) <= Len(SubSeq(t, p, Len(t)))
    BY DEF Match, IsPrefix
  <1>2. Len(t) \in Nat /\ Len(pattern) \in Nat /\ p \in 1 .. Len(t) + 1
    BY DEF IsSeq, Place
  <1>3. Len(SubSeq(t, p, Len(t))) = (Len(t) - p) + 1
    <2>1. t \in Seq(Range(t))
      BY DEF IsSeq
    <2> QED BY <1>2, <2>1
  <1> QED BY <1>1, <1>2, <1>3

\* What begins at a position of the text that is not its end: a token of one
\* character or more.
Advances(t, start, token) ==
    /\ token.start = start
    /\ token.end \in start .. Len(t) + 1
    /\ token.type # "end" => token.end > start

LEMMA StringEnds ==
    ASSUME NEW t, IsSeq(t), NEW start \in 1 .. Len(t)
    PROVE  Advances(t, start, ReadString(t, start))
  <1> DEFINE n == Len(t)
             q == ClosingQuote(t, start + 1)
             positions == {k \in start + 1 .. n : t[k] = "\"" /\ ~Escaped(t, start + 1, k)}
  <1>1. n \in Nat /\ start \in 1 .. n
    BY DEF IsSeq
  <1>2. start + 1 \in Place(t)
    BY <1>1 DEF Place
  <1>3. positions \subseteq start + 1 .. Len(t)
    OBVIOUS
  <1>4. q = FirstOf(t, positions)
    BY DEF ClosingQuote
  <1> HIDE DEF positions, q
  <1>5. q \in start + 1 .. n + 1
    BY <1>2, <1>3, <1>4, FirstIs
  <1> HIDE DEF n
  <1>6. /\ q <= n => q + 1 \in start .. n + 1 /\ q + 1 > start
        /\ q \in start .. n + 1 /\ q > start
    BY <1>1, <1>5
  <1>7. ReadString(t, start) = IF q <= n THEN Token("string", start, q + 1) ELSE Token("error", start, q)
    BY DEF ReadString, q, n
  <1> QED BY <1>6, <1>7 DEF Advances, Token, n

LEMMA LineCommentEnds ==
    ASSUME NEW t, IsSeq(t), NEW p \in Place(t)
    PROVE  LineCommentEnd(t, p) \in p .. Len(t) + 1
  <1> DEFINE n == Len(t)
             positions == {r \in p .. n : t[r] \in LineEnd}
             q == FirstOf(t, positions)
  <1>1. n \in Nat /\ p \in 1 .. n + 1
    BY DEF IsSeq, Place
  <1>2. positions \subseteq p .. Len(t)
    OBVIOUS
  <1>3. LineCommentEnd(t, p) =
           IF Match(t, q, <<"\r", "\n">>) THEN q + 2 ELSE Min({q + 1, n + 1})
    BY DEF LineCommentEnd
  <1> HIDE DEF positions
  <1>4. q \in p .. n + 1
    BY <1>2, FirstIs
  <1> HIDE DEF q
  <1>5. Match(t, q, <<"\r", "\n">>) => q + 2 <= n + 1
    <2> DEFINE pattern == <<"\r", "\n">>
    <2>1. IsSeq(pattern) /\ Len(pattern) = 2
      BY DEF IsSeq, Range
    <2>2. q \in Place(t)
      BY <1>1, <1>4 DEF Place
    <2> HIDE DEF pattern
    <2>3. Match(t, q, pattern) => q + 2 <= n + 1
      BY <2>1, <2>2, MatchFits
    <2> QED BY <2>3 DEF pattern
  <1> HIDE DEF n
  <1>6. Min({q + 1, n + 1}) \in {q + 1, n + 1} /\ Min({q + 1, n + 1}) <= n + 1
    <2>1. {q + 1, n + 1} \subseteq Nat
      BY <1>1, <1>4
    <2> QED BY <2>1, Least
  <1>7. LineCommentEnd(t, p) \in p .. n + 1
    BY <1>1, <1>3, <1>4, <1>5, <1>6
  <1> QED BY <1>7 DEF n

LEMMA CommentEnds ==
    ASSUME NEW t, IsSeq(t), NEW start \in 1 .. Len(t)
    PROVE  Advances(t, start, ReadComment(t, start))
  <1> DEFINE n == Len(t)
             token == ReadComment(t, start)
             next == CharAt(t, start + 1)
             stars == {k \in start + 2 .. n : t[k] = "*" /\ CharAt(t, k + 1) = "/"}
             q == ClosingStar(t, start + 2)
  <1>1. n \in Nat /\ start \in 1 .. n
    BY DEF IsSeq
  <1>2. next # NUL => start + 2 \in Place(t)
    <2>1. start + 1 \in Nat
      BY <1>1
    <2>2. next # NUL => start + 1 <= n
      BY <2>1, CharIs
    <2> HIDE DEF next
    <2> QED BY <1>1, <2>2 DEF Place
  <1>3. next # NUL => q \in start + 2 .. n + 1 /\ (q <= n => q + 1 <= n)
    <2> SUFFICES ASSUME next # NUL PROVE q \in start + 2 .. n + 1 /\ (q <= n => q + 1 <= n)
      OBVIOUS
    <2>1. stars \subseteq start + 2 .. Len(t) /\ q = FirstOf(t, stars)
      BY DEF ClosingStar
    <2>2. \A k \in stars : k \in start + 2 .. n /\ CharAt(t, k + 1) = "/"
      OBVIOUS
    <2> HIDE DEF stars, q, next
    <2>3. q \in start + 2 .. n + 1 /\ q \in stars \cup {n + 1}
      BY <1>2, <2>1, FirstIs
    <2>4. q <= n => q \in stars
      <3> HIDE DEF n
      <3> QED BY <1>1, <2>3
    <2>5. q <= n => CharAt(t, q + 1) # NUL /\ q + 1 \in Nat
      <3>1. q \in Nat
        <4> HIDE DEF n
        <4> QED BY <1>1, <2>3
      <3> QED BY <2>2, <2>4, <3>1 DEF NUL
    <2>6. q <= n => q + 1 <= n
      BY <2>5, CharIs
    <2> QED BY <2>3, <2>6
  <1>4. next # NUL => LineCommentEnd(t, start + 2) \in start + 2 .. n + 1
    BY <1>2, LineCommentEnds
  <1>5. Min({start + 2, n + 1}) \in start + 1 .. n + 1
    <2>1. {start + 2, n + 1} \subseteq Nat
      BY <1>1
    <2>2. Min({start + 2, n + 1}) \in {start + 2, n + 1} /\ Min({start + 2, n + 1}) <= n + 1
      BY <2>1, Least
    <2> HIDE DEF n
    <2> QED BY <1>1, <2>2
  <1>6. \/ next = "*" /\ q <= n /\ token = Token("comment", start, q + 2)
        \/ next = "*" /\ token \in {Token("comment", start, q), Token("error", start, q)}
        \/ next = "/" /\ token = Token("comment", start, LineCommentEnd(t, start + 2))
        \/ token = Token("error", start, Min({start + 2, n + 1}))
    <2>1. next = "*" => q <= n \/ q > n
      <3> HIDE DEF n, q, next
      <3> QED BY <1>1, <1>3 DEF NUL
    <2>2. token = CASE next = "*" /\ q <= n -> Token("comment", start, q + 2)
                    [] next = "*" /\ q > n ->
                           IF start + 2 <= n /\ Last(t) = "/"
                           THEN Token("comment", start, q)
                           ELSE Token("error", start, q)
                    [] next = "/" -> Token("comment", start, LineCommentEnd(t, start + 2))
                    [] OTHER -> Token("error", start, Min({start + 2, n + 1}))
      BY DEF ReadComment
    <2> HIDE DEF n, q, next, token
    <2> QED BY <2>1, <2>2
  <1> HIDE DEF n, q, next, token
  <1>7. /\ next \in {"*", "/"} => next # NUL
        /\ start + 1 > start
    BY <1>1 DEF NUL
  <1>8. /\ token.start = start
        /\ token.end \in start .. n + 1 /\ token.end > start
    <2>1. CASE next = "*" /\ q <= n /\ token = Token("comment", start, q + 2)
      <3>1. q + 2 \in start .. n + 1 /\ q + 2 > start
        BY <1>1, <1>3, <1>7, <2>1
      <3> QED BY <2>1, <3>1 DEF Token
    <2>2. CASE next = "*" /\ token \in {Token("comment", start, q), Token("error", start, q)}
      <3>1. q \in start .. n + 1 /\ q > start
        BY <1>1, <1>3, <1>7, <2>2
      <3> QED BY <2>2, <3>1 DEF Token
    <2>3. CASE next = "/" /\ token = Token("comment", start, LineCommentEnd(t, start + 2))
      <3>1. LineCommentEnd(t, start + 2) \in start .. n + 1 /\ LineCommentEnd(t, start + 2) > start
        BY <1>1, <1>4, <1>7, <2>3
      <3> QED BY <2>3, <3>1 DEF Token
    <2>4. CASE token = Token("error", start, Min({start + 2, n + 1}))
      <3>1. Min({start + 2, n + 1}) \in start .. n + 1 /\ Min({start + 2, n + 1}) > start
        BY <1>1, <1>5
      <3> QED BY <2>4, <3>1 DEF Token
    <2> QED BY <1>6, <2>1, <2>2, <2>3, <2>4
  <1> QED BY <1>8 DEF Advances, n, token

LEMMA SignedEnds ==
    ASSUME NEW t, IsSeq(t), NEW start \in 1 .. Len(t)
    PROVE  Advances(t, start, ReadSigned(t, start))
  <1> DEFINE n == Len(t)
  <1>1. n \in Nat /\ start \in 1 .. n /\ start + 1 \in Nat
    BY DEF IsSeq
  <1>2. start + 1 \in Place(t)
    BY <1>1 DEF Place
  <1>3. NumberEnd(t, start + 1) \in start + 1 .. n + 1
    BY <1>2, NumberEnds
  <1>4. CharAt(t, start + 1) = "I" => start + 1 <= n
    <2>1. CharAt(t, start + 1) = "I" => CharAt(t, start + 1) # NUL
      BY DEF NUL
    <2> QED BY <1>1, <2>1, CharIs
  <1> HIDE DEF n
  <1>5. /\ CharAt(t, start + 1) = "I" => start + 2 \in start .. n + 1
        /\ NumberEnd(t, start + 1) \in start .. n + 1 /\ NumberEnd(t, start + 1) > start
        /\ start + 2 > start
    BY <1>1, <1>3, <1>4
  <1> QED BY <1>5 DEF ReadSigned, Advances, Token, n

LEMMA WordEnds ==
    ASSUME NEW t, IsSeq(t), NEW start \in 1 .. Len(t), NEW type, NEW rest, IsSeq(rest)
    PROVE  Advances(t, start, ReadWord(t, start, type, rest))
  <1> DEFINE n == Len(t)
             m == Len(rest)
  <1>1. n \in Nat /\ m \in Nat /\ start \in 1 .. n
    BY DEF IsSeq
  <1>2. start + 1 \in Place(t)
    BY <1>1 DEF Place
  <1>3. Match(t, start + 1, rest) => (start + 1) + m <= n + 1
    BY <1>2, MatchFits
  <1>4. ReadWord(t, start, type, rest) =
           IF Match(t, start + 1, rest) THEN Token(type, start, start + 1 + m)
                                        ELSE Token("error", start, start + 1)
    BY DEF ReadWord
  <1> HIDE DEF n, m
  <1>5. /\ Match(t, start + 1, rest) => start + 1 + m \in start .. n + 1 /\ start + 1 + m > start
        /\ start + 1 \in start .. n + 1 /\ start + 1 > start
    BY <1>1, <1>3
  <1> QED BY <1>4, <1>5 DEF Advances, Token, n

(***************************************************************************)
(* readToken stays within the text and, unless it finds the end, gets      *)
(* further in it, whatever stands there.                                   *)
(***************************************************************************)
LEMMA TokenEnds ==
    ASSUME NEW t, IsSeq(t), NEW p \in Place(t)
    PROVE  /\ ReadToken(t, p).end \in p .. Len(t) + 1
           /\ ReadToken(t, p).type # "end" => ReadToken(t, p).end > p
  <1> DEFINE n == Len(t)
             start == Behind(t, p, Space)
             c == CharAt(t, start)
             token == ReadToken(t, p)
  <1>1. n \in Nat /\ p \in 1 .. n + 1
    BY DEF IsSeq, Place
  <1>2. start \in p .. n + 1
    BY BehindIs
  <1>3. c # NUL => start \in 1 .. n
    <2> HIDE DEF start
    <2>1. start \in Nat
      <3> HIDE DEF n
      <3> QED BY <1>1, <1>2
    <2>2. c # NUL => start <= n
      BY <2>1, CharIs
    <2> HIDE DEF n, c
    <2> QED BY <1>1, <1>2, <2>1, <2>2
  <1>4. CASE c # NUL
    <2>1. start \in 1 .. Len(t)
      BY <1>3, <1>4
    <2> HIDE DEF start
    <2>2. Advances(t, start, Token(c, start, start + 1))
      <3> DEFINE one == Token(c, start, start + 1)
      <3>1. start + 1 \in start .. n + 1 /\ start + 1 > start
        BY <1>1, <2>1
      <3> HIDE DEF c, n
      <3> QED BY <3>1 DEF Advances, Token, n
    <2>3. Advances(t, start, Token("error", start, start + 1))
      <3>1. start + 1 \in start .. n + 1 /\ start + 1 > start
        BY <1>1, <2>1
      <3> HIDE DEF c, n
      <3> QED BY <3>1 DEF Advances, Token, n
    <2>4. /\ Advances(t, start, ReadString(t, start))
          /\ Advances(t, start, ReadComment(t, start))
          /\ Advances(t, start, ReadSigned(t, start))
      BY <2>1, StringEnds, CommentEnds, SignedEnds
    <2>5. Advances(t, start, Token("number", start, NumberEnd(t, start + 1)))
      <3>1. start + 1 \in Place(t)
        BY <1>1, <2>1 DEF Place
      <3>2. NumberEnd(t, start + 1) \in start + 1 .. n + 1
        BY <3>1, NumberEnds
      <3> HIDE DEF n
      <3>3. NumberEnd(t, start + 1) \in start .. n + 1 /\ NumberEnd(t, start + 1) > start
        BY <1>1, <1>2, <3>2
      <3> QED BY <3>3 DEF Advances, Token, n
    <2>6. /\ Advances(t, start, ReadWord(t, start, "true", <<"r", "u", "e">>))
          /\ Advances(t, start, ReadWord(t, start, "false", <<"a", "l", "s", "e">>))
          /\ Advances(t, start, ReadWord(t, start, "null", <<"u", "l", "l">>))
      <3>1. \A S : \A rest \in Seq(S) : IsSeq(rest)
        BY AnySeq
      <3>2. /\ <<"r", "u", "e">> \in Seq({"r", "u", "e"})
            /\ <<"u", "l", "l">> \in Seq({"u", "l"})
        OBVIOUS
      <3>3. <<"a", "l", "s", "e">> \in Seq({"a", "l", "s", "e"})
        OBVIOUS
      <3> QED BY <2>1, <3>1, <3>2, <3>3, WordEnds
    <2>7. Advances(t, start, token)
      <3>1. token \in {Token(c, start, start + 1), Token("error", start, start + 1),
                       ReadString(t, start), ReadComment(t, start), ReadSigned(t, start),
                       Token("number", start, NumberEnd(t, start + 1)),
                       ReadWord(t, start, "true", <<"r", "u", "e">>),
                       ReadWord(t, start, "false", <<"a", "l", "s", "e">>),
                       ReadWord(t, start, "null", <<"u", "l", "l">>)}
        BY <1>4 DEF ReadToken, start
      <3> QED BY <2>2, <2>3, <2>4, <2>5, <2>6, <3>1
    <2> HIDE DEF token
    <2>8. token.end \in start .. n + 1 /\ (token.type # "end" => token.end > start)
      BY <2>7 DEF Advances
    <2> HIDE DEF n
    <2>9. token.end \in p .. n + 1 /\ (token.type # "end" => token.end > p)
      BY <1>1, <1>2, <2>8
    <2> QED BY <2>9 DEF n, token
  <1>5. CASE c = NUL
    <2>1. token = Token("end", start, Min({start + 1, n + 1}))
      <3>1. c \notin Punctuation \cup Digit \cup {"\"", "/", "-", "+", "t", "f", "n"}
        BY <1>5 DEF NUL, Punctuation, Digit
      <3> HIDE DEF start, c, n
      <3> QED BY <1>5, <3>1 DEF ReadToken, start, c, n
    <2>2. Min({start + 1, n + 1}) \in p .. n + 1
      <3> HIDE DEF start, n
      <3>1. {start + 1, n + 1} \subseteq Nat
        BY <1>1, <1>2
      <3>2. Min({start + 1, n + 1}) \in {start + 1, n + 1} /\ Min({start + 1, n + 1}) <= n + 1
        BY <3>1, Least
      <3> QED BY <1>1, <1>2, <3>2
    <2> HIDE DEF token, start, n
    <2>3. token.end \in p .. n + 1 /\ token.type = "end"
      BY <2>1, <2>2 DEF Token
    <2> QED BY <2>3 DEF token, n
  <1> QED BY <1>4, <1>5

-----------------------------------------------------------------------------
(* Loops over the tokens *)

\* What holds of a position if it does of all that follow, holds of them all.
LEMMA Backwards ==
    ASSUME NEW n \in Nat, NEW T,
           \A p \in 1 .. n : (\A q \in p + 1 .. n : q \in T) => p \in T
    PROVE  \A p \in 1 .. n : p \in T
  <1> SUFFICES ASSUME NEW j \in 1 .. n, j \notin T
               PROVE  FALSE
    OBVIOUS
  <1> DEFINE Out == {d \in 0 .. n - 1 : n - d \notin T}
  <1>1. n - j \in 0 .. n - 1 /\ n - (n - j) = j
    OBVIOUS
  <1>2. n - j \in Out
    BY <1>1
  <1>3. Out \subseteq Nat
    OBVIOUS
  <1>4. Min(Out) \in Out /\ \A d \in Out : Min(Out) <= d
    BY <1>2, <1>3, Least
  <1>5. PICK d \in Out : \A e \in Out : d <= e
    BY <1>4
  <1>6. d \in 0 .. n - 1 /\ n - d \in 1 .. n /\ n - d \notin T
    OBVIOUS
  <1>7. \A q \in (n - d) + 1 .. n : q \in T
    <2> SUFFICES ASSUME NEW q \in (n - d) + 1 .. n, q \notin T
                 PROVE  FALSE
      OBVIOUS
    <2>1. n - q \in 0 .. n - 1 /\ n - (n - q) = q /\ ~(d <= n - q)
      BY <1>6
    <2>2. n - q \in Out
      BY <2>1
    <2> HIDE DEF Out
    <2> QED BY <1>5, <2>1, <2>2
  <1> HIDE DEF Out
  <1> QED BY <1>6, <1>7

\* f is what a loop computes that stops at some positions, with a value, and
\* jumps from the others.
IsLoop(f, n, stop, value, jump) ==
    f = [q \in 1 .. n |-> IF q \in stop THEN value[q] ELSE f[jump[q]]]

\* A loop that goes on at a later position, or stops, computes something.
LEMMA LoopDefined ==
    ASSUME NEW n \in Nat \ {0}, NEW stop, NEW value, NEW jump,
           \A q \in 1 .. n : q \notin stop => jump[q] \in q + 1 .. n
    PROVE  \E f : IsLoop(f, n, stop, value, jump)
  <1> DEFINE Loop(f, p) == f = [q \in p .. n |-> IF q \in stop THEN value[q] ELSE f[jump[q]]]
             T == {p \in 1 .. n : \E f : Loop(f, p)}
  <1>1. ASSUME NEW p \in 1 .. n, \A q \in p + 1 .. n : q \in T
        PROVE  p \in T
    <2>1. \E f : p < n => Loop(f, p + 1)
      <3>1. CASE p < n
        <4>1. p + 1 \in p + 1 .. n
          BY <3>1
        <4>2. p + 1 \in T
          BY <1>1, <4>1
        <4> HIDE DEF Loop
        <4> QED BY <4>2
      <3>2. CASE ~(p < n)
        BY <3>2
      <3> QED BY <3>1, <3>2
    <2>2. PICK f : p < n => Loop(f, p + 1)
      BY <2>1
    <2> DEFINE g == [q \in p .. n |->
                        IF q = p THEN IF p \in stop THEN value[p] ELSE f[jump[p]] ELSE f[q]]
               h == [q \in p .. n |-> IF q \in stop THEN value[q] ELSE g[jump[q]]]
    <2>3. ASSUME NEW q \in p .. n
          PROVE  g[q] = h[q]
      <3>1. \A k \in p .. n : g[k] = IF k = p THEN IF p \in stop THEN value[p] ELSE f[jump[p]] ELSE f[k]
        OBVIOUS
      <3>2. h[q] = IF q \in stop THEN value[q] ELSE g[jump[q]]
        OBVIOUS
      <3>3. q \in 1 .. n
        OBVIOUS
      <3>4. q \notin stop => jump[q] \in p .. n /\ jump[q] # p
        <4>1. q \notin stop => jump[q] \in q + 1 .. n
          BY <3>3
        <4>2. \A k \in q + 1 .. n : k \in p .. n /\ k # p
          OBVIOUS
        <4> QED BY <4>1, <4>2
      <3> HIDE DEF g, h
      <3>5. q \notin stop => g[jump[q]] = f[jump[q]]
        BY <3>1, <3>4
      <3>6. CASE q = p
        BY <3>1, <3>2, <3>5, <3>6
      <3>7. CASE q # p
        <4>1. p < n /\ q \in p + 1 .. n
          BY <3>7
        <4>2. f[q] = IF q \in stop THEN value[q] ELSE f[jump[q]]
          BY <2>2, <4>1
        <4> QED BY <3>1, <3>2, <3>5, <3>7, <4>2
      <3> QED BY <3>6, <3>7
    <2>4. g = h
      BY <2>3
    <2>5. Loop(g, p)
      BY <2>4
    <2> HIDE DEF g, Loop
    <2> QED BY <2>5
  <1>2. 1 \in T
    <2>1. n \in Nat /\ 1 \in 1 .. n
      OBVIOUS
    <2> HIDE DEF T
    <2> QED BY <1>1, <2>1, Backwards
  <1>3. \E f : Loop(f, 1)
    BY <1>2
  <1> QED BY <1>3 DEF IsLoop

\* skipCommentTokens: a comment is skipped, whatever else follows is taken.
LEMMA SkipCommentsStep ==
    ASSUME NEW t, IsSeq(t), NEW p \in Place(t)
    PROVE  SkipComments(t, p) =
              IF ReadToken(t, p).type = "comment" THEN SkipComments(t, ReadToken(t, p).end)
                                                  ELSE ReadToken(t, p)
  <1> DEFINE n == Len(t) + 1
             Loop(f) == f = [q \in 1 .. n |->
                                IF ReadToken(t, q).type = "comment" THEN f[ReadToken(t, q).end]
                                                                    ELSE ReadToken(t, q)]
             next == CHOOSE f : Loop(f)
             stop == {q \in 1 .. n : ReadToken(t, q).type # "comment"}
             value == [q \in 1 .. n |-> ReadToken(t, q)]
             jump == [q \in 1 .. n |-> ReadToken(t, q).end]
  <1>1. n \in Nat \ {0}
    BY DEF IsSeq
  <1>2. \A q \in 1 .. n : /\ ReadToken(t, q).end \in q .. n
                          /\ ReadToken(t, q).type # "end" => ReadToken(t, q).end > q
    BY TokenEnds DEF Place
  <1>3. \A q \in 1 .. n : q \notin stop => jump[q] \in q + 1 .. n
    <2> SUFFICES ASSUME NEW q \in 1 .. n, q \notin stop
                 PROVE  jump[q] \in q + 1 .. n
      OBVIOUS
    <2>1. jump[q] = ReadToken(t, q).end /\ ReadToken(t, q).type = "comment"
      OBVIOUS
    <2> HIDE DEF jump, stop, value
    <2>2. ReadToken(t, q).end \in q .. n /\ ReadToken(t, q).end > q
      BY <1>2, <2>1
    <2> HIDE DEF n
    <2> QED BY <1>1, <2>1, <2>2
  <1>4. \E f : Loop(f)
    <2>1. \E f : IsLoop(f, n, stop, value, jump)
      <3> HIDE DEF n, stop, value, jump
      <3> QED BY <1>1, <1>3, LoopDefined
    <2>2. PICK f : f = [q \in 1 .. n |-> IF q \in stop THEN value[q] ELSE f[jump[q]]]
      <3> HIDE DEF n, stop, value, jump
      <3> QED BY <2>1 DEF IsLoop
    <2>3. \A q \in 1 .. n : (IF q \in stop THEN value[q] ELSE f[jump[q]])
                            = IF ReadToken(t, q).type = "comment" THEN f[ReadToken(t, q).end]
                                                                  ELSE ReadToken(t, q)
      OBVIOUS
    <2> HIDE DEF stop, value, jump
    <2>4. Loop(f)
      BY <2>2, <2>3
    <2> HIDE DEF Loop
    <2> QED BY <2>4
  <1>5. Loop(next)
    <2> HIDE DEF Loop
    <2> QED BY <1>4
  <1>6. \A q : SkipComments(t, q) = next[q]
    BY DEF SkipComments
  <1>7. p \in 1 .. n
    BY DEF Place
  <1>8. next[p] = IF ReadToken(t, p).type = "comment" THEN next[ReadToken(t, p).end]
                                                      ELSE ReadToken(t, p)
    <2> HIDE DEF next, n
    <2> QED BY <1>5, <1>7
  <1> HIDE DEF next
  <1> QED BY <1>6, <1>8

(***************************************************************************)
(* Whatever comments stand there, skipping them stays within the text and, *)
(* unless it finds the end, gets further in it.                            *)
(***************************************************************************)
LEMMA SkipCommentsEnds ==
    ASSUME NEW t, IsSeq(t), NEW p \in Place(t)
    PROVE  LET token == ReadToken(t, p)
               next == SkipComments(t, p)
           IN  /\ next.end \in p .. Len(t) + 1
               /\ next.type # "end" \/ token.type # "end" => next.end > p
  <1> DEFINE n == Len(t) + 1
             Ends(q) == /\ SkipComments(t, q).end \in q .. n
                        /\ SkipComments(t, q).type # "end" \/ ReadToken(t, q).type # "end"
                           => SkipComments(t, q).end > q
             T == {q \in 1 .. n : Ends(q)}
  <1>1. n \in Nat
    BY DEF IsSeq
  <1>2. ASSUME NEW q \in 1 .. n, \A r \in q + 1 .. n : r \in T
        PROVE  q \in T
    <2> DEFINE token == ReadToken(t, q)
    <2>1. token.end \in q .. n /\ (token.type # "end" => token.end > q)
      BY TokenEnds DEF Place
    <2>2. SkipComments(t, q) =
             IF token.type = "comment" THEN SkipComments(t, token.end) ELSE token
      BY SkipCommentsStep DEF Place
    <2>3. token.type = "comment" => SkipComments(t, token.end).end \in token.end .. n
      <3>1. token.type = "comment" => token.end \in q + 1 .. n
        <4> HIDE DEF token, n
        <4> QED BY <1>1, <2>1
      <3> HIDE DEF token, n
      <3> QED BY <1>2, <3>1
    <2> HIDE DEF n
    <2>4. Ends(q)
      <3> HIDE DEF token
      <3>1. /\ SkipComments(t, q).end \in q .. n
            /\ SkipComments(t, q).type # "end" \/ token.type # "end" => SkipComments(t, q).end > q
        <4>1. CASE token.type = "comment"
          <5>1. /\ SkipComments(t, q) = SkipComments(t, token.end)
                /\ SkipComments(t, token.end).end \in token.end .. n
                /\ token.end \in q .. n /\ token.end > q
            BY <2>1, <2>2, <2>3, <4>1
          <5> QED BY <1>1, <5>1
        <4>2. CASE token.type # "comment"
          BY <2>1, <2>2, <4>2
        <4> QED BY <4>1, <4>2
      <3> QED BY <3>1 DEF token
    <2> HIDE DEF Ends
    <2> QED BY <2>4
  <1>3. \A q \in 1 .. n : q \in T
    <2> HIDE DEF T, n
    <2> QED BY <1>1, <1>2, Backwards
  <1>4. Ends(p)
    <2> HIDE DEF Ends
    <2> QED BY <1>3 DEF Place
  <1> QED BY <1>4

(***************************************************************************)
(* recoverFromError stays within the text, whatever mark it looks for.     *)
(***************************************************************************)
LEMMA RecoverEnds ==
    ASSUME NEW t, IsSeq(t), NEW p \in Place(t), NEW type
    PROVE  Recover(t, p, type) \in p .. Len(t) + 1
  <1> DEFINE n == Len(t) + 1
             Loop(f) == f = [q \in 1 .. n |->
                                IF ReadToken(t, q).type \in {type, "end"} THEN ReadToken(t, q).end
                                                                          ELSE f[ReadToken(t, q).end]]
             skip == CHOOSE f : Loop(f)
             stop == {q \in 1 .. n : ReadToken(t, q).type \in {type, "end"}}
             jump == [q \in 1 .. n |-> ReadToken(t, q).end]
             T == {q \in 1 .. n : skip[q] \in q .. n}
  <1>1. n \in Nat \ {0}
    BY DEF IsSeq
  <1>2. \A q \in 1 .. n : /\ ReadToken(t, q).end \in q .. n
                          /\ ReadToken(t, q).type # "end" => ReadToken(t, q).end > q
    BY TokenEnds DEF Place
  <1>3. \A q \in 1 .. n : q \notin stop => jump[q] \in q + 1 .. n
    <2> SUFFICES ASSUME NEW q \in 1 .. n, q \notin stop
                 PROVE  jump[q] \in q + 1 .. n
      OBVIOUS
    <2>1. jump[q] = ReadToken(t, q).end /\ ReadToken(t, q).type # "end"
      OBVIOUS
    <2> HIDE DEF jump, stop
    <2>2. ReadToken(t, q).end \in q .. n /\ ReadToken(t, q).end > q
      BY <1>2, <2>1
    <2> HIDE DEF n
    <2> QED BY <1>1, <2>1, <2>2
  <1>4. \E f : Loop(f)
    <2>1. \E f : IsLoop(f, n, stop, jump, jump)
      <3> HIDE DEF n, stop, jump
      <3> QED BY <1>1, <1>3, LoopDefined
    <2>2. PICK f : f = [q \in 1 .. n |-> IF q \in stop THEN jump[q] ELSE f[jump[q]]]
      <3> HIDE DEF n, stop, jump
      <3> QED BY <2>1 DEF IsLoop
    <2>3. \A q \in 1 .. n : (IF q \in stop THEN jump[q] ELSE f[jump[q]])
                            = IF ReadToken(t, q).type \in {type, "end"} THEN ReadToken(t, q).end
                                                                        ELSE f[ReadToken(t, q).end]
      OBVIOUS
    <2> HIDE DEF stop, jump
    <2>4. Loop(f)
      BY <2>2, <2>3
    <2> HIDE DEF Loop
    <2> QED BY <2>4
  <1>5. Loop(skip)
    <2> HIDE DEF Loop
    <2> QED BY <1>4
  <1>6. Recover(t, p, type) = skip[p]
    BY DEF Recover
  <1>7. ASSUME NEW q \in 1 .. n, \A r \in q + 1 .. n : r \in T
        PROVE  q \in T
    <2> DEFINE token == ReadToken(t, q)
    <2>1. token.end \in q .. n /\ (token.type # "end" => token.end > q)
      BY <1>2
    <2>2. skip[q] = IF token.type \in {type, "end"} THEN token.end ELSE skip[token.end]
      <3> HIDE DEF skip, n
      <3> QED BY <1>5
    <2> HIDE DEF skip, token, n
    <2>3. CASE token.type \in {type, "end"}
      BY <2>1, <2>2, <2>3
    <2>4. CASE token.type \notin {type, "end"}
      <3>1. token.end \in q + 1 .. n
        BY <1>1, <2>1, <2>4
      <3>2. skip[token.end] \in token.end .. n
        BY <1>7, <3>1
      <3>3. skip[q] \in q .. n
        BY <1>1, <2>2, <2>4, <3>1, <3>2
      <3> QED BY <3>3
    <2> QED BY <2>3, <2>4
  <1>8. \A q \in 1 .. n : q \in T
    <2>1. n \in Nat
      BY <1>1
    <2> HIDE DEF T, n
    <2> QED BY <1>7, <2>1, Backwards
  <1>9. p \in T
    BY <1>8 DEF Place
  <1> QED BY <1>6, <1>9

-----------------------------------------------------------------------------
(* nodes_ *)

LEMMA StoredStack ==
    ASSUME IsSeq(nodes), Len(nodes) >= 1, NEW v
    PROVE  IsSeq(Stored(v)) /\ Len(Stored(v)) = Len(nodes)
  <1> DEFINE n == Len(nodes)
             S == {Stored(v)[k] : k \in 1 .. n}
  <1>1. n \in Nat /\ DOMAIN nodes = 1 .. n
    BY DEF IsSeq
  <1>2. Stored(v) \in [1 .. n -> S]
    <2> HIDE DEF n
    <2> QED BY <1>1 DEF Stored
  <1> HIDE DEF S
  <1>3. Stored(v) \in Seq(S) /\ Len(Stored(v)) = n
    <2> HIDE DEF n
    <2> QED BY <1>1, <1>2
  <1>4. DOMAIN Stored(v) = 1 .. n
    BY <1>2
  <1> QED BY <1>2, <1>3, <1>4 DEF IsSeq, Range

LEMMA PoppedStack ==
    ASSUME NEW stack, IsSeq(stack), Len(stack) >= 2
    PROVE  IsSeq(Popped(stack)) /\ Len(Popped(stack)) = Len(stack) - 1
  <1> DEFINE n == Len(stack) - 1
             S == {Popped(stack)[k] : k \in 1 .. n}
  <1>1. n \in Nat
    BY DEF IsSeq
  <1>2. Popped(stack) \in [1 .. n -> S]
    <2>1. Popped(stack) = [k \in 1 .. n |-> Popped(stack)[k]]
      BY DEF Popped
    <2> HIDE DEF n
    <2> QED BY <2>1
  <1> HIDE DEF S
  <1>3. Popped(stack) \in Seq(S) /\ Len(Popped(stack)) = n
    <2> HIDE DEF n
    <2> QED BY <1>1, <1>2
  <1>4. DOMAIN Popped(stack) = 1 .. n
    BY <1>2
  <1> QED BY <1>2, <1>3, <1>4 DEF IsSeq, Range

LEMMA PushedStack ==
    ASSUME IsSeq(nodes), NEW key
    PROVE  IsSeq(Pushed(key)) /\ Len(Pushed(key)) = Len(nodes) + 1
  <1> SUFFICES ASSUME NEW e
               PROVE  IsSeq(Append(nodes, e)) /\ Len(Append(nodes, e)) = Len(nodes) + 1
    BY DEF Pushed
  <1> DEFINE S == Range(nodes) \cup {e}
  <1>1. nodes \in Seq(S) /\ e \in S
    BY DEF IsSeq
  <1> HIDE DEF S
  <1>2. Append(nodes, e) \in Seq(S) /\ Len(Append(nodes, e)) = Len(nodes) + 1
    BY <1>1
  <1> QED BY <1>2, AnySeq

-----------------------------------------------------------------------------
(* The steps of the reader *)

\* How far a step gets: ReadingAdvances of one step.
Progress ==
    \/ at' > at
    \/ at' = at /\ Distance(expects') < Distance(expects)
    \/ at' = at /\ expects' = expects /\ Len(nodes') < Len(nodes)

LEMMA Distances ==
    /\ Distance("thrown") < Distance("value")
    /\ Distance("done") < Distance("end")
    /\ Distance("end") < Distance("failure")
    /\ \A e \in {"separator", "name", "value"} : Distance("failure") < Distance(e)
    /\ Distance("value") < Distance("element")
  <1>1. \A k \in DOMAIN WayOut : Distance(WayOut[k]) = k
    <2> SUFFICES ASSUME NEW k \in DOMAIN WayOut PROVE Distance(WayOut[k]) = k
      OBVIOUS
    <2>1. \A j \in DOMAIN WayOut : WayOut[j] = WayOut[k] => j = k
      BY DEF WayOut
    <2> QED BY <2>1 DEF Distance
  <1>2. /\ DOMAIN WayOut = 1 .. 8
        /\ WayOut[1] = "done" /\ WayOut[2] = "thrown" /\ WayOut[3] = "end" /\ WayOut[4] = "failure"
        /\ WayOut[5] = "separator" /\ WayOut[6] = "name" /\ WayOut[7] = "value" /\ WayOut[8] = "element"
    BY DEF WayOut
  <1>3. /\ Distance("done") = 1 /\ Distance("thrown") = 2 /\ Distance("end") = 3 /\ Distance("failure") = 4
        /\ Distance("separator") = 5 /\ Distance("name") = 6 /\ Distance("value") = 7 /\ Distance("element") = 8
    <2>1. \A k \in 1 .. 8 : Distance(WayOut[k]) = k
      BY <1>1, <1>2
    <2> QED BY <1>2, <2>1
  <1> QED BY <1>3

(***************************************************************************)
(* The invariant: the reader is somewhere in the text, and the stack holds *)
(* the root and no more values than readValue's limit lets it; inside a    *)
(* container, and behind a value that was read, it is not above the limit. *)
(***************************************************************************)
ReaderInv ==
    /\ IsSeq(text) /\ at \in Place(text)
    /\ IsSeq(nodes) /\ Len(nodes) \in 1 .. stackLimit + 1
    /\ expects \in {"name", "element", "separator"} => Len(nodes) <= stackLimit

\* The positions a step may leave the reader at.
Ahead == at .. Len(text) + 1

LEMMA AheadIsPlace == ASSUME ReaderInv, NEW p \in Ahead PROVE p \in Place(text) /\ p >= at
  <1> DEFINE n == Len(text)
  <1>1. n \in Nat /\ at \in 1 .. n + 1 /\ p \in at .. n + 1
    BY DEF ReaderInv, IsSeq, Place, Ahead
  <1> HIDE DEF n
  <1>2. p \in 1 .. n + 1 /\ p >= at
    BY <1>1
  <1> QED BY <1>2 DEF Place, n

\* readValue returns true to a container, or to parse.
LEMMA ReturnKeeps ==
    ASSUME ReaderInv, NEW v, NEW p \in Ahead, p > at, Return(v, p), Len(nodes) <= stackLimit
    PROVE  ReaderInv' /\ Progress
  <1>1. text' = text /\ at' = p /\ p \in Place(text)
    BY AheadIsPlace DEF Return
  <1>2. /\ IsSeq(nodes) /\ Len(nodes) \in Nat /\ Len(nodes) >= 1
    BY StackAssumption DEF ReaderInv
  <1>3. IsSeq(Stored(v)) /\ Len(Stored(v)) = Len(nodes)
    BY <1>2, StoredStack
  <1>4. CASE Len(nodes) = 1
    <2>1. nodes' = Stored(v) /\ expects' = "end"
      BY <1>4 DEF Return
    <2> QED BY <1>1, <1>3, <2>1 DEF ReaderInv, Progress
  <1>5. CASE Len(nodes) # 1
    <2>1. nodes' = Popped(Stored(v)) /\ expects' = "separator"
      BY <1>5 DEF Return
    <2>2. Len(Stored(v)) >= 2
      BY <1>2, <1>3, <1>5
    <2>3. IsSeq(nodes') /\ Len(nodes') = Len(nodes) - 1
      BY <1>3, <2>1, <2>2, PoppedStack
    <2>4. Len(nodes') \in 1 .. stackLimit + 1 /\ Len(nodes') <= stackLimit
      BY <1>2, <1>5, <2>3, StackAssumption
    <2> QED BY <1>1, <2>3, <2>4 DEF ReaderInv, Progress
  <1> QED BY <1>4, <1>5

\* addErrorAndRecover.
LEMMA FailKeeps ==
    ASSUME ReaderInv, NEW p \in Ahead, Fail(p), expects \in {"name", "separator"}
    PROVE  ReaderInv' /\ Progress
  <1> DEFINE n == Len(text) + 1
  <1>1. text' = text /\ nodes' = nodes /\ expects' = "failure"
    BY DEF Fail
  <1>2. p \in Place(text) /\ p >= at
    BY AheadIsPlace
  <1>3. at' \in p .. n
    BY <1>2, RecoverEnds DEF Fail, ReaderInv
  <1>4. at' \in 1 .. n /\ at' >= at
    <2>1. n \in Nat /\ p \in 1 .. n /\ at \in 1 .. n
      BY <1>2 DEF ReaderInv, Place, IsSeq
    <2> HIDE DEF n
    <2> QED BY <1>2, <1>3, <2>1
  <1>5. at' > at \/ at' = at
    <2>1. at \in Int /\ at' \in Int
      BY <1>4 DEF ReaderInv, Place
    <2> QED BY <1>4, <2>1
  <1>6. Distance(expects') < Distance(expects)
    BY <1>1, Distances
  <1> QED BY <1>1, <1>4, <1>5, <1>6 DEF ReaderInv, Progress, Place

LEMMA ContinueKeeps ==
    ASSUME ReaderInv, NEW next, NEW p \in Ahead, p > at, Continue(next, p), Len(nodes) <= stackLimit
    PROVE  ReaderInv' /\ Progress
  <1>1. p \in Place(text)
    BY AheadIsPlace
  <1> QED BY <1>1 DEF ReaderInv, Progress, Continue

\* A member or an element is begun.
LEMMA DescendKeeps ==
    ASSUME ReaderInv, NEW key, NEW p \in Ahead, Descend(key, p), Len(nodes) <= stackLimit,
           p > at \/ expects = "element"
    PROVE  ReaderInv' /\ Progress
  <1>1. p \in Place(text) /\ p >= at
    BY AheadIsPlace
  <1>2. text' = text /\ at' = p /\ expects' = "value" /\ nodes' = Pushed(key)
    BY DEF Descend
  <1>3. IsSeq(nodes') /\ Len(nodes') = Len(nodes) + 1
    BY <1>2, PushedStack DEF ReaderInv
  <1>4. Len(nodes') \in 1 .. stackLimit + 1
    BY <1>3, StackAssumption DEF ReaderInv
  <1>5. Progress
    <2>1. at' > at \/ (at' = at /\ expects = "element")
      <3>1. p \in Int /\ at \in Int
        BY <1>1 DEF ReaderInv, Place
      <3> QED BY <1>1, <1>2, <3>1
    <2> QED BY <1>2, <2>1, Distances DEF Progress
  <1> QED BY <1>1, <1>2, <1>3, <1>4, <1>5 DEF ReaderInv

LEMMA BeginKeeps == ASSUME ReaderInv, Begin PROVE ReaderInv' /\ Progress
  <1> DEFINE token == SkipComments(text, at)
  <1>1. /\ token.type \in {"{", "["} /\ at' = token.end /\ text' = text
        /\ \E v : nodes' = Stored(v)
        /\ expects' \in {"name", "element"} /\ Len(nodes) <= stackLimit
    BY DEF Begin, ReadsValue
  <1>2. token.end \in Ahead /\ token.end > at
    BY <1>1, SkipCommentsEnds DEF ReaderInv, Ahead
  <1>3. token.end \in Place(text)
    BY <1>2, AheadIsPlace
  <1>4. IsSeq(nodes') /\ Len(nodes') = Len(nodes)
    <2>1. Len(nodes) >= 1
      BY StackAssumption DEF ReaderInv
    <2> QED BY <1>1, <2>1, StoredStack DEF ReaderInv
  <1> QED BY <1>1, <1>2, <1>3, <1>4 DEF ReaderInv, Progress

LEMMA ReadScalarKeeps == ASSUME ReaderInv, ReadScalar PROVE ReaderInv' /\ Progress
  <1> DEFINE token == SkipComments(text, at)
  <1>1. PICK v \in Scalar(text, token) : Return(v, token.end)
    BY DEF ReadScalar
  <1>2. token.type # "end"
    BY <1>1 DEF Scalar
  <1>3. token.end \in Ahead /\ token.end > at
    BY <1>2, SkipCommentsEnds DEF ReaderInv, Ahead
  <1>4. Len(nodes) <= stackLimit
    BY DEF ReadScalar, ReadsValue
  <1> HIDE DEF token
  <1> QED BY <1>1, <1>3, <1>4, ReturnKeeps

LEMMA ReadNoValueKeeps == ASSUME ReaderInv, ReadNoValue PROVE ReaderInv' /\ Progress
  <1> DEFINE token == SkipComments(text, at)
  <1>1. /\ at' = token.end /\ text' = text /\ nodes' = nodes
        /\ expects = "value" /\ expects' = "failure"
    BY DEF ReadNoValue, ReadsValue
  <1>2. token.end \in Ahead
    BY SkipCommentsEnds DEF ReaderInv, Ahead
  <1>3. token.end \in Place(text) /\ token.end >= at
    BY <1>2, AheadIsPlace
  <1>4. at' > at \/ at' = at
    BY <1>1, <1>3 DEF ReaderInv, Place
  <1>5. Distance(expects') < Distance(expects)
    BY <1>1, Distances
  <1> HIDE DEF token
  <1> QED BY <1>1, <1>3, <1>4, <1>5 DEF ReaderInv, Progress

LEMMA UnwindKeeps == ASSUME ReaderInv, Unwind PROVE ReaderInv' /\ Progress
  <1>1. text' = text /\ expects = "failure" /\ Len(nodes) \in Nat /\ Len(nodes) >= 1
    BY StackAssumption DEF Unwind, ReaderInv
  <1>2. CASE Len(nodes) = 1
    <2>1. expects' = "end" /\ nodes' = nodes /\ at' = at
      BY <1>2 DEF Unwind
    <2> QED BY <1>1, <2>1, Distances DEF ReaderInv, Progress
  <1>3. CASE Len(nodes) # 1
    <2> DEFINE mark == Closing(nodes[Len(nodes) - 1].value)
    <2>1. expects' = expects /\ nodes' = Popped(nodes) /\ at' = Recover(text, at, mark)
      BY <1>3 DEF Unwind
    <2> HIDE DEF mark
    <2>2. at' \in Ahead
      BY <2>1, RecoverEnds DEF ReaderInv, Ahead
    <2>3. at' \in Place(text) /\ at' >= at
      BY <2>2, AheadIsPlace
    <2>4. Len(nodes) >= 2
      <3>1. \A k \in Nat : k >= 1 /\ k # 1 => k >= 2
        OBVIOUS
      <3> QED BY <1>1, <1>3, <3>1
    <2>5. IsSeq(nodes') /\ Len(nodes') = Len(nodes) - 1
      BY <2>1, <2>4, PoppedStack DEF ReaderInv
    <2>6. Len(nodes') \in 1 .. stackLimit + 1 /\ Len(nodes') < Len(nodes)
      BY <1>1, <2>4, <2>5, StackAssumption DEF ReaderInv
    <2>7. at' > at \/ at' = at
      BY <2>3 DEF ReaderInv, Place
    <2> QED BY <1>1, <2>1, <2>3, <2>5, <2>6, <2>7 DEF ReaderInv, Progress
  <1> QED BY <1>2, <1>3

LEMMA ReadNameKeeps == ASSUME ReaderInv, ReadName PROVE ReaderInv' /\ Progress
  <1> DEFINE name == SkipComments(text, at)
             colon == ReadToken(text, name.end)
  <1>1. expects = "name" /\ Len(nodes) <= stackLimit
    BY DEF ReadName, ReaderInv
  <1>2. name.end \in Ahead /\ (name.type # "end" => name.end > at)
    BY SkipCommentsEnds DEF ReaderInv, Ahead
  <1>3. name.end \in Place(text) /\ name.end >= at
    BY <1>2, AheadIsPlace
  <1>4. colon.end \in Ahead /\ (name.type # "end" => colon.end > at)
    <2> DEFINE n == Len(text) + 1
    <2>1. colon.end \in name.end .. n
      BY <1>3, TokenEnds DEF ReaderInv
    <2>2. n \in Nat /\ at \in 1 .. n /\ name.end \in 1 .. n
      BY <1>3 DEF ReaderInv, Place, IsSeq
    <2> HIDE DEF n, colon, name
    <2>3. colon.end \in at .. n /\ (name.type # "end" => colon.end > at)
      BY <1>2, <1>3, <2>1, <2>2
    <2> QED BY <2>3 DEF Ahead, n
  <1>5. \/ name.type = "}" /\ Return(currentValue, name.end)
        \/ Fail(name.end) \/ Fail(colon.end)
        \/ name.type = "string" /\ \E key : Descend(key, colon.end)
    BY DEF ReadName
  <1> HIDE DEF name, colon
  <1>6. CASE name.type = "}" /\ Return(currentValue, name.end)
    BY <1>1, <1>2, <1>6, ReturnKeeps
  <1>7. CASE Fail(name.end) \/ Fail(colon.end)
    BY <1>1, <1>2, <1>4, <1>7, FailKeeps
  <1>8. CASE name.type = "string" /\ \E key : Descend(key, colon.end)
    BY <1>1, <1>4, <1>8, DescendKeeps
  <1> QED BY <1>5, <1>6, <1>7, <1>8

LEMMA EndMemberKeeps == ASSUME ReaderInv, EndMember PROVE ReaderInv' /\ Progress
  <1> DEFINE comma == ReadToken(text, at)
             next == SkipComments(text, at)
  <1>1. expects = "separator" /\ Len(nodes) <= stackLimit
    BY DEF EndMember, ReaderInv
  <1>2. /\ next.end \in Ahead /\ comma.end \in Ahead
        /\ comma.type # "end" => next.end > at
    BY SkipCommentsEnds, TokenEnds DEF ReaderInv, Ahead
  <1>3. \/ comma.type # "end" /\ (Return(currentValue, next.end) \/ Continue("name", next.end))
        \/ Fail(comma.end)
    BY DEF EndMember
  <1> HIDE DEF comma, next
  <1>4. CASE Fail(comma.end)
    BY <1>1, <1>2, <1>4, FailKeeps
  <1>5. CASE comma.type # "end" /\ (Return(currentValue, next.end) \/ Continue("name", next.end))
    BY <1>1, <1>2, <1>5, ReturnKeeps, ContinueKeeps
  <1> QED BY <1>3, <1>4, <1>5

LEMMA ReadElementKeeps == ASSUME ReaderInv, ReadElement PROVE ReaderInv' /\ Progress
  <1> DEFINE p == Behind(text, at, Space)
             n == Len(text)
  <1>1. expects = "element" /\ Len(nodes) <= stackLimit
    BY DEF ReadElement, ReaderInv
  <1>2. p \in Ahead
    BY BehindIs DEF ReaderInv, Ahead
  <1>3. p \in Place(text) /\ p >= at
    BY <1>2, AheadIsPlace
  <1>4. \/ CharAt(text, p) = "]" /\ Return(currentValue, p + 1)
        \/ Descend(Size(currentValue), p)
    BY DEF ReadElement
  <1> HIDE DEF p
  <1>5. CASE CharAt(text, p) = "]" /\ Return(currentValue, p + 1)
    <2>1. p \in Nat /\ CharAt(text, p) # NUL
      BY <1>3, <1>5 DEF Place, NUL
    <2>2. p <= n
      BY <2>1, CharIs DEF ReaderInv
    <2>3. n \in Nat /\ at \in 1 .. n + 1
      BY DEF ReaderInv, IsSeq, Place
    <2> HIDE DEF n
    <2>4. p + 1 \in at .. n + 1 /\ p + 1 > at
      BY <1>3, <2>1, <2>2, <2>3
    <2>5. p + 1 \in Ahead
      BY <2>4 DEF Ahead, n
    <2> QED BY <1>1, <1>5, <2>4, <2>5, ReturnKeeps
  <1>6. CASE Descend(Size(currentValue), p)
    BY <1>1, <1>2, <1>6, DescendKeeps
  <1> QED BY <1>4, <1>5, <1>6

LEMMA EndElementKeeps == ASSUME ReaderInv, EndElement PROVE ReaderInv' /\ Progress
  <1> DEFINE token == SkipComments(text, at)
  <1>1. expects = "separator" /\ Len(nodes) <= stackLimit
    BY DEF EndElement, ReaderInv
  <1>2. token.end \in Ahead /\ (token.type # "end" => token.end > at)
    BY SkipCommentsEnds DEF ReaderInv, Ahead
  <1>3. \/ token.type # "end" /\ (Return(currentValue, token.end) \/ Continue("element", token.end))
        \/ Fail(token.end)
    BY DEF EndElement
  <1> HIDE DEF token
  <1>4. CASE Fail(token.end)
    BY <1>1, <1>2, <1>4, FailKeeps
  <1>5. CASE token.type # "end" /\ (Return(currentValue, token.end) \/ Continue("element", token.end))
    BY <1>1, <1>2, <1>5, ReturnKeeps, ContinueKeeps
  <1> QED BY <1>3, <1>4, <1>5

LEMMA FinishKeeps == ASSUME ReaderInv, Finish PROVE ReaderInv' /\ Progress
  <1>1. text' = text /\ nodes' = nodes /\ expects = "end" /\ expects' = "done"
        /\ at' = SkipComments(text, at).end
    BY DEF Finish
  <1>2. at' \in Ahead
    BY <1>1, SkipCommentsEnds DEF ReaderInv, Ahead
  <1>3. at' \in Place(text) /\ at' >= at
    BY <1>2, AheadIsPlace
  <1>4. at' > at \/ at' = at
    BY <1>3 DEF ReaderInv, Place
  <1> QED BY <1>1, <1>3, <1>4, Distances DEF ReaderInv, Progress

\* Every step of readValue, readObject, readArray and parse.
LEMMA ReaderStep == ASSUME ReaderInv, ReaderNext PROVE ReaderInv' /\ Progress
  <1>1. CASE TooDeep
    BY <1>1, Distances DEF TooDeep, ReaderInv, Progress
  <1> QED BY <1>1, BeginKeeps, ReadScalarKeeps, ReadNoValueKeeps, UnwindKeeps, ReadNameKeeps,
             EndMemberKeeps, ReadElementKeeps, EndElementKeeps, FinishKeeps DEF ReaderNext

-----------------------------------------------------------------------------
(* Theorems *)

LEMMA InitReader ==
    ASSUME NEW S, NEW texts \in SUBSET Seq(S), Init(texts)
    PROVE  ReaderInv
  <1>1. PICK t \in texts : Parse(t)
    BY DEF Init
  <1>2. IsSeq(t)
    BY AnySeq
  <1>3. SkipBom(t) \in Place(t)
    <2>1. Len(t) \in Nat
      BY <1>2 DEF IsSeq
    <2>2. CharAt(t, 1) = BOM => 1 <= Len(t)
      BY <1>2, CharIs DEF BOM, NUL
    <2> QED BY <2>1, <2>2 DEF SkipBom, Place
  <1>4. IsSeq(nodes) /\ Len(nodes) = 1
    <2>1. nodes \in Seq({Node(0, NullValue)}) /\ Len(nodes) = 1
      BY <1>1 DEF Parse
    <2> QED BY <2>1, AnySeq
  <1> QED BY <1>1, <1>2, <1>3, <1>4, StackAssumption DEF Parse, ReaderInv

LEMMA StepReader == ASSUME ReaderInv, [Next]_vars PROVE ReaderInv'
  <1>1. CASE ConstructJson
    BY <1>1, ReaderStep DEF ConstructJson
  <1>2. CASE UNCHANGED readerVars
    BY <1>2 DEF readerVars, ReaderInv
  <1>3. ConstructJson \/ UNCHANGED readerVars
    BY DEF Next, vars, ParseThrows, HandleResponse, HandleItem, ItemThrows, AwaitNext, Ended
  <1> QED BY <1>1, <1>2, <1>3

(***************************************************************************)
(* readValue's test of the stack bounds the depth of its calls: whatever   *)
(* the text nests, there is never more than one value beyond the limit.    *)
(***************************************************************************)
THEOREM DepthBounded ==
    ASSUME NEW S, NEW texts \in SUBSET Seq(S)
    PROVE  Init(texts) /\ [][Next]_vars => [](Len(nodes) <= stackLimit + 1)
  <1>1. ReaderInv => Len(nodes) <= stackLimit + 1
    BY StackAssumption DEF ReaderInv
  <1> QED BY <1>1, InitReader, StepReader, PTL

(***************************************************************************)
(* The invariant of the logger's side: what is handled comes from a text   *)
(* that was read to its end, and from one that was rejected, nothing.      *)
(***************************************************************************)
DispatchInv ==
    /\ thread = "parsing" => todo = <<>> /\ observed = <<>>
    /\ thread # "parsing" => expects \in {"done", "thrown"}
    /\ expects = "done" /\ ~successful => thread # "terminated" /\ todo = <<>> /\ observed = <<>>

LEMMA StepDispatch == ASSUME DispatchInv, [Next]_vars PROVE DispatchInv'
  <1>1. CASE ConstructJson
    BY <1>1 DEF ConstructJson, DispatchInv
  <1>2. CASE ParseThrows
    BY <1>2 DEF ParseThrows, readerVars, DispatchInv
  <1>3. CASE HandleResponse
    <2>1. /\ thread = "parsing" /\ expects = "done" /\ expects' = expects /\ successful' = successful
          /\ observed = <<>> /\ observed' = observed /\ thread' \in {"handling", "terminated"}
      BY <1>3 DEF HandleResponse, readerVars, DispatchInv
    <2>2. ~successful => thread' = "handling" /\ todo' = <<>>
      <3> SUFFICES ASSUME ~successful PROVE thread' = "handling" /\ todo' = <<>>
        OBVIOUS
      <3>1. Message = NullValue
        BY DEF Message
      <3>2. IsMember(NullValue, <<"Data">>) = {FALSE} /\ ItemsOf(NullValue) = <<>>
        BY DEF IsMember, ItemsOf, NullValue
      <3> QED BY <1>3, <3>1, <3>2 DEF HandleResponse
    <2> QED BY <2>1, <2>2 DEF DispatchInv
  <1>4. CASE HandleItem
    BY <1>4 DEF HandleItem, readerVars, DispatchInv
  <1>5. CASE ItemThrows
    BY <1>5 DEF ItemThrows, readerVars, DispatchInv
  <1>6. CASE AwaitNext
    BY <1>6 DEF AwaitNext, readerVars, DispatchInv
  <1>7. CASE UNCHANGED vars
    BY <1>7 DEF vars, readerVars, DispatchInv
  <1> QED BY <1>1, <1>2, <1>3, <1>4, <1>5, <1>6, <1>7 DEF Next, Ended

LEMMA InitDispatch == ASSUME NEW texts, Init(texts) PROVE DispatchInv
  BY DEF Init, Parse, DispatchInv

(***************************************************************************)
(* A message the reader rejects leaves no observation behind and does not  *)
(* end the process, wherever in it the error is.                           *)
(***************************************************************************)
THEOREM RejectedIsIgnored ==
    ASSUME NEW texts
    PROVE  Init(texts) /\ [][Next]_vars => []MalformedIgnored
  <1>1. DispatchInv => MalformedIgnored
    BY DEF DispatchInv, MalformedIgnored
  <1> QED BY <1>1, InitDispatch, StepDispatch, PTL

(***************************************************************************)
(* parse reads every text to an end, well-formed or not: no loop of        *)
(* readObject, readArray or recoverFromError goes round without getting    *)
(* further in the text or leaving a call.                                  *)
(***************************************************************************)
THEOREM ReadingComesToAnEnd ==
    ASSUME NEW S, NEW texts \in SUBSET Seq(S)
    PROVE  Init(texts) /\ [][Next]_vars => ReadingAdvances
  <1> DEFINE Advance == [expects \notin {"done", "thrown"} => Progress]_vars
  <1>1. ReaderInv /\ DispatchInv /\ [Next]_vars => Advance
    <2> SUFFICES ASSUME ReaderInv, DispatchInv, Next, expects \notin {"done", "thrown"}
                 PROVE  Progress \/ UNCHANGED vars
      OBVIOUS
    <2>1. thread = "parsing"
      BY DEF DispatchInv
    <2>2. ConstructJson
      BY <2>1 DEF Next, ParseThrows, HandleResponse, HandleItem, ItemThrows, AwaitNext, Ended
    <2> QED BY <2>2, ReaderStep DEF ConstructJson
  <1> QED BY <1>1, InitReader, StepReader, InitDispatch, StepDispatch, PTL DEF ReadingAdvances, Progress

-----------------------------------------------------------------------------
(* Conversions *)

\* A numeric value, of whatever size.
NumericValue ==
    {IntValue(n) : n \in Int} \cup {UIntValue(n) : n \in Nat} \cup {RealValue(n) : n \in Int}

LEMMA Bounds ==
    /\ minInt \in Int /\ maxInt \in Nat /\ maxUInt \in Nat /\ minInt <= 0 /\ maxInt <= maxUInt
    /\ minLargestInt \in Int /\ maxLargestInt \in Nat /\ maxLargestUInt \in Nat /\ minLargestInt <= 0
  BY NarrowAssumption, WidthAssumption DEF minInt, minLargestInt

\* The bounds as doubles.
LEMMA NarrowDoubles ==
    /\ ToDouble(0) = 0
    /\ ToDouble(minInt) = 2 * minInt /\ ToDouble(maxInt) = 2 * maxInt /\ ToDouble(maxUInt) = 2 * maxUInt
  <1>1. \A n \in minInt .. maxUInt : ToDouble(n) = 2 * n
    BY RoundingAssumption
  <1>2. {0, minInt, maxInt, maxUInt} \subseteq minInt .. maxUInt
    BY Bounds
  <1>3. 2 * 0 = 0
    OBVIOUS
  <1> HIDE DEF minInt
  <1> QED BY <1>1, <1>2, <1>3

LEMMA WideBounds ==
    /\ ToDouble(0) = 2 * 0 /\ ToDouble(minLargestInt) = 2 * minLargestInt
    /\ ToDouble(maxLargestInt) \in Int /\ ToDouble(maxLargestInt) <= 2 * (maxLargestInt + 1)
    /\ ToDouble(maxLargestUInt) \in Int /\ ToDouble(maxLargestUInt) <= 2 * (maxLargestUInt + 1)
  <1> HIDE DEF minLargestInt
  <1> QED BY NarrowDoubles, RoundingAssumption

\* Dropping the fraction of a number between two integers leaves it there.
LEMMA TruncatedBetween ==
    ASSUME NEW halves \in Int, NEW low \in Int, NEW high \in Int, low <= 0, 0 <= high,
           2 * low <= halves, halves <= 2 * high + 1
    PROVE  /\ Truncated(halves) \in low .. high
           /\ halves % 2 = 0 => 2 * Truncated(halves) = halves
  <1>1. CASE halves < 0
    <2>1. Truncated(halves) = -((-halves) \div 2)
      BY <1>1 DEF Truncated
    <2>2. -((-halves) \div 2) \in low .. high /\ (halves % 2 = 0 => 2 * (-((-halves) \div 2)) = halves)
      BY <1>1
    <2> QED BY <2>1, <2>2
  <1>2. CASE ~(halves < 0)
    <2>1. Truncated(halves) = halves \div 2
      BY <1>2 DEF Truncated
    <2>2. halves \div 2 \in low .. high /\ (halves % 2 = 0 => 2 * (halves \div 2) = halves)
      BY <1>2
    <2> QED BY <2>1, <2>2
  <1> QED BY <1>1, <1>2

\* A value whose type tells it from the others.
LEMMA NumericTyped ==
    ASSUME NEW v \in NumericValue
    PROVE  /\ v.num \in Int /\ v.type \in {"int", "uint", "real"}
           /\ Halves(v) = IF v.type = "real" THEN v.num ELSE 2 * v.num
  BY DEF NumericValue, IntValue, UIntValue, RealValue, Halves

\* asInt and asUInt, and what isConvertibleTo asks of a double.
LEMMA NarrowConverted ==
    ASSUME NEW v \in NumericValue, NEW low \in {minInt, 0}, NEW high \in {maxInt, maxUInt}
    PROVE  /\ IsInteger(v, low, high) => {2 * n : n \in AsInteger(v, low, high)} = {Halves(v)}
           /\ IsInteger(v, low, high) \/ (v.type = "real" /\ InRange(v, low, high))
              => \E n : AsInteger(v, low, high) = {n}
  <1>1. low \in Int /\ high \in Int /\ low <= 0 /\ 0 <= high
    BY Bounds
  <1>2. ToDouble(low) = 2 * low /\ ToDouble(high) = 2 * high
    BY NarrowDoubles
  <1>3. CASE v.type # "real"
    <2>1. v.type \in {"int", "uint"} /\ Halves(v) = 2 * v.num
      BY <1>3, NumericTyped
    <2>2. IsInteger(v, low, high) => AsInteger(v, low, high) = {v.num}
      BY <2>1 DEF IsInteger, AsInteger
    <2> QED BY <1>3, <2>1, <2>2
  <1>4. CASE v.type = "real"
    <2>1. Halves(v) = v.num /\ v.num \in Int
      BY <1>4, NumericTyped
    <2>2. IsInteger(v, low, high) => InRange(v, low, high) /\ v.num % 2 = 0
      BY <1>4 DEF IsInteger, IsWhole
    <2>3. InRange(v, low, high) => 2 * low <= v.num /\ v.num <= 2 * high + 1
      BY <1>1, <1>2, <2>1 DEF InRange
    <2>4. InRange(v, low, high) => /\ Truncated(v.num) \in low .. high
                                   /\ v.num % 2 = 0 => 2 * Truncated(v.num) = v.num
      BY <1>1, <2>1, <2>3, TruncatedBetween
    <2>5. ASSUME InRange(v, low, high)
          PROVE  AsInteger(v, low, high) = {Truncated(v.num)}
      <3>1. Truncated(v.num) \in low .. high
        BY <2>4, <2>5
      <3> HIDE DEF Truncated
      <3> QED BY <1>4, <2>5, <3>1 DEF AsInteger
    <2>6. ASSUME IsInteger(v, low, high)
          PROVE  {2 * n : n \in AsInteger(v, low, high)} = {Halves(v)}
      <3>1. InRange(v, low, high) /\ 2 * Truncated(v.num) = v.num
        BY <2>2, <2>4, <2>6
      <3>2. AsInteger(v, low, high) = {Truncated(v.num)}
        BY <2>5, <3>1
      <3> QED BY <2>1, <3>1, <3>2
    <2>7. ASSUME IsInteger(v, low, high) \/ (v.type = "real" /\ InRange(v, low, high))
          PROVE  \E n : AsInteger(v, low, high) = {n}
      BY <2>2, <2>5, <2>7
    <2> QED BY <2>6, <2>7
  <1> QED BY <1>3, <1>4

\* asInt64 and asUInt64.
LEMMA WideConverted ==
    ASSUME NEW v \in NumericValue, NEW low \in Int, NEW high \in Int, low <= 0, 0 <= high,
           ToDouble(low) = 2 * low, ToDouble(high) <= 2 * (high + 1), ToDouble(high) \in Int,
           IsWide(v, low, high)
    PROVE  {2 * n : n \in AsInteger(v, low, high)} = {Halves(v)}
  <1>1. CASE v.type # "real"
    <2>1. v.type \in {"int", "uint"} /\ Halves(v) = 2 * v.num
      BY <1>1, NumericTyped
    <2>2. AsInteger(v, low, high) = {v.num}
      BY <2>1 DEF IsWide, AsInteger
    <2> QED BY <2>1, <2>2
  <1>2. CASE v.type = "real"
    <2>1. Halves(v) = v.num /\ v.num \in Int
      BY <1>2, NumericTyped
    <2>2. v.num >= ToDouble(low) /\ v.num < ToDouble(high) /\ v.num % 2 = 0
      BY <1>2 DEF IsWide, IsWhole
    <2>3. 2 * low <= v.num /\ v.num <= 2 * high + 1
      BY <2>1, <2>2
    <2>4. Truncated(v.num) \in low .. high /\ 2 * Truncated(v.num) = v.num
      BY <2>1, <2>2, <2>3, TruncatedBetween
    <2>5. InRange(v, low, high)
      BY <2>1, <2>2 DEF InRange
    <2>6. AsInteger(v, low, high) = {Truncated(v.num)}
      BY <1>2, <2>4, <2>5 DEF AsInteger
    <2> QED BY <2>1, <2>4, <2>6
  <1> QED BY <1>1, <1>2

(***************************************************************************)
(* What isInt, isUInt64 and the others promise of a number, asInt and the  *)
(* others keep, for integers of every width and numbers of every size: a   *)
(* number that passes the test is converted to itself, and one that is     *)
(* convertible to a type never throws.                                     *)
(***************************************************************************)
THEOREM NumbersKeepPromises == \A v \in NumericValue : PromisesKept(v)
  <1> SUFFICES ASSUME NEW v \in NumericValue PROVE PromisesKept(v)
    OBVIOUS
  <1>1. IsInt(v) => {2 * n : n \in AsInt(v)} = {Halves(v)}
    BY NarrowConverted DEF IsInt, AsInt
  <1>2. IsUInt(v) => {2 * n : n \in AsUInt(v)} = {Halves(v)}
    BY NarrowConverted DEF IsUInt, AsUInt
  <1>3. IsInt64(v) => {2 * n : n \in AsInt64(v)} = {Halves(v)}
    BY Bounds, WideBounds, WideConverted DEF IsInt64, AsInt64
  <1>4. IsUInt64(v) => {2 * n : n \in AsUInt64(v)} = {Halves(v)}
    BY Bounds, WideBounds, WideConverted DEF IsUInt64, AsUInt64
  <1>5. \A type \in {"int", "uint", "real", "boolean", "string"} :
           IsConvertibleTo(v, type) => \E x : Converted(v, type) = {x}
    <2>1. v.type \in {"int", "uint", "real"}
      BY NumericTyped
    <2>2. IsConvertibleTo(v, "int") => \E x : Converted(v, "int") = {x}
      BY <2>1, NarrowConverted DEF IsConvertibleTo, Converted, IsInt, AsInt
    <2>3. IsConvertibleTo(v, "uint") => \E x : Converted(v, "uint") = {x}
      BY <2>1, NarrowConverted DEF IsConvertibleTo, Converted, IsUInt, AsUInt
    <2>4. \E x : Converted(v, "real") = {x}
      BY <2>1 DEF Converted, AsDouble
    <2>5. \E x : Converted(v, "boolean") = {x}
      BY <2>1 DEF Converted, AsBool, IsNumeric
    <2>6. \E x : Converted(v, "string") = {x}
      BY <2>1 DEF Converted, AsString
    <2> QED BY <2>2, <2>3, <2>4, <2>5, <2>6
  <1>6. \A x : Cardinality({x}) = 1
    BY FS_Singleton
  <1> QED BY <1>1, <1>2, <1>3, <1>4, <1>5, <1>6 DEF PromisesKept

-----------------------------------------------------------------------------
(* Functions of a number by its smaller ones *)

\* What holds of a number if it does of all smaller ones, holds of all.
LEMMA Upwards ==
    ASSUME NEW n \in Nat, NEW T, \A k \in 0 .. n : (\A j \in 0 .. n : j < k => j \in T) => k \in T
    PROVE  \A k \in 0 .. n : k \in T
  <1> DEFINE Out == {k \in 0 .. n : k \notin T}
  <1> SUFFICES ASSUME Out # {} PROVE FALSE
    OBVIOUS
  <1>1. Out \subseteq Nat
    OBVIOUS
  <1>2. PICK k \in Out : \A i \in Out : k <= i
    BY <1>1, Least
  <1>3. k \in 0 .. n /\ k \notin T
    OBVIOUS
  <1>4. \A j \in 0 .. n : j < k => j \in T
    <2> SUFFICES ASSUME NEW j \in 0 .. n, j < k, j \notin T PROVE FALSE
      OBVIOUS
    <2>1. j \in Out /\ ~(k <= j)
      BY <1>3
    <2> HIDE DEF Out
    <2> QED BY <1>2, <2>1
  <1> QED BY <1>3, <1>4

\* f[m] is made by step of f at a smaller number, below[m], and of m.
IsRecursion(f, n, base, step, below) ==
    f = [m \in 0 .. n |-> IF m = 0 THEN base ELSE step[m][f[below[m]]]]

LEMMA RecursionDefined ==
    ASSUME NEW n \in Nat, NEW S, NEW base \in S, NEW step \in [1 .. n -> [S -> S]],
           NEW below \in [1 .. n -> Nat], \A m \in 1 .. n : below[m] < m
    PROVE  \E f \in [0 .. n -> S] : IsRecursion(f, n, base, step, below)
  <1> DEFINE T == {k \in 0 .. n : \E f \in [0 .. k -> S] : IsRecursion(f, k, base, step, below)}
  <1>1. 0 \in T
    <2> DEFINE f == [m \in 0 .. 0 |-> base]
    <2>1. f \in [0 .. 0 -> S]
      OBVIOUS
    <2>2. f = [m \in 0 .. 0 |-> IF m = 0 THEN base ELSE step[m][f[below[m]]]]
      <3>1. \A m \in 0 .. 0 : m = 0
        OBVIOUS
      <3> QED BY <3>1
    <2> HIDE DEF f
    <2> QED BY <2>1, <2>2 DEF IsRecursion
  <1>2. ASSUME NEW k \in 0 .. n, k \in T, k < n PROVE k + 1 \in T
    <2>1. PICK f \in [0 .. k -> S] : IsRecursion(f, k, base, step, below)
      BY <1>2
    <2> DEFINE j == k + 1
               g == [m \in 0 .. j |-> IF m = j THEN step[j][f[below[j]]] ELSE f[m]]
               h == [m \in 0 .. j |-> IF m = 0 THEN base ELSE step[m][g[below[m]]]]
    <2>2. j \in 1 .. n /\ j \in Nat /\ below[j] \in 0 .. k /\ step[j] \in [S -> S]
          /\ \A m \in 0 .. j : m # j => m \in 0 .. k
      BY <1>2
    <2>3. g \in [0 .. j -> S]
      <3>1. step[j][f[below[j]]] \in S
        BY <2>2
      <3>2. \A m \in 0 .. j : m # j => f[m] \in S
        BY <2>2
      <3> HIDE DEF j
      <3> QED BY <3>1, <3>2
    <2>4. ASSUME NEW m \in 0 .. j PROVE g[m] = h[m]
      <3>1. \A i \in 0 .. j : g[i] = IF i = j THEN step[j][f[below[j]]] ELSE f[i]
        OBVIOUS
      <3>2. h[m] = IF m = 0 THEN base ELSE step[m][g[below[m]]]
        OBVIOUS
      <3>3. m # 0 => below[m] \in 0 .. k /\ below[m] \in 0 .. j /\ below[m] # j
        <4>1. m # 0 => m \in 1 .. n
          BY <2>2
        <4>2. \A i \in Nat : i < m => i \in 0 .. k /\ i \in 0 .. j /\ i # j
          OBVIOUS
        <4> QED BY <4>1, <4>2
      <3>4. m # 0 => g[below[m]] = f[below[m]]
        BY <3>1, <3>3
      <3> HIDE DEF g, h
      <3>5. CASE m = j
        <4>1. m # 0
          BY <2>2, <3>5
        <4> QED BY <3>1, <3>2, <3>4, <3>5, <4>1
      <3>6. CASE m # j
        <4>1. m \in 0 .. k
          BY <2>2, <3>6
        <4>2. f[m] = IF m = 0 THEN base ELSE step[m][f[below[m]]]
          BY <2>1, <4>1 DEF IsRecursion
        <4> QED BY <3>1, <3>2, <3>4, <3>6, <4>2
      <3> QED BY <3>5, <3>6
    <2>5. g = h
      BY <2>4
    <2>6. IsRecursion(g, j, base, step, below)
      BY <2>5 DEF IsRecursion
    <2>7. j \in 0 .. n
      BY <2>2
    <2> HIDE DEF g
    <2> QED BY <2>3, <2>6, <2>7
  <1>3. n \in 0 .. n
    OBVIOUS
  <1>4. \A k \in 0 .. n : k \in T
    <2> SUFFICES ASSUME NEW k \in 0 .. n, \A j \in 0 .. n : j < k => j \in T
                 PROVE  k \in T
      <3> HIDE DEF T
      <3> QED BY Upwards
    <2>1. k # 0 => k - 1 \in 0 .. n /\ k - 1 < k /\ k - 1 < n /\ (k - 1) + 1 = k
      OBVIOUS
    <2> HIDE DEF T
    <2> QED BY <1>1, <1>2, <2>1
  <1> QED BY <1>3, <1>4

-----------------------------------------------------------------------------
(* Powers, decimal digits and doubles *)

LEMMA Products == \A a, b \in Nat \ {0} : a * b \in Nat \ {0}
  OBVIOUS

LEMMA PowerIs ==
    ASSUME NEW base \in Nat \ {0}, NEW n \in Nat
    PROVE  Power(base, n) \in Nat \ {0} /\ (n = 0 => Power(base, n) = 1)
  <1> DEFINE S == Nat \ {0}
             Loop(f) == f = [k \in 0 .. n |-> IF k = 0 THEN 1 ELSE base * f[k - 1]]
             power == CHOOSE f : Loop(f)
             step == [k \in 1 .. n |-> [x \in S |-> base * x]]
             below == [k \in 1 .. n |-> k - 1]
  <1>1. step \in [1 .. n -> [S -> S]]
    BY Products
  <1>2. below \in [1 .. n -> Nat] /\ \A k \in 1 .. n : below[k] < k
    OBVIOUS
  <1>3. \A f \in [0 .. n -> S] : IsRecursion(f, n, 1, step, below) => Loop(f)
    <2> SUFFICES ASSUME NEW f \in [0 .. n -> S], IsRecursion(f, n, 1, step, below)
                 PROVE  Loop(f)
      OBVIOUS
    <2>1. \A k \in 0 .. n : (IF k = 0 THEN 1 ELSE step[k][f[below[k]]])
                            = IF k = 0 THEN 1 ELSE base * f[k - 1]
      OBVIOUS
    <2> HIDE DEF step, below
    <2> QED BY <2>1 DEF IsRecursion
  <1>4. \E f \in [0 .. n -> S] : IsRecursion(f, n, 1, step, below)
    <2> HIDE DEF step, below
    <2>1. 1 \in S
      OBVIOUS
    <2> HIDE DEF S
    <2> QED BY <1>1, <1>2, <2>1, RecursionDefined
  <1>5. Loop(power)
    <2> HIDE DEF Loop, step, below
    <2> QED BY <1>3, <1>4
  <1>6. \A k \in 0 .. n : power[k] = IF k = 0 THEN 1 ELSE base * power[k - 1]
    <2> HIDE DEF power
    <2> QED BY <1>5
  <1> HIDE DEF power
  <1>7. \A k \in 0 .. n : power[k] \in S
    <2> DEFINE T == {k \in 0 .. n : power[k] \in S}
    <2>1. ASSUME NEW k \in 0 .. n, \A j \in 0 .. n : j < k => j \in T PROVE k \in T
      <3>1. CASE k = 0
        BY <1>6, <3>1
      <3>2. CASE k # 0
        <4>1. k - 1 \in 0 .. n /\ k - 1 < k
          BY <3>2
        <4>2. power[k - 1] \in S
          BY <2>1, <4>1
        <4>3. base * power[k - 1] \in S
          BY <4>2, Products
        <4> QED BY <1>6, <3>2, <4>3
      <3> QED BY <3>1, <3>2
    <2> HIDE DEF T
    <2>3. \A k \in 0 .. n : k \in T
      BY <2>1, Upwards
    <2> QED BY <2>3 DEF T
  <1>8. Power(base, n) = power[n]
    BY DEF Power, power
  <1>9. n \in 0 .. n
    OBVIOUS
  <1> QED BY <1>6, <1>7, <1>8, <1>9

LEMMA Decimals10 == \A c \in Digit : DigitValue(c) \in 0 .. 9
  <1> SUFFICES ASSUME NEW c \in Digit PROVE \E n \in 0 .. 9 : HexDigit[n + 1] = c
    BY DEF DigitValue
  <1>1. \A i \in 1 .. 10 : i - 1 \in 0 .. 9 /\ (i - 1) + 1 = i
    OBVIOUS
  <1>2. \E i \in 1 .. 10 : HexDigit[i] = c
    <2>1. /\ HexDigit[1] = "0" /\ HexDigit[2] = "1" /\ HexDigit[3] = "2" /\ HexDigit[4] = "3"
          /\ HexDigit[5] = "4" /\ HexDigit[6] = "5" /\ HexDigit[7] = "6" /\ HexDigit[8] = "7"
          /\ HexDigit[9] = "8" /\ HexDigit[10] = "9"
      BY DEF HexDigit
    <2>2. {1, 2, 3, 4, 5, 6, 7, 8, 9, 10} \subseteq 1 .. 10
      OBVIOUS
    <2> QED BY <2>1, <2>2 DEF Digit
  <1> QED BY <1>1, <1>2

\* The numbers of the first digits, each ten times the one before and a digit.
LEMMA DecimalsAre ==
    ASSUME NEW digits \in Seq(Digit)
    PROVE  /\ Decimals(digits) \in [0 .. Len(digits) -> Nat]
           /\ Decimals(digits)[0] = 0
           /\ \A k \in 1 .. Len(digits) :
                 /\ DigitValue(digits[k]) \in 0 .. 9
                 /\ Decimals(digits)[k] = 10 * Decimals(digits)[k - 1] + DigitValue(digits[k])
  <1> DEFINE n == Len(digits)
             d(k) == DigitValue(digits[k])
             Loop(f) == f = [k \in 0 .. n |-> IF k = 0 THEN 0 ELSE 10 * f[k - 1] + d(k)]
             value == CHOOSE f : Loop(f)
             step == [k \in 1 .. n |-> [x \in Nat |-> 10 * x + d(k)]]
             below == [k \in 1 .. n |-> k - 1]
  <1>1. n \in Nat /\ \A k \in 1 .. n : d(k) \in 0 .. 9
    BY Decimals10
  <1>2. value = Decimals(digits)
    BY DEF Decimals
  <1> HIDE DEF n, d
  <1>3. step \in [1 .. n -> [Nat -> Nat]]
    <2>1. \A k \in 1 .. n : \A x \in Nat : 10 * x + d(k) \in Nat
      BY <1>1
    <2> QED BY <2>1
  <1>4. below \in [1 .. n -> Nat] /\ \A k \in 1 .. n : below[k] < k
    BY <1>1
  <1>5. \A f \in [0 .. n -> Nat] : IsRecursion(f, n, 0, step, below) => Loop(f)
    <2> SUFFICES ASSUME NEW f \in [0 .. n -> Nat], IsRecursion(f, n, 0, step, below)
                 PROVE  Loop(f)
      OBVIOUS
    <2>1. \A k \in 0 .. n : (IF k = 0 THEN 0 ELSE step[k][f[below[k]]])
                            = IF k = 0 THEN 0 ELSE 10 * f[k - 1] + d(k)
      BY <1>1
    <2> HIDE DEF step, below
    <2> QED BY <2>1 DEF IsRecursion
  <1>6. \E f \in [0 .. n -> Nat] : IsRecursion(f, n, 0, step, below)
    <2> HIDE DEF step, below
    <2> QED BY <1>1, <1>3, <1>4, RecursionDefined
  <1>7. Loop(value)
    <2> HIDE DEF Loop, step, below
    <2> QED BY <1>5, <1>6
  <1>8. /\ \A k \in 0 .. n : value[k] = IF k = 0 THEN 0 ELSE 10 * value[k - 1] + d(k)
        /\ value = [k \in 0 .. n |-> value[k]]
    <2> HIDE DEF value
    <2> QED BY <1>7
  <1> HIDE DEF value
  <1>9. \A k \in 0 .. n : value[k] \in Nat
    <2> DEFINE T == {k \in 0 .. n : value[k] \in Nat}
    <2>1. ASSUME NEW k \in 0 .. n, \A j \in 0 .. n : j < k => j \in T PROVE k \in T
      <3>1. CASE k = 0
        <4>1. value[k] = 0
          BY <1>8, <3>1
        <4> QED BY <4>1
      <3>2. CASE k # 0
        <4>1. k - 1 \in 0 .. n /\ k - 1 < k /\ k \in 1 .. n
          BY <1>1, <3>2
        <4>2. value[k - 1] \in Nat /\ d(k) \in 0 .. 9
          BY <1>1, <2>1, <4>1
        <4>3. 10 * value[k - 1] + d(k) \in Nat
          BY <4>2
        <4> QED BY <1>8, <3>2, <4>3
      <3> QED BY <3>1, <3>2
    <2> HIDE DEF T
    <2>2. \A k \in 0 .. n : k \in T
      BY <1>1, <2>1, Upwards
    <2> QED BY <2>2 DEF T
  <1>10. /\ value \in [0 .. n -> Nat] /\ value[0] = 0
         /\ \A k \in 1 .. n : d(k) \in 0 .. 9 /\ value[k] = 10 * value[k - 1] + d(k)
    BY <1>1, <1>8, <1>9
  <1> QED BY <1>2, <1>10 DEF n, d

LEMMA RoundedIs == \A halves \in Int : Rounded(halves) \in Int
  <1> SUFFICES ASSUME NEW halves \in Int PROVE Rounded(halves) \in Int
    OBVIOUS
  <1> DEFINE n == Magnitude(halves)
             limit == Power(2, Mantissa)
             S == Nat \ {0}
             Loop(f) == f = [m \in 0 .. n |-> IF m < limit THEN 1 ELSE 2 * f[m \div 2]]
             unit == CHOOSE f : Loop(f)
             u == unit[n]
             below == (halves \div u) * u
             step == [m \in 1 .. n |-> [x \in S |-> IF m < limit THEN 1 ELSE 2 * x]]
             half == [m \in 1 .. n |-> m \div 2]
  <1>1. n \in Nat
    BY DEF Magnitude
  <1>2. limit \in Nat /\ 0 < limit
    <2>1. 2 \in Nat \ {0} /\ Mantissa \in Nat
      BY WidthAssumption
    <2>2. limit \in Nat \ {0}
      BY <2>1, PowerIs
    <2> HIDE DEF limit
    <2> QED BY <2>2
  <1>3. Rounded(halves) \in {below, below + u}
    BY DEF Rounded
  <1> HIDE DEF n, limit
  <1>4. step \in [1 .. n -> [S -> S]]
    <2>1. \A x \in S : 1 \in S /\ 2 * x \in S
      OBVIOUS
    <2> QED BY <2>1
  <1>5. half \in [1 .. n -> Nat] /\ \A m \in 1 .. n : half[m] < m
    BY <1>1
  <1>6. \A f \in [0 .. n -> S] : IsRecursion(f, n, 1, step, half) => Loop(f)
    <2> SUFFICES ASSUME NEW f \in [0 .. n -> S], IsRecursion(f, n, 1, step, half)
                 PROVE  Loop(f)
      OBVIOUS
    <2>1. ASSUME NEW m \in 0 .. n
          PROVE  (IF m = 0 THEN 1 ELSE step[m][f[half[m]]])
                 = IF m < limit THEN 1 ELSE 2 * f[m \div 2]
      <3>1. CASE m = 0
        BY <1>2, <3>1
      <3>2. CASE m # 0
        <4>1. m \in 1 .. n /\ m \div 2 \in 0 .. n
          BY <1>1, <3>2
        <4>2. half[m] = m \div 2 /\ f[m \div 2] \in S
          BY <4>1
        <4>3. step[m][f[m \div 2]] = IF m < limit THEN 1 ELSE 2 * f[m \div 2]
          BY <4>1, <4>2
        <4> HIDE DEF step, half
        <4> QED BY <3>2, <4>2, <4>3
      <3> QED BY <3>1, <3>2
    <2> HIDE DEF step, half
    <2> QED BY <2>1 DEF IsRecursion
  <1>7. \E f \in [0 .. n -> S] : IsRecursion(f, n, 1, step, half)
    <2> HIDE DEF step, half
    <2>1. 1 \in S
      OBVIOUS
    <2> HIDE DEF S
    <2> QED BY <1>1, <1>4, <1>5, <2>1, RecursionDefined
  <1>8. Loop(unit)
    <2> HIDE DEF Loop, step, half
    <2> QED BY <1>6, <1>7
  <1>9. \A m \in 0 .. n : unit[m] = IF m < limit THEN 1 ELSE 2 * unit[m \div 2]
    <2> HIDE DEF unit
    <2> QED BY <1>8
  <1> HIDE DEF unit
  <1>10. \A m \in 0 .. n : unit[m] \in S
    <2> DEFINE T == {m \in 0 .. n : unit[m] \in S}
    <2>1. ASSUME NEW m \in 0 .. n, \A j \in 0 .. n : j < m => j \in T PROVE m \in T
      <3>1. CASE m < limit
        BY <1>9, <3>1
      <3>2. CASE ~(m < limit)
        <4>1. m \div 2 \in 0 .. n /\ m \div 2 < m
          BY <1>1, <1>2, <3>2
        <4>2. unit[m \div 2] \in S
          BY <2>1, <4>1
        <4>3. 2 * unit[m \div 2] \in S
          BY <4>2
        <4> QED BY <1>9, <3>2, <4>3
      <3> QED BY <3>1, <3>2
    <2> HIDE DEF T
    <2>2. \A m \in 0 .. n : m \in T
      BY <1>1, <2>1, Upwards
    <2> QED BY <2>2 DEF T
  <1>11. u \in Nat \ {0}
    BY <1>1, <1>10
  <1> HIDE DEF u
  <1>12. halves \div u \in Int
    BY <1>11
  <1>13. below \in Int
    BY <1>11, <1>12
  <1> QED BY <1>3, <1>11, <1>13

LEMMA DigitsAtIs ==
    ASSUME NEW chars, IsSeq(chars), NEW p \in Nat \ {0}
    PROVE  DigitsAt(chars, p) \in Seq(Digit)
  <1> DEFINE n == Len(chars)
             stops == {q \in p .. n : chars[q] \notin Digit}
             S == stops \cup {n + 1}
             q == Behind(chars, p, Digit)
  <1>1. n \in Nat
    BY DEF IsSeq
  <1>2. q = Min(S)
    BY DEF Behind, FirstOf
  <1>3. S \subseteq Nat /\ S # {}
    <2> HIDE DEF n
    <2> QED BY <1>1
  <1>4. q \in S /\ \A r \in S : q <= r
    <2> HIDE DEF S, q
    <2> QED BY <1>2, <1>3, Least
  <1> HIDE DEF q
  <1>5. q \in Nat /\ q <= n + 1
    BY <1>3, <1>4
  <1>6. \A i \in p .. q - 1 : chars[i] \in Digit
    <2> SUFFICES ASSUME NEW i \in p .. q - 1, chars[i] \notin Digit PROVE FALSE
      OBVIOUS
    <2> HIDE DEF n
    <2>1. i \in p .. n /\ ~(q <= i)
      BY <1>1, <1>5
    <2> QED BY <1>4, <2>1
  <1>7. SubSeq(chars, p, q - 1) \in Seq(Digit)
    <2>1. p \in Int /\ q - 1 \in Int
      BY <1>5
    <2> QED BY <1>6, <2>1, SubSeqProperties
  <1> QED BY <1>7 DEF DigitsAt, q

LEMMA DecimalIs == \A digits \in Seq(Digit) : Decimal(digits) \in Nat
  <1> SUFFICES ASSUME NEW digits \in Seq(Digit) PROVE Decimal(digits) \in Nat
    OBVIOUS
  <1>1. Len(digits) \in 0 .. Len(digits)
    <2>1. \A n \in Nat : n \in 0 .. n
      OBVIOUS
    <2> QED BY <2>1
  <1> QED BY <1>1, DecimalsAre DEF Decimal

LEMMA NoDigits == Decimal(<<>>) = 0
  <1>1. <<>> \in Seq(Digit) /\ Len(<<>>) = 0
    OBVIOUS
  <1> QED BY <1>1, DecimalsAre DEF Decimal

LEMMA Integers == \A a, b \in Int : a * b \in Int /\ a + b \in Int
  OBVIOUS

\* What a stream reads is a number, if it reads one.
LEMMA StreamDoubleIs ==
    ASSUME NEW chars, IsSeq(chars), chars # <<>>
    PROVE  StreamDouble(chars) \subseteq Int
  <1> DEFINE body == IF chars[1] \in {"-", "+"} THEN Tail(chars) ELSE chars
             whole == DigitsAt(body, 1)
             point == Len(whole) + 1
             fraction == IF CharAt(body, point) = "." THEN DigitsAt(body, point + 1) ELSE <<>>
             mark == IF CharAt(body, point) = "." THEN point + 1 + Len(fraction) ELSE point
             from == IF CharAt(body, mark + 1) \in {"+", "-"} THEN mark + 2 ELSE mark + 1
             exponent == DigitsAt(body, from)
             sign == IF chars[1] = "-" THEN -1 ELSE 1
             halves == 2 * Decimal(whole) + (IF fraction # <<>> /\ fraction[1] = "5" THEN 1 ELSE 0)
             scale == Power(10, Decimal(exponent))
  <1>1. StreamDouble(chars) \subseteq {Rounded(sign * halves * scale)}
    BY DEF StreamDouble
  <1>2. IsSeq(body)
    <2>1. Tail(chars) \in Seq(Range(chars))
      BY DEF IsSeq
    <2> QED BY <2>1, AnySeq
  <1> HIDE DEF body
  <1>3. whole \in Seq(Digit)
    <2>1. 1 \in Nat \ {0}
      OBVIOUS
    <2> QED BY <1>2, <2>1, DigitsAtIs
  <1> HIDE DEF whole
  <1>4. point \in Nat \ {0}
    BY <1>3
  <1> HIDE DEF point
  <1>5. fraction \in Seq(Digit)
    <2>1. point + 1 \in Nat \ {0}
      BY <1>4
    <2> QED BY <1>2, <2>1, DigitsAtIs
  <1>6. mark \in Nat \ {0}
    <2>1. Len(fraction) \in Nat
      BY <1>5
    <2> HIDE DEF fraction
    <2> QED BY <1>4, <2>1
  <1> HIDE DEF fraction, mark
  <1>7. from \in Nat \ {0}
    BY <1>6
  <1> HIDE DEF from
  <1>8. exponent \in Seq(Digit)
    BY <1>2, <1>7, DigitsAtIs
  <1> HIDE DEF exponent
  <1>9. scale \in Int
    <2>1. Decimal(exponent) \in Nat /\ 10 \in Nat \ {0}
      BY <1>8, DecimalIs
    <2>2. scale \in Nat \ {0}
      BY <2>1, PowerIs
    <2> HIDE DEF scale
    <2> QED BY <2>2
  <1>10. halves \in Int
    <2>1. Decimal(whole) \in Nat
      BY <1>3, DecimalIs
    <2> QED BY <2>1
  <1> HIDE DEF halves, scale
  <1>11. sign \in Int
    OBVIOUS
  <1> HIDE DEF sign
  <1>12. sign * halves * scale \in Int
    BY <1>9, <1>10, <1>11, Integers
  <1> QED BY <1>1, <1>12, RoundedIs

\* Of digits alone it reads their number.
LEMMA OnlyDigits ==
    ASSUME NEW digits \in Seq(Digit)
    PROVE  /\ DigitsAt(digits, 1) = digits
           /\ \A p \in Nat : p > Len(digits) => DigitsAt(digits, p) = <<>>
  <1> DEFINE n == Len(digits)
  <1>1. n \in Nat
    OBVIOUS
  <1>2. \A p \in Nat \ {0} : Behind(digits, p, Digit) = n + 1
    <2> SUFFICES ASSUME NEW p \in Nat \ {0} PROVE Behind(digits, p, Digit) = n + 1
      OBVIOUS
    <2>1. \A q \in p .. Len(digits) : digits[q] \in Digit
      OBVIOUS
    <2>2. Behind(digits, p, Digit) = Min({n + 1})
      BY <2>1 DEF Behind, FirstOf
    <2>3. {n + 1} \subseteq Nat
      <3> HIDE DEF n
      <3> QED BY <1>1
    <2>4. Min({n + 1}) \in {n + 1}
      BY <2>3, Least
    <2> QED BY <2>2, <2>4
  <1>3. (n + 1) - 1 = n
    <2> HIDE DEF n
    <2> QED BY <1>1
  <1>4. DigitsAt(digits, 1) = SubSeq(digits, 1, n)
    <2>1. 1 \in Nat \ {0}
      OBVIOUS
    <2>2. Behind(digits, 1, Digit) = n + 1
      BY <1>2, <2>1
    <2> HIDE DEF n
    <2> QED BY <1>3, <2>2 DEF DigitsAt
  <1>5. ASSUME NEW p \in Nat, p > n PROVE DigitsAt(digits, p) = <<>>
    <2> HIDE DEF n
    <2>1. p \in Nat \ {0} /\ p \in Int /\ n \in Int
      BY <1>1, <1>5
    <2>2. DigitsAt(digits, p) = SubSeq(digits, p, n)
      BY <1>2, <1>3, <2>1 DEF DigitsAt
    <2> QED BY <1>5, <2>1, <2>2, SubSeqEmpty
  <1> QED BY <1>4, <1>5, SubSeqFull

LEMMA StreamDigits ==
    ASSUME NEW chars, NEW digits \in Seq(Digit), digits # <<>>,
           \/ chars = digits
           \/ chars[1] = "-" /\ Tail(chars) = digits
    PROVE  StreamDouble(chars)
           = {Rounded(IF chars[1] = "-" THEN 2 * (-Decimal(digits)) ELSE 2 * Decimal(digits))}
  <1> DEFINE n == Decimal(digits)
             L == Len(digits)
             p == IF CharAt(digits, L + 2) \in {"+", "-"} THEN L + 3 ELSE L + 2
             sign == IF chars[1] = "-" THEN -1 ELSE 1
  <1>1. n \in Nat /\ L \in Nat
    BY DecimalIs
  <1>2. (IF chars[1] \in {"-", "+"} THEN Tail(chars) ELSE chars) = digits
    <2>1. digits[1] \in Digit
      OBVIOUS
    <2>2. digits[1] # "-" /\ digits[1] # "+"
      BY <2>1 DEF Digit
    <2> QED BY <2>2
  <1>3. DigitsAt(digits, 1) = digits
    BY OnlyDigits
  <1>4. CharAt(digits, L + 1) # "."
    <2>1. ~(L + 1 <= L)
      <3> HIDE DEF L
      <3> QED BY <1>1
    <2> QED BY <2>1 DEF CharAt, NUL
  <1>5. DigitsAt(digits, p) = <<>>
    <2>1. p \in Nat /\ p > L
      <3> HIDE DEF L
      <3> QED BY <1>1
    <2> HIDE DEF p
    <2> QED BY <2>1, OnlyDigits
  <1>6. digits \o <<>> # <<>> /\ ~(L + 1 <= L)
    <2>1. ~(L + 1 <= L)
      <3> HIDE DEF L
      <3> QED BY <1>1
    <2> QED BY <2>1, ConcatEmptySeq
  <1>7. (L + 1) + 1 = L + 2 /\ (L + 1) + 2 = L + 3
    <2> HIDE DEF L
    <2> QED BY <1>1
  <1>8. StreamDouble(chars) = {Rounded(sign * (2 * n + 0) * Power(10, Decimal(<<>>)))}
    <2> HIDE DEF n, sign
    <2> QED BY <1>2, <1>3, <1>4, <1>5, <1>6, <1>7 DEF StreamDouble, n, sign
  <1>9. Power(10, Decimal(<<>>)) = 1
    <2>1. 10 \in Nat \ {0} /\ 0 \in Nat
      OBVIOUS
    <2> QED BY <2>1, NoDigits, PowerIs
  <1>10. sign * (2 * n + 0) * 1 = IF chars[1] = "-" THEN 2 * (-n) ELSE 2 * n
    <2> HIDE DEF n
    <2> QED BY <1>1
  <1> QED BY <1>8, <1>9, <1>10

LEMMA DigitSteps ==
    ASSUME NEW q \in Nat, q >= 1, NEW r \in 0 .. 9, NEW v \in Nat, NEW x \in 0 .. 9
    PROVE  /\ v >= q /\ (v > q \/ x > r) => 10 * v + x > 10 * q + r
           /\ v >= 10 * q => 10 * v + x > 10 * q + r
           /\ v >= q => 10 * v + x >= 10 * q
           /\ v < q \/ (v = q /\ x <= r) => 10 * v + x <= 10 * q + r
           /\ v >= q /\ ~(v > q) => v = q
           /\ ~(v >= q) => v < q
           /\ ~(x > r) => x <= r
  OBVIOUS

\* The test before each digit finds out whether the number exceeds the limit.
LEMMA ExceedsIs ==
    ASSUME NEW digits \in Seq(Digit), NEW limit \in Nat, limit >= 10
    PROVE  (\E k \in 1 .. Len(digits) :
               Exceeds(Decimals(digits)[k - 1], DigitValue(digits[k]), k = Len(digits), limit))
           <=> Decimal(digits) > limit
  <1> DEFINE n == Len(digits)
             value == Decimals(digits)
             d(k) == DigitValue(digits[k])
             quotient == limit \div 10
             rest == limit % 10
  <1>1. n \in Nat /\ value \in [0 .. n -> Nat] /\ value[0] = 0
        /\ \A k \in 1 .. n : d(k) \in 0 .. 9 /\ value[k] = 10 * value[k - 1] + d(k)
    BY DecimalsAre
  <1>2. quotient \in Nat /\ quotient >= 1 /\ rest \in 0 .. 9 /\ limit = 10 * quotient + rest
    OBVIOUS
  <1>3. Decimal(digits) = value[n]
    BY DEF Decimal
  <1>4. \A k \in 1 .. n : Exceeds(value[k - 1], d(k), k = n, limit)
           <=> value[k - 1] >= quotient /\ (value[k - 1] > quotient \/ k # n \/ d(k) > rest)
    BY DEF Exceeds
  <1> HIDE DEF n, value, d, quotient, rest
  <1>5. ASSUME NEW k \in 1 .. n
        PROVE  /\ k - 1 \in 0 .. n /\ k \in 0 .. n /\ value[k - 1] \in Nat /\ value[k] \in Nat
               /\ value[k] = 10 * value[k - 1] + d(k) /\ d(k) \in 0 .. 9
    <2>1. k - 1 \in 0 .. n /\ k \in 0 .. n
      BY <1>1
    <2> QED BY <1>1, <2>1
  \* The number does not shrink with more digits.
  <1>6. ASSUME NEW k \in 0 .. n PROVE value[k] <= value[n]
    <2> DEFINE T == {j \in 0 .. n : k <= j => value[k] <= value[j]}
    <2>1. ASSUME NEW j \in 0 .. n, \A i \in 0 .. n : i < j => i \in T PROVE j \in T
      <3>1. CASE j <= k
        <4>1. k <= j => j = k
          BY <3>1
        <4> QED BY <1>1, <4>1
      <3>2. CASE ~(j <= k)
        <4>1. j \in 1 .. n /\ j - 1 \in 0 .. n /\ j - 1 < j /\ k <= j - 1
          <5> HIDE DEF T
          <5> QED BY <1>1, <3>2
        <4>2. value[k] <= value[j - 1]
          BY <2>1, <4>1
        <4>3. value[j - 1] \in Nat /\ value[j] = 10 * value[j - 1] + d(j) /\ d(j) \in 0 .. 9
          BY <1>5, <4>1
        <4>4. value[k] \in Nat
          BY <1>1
        <4>5. value[k] <= 10 * value[j - 1] + d(j)
          <5> HIDE DEF T
          <5> QED BY <4>2, <4>3, <4>4
        <4> QED BY <4>3, <4>5
      <3> QED BY <3>1, <3>2
    <2>2. \A j \in 0 .. n : j \in T
      <3> HIDE DEF T
      <3> QED BY <1>1, <2>1, Upwards
    <2>3. n \in 0 .. n /\ k <= n
      BY <1>1
    <2> QED BY <2>2, <2>3
  <1>7. value[n] \in Nat
    BY <1>1
  <1>8. ASSUME NEW k \in 1 .. n, Exceeds(value[k - 1], d(k), k = n, limit)
        PROVE  value[n] > limit
    <2>1. value[k - 1] >= quotient /\ (value[k - 1] > quotient \/ k # n \/ d(k) > rest)
      BY <1>4, <1>8
    <2>2. value[k] <= value[n]
      BY <1>5, <1>6
    <2> DEFINE v == value[k - 1]
               x == d(k)
    <2>5. v \in Nat /\ x \in 0 .. 9 /\ value[k] \in Nat /\ value[k] = 10 * v + x
          /\ v >= quotient /\ (v > quotient \/ k # n \/ x > rest)
      BY <1>5, <2>1
    <2> HIDE DEF v, x
    <2>3. CASE v > quotient \/ x > rest
      <3>1. value[k] > limit
        BY <1>2, <2>3, <2>5, DigitSteps
      <3> QED BY <1>5, <1>7, <2>2, <3>1
    <2>4. CASE k # n
      <3>1. k + 1 \in 1 .. n /\ (k + 1) - 1 = k /\ k + 1 \in 0 .. n
        BY <1>1, <2>4
      <3>2. value[k + 1] \in Nat /\ value[k + 1] = 10 * value[k] + d(k + 1) /\ d(k + 1) \in 0 .. 9
        BY <1>5, <3>1
      <3>3. value[k + 1] <= value[n]
        BY <1>6, <3>1
      <3>4. value[k] >= 10 * quotient
        BY <1>2, <2>5, DigitSteps
      <3>5. value[k + 1] > limit
        BY <1>2, <2>5, <3>2, <3>4, DigitSteps
      <3> QED BY <1>7, <3>2, <3>3, <3>5
    <2> QED BY <2>3, <2>4, <2>5
  <1>9. ASSUME \A k \in 1 .. n : ~Exceeds(value[k - 1], d(k), k = n, limit)
        PROVE  value[n] <= limit
    <2>1. CASE n = 0
      BY <1>1, <2>1
    <2>2. CASE n # 0
      <3>1. n \in 1 .. n
        BY <1>1, <2>2
      <3>2. value[n - 1] \in Nat /\ d(n) \in 0 .. 9 /\ value[n] = 10 * value[n - 1] + d(n)
        BY <1>5, <3>1
      <3>3. ~(value[n - 1] >= quotient /\ (value[n - 1] > quotient \/ d(n) > rest))
        BY <1>4, <1>9, <3>1
      <3>4. value[n - 1] < quotient \/ (value[n - 1] = quotient /\ d(n) <= rest)
        BY <1>2, <3>2, <3>3, DigitSteps
      <3> QED BY <1>2, <3>2, <3>4, DigitSteps
    <2> QED BY <2>1, <2>2
  <1>10. (\E k \in 1 .. n : Exceeds(value[k - 1], d(k), k = n, limit)) <=> value[n] > limit
    BY <1>7, <1>8, <1>9
  <1> QED BY <1>3, <1>10 DEF n, value, d

(***************************************************************************)
(* decodeNumber reads a number as the integer its digits denote whenever   *)
(* one of the two wide types holds it, and as a double otherwise: its      *)
(* threshold, tested before each digit, is neither passed by a number that *)
(* would overflow nor missed by one that fits, for any number of digits,   *)
(* leading zeros included, and integers of any width.                      *)
(***************************************************************************)
THEOREM NumbersReadAsMeant ==
    ASSUME NEW S, NEW chars \in Seq(S), chars # <<>>
    PROVE  DecodeNumber(chars) = NumberMeant(chars)
  <1> DEFINE negative == chars[1] = "-"
             digits == IF negative THEN Tail(chars) ELSE chars
             limit == IF negative THEN -minLargestInt ELSE maxLargestUInt
             n == Decimal(digits)
             m == IF negative THEN -n ELSE n
             odd(k) == digits[k] \notin Digit
             over(k) == Exceeds(Decimals(digits)[k - 1], DigitValue(digits[k]), k = Len(digits), limit)
             Stops == \E k \in DOMAIN digits :
                         \/ odd(k)
                         \/ (\A j \in 1 .. k : digits[j] \in Digit) /\ over(k)
             Whole(x) == {CASE negative -> IntValue(-x)
                            [] ~negative /\ x <= maxLargestInt -> IntValue(x)
                            [] ~negative /\ x > maxLargestInt -> UIntValue(x)}
  <1>1. DecodeNumber(chars) = IF Stops THEN DecodeDouble(chars) ELSE Whole(n)
    BY DEF DecodeNumber, Decimal
  <1>2. NumberMeant(chars)
        = IF ~(ToSet(digits) \subseteq Digit) THEN DecodeDouble(chars)
          ELSE {CASE m \in minLargestInt .. maxLargestInt -> IntValue(m)
                  [] m \in maxLargestInt + 1 .. maxLargestUInt -> UIntValue(m)
                  [] m \notin minLargestInt .. maxLargestUInt -> RealValue(Rounded(2 * m))}
    BY DEF NumberMeant
  <1>3. digits \in Seq(S) /\ DOMAIN digits = 1 .. Len(digits) /\ Len(digits) \in Nat
    <2>1. Tail(chars) \in Seq(S)
      OBVIOUS
    <2> QED BY <2>1
  <1>4. ToSet(digits) = {digits[k] : k \in 1 .. Len(digits)}
    BY <1>3 DEF ToSet
  <1>5. CASE ~(ToSet(digits) \subseteq Digit)
    <2>1. \E k \in DOMAIN digits : odd(k)
      BY <1>3, <1>4, <1>5
    <2>2. Stops
      BY <2>1
    <2> HIDE DEF Stops, digits, m
    <2> QED BY <1>1, <1>2, <1>5, <2>2
  <1>6. CASE ToSet(digits) \subseteq Digit
    <2>1. \A k \in 1 .. Len(digits) : digits[k] \in Digit
      BY <1>4, <1>6
    <2>2. digits \in Seq(Digit)
      <3> HIDE DEF digits
      <3>1. digits \in [1 .. Len(digits) -> Digit]
        BY <1>3, <2>1
      <3> QED BY <1>3, <3>1, SeqDef
    <2>3. n \in Nat
      <3> HIDE DEF digits
      <3> QED BY <2>2, DecimalIs
    <2>4. /\ maxLargestInt \in Nat /\ maxLargestInt > 10 /\ maxLargestUInt = 2 * maxLargestInt + 1
          /\ minLargestInt = -maxLargestInt - 1
      BY WidthAssumption DEF minLargestInt
    <2>5. limit \in Nat /\ limit >= 10 /\ (negative => limit = maxLargestInt + 1)
          /\ (~negative => limit = maxLargestUInt)
      BY <2>4
    <2>6. Stops <=> n > limit
      <3> HIDE DEF digits, limit
      <3>1. (\E k \in 1 .. Len(digits) : over(k)) <=> n > limit
        BY <2>2, <2>5, ExceedsIs
      <3>2. Stops <=> \E k \in 1 .. Len(digits) : over(k)
        <4> HIDE DEF over
        <4>1. \A k \in 1 .. Len(digits) : \A j \in 1 .. k : digits[j] \in Digit
          <5>1. \A k \in 1 .. Len(digits) : \A j \in 1 .. k : j \in 1 .. Len(digits)
            BY <1>3
          <5> QED BY <2>1, <5>1
        <4> QED BY <1>3, <2>1, <4>1
      <3> QED BY <3>1, <3>2
    <2>7. CASE n > limit
      <3>1. DecodeNumber(chars) = DecodeDouble(chars)
        <4> HIDE DEF Stops, digits, limit, n
        <4> QED BY <1>1, <2>6, <2>7
      <3>2. digits # <<>>
        <4>1. digits = <<>> => n = 0
          BY NoDigits
        <4> HIDE DEF digits, n, limit
        <4> QED BY <2>5, <2>7, <4>1
      <3>3. StreamDouble(chars) = {Rounded(2 * m)}
        <4>1. chars = digits \/ (chars[1] = "-" /\ Tail(chars) = digits)
          OBVIOUS
        <4>2. StreamDouble(chars) = {Rounded(IF chars[1] = "-" THEN 2 * (-n) ELSE 2 * n)}
          <5> HIDE DEF digits
          <5> QED BY <2>2, <3>2, <4>1, StreamDigits
        <4> HIDE DEF n
        <4> QED BY <4>2
      <3>4. DecodeDouble(chars) = {RealValue(Rounded(2 * m))}
        <4> HIDE DEF m
        <4> QED BY <3>3 DEF DecodeDouble
      <3>5. /\ ~(m \in minLargestInt .. maxLargestInt) /\ ~(m \in maxLargestInt + 1 .. maxLargestUInt)
            /\ m \notin minLargestInt .. maxLargestUInt
        <4> HIDE DEF n, limit, digits
        <4> QED BY <2>3, <2>4, <2>5, <2>7
      <3> HIDE DEF m, digits
      <3> QED BY <1>2, <1>6, <3>1, <3>4, <3>5
    <2>8. CASE ~(n > limit)
      <3>1. DecodeNumber(chars) = Whole(n)
        <4> HIDE DEF Stops, digits, limit, n, Whole
        <4> QED BY <1>1, <2>6, <2>8
      <3>2. CASE negative
        <4>1. m \in minLargestInt .. maxLargestInt /\ m = -n
              /\ ~(m \in maxLargestInt + 1 .. maxLargestUInt) /\ ~(m \notin minLargestInt .. maxLargestUInt)
          <5> HIDE DEF n, digits
          <5> QED BY <2>3, <2>4, <2>5, <2>8, <3>2
        <4>2. Whole(n) = {IntValue(m)}
          <5> HIDE DEF n, digits
          <5> QED BY <3>2
        <4>3. NumberMeant(chars) = {IntValue(m)}
          <5> HIDE DEF m, digits
          <5> QED BY <1>2, <1>6, <4>1
        <4> QED BY <3>1, <4>2, <4>3
      <3>3. CASE ~negative
        <4>1. m = n
          BY <3>3
        <4>2. CASE n <= maxLargestInt
          <5>1. m \in minLargestInt .. maxLargestInt /\ ~(m \in maxLargestInt + 1 .. maxLargestUInt)
                /\ ~(m \notin minLargestInt .. maxLargestUInt)
            <6> HIDE DEF n, m
            <6> QED BY <2>3, <2>4, <4>1, <4>2
          <5>2. Whole(n) = {IntValue(m)}
            <6> HIDE DEF n, m, negative
            <6> QED BY <2>3, <2>4, <3>3, <4>1, <4>2
          <5>3. NumberMeant(chars) = {IntValue(m)}
            <6> HIDE DEF m, digits
            <6> QED BY <1>2, <1>6, <5>1
          <5> QED BY <3>1, <5>2, <5>3
        <4>3. CASE ~(n <= maxLargestInt)
          <5>1. m \in maxLargestInt + 1 .. maxLargestUInt /\ ~(m \in minLargestInt .. maxLargestInt)
                /\ ~(m \notin minLargestInt .. maxLargestUInt)
            <6> HIDE DEF n, m
            <6> QED BY <2>3, <2>4, <2>5, <2>8, <3>3, <4>1, <4>3
          <5>2. Whole(n) = {UIntValue(m)}
            <6> HIDE DEF n, m
            <6> QED BY <2>3, <2>4, <3>3, <4>1, <4>3
          <5>3. NumberMeant(chars) = {UIntValue(m)}
            <6> HIDE DEF m, digits
            <6> QED BY <1>2, <1>6, <5>1
          <5> QED BY <3>1, <5>2, <5>3
        <4> QED BY <4>2, <4>3
      <3> QED BY <3>2, <3>3
    <2> QED BY <2>7, <2>8
  <1> QED BY <1>5, <1>6

-----------------------------------------------------------------------------
(* Integers as they are written *)

LEMMA DigitOf == \A d \in 0 .. 9 : HexDigit[d + 1] \in Digit /\ DigitValue(HexDigit[d + 1]) = d
  <1> SUFFICES ASSUME NEW d \in 0 .. 9
               PROVE  HexDigit[d + 1] \in Digit /\ DigitValue(HexDigit[d + 1]) = d
    OBVIOUS
  <1>1. /\ HexDigit[1] = "0" /\ HexDigit[2] = "1" /\ HexDigit[3] = "2" /\ HexDigit[4] = "3"
        /\ HexDigit[5] = "4" /\ HexDigit[6] = "5" /\ HexDigit[7] = "6" /\ HexDigit[8] = "7"
        /\ HexDigit[9] = "8" /\ HexDigit[10] = "9"
    BY DEF HexDigit
  <1>2. /\ \A i \in 1 .. 10 : HexDigit[i] \in Digit
        /\ \A i, j \in 1 .. 10 : HexDigit[i] = HexDigit[j] => i = j
    <2>1. 1 .. 10 = {1, 2, 3, 4, 5, 6, 7, 8, 9, 10}
      OBVIOUS
    <2> QED BY <1>1, <2>1 DEF Digit
  <1>3. \A e \in 0 .. 9 : e + 1 \in 1 .. 10
    OBVIOUS
  <1>4. \A e \in 0 .. 9 : HexDigit[e + 1] = HexDigit[d + 1] => e = d
    <2>1. \A e \in 0 .. 9 : e + 1 = d + 1 => e = d
      OBVIOUS
    <2> QED BY <1>2, <1>3, <2>1
  <1> QED BY <1>2, <1>3, <1>4 DEF DigitValue

\* A digit more makes ten times the number and the digit.
LEMMA DecimalAppended ==
    ASSUME NEW digits \in Seq(Digit), NEW c \in Digit
    PROVE  Decimal(Append(digits, c)) = 10 * Decimal(digits) + DigitValue(c)
  <1> DEFINE n == Len(digits)
             longer == Append(digits, c)
             value == Decimals(digits)
             longerValue == Decimals(longer)
  <1>1. n \in Nat /\ longer \in Seq(Digit) /\ Len(longer) = n + 1 /\ longer[n + 1] = c
        /\ \A k \in 1 .. n : longer[k] = digits[k]
    OBVIOUS
  <1>2. value[0] = 0 /\ \A k \in 1 .. n : value[k] = 10 * value[k - 1] + DigitValue(digits[k])
    BY DecimalsAre
  <1>3. /\ longerValue[0] = 0
        /\ \A k \in 1 .. n + 1 : longerValue[k] = 10 * longerValue[k - 1] + DigitValue(longer[k])
    BY <1>1, DecimalsAre
  <1>4. Decimal(digits) = value[n] /\ Decimal(longer) = longerValue[n + 1]
    BY <1>1 DEF Decimal
  <1> HIDE DEF n, longer, value, longerValue
  <1>5. \A k \in 0 .. n : longerValue[k] = value[k]
    <2> DEFINE T == {k \in 0 .. n : longerValue[k] = value[k]}
    <2>1. ASSUME NEW k \in 0 .. n, \A j \in 0 .. n : j < k => j \in T PROVE k \in T
      <3>1. CASE k = 0
        BY <1>2, <1>3, <3>1
      <3>2. CASE k # 0
        <4>1. k - 1 \in 0 .. n /\ k - 1 < k /\ k \in 1 .. n /\ k \in 1 .. n + 1
          BY <1>1, <3>2
        <4>2. longerValue[k - 1] = value[k - 1]
          BY <2>1, <4>1
        <4> QED BY <1>1, <1>2, <1>3, <4>1, <4>2
      <3> QED BY <3>1, <3>2
    <2> HIDE DEF T
    <2>2. \A k \in 0 .. n : k \in T
      BY <1>1, <2>1, Upwards
    <2> QED BY <2>2 DEF T
  <1>6. n \in 0 .. n /\ n + 1 \in 1 .. n + 1 /\ (n + 1) - 1 = n
    BY <1>1
  <1>7. longerValue[n + 1] = 10 * value[n] + DigitValue(c)
    BY <1>1, <1>3, <1>5, <1>6
  <1> QED BY <1>4, <1>7 DEF longer

\* uintToString writes digits, and those of the number.
LEMMA DigitsWritten ==
    ASSUME NEW n \in Nat
    PROVE  /\ UIntToString(n) \in Seq(Digit) /\ UIntToString(n) # <<>>
           /\ Decimal(UIntToString(n)) = n
  <1> DEFINE S == Seq(Digit)
             c(m) == HexDigit[m + 1]
             one(m) == <<c(m)>>
             Loop(f) == f = [m \in 0 .. n |-> IF m < 10 THEN one(m) ELSE Append(f[m \div 10], c(m % 10))]
             digits == CHOOSE f : Loop(f)
             step == [m \in 1 .. n |-> [x \in S |-> IF m < 10 THEN one(m) ELSE Append(x, c(m % 10))]]
             below == [m \in 1 .. n |-> m \div 10]
  <1>1. \A m \in 0 .. n : m % 10 \in 0 .. 9 /\ (m < 10 => m \in 0 .. 9)
                          /\ m \div 10 \in Nat /\ 10 * (m \div 10) + (m % 10) = m
                          /\ (m # 0 => m \div 10 < m) /\ m \div 10 \in 0 .. n
    OBVIOUS
  <1>2. UIntToString(n) = digits[n]
    BY DEF UIntToString
  <1>3. \A d \in 0 .. 9 : c(d) \in Digit /\ DigitValue(c(d)) = d
    BY DigitOf
  <1> HIDE DEF c
  <1>4. \A d \in 0 .. 9 : one(d) \in S /\ one(d) # <<>> /\ one(d) = Append(<<>>, c(d))
    <2> SUFFICES ASSUME NEW d \in 0 .. 9 PROVE one(d) \in S /\ one(d) # <<>> /\ one(d) = Append(<<>>, c(d))
      OBVIOUS
    <2>1. c(d) \in Digit
      BY <1>3
    <2> QED BY <2>1
  <1> HIDE DEF one
  <1>5. step \in [1 .. n -> [S -> S]]
    <2>1. \A m \in 1 .. n : \A x \in S : (IF m < 10 THEN one(m) ELSE Append(x, c(m % 10))) \in S
      <3> SUFFICES ASSUME NEW m \in 1 .. n, NEW x \in S
                   PROVE  (IF m < 10 THEN one(m) ELSE Append(x, c(m % 10))) \in S
        OBVIOUS
      <3>1. m \in 0 .. n
        OBVIOUS
      <3>2. c(m % 10) \in Digit
        BY <1>1, <1>3, <3>1
      <3>3. Append(x, c(m % 10)) \in S
        BY <3>2
      <3> QED BY <1>1, <1>4, <3>1, <3>3
    <2> HIDE DEF S
    <2> QED BY <2>1
  <1>6. below \in [1 .. n -> Nat] /\ \A m \in 1 .. n : below[m] < m
    OBVIOUS
  <1>7. \A f \in [0 .. n -> S] : IsRecursion(f, n, one(0), step, below) => Loop(f)
    <2> SUFFICES ASSUME NEW f \in [0 .. n -> S], IsRecursion(f, n, one(0), step, below)
                 PROVE  Loop(f)
      OBVIOUS
    <2>1. ASSUME NEW m \in 0 .. n
          PROVE  (IF m = 0 THEN one(0) ELSE step[m][f[below[m]]])
                 = IF m < 10 THEN one(m) ELSE Append(f[m \div 10], c(m % 10))
      <3>1. CASE m = 0
        BY <3>1
      <3>2. CASE m # 0
        <4>1. m \in 1 .. n /\ below[m] = m \div 10 /\ f[m \div 10] \in S
          BY <1>1, <3>2
        <4> HIDE DEF S, below
        <4> QED BY <3>2, <4>1
      <3> QED BY <3>1, <3>2
    <2> HIDE DEF step, below
    <2> QED BY <2>1 DEF IsRecursion
  <1>8. \E f \in [0 .. n -> S] : IsRecursion(f, n, one(0), step, below)
    <2>1. one(0) \in S
      BY <1>4
    <2> HIDE DEF step, below, S
    <2> QED BY <1>5, <1>6, <2>1, RecursionDefined
  <1>9. Loop(digits)
    <2> HIDE DEF Loop, step, below
    <2> QED BY <1>7, <1>8
  <1>10. \A m \in 0 .. n : digits[m] = IF m < 10 THEN one(m) ELSE Append(digits[m \div 10], c(m % 10))
    <2> HIDE DEF digits
    <2> QED BY <1>9
  <1> HIDE DEF digits
  <1> DEFINE Is(m) == digits[m] \in S /\ digits[m] # <<>> /\ Decimal(digits[m]) = m
             T == {m \in 0 .. n : Is(m)}
  <1>11. ASSUME NEW m \in 0 .. n, \A j \in 0 .. n : j < m => j \in T PROVE m \in T
    <2>1. CASE m < 10
      <3>1. digits[m] = one(m) /\ m \in 0 .. 9
        BY <1>1, <1>10, <2>1
      <3>2. <<>> \in Seq(Digit) /\ c(m) \in Digit /\ DigitValue(c(m)) = m
        BY <1>3, <3>1
      <3>3. Decimal(Append(<<>>, c(m))) = 10 * 0 + m
        BY <3>2, NoDigits, DecimalAppended
      <3>4. 10 * 0 + m = m
        OBVIOUS
      <3> QED BY <1>4, <3>1, <3>3, <3>4
    <2>2. CASE ~(m < 10)
      <3> DEFINE r == m % 10
                 q == m \div 10
                 s == digits[q]
      <3>1. r \in 0 .. 9 /\ q \in 0 .. n /\ q < m /\ 10 * q + r = m
        BY <1>1, <2>2
      <3>2. digits[m] = Append(s, c(r))
        BY <1>10, <2>2
      <3> HIDE DEF r, q
      <3>3. s \in Seq(Digit) /\ Decimal(s) = q
        BY <1>11, <3>1
      <3>4. c(r) \in Digit /\ DigitValue(c(r)) = r
        BY <1>3, <3>1
      <3> HIDE DEF s
      <3>5. Decimal(Append(s, c(r))) = 10 * q + r
        BY <3>3, <3>4, DecimalAppended
      <3>6. Append(s, c(r)) \in Seq(Digit) /\ Append(s, c(r)) # <<>>
        <4>1. Append(s, c(r)) \in Seq(Digit) /\ Len(Append(s, c(r))) = Len(s) + 1 /\ Len(s) \in Nat
          BY <3>3, <3>4
        <4>2. Len(<<>>) = 0
          OBVIOUS
        <4> QED BY <4>1, <4>2
      <3> QED BY <3>1, <3>2, <3>5, <3>6
    <2> QED BY <2>1, <2>2
  <1>12. n \in T
    <2>1. n \in 0 .. n
      OBVIOUS
    <2> HIDE DEF T
    <2> QED BY <1>11, <2>1, Upwards
  <1> QED BY <1>2, <1>12

(***************************************************************************)
(* An integer that valueToString writes, decodeNumber reads back as that   *)
(* integer and of the type that holds it, to both ends of both wide types. *)
(***************************************************************************)
THEOREM IntegersWrittenAreRead ==
    /\ \A n \in minLargestInt .. maxLargestInt : DecodeNumber(IntToString(n)) = {IntValue(n)}
    /\ \A n \in maxLargestInt + 1 .. maxLargestUInt : DecodeNumber(UIntToString(n)) = {UIntValue(n)}
  <1>1. minLargestInt \in Int /\ maxLargestInt \in Nat /\ maxLargestUInt \in Nat /\ minLargestInt <= 0
        /\ maxLargestInt <= maxLargestUInt
    BY WidthAssumption DEF minLargestInt
  <1> HIDE DEF minLargestInt
  <1>2. ASSUME NEW n \in Nat
        PROVE  LET chars == UIntToString(n)
               IN  /\ chars \in Seq(Digit) /\ chars # <<>> /\ chars[1] # "-"
                   /\ ToSet(chars) \subseteq Digit /\ Decimal(chars) = n
    <2> DEFINE chars == UIntToString(n)
    <2>1. chars \in Seq(Digit) /\ chars # <<>> /\ Decimal(chars) = n
      BY DigitsWritten
    <2> HIDE DEF chars
    <2>2. chars[1] \in Digit /\ ToSet(chars) \subseteq Digit
      BY <2>1 DEF ToSet
    <2>3. "-" \notin Digit
      BY DEF Digit
    <2> QED BY <2>1, <2>2, <2>3 DEF chars
  <1>3. ASSUME NEW n \in Nat, n <= maxLargestUInt
        PROVE  DecodeNumber(UIntToString(n)) = {IF n <= maxLargestInt THEN IntValue(n) ELSE UIntValue(n)}
    <2> DEFINE chars == UIntToString(n)
    <2>1. chars \in Seq(Digit) /\ chars # <<>> /\ chars[1] # "-"
          /\ ToSet(chars) \subseteq Digit /\ Decimal(chars) = n
      BY <1>2
    <2> HIDE DEF chars
    <2>2. DecodeNumber(chars) = NumberMeant(chars)
      BY <2>1, NumbersReadAsMeant
    <2>3. NumberMeant(chars) = {CASE n \in minLargestInt .. maxLargestInt -> IntValue(n)
                [] n \in maxLargestInt + 1 .. maxLargestUInt -> UIntValue(n)
                [] n \notin minLargestInt .. maxLargestUInt -> RealValue(Rounded(2 * n))}
      BY <2>1 DEF NumberMeant
    <2>4. CASE n <= maxLargestInt
      <3>1. n \in minLargestInt .. maxLargestInt /\ n \notin maxLargestInt + 1 .. maxLargestUInt
            /\ n \in minLargestInt .. maxLargestUInt
        BY <1>1, <1>3, <2>4
      <3> QED BY <2>2, <2>3, <2>4, <3>1 DEF chars
    <2>5. CASE ~(n <= maxLargestInt)
      <3>1. n \notin minLargestInt .. maxLargestInt /\ n \in maxLargestInt + 1 .. maxLargestUInt
            /\ n \in minLargestInt .. maxLargestUInt
        BY <1>1, <1>3, <2>5
      <3> QED BY <2>2, <2>3, <2>5, <3>1 DEF chars
    <2> QED BY <2>4, <2>5
  <1>4. ASSUME NEW n \in minLargestInt .. maxLargestInt
        PROVE  DecodeNumber(IntToString(n)) = {IntValue(n)}
    <2>1. CASE n >= 0
      <3>1. n \in Nat /\ n <= maxLargestUInt /\ n <= maxLargestInt /\ ~(n < 0)
        BY <1>1, <2>1
      <3> QED BY <1>3, <3>1 DEF IntToString
    <2>2. CASE n < 0
      <3> DEFINE rest == UIntToString(-n)
                 chars == <<"-">> \o rest
      <3>1. -n \in Nat /\ -(-n) = n
        BY <1>1, <2>2
      <3>2. rest \in Seq(Digit) /\ ToSet(rest) \subseteq Digit /\ Decimal(rest) = -n
        BY <1>2, <3>1
      <3>3. IntToString(n) = chars
        BY <2>2 DEF IntToString
      <3> HIDE DEF rest
      <3>4. /\ chars \in Seq(Digit \cup {"-"}) /\ chars # <<>> /\ chars[1] = "-" /\ Tail(chars) = rest
        <4>1. rest \in Seq(Digit \cup {"-"}) /\ <<"-">> \in Seq(Digit \cup {"-"}) /\ Len(<<"-">>) = 1
          BY <3>2
        <4>2. chars \in Seq(Digit \cup {"-"}) /\ Len(chars) = Len(rest) + 1 /\ chars[1] = "-"
          BY <4>1
        <4>3. Tail(chars) = rest
          BY <4>1
        <4> QED BY <4>2, <4>3
      <3> HIDE DEF chars
      <3>5. DecodeNumber(chars) = NumberMeant(chars)
        BY <3>4, NumbersReadAsMeant
      <3>6. NumberMeant(chars) = {CASE n \in minLargestInt .. maxLargestInt -> IntValue(n)
                [] n \in maxLargestInt + 1 .. maxLargestUInt -> UIntValue(n)
                [] n \notin minLargestInt .. maxLargestUInt -> RealValue(Rounded(2 * n))}
        BY <3>1, <3>2, <3>4 DEF NumberMeant
      <3>7. n \in minLargestInt .. maxLargestInt /\ n \notin maxLargestInt + 1 .. maxLargestUInt
            /\ n \in minLargestInt .. maxLargestUInt
        BY <1>1, <2>2
      <3> QED BY <3>3, <3>5, <3>6, <3>7
    <2> QED BY <1>1, <2>1, <2>2
  <1>5. ASSUME NEW n \in maxLargestInt + 1 .. maxLargestUInt
        PROVE  DecodeNumber(UIntToString(n)) = {UIntValue(n)}
    <2>1. n \in Nat /\ n <= maxLargestUInt /\ ~(n <= maxLargestInt)
      BY <1>1
    <2> QED BY <1>3, <2>1
  <1> QED BY <1>4, <1>5

-----------------------------------------------------------------------------
(* Characters written as escapes *)

LEMMA HexOf == \A d \in 0 .. 15 : HexValue(HexDigit[d + 1]) = {d}
  <1> SUFFICES ASSUME NEW d \in 0 .. 15 PROVE HexValue(HexDigit[d + 1]) = {d}
    OBVIOUS
  <1>1. /\ HexDigit[1] = "0" /\ HexDigit[2] = "1" /\ HexDigit[3] = "2" /\ HexDigit[4] = "3"
        /\ HexDigit[5] = "4" /\ HexDigit[6] = "5" /\ HexDigit[7] = "6" /\ HexDigit[8] = "7"
        /\ HexDigit[9] = "8" /\ HexDigit[10] = "9" /\ HexDigit[11] = "a" /\ HexDigit[12] = "b"
        /\ HexDigit[13] = "c" /\ HexDigit[14] = "d" /\ HexDigit[15] = "e" /\ HexDigit[16] = "f"
        /\ DOMAIN HexDigit = 1 .. 16
    BY DEF HexDigit
  <1>2. /\ \A i, j \in 1 .. 16 : HexDigit[i] = HexDigit[j] => i = j
        /\ \A i \in 1 .. 16 : HexDigit[i] \notin {"A", "D"}
    <2>1. 1 .. 16 = {1, 2, 3, 4, 5, 6, 7, 8, 9, 10, 11, 12, 13, 14, 15, 16}
      OBVIOUS
    <2> QED BY <1>1, <2>1
  <1> DEFINE c == HexDigit[d + 1]
  <1>3. \A e \in 0 .. 15 : e + 1 \in 1 .. 16 /\ (e + 1 = d + 1 => e = d)
    OBVIOUS
  <1>4. c \in ToSet(HexDigit) /\ c \notin {"A", "D"}
    BY <1>1, <1>2, <1>3 DEF ToSet
  <1>5. {n \in 0 .. 15 : HexDigit[n + 1] = c} = {d}
    BY <1>2, <1>3
  <1> HIDE DEF c
  <1>6. HexValue(c) = {n \in 0 .. 15 : HexDigit[n + 1] = c}
    BY <1>4 DEF HexValue
  <1> QED BY <1>5, <1>6 DEF c

LEMMA Sixteenths ==
    ASSUME NEW n \in Nat
    PROVE  n \div 16 \in Nat /\ n % 16 \in 0 .. 15 /\ n = 16 * (n \div 16) + (n % 16)
  OBVIOUS

LEMMA ByteAbove == \A n \in Nat : n \div 256 = (n \div 16) \div 16
  OBVIOUS

LEMMA TopAbove == \A n \in Nat : n \div 4096 = ((n \div 16) \div 16) \div 16
  OBVIOUS

LEMMA TopDigit == \A n \in Nat : n <= 65535 => n \div 4096 \in 0 .. 15
  OBVIOUS

\* What one escape can hold, a unit of UTF-16.
Unit == {n \in Nat : n <= 65535}

LEMMA HexDigits ==
    ASSUME NEW n \in Unit
    PROVE  /\ n \div 4096 \in 0 .. 15 /\ (n \div 256) % 16 \in 0 .. 15
           /\ (n \div 16) % 16 \in 0 .. 15 /\ n % 16 \in 0 .. 15
           /\ n = 4096 * (n \div 4096) + 256 * ((n \div 256) % 16) + 16 * ((n \div 16) % 16) + (n % 16)
  <1> DEFINE x == n \div 16
             y == x \div 16
             a == y \div 16
             b == y % 16
             c == x % 16
             d == n % 16
  <1> n \in Nat /\ n <= 65535
    BY DEF Unit
  <1>1. x \in Nat /\ d \in 0 .. 15 /\ n = 16 * x + d
    BY Sixteenths
  <1>2. y \in Nat /\ c \in 0 .. 15 /\ x = 16 * y + c
    <2> HIDE DEF x
    <2> QED BY <1>1, Sixteenths
  <1>3. a \in Nat /\ b \in 0 .. 15 /\ y = 16 * a + b
    <2> HIDE DEF x, y
    <2> QED BY <1>2, Sixteenths
  <1>4. n \div 256 = y /\ n \div 4096 = a
    BY ByteAbove, TopAbove
  <1>5. n \div 4096 \in 0 .. 15
    BY TopDigit
  <1>6. n = 4096 * a + 256 * b + 16 * c + d
    <2> HIDE DEF x, y, a, b, c, d
    <2> QED BY <1>1, <1>2, <1>3
  <1> HIDE DEF y, a
  <1> QED BY <1>1, <1>2, <1>3, <1>4, <1>5, <1>6

\* A piece of text stands at a position of it.
Stands(t, p, piece) ==
    /\ p \in Nat \ {0} /\ p + Len(piece) <= Len(t) + 1
    /\ \A k \in 1 .. Len(piece) : t[p + k - 1] = piece[k]

LEMMA BothStand ==
    ASSUME NEW S, NEW a \in Seq(S), NEW b \in Seq(S), NEW t, NEW p, Len(t) \in Nat, Stands(t, p, a \o b)
    PROVE  Stands(t, p, a) /\ Stands(t, p + Len(a), b)
  <1> DEFINE m == Len(a)
             n == Len(b)
             c == a \o b
  <1>1. m \in Nat /\ n \in Nat /\ Len(c) = m + n
    BY ConcatProperties
  <1>2. \A k \in 1 .. m + n : c[k] = IF k <= m THEN a[k] ELSE b[k - m]
    BY ConcatProperties
  <1>3. /\ p \in Nat \ {0} /\ p + (m + n) <= Len(t) + 1
        /\ \A k \in 1 .. m + n : t[p + k - 1] = c[k]
    <2>1. Stands(t, p, c)
      OBVIOUS
    <2> HIDE DEF m, n, c
    <2> QED BY <1>1, <2>1 DEF Stands
  <1>4. p + m <= Len(t) + 1 /\ p + m \in Nat \ {0} /\ (p + m) + n <= Len(t) + 1
    <2> HIDE DEF m, n, c
    <2> QED BY <1>1, <1>3
  <1>5. ASSUME NEW k \in 1 .. m PROVE t[p + k - 1] = a[k]
    <2>1. k \in 1 .. m + n /\ k <= m
      <3> HIDE DEF m, n, c
      <3> QED BY <1>1
    <2> HIDE DEF m, n, c
    <2> QED BY <1>2, <1>3, <2>1
  <1>6. ASSUME NEW k \in 1 .. n PROVE t[(p + m) + k - 1] = b[k]
    <2> DEFINE j == m + k
    <2>1. j \in 1 .. m + n /\ ~(j <= m) /\ j - m = k /\ p + j - 1 = (p + m) + k - 1
      <3> HIDE DEF m, n, c
      <3> QED BY <1>1, <1>3
    <2> HIDE DEF m, n, c, j
    <2> QED BY <1>2, <1>3, <2>1
  <1> HIDE DEF c
  <1>7. Stands(t, p, a)
    BY <1>3, <1>4, <1>5 DEF Stands
  <1>8. Stands(t, p + Len(a), b)
    BY <1>4, <1>6 DEF Stands
  <1> QED BY <1>7, <1>8

\* What toHex16Bit wrote, decodeUnicodeEscapeSequence reads.
LEMMA EscapeIsRead ==
    ASSUME NEW n \in Unit, NEW chars, Len(chars) \in Nat, NEW p, Stands(chars, p, AppendHex(n))
    PROVE  chars[p] = "\\" /\ chars[p + 1] = "u" /\ HexEscape(chars, p + 2) = {n}
  <1> DEFINE a == n \div 4096
             b == (n \div 256) % 16
             c == (n \div 16) % 16
             d == n % 16
             q == p + 2
  <1>1. a \in 0 .. 15 /\ b \in 0 .. 15 /\ c \in 0 .. 15 /\ d \in 0 .. 15
    BY HexDigits
  <1>2. n = 4096 * a + 256 * b + 16 * c + d
    BY HexDigits
  <1>3. AppendHex(n) = <<"\\", "u", HexDigit[a + 1], HexDigit[b + 1], HexDigit[c + 1], HexDigit[d + 1]>>
    BY DEF AppendHex
  <1> HIDE DEF a, b, c, d
  <1>4. Len(AppendHex(n)) = 6
    BY <1>3
  <1>5. p \in Nat \ {0} /\ p + 6 <= Len(chars) + 1 /\ \A k \in 1 .. 6 : chars[p + k - 1] = AppendHex(n)[k]
    BY <1>4 DEF Stands
  <1>6. /\ chars[p + 1 - 1] = AppendHex(n)[1] /\ chars[p + 2 - 1] = AppendHex(n)[2]
        /\ chars[p + 3 - 1] = AppendHex(n)[3] /\ chars[p + 4 - 1] = AppendHex(n)[4]
        /\ chars[p + 5 - 1] = AppendHex(n)[5] /\ chars[p + 6 - 1] = AppendHex(n)[6]
    <2>1. {1, 2, 3, 4, 5, 6} \subseteq 1 .. 6
      OBVIOUS
    <2> QED BY <1>5, <2>1
  <1>7. /\ p + 1 - 1 = p /\ p + 2 - 1 = p + 1 /\ p + 3 - 1 = q
        /\ p + 4 - 1 = q + 1 /\ p + 5 - 1 = q + 2 /\ p + 6 - 1 = q + 3
        /\ ~(q + 3 > Len(chars))
    BY <1>5
  <1> HIDE DEF q
  <1>8. /\ chars[p] = "\\" /\ chars[p + 1] = "u"
        /\ chars[q] = HexDigit[a + 1] /\ chars[q + 1] = HexDigit[b + 1]
        /\ chars[q + 2] = HexDigit[c + 1] /\ chars[q + 3] = HexDigit[d + 1]
    BY <1>3, <1>6, <1>7
  <1>9. /\ HexValue(chars[q]) = {a} /\ HexValue(chars[q + 1]) = {b}
        /\ HexValue(chars[q + 2]) = {c} /\ HexValue(chars[q + 3]) = {d}
    <2>1. /\ HexValue(HexDigit[a + 1]) = {a} /\ HexValue(HexDigit[b + 1]) = {b}
          /\ HexValue(HexDigit[c + 1]) = {c} /\ HexValue(HexDigit[d + 1]) = {d}
      BY <1>1, HexOf
    <2> QED BY <1>8, <2>1
  <1>10. HexEscape(chars, q) = {4096 * x + 256 * y + 16 * z + w : x \in {a}, y \in {b}, z \in {c}, w \in {d}}
    BY <1>7, <1>9 DEF HexEscape
  <1>11. HexEscape(chars, q) = {n}
    BY <1>1, <1>2, <1>10
  <1> QED BY <1>8, <1>11 DEF q

LEMMA AppendHexIs ==
    ASSUME NEW n \in Unit
    PROVE  AppendHex(n) \in Seq(Range(HexDigit) \cup {"\\", "u"}) /\ Len(AppendHex(n)) = 6
  <1> DEFINE S == Range(HexDigit) \cup {"\\", "u"}
             a == HexDigit[n \div 4096 + 1]
             b == HexDigit[((n \div 256) % 16) + 1]
             c == HexDigit[((n \div 16) % 16) + 1]
             d == HexDigit[(n % 16) + 1]
  <1>1. \A e \in 0 .. 15 : HexDigit[e + 1] \in S
    <2>1. \A e \in 0 .. 15 : e + 1 \in 1 .. 16
      OBVIOUS
    <2>2. DOMAIN HexDigit = 1 .. 16
      BY DEF HexDigit
    <2> QED BY <2>1, <2>2 DEF Range
  <1>2. a \in S /\ b \in S /\ c \in S /\ d \in S /\ "\\" \in S /\ "u" \in S
    BY <1>1, HexDigits
  <1>3. AppendHex(n) = <<"\\", "u", a, b, c, d>>
    BY DEF AppendHex
  <1> HIDE DEF a, b, c, d, S
  <1>4. AppendHex(n) \in Seq(S) /\ Len(AppendHex(n)) = 6
    BY <1>2, <1>3
  <1> QED BY <1>4 DEF S

\* A pair of escapes: the reader of the first looks for the second where it stands.
LEMMA PairIsRead ==
    ASSUME NEW high \in Unit, NEW low \in Unit, NEW S, NEW chars \in Seq(S), NEW p,
           Stands(chars, p, AppendHex(high) \o AppendHex(low))
    PROVE  /\ chars[p] = "\\" /\ chars[p + 1] = "u" /\ HexEscape(chars, p + 2) = {high}
           /\ HexEscape(chars, p + 2 + 6) = {low} /\ Match(chars, p + 2 + 4, <<"\\", "u">>)
  <1> DEFINE q == p + 6
             first == AppendHex(high)
             second == AppendHex(low)
             T == Range(HexDigit) \cup {"\\", "u"}
  <1>0. /\ first \in Seq(T) /\ Len(first) = 6 /\ second \in Seq(T) /\ Len(second) = 6
        /\ Stands(chars, p, first \o second) /\ Len(chars) \in Nat
    BY AppendHexIs
  <1> HIDE DEF T, first, second
  <1>1. Stands(chars, p, first) /\ Stands(chars, q, second)
    BY <1>0, BothStand
  <1>2. /\ chars[p] = "\\" /\ chars[p + 1] = "u" /\ HexEscape(chars, p + 2) = {high}
        /\ chars[q] = "\\" /\ chars[q + 1] = "u" /\ HexEscape(chars, q + 2) = {low}
    <2> HIDE DEF q
    <2> QED BY <1>0, <1>1, EscapeIsRead DEF first, second
  <1>3. p \in Nat \ {0} /\ q \in Nat \ {0} /\ q + 6 <= Len(chars) + 1 /\ Len(chars) \in Nat
    BY <1>0, <1>1 DEF Stands
  <1>4. q + 2 = p + 2 + 6 /\ q = p + 2 + 4
    BY <1>3
  <1> HIDE DEF q
  <1>5. Match(chars, q, <<"\\", "u">>)
    <2> DEFINE n == Len(chars)
               rest == SubSeq(chars, q, n)
               mark == <<"\\", "u">>
    <2>1. \A i \in q .. n : chars[i] \in S
      BY <1>3, ElementOfSeq
    <2>2. /\ rest \in Seq(S) /\ Len(rest) = IF q <= n THEN n - q + 1 ELSE 0
          /\ \A i \in 1 .. n - q + 1 : rest[i] = chars[q + i - 1]
      <3> HIDE DEF n
      <3> QED BY <1>3, <2>1, SubSeqProperties DEF n
    <2>3. Len(rest) \in Nat /\ Len(rest) >= 2 /\ 1 \in 1 .. n - q + 1 /\ 2 \in 1 .. n - q + 1 /\ q + 1 - 1 = q /\ q + 2 - 1 = q + 1
      <3> HIDE DEF rest
      <3> QED BY <1>3, <2>2
    <2>4. rest[1] = chars[q] /\ rest[2] = chars[q + 1]
      <3> HIDE DEF rest
      <3> QED BY <2>2, <2>3
    <2>5. Len(mark) = 2 /\ mark[1] = "\\" /\ mark[2] = "u"
      OBVIOUS
    <2> HIDE DEF rest, mark
    <2>6. IsPrefix(mark, rest)
      BY <1>2, <2>2, <2>3, <2>4, <2>5 DEF IsPrefix
    <2> QED BY <2>6 DEF Match, rest, mark
  <1> QED BY <1>2, <1>4, <1>5

\* The surrogates of a code point beyond 16 bits: ten of its bits each.
LEMMA TwentyBits ==
    ASSUME NEW m \in Nat, m <= 1048575
    PROVE  /\ m \div 1024 \in Nat /\ m \div 1024 <= 1023 /\ m % 1024 \in Nat /\ m % 1024 <= 1023
           /\ m = 1024 * (m \div 1024) + (m % 1024)
  OBVIOUS

LEMMA LowBits ==
    ASSUME NEW q \in Nat, q <= 1023
    PROVE  q % 1024 = q /\ (55296 + q) % 1024 = q /\ (56320 + q) % 1024 = q
  OBVIOUS

HighSurrogate == {n \in Nat : 55296 <= n /\ n <= 56319}
High(m) == 55296 + ((m \div 1024) % 1024)
Low(m) == 56320 + (m % 1024)

LEMMA Surrogates ==
    ASSUME NEW m \in Nat, m <= 1048575
    PROVE  /\ High(m) \in HighSurrogate /\ High(m) \in Unit /\ Low(m) \in Unit
           /\ Paired(High(m), Low(m)) = 65536 + m
  <1> DEFINE q == m \div 1024
             r == m % 1024
  <1>1. q \in Nat /\ q <= 1023 /\ r \in Nat /\ r <= 1023 /\ m = 1024 * q + r
    BY TwentyBits
  <1> HIDE DEF q, r
  <1>2. /\ q % 1024 = q /\ (55296 + q) % 1024 = q /\ (56320 + r) % 1024 = r
    BY <1>1, LowBits
  <1>3. High(m) = 55296 + q /\ Low(m) = 56320 + r
    BY <1>2 DEF High, Low, q, r
  <1>4. 55296 + q \in HighSurrogate
    BY <1>1 DEF HighSurrogate
  <1>5. 55296 + q \in Unit /\ 56320 + r \in Unit
    BY <1>1 DEF Unit
  <1>6. Paired(55296 + q, 56320 + r) = 65536 + q * 1024 + r
    BY <1>2 DEF Paired
  <1>7. 65536 + q * 1024 + r = 65536 + m
    BY <1>1
  <1> QED BY <1>3, <1>4, <1>5, <1>6, <1>7

\* decodeUnicodeCodePoint of what is and what is not a high surrogate.
LEMMA CodePointIs ==
    ASSUME NEW chars, NEW p, NEW u \in Nat, HexEscape(chars, p) = {u}
    PROVE  CodePoint(chars, p) = IF u \in HighSurrogate
                                 THEN IF Match(chars, p + 4, <<"\\", "u">>)
                                      THEN {<<Paired(u, low), p + 10>> : low \in HexEscape(chars, p + 6)}
                                      ELSE {}
                                 ELSE {<<u, p + 4>>}
  <1> DEFINE Read(v) == IF 55296 <= v /\ v <= 56319
                        THEN IF Match(chars, p + 4, <<"\\", "u">>)
                             THEN {<<Paired(v, low), p + 10>> : low \in HexEscape(chars, p + 6)}
                             ELSE {}
                        ELSE {<<v, p + 4>>}
  <1>1. CodePoint(chars, p) = UNION {Read(v) : v \in HexEscape(chars, p)}
    BY DEF CodePoint
  <1>2. UNION {Read(v) : v \in {u}} = Read(u)
    <2> HIDE DEF Read
    <2> QED OBVIOUS
  <1>3. CodePoint(chars, p) = Read(u)
    <2> HIDE DEF Read
    <2> QED BY <1>1, <1>2
  <1> QED BY <1>3 DEF HighSurrogate

\* Written as an escape: no letter of its own, and no printable character.
EscapedByNumber == {cp \in Nat : (cp < 32 /\ cp \notin {8, 9, 10, 12, 13}) \/ (128 <= cp /\ cp <= 1114111)}

LEMMA BasicIsWritten ==
    ASSUME NEW cp \in EscapedByNumber, cp \in Unit
    PROVE  Quoted(cp) = AppendHex(cp)
  <1>1. /\ cp \notin {8, 9, 10, 12, 13, 34, 92} /\ ~(cp >= 32 /\ cp < 128)
        /\ (cp < 32 \/ (128 <= cp /\ cp <= 65535)) /\ ~(cp > 65535) /\ cp \notin {8, 9, 10, 12, 13}
    BY DEF EscapedByNumber, Unit
  <1> QED BY <1>1 DEF Quoted

LEMMA SupplementaryIsWritten ==
    ASSUME NEW cp \in Nat, cp > 65535
    PROVE  Quoted(cp) = AppendHex(High(cp - 65536)) \o AppendHex(Low(cp - 65536))
  <1> DEFINE hasLetter == cp \in {8, 9, 10, 12, 13, 34, 92}
             isPrintable == cp \notin {8, 9, 10, 12, 13, 34, 92} /\ cp >= 32 /\ cp < 128
             isBasic == cp \notin {8, 9, 10, 12, 13} /\ (cp < 32 \/ (128 <= cp /\ cp <= 65535))
             isBeyond == cp > 65535
             letter == <<"\\", CHOOSE c \in DOMAIN Escape : Escape[c] = cp>>
             printable == <<Byte(cp)>>
             basic == AppendHex(cp)
             beyond == AppendHex(55296 + (((cp - 65536) \div 1024) % 1024))
                       \o AppendHex(56320 + ((cp - 65536) % 1024))
  <1>1. Quoted(cp) = CASE hasLetter -> letter [] isPrintable -> printable
                       [] isBasic -> basic [] isBeyond -> beyond
    BY DEF Quoted
  <1>2. ~hasLetter /\ ~isPrintable /\ ~isBasic /\ isBeyond
    OBVIOUS
  <1>3. beyond = AppendHex(High(cp - 65536)) \o AppendHex(Low(cp - 65536))
    BY DEF High, Low
  <1> HIDE DEF hasLetter, isPrintable, isBasic, isBeyond, letter, printable, basic, beyond
  <1>4. Quoted(cp) = beyond
    BY <1>1, <1>2
  <1> QED BY <1>3, <1>4

LEMMA UnitIsRead ==
    ASSUME NEW cp \in EscapedByNumber, cp \in Unit, cp \notin HighSurrogate,
           NEW chars, Len(chars) \in Nat, NEW p, Stands(chars, p, Quoted(cp))
    PROVE  /\ chars[p] = "\\" /\ chars[p + 1] = "u"
           /\ CodePoint(chars, p + 2) = {<<cp, p + Len(Quoted(cp))>>}
  <1> DEFINE q == p + 2
             written == AppendHex(cp)
  <1>1. Quoted(cp) = written /\ Len(written) = 6
    BY BasicIsWritten, AppendHexIs
  <1>2. p \in Nat
    BY DEF Stands
  <1>3. chars[p] = "\\" /\ chars[p + 1] = "u" /\ HexEscape(chars, q) = {cp}
    BY <1>1, EscapeIsRead
  <1>4. cp \in Nat
    BY DEF Unit
  <1>5. q + 4 = p + 6
    BY <1>2
  <1> HIDE DEF q, written
  <1>6. CodePoint(chars, q) = {<<cp, q + 4>>}
    BY <1>3, <1>4, CodePointIs
  <1> QED BY <1>1, <1>3, <1>5, <1>6 DEF q

LEMMA BeyondIsRead ==
    ASSUME NEW cp \in EscapedByNumber, cp \notin Unit,
           NEW S, NEW chars \in Seq(S), NEW p, Stands(chars, p, Quoted(cp))
    PROVE  /\ chars[p] = "\\" /\ chars[p + 1] = "u"
           /\ CodePoint(chars, p + 2) = {<<cp, p + Len(Quoted(cp))>>}
  <1> DEFINE m == cp - 65536
             high == High(m)
             low == Low(m)
             q == p + 2
             written == AppendHex(high) \o AppendHex(low)
  <1>1. cp \in Nat /\ cp > 65535 /\ m \in Nat /\ m <= 1048575 /\ 65536 + m = cp
    BY DEF EscapedByNumber, Unit
  <1>2. Quoted(cp) = written
    BY <1>1, SupplementaryIsWritten
  <1>3. high \in HighSurrogate /\ high \in Unit /\ low \in Unit /\ Paired(high, low) = cp
    <2>1. Paired(high, low) = 65536 + m /\ high \in HighSurrogate /\ high \in Unit /\ low \in Unit
      <3> HIDE DEF m
      <3> QED BY <1>1, Surrogates
    <2> HIDE DEF m, high, low
    <2> QED BY <1>1, <2>1
  <1> HIDE DEF m, high, low
  <1>4. Len(written) = 12
    <2>1. /\ AppendHex(high) \in Seq(Range(HexDigit) \cup {"\\", "u"}) /\ Len(AppendHex(high)) = 6
          /\ AppendHex(low) \in Seq(Range(HexDigit) \cup {"\\", "u"}) /\ Len(AppendHex(low)) = 6
      BY <1>3, AppendHexIs
    <2>2. Len(written) = Len(AppendHex(high)) + Len(AppendHex(low))
      BY <2>1, ConcatProperties
    <2> HIDE DEF written
    <2> QED BY <2>1, <2>2
  <1>5. p \in Nat
    BY DEF Stands
  <1>6. q + 10 = p + 12
    BY <1>5
  <1>7. /\ chars[p] = "\\" /\ chars[p + 1] = "u" /\ HexEscape(chars, q) = {high}
        /\ HexEscape(chars, q + 6) = {low} /\ Match(chars, q + 4, <<"\\", "u">>)
    BY <1>2, <1>3, PairIsRead
  <1> HIDE DEF written, q
  <1>8. high \in Nat
    BY <1>3 DEF Unit
  <1>9. CodePoint(chars, q) = {<<Paired(high, v), q + 10>> : v \in {low}}
    BY <1>3, <1>7, <1>8, CodePointIs
  <1> QED BY <1>2, <1>3, <1>4, <1>6, <1>7, <1>9 DEF q

(***************************************************************************)
(* What valueToQuotedString escapes by its number, decodeUnicodeCodePoint  *)
(* reads back as that code point, wherever it stands in a text, all of the *)
(* escape and no more: in the basic plane but for the high surrogates,     *)
(* which are no characters, and in the others as a pair of surrogates.     *)
(***************************************************************************)
THEOREM EscapesWrittenAreRead ==
    ASSUME NEW cp \in EscapedByNumber \ HighSurrogate,
           NEW S, NEW chars \in Seq(S), NEW p, Stands(chars, p, Quoted(cp))
    PROVE  /\ chars[p] = "\\" /\ chars[p + 1] = "u"
           /\ CodePoint(chars, p + 2) = {<<cp, p + Len(Quoted(cp))>>}
  <1>1. Len(chars) \in Nat
    OBVIOUS
  <1> QED BY <1>1, UnitIsRead, BeyondIsRead

-----------------------------------------------------------------------------
(* Strings as they are written *)

\* The characters of Unicode.
ScalarValue == {cp \in Nat : cp <= 1114111 /\ ~(55296 <= cp /\ cp <= 57343)}

\* What decodeString makes of the text from a position before the end on, f
\* being what it makes of it further on.
DecodedAt(f, chars, p) ==
    IF chars[p] # "\\" THEN {<<chars[p]>> \o rest : rest \in f[p + 1]}
    ELSE IF CharAt(chars, p + 1) = "u"
         THEN UNION {{CodePointToUTF8(cp[1]) \o rest : rest \in f[cp[2]]} : cp \in CodePoint(chars, p + 2)}
    ELSE IF CharAt(chars, p + 1) \in DOMAIN Escape
         THEN {<<Byte(Escape[chars[p + 1]])>> \o rest : rest \in f[p + 2]}
    ELSE {}

IsDecoding(f, chars) ==
    f = [p \in 1 .. Len(chars) + 1 |-> IF p > Len(chars) THEN {<<>>} ELSE DecodedAt(f, chars, p)]

LEMMA DecodeStringIs ==
    ASSUME NEW chars PROVE DecodeString(chars) = (CHOOSE f : IsDecoding(f, chars))[1]
  BY DEF DecodeString, IsDecoding, DecodedAt

LEMMA DecodingIs ==
    ASSUME NEW chars, Len(chars) \in Nat, NEW f, IsDecoding(f, chars), NEW p \in 1 .. Len(chars)
    PROVE  f[p] = DecodedAt(f, chars, p)
  <1>1. p \in 1 .. Len(chars) + 1 /\ ~(p > Len(chars))
    OBVIOUS
  <1> QED BY <1>1 DEF IsDecoding

LEMMA DecodingEnds ==
    ASSUME NEW chars, Len(chars) \in Nat, NEW f, IsDecoding(f, chars)
    PROVE  f[Len(chars) + 1] = {<<>>}
  <1> DEFINE n == Len(chars)
             m == n + 1
  <1>1. m \in 1 .. n + 1 /\ m > n /\ ~(m <= n)
    OBVIOUS
  <1> HIDE DEF m
  <1> QED BY <1>1 DEF IsDecoding, m

LEMMA BytesOf == \A cp \in Nat : cp <= 127 => CodePointToUTF8(cp) = <<Byte(cp)>>
  <1> SUFFICES ASSUME NEW cp \in Nat, cp <= 127 PROVE CodePointToUTF8(cp) = <<Byte(cp)>>
    OBVIOUS
  <1> DEFINE bytes == <<cp>>
  <1>1. CodePointToUTF8(cp) = [k \in DOMAIN bytes |-> Byte(bytes[k])]
    BY DEF CodePointToUTF8
  <1>2. DOMAIN bytes = {1} /\ bytes[1] = cp
    OBVIOUS
  <1> HIDE DEF bytes
  <1>3. [k \in DOMAIN bytes |-> Byte(bytes[k])] = [k \in {1} |-> Byte(cp)]
    BY <1>2
  <1>4. [k \in {1} |-> Byte(cp)] = <<Byte(cp)>>
    OBVIOUS
  <1> QED BY <1>1, <1>3, <1>4

\* The escapes of one letter.
Lettered == {8, 9, 10, 12, 13, 34, 92}

LEMMA LetterOf ==
    ASSUME NEW cp \in Lettered
    PROVE  \E c \in DOMAIN Escape \ {"u"} : Quoted(cp) = <<"\\", c>> /\ Escape[c] = cp
  <1> DEFINE c == CHOOSE d \in DOMAIN Escape : Escape[d] = cp
  <1>1. \E d \in DOMAIN Escape : Escape[d] = cp
    <2>1. /\ DOMAIN Escape = {"\"", "/", "\\", "b", "f", "n", "r", "t"}
          /\ Escape["b"] = 8 /\ Escape["t"] = 9 /\ Escape["n"] = 10 /\ Escape["f"] = 12
          /\ Escape["r"] = 13 /\ Escape["\""] = 34 /\ Escape["\\"] = 92
      BY DEF Escape
    <2> DEFINE D == DOMAIN Escape
    <2>2. "b" \in D /\ "t" \in D /\ "n" \in D /\ "f" \in D /\ "r" \in D /\ "\"" \in D /\ "\\" \in D
      BY <2>1
    <2>3. cp = 8 \/ cp = 9 \/ cp = 10 \/ cp = 12 \/ cp = 13 \/ cp = 34 \/ cp = 92
      BY DEF Lettered
    <2> HIDE DEF D
    <2>4. \E d \in D : Escape[d] = cp
      <3>1. ASSUME NEW e \in D, Escape[e] = cp PROVE \E d \in D : Escape[d] = cp
        BY <3>1
      <3> HIDE DEF D
      <3>2. CASE cp = 8
        BY <2>1, <2>2, <3>1, <3>2
      <3>3. CASE cp = 9
        BY <2>1, <2>2, <3>1, <3>3
      <3>4. CASE cp = 10
        BY <2>1, <2>2, <3>1, <3>4
      <3>5. CASE cp = 12
        BY <2>1, <2>2, <3>1, <3>5
      <3>6. CASE cp = 13
        BY <2>1, <2>2, <3>1, <3>6
      <3>7. CASE cp = 34
        BY <2>1, <2>2, <3>1, <3>7
      <3>8. CASE cp = 92
        BY <2>1, <2>2, <3>1, <3>8
      <3> QED BY <2>3, <3>2, <3>3, <3>4, <3>5, <3>6, <3>7, <3>8
    <2> QED BY <2>4 DEF D
  <1>2. c \in DOMAIN Escape /\ Escape[c] = cp
    BY <1>1
  <1>3. c # "u"
    <2>1. "u" \notin DOMAIN Escape
      BY DEF Escape
    <2> QED BY <1>2, <2>1
  <1>4. Quoted(cp) = <<"\\", c>>
    BY DEF Quoted, Lettered
  <1> QED BY <1>2, <1>3, <1>4

Printable == {cp \in Nat : 32 <= cp /\ cp < 128 /\ cp # 34 /\ cp # 92}

LEMMA PrintableIs ==
    ASSUME NEW cp \in Printable
    PROVE  Quoted(cp) = <<Byte(cp)>> /\ Byte(cp) # "\\"
  <1>1. cp \notin {8, 9, 10, 12, 13, 34, 92} /\ cp >= 32 /\ cp < 128
    BY DEF Printable
  <1>2. ~(cp \notin {8, 9, 10, 12, 13} /\ (cp < 32 \/ (128 <= cp /\ cp <= 65535))) /\ ~(cp > 65535)
    BY DEF Printable
  <1>3. Quoted(cp) = <<Byte(cp)>>
    BY <1>1, <1>2 DEF Quoted
  <1>4. cp \in 0 .. 255 /\ 92 \in 0 .. 255 /\ cp # 92
    BY DEF Printable
  <1>5. Byte(92) = "\\"
    BY DEF Byte, Ascii
  <1> QED BY <1>3, <1>4, <1>5, ByteAssumption

LEMMA ScalarKinds == \A cp \in ScalarValue :
                        cp \in Lettered \/ cp \in Printable \/ cp \in EscapedByNumber \ HighSurrogate
  BY DEF ScalarValue, Lettered, Printable, EscapedByNumber, HighSurrogate

\* One character, of whatever kind: decodeString takes it where it stands, and
\* goes on behind it.
LEMMA CharacterIsRead ==
    ASSUME NEW cp \in ScalarValue, NEW S, NEW chars \in Seq(S), NEW f, IsDecoding(f, chars),
           NEW p, Stands(chars, p, Quoted(cp))
    PROVE  /\ p \in Nat /\ Len(Quoted(cp)) \in Nat \ {0} /\ p + Len(Quoted(cp)) <= Len(chars) + 1
           /\ f[p] = {CodePointToUTF8(cp) \o rest : rest \in f[p + Len(Quoted(cp))]}
  <1>1. Len(chars) \in Nat /\ p \in Nat \ {0} /\ p + Len(Quoted(cp)) <= Len(chars) + 1
    BY DEF Stands
  <1>2. CASE cp \in Printable
    <2> DEFINE piece == <<Byte(cp)>>
    <2>1. Quoted(cp) = piece /\ Byte(cp) # "\\" /\ Len(piece) = 1 /\ piece[1] = Byte(cp)
      BY <1>2, PrintableIs
    <2> HIDE DEF piece
    <2>2. p \in 1 .. Len(chars) /\ chars[p] = Byte(cp)
      <3>1. 1 \in 1 .. 1 /\ p + 1 - 1 = p
        BY <1>1
      <3> QED BY <1>1, <2>1, <3>1 DEF Stands
    <2>3. f[p] = {<<Byte(cp)>> \o rest : rest \in f[p + 1]}
      <3>1. f[p] = DecodedAt(f, chars, p)
        BY <1>1, <2>1, <2>2, DecodingIs
      <3> QED BY <2>1, <2>2, <3>1 DEF DecodedAt
    <2>4. CodePointToUTF8(cp) = <<Byte(cp)>>
      BY <1>2, BytesOf DEF Printable
    <2> QED BY <1>1, <2>1, <2>3, <2>4
  <1>3. CASE cp \in Lettered
    <2>1. PICK c \in DOMAIN Escape \ {"u"} : Quoted(cp) = <<"\\", c>> /\ Escape[c] = cp
      BY <1>3, LetterOf
    <2> DEFINE piece == <<"\\", c>>
    <2>2. Quoted(cp) = piece /\ Len(piece) = 2 /\ piece[1] = "\\" /\ piece[2] = c
      BY <2>1
    <2> HIDE DEF piece
    <2>3. p \in 1 .. Len(chars) /\ p + 1 <= Len(chars) /\ chars[p] = "\\" /\ chars[p + 1] = c
      <3>1. 1 \in 1 .. 2 /\ 2 \in 1 .. 2 /\ p + 1 - 1 = p /\ p + 2 - 1 = p + 1
        BY <1>1
      <3> QED BY <1>1, <2>2, <3>1 DEF Stands
    <2>4. CharAt(chars, p + 1) = c
      BY <2>3 DEF CharAt
    <2>5. f[p] = {<<Byte(Escape[chars[p + 1]])>> \o rest : rest \in f[p + 2]}
      <3>1. f[p] = DecodedAt(f, chars, p)
        BY <1>1, <2>3, <2>4, DecodingIs
      <3> QED BY <2>3, <2>4, <3>1 DEF DecodedAt
    <2>6. CodePointToUTF8(cp) = <<Byte(cp)>>
      BY <1>3, BytesOf DEF Lettered
    <2> QED BY <1>1, <2>1, <2>2, <2>3, <2>5, <2>6
  <1>4. CASE cp \in EscapedByNumber \ HighSurrogate
    <2> DEFINE n == Len(Quoted(cp))
    <2>1. /\ chars[p] = "\\" /\ chars[p + 1] = "u"
          /\ CodePoint(chars, p + 2) = {<<cp, p + n>>}
      BY <1>4, EscapesWrittenAreRead
    <2>2. n \in Nat /\ n >= 6
      <3>1. CASE cp \in Unit
        <4>1. Quoted(cp) = AppendHex(cp) /\ Len(AppendHex(cp)) = 6
          BY <1>4, <3>1, BasicIsWritten, AppendHexIs
        <4> QED BY <4>1
      <3>2. CASE cp \notin Unit
        <4> DEFINE m == cp - 65536
                   first == AppendHex(High(m))
                   second == AppendHex(Low(m))
        <4>1. cp \in Nat /\ cp > 65535 /\ m \in Nat /\ m <= 1048575
          BY <1>4, <3>2 DEF EscapedByNumber, Unit
        <4>2. Quoted(cp) = first \o second
          BY <4>1, SupplementaryIsWritten
        <4>3. High(m) \in Unit /\ Low(m) \in Unit
          <5> HIDE DEF m
          <5> QED BY <4>1, Surrogates
        <4> DEFINE T == Range(HexDigit) \cup {"\\", "u"}
        <4>4. first \in Seq(T) /\ Len(first) = 6 /\ second \in Seq(T) /\ Len(second) = 6
          <5> HIDE DEF m
          <5> QED BY <4>3, AppendHexIs
        <4> HIDE DEF first, second, T
        <4>5. Len(first \o second) = 12
          <5>1. Len(first \o second) = Len(first) + Len(second)
            BY <4>4, ConcatProperties
          <5> QED BY <4>4, <5>1
        <4> QED BY <4>2, <4>5
      <3> QED BY <3>1, <3>2
    <2> HIDE DEF n
    <2>3. p \in 1 .. Len(chars) /\ p + 1 <= Len(chars)
      BY <1>1, <2>2 DEF n
    <2>4. CharAt(chars, p + 1) = "u"
      BY <2>1, <2>3 DEF CharAt
    <2>5. f[p] = UNION {{CodePointToUTF8(c[1]) \o rest : rest \in f[c[2]]} : c \in {<<cp, p + n>>}}
      <3>1. f[p] = DecodedAt(f, chars, p)
        BY <1>1, <2>1, <2>3, <2>4, DecodingIs
      <3> QED BY <2>1, <2>3, <2>4, <3>1 DEF DecodedAt
    <2>6. f[p] = {CodePointToUTF8(cp) \o rest : rest \in f[p + n]}
      <3> DEFINE read == <<cp, p + n>>
      <3>1. read[1] = cp /\ read[2] = p + n
        OBVIOUS
      <3> HIDE DEF read
      <3>2. UNION {{CodePointToUTF8(c[1]) \o rest : rest \in f[c[2]]} : c \in {read}}
            = {CodePointToUTF8(read[1]) \o rest : rest \in f[read[2]]}
        OBVIOUS
      <3> QED BY <2>5, <3>1, <3>2 DEF read
    <2> QED BY <1>1, <2>2, <2>6 DEF n
  <1> QED BY <1>2, <1>3, <1>4, ScalarKinds

\* A code point is read up to a later position.
LEMMA CodePointEnds ==
    ASSUME NEW chars, Len(chars) \in Nat, NEW p \in Nat, NEW c \in CodePoint(chars, p)
    PROVE  c[2] \in p + 1 .. Len(chars) + 1
  <1> DEFINE one(u) == IF Match(chars, p + 4, <<"\\", "u">>)
                       THEN {<<Paired(u, low), p + 10>> : low \in HexEscape(chars, p + 6)}
                       ELSE {}
             other(u) == {<<u, p + 4>>}
             read(u) == IF 55296 <= u /\ u <= 56319 THEN one(u) ELSE other(u)
  <1>1. CodePoint(chars, p) = UNION {read(u) : u \in HexEscape(chars, p)}
    BY DEF CodePoint
  <1>2. ASSUME NEW q \in Nat, NEW h \in HexEscape(chars, q) PROVE q + 3 <= Len(chars)
    BY <1>2 DEF HexEscape
  <1>3. PICK u \in HexEscape(chars, p) : c \in read(u)
    <2> HIDE DEF read
    <2> QED BY <1>1
  <1>4. c \in one(u) \/ c \in other(u)
    <2> HIDE DEF one, other
    <2> QED BY <1>3
  <1>5. CASE c \in other(u)
    <2>1. p + 3 <= Len(chars)
      BY <1>2
    <2>2. c[2] = p + 4
      BY <1>5
    <2> QED BY <2>1, <2>2
  <1>6. CASE c \in one(u)
    <2>1. PICK low \in HexEscape(chars, p + 6) : c = <<Paired(u, low), p + 10>>
      BY <1>6
    <2>2. p + 6 \in Nat /\ (p + 6) + 3 <= Len(chars)
      BY <1>2, <2>1
    <2>3. c[2] = p + 10
      BY <2>1
    <2> QED BY <2>2, <2>3
  <1> QED BY <1>4, <1>5, <1>6

LEMMA NoEscape == NUL \notin DOMAIN Escape /\ NUL # "u"
  BY DEF NUL, Escape

\* What decodeString takes depends on what it takes further on only.
LEMMA DecodedLater ==
    ASSUME NEW chars, Len(chars) \in Nat, NEW p \in 1 .. Len(chars), NEW f, NEW g,
           \A q \in p + 1 .. Len(chars) + 1 : f[q] = g[q]
    PROVE  DecodedAt(f, chars, p) = DecodedAt(g, chars, p)
  <1> DEFINE cps == CodePoint(chars, p + 2)
             plain(h) == {<<chars[p]>> \o rest : rest \in h[p + 1]}
             letter(h) == {<<Byte(Escape[chars[p + 1]])>> \o rest : rest \in h[p + 2]}
             number(h) == UNION {{CodePointToUTF8(cp[1]) \o rest : rest \in h[cp[2]]} : cp \in cps}
  <1>1. \A h : DecodedAt(h, chars, p) =
                  IF chars[p] # "\\" THEN plain(h)
                  ELSE IF CharAt(chars, p + 1) = "u" THEN number(h)
                       ELSE IF CharAt(chars, p + 1) \in DOMAIN Escape THEN letter(h) ELSE {}
    BY DEF DecodedAt
  <1>2. plain(f) = plain(g)
    <2>1. f[p + 1] = g[p + 1]
      OBVIOUS
    <2> QED BY <2>1
  <1>3. number(f) = number(g)
    <2>1. ASSUME NEW cp \in cps PROVE f[cp[2]] = g[cp[2]]
      <3>1. cp[2] \in (p + 2) + 1 .. Len(chars) + 1
        BY <2>1, CodePointEnds
      <3>2. \A q \in (p + 2) + 1 .. Len(chars) + 1 : q \in p + 1 .. Len(chars) + 1
        OBVIOUS
      <3> QED BY <3>1, <3>2
    <2> DEFINE fs(cp) == {CodePointToUTF8(cp[1]) \o rest : rest \in f[cp[2]]}
               gs(cp) == {CodePointToUTF8(cp[1]) \o rest : rest \in g[cp[2]]}
    <2>2. \A cp \in cps : fs(cp) = gs(cp)
      BY <2>1
    <2> HIDE DEF fs, gs, cps
    <2>3. UNION {fs(cp) : cp \in cps} = UNION {gs(cp) : cp \in cps}
      BY <2>2
    <2> QED BY <2>3 DEF fs, gs
  <1>4. CharAt(chars, p + 1) \in DOMAIN Escape => letter(f) = letter(g)
    <2>1. CharAt(chars, p + 1) \in DOMAIN Escape => p + 1 <= Len(chars)
      BY NoEscape DEF CharAt
    <2>2. p + 1 <= Len(chars) => f[p + 2] = g[p + 2]
      OBVIOUS
    <2> QED BY <2>1, <2>2
  <1> HIDE DEF plain, letter, number
  <1> QED BY <1>1, <1>2, <1>3, <1>4

LEMMA DecodingDefined == ASSUME NEW chars, Len(chars) \in Nat PROVE \E f : IsDecoding(f, chars)
  <1> DEFINE n == Len(chars)
             m == n + 1
             end == {<<>>}
             Decoding(f, p) == f = [q \in p .. m |-> IF q > n THEN end ELSE DecodedAt(f, chars, q)]
             T == {p \in 1 .. m : \E f : Decoding(f, p)}
  <1>0. n \in Nat /\ m \in Nat /\ 1 \in 1 .. m
    OBVIOUS
  <1>1. ASSUME NEW p \in 1 .. m, \A q \in p + 1 .. m : q \in T
        PROVE  p \in T
    <2>1. \E f : p < m => Decoding(f, p + 1)
      <3>1. CASE p < m
        <4>1. p + 1 \in p + 1 .. m
          BY <1>0, <3>1
        <4>2. p + 1 \in T
          BY <1>1, <4>1
        <4> HIDE DEF Decoding
        <4> QED BY <4>2
      <3>2. CASE ~(p < m)
        BY <3>2
      <3> QED BY <3>1, <3>2
    <2>2. PICK f : p < m => Decoding(f, p + 1)
      BY <2>1
    <2> DEFINE g == [q \in p .. m |-> IF q = p THEN IF p > n THEN end ELSE DecodedAt(f, chars, p) ELSE f[q]]
               h == [q \in p .. m |-> IF q > n THEN end ELSE DecodedAt(g, chars, q)]
    <2>3. ASSUME NEW q \in p .. m PROVE g[q] = h[q]
      <3>1. \A k \in p .. m :
               g[k] = IF k = p THEN IF p > n THEN end ELSE DecodedAt(f, chars, p) ELSE f[k]
        OBVIOUS
      <3>2. h[q] = IF q > n THEN end ELSE DecodedAt(g, chars, q)
        OBVIOUS
      <3>3. ~(q > n) => q \in 1 .. n
        BY <1>0
      <3>4. \A k \in q + 1 .. n + 1 : k \in p .. m /\ k # p
        BY <1>0
      <3> HIDE DEF g, h
      <3>5. ~(q > n) => DecodedAt(g, chars, q) = DecodedAt(f, chars, q)
        <4>1. \A k \in q + 1 .. Len(chars) + 1 : g[k] = f[k]
          BY <3>1, <3>4
        <4> QED BY <3>3, <4>1, DecodedLater
      <3> HIDE DEF end
      <3>6. CASE q = p
        BY <3>1, <3>2, <3>5, <3>6
      <3>7. CASE q # p
        <4>1. p < m /\ q \in p + 1 .. m
          BY <1>0, <3>7
        <4>2. f[q] = IF q > n THEN end ELSE DecodedAt(f, chars, q)
          BY <2>2, <4>1
        <4> QED BY <3>1, <3>2, <3>5, <3>7, <4>2
      <3> QED BY <3>6, <3>7
    <2>4. g = h
      BY <2>3
    <2>5. Decoding(g, p)
      BY <2>4
    <2> HIDE DEF g, Decoding
    <2> QED BY <2>5
  <1>2. 1 \in T
    <2> HIDE DEF T
    <2> QED BY <1>0, <1>1, Backwards
  <1>3. PICK f : Decoding(f, 1)
    BY <1>2
  <1>4. IsDecoding(f, chars)
    BY <1>3 DEF IsDecoding
  <1> QED BY <1>4

-----------------------------------------------------------------------------
(* UTF-8 *)

Octet == {Byte(n) : n \in 0 .. 255}

LEMMA OctetIs == ASSUME NEW n \in Nat, n <= 255 PROVE Byte(n) \in Octet
  <1>1. n \in 0 .. 255
    OBVIOUS
  <1> QED BY <1>1 DEF Octet

LEMMA ByteIs == \A n \in Nat : n <= 255 => ByteValue(Byte(n)) = n
  <1> SUFFICES ASSUME NEW n \in Nat, n <= 255 PROVE ByteValue(Byte(n)) = n
    OBVIOUS
  <1>0. n \in 0 .. 255
    OBVIOUS
  <1> DEFINE c == Byte(n)
             m == CHOOSE k \in 0 .. 255 : Byte(k) = c
  <1>1. m \in 0 .. 255 /\ Byte(m) = c
    BY <1>0
  <1>2. ByteValue(c) = m
    BY DEF ByteValue
  <1> HIDE DEF m
  <1> QED BY <1>0, <1>1, <1>2, ByteAssumption

\* The six bits of a trailing byte, and what is above them.
LEMMA SixBits ==
    ASSUME NEW n \in Nat
    PROVE  n \div 64 \in Nat /\ n % 64 \in Nat /\ n % 64 <= 63 /\ n = 64 * (n \div 64) + (n % 64)
  OBVIOUS

LEMMA Above12 == \A n \in Nat : n \div 4096 = (n \div 64) \div 64
  OBVIOUS

LEMMA Above18 == \A n \in Nat : n \div 262144 = ((n \div 64) \div 64) \div 64
  OBVIOUS

LEMMA Trail ==
    ASSUME NEW r \in Nat, r <= 63
    PROVE  128 + r \in Nat /\ 128 + r <= 255 /\ (128 + r) % 64 = r
  OBVIOUS

\* The bits of a first byte, by how many bytes follow it.
LEMMA LeadOfTwo ==
    ASSUME NEW q \in Nat, q <= 31
    PROVE  192 + q \in Nat /\ 192 + q <= 255 /\ (192 + q) % 32 = q
  OBVIOUS

LEMMA LeadOfThree ==
    ASSUME NEW q \in Nat, q <= 15
    PROVE  224 + q \in Nat /\ 224 + q <= 255 /\ (224 + q) % 16 = q
  OBVIOUS

LEMMA LeadOfFour ==
    ASSUME NEW q \in Nat, q <= 4
    PROVE  240 + q \in Nat /\ 240 + q <= 255 /\ (240 + q) % 8 = q
  OBVIOUS

\* The arms of utf8ToCodepoint.
LEMMA Utf8Arms ==
    ASSUME NEW bytes, NEW p, NEW a \in Nat, NEW b, NEW c, NEW d,
           ByteValue(bytes[p]) = a, ByteValue(bytes[p + 1]) % 64 = b,
           ByteValue(bytes[p + 2]) % 64 = c, ByteValue(bytes[p + 3]) % 64 = d
    PROVE  Utf8ToCodePoint(bytes, p) =
             IF a < 128 THEN <<a, 1>>
             ELSE IF a < 224 THEN <<(a % 32) * 64 + b, 2>>
             ELSE IF a < 240 THEN <<(a % 16) * 4096 + b * 64 + c, 3>>
             ELSE <<(a % 8) * 262144 + b * 4096 + c * 64 + d, 4>>
  <1> DEFINE v1 == ByteValue(bytes[p + 1]) % 64
             v2 == ByteValue(bytes[p + 2]) % 64
             v3 == ByteValue(bytes[p + 3]) % 64
             first == ByteValue(bytes[p])
             one == <<first, 1>>
             two == <<(first % 32) * 64 + v1, 2>>
             three == <<(first % 16) * 4096 + v1 * 64 + v2, 3>>
             four == <<(first % 8) * 262144 + v1 * 4096 + v2 * 64 + v3, 4>>
             read == Utf8ToCodePoint(bytes, p)
  <1>1. read = CASE first < 128 -> one
                 [] first >= 128 /\ first < 224 -> two
                 [] first >= 224 /\ first < 240 -> three
                 [] first >= 240 -> four
    BY DEF Utf8ToCodePoint
  <1>2. first = a /\ v1 = b /\ v2 = c /\ v3 = d
    OBVIOUS
  <1> HIDE DEF v1, v2, v3, first
  <1>3. /\ one = <<a, 1>>
        /\ two = <<(a % 32) * 64 + b, 2>>
        /\ three = <<(a % 16) * 4096 + b * 64 + c, 3>>
        /\ four = <<(a % 8) * 262144 + b * 4096 + c * 64 + d, 4>>
    BY <1>2
  <1> HIDE DEF one, two, three, four, read
  <1>4. read = IF a < 128 THEN one ELSE IF a < 224 THEN two ELSE IF a < 240 THEN three ELSE four
    BY <1>1, <1>2
  <1> QED BY <1>3, <1>4 DEF read

LEMMA ReadOne ==
    ASSUME NEW bytes, NEW p, NEW a \in Nat, a < 128, ByteValue(bytes[p]) = a
    PROVE  Utf8ToCodePoint(bytes, p) = <<a, 1>>
  <1> DEFINE b == ByteValue(bytes[p + 1]) % 64
             c == ByteValue(bytes[p + 2]) % 64
             d == ByteValue(bytes[p + 3]) % 64
  <1> QED BY Utf8Arms

LEMMA ReadTwo ==
    ASSUME NEW bytes, NEW p, NEW a \in Nat, NEW b, 128 <= a, a < 224,
           ByteValue(bytes[p]) = a, ByteValue(bytes[p + 1]) % 64 = b
    PROVE  Utf8ToCodePoint(bytes, p) = <<(a % 32) * 64 + b, 2>>
  <1> DEFINE c == ByteValue(bytes[p + 2]) % 64
             d == ByteValue(bytes[p + 3]) % 64
  <1> QED BY Utf8Arms

LEMMA ReadThree ==
    ASSUME NEW bytes, NEW p, NEW a \in Nat, NEW b, NEW c, 224 <= a, a < 240,
           ByteValue(bytes[p]) = a, ByteValue(bytes[p + 1]) % 64 = b, ByteValue(bytes[p + 2]) % 64 = c
    PROVE  Utf8ToCodePoint(bytes, p) = <<(a % 16) * 4096 + b * 64 + c, 3>>
  <1> DEFINE d == ByteValue(bytes[p + 3]) % 64
  <1> QED BY Utf8Arms

LEMMA ReadFour ==
    ASSUME NEW bytes, NEW p, NEW a \in Nat, NEW b, NEW c, NEW d, 240 <= a,
           ByteValue(bytes[p]) = a, ByteValue(bytes[p + 1]) % 64 = b, ByteValue(bytes[p + 2]) % 64 = c,
           ByteValue(bytes[p + 3]) % 64 = d
    PROVE  Utf8ToCodePoint(bytes, p) = <<(a % 8) * 262144 + b * 4096 + c * 64 + d, 4>>
  BY Utf8Arms

LEMMA TwoBytes ==
    ASSUME NEW cp \in Nat, 128 <= cp, cp <= 2047,
           NEW bytes, NEW p, Stands(bytes, p, CodePointToUTF8(cp))
    PROVE  /\ Utf8ToCodePoint(bytes, p) = <<cp, 2>>
           /\ CodePointToUTF8(cp) \in Seq(Octet) /\ Len(CodePointToUTF8(cp)) = 2
  <1> DEFINE q == cp \div 64
             r == cp % 64
  <1>1. q \in Nat /\ r \in Nat /\ r <= 63 /\ cp = 64 * q + r
    BY SixBits
  <1>2. (cp \div 1) % 64 = r
    OBVIOUS
  <1>3. CodePointToUTF8(cp) = <<Byte(192 + q), Byte(128 + r)>>
    <2> DEFINE s == <<192 + q, 128 + r>>
    <2>1. ~(cp <= 127) /\ cp > 127 /\ cp <= 2047 /\ ~(cp > 2047 /\ cp <= 65535) /\ ~(cp > 65535)
      OBVIOUS
    <2>2. CodePointToUTF8(cp) = [k \in DOMAIN s |-> Byte(s[k])]
      BY <1>2, <2>1 DEF CodePointToUTF8
    <2>3. s = <<192 + q, 128 + r>> /\ DOMAIN s = 1 .. 2 /\ s[1] = 192 + q /\ s[2] = 128 + r
      OBVIOUS
    <2> HIDE DEF q, r, s
    <2> QED BY <2>2, <2>3
  <1> HIDE DEF q, r
  <1>4. q <= 31 /\ q * 64 + r = cp
    BY <1>1
  <1> DEFINE a == 192 + q
             b == 128 + r
             piece == <<Byte(a), Byte(b)>>
  <1>5. /\ a \in Nat /\ a <= 255 /\ a % 32 = q /\ 128 <= a /\ a < 224
        /\ b \in Nat /\ b <= 255 /\ b % 64 = r
    BY <1>1, <1>4, LeadOfTwo, Trail
  <1>6. /\ CodePointToUTF8(cp) = piece /\ Len(piece) = 2
        /\ piece[1] = Byte(a) /\ piece[2] = Byte(b)
    BY <1>3
  <1>7. CodePointToUTF8(cp) \in Seq(Octet)
    <2>1. Byte(a) \in Octet /\ Byte(b) \in Octet
      <3> HIDE DEF a, b
      <3> QED BY <1>5, OctetIs
    <2> HIDE DEF a, b
    <2> QED BY <1>6, <2>1
  <1> HIDE DEF piece, a, b
  <1>8. bytes[p] = Byte(a) /\ bytes[p + 1] = Byte(b)
    <2>1. p \in Nat /\ \A k \in 1 .. Len(piece) : bytes[p + k - 1] = piece[k]
      BY <1>6 DEF Stands
    <2>2. /\ 1 \in 1 .. 2 /\ 2 \in 1 .. 2
          /\ p + 1 - 1 = p /\ p + 2 - 1 = p + 1
      BY <2>1
    <2> QED BY <1>6, <2>1, <2>2
  <1>9. ByteValue(bytes[p]) = a /\ ByteValue(bytes[p + 1]) % 64 = r
    BY <1>5, <1>8, ByteIs
  <1>10. Utf8ToCodePoint(bytes, p) = <<q * 64 + r, 2>>
    BY <1>5, <1>9, ReadTwo
  <1> QED BY <1>7, <1>4, <1>6, <1>10

LEMMA ThreeBytes ==
    ASSUME NEW cp \in Nat, 2048 <= cp, cp <= 65535,
           NEW bytes, NEW p, Stands(bytes, p, CodePointToUTF8(cp))
    PROVE  /\ Utf8ToCodePoint(bytes, p) = <<cp, 3>>
           /\ CodePointToUTF8(cp) \in Seq(Octet) /\ Len(CodePointToUTF8(cp)) = 3
  <1> DEFINE x == cp \div 64
             q == x \div 64
             r == x % 64
             s == cp % 64
  <1>1. x \in Nat /\ s \in Nat /\ s <= 63 /\ cp = 64 * x + s
    BY SixBits
  <1>2. q \in Nat /\ r \in Nat /\ r <= 63 /\ x = 64 * q + r
    <2> HIDE DEF x
    <2> QED BY <1>1, SixBits
  <1>3. (cp \div 1) % 64 = s /\ cp \div 4096 = q /\ (cp \div 64) % 64 = r
    BY Above12
  <1>4. CodePointToUTF8(cp) = <<Byte(224 + q), Byte(128 + r), Byte(128 + s)>>
    <2> DEFINE t == <<224 + cp \div 4096, 128 + ((cp \div 64) % 64), 128 + ((cp \div 1) % 64)>>
    <2>1. ~(cp <= 127) /\ ~(cp > 127 /\ cp <= 2047) /\ cp > 2047 /\ cp <= 65535 /\ ~(cp > 65535)
      OBVIOUS
    <2>2. CodePointToUTF8(cp) = [k \in DOMAIN t |-> Byte(t[k])]
      BY <2>1 DEF CodePointToUTF8
    <2>3. t = <<224 + q, 128 + r, 128 + s>>
      <3> HIDE DEF q, r, s
      <3> QED BY <1>3
    <2> HIDE DEF t, q, r, s
    <2>4. DOMAIN t = 1 .. 3 /\ t[1] = 224 + q /\ t[2] = 128 + r /\ t[3] = 128 + s
      BY <2>3
    <2> QED BY <2>2, <2>4
  <1> HIDE DEF q, r, s, x
  <1>5. q <= 15 /\ q * 4096 + r * 64 + s = cp
    BY <1>1, <1>2
  <1> DEFINE a == 224 + q
             b == 128 + r
             c == 128 + s
             piece == <<Byte(a), Byte(b), Byte(c)>>
  <1>6. /\ a \in Nat /\ a <= 255 /\ a % 16 = q /\ 224 <= a /\ a < 240
        /\ b \in Nat /\ b <= 255 /\ b % 64 = r
        /\ c \in Nat /\ c <= 255 /\ c % 64 = s
    BY <1>1, <1>2, <1>5, LeadOfThree, Trail
  <1>7. /\ CodePointToUTF8(cp) = piece /\ Len(piece) = 3
        /\ piece[1] = Byte(a) /\ piece[2] = Byte(b) /\ piece[3] = Byte(c)
    BY <1>4
  <1>8. CodePointToUTF8(cp) \in Seq(Octet)
    <2>1. Byte(a) \in Octet /\ Byte(b) \in Octet /\ Byte(c) \in Octet
      <3> HIDE DEF a, b, c
      <3> QED BY <1>6, OctetIs
    <2> HIDE DEF a, b, c
    <2> QED BY <1>7, <2>1
  <1> HIDE DEF piece, a, b, c
  <1>9. bytes[p] = Byte(a) /\ bytes[p + 1] = Byte(b) /\ bytes[p + 2] = Byte(c)
    <2>1. p \in Nat /\ \A k \in 1 .. Len(piece) : bytes[p + k - 1] = piece[k]
      BY <1>7 DEF Stands
    <2>2. /\ 1 \in 1 .. 3 /\ 2 \in 1 .. 3 /\ 3 \in 1 .. 3
          /\ p + 1 - 1 = p /\ p + 2 - 1 = p + 1 /\ p + 3 - 1 = p + 2
      BY <2>1
    <2> QED BY <1>7, <2>1, <2>2
  <1>10. ByteValue(bytes[p]) = a /\ ByteValue(bytes[p + 1]) % 64 = r /\ ByteValue(bytes[p + 2]) % 64 = s
    BY <1>6, <1>9, ByteIs
  <1>11. Utf8ToCodePoint(bytes, p) = <<q * 4096 + r * 64 + s, 3>>
    BY <1>6, <1>10, ReadThree
  <1> QED BY <1>8, <1>5, <1>7, <1>11

LEMMA FourBytes ==
    ASSUME NEW cp \in Nat, 65536 <= cp, cp <= 1114111,
           NEW bytes, NEW p, Stands(bytes, p, CodePointToUTF8(cp))
    PROVE  /\ Utf8ToCodePoint(bytes, p) = <<cp, 4>>
           /\ CodePointToUTF8(cp) \in Seq(Octet) /\ Len(CodePointToUTF8(cp)) = 4
  <1> DEFINE x == cp \div 64
             y == x \div 64
             q == y \div 64
             r == y % 64
             s == x % 64
             u == cp % 64
  <1>1. x \in Nat /\ u \in Nat /\ u <= 63 /\ cp = 64 * x + u
    BY SixBits
  <1>2. y \in Nat /\ s \in Nat /\ s <= 63 /\ x = 64 * y + s
    <2> HIDE DEF x
    <2> QED BY <1>1, SixBits
  <1>3. q \in Nat /\ r \in Nat /\ r <= 63 /\ y = 64 * q + r
    <2> HIDE DEF x, y
    <2> QED BY <1>2, SixBits
  <1>4. /\ (cp \div 1) % 64 = u /\ cp \div 4096 = y /\ cp \div 262144 = q
        /\ (cp \div 64) % 64 = s /\ (cp \div 4096) % 64 = r
    BY Above12, Above18
  <1>5. CodePointToUTF8(cp) = <<Byte(240 + q), Byte(128 + r), Byte(128 + s), Byte(128 + u)>>
    <2> DEFINE t == <<240 + cp \div 262144, 128 + ((cp \div 4096) % 64), 128 + ((cp \div 64) % 64),
                      128 + ((cp \div 1) % 64)>>
    <2>1. ~(cp <= 127) /\ ~(cp > 127 /\ cp <= 2047) /\ ~(cp > 2047 /\ cp <= 65535) /\ cp > 65535
      OBVIOUS
    <2>2. CodePointToUTF8(cp) = [k \in DOMAIN t |-> Byte(t[k])]
      BY <2>1 DEF CodePointToUTF8
    <2>3. t = <<240 + q, 128 + r, 128 + s, 128 + u>>
      <3> HIDE DEF q, r, s, u
      <3> QED BY <1>4
    <2> HIDE DEF t, q, r, s, u
    <2>4. DOMAIN t = 1 .. 4 /\ t[1] = 240 + q /\ t[2] = 128 + r /\ t[3] = 128 + s /\ t[4] = 128 + u
      BY <2>3
    <2> QED BY <2>2, <2>4
  <1> HIDE DEF q, r, s, u, x, y
  <1>6. q <= 4 /\ q * 262144 + r * 4096 + s * 64 + u = cp
    BY <1>1, <1>2, <1>3
  <1> DEFINE a == 240 + q
             b == 128 + r
             c == 128 + s
             d == 128 + u
             piece == <<Byte(a), Byte(b), Byte(c), Byte(d)>>
  <1>7. /\ a \in Nat /\ a <= 255 /\ a % 8 = q /\ 240 <= a
        /\ b \in Nat /\ b <= 255 /\ b % 64 = r
        /\ c \in Nat /\ c <= 255 /\ c % 64 = s
        /\ d \in Nat /\ d <= 255 /\ d % 64 = u
    BY <1>1, <1>2, <1>3, <1>6, LeadOfFour, Trail
  <1>8. /\ CodePointToUTF8(cp) = piece /\ Len(piece) = 4
        /\ piece[1] = Byte(a) /\ piece[2] = Byte(b) /\ piece[3] = Byte(c) /\ piece[4] = Byte(d)
    BY <1>5
  <1>9. CodePointToUTF8(cp) \in Seq(Octet)
    <2>1. Byte(a) \in Octet /\ Byte(b) \in Octet /\ Byte(c) \in Octet /\ Byte(d) \in Octet
      <3> HIDE DEF a, b, c, d
      <3> QED BY <1>7, OctetIs
    <2> HIDE DEF a, b, c, d
    <2> QED BY <1>8, <2>1
  <1> HIDE DEF piece, a, b, c, d
  <1>10. bytes[p] = Byte(a) /\ bytes[p + 1] = Byte(b) /\ bytes[p + 2] = Byte(c) /\ bytes[p + 3] = Byte(d)
    <2>1. p \in Nat /\ \A k \in 1 .. Len(piece) : bytes[p + k - 1] = piece[k]
      BY <1>8 DEF Stands
    <2>2. /\ 1 \in 1 .. 4 /\ 2 \in 1 .. 4 /\ 3 \in 1 .. 4 /\ 4 \in 1 .. 4
          /\ p + 1 - 1 = p /\ p + 2 - 1 = p + 1 /\ p + 3 - 1 = p + 2 /\ p + 4 - 1 = p + 3
      BY <2>1
    <2> QED BY <1>8, <2>1, <2>2
  <1>11. ByteValue(bytes[p]) = a /\ ByteValue(bytes[p + 1]) % 64 = r /\ ByteValue(bytes[p + 2]) % 64 = s /\ ByteValue(bytes[p + 3]) % 64 = u
    BY <1>7, <1>10, ByteIs
  <1>12. Utf8ToCodePoint(bytes, p) = <<q * 262144 + r * 4096 + s * 64 + u, 4>>
    BY <1>7, <1>11, ReadFour
  <1> QED BY <1>9, <1>6, <1>8, <1>12

\* What utf8ToCodepoint reads where the bytes of a character stand.
LEMMA Utf8IsRead ==
    ASSUME NEW cp \in ScalarValue, NEW bytes, NEW p, Stands(bytes, p, CodePointToUTF8(cp))
    PROVE  /\ Utf8ToCodePoint(bytes, p) = <<cp, Len(CodePointToUTF8(cp))>>
           /\ CodePointToUTF8(cp) \in Seq(Octet) /\ Len(CodePointToUTF8(cp)) \in 1 .. 4
  <1>1. cp \in Nat /\ cp <= 1114111
    BY DEF ScalarValue
  <1>2. CASE cp <= 127
    <2> DEFINE piece == <<Byte(cp)>>
    <2>1. CodePointToUTF8(cp) = piece /\ Len(piece) = 1 /\ piece[1] = Byte(cp)
      BY <1>1, <1>2, BytesOf
    <2>5. CodePointToUTF8(cp) \in Seq(Octet)
      <3>1. Byte(cp) \in Octet
        BY <1>1, <1>2, OctetIs
      <3> QED BY <2>1, <3>1
    <2> HIDE DEF piece
    <2>2. bytes[p] = Byte(cp)
      <3>1. p \in Nat /\ \A k \in 1 .. Len(piece) : bytes[p + k - 1] = piece[k]
        BY <2>1 DEF Stands
      <3>2. 1 \in 1 .. 1 /\ p + 1 - 1 = p
        BY <3>1
      <3> QED BY <2>1, <3>1, <3>2
    <2>3. ByteValue(bytes[p]) = cp
      BY <1>1, <1>2, <2>2, ByteIs
    <2>4. Utf8ToCodePoint(bytes, p) = <<cp, 1>>
      <3>1. cp < 128
        BY <1>1, <1>2
      <3> QED BY <1>1, <2>3, <3>1, ReadOne
    <2> QED BY <2>1, <2>4, <2>5
  <1>3. CASE 128 <= cp /\ cp <= 2047
    <2>1. /\ Utf8ToCodePoint(bytes, p) = <<cp, 2>>
          /\ CodePointToUTF8(cp) \in Seq(Octet) /\ Len(CodePointToUTF8(cp)) = 2
      BY <1>1, <1>3, TwoBytes
    <2> QED BY <2>1
  <1>4. CASE 2048 <= cp /\ cp <= 65535
    <2>1. /\ Utf8ToCodePoint(bytes, p) = <<cp, 3>>
          /\ CodePointToUTF8(cp) \in Seq(Octet) /\ Len(CodePointToUTF8(cp)) = 3
      BY <1>1, <1>4, ThreeBytes
    <2> QED BY <2>1
  <1>5. CASE 65536 <= cp
    <2>1. /\ Utf8ToCodePoint(bytes, p) = <<cp, 4>>
          /\ CodePointToUTF8(cp) \in Seq(Octet) /\ Len(CodePointToUTF8(cp)) = 4
      BY <1>1, <1>5, FourBytes
    <2> QED BY <2>1
  <1> QED BY <1>1, <1>2, <1>3, <1>4, <1>5

\* Whatever the bytes are, utf8ToCodepoint goes on by one to four of them.
LEMMA Utf8Goes ==
    ASSUME NEW bytes \in Seq(Octet), NEW p \in 1 .. Len(bytes)
    PROVE  Utf8ToCodePoint(bytes, p)[2] \in 1 .. 4
  <1>0. bytes[p] \in Octet
    BY ElementOfSeq
  <1>1. PICK a \in 0 .. 255 : bytes[p] = Byte(a)
    BY <1>0, Zenon DEF Octet
  <1>2. a \in Nat /\ a <= 255
    OBVIOUS
  <1>3. ByteValue(bytes[p]) = a
    BY <1>1, <1>2, ByteIs
  <1> DEFINE b == ByteValue(bytes[p + 1]) % 64
             c == ByteValue(bytes[p + 2]) % 64
             d == ByteValue(bytes[p + 3]) % 64
             one == <<a, 1>>
             two == <<(a % 32) * 64 + b, 2>>
             three == <<(a % 16) * 4096 + b * 64 + c, 3>>
             four == <<(a % 8) * 262144 + b * 4096 + c * 64 + d, 4>>
             read == Utf8ToCodePoint(bytes, p)
  <1>4. read = IF a < 128 THEN one ELSE IF a < 224 THEN two ELSE IF a < 240 THEN three ELSE four
    BY <1>2, <1>3, Utf8Arms
  <1>5. one[2] = 1 /\ two[2] = 2 /\ three[2] = 3 /\ four[2] = 4
    OBVIOUS
  <1> HIDE DEF one, two, three, four, read
  <1>6. read = one \/ read = two \/ read = three \/ read = four
    BY <1>4
  <1> QED BY <1>5, <1>6 DEF read

\* The recursion of valueToQuotedStringN.
IsQuoting(f, bytes) ==
    f = [p \in 1 .. Len(bytes) + 4 |->
            IF p > Len(bytes) THEN <<"\"">>
            ELSE LET cp == Utf8ToCodePoint(bytes, p) IN Quoted(cp[1]) \o f[p + cp[2]]]

QuotedAt(f, bytes, p) ==
    Quoted(Utf8ToCodePoint(bytes, p)[1]) \o f[p + Utf8ToCodePoint(bytes, p)[2]]

LEMMA QuotingDefined == ASSUME NEW bytes \in Seq(Octet) PROVE \E f : IsQuoting(f, bytes)
  <1> DEFINE n == Len(bytes)
             m == n + 4
             end == <<"\"">>
             Quoting(f, p) == f = [q \in p .. m |-> IF q > n THEN end ELSE QuotedAt(f, bytes, q)]
             T == {p \in 1 .. m : \E f : Quoting(f, p)}
  <1>0. n \in Nat /\ m \in Nat /\ 1 \in 1 .. m
    OBVIOUS
  <1>1. ASSUME NEW p \in 1 .. m, \A q \in p + 1 .. m : q \in T
        PROVE  p \in T
    <2>1. \E f : p < m => Quoting(f, p + 1)
      <3>1. CASE p < m
        <4>1. p + 1 \in p + 1 .. m
          BY <1>0, <3>1
        <4>2. p + 1 \in T
          BY <1>1, <4>1
        <4> HIDE DEF Quoting
        <4> QED BY <4>2
      <3>2. CASE ~(p < m)
        BY <3>2
      <3> QED BY <3>1, <3>2
    <2>2. PICK f : p < m => Quoting(f, p + 1)
      BY <2>1
    <2> DEFINE g == [q \in p .. m |-> IF q = p THEN IF p > n THEN end ELSE QuotedAt(f, bytes, p) ELSE f[q]]
               h == [q \in p .. m |-> IF q > n THEN end ELSE QuotedAt(g, bytes, q)]
    <2>3. ASSUME NEW q \in p .. m PROVE g[q] = h[q]
      <3>1. \A k \in p .. m :
               g[k] = IF k = p THEN IF p > n THEN end ELSE QuotedAt(f, bytes, p) ELSE f[k]
        OBVIOUS
      <3>2. h[q] = IF q > n THEN end ELSE QuotedAt(g, bytes, q)
        OBVIOUS
      <3> DEFINE r == q + Utf8ToCodePoint(bytes, q)[2]
      <3>3. ~(q > n) => r \in p .. m /\ r # p
        <4>1. ~(q > n) => q \in 1 .. Len(bytes)
          BY <1>0
        <4>2. ~(q > n) => Utf8ToCodePoint(bytes, q)[2] \in 1 .. 4
          BY <4>1, Utf8Goes
        <4> QED BY <1>0, <4>2
      <3> HIDE DEF g, h
      <3>5. ~(q > n) => QuotedAt(g, bytes, q) = QuotedAt(f, bytes, q)
        <4>1. ~(q > n) => g[r] = f[r]
          <5> HIDE DEF r
          <5> QED BY <3>1, <3>3
        <4> QED BY <4>1 DEF QuotedAt
      <3> HIDE DEF end
      <3>6. CASE q = p
        BY <3>1, <3>2, <3>5, <3>6
      <3>7. CASE q # p
        <4>1. p < m /\ q \in p + 1 .. m
          BY <1>0, <3>7
        <4>2. f[q] = IF q > n THEN end ELSE QuotedAt(f, bytes, q)
          BY <2>2, <4>1
        <4> QED BY <3>1, <3>2, <3>5, <3>7, <4>2
      <3> QED BY <3>6, <3>7
    <2>4. g = h
      BY <2>3
    <2>5. Quoting(g, p)
      BY <2>4
    <2> HIDE DEF g, Quoting
    <2> QED BY <2>5
  <1>2. 1 \in T
    <2> HIDE DEF T
    <2> QED BY <1>0, <1>1, Backwards
  <1>3. PICK f : Quoting(f, 1)
    BY <1>2
  <1>4. IsQuoting(f, bytes)
    BY <1>3 DEF IsQuoting, QuotedAt
  <1> QED BY <1>4

\* The characters of a quoted string, and the pieces it is made of.
QuotedCharacter == Range(HexDigit) \cup DOMAIN Escape \cup {"u"} \cup Octet

LEMMA QuotedIsWritten ==
    ASSUME NEW cp \in ScalarValue
    PROVE  Quoted(cp) \in Seq(QuotedCharacter)
  <1>1. CASE cp \in Printable
    <2>1. Quoted(cp) = <<Byte(cp)>>
      BY <1>1, PrintableIs
    <2>2. Byte(cp) \in QuotedCharacter
      <3>1. cp \in Nat /\ cp <= 255
        BY <1>1 DEF Printable
      <3> QED BY <3>1, OctetIs DEF QuotedCharacter
    <2> QED BY <2>1, <2>2
  <1>2. CASE cp \in Lettered
    <2>1. PICK c \in DOMAIN Escape \ {"u"} : Quoted(cp) = <<"\\", c>> /\ Escape[c] = cp
      BY <1>2, LetterOf
    <2>2. "\\" \in DOMAIN Escape
      BY DEF Escape
    <2>3. c \in QuotedCharacter /\ "\\" \in QuotedCharacter
      BY <2>2 DEF QuotedCharacter
    <2> QED BY <2>1, <2>3
  <1>3. CASE cp \in EscapedByNumber \ HighSurrogate
    <2> DEFINE T == Range(HexDigit) \cup {"\\", "u"}
    <2>0. T \subseteq QuotedCharacter
      <3>1. "\\" \in DOMAIN Escape
        BY DEF Escape
      <3> QED BY <3>1 DEF QuotedCharacter
    <2>1. CASE cp \in Unit
      <3>1. Quoted(cp) = AppendHex(cp)
        BY <1>3, <2>1, BasicIsWritten
      <3>2. AppendHex(cp) \in Seq(T)
        BY <2>1, AppendHexIs
      <3> HIDE DEF T
      <3> QED BY <2>0, <3>1, <3>2
    <2>2. CASE cp \notin Unit
      <3> DEFINE m == cp - 65536
                 first == AppendHex(High(m))
                 second == AppendHex(Low(m))
      <3>1. cp \in Nat /\ cp > 65535 /\ m \in Nat /\ m <= 1048575
        BY <1>3, <2>2 DEF EscapedByNumber, Unit
      <3>2. Quoted(cp) = first \o second
        BY <3>1, SupplementaryIsWritten
      <3>3. High(m) \in Unit /\ Low(m) \in Unit
        <4> HIDE DEF m
        <4> QED BY <3>1, Surrogates
      <3>4. first \in Seq(T) /\ second \in Seq(T)
        <4> HIDE DEF m
        <4> QED BY <3>3, AppendHexIs
      <3> HIDE DEF first, second, T
      <3>5. first \o second \in Seq(T)
        BY <3>4, ConcatProperties
      <3> QED BY <2>0, <3>2, <3>5
    <2> QED BY <2>1, <2>2
  <1> QED BY <1>1, <1>2, <1>3, ScalarKinds

LEMMA QuotingIs ==
    ASSUME NEW bytes \in Seq(Octet), NEW f, IsQuoting(f, bytes), NEW p \in 1 .. Len(bytes)
    PROVE  f[p] = QuotedAt(f, bytes, p)
  <1>1. p \in 1 .. Len(bytes) + 4 /\ ~(p > Len(bytes))
    OBVIOUS
  <1> QED BY <1>1 DEF IsQuoting, QuotedAt

LEMMA QuotingEnds ==
    ASSUME NEW bytes \in Seq(Octet), NEW f, IsQuoting(f, bytes)
    PROVE  f[Len(bytes) + 1] = <<"\"">>
  <1> DEFINE n == Len(bytes)
             m == n + 1
  <1>1. m \in 1 .. n + 4 /\ m > n
    OBVIOUS
  <1> HIDE DEF m
  <1> QED BY <1>1 DEF IsQuoting, m

\* All but the last of a piece and more.
LEMMA ButTheLast ==
    ASSUME NEW S, NEW a \in Seq(S), NEW b \in Seq(S), Len(b) >= 1
    PROVE  /\ a \o b \in Seq(S) /\ Len(a \o b) >= 1
           /\ SubSeq(b, 1, Len(b) - 1) \in Seq(S)
           /\ SubSeq(a \o b, 1, Len(a \o b) - 1) = a \o SubSeq(b, 1, Len(b) - 1)
  <1> DEFINE m == Len(a)
             n == Len(b)
             c == a \o b
             d == SubSeq(b, 1, n - 1)
             left == SubSeq(c, 1, Len(c) - 1)
             right == a \o d
  <1>1. m \in Nat /\ n \in Nat /\ n >= 1
    OBVIOUS
  <1>2. c \in Seq(S) /\ Len(c) = m + n /\ \A k \in 1 .. m + n : c[k] = IF k <= m THEN a[k] ELSE b[k - m]
    BY ConcatProperties
  <1>3. d \in Seq(S) /\ Len(d) = n - 1 /\ \A k \in 1 .. n - 1 : d[k] = b[k]
    <2>1. \A k \in 1 .. n - 1 : 1 + k - 1 = k
      OBVIOUS
    <2>2. 1 \in 1 .. n + 1 /\ n - 1 \in 1 - 1 .. n /\ (n - 1) - 1 + 1 = n - 1
      BY <1>1
    <2> HIDE DEF n
    <2> QED BY <1>1, <2>1, <2>2, SubSeqProperties DEF n
  <1>4. left \in Seq(S) /\ Len(left) = m + n - 1 /\ \A k \in 1 .. m + n - 1 : left[k] = c[k]
    <2>1. \A k \in 1 .. m + n - 1 : 1 + k - 1 = k
      OBVIOUS
    <2>2. 1 \in 1 .. (m + n) + 1 /\ m + n - 1 \in 1 - 1 .. m + n /\ (m + n - 1) - 1 + 1 = m + n - 1
      BY <1>1
    <2> HIDE DEF m, n, c
    <2> QED BY <1>1, <1>2, <2>1, <2>2, SubSeqProperties
  <1> HIDE DEF m, n, c, d, left
  <1>5. right \in Seq(S) /\ Len(right) = m + (n - 1)
        /\ \A k \in 1 .. m + (n - 1) : right[k] = IF k <= m THEN a[k] ELSE d[k - m]
    BY <1>3, ConcatProperties DEF m
  <1> HIDE DEF right
  <1>6. left = right
    <2>1. ASSUME NEW k \in 1 .. m + n - 1 PROVE left[k] = right[k]
      <3>1. k \in 1 .. m + n /\ k \in 1 .. m + (n - 1) /\ (~(k <= m) => k - m \in 1 .. n - 1)
        BY <1>1
      <3> QED BY <1>2, <1>3, <1>4, <1>5, <3>1
    <2>2. Len(left) = Len(right) /\ Len(left) = m + n - 1
      BY <1>1, <1>4, <1>5
    <2> QED BY <1>4, <1>5, <2>1, <2>2, SeqEqual
  <1> QED BY <1>1, <1>2, <1>3, <1>6 DEF c, d, left, right, n

\* From where a piece stands, a sequence is the piece and the rest.
LEMMA PieceAndRest ==
    ASSUME NEW S, NEW s \in Seq(S), NEW a \in Seq(S), NEW p, Stands(s, p, a)
    PROVE  SubSeq(s, p, Len(s)) = a \o SubSeq(s, p + Len(a), Len(s))
  <1> DEFINE n == Len(s)
             m == Len(a)
             q == p + m
             rest == SubSeq(s, q, n)
             left == SubSeq(s, p, n)
             right == a \o rest
  <1>1. /\ n \in Nat /\ m \in Nat /\ p \in Nat \ {0} /\ p + m <= n + 1
        /\ \A k \in 1 .. m : s[p + k - 1] = a[k]
    BY DEF Stands
  <1>2. left \in Seq(S) /\ Len(left) = n - p + 1 /\ \A k \in 1 .. n - p + 1 : left[k] = s[p + k - 1]
    <2>1. p \in 1 .. n + 1 /\ n \in p - 1 .. n
      BY <1>1
    <2> HIDE DEF n
    <2> QED BY <1>1, <2>1, SubSeqProperties DEF n
  <1>3. rest \in Seq(S) /\ Len(rest) = n - q + 1 /\ \A k \in 1 .. n - q + 1 : rest[k] = s[q + k - 1]
    <2>1. q \in 1 .. n + 1 /\ n \in q - 1 .. n
      BY <1>1
    <2> HIDE DEF n, q
    <2> QED BY <1>1, <2>1, SubSeqProperties DEF n
  <1> HIDE DEF rest, left, n
  <1>4. right \in Seq(S) /\ Len(right) = m + (n - q + 1)
        /\ \A k \in 1 .. m + (n - q + 1) : right[k] = IF k <= m THEN a[k] ELSE rest[k - m]
    <2>1. /\ right \in Seq(S) /\ Len(right) = Len(a) + Len(rest)
          /\ \A k \in 1 .. Len(a) + Len(rest) : right[k] = IF k <= Len(a) THEN a[k] ELSE rest[k - Len(a)]
      BY <1>3, ConcatProperties
    <2> HIDE DEF q, right
    <2> QED BY <1>3, <2>1
  <1> HIDE DEF m, right
  <1>5. m + (n - q + 1) = n - p + 1
    BY <1>1
  <1>6. ASSUME NEW k \in 1 .. n - p + 1 PROVE left[k] = right[k]
    <2>1. k <= m => k \in 1 .. m
      BY <1>1
    <2>2. ~(k <= m) => k - m \in 1 .. n - q + 1 /\ q + (k - m) - 1 = p + k - 1
      BY <1>1
    <2> HIDE DEF q
    <2> QED BY <1>1, <1>2, <1>3, <1>4, <1>5, <2>1, <2>2
  <1>7. left = right
    <2> HIDE DEF q
    <2> QED BY <1>2, <1>4, <1>5, <1>6, SeqEqual
  <1> QED BY <1>7 DEF left, right, rest, n, m

\* All that a string is written with but the quote at its end.
Inner(s) == SubSeq(s, 1, Len(s) - 1)

\* What is written from the beginning of a character on ends with a quote.
LEMMA QuotedFrom ==
    ASSUME NEW bytes \in Seq(Octet), NEW f, IsQuoting(f, bytes),
           NEW p \in 1 .. Len(bytes), NEW cp \in ScalarValue, Stands(bytes, p, CodePointToUTF8(cp))
    PROVE  f[p] = Quoted(cp) \o f[p + Len(CodePointToUTF8(cp))]
  <1> DEFINE n == Len(CodePointToUTF8(cp))
             read == <<cp, n>>
  <1>1. Utf8ToCodePoint(bytes, p) = read
    BY Utf8IsRead
  <1>2. read[1] = cp /\ read[2] = n
    OBVIOUS
  <1> HIDE DEF read, n
  <1>3. f[p] = QuotedAt(f, bytes, p)
    BY QuotingIs
  <1> QED BY <1>1, <1>2, <1>3 DEF QuotedAt, n

\* The quote, as one character of many.
Mark == "\""

LEMMA MarkIs == Mark \in QuotedCharacter
  <1>1. Mark \in DOMAIN Escape
    BY DEF Mark, Escape
  <1> QED BY <1>1 DEF QuotedCharacter

\* starts are where the characters of some bytes begin, and the end.
AreStarts(starts, bytes) ==
    /\ starts \subseteq 1 .. Len(bytes) + 1 /\ 1 \in starts
    /\ \A p \in starts :
          p <= Len(bytes) => \E cp \in ScalarValue : /\ Stands(bytes, p, CodePointToUTF8(cp))
                                                     /\ p + Len(CodePointToUTF8(cp)) \in starts

\* The character that begins at a start, and the next start.
LEMMA NextStart ==
    ASSUME NEW bytes \in Seq(Octet), NEW starts, AreStarts(starts, bytes), NEW p \in starts, p <= Len(bytes)
    PROVE  \E cp \in ScalarValue :
              /\ Stands(bytes, p, CodePointToUTF8(cp)) /\ CodePointToUTF8(cp) \in Seq(Octet)
              /\ p \in 1 .. Len(bytes) /\ p + Len(CodePointToUTF8(cp)) \in starts
              /\ p + Len(CodePointToUTF8(cp)) \in p + 1 .. Len(bytes) + 1
  <1>1. p \in 1 .. Len(bytes) + 1
    BY DEF AreStarts
  <1>2. PICK cp \in ScalarValue : /\ Stands(bytes, p, CodePointToUTF8(cp))
                                  /\ p + Len(CodePointToUTF8(cp)) \in starts
    BY DEF AreStarts
  <1>3. CodePointToUTF8(cp) \in Seq(Octet) /\ Len(CodePointToUTF8(cp)) \in 1 .. 4
    BY <1>2, Utf8IsRead
  <1> DEFINE m == Len(CodePointToUTF8(cp))
  <1>4. m \in 1 .. 4 /\ p + m <= Len(bytes) + 1
    BY <1>2, <1>3 DEF Stands
  <1> HIDE DEF m
  <1>5. p \in 1 .. Len(bytes) /\ p + m \in p + 1 .. Len(bytes) + 1
    BY <1>1, <1>4
  <1> QED BY <1>2, <1>3, <1>5 DEF m

\* The quoted string from any character on, and what is in it.
LEMMA QuotedStarts ==
    ASSUME NEW bytes \in Seq(Octet), NEW f, IsQuoting(f, bytes), NEW starts, AreStarts(starts, bytes)
    PROVE  \A p \in starts : /\ f[p] \in Seq(QuotedCharacter) /\ Len(f[p]) >= 1
                             /\ f[p][Len(f[p])] = Mark
  <1> DEFINE n == Len(bytes)
             T == {p \in 1 .. n + 1 : p \in starts => /\ f[p] \in Seq(QuotedCharacter) /\ Len(f[p]) >= 1
                                                      /\ f[p][Len(f[p])] = Mark}
  <1>1. n \in Nat /\ n + 1 \in Nat
    OBVIOUS
  <1>2. ASSUME NEW p \in 1 .. n + 1, \A q \in p + 1 .. n + 1 : q \in T
        PROVE  p \in T
    <2> SUFFICES ASSUME p \in starts
                 PROVE  f[p] \in Seq(QuotedCharacter) /\ Len(f[p]) >= 1 /\ f[p][Len(f[p])] = Mark
      OBVIOUS
    <2>1. CASE p <= n
      <3>1. PICK cp \in ScalarValue :
               /\ Stands(bytes, p, CodePointToUTF8(cp)) /\ CodePointToUTF8(cp) \in Seq(Octet)
               /\ p \in 1 .. n /\ p + Len(CodePointToUTF8(cp)) \in starts
               /\ p + Len(CodePointToUTF8(cp)) \in p + 1 .. n + 1
        BY <2>1, NextStart
      <3> DEFINE q == p + Len(CodePointToUTF8(cp))
                 a == Quoted(cp)
                 b == f[q]
      <3>2. p \in 1 .. n /\ q \in starts /\ q \in p + 1 .. n + 1
        BY <3>1
      <3>3. f[p] = a \o b
        BY <3>1, <3>2, QuotedFrom
      <3>4. b \in Seq(QuotedCharacter) /\ Len(b) >= 1 /\ b[Len(b)] = Mark
        <4>1. q \in T
          BY <1>2, <3>2
        <4> HIDE DEF q
        <4> QED BY <3>2, <4>1
      <3>5. a \in Seq(QuotedCharacter)
        BY QuotedIsWritten
      <3> HIDE DEF a, b
      <3>6. a \o b \in Seq(QuotedCharacter) /\ Len(a \o b) = Len(a) + Len(b)
            /\ \A k \in 1 .. Len(a) + Len(b) : (a \o b)[k] = IF k <= Len(a) THEN a[k] ELSE b[k - Len(a)]
        BY <3>4, <3>5, ConcatProperties
      <3>7. /\ Len(a) \in Nat /\ Len(b) \in Nat /\ Len(a) + Len(b) \in 1 .. Len(a) + Len(b)
            /\ ~(Len(a) + Len(b) <= Len(a)) /\ Len(a) + Len(b) - Len(a) = Len(b)
        BY <3>4, <3>5
      <3> DEFINE c == a \o b
      <3>8. c \in Seq(QuotedCharacter) /\ Len(c) >= 1 /\ c[Len(c)] = b[Len(b)]
        BY <3>4, <3>6, <3>7
      <3>9. f[p] = c
        BY <3>3
      <3> HIDE DEF c
      <3> QED BY <3>4, <3>8, <3>9
    <2>2. CASE ~(p <= n)
      <3>1. p = n + 1
        BY <1>1, <2>2
      <3> DEFINE s == <<Mark>>
      <3>2. f[p] = s
        BY <3>1, QuotingEnds DEF Mark
      <3>3. Mark \in QuotedCharacter
        BY MarkIs
      <3>4. s \in Seq(QuotedCharacter) /\ Len(s) = 1 /\ s[1] = Mark
        BY <3>3
      <3> HIDE DEF s
      <3> QED BY <3>2, <3>4
    <2> QED BY <2>1, <2>2
  <1>3. \A p \in 1 .. n + 1 : p \in T
    <2> HIDE DEF T
    <2> QED BY <1>1, <1>2, Backwards
  <1> QED BY <1>3 DEF AreStarts

\* Wherever the inside of what is written from a character on stands at the end
\* of a text, decodeString makes of it the bytes from that character on.
LEMMA InnerIsRead ==
    ASSUME NEW bytes \in Seq(Octet), NEW f, IsQuoting(f, bytes), NEW starts, AreStarts(starts, bytes),
           NEW S, NEW chars \in Seq(S), NEW g, IsDecoding(g, chars)
    PROVE  \A p \in starts : \A r \in Nat :
              Stands(chars, r, Inner(f[p])) /\ r + Len(Inner(f[p])) = Len(chars) + 1
              => g[r] = {SubSeq(bytes, p, Len(bytes))}
  <1> DEFINE n == Len(bytes)
             Read(p) == \A r \in Nat :
                          Stands(chars, r, Inner(f[p])) /\ r + Len(Inner(f[p])) = Len(chars) + 1
                          => g[r] = {SubSeq(bytes, p, n)}
             T == {p \in 1 .. n + 1 : p \in starts => Read(p)}
  <1>1. n \in Nat /\ n + 1 \in Nat /\ Len(chars) \in Nat
    OBVIOUS
  <1>2. ASSUME NEW p \in 1 .. n + 1, \A q \in p + 1 .. n + 1 : q \in T
        PROVE  p \in T
    <2> SUFFICES ASSUME p \in starts, NEW r \in Nat,
                        Stands(chars, r, Inner(f[p])), r + Len(Inner(f[p])) = Len(chars) + 1
                 PROVE  g[r] = {SubSeq(bytes, p, n)}
      OBVIOUS
    <2>1. CASE p <= n
      <3>1. PICK cp \in ScalarValue :
               /\ Stands(bytes, p, CodePointToUTF8(cp)) /\ CodePointToUTF8(cp) \in Seq(Octet)
               /\ p \in 1 .. n /\ p + Len(CodePointToUTF8(cp)) \in starts
               /\ p + Len(CodePointToUTF8(cp)) \in p + 1 .. n + 1
        BY <2>1, NextStart
      <3> DEFINE piece == CodePointToUTF8(cp)
                 q == p + Len(piece)
                 a == Quoted(cp)
                 b == f[q]
      <3>2. p \in 1 .. n /\ q \in starts /\ q \in p + 1 .. n + 1 /\ piece \in Seq(Octet)
        BY <3>1
      <3>3. f[p] = a \o b
        BY <3>1, <3>2, QuotedFrom
      <3>4. a \in Seq(QuotedCharacter) /\ b \in Seq(QuotedCharacter) /\ Len(b) >= 1
        BY <3>2, QuotedIsWritten, QuotedStarts
      <3>5. Read(q)
        <4>1. q \in T
          BY <1>2, <3>2
        <4> HIDE DEF q, Read
        <4> QED BY <3>2, <4>1
      <3> DEFINE c == Inner(b)
      <3>6. Inner(f[p]) = a \o c /\ c \in Seq(QuotedCharacter)
        <4> HIDE DEF a, b
        <4> QED BY <3>3, <3>4, ButTheLast DEF Inner
      <3> HIDE DEF c
      <3>7. Stands(chars, r, a) /\ Stands(chars, r + Len(a), c)
        <4> HIDE DEF a
        <4> QED BY <1>1, <3>4, <3>6, BothStand
      <3>8. g[r] = {piece \o rest : rest \in g[r + Len(a)]} /\ Len(a) \in Nat
        BY <3>7, CharacterIsRead
      <3>9. (r + Len(a)) + Len(c) = Len(chars) + 1 /\ r + Len(a) \in Nat
        <4>1. Len(a \o c) = Len(a) + Len(c)
          BY <3>4, <3>6, ConcatProperties
        <4> HIDE DEF a
        <4>2. Len(c) \in Nat
          BY <3>6
        <4> QED BY <1>1, <3>6, <3>8, <4>1, <4>2
      <3>10. g[r + Len(a)] = {SubSeq(bytes, q, n)}
        <4> HIDE DEF a, q, n
        <4> QED BY <3>5, <3>7, <3>9 DEF c, b
      <3>11. SubSeq(bytes, p, n) = piece \o SubSeq(bytes, q, n)
        BY <3>1, <3>2, PieceAndRest
      <3> DEFINE rest == SubSeq(bytes, q, n)
      <3> HIDE DEF piece, a, rest
      <3> QED BY <3>8, <3>10, <3>11 DEF rest
    <2>2. CASE ~(p <= n)
      <3>1. p = n + 1
        BY <1>1, <2>2
      <3> DEFINE s == <<Mark>>
      <3>2. f[p] = s
        BY <3>1, QuotingEnds DEF Mark
      <3>3. Inner(s) = <<>>
        BY DEF Inner
      <3>4. r = Len(chars) + 1
        <4>1. Len(Inner(f[p])) = 0
          BY <3>2, <3>3
        <4> QED BY <1>1, <4>1
      <3>5. g[r] = {<<>>}
        BY <1>1, <3>4, DecodingEnds
      <3>6. SubSeq(bytes, p, n) = <<>>
        BY <1>1, <3>1
      <3> QED BY <3>5, <3>6
    <2> QED BY <2>1, <2>2
  <1>3. \A p \in 1 .. n + 1 : p \in T
    <2> HIDE DEF T
    <2> QED BY <1>1, <1>2, Backwards
  <1> QED BY <1>3 DEF AreStarts

\* UTF-8 without unpaired surrogates.
IsUtf8(bytes) == bytes \in Seq(Octet) /\ \E starts : AreStarts(starts, bytes)

(***************************************************************************)
(* Whatever characters there are in a string, valueToQuotedString puts it  *)
(* between quotes in such a way that decodeString, which the reader gives  *)
(* all but the quotes, makes the same bytes of it: no two escapes run into *)
(* each other and nothing is lost or added, in strings of any length.      *)
(***************************************************************************)
THEOREM StringsWrittenAreRead ==
    ASSUME NEW bytes, IsUtf8(bytes)
    PROVE  LET written == QuotedString(bytes)
           IN  /\ written[1] = "\"" /\ written[Len(written)] = "\"" /\ Len(written) >= 2
               /\ DecodeString(SubSeq(written, 2, Len(written) - 1)) = {bytes}
  <1>1. bytes \in Seq(Octet)
    BY DEF IsUtf8
  <1>2. PICK starts : AreStarts(starts, bytes)
    BY DEF IsUtf8
  <1> DEFINE f == CHOOSE h : IsQuoting(h, bytes)
             w == f[1]
             quote == <<Mark>>
             written == QuotedString(bytes)
             chars == SubSeq(written, 2, Len(written) - 1)
             g == CHOOSE h : IsDecoding(h, chars)
  <1>3. IsQuoting(f, bytes)
    BY <1>1, QuotingDefined
  <1>4. written = quote \o w
    BY DEF QuotedString, IsQuoting, Mark
  <1> HIDE DEF f
  <1>5. 1 \in starts
    BY <1>2 DEF AreStarts
  <1>6. w \in Seq(QuotedCharacter) /\ Len(w) >= 1 /\ w[Len(w)] = Mark /\ Len(w) \in Nat
    BY <1>1, <1>2, <1>3, <1>5, QuotedStarts
  <1>7. quote \in Seq(QuotedCharacter) /\ Len(quote) = 1 /\ quote[1] = Mark
    BY MarkIs
  <1> HIDE DEF w, quote, written
  <1>8. /\ written \in Seq(QuotedCharacter) /\ Len(written) = 1 + Len(w)
        /\ \A k \in 1 .. 1 + Len(w) : written[k] = IF k <= 1 THEN quote[k] ELSE w[k - 1]
    <2>1. /\ written \in Seq(QuotedCharacter) /\ Len(written) = Len(quote) + Len(w)
          /\ \A k \in 1 .. Len(quote) + Len(w) :
                written[k] = IF k <= Len(quote) THEN quote[k] ELSE w[k - Len(quote)]
      BY <1>4, <1>6, <1>7, ConcatProperties
    <2> QED BY <1>7, <2>1
  <1>9. written[1] = Mark /\ written[Len(written)] = Mark /\ Len(written) >= 2
    <2>1. 1 \in 1 .. 1 + Len(w) /\ 1 + Len(w) \in 1 .. 1 + Len(w) /\ ~(1 + Len(w) <= 1)
          /\ (1 + Len(w)) - 1 = Len(w) /\ 1 + Len(w) >= 2
      BY <1>6
    <2> QED BY <1>6, <1>7, <1>8, <2>1
  <1>10. chars = Inner(w) /\ chars \in Seq(QuotedCharacter)
    <2> DEFINE m == Len(w)
               left == SubSeq(written, 2, m)
               right == SubSeq(w, 1, m - 1)
    <2>1. m \in Nat /\ m >= 1
      BY <1>6
    <2>2. left \in Seq(QuotedCharacter) /\ Len(left) = m - 1 /\ \A k \in 1 .. m - 1 : left[k] = written[2 + k - 1]
      <3>1. 2 \in 1 .. (1 + m) + 1 /\ m \in 2 - 1 .. 1 + m /\ m - 2 + 1 = m - 1
        BY <2>1
      <3> HIDE DEF m
      <3> QED BY <1>8, <2>1, <3>1, SubSeqProperties DEF m
    <2>3. right \in Seq(QuotedCharacter) /\ Len(right) = m - 1 /\ \A k \in 1 .. m - 1 : right[k] = w[1 + k - 1]
      <3>1. 1 \in 1 .. m + 1 /\ m - 1 \in 1 - 1 .. m /\ (m - 1) - 1 + 1 = m - 1
        BY <2>1
      <3> HIDE DEF m
      <3> QED BY <1>6, <2>1, <3>1, SubSeqProperties DEF m
    <2> HIDE DEF m, left, right
    <2>4. ASSUME NEW k \in 1 .. m - 1 PROVE left[k] = right[k]
      <3>1. 2 + k - 1 \in 1 .. 1 + m /\ ~(2 + k - 1 <= 1) /\ (2 + k - 1) - 1 = 1 + k - 1
        BY <2>1
      <3> QED BY <1>8, <2>2, <2>3, <3>1 DEF m
    <2>5. left = right
      BY <2>2, <2>3, <2>4, SeqEqual
    <2>6. Len(written) - 1 = m
      BY <1>8, <2>1 DEF m
    <2> QED BY <2>3, <2>5, <2>6 DEF left, right, m, Inner
  <1> HIDE DEF chars
  <1>11. Len(chars) \in Nat
    BY <1>10
  <1>12. IsDecoding(g, chars)
    BY <1>11, DecodingDefined
  <1>13. DecodeString(chars) = g[1]
    BY DecodeStringIs
  <1> HIDE DEF g
  <1>14. Stands(chars, 1, Inner(w)) /\ 1 + Len(Inner(w)) = Len(chars) + 1
    <2>1. \A k \in 1 .. Len(chars) : 1 + k - 1 = k
      OBVIOUS
    <2> QED BY <1>10, <1>11, <2>1 DEF Stands
  <1>15. g[1] = {SubSeq(bytes, 1, Len(bytes))}
    <2>1. \A p \in starts : \A r \in Nat :
             Stands(chars, r, Inner(f[p])) /\ r + Len(Inner(f[p])) = Len(chars) + 1
             => g[r] = {SubSeq(bytes, p, Len(bytes))}
      <3>1. chars \in Seq(QuotedCharacter)
        BY <1>10
      <3> QED BY <1>1, <1>2, <1>3, <1>12, <3>1, InnerIsRead
    <2>2. Stands(chars, 1, Inner(f[1])) /\ 1 + Len(Inner(f[1])) = Len(chars) + 1
      BY <1>14 DEF w
    <2> QED BY <1>5, <2>1, <2>2
  <1>16. SubSeq(bytes, 1, Len(bytes)) = bytes
    <2> DEFINE n == Len(bytes)
               all == SubSeq(bytes, 1, n)
    <2>1. n \in Nat /\ 1 \in 1 .. n + 1 /\ n \in 1 - 1 .. n /\ n - 1 + 1 = n /\ \A k \in 1 .. n : 1 + k - 1 = k
      BY <1>1
    <2>2. all \in Seq(Octet) /\ Len(all) = n /\ \A k \in 1 .. n : all[k] = bytes[k]
      <3> HIDE DEF n
      <3> QED BY <1>1, <2>1, SubSeqProperties DEF n
    <2> HIDE DEF all
    <2>3. all = bytes
      BY <1>1, <2>2, SeqEqual
    <2> QED BY <2>3 DEF all
  <1> QED BY <1>9, <1>13, <1>15, <1>16 DEF chars, written, Mark

-----------------------------------------------------------------------------
(* The values the reader builds *)

\* A value as far as the conversions tell values apart.
IsValue(v) ==
    \/ v.type \in {"array", "object"}
    \/ v \in NumericValue
    \/ v = NullValue
    \/ \E b \in BOOLEAN : v = BooleanValue(b)
    \/ \E s : v = StringValue(s)

IsContainer(v) == v.type \in {"array", "object"}

Contents(v) == IF v.type = "array" THEN v.items ELSE v.members

HoldsValues(v) == IsContainer(v) => \A k \in DOMAIN Contents(v) : IsValue(Contents(v)[k])

\* Numbers, strings, truth values and null hold no others.
LEMMA ScalarsHoldNone ==
    ASSUME NEW v,
           \/ v \in NumericValue
           \/ v = NullValue
           \/ \E b : v = BooleanValue(b)
           \/ \E s : v = StringValue(s)
    PROVE  ~IsContainer(v)
  BY DEF NumericValue, IntValue, UIntValue, RealValue, NullValue, BooleanValue, StringValue, IsContainer

LEMMA BeginsAsValue ==
    \A type \in {"array", "object"} : /\ IsValue(Default(type)) /\ HoldsValues(Default(type))
                                      /\ Default(type).type = type
  <1>1. Default("array") = ArrayValue(Empty) /\ Default("object") = ObjectValue(Empty)
    BY DEF Default
  <1>2. DOMAIN Empty = {}
    BY DEF Empty
  <1> HIDE DEF Empty
  <1> QED BY <1>1, <1>2 DEF IsValue, HoldsValues, IsContainer, Contents, ArrayValue, ObjectValue

\* An entry of an array or object is another value.
LEMMA WithHoldsValues ==
    ASSUME NEW v, IsContainer(v), HoldsValues(v), NEW key, NEW x, IsValue(x)
    PROVE  /\ IsValue(With(v, key, x)) /\ HoldsValues(With(v, key, x))
           /\ With(v, key, x).type = v.type
  <1> DEFINE entered == [k \in DOMAIN Contents(v) \cup {key} |-> IF k = key THEN x ELSE Contents(v)[k]]
  <1>1. DOMAIN entered = DOMAIN Contents(v) \cup {key}
    OBVIOUS
  <1>2. \A k \in DOMAIN entered : IsValue(entered[k])
    <2> SUFFICES ASSUME NEW k \in DOMAIN entered PROVE IsValue(entered[k])
      OBVIOUS
    <2>1. entered[k] = IF k = key THEN x ELSE Contents(v)[k]
      OBVIOUS
    <2>2. k # key => k \in DOMAIN Contents(v)
      OBVIOUS
    <2> HIDE DEF entered
    <2>3. CASE k = key
      BY <2>1, <2>3
    <2>4. CASE k # key
      BY <2>1, <2>2, <2>4 DEF HoldsValues
    <2> QED BY <2>3, <2>4
  <1>3. With(v, key, x) = IF v.type = "array" THEN ArrayValue(entered) ELSE ObjectValue(entered)
    BY DEF With, Contents
  <1> HIDE DEF entered
  <1>4. With(v, key, x).type = v.type /\ IsContainer(With(v, key, x))
    BY <1>3 DEF IsContainer, ArrayValue, ObjectValue
  <1>5. Contents(With(v, key, x)) = entered
    BY <1>3 DEF Contents, ArrayValue, ObjectValue
  <1>6. HoldsValues(With(v, key, x))
    BY <1>2, <1>5 DEF HoldsValues
  <1> QED BY <1>4, <1>6 DEF IsContainer, IsValue

\* currentValue()[key] before it is read: null or what an earlier member has.
LEMMA ResolvedIsValue ==
    ASSUME NEW map, \A k \in DOMAIN map : IsValue(map[k]), NEW key
    PROVE  IsValue(Resolve(map, key)[key])
  <1>1. key \in DOMAIN map \cup {key}
    OBVIOUS
  <1>2. Resolve(map, key)[key] = IF key \in DOMAIN map THEN map[key] ELSE NullValue
    BY <1>1 DEF Resolve
  <1> QED BY <1>2 DEF IsValue

(***************************************************************************)
(* Whatever passes for a value keeps what its tests promise.               *)
(***************************************************************************)
LEMMA ValuesKeepPromises == ASSUME NEW v, IsValue(v) PROVE PromisesKept(v)
  <1>1. CASE v \in NumericValue
    BY <1>1, NumbersKeepPromises
  <1>2. CASE v \notin NumericValue
    <2>1. \/ v.type \in {"array", "object"}
          \/ v.type = "null"
          \/ v.type = "boolean" /\ v.bool \in BOOLEAN
          \/ v.type = "string"
      BY <1>2 DEF IsValue, NullValue, BooleanValue, StringValue
    <2>2. v.type \in {"array", "object", "null", "boolean", "string"}
      BY <2>1
    <2>3. ~IsInt(v) /\ ~IsUInt(v) /\ ~IsInt64(v) /\ ~IsUInt64(v)
      BY <2>2 DEF IsInt, IsUInt, IsInt64, IsUInt64, IsInteger, IsWide
    <2>4. \A type \in {"int", "uint", "real", "boolean", "string"} :
             IsConvertibleTo(v, type) => \E x : Converted(v, type) = {x}
      <3>1. CASE v.type \in {"array", "object"}
        BY <2>3, <3>1 DEF IsConvertibleTo, IsNumeric
      <3>2. CASE v.type = "string"
        BY <2>3, <3>2 DEF IsConvertibleTo, IsNumeric, Converted, AsString
      <3>3. CASE v.type \in {"null", "boolean"}
        <4>1. \E x : AsInt(v) = {x}
          BY <3>3 DEF AsInt, AsInteger
        <4>2. \E x : AsUInt(v) = {x}
          BY <3>3 DEF AsUInt, AsInteger
        <4>3. \E x : AsDouble(v) = {x}
          BY <3>3 DEF AsDouble
        <4>4. \E x : AsBool(v) = {x}
          <5>1. v.type = "boolean" => AsBool(v) = {v.bool}
            BY DEF AsBool, IsNumeric
          <5>2. v.type = "null" => AsBool(v) = {FALSE}
            BY DEF AsBool, IsNumeric
          <5> QED BY <3>3, <5>1, <5>2
        <4>5. \E x : AsString(v) = {x}
          BY <3>3 DEF AsString
        <4> QED BY <4>1, <4>2, <4>3, <4>4, <4>5 DEF Converted
      <3> QED BY <2>2, <3>1, <3>2, <3>3
    <2>5. \A x : Cardinality({x}) = 1
      BY FS_Singleton
    <2> QED BY <2>3, <2>4, <2>5 DEF PromisesKept
  <1> QED BY <1>1, <1>2

-----------------------------------------------------------------------------
(* What a token is decoded into *)

\* A number has a character at least.
LEMMA NumberToken ==
    ASSUME NEW t, IsSeq(t), NEW p \in Place(t), ReadToken(t, p).type = "number"
    PROVE  LET token == ReadToken(t, p)
           IN  token.start \in 1 .. Len(t) /\ token.end \in token.start + 1 .. Len(t) + 1
  <1> DEFINE n == Len(t)
             start == Behind(t, p, Space)
             c == CharAt(t, start)
  <1>1. n \in Nat /\ p \in 1 .. n + 1
    BY DEF IsSeq, Place
  <1>2. start \in p .. n + 1
    BY BehindIs
  <1>3. ReadToken(t, p) = Token("number", start, NumberEnd(t, start + 1)) /\ c # NUL
    <2> DEFINE token == ReadToken(t, p)
               number == Token("number", start, NumberEnd(t, start + 1))
    <2>1. token.type = "number"
      OBVIOUS
    <2>2. CASE c = NUL
      <3>1. c \notin Punctuation \cup Digit \cup {"\"", "/", "-", "+", "t", "f", "n"}
        BY <2>2 DEF NUL, Punctuation, Digit
      <3>2. token = Token("end", start, Min({start + 1, n + 1}))
        <4> HIDE DEF start, c, n
        <4> QED BY <2>2, <3>1 DEF ReadToken, start, c, n
      <3> QED BY <2>1, <3>2 DEF Token
    <2>3. CASE c = "number"
      <3>1. c \notin Punctuation \cup Digit \cup {"\"", "/", "-", "+", "t", "f", "n", NUL}
        BY <2>3 DEF NUL, Punctuation, Digit
      <3>2. token = Token("error", start, start + 1)
        <4> HIDE DEF start, c, n
        <4> QED BY <2>3, <3>1 DEF ReadToken, start, c, n
      <3> QED BY <2>1, <3>2 DEF Token
    <2>4. CASE c # NUL /\ c # "number"
      <3>1. token \in {Token(c, start, start + 1), Token("error", start, start + 1),
                       ReadString(t, start), ReadComment(t, start), ReadSigned(t, start), number,
                       ReadWord(t, start, "true", <<"r", "u", "e">>),
                       ReadWord(t, start, "false", <<"a", "l", "s", "e">>),
                       ReadWord(t, start, "null", <<"u", "l", "l">>)}
        BY <2>4 DEF ReadToken, start
      <3>2. /\ ReadString(t, start).type # "number" /\ ReadComment(t, start).type # "number"
            /\ ReadWord(t, start, "true", <<"r", "u", "e">>).type # "number"
            /\ ReadWord(t, start, "false", <<"a", "l", "s", "e">>).type # "number"
            /\ ReadWord(t, start, "null", <<"u", "l", "l">>).type # "number"
        <4> HIDE DEF start
        <4> QED BY DEF ReadString, ReadComment, ReadWord, Token
      <3>3. ReadSigned(t, start) = number \/ ReadSigned(t, start).type = "error"
        <4> HIDE DEF start
        <4> QED BY DEF ReadSigned, Token, number
      <3>4. Token(c, start, start + 1).type = c /\ Token("error", start, start + 1).type = "error"
        <4> HIDE DEF start, c
        <4> QED BY DEF Token
      <3> HIDE DEF token, start, c, number
      <3>5. token = number
        BY <2>1, <2>4, <3>1, <3>2, <3>3, <3>4
      <3> QED BY <2>4, <3>5 DEF token, number
    <2> QED BY <2>2, <2>3, <2>4
  <1>4. start \in 1 .. n
    <2> HIDE DEF start, c
    <2>1. start \in Nat
      <3> HIDE DEF n
      <3> QED BY <1>1, <1>2
    <2>2. start <= n
      BY <1>3, <2>1, CharIs DEF c
    <2> HIDE DEF n
    <2> QED BY <1>1, <1>2, <2>2
  <1>5. NumberEnd(t, start + 1) \in start + 1 .. n + 1
    <2>1. start + 1 \in Place(t)
      BY <1>1, <1>4 DEF Place
    <2> QED BY <2>1, NumberEnds
  <1> HIDE DEF start, c, n
  <1> QED BY <1>3, <1>4, <1>5 DEF Token, n

\* What is left when the comments are skipped is a token of the text.
LEMMA SkippedToToken ==
    ASSUME NEW t, IsSeq(t), NEW p \in Place(t)
    PROVE  \E q \in Place(t) : SkipComments(t, p) = ReadToken(t, q)
  <1> DEFINE n == Len(t) + 1
             T == {q \in 1 .. n : \E r \in 1 .. n : SkipComments(t, q) = ReadToken(t, r)}
  <1>1. n \in Nat
    BY DEF IsSeq
  <1>2. ASSUME NEW q \in 1 .. n, \A r \in q + 1 .. n : r \in T
        PROVE  q \in T
    <2> DEFINE token == ReadToken(t, q)
    <2>1. token.end \in q .. n /\ (token.type # "end" => token.end > q)
      BY TokenEnds DEF Place
    <2>2. SkipComments(t, q) =
             IF token.type = "comment" THEN SkipComments(t, token.end) ELSE token
      BY SkipCommentsStep DEF Place
    <2>3. token.type = "comment" => token.end \in q + 1 .. n
      <3> HIDE DEF token, n
      <3> QED BY <1>1, <2>1
    <2>4. token.type = "comment" => \E r \in 1 .. n : SkipComments(t, token.end) = ReadToken(t, r)
      <3> HIDE DEF token, n
      <3> QED BY <1>2, <2>3
    <2>5. \E r \in 1 .. n : SkipComments(t, q) = ReadToken(t, r)
      <3> HIDE DEF n
      <3> QED BY <2>2, <2>4
    <2> HIDE DEF n, token
    <2> QED BY <2>5
  <1>3. \A q \in 1 .. n : q \in T
    <2> HIDE DEF T, n
    <2> QED BY <1>1, <1>2, Backwards
  <1> QED BY <1>3 DEF Place

\* A number is decoded into an integer or a double.
LEMMA NumbersAreNumeric ==
    ASSUME NEW S, NEW chars \in Seq(S), chars # <<>>
    PROVE  DecodeNumber(chars) \subseteq NumericValue
  <1> DEFINE digits == IF chars[1] = "-" THEN Tail(chars) ELSE chars
             n == IF chars[1] = "-" THEN -Decimal(digits) ELSE Decimal(digits)
  <1>1. DecodeNumber(chars) = NumberMeant(chars)
    BY NumbersReadAsMeant
  <1>2. IsSeq(chars)
    BY AnySeq
  <1>3. DecodeDouble(chars) \subseteq NumericValue
    BY <1>2, StreamDoubleIs DEF DecodeDouble, NumericValue
  <1>4. CASE ToSet(digits) \subseteq Digit
    <2>1. digits \in Seq(S)
      OBVIOUS
    <2> HIDE DEF digits
    <2>2. digits \in Seq(Digit)
      BY <1>4, <2>1 DEF ToSet
    <2>3. n \in Int
      BY <2>2, DecimalIs
    <2>4. Rounded(2 * n) \in Int
      <3>1. 2 * n \in Int
        BY <2>3
      <3> QED BY <3>1, RoundedIs
    <2> HIDE DEF n
    <2>5. maxLargestInt \in Nat /\ minLargestInt \in Int /\ maxLargestUInt \in Nat
      BY Bounds
    <2>6. NumberMeant(chars) = {CASE n \in minLargestInt .. maxLargestInt -> IntValue(n)
                [] n \in maxLargestInt + 1 .. maxLargestUInt -> UIntValue(n)
                [] n \notin minLargestInt .. maxLargestUInt -> RealValue(Rounded(2 * n))}
      BY <1>4 DEF NumberMeant, digits, n
    <2>7. \/ n \in minLargestInt .. maxLargestInt
          \/ n \in maxLargestInt + 1 .. maxLargestUInt /\ n \notin minLargestInt .. maxLargestInt /\ n \in Nat
          \/ n \notin minLargestInt .. maxLargestUInt /\ n \notin minLargestInt .. maxLargestInt
                /\ n \notin maxLargestInt + 1 .. maxLargestUInt
      <3> HIDE DEF minLargestInt
      <3>1. minLargestInt <= 0
        BY Bounds
      <3> QED BY <2>3, <2>5, <3>1
    <2>8. CASE n \in minLargestInt .. maxLargestInt
      <3>1. n \notin maxLargestInt + 1 .. maxLargestUInt
        BY <2>3, <2>5, <2>8
      <3>2. n \in minLargestInt .. maxLargestUInt
        BY <2>3, <2>5, <2>8, WidthAssumption
      <3> QED BY <1>1, <2>3, <2>6, <2>8, <3>1, <3>2 DEF NumericValue
    <2>9. CASE n \notin minLargestInt .. maxLargestInt
      BY <1>1, <2>3, <2>4, <2>6, <2>7, <2>9 DEF NumericValue
    <2> QED BY <2>8, <2>9
  <1>5. CASE ~(ToSet(digits) \subseteq Digit)
    BY <1>1, <1>3, <1>5 DEF NumberMeant
  <1> QED BY <1>4, <1>5

\* So is what readValue takes a token for.
LEMMA ScalarsAreValues ==
    ASSUME NEW t, IsSeq(t), NEW p \in Place(t), NEW v \in Scalar(t, SkipComments(t, p))
    PROVE  IsValue(v) /\ HoldsValues(v)
  <1>1. PICK q \in Place(t) : SkipComments(t, p) = ReadToken(t, q)
    BY SkippedToToken
  <1> DEFINE token == ReadToken(t, q)
  <1>2. \/ v \in NumericValue \/ v = NullValue \/ (\E b \in BOOLEAN : v = BooleanValue(b))
        \/ \E s : v = StringValue(s)
    <2>1. CASE token.type = "number"
      <3> DEFINE chars == SubSeq(t, token.start, token.end - 1)
      <3>1. token.start \in 1 .. Len(t) /\ token.end \in token.start + 1 .. Len(t) + 1
        BY <2>1, NumberToken
      <3>2. v \in DecodeNumber(chars)
        BY <1>1, <2>1 DEF Scalar
      <3> HIDE DEF token
      <3>3. chars \in Seq(Range(t)) /\ Len(chars) = (token.end - 1) - token.start + 1
        <4>1. t \in Seq(Range(t))
          BY DEF IsSeq
        <4>2. token.end - 1 \in token.start .. Len(t)
          <5>1. Len(t) \in Nat
            BY <4>1
          <5> DEFINE m == Len(t)
          <5> HIDE DEF m
          <5>2. m \in Nat /\ token.start \in 1 .. m /\ token.end \in token.start + 1 .. m + 1
            BY <3>1, <5>1 DEF m
          <5>3. token.end - 1 \in token.start .. m
            BY <5>2
          <5> QED BY <5>3 DEF m
        <4> QED BY <3>1, <4>1, <4>2
      <3>4. chars # <<>>
        <4>1. Len(chars) >= 1
          <5> DEFINE m == Len(t)
          <5>1. m \in Nat
            BY DEF IsSeq
          <5> HIDE DEF m, chars
          <5>2. token.start \in 1 .. m /\ token.end \in token.start + 1 .. m + 1
            BY <3>1 DEF m
          <5> QED BY <3>3, <5>1, <5>2
        <4>2. Len(<<>>) = 0
          OBVIOUS
        <4> HIDE DEF chars
        <4> QED BY <4>1, <4>2
      <3> HIDE DEF chars
      <3> QED BY <3>2, <3>3, <3>4, NumbersAreNumeric
    <2>2. CASE token.type # "number"
      BY <1>1, <2>2 DEF Scalar
    <2> QED BY <2>1, <2>2
  <1>3. HoldsValues(v)
    BY <1>2, ScalarsHoldNone DEF HoldsValues
  <1> QED BY <1>2, <1>3 DEF IsValue

-----------------------------------------------------------------------------
(* What is on the stack *)

IsNode(e) == e = Node(e.key, e.value)

LEMMA StoredNodes ==
    ASSUME IsSeq(nodes), Len(nodes) >= 1, \A k \in 1 .. Len(nodes) : IsNode(nodes[k]), NEW v
    PROVE  \A k \in 1 .. Len(nodes) :
              Stored(v)[k] = IF k = Len(nodes) THEN Node(nodes[k].key, v) ELSE nodes[k]
  <1> DEFINE n == Len(nodes)
  <1> SUFFICES ASSUME NEW k \in 1 .. n
               PROVE  Stored(v)[k] = IF k = n THEN Node(nodes[k].key, v) ELSE nodes[k]
    OBVIOUS
  <1>1. DOMAIN nodes = 1 .. n
    BY DEF IsSeq
  <1>2. nodes[k] = Node(nodes[k].key, nodes[k].value)
    BY DEF IsNode
  <1>3. Stored(v)[k] = IF k = n THEN [nodes[k] EXCEPT !.value = v] ELSE nodes[k]
    <2> HIDE DEF n
    <2> QED BY <1>1 DEF Stored, n
  <1> DEFINE key == nodes[k].key
             value == nodes[k].value
  <1>4. [Node(key, value) EXCEPT !.value = v] = Node(key, v)
    <2> HIDE DEF key, value
    <2> QED BY DEF Node
  <1> QED BY <1>2, <1>3, <1>4

LEMMA PoppedNodes ==
    ASSUME NEW stack, IsSeq(stack), Len(stack) >= 2, \A k \in 1 .. Len(stack) : IsNode(stack[k])
    PROVE  \A k \in 1 .. Len(stack) - 1 :
              Popped(stack)[k] = IF k < Len(stack) - 1 THEN stack[k]
                                 ELSE Node(stack[k].key, With(stack[k].value, stack[Len(stack)].key,
                                                              stack[Len(stack)].value))
  <1> DEFINE n == Len(stack)
             key == stack[n].key
             value == stack[n].value
  <1> SUFFICES ASSUME NEW k \in 1 .. n - 1
               PROVE  Popped(stack)[k] = IF k < n - 1 THEN stack[k]
                                         ELSE Node(stack[k].key, With(stack[k].value, key, value))
    OBVIOUS
  <1>1. n \in Nat
    BY DEF IsSeq
  <1>2. Last(stack) = stack[n]
    BY DEF Last
  <1>3. Popped(stack)[k] = IF k < n - 1 THEN stack[k]
                           ELSE [stack[k] EXCEPT !.value = With(@, key, value)]
    BY <1>2 DEF Popped
  <1>4. stack[k] = Node(stack[k].key, stack[k].value)
    BY <1>1 DEF IsNode
  <1> DEFINE oldKey == stack[k].key
             old == stack[k].value
  <1>5. [Node(oldKey, old) EXCEPT !.value = With(@, key, value)] = Node(oldKey, With(old, key, value))
    <2> HIDE DEF oldKey, old, key, value
    <2> QED BY DEF Node
  <1> HIDE DEF n, key, value
  <1> QED BY <1>3, <1>4, <1>5

(***************************************************************************)
(* What is on the stack are values; those below the top are containers and *)
(* hold values, and so does the top from where readValue has read its      *)
(* first token.  The reader is successful until, and no more after, a      *)
(* value or a container has failed.                                        *)
(***************************************************************************)
ValueInv ==
    /\ \A k \in 1 .. Len(nodes) : IsNode(nodes[k]) /\ IsValue(nodes[k].value)
    /\ \A k \in 1 .. Len(nodes) - 1 : IsContainer(nodes[k].value)
    /\ \A k \in 1 .. Len(nodes) :
           k < Len(nodes) \/ (expects \notin {"value", "thrown"} /\ successful) => HoldsValues(nodes[k].value)
    /\ expects = "name" => currentValue.type = "object"
    /\ expects = "element" => currentValue.type = "array"
    /\ expects \in {"value", "name", "element", "separator"} => successful
    /\ expects = "failure" => ~successful

\* The top of the stack, and that of any stack a value is put on.
LEMMA CurrentIs ==
    ASSUME ReaderInv, ValueInv
    PROVE  /\ Len(nodes) \in Nat \ {0} /\ currentValue = nodes[Len(nodes)].value /\ IsValue(currentValue)
           /\ expects \notin {"value", "thrown"} /\ successful => HoldsValues(currentValue)
  <1>1. Len(nodes) \in Nat \ {0}
    BY StackAssumption DEF ReaderInv
  <1>2. currentValue = nodes[Len(nodes)].value
    BY DEF currentValue, Last
  <1>3. Len(nodes) \in 1 .. Len(nodes)
    BY <1>1
  <1> QED BY <1>1, <1>2, <1>3 DEF ValueInv

\* nodes_.pop() of a value that is one puts it into the one below.
LEMMA PoppedHoldsValues ==
    ASSUME NEW stack, IsSeq(stack), Len(stack) >= 2,
           \A k \in 1 .. Len(stack) : IsNode(stack[k]) /\ IsValue(stack[k].value),
           \A k \in 1 .. Len(stack) - 1 : IsContainer(stack[k].value) /\ HoldsValues(stack[k].value)
    PROVE  \A k \in 1 .. Len(Popped(stack)) :
              /\ IsNode(Popped(stack)[k]) /\ IsValue(Popped(stack)[k].value)
              /\ IsContainer(Popped(stack)[k].value) /\ HoldsValues(Popped(stack)[k].value)
  <1> DEFINE n == Len(stack)
             child == stack[n]
  <1>1. n \in Nat /\ Len(Popped(stack)) = n - 1
    BY PoppedStack DEF IsSeq
  <1> SUFFICES ASSUME NEW k \in 1 .. n - 1
               PROVE  /\ IsNode(Popped(stack)[k]) /\ IsValue(Popped(stack)[k].value)
                      /\ IsContainer(Popped(stack)[k].value) /\ HoldsValues(Popped(stack)[k].value)
    BY <1>1
  <1>2. Popped(stack)[k] = IF k < n - 1 THEN stack[k]
                           ELSE Node(stack[k].key, With(stack[k].value, child.key, child.value))
    BY PoppedNodes
  <1>3. k \in 1 .. n /\ n \in 1 .. n
    BY <1>1
  <1>4. /\ IsNode(stack[k]) /\ IsValue(stack[k].value) /\ IsValue(child.value)
        /\ IsContainer(stack[k].value) /\ HoldsValues(stack[k].value)
    BY <1>3
  <1>5. CASE k < n - 1
    BY <1>2, <1>4, <1>5
  <1>6. CASE ~(k < n - 1)
    <2> DEFINE v == With(stack[k].value, child.key, child.value)
    <2>1. IsValue(v) /\ HoldsValues(v) /\ v.type = stack[k].value.type
      BY <1>4, WithHoldsValues
    <2>2. IsContainer(v)
      BY <1>4, <2>1 DEF IsContainer
    <2> HIDE DEF v
    <2>3. Popped(stack)[k] = Node(stack[k].key, v)
      BY <1>2, <1>6 DEF v
    <2>4. Popped(stack)[k].value = v /\ IsNode(Popped(stack)[k])
      BY <2>3 DEF Node, IsNode
    <2> QED BY <2>1, <2>2, <2>4
  <1> QED BY <1>5, <1>6

\* A stack with a value stored at its top.
LEMMA StoredHoldsValues ==
    ASSUME ReaderInv, ValueInv, NEW v, IsValue(v)
    PROVE  /\ IsSeq(Stored(v)) /\ Len(Stored(v)) = Len(nodes) /\ Len(nodes) \in Nat \ {0}
           /\ Stored(v)[Len(nodes)].value = v
           /\ \A k \in 1 .. Len(nodes) : IsNode(Stored(v)[k]) /\ IsValue(Stored(v)[k].value)
           /\ \A k \in 1 .. Len(nodes) - 1 :
                  IsContainer(Stored(v)[k].value) /\ HoldsValues(Stored(v)[k].value)
  <1> DEFINE n == Len(nodes)
  <1>1. n \in Nat \ {0} /\ n >= 1 /\ IsSeq(nodes)
    BY StackAssumption DEF ReaderInv
  <1>2. IsSeq(Stored(v)) /\ Len(Stored(v)) = n
    BY <1>1, StoredStack
  <1>3. \A k \in 1 .. n : Stored(v)[k] = IF k = n THEN Node(nodes[k].key, v) ELSE nodes[k]
    BY <1>1, StoredNodes DEF ValueInv
  <1>4. \A k \in 1 .. n : IsNode(nodes[k]) /\ IsValue(nodes[k].value)
    BY DEF ValueInv
  <1>5. \A k \in 1 .. n - 1 : IsContainer(nodes[k].value) /\ HoldsValues(nodes[k].value)
    <2>1. \A k \in 1 .. n - 1 : k \in 1 .. n /\ k < n
      BY <1>1
    <2> QED BY <2>1 DEF ValueInv
  <1> HIDE DEF n
  <1>6. \A key : Node(key, v).value = v /\ IsNode(Node(key, v))
    BY DEF Node, IsNode
  <1>7. n \in 1 .. n /\ \A k \in 1 .. n - 1 : k \in 1 .. n /\ k # n
    BY <1>1
  <1>8. Stored(v)[n].value = v /\ IsNode(Stored(v)[n])
    BY <1>3, <1>6, <1>7
  <1>9. \A k \in 1 .. n : IsNode(Stored(v)[k]) /\ IsValue(Stored(v)[k].value)
    <2> SUFFICES ASSUME NEW k \in 1 .. n PROVE IsNode(Stored(v)[k]) /\ IsValue(Stored(v)[k].value)
      OBVIOUS
    <2>1. CASE k = n
      BY <1>8, <2>1
    <2>2. CASE k # n
      BY <1>3, <1>4, <2>2
    <2> QED BY <2>1, <2>2
  <1>10. \A k \in 1 .. n - 1 : IsContainer(Stored(v)[k].value) /\ HoldsValues(Stored(v)[k].value)
    BY <1>3, <1>5, <1>7
  <1> QED BY <1>1, <1>2, <1>8, <1>9, <1>10 DEF n

-----------------------------------------------------------------------------
(* The steps of the reader leave values on the stack *)

LEMMA ReturnLeavesValues ==
    ASSUME ReaderInv, ValueInv, successful,
           NEW v, IsValue(v), HoldsValues(v), NEW p, Return(v, p)
    PROVE  ValueInv'
  <1> DEFINE n == Len(nodes)
  <1>1. /\ IsSeq(Stored(v)) /\ Len(Stored(v)) = n /\ n \in Nat \ {0}
        /\ Stored(v)[n].value = v
        /\ \A k \in 1 .. n : IsNode(Stored(v)[k]) /\ IsValue(Stored(v)[k].value)
        /\ \A k \in 1 .. n - 1 : IsContainer(Stored(v)[k].value) /\ HoldsValues(Stored(v)[k].value)
    BY StoredHoldsValues
  <1>2. successful' = successful
    BY DEF Return
  <1>3. CASE n = 1
    <2>1. nodes' = Stored(v) /\ expects' = "end"
      BY <1>3 DEF Return
    <2>2. Len(nodes') = 1
      BY <1>1, <1>3, <2>1
    <2>3. \A k \in 1 .. 1 : k = 1
      OBVIOUS
    <2>4. \A k \in 1 .. 1 - 1 : FALSE
      OBVIOUS
    <2>5. /\ \A k \in 1 .. 1 : IsNode(nodes'[k]) /\ IsValue(nodes'[k].value)
          /\ \A k \in 1 .. 1 : HoldsValues(nodes'[k].value)
      BY <1>1, <1>3, <2>1, <2>3
    <2> QED BY <2>1, <2>2, <2>4, <2>5 DEF ValueInv
  <1>4. CASE n # 1
    <2>1. nodes' = Popped(Stored(v)) /\ expects' = "separator"
      BY <1>4 DEF Return
    <2>2. n >= 2
      BY <1>1, <1>4
    <2> DEFINE stack == Stored(v)
    <2>3. /\ IsSeq(stack) /\ Len(stack) = n
          /\ \A k \in 1 .. Len(stack) : IsNode(stack[k]) /\ IsValue(stack[k].value)
          /\ \A k \in 1 .. Len(stack) - 1 : IsContainer(stack[k].value) /\ HoldsValues(stack[k].value)
      BY <1>1
    <2> HIDE DEF stack, n
    <2>4. \A k \in 1 .. Len(Popped(stack)) :
              /\ IsNode(Popped(stack)[k]) /\ IsValue(Popped(stack)[k].value)
              /\ IsContainer(Popped(stack)[k].value) /\ HoldsValues(Popped(stack)[k].value)
      BY <2>2, <2>3, PoppedHoldsValues
    <2>5. nodes' = Popped(stack) /\ Len(nodes') = n - 1
      BY <2>1, <2>2, <2>3, PoppedStack DEF stack
    <2>6. \A k \in 1 .. Len(nodes') - 1 : k \in 1 .. Len(nodes')
      BY <1>1, <2>2, <2>5
    <2>7. \A k \in 1 .. Len(nodes') :
              /\ IsNode(nodes'[k]) /\ IsValue(nodes'[k].value)
              /\ IsContainer(nodes'[k].value) /\ HoldsValues(nodes'[k].value)
      BY <2>4, <2>5
    <2> QED BY <1>2, <2>1, <2>6, <2>7 DEF ValueInv
  <1> QED BY <1>3, <1>4

LEMMA FailLeavesValues == ASSUME ValueInv, NEW p, Fail(p) PROVE ValueInv'
  BY DEF Fail, ValueInv

LEMMA ContinueLeavesValues ==
    ASSUME ValueInv, successful, expects = "separator", NEW next, NEW p, Continue(next, p),
           \/ next = "name" /\ currentValue.type = "object"
           \/ next = "element" /\ currentValue.type = "array"
    PROVE  ValueInv'
  BY DEF Continue, ValueInv, currentValue

LEMMA DescendLeavesValues ==
    ASSUME ReaderInv, ValueInv, expects \in {"name", "element"}, NEW key, NEW p, Descend(key, p)
    PROVE  ValueInv'
  <1> DEFINE n == Len(nodes)
             map == IF currentValue.type = "array" THEN currentValue.items ELSE currentValue.members
             x == Resolve(map, key)[key]
             e == Node(key, x)
  <1>1. successful /\ successful' = successful /\ expects' = "value" /\ nodes' = Append(nodes, e)
    BY DEF ValueInv, Descend, Pushed
  <1>2. /\ n \in Nat \ {0} /\ currentValue = nodes[n].value
        /\ HoldsValues(currentValue) /\ IsContainer(currentValue)
    BY <1>1, CurrentIs DEF ValueInv, IsContainer
  <1>3. IsValue(x)
    <2>1. \A k \in DOMAIN map : IsValue(map[k])
      BY <1>2 DEF HoldsValues, Contents
    <2> HIDE DEF map
    <2> QED BY <2>1, ResolvedIsValue
  <1> HIDE DEF x
  <1>4. IsNode(e) /\ IsValue(e.value)
    BY <1>3 DEF Node, IsNode
  <1> HIDE DEF e
  <1>5. Len(nodes') = n + 1 /\ nodes'[n + 1] = e /\ \A k \in 1 .. n : nodes'[k] = nodes[k]
    <2> DEFINE S == Range(nodes) \cup {e}
    <2>1. nodes \in Seq(S) /\ e \in S
      BY DEF ReaderInv, IsSeq
    <2> HIDE DEF S
    <2> QED BY <1>1, <2>1
  <1>6. /\ \A k \in 1 .. n : IsNode(nodes[k]) /\ IsValue(nodes[k].value)
        /\ \A k \in 1 .. n : IsContainer(nodes[k].value) /\ HoldsValues(nodes[k].value)
    <2>1. \A k \in 1 .. n : (k \in 1 .. n - 1 /\ k < n) \/ k = n
      BY <1>2
    <2> QED BY <1>2, <2>1 DEF ValueInv
  <1> HIDE DEF n
  <1>7. \A k \in 1 .. n + 1 : IsNode(nodes'[k]) /\ IsValue(nodes'[k].value)
    <2>1. \A k \in 1 .. n + 1 : k \in 1 .. n \/ k = n + 1
      BY <1>2
    <2> QED BY <1>4, <1>5, <1>6, <2>1
  <1>8. \A k \in 1 .. n : IsContainer(nodes'[k].value) /\ HoldsValues(nodes'[k].value)
    BY <1>5, <1>6
  <1>9. /\ \A k \in 1 .. Len(nodes') - 1 : k \in 1 .. n
        /\ \A k \in 1 .. Len(nodes') : k < Len(nodes') => k \in 1 .. n
    BY <1>2, <1>5
  <1>10. /\ \A k \in 1 .. Len(nodes') : IsNode(nodes'[k]) /\ IsValue(nodes'[k].value)
         /\ \A k \in 1 .. Len(nodes') - 1 : IsContainer(nodes'[k].value)
         /\ \A k \in 1 .. Len(nodes') : k < Len(nodes') => HoldsValues(nodes'[k].value)
    BY <1>5, <1>7, <1>8, <1>9
  <1> QED BY <1>1, <1>10 DEF ValueInv

LEMMA BeginLeavesValues == ASSUME ReaderInv, ValueInv, Begin PROVE ValueInv'
  <1> DEFINE n == Len(nodes)
             token == SkipComments(text, at)
             type == IF token.type = "{" THEN "object" ELSE "array"
             v == Default(type)
  <1>1. /\ nodes' = Stored(v) /\ expects' = IF token.type = "{" THEN "name" ELSE "element"
        /\ successful' = successful
    BY DEF Begin
  <1>2. successful
    BY DEF Begin, ReadsValue, ValueInv
  <1>3. IsValue(v) /\ HoldsValues(v) /\ v.type = type /\ type \in {"array", "object"}
    <2>1. type \in {"array", "object"}
      OBVIOUS
    <2> HIDE DEF type
    <2> QED BY <2>1, BeginsAsValue
  <1>4. expects' = (IF type = "object" THEN "name" ELSE "element")
    BY <1>1
  <1> HIDE DEF v, type, token
  <1>5. /\ Len(nodes') = n /\ n \in Nat \ {0}
        /\ nodes'[n].value = v
        /\ \A k \in 1 .. n : IsNode(nodes'[k]) /\ IsValue(nodes'[k].value)
        /\ \A k \in 1 .. n - 1 : IsContainer(nodes'[k].value) /\ HoldsValues(nodes'[k].value)
    BY <1>1, <1>3, StoredHoldsValues
  <1>6. Last(nodes').value = v
    BY <1>5 DEF Last
  <1> HIDE DEF n
  <1>7. \A k \in 1 .. n : HoldsValues(nodes'[k].value)
    <2>1. \A k \in 1 .. n : k \in 1 .. n - 1 \/ k = n
      BY <1>5
    <2> QED BY <1>3, <1>5, <2>1
  <1> QED BY <1>1, <1>2, <1>3, <1>4, <1>5, <1>6, <1>7 DEF ValueInv, currentValue

LEMMA ReadScalarLeavesValues == ASSUME ReaderInv, ValueInv, ReadScalar PROVE ValueInv'
  <1>1. PICK v \in Scalar(text, SkipComments(text, at)) : Return(v, SkipComments(text, at).end)
    BY DEF ReadScalar
  <1>2. IsValue(v) /\ HoldsValues(v)
    BY ScalarsAreValues DEF ReaderInv
  <1>3. successful
    BY DEF ReadScalar, ReadsValue, ValueInv
  <1> QED BY <1>1, <1>2, <1>3, ReturnLeavesValues

LEMMA ReadNoValueLeavesValues == ASSUME ValueInv, ReadNoValue PROVE ValueInv'
  BY DEF ReadNoValue, ReadsValue, ValueInv

LEMMA UnwindLeavesValues == ASSUME ReaderInv, ValueInv, Unwind PROVE ValueInv'
  <1> DEFINE n == Len(nodes)
  <1>1. n \in Nat \ {0} /\ IsSeq(nodes) /\ expects = "failure" /\ ~successful /\ ~successful'
    BY StackAssumption DEF ReaderInv, ValueInv, Unwind
  <1>2. CASE n = 1
    <2>1. nodes' = nodes /\ expects' = "end"
      BY <1>2 DEF Unwind
    <2> QED BY <1>1, <2>1 DEF ValueInv
  <1>3. CASE n # 1
    <2>1. nodes' = Popped(nodes) /\ expects' = "failure"
      BY <1>1, <1>3 DEF Unwind
    <2>2. n >= 2
      BY <1>1, <1>3
    <2>3. /\ \A k \in 1 .. n : IsNode(nodes[k]) /\ IsValue(nodes[k].value)
          /\ \A k \in 1 .. n - 1 : IsContainer(nodes[k].value) /\ HoldsValues(nodes[k].value)
      <3>1. \A k \in 1 .. n - 1 : k \in 1 .. n /\ k < n
        BY <1>1
      <3> QED BY <3>1 DEF ValueInv
    <2>4. \A k \in 1 .. Len(Popped(nodes)) :
              /\ IsNode(Popped(nodes)[k]) /\ IsValue(Popped(nodes)[k].value)
              /\ IsContainer(Popped(nodes)[k].value) /\ HoldsValues(Popped(nodes)[k].value)
      BY <1>1, <2>2, <2>3, PoppedHoldsValues
    <2>5. Len(nodes') = n - 1
      BY <1>1, <2>1, <2>2, PoppedStack
    <2> HIDE DEF n
    <2>6. \A k \in 1 .. Len(nodes') - 1 : k \in 1 .. Len(nodes')
      BY <1>1, <2>2, <2>5
    <2>7. \A k \in 1 .. Len(nodes') :
              /\ IsNode(nodes'[k]) /\ IsValue(nodes'[k].value)
              /\ IsContainer(nodes'[k].value) /\ HoldsValues(nodes'[k].value)
      BY <2>1, <2>4
    <2> QED BY <1>1, <2>1, <2>6, <2>7 DEF ValueInv
  <1> QED BY <1>2, <1>3

LEMMA ReadNameLeavesValues == ASSUME ReaderInv, ValueInv, ReadName PROVE ValueInv'
  <1> DEFINE name == SkipComments(text, at)
             colon == ReadToken(text, name.end)
  <1>1. expects = "name" /\ successful
    BY DEF ReadName, ValueInv
  <1>2. IsValue(currentValue) /\ HoldsValues(currentValue)
    BY <1>1, CurrentIs
  <1>3. \/ Return(currentValue, name.end) \/ Fail(name.end) \/ Fail(colon.end)
        \/ \E key : Descend(key, colon.end)
    BY DEF ReadName
  <1> HIDE DEF name, colon
  <1> QED BY <1>1, <1>2, <1>3, ReturnLeavesValues, FailLeavesValues, DescendLeavesValues

LEMMA EndMemberLeavesValues == ASSUME ReaderInv, ValueInv, EndMember PROVE ValueInv'
  <1> DEFINE comma == ReadToken(text, at)
             next == SkipComments(text, at)
  <1>1. expects = "separator" /\ successful /\ currentValue.type = "object"
    BY DEF EndMember, ValueInv
  <1>2. IsValue(currentValue) /\ HoldsValues(currentValue)
    BY <1>1, CurrentIs
  <1>3. Return(currentValue, next.end) \/ Continue("name", next.end) \/ Fail(comma.end)
    BY DEF EndMember
  <1> HIDE DEF comma, next
  <1> QED BY <1>1, <1>2, <1>3, ReturnLeavesValues, FailLeavesValues, ContinueLeavesValues

LEMMA ReadElementLeavesValues == ASSUME ReaderInv, ValueInv, ReadElement PROVE ValueInv'
  <1> DEFINE p == Behind(text, at, Space)
  <1>1. expects = "element" /\ successful
    BY DEF ReadElement, ValueInv
  <1>2. IsValue(currentValue) /\ HoldsValues(currentValue)
    BY <1>1, CurrentIs
  <1>3. Return(currentValue, p + 1) \/ Descend(Size(currentValue), p)
    BY DEF ReadElement
  <1> HIDE DEF p
  <1> QED BY <1>1, <1>2, <1>3, ReturnLeavesValues, DescendLeavesValues

LEMMA EndElementLeavesValues == ASSUME ReaderInv, ValueInv, EndElement PROVE ValueInv'
  <1> DEFINE token == SkipComments(text, at)
  <1>1. expects = "separator" /\ successful /\ currentValue.type = "array"
    BY DEF EndElement, ValueInv
  <1>2. IsValue(currentValue) /\ HoldsValues(currentValue)
    BY <1>1, CurrentIs
  <1>3. Return(currentValue, token.end) \/ Continue("element", token.end) \/ Fail(token.end)
    BY DEF EndElement
  <1> HIDE DEF token
  <1> QED BY <1>1, <1>2, <1>3, ReturnLeavesValues, FailLeavesValues, ContinueLeavesValues

LEMMA ValueStep == ASSUME ReaderInv, ValueInv, ReaderNext PROVE ValueInv'
  <1>1. CASE TooDeep
    BY <1>1 DEF TooDeep, ValueInv
  <1>2. CASE Finish
    BY <1>2 DEF Finish, ValueInv
  <1>3. CASE Unwind
    BY <1>3, UnwindLeavesValues
  <1> QED BY <1>1, <1>2, <1>3, BeginLeavesValues, ReadScalarLeavesValues, ReadNoValueLeavesValues,
             ReadNameLeavesValues, EndMemberLeavesValues, ReadElementLeavesValues,
             EndElementLeavesValues DEF ReaderNext

LEMMA InitValues == ASSUME NEW texts, Init(texts) PROVE ValueInv
  <1>1. nodes = <<Node(0, NullValue)>> /\ expects = "value" /\ successful
    BY DEF Init, Parse
  <1>2. Len(nodes) = 1 /\ nodes[1] = Node(0, NullValue)
    BY <1>1
  <1>3. IsNode(nodes[1]) /\ IsValue(nodes[1].value)
    BY <1>2 DEF IsNode, Node, IsValue
  <1>4. (\A k \in 1 .. 1 : k = 1 /\ ~(k < 1)) /\ \A k \in 1 .. 1 - 1 : FALSE
    OBVIOUS
  <1> QED BY <1>1, <1>2, <1>3, <1>4 DEF ValueInv

LEMMA StepValues == ASSUME ReaderInv, ValueInv, [Next]_vars PROVE ValueInv'
  <1>1. CASE ConstructJson
    BY <1>1, ValueStep DEF ConstructJson
  <1>2. CASE UNCHANGED readerVars
    BY <1>2 DEF readerVars, ValueInv, currentValue
  <1>3. ConstructJson \/ UNCHANGED readerVars
    BY DEF Next, vars, ParseThrows, HandleResponse, HandleItem, ItemThrows, AwaitNext, Ended
  <1> QED BY <1>1, <1>2, <1>3

\* An element of an array is one of its entries, or null.
LEMMA ElementsAreValues ==
    ASSUME NEW v, v.type = "array", HoldsValues(v), NEW x \in Range(Elements(v))
    PROVE  IsValue(x)
  <1>1. PICK k \in DOMAIN Elements(v) : x = Elements(v)[k]
    BY DEF Range
  <1> DEFINE e == Element(v, k - 1)
  <1>2. x = CHOOSE y \in e : TRUE
    BY <1>1 DEF Elements
  <1>3. e = {IF k - 1 \in DOMAIN v.items THEN v.items[k - 1] ELSE NullValue}
    BY DEF Element
  <1>4. x = IF k - 1 \in DOMAIN v.items THEN v.items[k - 1] ELSE NullValue
    <2> HIDE DEF e
    <2>1. \A y : (CHOOSE z \in {y} : TRUE) = y
      OBVIOUS
    <2> QED BY <1>2, <1>3, <2>1
  <1>5. k - 1 \in DOMAIN v.items => IsValue(v.items[k - 1])
    BY DEF HoldsValues, IsContainer, Contents
  <1> QED BY <1>4, <1>5 DEF IsValue

(***************************************************************************)
(* Whatever text was read, an element of an array it denotes can be asked  *)
(* for its type and taken as that type: the number it is, and no exception *)
(* of asInt and the others, which nothing in the logger would catch.       *)
(***************************************************************************)
THEOREM ElementsKeepPromises ==
    ASSUME NEW S, NEW texts \in SUBSET Seq(S)
    PROVE  Init(texts) /\ [][Next]_vars => []ConvertsAsPromised
  <1>1. ReaderInv /\ ValueInv => ConvertsAsPromised
    <2> SUFFICES ASSUME ReaderInv, ValueInv, expects = "done", successful, NEW v \in Parsed
                 PROVE  PromisesKept(v)
      BY DEF ConvertsAsPromised
    <2>1. HoldsValues(root)
      <3>1. 1 \in 1 .. Len(nodes)
        BY StackAssumption DEF ReaderInv
      <3> QED BY <3>1 DEF ValueInv, root
    <2>2. root.type = "array" /\ v \in Range(Elements(root))
      BY DEF Parsed
    <2>3. IsValue(v)
      BY <2>1, <2>2, ElementsAreValues
    <2> QED BY <2>3, ValuesKeepPromises
  <1> QED BY <1>1, InitReader, StepReader, InitValues, StepValues, PTL
=============================================================================
