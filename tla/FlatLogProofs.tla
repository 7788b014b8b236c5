--------------------------- MODULE FlatLogProofs ----------------------------
(***************************************************************************)
(* Theorems about the text of a flat log (FlatLog), for observations with  *)
(* any numbers in them, logs of any length and any number of processes.    *)
(***************************************************************************)
EXTENDS FlatLog, SequenceTheorems, TLAPS

\* A sequence, of whatever it holds.
IsSeq(s) == s \in Seq(Range(s))

-----------------------------------------------------------------------------
(* Sequences *)

LEMMA AnySeq == ASSUME NEW S, NEW s \in Seq(S) PROVE IsSeq(s)
  BY DEF IsSeq, Range

LEMMA NothingIsSeq == ASSUME NEW s, s = <<>> PROVE IsSeq(s) /\ Len(s) = 0
  <1>1. s \in Seq({})
    OBVIOUS
  <1>2. IsSeq(s)
    BY <1>1, AnySeq
  <1>3. Len(s) = 0
    BY <1>1
  <1> QED
    BY <1>2, <1>3

LEMMA SeqAppend ==
  ASSUME NEW s, IsSeq(s), NEW e
  PROVE  /\ IsSeq(Append(s, e)) /\ Len(Append(s, e)) = Len(s) + 1
         /\ \A i \in 1 .. Len(s) : Append(s, e)[i] = s[i]
         /\ Append(s, e)[Len(s) + 1] = e
  <1> DEFINE S == Range(s) \cup {e}
  <1>1. s \in Seq(S)
    BY DEF IsSeq, Range
  <1>2. e \in S
    OBVIOUS
  <1> HIDE DEF S
  <1>3. Append(s, e) \in Seq(S)
    BY <1>1, <1>2
  <1>4. IsSeq(Append(s, e))
    BY <1>3, AnySeq
  <1>5. /\ Len(Append(s, e)) = Len(s) + 1
        /\ \A i \in 1 .. Len(s) : Append(s, e)[i] = s[i]
        /\ Append(s, e)[Len(s) + 1] = e
    BY <1>1, <1>2
  <1> QED  BY <1>4, <1>5

LEMMA SeqConcat ==
  ASSUME NEW s, IsSeq(s), NEW t, IsSeq(t)
  PROVE  /\ IsSeq(s \o t) /\ Len(s \o t) = Len(s) + Len(t)
         /\ \A i \in 1 .. Len(s) : (s \o t)[i] = s[i]
         /\ \A i \in 1 .. Len(t) : (s \o t)[Len(s) + i] = t[i]
  <1> DEFINE S == Range(s) \cup Range(t)
  <1>1. s \in Seq(S) /\ t \in Seq(S)
    BY DEF IsSeq, Range
  <1> HIDE DEF S
  <1>2. s \o t \in Seq(S)
    BY <1>1
  <1>3. IsSeq(s \o t)
    BY <1>2, AnySeq
  <1>4. /\ Len(s \o t) = Len(s) + Len(t)
        /\ \A i \in 1 .. Len(s) : (s \o t)[i] = s[i]
        /\ \A i \in 1 .. Len(t) : (s \o t)[Len(s) + i] = t[i]
    BY <1>1
  <1> QED  BY <1>3, <1>4

LEMMA SeqOne == ASSUME NEW e PROVE IsSeq(<<e>>) /\ Len(<<e>>) = 1 /\ <<e>>[1] = e
  BY DEF IsSeq, Range

LEMMA SeqBeginning ==
  ASSUME NEW s, IsSeq(s), NEW k \in 0 .. Len(s)
  PROVE  /\ IsSeq(SubSeq(s, 1, k)) /\ Len(SubSeq(s, 1, k)) = k
         /\ \A i \in 1 .. k : SubSeq(s, 1, k)[i] = s[i]
  <1>1. SubSeq(s, 1, k) \in Seq(Range(s))
    BY SubSeqProperties DEF IsSeq
  <1>2. Len(SubSeq(s, 1, k)) = k /\ \A i \in 1 .. k : SubSeq(s, 1, k)[i] = s[i]
    BY DEF IsSeq
  <1> QED  BY <1>1, <1>2, AnySeq

LEMMA SeqHeadTail ==
  ASSUME NEW s, IsSeq(s), s # <<>>
  PROVE  /\ Len(s) \in Nat \ {0} /\ Head(s) = s[1] /\ Last(s) = s[Len(s)]
         /\ IsSeq(Tail(s)) /\ Len(Tail(s)) = Len(s) - 1
         /\ \A i \in 1 .. Len(s) - 1 : Tail(s)[i] = s[i + 1]
         /\ IsSeq(Front(s)) /\ Len(Front(s)) = Len(s) - 1
         /\ \A i \in 1 .. Len(s) - 1 : Front(s)[i] = s[i]
  <1>1. s \in Seq(Range(s)) /\ Len(s) \in Nat \ {0}
    BY DEF IsSeq
  <1>2. Tail(s) \in Seq(Range(s)) /\ Len(Tail(s)) = Len(s) - 1
        /\ \A i \in 1 .. Len(s) - 1 : Tail(s)[i] = s[i + 1]
    BY <1>1, HeadTailProperties
  <1>3. Front(s) = SubSeq(s, 1, Len(s) - 1) /\ Len(s) - 1 \in 0 .. Len(s)
    BY <1>1 DEF Front
  <1>4. Head(s) = s[1] /\ Last(s) = s[Len(s)]
    BY <1>1 DEF Last
  <1>5. IsSeq(Tail(s))
    BY <1>2, AnySeq
  <1>6. /\ IsSeq(Front(s)) /\ Len(Front(s)) = Len(s) - 1
        /\ \A i \in 1 .. Len(s) - 1 : Front(s)[i] = s[i]
    BY <1>3, SeqBeginning
  <1> QED  BY <1>1, <1>2, <1>4, <1>5, <1>6

-----------------------------------------------------------------------------
(* Lines and texts *)

\* A line, however it may be torn, has something in it.
IsLine(line) == IsSeq(line) /\ line # <<>>

\* A text cut off within its last line, or before it.
IsCut(cut, text) ==
    /\ IsSeq(cut) /\ Len(cut) <= Len(text)
    /\ \A i \in 1 .. Len(cut) :
          \/ cut[i] = text[i]
          \/ i = Len(cut) /\ cut[i] \in Parts(text[i])

LEMMA PutPieces ==
  ASSUME NEW number, NEW sep
  PROVE  /\ IsLine(Put(number, sep)) /\ Len(Put(number, sep)) \in {1, 2}
         /\ Len(Put(number, sep)) = 2 => Put(number, sep)[1].sep = Point
         /\ Len(Put(number, sep)) = 1 => Put(number, sep)[1].sep = sep
         /\ Put(number, sep)[1].num = number.whole
         /\ Put(number, sep)[Len(Put(number, sep))].sep = sep
  <1>1. CASE number.frac = NoFraction
    <2>1. Put(number, sep) = <<Piece(number.whole, sep)>>
      BY <1>1 DEF Put
    <2>2. IsSeq(Put(number, sep)) /\ Len(Put(number, sep)) = 1
          /\ Put(number, sep)[1] = Piece(number.whole, sep)
      BY <2>1, SeqOne
    <2> QED  BY <2>2, NothingIsSeq DEF Piece, IsLine
  <1>2. CASE number.frac # NoFraction
    <2> DEFINE p == Piece(number.whole, Point)
               q == Piece(number.frac, sep)
    <2>1. Put(number, sep) = <<p, q>>
      BY <1>2 DEF Put
    <2>2. <<p, q>> \in Seq({p, q}) /\ Len(<<p, q>>) = 2
          /\ <<p, q>>[1] = p /\ <<p, q>>[2] = q
      OBVIOUS
    <2>3. IsSeq(Put(number, sep))
      BY <2>1, <2>2, AnySeq
    <2> QED  BY <2>1, <2>2, <2>3 DEF Piece, IsLine
  <1> QED  BY <1>1, <1>2

\* A part of a line has its pieces, but for its last one.
LEMMA PartLine ==
  ASSUME NEW line, IsLine(line), NEW part \in Parts(line)
  PROVE  IsLine(part) /\ \A i \in 1 .. Len(part) - 1 : part[i] = line[i]
  <1>0. IsSeq(line) /\ Len(line) \in Nat \ {0}
    BY SeqHeadTail DEF IsLine
  <1>1. ASSUME NEW k \in 1 .. Len(line) - 1, part = SubSeq(line, 1, k)
        PROVE  IsLine(part) /\ \A i \in 1 .. Len(part) - 1 : part[i] = line[i]
    <2>1. k \in 0 .. Len(line)
      BY <1>0
    <2>2. IsSeq(part) /\ Len(part) = k /\ \A i \in 1 .. k : part[i] = line[i]
      BY <1>0, <1>1, <2>1, SeqBeginning
    <2> QED  BY <2>1, <2>2, NothingIsSeq DEF IsLine
  <1>2. ASSUME NEW k \in 0 .. Len(line) - 1, NEW n \in Leading(line[k + 1].num),
               part = Append(SubSeq(line, 1, k), Piece(n, End))
        PROVE  IsLine(part) /\ \A i \in 1 .. Len(part) - 1 : part[i] = line[i]
    <2>1. k \in 0 .. Len(line)
      BY <1>0
    <2>2. /\ IsSeq(SubSeq(line, 1, k)) /\ Len(SubSeq(line, 1, k)) = k
          /\ \A i \in 1 .. k : SubSeq(line, 1, k)[i] = line[i]
      BY <1>0, <2>1, SeqBeginning
    <2>3. /\ IsSeq(part) /\ Len(part) = k + 1
          /\ \A i \in 1 .. k : part[i] = SubSeq(line, 1, k)[i]
      BY <1>2, <2>2, SeqAppend
    <2> QED  BY <2>2, <2>3, NothingIsSeq DEF IsLine
  <1> QED  BY <1>1, <1>2 DEF Parts

LEMMA CutText ==
  ASSUME NEW text, IsSeq(text), NEW cut \in Cuts(text)
  PROVE  IsCut(cut, text)
  <1>0. Len(text) \in Nat
    BY DEF IsSeq
  <1>1. ASSUME NEW k \in 0 .. Len(text), cut = SubSeq(text, 1, k)
        PROVE  IsCut(cut, text)
    <2>1. /\ IsSeq(cut) /\ Len(cut) = k
          /\ \A i \in 1 .. k : cut[i] = text[i]
      BY <1>1, SeqBeginning
    <2> QED  BY <1>0, <2>1 DEF IsCut
  <1>2. ASSUME NEW k \in 0 .. Len(text) - 1, NEW part \in Parts(text[k + 1]),
               cut = Append(SubSeq(text, 1, k), part)
        PROVE  IsCut(cut, text)
    <2>1. k \in 0 .. Len(text)
      BY <1>0
    <2>2. /\ IsSeq(SubSeq(text, 1, k)) /\ Len(SubSeq(text, 1, k)) = k
          /\ \A i \in 1 .. k : SubSeq(text, 1, k)[i] = text[i]
      BY <1>0, <2>1, SeqBeginning
    <2>3. /\ IsSeq(cut) /\ Len(cut) = k + 1 /\ cut[k + 1] = part
          /\ \A i \in 1 .. k : cut[i] = SubSeq(text, 1, k)[i]
      BY <1>2, <2>2, SeqAppend
    <2>4. \A i \in 1 .. Len(cut) : i \in 1 .. k \/ i = k + 1
      BY <2>3
    <2>5. ASSUME NEW i \in 1 .. Len(cut)
          PROVE  \/ cut[i] = text[i]
                 \/ i = Len(cut) /\ cut[i] \in Parts(text[i])
      BY <2>2, <2>3, <2>4
    <2>6. Len(cut) <= Len(text)
      BY <1>0, <2>3
    <2> QED  BY <2>3, <2>5, <2>6 DEF IsCut
  <1> QED  BY <1>1, <1>2 DEF Cuts

LEMMA ContinuedLine ==
  ASSUME NEW line, IsLine(line), NEW next, IsLine(next)
  PROVE  IsLine(Continued(line, next)) /\ Last(Continued(line, next)).sep = Last(next).sep
  <1>1. /\ IsSeq(line) /\ Len(line) \in Nat \ {0} /\ Last(line) = line[Len(line)]
        /\ IsSeq(next) /\ Len(next) \in Nat \ {0} /\ Last(next) = next[Len(next)]
        /\ Head(next) = next[1]
    BY SeqHeadTail DEF IsLine
  <1>2. CASE Last(line).sep # End
    <2> DEFINE r == line \o next
    <2>1. Continued(line, next) = r
      BY <1>2 DEF Continued
    <2>2. IsSeq(r) /\ Len(r) = Len(line) + Len(next) /\ r[Len(line) + Len(next)] = next[Len(next)]
      BY <1>1, SeqConcat
    <2> HIDE DEF r
    <2>3. r # <<>> /\ Last(r) = next[Len(next)]
      BY <1>1, <2>2, NothingIsSeq DEF Last
    <2> QED  BY <1>1, <2>1, <2>2, <2>3 DEF IsLine
  <1>3. CASE Last(line).sep = End
    <2> DEFINE a == Last(line).num
               b == Head(next).num
               p == Piece(a * 10 ^ Digits(b) + b, Head(next).sep)
               f == Front(line) \o <<p>>
               r == f \o Tail(next)
    <2>1. Continued(line, next) = r
      BY <1>3 DEF Continued
    <2>2. p.sep = next[1].sep
      BY <1>1 DEF Piece
    <2> HIDE DEF p
    <2>3. IsSeq(f) /\ Len(f) = Len(line) /\ f[Len(line)] = p
      <3>1. IsSeq(Front(line)) /\ Len(Front(line)) = Len(line) - 1
        BY <1>1, SeqHeadTail DEF IsLine
      <3>2. IsSeq(f) /\ Len(f) = Len(line) - 1 + 1 /\ f[Len(line) - 1 + 1] = p
        BY <3>1, SeqOne, SeqConcat
      <3> QED  BY <1>1, <3>2
    <2> HIDE DEF f
    <2>4. IsSeq(Tail(next)) /\ Len(Tail(next)) = Len(next) - 1
          /\ \A i \in 1 .. Len(next) - 1 : Tail(next)[i] = next[i + 1]
      BY <1>1, SeqHeadTail DEF IsLine
    <2>5. IsSeq(r) /\ Len(r) = Len(line) + (Len(next) - 1)
          /\ (\A i \in 1 .. Len(line) : r[i] = f[i])
          /\ \A i \in 1 .. Len(next) - 1 : r[Len(line) + i] = Tail(next)[i]
      <3> DEFINE t == Tail(next)
      <3>0. IsSeq(f) /\ IsSeq(t)
        BY <2>3, <2>4
      <3> HIDE DEF t
      <3>1. IsSeq(f \o t) /\ Len(f \o t) = Len(f) + Len(t)
            /\ (\A i \in 1 .. Len(f) : (f \o t)[i] = f[i])
            /\ \A i \in 1 .. Len(t) : (f \o t)[Len(f) + i] = t[i]
        BY <3>0, SeqConcat
      <3> QED  BY <2>3, <2>4, <3>1 DEF t
    <2> HIDE DEF r
    <2>6. r # <<>> /\ Last(r) = r[Len(r)]
      BY <1>1, <2>5, NothingIsSeq DEF Last
    <2>7. CASE Len(next) = 1
      <3>1. Len(r) = Len(line) /\ r[Len(line)] = p
        BY <1>1, <2>3, <2>5, <2>7
      <3> QED  BY <1>1, <2>1, <2>2, <2>5, <2>6, <2>7, <3>1 DEF IsLine
    <2>8. CASE Len(next) # 1
      <3>0. \A n \in Nat \ {0} : n # 1 => n - 1 \in 1 .. n - 1 /\ n - 1 + 1 = n
        OBVIOUS
      <3>1. Len(next) - 1 \in 1 .. Len(next) - 1 /\ Len(next) - 1 + 1 = Len(next)
        BY <1>1, <2>8, <3>0
      <3>2. r[Len(line) + (Len(next) - 1)] = Tail(next)[Len(next) - 1]
        BY <2>5, <3>1
      <3>3. Tail(next)[Len(next) - 1] = next[Len(next) - 1 + 1]
        BY <2>4, <3>1
      <3>4. r[Len(r)] = next[Len(next)]
        BY <2>5, <3>1, <3>2, <3>3
      <3> QED  BY <1>1, <2>1, <2>5, <2>6, <3>4 DEF IsLine
    <2> QED  BY <2>7, <2>8
  <1> QED  BY <1>2, <1>3

LEMMA AppendWhole ==
  ASSUME NEW text, IsSeq(text), NEW more, ~Torn(text)
  PROVE  AppendText(text, more) = text \o more
  BY DEF AppendText

\* The text made of a torn one begins with a line that continues the torn one.
LEMMA AppendTorn ==
  ASSUME NEW text, IsSeq(text), NEW more, IsSeq(more), Torn(text), more # <<>>
  PROVE  LET r == AppendText(text, more)
         IN  /\ IsSeq(r) /\ Len(r) = Len(text) + Len(more) - 1
             /\ \A i \in 1 .. Len(text) - 1 : r[i] = text[i]
             /\ r[Len(text)] = Continued(text[Len(text)], more[1])
             /\ \A i \in 2 .. Len(more) : r[Len(text) + i - 1] = more[i]
  <1> DEFINE p == Continued(text[Len(text)], more[1])
             f == Front(text) \o <<p>>
             r == f \o Tail(more)
  <1>1. text # <<>>
    BY DEF Torn
  <1>2. /\ Len(text) \in Nat \ {0} /\ Last(text) = text[Len(text)]
        /\ Len(more) \in Nat \ {0} /\ Head(more) = more[1]
    BY <1>1, SeqHeadTail
  <1>3. AppendText(text, more) = r
    BY <1>2 DEF AppendText
  <1> HIDE DEF p
  <1>4. /\ IsSeq(f) /\ Len(f) = Len(text) /\ f[Len(text)] = p
        /\ \A i \in 1 .. Len(text) - 1 : f[i] = text[i]
    <2>1. /\ IsSeq(Front(text)) /\ Len(Front(text)) = Len(text) - 1
          /\ \A i \in 1 .. Len(text) - 1 : Front(text)[i] = text[i]
      BY <1>1, SeqHeadTail
    <2>2. /\ IsSeq(f) /\ Len(f) = Len(text) - 1 + 1 /\ f[Len(text) - 1 + 1] = p
          /\ \A i \in 1 .. Len(text) - 1 : f[i] = Front(text)[i]
      BY <2>1, SeqOne, SeqConcat
    <2> QED  BY <1>2, <2>1, <2>2
  <1> HIDE DEF f
  <1>5. IsSeq(Tail(more)) /\ Len(Tail(more)) = Len(more) - 1
        /\ \A i \in 1 .. Len(more) - 1 : Tail(more)[i] = more[i + 1]
    BY SeqHeadTail
  <1>6. IsSeq(r) /\ Len(r) = Len(text) + (Len(more) - 1)
        /\ (\A i \in 1 .. Len(text) : r[i] = f[i])
        /\ \A i \in 1 .. Len(more) - 1 : r[Len(text) + i] = Tail(more)[i]
    <2> DEFINE t == Tail(more)
    <2>0. IsSeq(f) /\ IsSeq(t)
      BY <1>4, <1>5
    <2> HIDE DEF t
    <2>1. IsSeq(f \o t) /\ Len(f \o t) = Len(f) + Len(t)
          /\ (\A i \in 1 .. Len(f) : (f \o t)[i] = f[i])
          /\ \A i \in 1 .. Len(t) : (f \o t)[Len(f) + i] = t[i]
      BY <2>0, SeqConcat
    <2> QED  BY <1>4, <1>5, <2>1 DEF t
  <1> HIDE DEF r
  <1>7. ASSUME NEW i \in 2 .. Len(more)
        PROVE  r[Len(text) + i - 1] = more[i]
    <2>1. i - 1 \in 1 .. Len(more) - 1 /\ i - 1 + 1 = i /\ Len(text) + (i - 1) = Len(text) + i - 1
      BY <1>2
    <2> QED  BY <1>5, <1>6, <2>1
  <1>8. \A i \in 1 .. Len(text) - 1 : r[i] = text[i]
    BY <1>2, <1>4, <1>6
  <1>9. r[Len(text)] = p /\ Len(r) = Len(text) + Len(more) - 1
    BY <1>2, <1>4, <1>6
  <1> QED  BY <1>3, <1>6, <1>7, <1>8, <1>9 DEF p
-----------------------------------------------------------------------------
(* Lines read back *)

LEMMA Separators == Comma # Point
  BY DEF Comma, Point

LEMMA SeqOneMore ==
  ASSUME NEW s, IsSeq(s), NEW e
  PROVE  /\ IsSeq(s \o <<e>>) /\ Len(s \o <<e>>) = Len(s) + 1
         /\ \A i \in 1 .. Len(s) : (s \o <<e>>)[i] = s[i]
         /\ (s \o <<e>>)[Len(s) + 1] = e
  <1>1. IsSeq(<<e>>) /\ Len(<<e>>) = 1 /\ <<e>>[1] = e
    BY SeqOne
  <1> DEFINE t == <<e>>
  <1> HIDE DEF t
  <1>2. IsSeq(t) /\ Len(t) = 1 /\ t[1] = e
    BY <1>1 DEF t
  <1>3. /\ IsSeq(s \o t) /\ Len(s \o t) = Len(s) + Len(t)
        /\ \A i \in 1 .. Len(s) : (s \o t)[i] = s[i]
        /\ \A i \in 1 .. Len(t) : (s \o t)[Len(s) + i] = t[i]
    <2>1. IsSeq(t)
      BY <1>2
    <2> QED  BY <2>1, SeqConcat
  <1>4. (s \o t)[Len(s) + 1] = e
    BY <1>2, <1>3
  <1> QED  BY <1>2, <1>3, <1>4 DEF t

LEMMA PutWhole == \A n, sep : Put(Whole(n), sep) = <<Piece(n, sep)>>
  BY DEF Put, Whole

(***************************************************************************)
(* What the readers of a line rely on: its first four numbers have no      *)
(* fraction, and if the fifth has one there is a piece more.               *)
(***************************************************************************)
LEMMA StrPieces ==
  ASSUME NEW o
  PROVE  /\ IsLine(Str(o)) /\ Len(Str(o)) >= 7 /\ Last(Str(o)).sep = EndOfLine
         /\ Str(o)[1].num = o.id /\ Str(o)[3].sep = Comma /\ Str(o)[4].sep = Comma
         /\ Str(o)[5].sep = Point => Len(Str(o)) >= 8
  <1> DEFINE id == Piece(o.id, Comma)
             valid == Piece(Bit(o.valid), Comma)
             inst == Piece(o.inst, Comma)
             damped == Piece(Bit(o.damped), Comma)
             two == <<id>> \o <<valid>>
             three == two \o <<inst>>
             head == three \o <<damped>>
             val == Put(o.val, Comma)
             sysVal == Put(o.sysVal, Comma)
             dampedVal == Put(o.dampedVal, EndOfLine)
             v == head \o val
             w == v \o sysVal
             r == w \o dampedVal
  <1>1. id.num = o.id /\ inst.sep = Comma /\ damped.sep = Comma
    BY DEF Piece
  <1>2. Str(o) = <<id>> \o <<valid>> \o <<inst>> \o <<damped>> \o val \o sysVal \o dampedVal
    BY PutWhole DEF Str
  <1>3. /\ IsSeq(val) /\ Len(val) \in {1, 2}
        /\ (Len(val) = 1 => val[1].sep = Comma)
    BY PutPieces DEF IsLine
  <1>4. IsSeq(sysVal) /\ Len(sysVal) \in {1, 2}
    BY PutPieces DEF IsLine
  <1>5. IsSeq(dampedVal) /\ Len(dampedVal) \in {1, 2} /\ dampedVal[Len(dampedVal)].sep = EndOfLine
    BY PutPieces DEF IsLine
  <1> HIDE DEF id, valid, inst, damped, val, sysVal, dampedVal
  <1>6. IsSeq(two) /\ Len(two) = 2 /\ two[1] = id
    BY SeqOne, SeqOneMore
  <1> HIDE DEF two
  <1>7. /\ IsSeq(head) /\ Len(head) = 4
        /\ head[1] = id /\ head[3] = inst /\ head[4] = damped
    <2>1. /\ IsSeq(three) /\ Len(three) = Len(two) + 1
          /\ \A i \in 1 .. Len(two) : three[i] = two[i]
          /\ three[Len(two) + 1] = inst
      <3>1. IsSeq(two)
        BY <1>6
      <3> QED  BY <3>1, SeqOneMore
    <2> HIDE DEF three
    <2>2. IsSeq(three) /\ Len(three) = 3 /\ three[1] = id /\ three[3] = inst
      BY <1>6, <2>1
    <2>3. /\ IsSeq(head) /\ Len(head) = Len(three) + 1
          /\ \A i \in 1 .. Len(three) : head[i] = three[i]
          /\ head[Len(three) + 1] = damped
      <3>1. IsSeq(three)
        BY <2>1
      <3> QED  BY <3>1, SeqOneMore
    <2> HIDE DEF head
    <2> QED  BY <2>2, <2>3
  <1>8. Str(o) = r
    BY <1>2 DEF two
  <1> HIDE DEF head
  <1>9. /\ IsSeq(v) /\ Len(v) = 4 + Len(val)
        /\ v[1] = id /\ v[3] = inst /\ v[4] = damped /\ v[5] = val[1]
    <2>1. /\ IsSeq(v) /\ Len(v) = Len(head) + Len(val)
          /\ (\A i \in 1 .. Len(head) : v[i] = head[i])
          /\ \A i \in 1 .. Len(val) : v[Len(head) + i] = val[i]
      <3>1. IsSeq(head) /\ IsSeq(val)
        BY <1>3, <1>7
      <3> QED  BY <3>1, SeqConcat
    <2>2. 1 \in 1 .. Len(val) /\ 1 \in 1 .. 4 /\ 3 \in 1 .. 4 /\ 4 \in 1 .. 4 /\ 4 + 1 = 5
      BY <1>3
    <2> QED  BY <1>7, <2>1, <2>2
  <1> HIDE DEF v
  <1>10. /\ IsSeq(w) /\ Len(w) = Len(v) + Len(sysVal)
         /\ w[1] = v[1] /\ w[3] = v[3] /\ w[4] = v[4] /\ w[5] = v[5]
    <2>1. /\ IsSeq(w) /\ Len(w) = Len(v) + Len(sysVal)
          /\ \A i \in 1 .. Len(v) : w[i] = v[i]
      <3>1. IsSeq(v) /\ IsSeq(sysVal)
        BY <1>4, <1>9
      <3> QED  BY <3>1, SeqConcat
    <2>2. 1 \in 1 .. Len(v) /\ 3 \in 1 .. Len(v) /\ 4 \in 1 .. Len(v) /\ 5 \in 1 .. Len(v)
      BY <1>3, <1>9
    <2> QED  BY <2>1, <2>2
  <1> HIDE DEF w
  <1>11. /\ IsSeq(r) /\ Len(r) = Len(w) + Len(dampedVal)
         /\ r[1] = w[1] /\ r[3] = w[3] /\ r[4] = w[4] /\ r[5] = w[5]
         /\ r[Len(w) + Len(dampedVal)] = dampedVal[Len(dampedVal)]
    <2>1. /\ IsSeq(r) /\ Len(r) = Len(w) + Len(dampedVal)
          /\ (\A i \in 1 .. Len(w) : r[i] = w[i])
          /\ \A i \in 1 .. Len(dampedVal) : r[Len(w) + i] = dampedVal[i]
      <3>1. IsSeq(w) /\ IsSeq(dampedVal)
        BY <1>5, <1>10
      <3> QED  BY <3>1, SeqConcat
    <2>2. /\ 1 \in 1 .. Len(w) /\ 3 \in 1 .. Len(w) /\ 4 \in 1 .. Len(w) /\ 5 \in 1 .. Len(w)
          /\ Len(dampedVal) \in 1 .. Len(dampedVal)
      <3>1. \A a, b, c \in {1, 2} :
               /\ 1 \in 1 .. 4 + a + b /\ 3 \in 1 .. 4 + a + b /\ 4 \in 1 .. 4 + a + b
               /\ 5 \in 1 .. 4 + a + b /\ c \in 1 .. c
        OBVIOUS
      <3>2. Len(w) = 4 + Len(val) + Len(sysVal)
        BY <1>9, <1>10
      <3> QED  BY <1>3, <1>4, <1>5, <3>1, <3>2
    <2> QED  BY <2>1, <2>2
  <1> HIDE DEF r
  <1>12. Len(r) >= 7 /\ (Len(val) = 2 => Len(r) >= 8)
    <2>1. \A a, b, c \in {1, 2} : 4 + a + b + c >= 7 /\ (a = 2 => 4 + a + b + c >= 8)
      OBVIOUS
    <2>2. Len(r) = 4 + Len(val) + Len(sysVal) + Len(dampedVal)
      BY <1>9, <1>10, <1>11
    <2> QED  BY <1>3, <1>4, <1>5, <2>1, <2>2
  <1>13. r[5].sep = Point => Len(val) = 2
    BY <1>3, <1>9, <1>10, <1>11 DEF Point, Comma
  <1>14. IsLine(r) /\ Last(r) = r[Len(r)]
    BY <1>11, <1>12, NothingIsSeq DEF IsLine, Last
  <1> QED  BY <1>1, <1>5, <1>8, <1>9, <1>10, <1>11, <1>12, <1>13, <1>14

\* A whole line yields its own id.
LEMMA WholeReadBack ==
  ASSUME NEW o
  PROVE  FromLine(Str(o)).id = o.id /\ Ungarbled(Str(o))
  <1> DEFINE line == Str(o)
             sysVal == AfterDouble(line, 3)
             dampedVal == AfterDouble(line, sysVal)
             inst == AfterDouble(line, dampedVal)
  <1>1. /\ Len(line) >= 7 /\ line[1].num = o.id /\ line[3].sep = Comma /\ line[4].sep = Comma
        /\ line[5].sep = Point => Len(line) >= 8
        /\ Len(line) \in Nat
    BY StrPieces, SeqHeadTail DEF IsLine
  <1> HIDE DEF line
  <1>2. sysVal = 4
    BY <1>1, Separators DEF AfterDouble, ReadsFraction
  <1>3. dampedVal = 5
    BY <1>1, <1>2, Separators DEF AfterDouble, ReadsFraction
  <1>4. inst \in {6, 7} /\ (inst = 7 => Len(line) >= 8)
    BY <1>1, <1>3 DEF AfterDouble, ReadsFraction
  <1> HIDE DEF sysVal, dampedVal, inst
  <1>5. Start(line) = <<1, 2, 3, sysVal, dampedVal, inst, inst + 1>>
    BY DEF Start, sysVal, dampedVal, inst
  <1>6. /\ Start(line)[1] = 1 /\ Start(line)[2] = 2 /\ Start(line)[3] = 3
        /\ Start(line)[4] = 4 /\ Start(line)[5] = 5
        /\ Start(line)[6] = inst /\ Start(line)[7] = inst + 1
    BY <1>2, <1>3, <1>5
  <1>7. ASSUME NEW k \in Fields
        PROVE  Readable(line, k)
    <2>1. k = 1 \/ k = 2 \/ k = 3 \/ k = 4 \/ k = 5 \/ k = 6 \/ k = 7
      BY DEF Fields
    <2> QED  BY <1>1, <1>4, <1>6, <2>1 DEF Readable
  <1>8. NumberAt(line, 1).whole = line[1].num
    BY <1>6, <1>7 DEF NumberAt, Fields
  <1> QED  BY <1>1, <1>7, <1>8 DEF FromLine, ObservedId, Ungarbled, line

\* A line cut short yields its own id, or is recognised.
LEMMA PartReadBack ==
  ASSUME NEW o, NEW part \in Parts(Str(o))
  PROVE  FromLine(part).id \in {o.id, -1}
  <1>1. IsLine(part) /\ (Len(part) >= 2 => part[1].num = o.id)
    <2>1. IsLine(part) /\ \A i \in 1 .. Len(part) - 1 : part[i] = Str(o)[i]
      BY StrPieces, PartLine
    <2>2. Len(part) \in Nat
      BY <2>1, SeqHeadTail DEF IsLine
    <2>3. Len(part) >= 2 => part[1] = Str(o)[1]
      BY <2>1, <2>2
    <2> QED  BY <2>1, <2>3, StrPieces
  <1>2. Start(part)[1] = 1 /\ Start(part)[2] = 2
    BY DEF Start
  <1>3. CASE Ungarbled(part)
    <2>1. Len(part) >= 2
      BY <1>2, <1>3 DEF Ungarbled, Fields, Readable
    <2>2. NumberAt(part, 1).whole = part[1].num
      BY <1>2, <1>3 DEF NumberAt, Ungarbled, Fields, Readable
    <2> QED  BY <1>1, <1>3, <2>1, <2>2 DEF FromLine, ObservedId
  <1>4. CASE ~Ungarbled(part)
    BY <1>4 DEF FromLine, ObservedId
  <1> QED  BY <1>3, <1>4

\* A line of which enough is left for seven numbers yields the id and the value
\* of the whole one.
LEMMA TornReadBack ==
  ASSUME NEW o, NEW part \in Parts(Str(o)), Ungarbled(part)
  PROVE  /\ FromLine(part).id = FromLine(Str(o)).id
         /\ FromLine(part).val.whole = FromLine(Str(o)).val.whole
  <1>1. IsLine(part) /\ \A i \in 1 .. Len(part) - 1 : part[i] = Str(o)[i]
    BY StrPieces, PartLine
  <1>2. \A line : Start(line)[1] = 1 /\ Start(line)[3] = 3
    BY DEF Start
  <1>3. \A line : Ungarbled(line) =>
           NumberAt(line, 1).whole = line[1].num /\ NumberAt(line, 3).whole = line[3].num
    BY <1>2 DEF NumberAt, Ungarbled, Fields
  <1>4. Ungarbled(Str(o))
    BY WholeReadBack
  <1>5. Len(part) >= 4
    <2> DEFINE sysVal == AfterDouble(part, 3)
    <2>1. sysVal \in {4, 5}
      BY DEF AfterDouble
    <2>2. Start(part)[4] = sysVal
      BY DEF Start
    <2> HIDE DEF sysVal
    <2>3. sysVal <= Len(part)
      BY <2>2 DEF Ungarbled, Fields, Readable
    <2>4. Len(part) \in Nat
      BY <1>1, SeqHeadTail DEF IsLine
    <2> QED  BY <2>1, <2>3, <2>4
  <1>6. part[1] = Str(o)[1] /\ part[3] = Str(o)[3]
    <2>1. Len(part) \in Nat
      BY <1>1, SeqHeadTail DEF IsLine
    <2> QED  BY <1>1, <1>5, <2>1
  <1> QED  BY <1>3, <1>4, <1>6 DEF FromLine, ObservedId
-----------------------------------------------------------------------------
(* The inductive invariant *)

TextsTyped ==
    /\ IsSeq(file) /\ IsSeq(buffer) /\ IsSeq(written)
    /\ \A l \in 1 .. Len(file) : IsLine(file[l])
    /\ start \in 0 .. Len(file)
    /\ continues \in BOOLEAN /\ alive \in BOOLEAN

\* Observations of this process whose lines have left the buffer.
Flushed == Len(written) - Len(buffer)

\* The buffer holds the lines of the last observations, behind those in the
\* file, and only a torn line the process has found there can be the file's last.
Buffered ==
    IF alive
    THEN /\ Flushed >= 0
         /\ WholeLines(file) = start + Flushed
         /\ Torn(file) => continues /\ Flushed = 0
         /\ \A n \in 1 .. Len(buffer) : buffer[n] = Str(written[Flushed + n])
    ELSE buffer = <<>>

\* The n-th line in the file is that of the n-th observation; the last one can
\* be torn if the process has been killed.
IsFiled(n) ==
    \/ Spoilt(n)
    \/ /\ n \in 1 .. Len(written)
       /\ \/ file[start + n] = Str(written[n])
          \/ /\ ~alive /\ start + n = Len(file)
             /\ file[start + n] \in Parts(Str(written[n]))

Filed == \A n \in 1 .. Len(file) - start : IsFiled(n)

TimesFiled ==
    \A t \in 1 .. Len(written) : written[t].id = TimeId =>
        start + t <= Len(file) /\ (Spoilt(t) \/ file[start + t] = Str(written[t]))

TextInv == TextsTyped /\ Buffered /\ Filed /\ TimesFiled
-----------------------------------------------------------------------------
(* What AppendText makes of texts *)

AllLines(text) == \A l \in 1 .. Len(text) : IsLine(text[l])

LEMMA WholeCount ==
  ASSUME NEW text, IsSeq(text)
  PROVE  /\ WholeLines(text) \in 0 .. Len(text)
         /\ Torn(text) => Len(text) = WholeLines(text) + 1
         /\ ~Torn(text) => Len(text) = WholeLines(text)
  <1>1. Len(text) \in Nat
    BY DEF IsSeq
  <1>2. CASE Torn(text)
    <2>1. Len(text) \in Nat \ {0}
      BY <1>2, SeqHeadTail DEF Torn
    <2> QED  BY <1>2, <2>1 DEF WholeLines, Bit
  <1>3. CASE ~Torn(text)
    BY <1>1, <1>3 DEF WholeLines, Bit
  <1> QED  BY <1>2, <1>3

LEMMA Appended ==
  ASSUME NEW text, IsSeq(text), AllLines(text), NEW more, IsSeq(more), AllLines(more), more # <<>>,
         NEW r, r = AppendText(text, more)
  PROVE  /\ IsSeq(r) /\ AllLines(r)
         /\ Len(r) = WholeLines(text) + Len(more)
         /\ \A i \in 1 .. WholeLines(text) : r[i] = text[i]
         /\ \A i \in 1 .. Len(more) : (i = 1 /\ Torn(text)) \/ r[WholeLines(text) + i] = more[i]
         /\ Last(more[Len(more)]).sep = EndOfLine => ~Torn(r)
  <1>0. Len(more) \in Nat \ {0} /\ Len(text) \in Nat
    BY SeqHeadTail DEF IsSeq
  <1>1. CASE ~Torn(text)
    <2>1. /\ IsSeq(r) /\ Len(r) = Len(text) + Len(more)
          /\ \A i \in 1 .. Len(text) : r[i] = text[i]
          /\ \A i \in 1 .. Len(more) : r[Len(text) + i] = more[i]
      <3>1. r = text \o more
        BY <1>1, AppendWhole
      <3> QED  BY <3>1, SeqConcat
    <2>2. Len(text) = WholeLines(text)
      BY <1>1, WholeCount
    <2>3. AllLines(r)
      <3>1. ASSUME NEW l \in 1 .. Len(r)
            PROVE  IsLine(r[l])
        <4>1. CASE l <= Len(text)
          BY <1>0, <2>1, <4>1 DEF AllLines
        <4>2. CASE l > Len(text)
          <5>1. l - Len(text) \in 1 .. Len(more) /\ Len(text) + (l - Len(text)) = l
            BY <1>0, <2>1, <4>2
          <5>2. r[l] = more[l - Len(text)]
            BY <2>1, <5>1
          <5> QED  BY <5>1, <5>2 DEF AllLines
        <4> QED  BY <1>0, <4>1, <4>2
      <3> QED  BY <3>1 DEF AllLines
    <2>4. Last(r) = more[Len(more)]
      <3>1. r[Len(r)] = more[Len(more)]
        BY <1>0, <2>1
      <3> QED  BY <3>1 DEF Last
    <2> QED  BY <2>1, <2>2, <2>3, <2>4 DEF Torn
  <1>2. CASE Torn(text)
    <2>1. Len(text) = WholeLines(text) + 1 /\ WholeLines(text) = Len(text) - 1 /\ Len(text) >= 1
      BY <1>0, <1>2, WholeCount
    <2>2. /\ IsSeq(r) /\ Len(r) = Len(text) + Len(more) - 1
          /\ \A i \in 1 .. Len(text) - 1 : r[i] = text[i]
          /\ r[Len(text)] = Continued(text[Len(text)], more[1])
          /\ \A i \in 2 .. Len(more) : r[Len(text) + i - 1] = more[i]
      BY <1>2, AppendTorn
    <2>9. Len(r) = WholeLines(text) + Len(more)
      <3>1. Len(r) = Len(text) + Len(more) - 1
        BY <2>2
      <3>2. \A t, m, w \in Nat : t = w + 1 => t + m - 1 = w + m
        OBVIOUS
      <3>3. WholeLines(text) \in Nat
        BY <1>0, WholeCount
      <3> QED  BY <1>0, <2>1, <3>1, <3>2, <3>3
    <2>3. IsLine(text[Len(text)]) /\ IsLine(more[1])
      BY <1>0, <2>1 DEF AllLines
    <2>4. IsLine(r[Len(text)]) /\ Last(r[Len(text)]).sep = Last(more[1]).sep
      BY <2>2, <2>3, ContinuedLine
    <2>5. ASSUME NEW i \in 2 .. Len(more)
          PROVE  r[WholeLines(text) + i] = more[i]
      <3>1. WholeLines(text) + i = Len(text) + i - 1
        BY <1>0, <2>1
      <3> QED  BY <2>2, <3>1
    <2>6. AllLines(r)
      <3>1. ASSUME NEW l \in 1 .. Len(r)
            PROVE  IsLine(r[l])
        <4>1. CASE l < Len(text)
          <5>1. l \in 1 .. Len(text) - 1 /\ l \in 1 .. Len(text)
            BY <1>0, <4>1
          <5> QED  BY <2>2, <5>1 DEF AllLines
        <4>2. CASE l = Len(text)
          BY <2>4, <4>2
        <4>3. CASE l > Len(text)
          <5>1. l - Len(text) + 1 \in 2 .. Len(more) /\ Len(text) + (l - Len(text) + 1) - 1 = l
            BY <1>0, <2>2, <4>3
          <5>2. r[l] = more[l - Len(text) + 1]
            BY <2>2, <5>1
          <5>3. l - Len(text) + 1 \in 1 .. Len(more)
            BY <5>1
          <5> QED  BY <5>2, <5>3 DEF AllLines
        <4> QED  BY <1>0, <4>1, <4>2, <4>3
      <3> QED  BY <3>1 DEF AllLines
    <2>7. Last(r[Len(r)]).sep = Last(more[Len(more)]).sep
      <3>1. CASE Len(more) = 1
        <4>1. Len(r) = Len(text)
          BY <2>1, <2>9, <3>1
        <4> QED  BY <2>4, <3>1, <4>1
      <3>2. CASE Len(more) # 1
        <4>0. \A n \in Nat \ {0} : n # 1 => n \in 2 .. n
          OBVIOUS
        <4>1. Len(more) \in 2 .. Len(more)
          BY <1>0, <3>2, <4>0
        <4> QED  BY <2>5, <2>9, <4>1
      <3> QED  BY <3>1, <3>2
    <2>8. Last(more[Len(more)]).sep = EndOfLine => ~Torn(r)
      BY <2>7 DEF Torn, Last
    <2>10. \A i \in 1 .. Len(more) : i = 1 \/ i \in 2 .. Len(more)
      BY <1>0
    <2>11. \A i \in 1 .. Len(more) : (i = 1 /\ Torn(text)) \/ r[WholeLines(text) + i] = more[i]
      BY <1>2, <2>5, <2>10
    <2>12. \A i \in 1 .. WholeLines(text) : r[i] = text[i]
      BY <2>1, <2>2
    <2> QED  BY <2>2, <2>6, <2>8, <2>9, <2>11, <2>12
  <1> QED  BY <1>1, <1>2
-----------------------------------------------------------------------------
(* The invariant holds *)

LEMMA InitInv == Init => TextInv
  <1> SUFFICES ASSUME Init PROVE TextInv
    OBVIOUS
  <1>1. /\ file = <<>> /\ buffer = <<>> /\ written = <<>>
        /\ start = 0 /\ continues = FALSE /\ alive = TRUE
    BY DEF Init
  <1>2. /\ IsSeq(file) /\ IsSeq(buffer) /\ IsSeq(written)
        /\ Len(file) = 0 /\ Len(buffer) = 0 /\ Len(written) = 0
    BY <1>1, NothingIsSeq
  <1>3. TextsTyped
    <2>1. start = 0 /\ continues = FALSE /\ alive = TRUE
      BY <1>1
    <2>2. start \in 0 .. Len(file) /\ \A l \in 1 .. Len(file) : FALSE
      BY <1>2, <2>1
    <2>3. IsSeq(file) /\ IsSeq(buffer) /\ IsSeq(written)
      BY <1>2
    <2> QED  BY <2>1, <2>2, <2>3 DEF TextsTyped
  <1>4. ~Torn(file) /\ WholeLines(file) = 0
    BY <1>1, <1>2 DEF Torn, WholeLines, Bit
  <1>5. Buffered
    BY <1>1, <1>2, <1>4 DEF Buffered, Flushed
  <1>6. Filed /\ TimesFiled
    BY <1>1, <1>2 DEF Filed, TimesFiled
  <1> QED  BY <1>3, <1>5, <1>6 DEF TextInv

LEMMA StutterInv == TextInv /\ UNCHANGED vars => TextInv'
  BY DEF TextInv, TextsTyped, Buffered, Flushed, Filed, IsFiled, TimesFiled, Spoilt,
         WholeLines, vars

\* The lengths that the invariant relates are numbers.
LEMMA Lengths ==
  ASSUME TextInv
  PROVE  /\ Len(file) \in Nat /\ Len(buffer) \in Nat /\ Len(written) \in Nat
         /\ start \in Nat /\ start <= Len(file)
         /\ Flushed \in Int /\ Len(written) = Flushed + Len(buffer)
  BY DEF TextInv, TextsTyped, IsSeq, Flushed

\* While a process lives, all its lines in the file but a spoilt one are whole.
LEMMA AliveWhole ==
  ASSUME TextInv, alive, NEW n \in 1 .. Flushed
  PROVE  Spoilt(n) \/ file[start + n] = Str(written[n])
  <1>1. /\ WholeLines(file) = start + Flushed /\ Filed
        /\ IsSeq(file) /\ Len(file) \in Nat /\ start \in Nat /\ Flushed \in Int
    BY Lengths DEF TextInv, Buffered, TextsTyped
  <1>2. n \in 1 .. Len(file) - start
    BY <1>1, WholeCount
  <1> QED  BY <1>1, <1>2 DEF Filed, IsFiled

\* The observation o is logged; its line stays in the buffer.
LEMMA BufferedInv ==
  ASSUME TextInv, NEW o, Log(o), o.id # TimeId
  PROVE  TextInv'
  <1>1. /\ alive /\ buffer' = Append(buffer, Str(o)) /\ written' = Append(written, o)
        /\ UNCHANGED <<file, alive, start, continues>>
    BY DEF Log
  <1>2. TextsTyped /\ Buffered /\ Filed /\ TimesFiled /\ IsSeq(buffer) /\ IsSeq(written)
    BY DEF TextInv, TextsTyped
  <1>3. /\ IsSeq(buffer') /\ Len(buffer') = Len(buffer) + 1
        /\ (\A i \in 1 .. Len(buffer) : buffer'[i] = buffer[i])
        /\ buffer'[Len(buffer) + 1] = Str(o)
    BY <1>1, <1>2, SeqAppend
  <1>4. /\ IsSeq(written') /\ Len(written') = Len(written) + 1
        /\ (\A i \in 1 .. Len(written) : written'[i] = written[i])
        /\ written'[Len(written) + 1] = o
    BY <1>1, <1>2, SeqAppend
  <1>5. TextsTyped'
    BY <1>1, <1>2, <1>3, <1>4 DEF TextsTyped
  <1>6. Flushed' = Flushed /\ Flushed \in Int /\ Len(written) = Flushed + Len(buffer)
        /\ Len(buffer) \in Nat /\ Len(written) \in Nat
    BY <1>3, <1>4, Lengths DEF Flushed
  <1>7. Buffered'
    <2>1. ASSUME NEW n \in 1 .. Len(buffer')
          PROVE  buffer'[n] = Str(written'[Flushed + n])
      <3>1. CASE n \in 1 .. Len(buffer)
        <4>1. Flushed + n \in 1 .. Len(written)
          BY <1>1, <1>2, <1>6, <3>1 DEF Buffered
        <4> QED  BY <1>1, <1>2, <1>3, <1>4, <3>1, <4>1 DEF Buffered
      <3>2. CASE n = Len(buffer) + 1
        BY <1>3, <1>4, <1>6, <3>2
      <3> QED  BY <1>3, <1>6, <3>1, <3>2
    <2>2. /\ Flushed >= 0
          /\ WholeLines(file) = start + Flushed
          /\ Torn(file) => continues /\ Flushed = 0
      BY <1>1, <1>2 DEF Buffered
    <2> QED  BY <1>1, <1>6, <2>1, <2>2 DEF Buffered
  <1>8. Filed'
    <2>1. ASSUME NEW n \in 1 .. Len(file) - start
          PROVE  IsFiled(n)'
      <3>1. IsFiled(n)
        BY <1>2 DEF Filed
      <3> QED  BY <1>1, <1>4, <1>6, <3>1 DEF IsFiled, Spoilt
    <2> QED  BY <1>1, <2>1 DEF Filed
  <1>9. TimesFiled'
    <2>1. ASSUME NEW t \in 1 .. Len(written'), written'[t].id = TimeId
          PROVE  start + t <= Len(file) /\ (Spoilt(t) \/ file[start + t] = Str(written'[t]))
      <3>1. t \in 1 .. Len(written)
        BY <1>4, <1>6, <2>1
      <3> QED  BY <1>2, <1>4, <2>1, <3>1 DEF TimesFiled
    <2> QED  BY <1>1, <2>1 DEF TimesFiled, Spoilt
  <1> QED  BY <1>5, <1>7, <1>8, <1>9 DEF TextInv

(***************************************************************************)
(* What the file becomes when some of the buffer's lines reach it: behind  *)
(* what was flushed before they stand in their places, but for the one     *)
(* that continues a torn line.                                             *)
(***************************************************************************)
LEMMA Arrives ==
  ASSUME TextInv, alive,
         NEW more, IsSeq(more), AllLines(more), more # <<>>,
         NEW r, r = AppendText(file, more)
  PROVE  /\ IsSeq(r) /\ AllLines(r)
         /\ Len(r) = start + Flushed + Len(more) /\ Len(r) >= Len(file)
         /\ \A n \in 1 .. Flushed : Spoilt(n) \/ r[start + n] = Str(written[n])
         /\ \A i \in 1 .. Len(more) : Spoilt(Flushed + i) \/ r[start + Flushed + i] = more[i]
         /\ Last(more[Len(more)]).sep = EndOfLine => ~Torn(r)
  <1>1. /\ IsSeq(file) /\ AllLines(file)
        /\ WholeLines(file) = start + Flushed
        /\ (Torn(file) => continues /\ Flushed = 0)
    BY DEF TextInv, TextsTyped, Buffered, AllLines
  <1>2. /\ Len(file) \in Nat /\ start \in Nat /\ Flushed \in Int /\ Flushed >= 0
        /\ Len(more) \in Nat \ {0}
    BY Lengths, SeqHeadTail DEF TextInv, Buffered
  <1>3. /\ IsSeq(r) /\ AllLines(r)
        /\ Len(r) = WholeLines(file) + Len(more)
        /\ (\A i \in 1 .. WholeLines(file) : r[i] = file[i])
        /\ (\A i \in 1 .. Len(more) : (i = 1 /\ Torn(file)) \/ r[WholeLines(file) + i] = more[i])
        /\ (Last(more[Len(more)]).sep = EndOfLine => ~Torn(r))
    <2>1. IsSeq(file) /\ AllLines(file)
      BY <1>1
    <2> QED  BY <2>1, Appended
  <1>4. Len(r) >= Len(file)
    <2>1. WholeLines(file) \in Nat /\ Len(file) <= WholeLines(file) + 1
      BY <1>1, <1>2, WholeCount
    <2>2. \A w, m, k \in Nat : m # 0 /\ k <= w + 1 => w + m >= k
      OBVIOUS
    <2>3. Len(r) = WholeLines(file) + Len(more)
      BY <1>3
    <2> QED  BY <1>2, <2>1, <2>2, <2>3
  <1>5. ASSUME NEW n \in 1 .. Flushed
        PROVE  Spoilt(n) \/ r[start + n] = Str(written[n])
    <2>1. start + n \in 1 .. WholeLines(file)
      BY <1>1, <1>2
    <2>2. r[start + n] = file[start + n]
      BY <1>3, <2>1
    <2> QED  BY <2>2, AliveWhole
  <1>6. ASSUME NEW i \in 1 .. Len(more)
        PROVE  Spoilt(Flushed + i) \/ r[start + Flushed + i] = more[i]
    <2>1. CASE i = 1 /\ Torn(file)
      <3>1. Flushed + i = 1 /\ continues
        BY <1>1, <2>1
      <3> QED  BY <3>1 DEF Spoilt
    <2>2. CASE r[WholeLines(file) + i] = more[i]
      BY <1>1, <2>2
    <2> QED  BY <1>3, <2>1, <2>2
  <1>7. Len(r) = start + Flushed + Len(more)
    BY <1>1, <1>3
  <1> QED  BY <1>3, <1>4, <1>5, <1>6, <1>7

\* The observation o is logged and with it all of the buffer.
LEMMA FlushedInv ==
  ASSUME TextInv, NEW o, Log(o), o.id = TimeId
  PROVE  TextInv'
  <1> DEFINE more == Append(buffer, Str(o))
  <1>1. /\ alive /\ file' = AppendText(file, more) /\ buffer' = <<>>
        /\ written' = Append(written, o)
        /\ UNCHANGED <<alive, start, continues>>
    BY DEF Log
  <1>2. TextsTyped /\ Buffered /\ IsSeq(buffer) /\ IsSeq(written)
    BY DEF TextInv, TextsTyped
  <1>3. /\ IsSeq(more) /\ Len(more) = Len(buffer) + 1
        /\ (\A i \in 1 .. Len(buffer) : more[i] = buffer[i])
        /\ more[Len(buffer) + 1] = Str(o)
    BY <1>2, SeqAppend
  <1> HIDE DEF more
  <1>4. /\ IsSeq(written') /\ Len(written') = Len(written) + 1
        /\ (\A i \in 1 .. Len(written) : written'[i] = written[i])
        /\ written'[Len(written) + 1] = o
    BY <1>1, <1>2, SeqAppend
  <1>5. /\ Flushed \in Int /\ Flushed >= 0 /\ Len(written) = Flushed + Len(buffer)
        /\ Len(buffer) \in Nat /\ Len(written) \in Nat
        /\ start \in Nat /\ Len(file) \in Nat /\ start <= Len(file)
    BY <1>1, <1>2, Lengths DEF Buffered
  <1>6. ASSUME NEW i \in 1 .. Len(more)
        PROVE  more[i] = Str(written'[Flushed + i])
    <2>1. CASE i \in 1 .. Len(buffer)
      <3>1. Flushed + i \in 1 .. Len(written)
        BY <1>5, <2>1
      <3> QED  BY <1>1, <1>2, <1>3, <1>4, <2>1, <3>1 DEF Buffered
    <2>2. CASE i = Len(buffer) + 1
      BY <1>3, <1>4, <1>5, <2>2
    <2> QED  BY <1>3, <1>5, <2>1, <2>2
  <1>7. AllLines(more) /\ more # <<>> /\ Last(more[Len(more)]).sep = EndOfLine
    <2>1. more # <<>>
      BY <1>3, <1>5, NothingIsSeq
    <2>2. AllLines(more)
      BY <1>6, StrPieces DEF AllLines
    <2>3. more[Len(more)] = Str(o)
      BY <1>3
    <2> QED  BY <2>1, <2>2, <2>3, StrPieces
  <1>8. /\ IsSeq(file') /\ AllLines(file')
        /\ Len(file') = start + Flushed + Len(more) /\ Len(file') >= Len(file)
        /\ (\A n \in 1 .. Flushed : Spoilt(n) \/ file'[start + n] = Str(written[n]))
        /\ (\A i \in 1 .. Len(more) : Spoilt(Flushed + i) \/ file'[start + Flushed + i] = more[i])
        /\ ~Torn(file')
    BY <1>1, <1>3, <1>7, Arrives
  <1>9. /\ Len(file') \in Nat /\ Len(file') = start + Len(written')
        /\ Len(buffer') = 0 /\ IsSeq(buffer')
    BY <1>1, <1>3, <1>4, <1>5, <1>8, NothingIsSeq
  <1>10. TextsTyped'
    BY <1>1, <1>2, <1>4, <1>5, <1>8, <1>9 DEF TextsTyped, AllLines
  <1>11. Buffered'
    <2>1. Flushed' = Len(written')
      BY <1>4, <1>5, <1>9 DEF Flushed
    <2>2. WholeLines(file') = Len(file')
      BY <1>8, WholeCount
    <2>3. \A n \in 1 .. Len(buffer') : FALSE
      BY <1>9
    <2> QED  BY <1>1, <1>4, <1>5, <1>8, <1>9, <2>1, <2>2, <2>3 DEF Buffered
  <1>12. ASSUME NEW n \in 1 .. Len(written')
         PROVE  Spoilt(n) \/ file'[start + n] = Str(written'[n])
    <2>1. CASE n \in 1 .. Flushed
      <3>1. n \in 1 .. Len(written)
        BY <1>5, <2>1
      <3> QED  BY <1>4, <1>8, <2>1, <3>1
    <2>2. CASE n > Flushed
      <3>1. n - Flushed \in 1 .. Len(more) /\ Flushed + (n - Flushed) = n
            /\ start + Flushed + (n - Flushed) = start + n
        BY <1>3, <1>4, <1>5, <2>2
      <3> QED  BY <1>6, <1>8, <3>1
    <2> QED  BY <1>4, <1>5, <2>1, <2>2
  <1>14. Filed'
    <2>1. Len(file') - start' = Len(written')
      BY <1>1, <1>4, <1>5, <1>9
    <2> QED  BY <1>1, <1>12, <2>1 DEF Filed, IsFiled, Spoilt
  <1>15. TimesFiled'
    <2>1. \A t \in 1 .. Len(written') : start + t <= Len(file')
      BY <1>4, <1>5, <1>9
    <2> QED  BY <1>1, <1>12, <2>1 DEF TimesFiled, Spoilt
  <1> QED  BY <1>10, <1>11, <1>14, <1>15 DEF TextInv

\* A killed process leaves any cut of its buffer.
LEMMA KillInv ==
  ASSUME TextInv, Kill
  PROVE  TextInv'
  <1>1. PICK cut \in Cuts(buffer) :
          /\ alive /\ alive' = FALSE /\ file' = AppendText(file, cut) /\ buffer' = <<>>
          /\ UNCHANGED <<written, start, continues>>
    BY DEF Kill
  <1>2. TextsTyped /\ Buffered /\ Filed /\ TimesFiled
        /\ IsSeq(buffer) /\ IsSeq(written) /\ IsSeq(file)
    BY DEF TextInv, TextsTyped
  <1>3. /\ Flushed \in Int /\ Flushed >= 0 /\ Len(written) = Flushed + Len(buffer)
        /\ Len(buffer) \in Nat /\ Len(written) \in Nat
        /\ start \in Nat /\ Len(file) \in Nat /\ start <= Len(file)
    BY <1>1, <1>2, Lengths DEF Buffered
  <1>4. IsCut(cut, buffer)
    BY <1>2, CutText
  <1>5. ASSUME NEW i \in 1 .. Len(cut)
        PROVE  /\ Flushed + i \in 1 .. Len(written)
               /\ \/ cut[i] = Str(written[Flushed + i])
                  \/ i = Len(cut) /\ cut[i] \in Parts(Str(written[Flushed + i]))
    <2>1. i \in 1 .. Len(buffer) /\ Flushed + i \in 1 .. Len(written)
      BY <1>3, <1>4 DEF IsCut, IsSeq
    <2>2. buffer[i] = Str(written[Flushed + i])
      BY <1>1, <1>2, <2>1 DEF Buffered
    <2> QED  BY <1>4, <2>1, <2>2 DEF IsCut
  <1>6. AllLines(cut)
    <2>1. ASSUME NEW i \in 1 .. Len(cut)
          PROVE  IsLine(cut[i])
      BY <1>5, StrPieces, PartLine
    <2> QED  BY <2>1 DEF AllLines
  <1>7. IsSeq(buffer') /\ buffer' = <<>>
    BY <1>1, NothingIsSeq
  <1>8. CASE cut = <<>>
    <2>1. file' = file
      <3>1. file' = file \o <<>>
        BY <1>1, <1>8 DEF AppendText
      <3> QED  BY <1>2, <3>1 DEF IsSeq
    <2>2. TextsTyped'
      BY <1>1, <1>2, <1>7, <2>1 DEF TextsTyped
    <2>3. Buffered'
      BY <1>1 DEF Buffered
    <2>4. Filed'
      <3>1. ASSUME NEW n \in 1 .. Len(file) - start
            PROVE  IsFiled(n)'
        <4>1. IsFiled(n)
          BY <1>2 DEF Filed
        <4> QED  BY <1>1, <2>1, <4>1 DEF IsFiled, Spoilt
      <3> QED  BY <1>1, <2>1, <3>1 DEF Filed
    <2>5. TimesFiled'
      BY <1>1, <1>2, <2>1 DEF TimesFiled, Spoilt
    <2> QED  BY <2>2, <2>3, <2>4, <2>5 DEF TextInv
  <1>9. CASE cut # <<>>
    <2>1. /\ IsSeq(file') /\ AllLines(file')
          /\ Len(file') = start + Flushed + Len(cut) /\ Len(file') >= Len(file)
          /\ (\A n \in 1 .. Flushed : Spoilt(n) \/ file'[start + n] = Str(written[n]))
          /\ \A i \in 1 .. Len(cut) : Spoilt(Flushed + i) \/ file'[start + Flushed + i] = cut[i]
      <3>1. IsSeq(cut)
        BY <1>4 DEF IsCut
      <3> QED  BY <1>1, <1>6, <1>9, <3>1, Arrives
    <2>2. Len(cut) \in Nat \ {0} /\ Len(file') \in Nat
      BY <1>4, <1>9, <2>1, SeqHeadTail DEF IsCut, IsSeq
    <2>3. TextsTyped'
      <3>1. start \in 0 .. Len(file')
        BY <1>3, <2>1, <2>2
      <3>2. \A l \in 1 .. Len(file') : IsLine(file'[l])
        BY <2>1 DEF AllLines
      <3> QED  BY <1>1, <1>2, <1>7, <2>1, <3>1, <3>2 DEF TextsTyped
    <2>4. Buffered'
      BY <1>1 DEF Buffered
    <2>5. ASSUME NEW n \in 1 .. Len(file') - start
          PROVE  \/ Spoilt(n)
                 \/ /\ n \in 1 .. Len(written)
                    /\ \/ file'[start + n] = Str(written[n])
                       \/ /\ start + n = Len(file')
                          /\ file'[start + n] \in Parts(Str(written[n]))
      <3>1. CASE n \in 1 .. Flushed
        BY <1>3, <2>1, <3>1
      <3>2. CASE n > Flushed
        <4> DEFINE i == n - Flushed
        <4>1. i \in 1 .. Len(cut) /\ Flushed + i = n /\ start + Flushed + i = start + n
              /\ (i = Len(cut) => start + n = Len(file'))
          BY <1>3, <2>1, <2>2, <3>2
        <4> HIDE DEF i
        <4> QED  BY <1>5, <2>1, <4>1
      <3> QED  BY <1>3, <2>2, <3>1, <3>2
    <2>6. Filed'
      BY <1>1, <2>5 DEF Filed, IsFiled, Spoilt
    <2>7. ASSUME NEW t \in 1 .. Len(written), written[t].id = TimeId
          PROVE  start + t <= Len(file') /\ (Spoilt(t) \/ file'[start + t] = Str(written[t]))
      <3>1. start + t <= Len(file)
        BY <1>2, <2>7 DEF TimesFiled
      <3>2. CASE t \in 1 .. Flushed
        BY <1>3, <2>1, <2>2, <3>1, <3>2
      <3>3. CASE t > Flushed
        <4>1. WholeLines(file) = start + Flushed /\ (Torn(file) => continues /\ Flushed = 0)
          BY <1>1, <1>2 DEF Buffered
        <4>2. Torn(file) /\ Len(file) = WholeLines(file) + 1
          BY <1>2, <1>3, <3>1, <3>3, <4>1, WholeCount
        <4>3. continues /\ t = 1
          BY <1>3, <3>1, <3>3, <4>1, <4>2
        <4> QED  BY <1>3, <2>1, <2>2, <3>1, <4>3 DEF Spoilt
      <3> QED  BY <1>3, <3>2, <3>3
    <2>8. TimesFiled'
      BY <1>1, <2>7 DEF TimesFiled, Spoilt
    <2> QED  BY <2>3, <2>4, <2>6, <2>8 DEF TextInv
  <1> QED  BY <1>8, <1>9

\* The next process finds the file, and perhaps a torn line at its end.
LEMMA BootInv ==
  ASSUME TextInv, Boot
  PROVE  TextInv'
  <1>1. /\ ~alive /\ alive' = TRUE /\ written' = <<>> /\ continues' = Torn(file)
        /\ start' = WholeLines(file) /\ UNCHANGED <<file, buffer>>
    BY DEF Boot
  <1>2. TextsTyped /\ buffer = <<>> /\ IsSeq(file) /\ Len(file) \in Nat
    BY <1>1, Lengths DEF TextInv, TextsTyped, Buffered
  <1>3. IsSeq(written') /\ Len(written') = 0 /\ Len(buffer) = 0
    BY <1>1, <1>2, NothingIsSeq
  <1>4. /\ WholeLines(file) \in 0 .. Len(file)
        /\ Torn(file) => Len(file) = WholeLines(file) + 1
        /\ ~Torn(file) => Len(file) = WholeLines(file)
    BY <1>2, WholeCount
  <1>5. TextsTyped'
    <2>1. Torn(file) \in BOOLEAN
      BY DEF Torn
    <2> QED  BY <1>1, <1>2, <1>3, <1>4, <2>1 DEF TextsTyped
  <1>6. Buffered'
    <2>1. Flushed' = 0
      BY <1>1, <1>3 DEF Flushed
    <2>2. WholeLines(file') = start'
      BY <1>1
    <2>3. \A n \in 1 .. Len(buffer') : FALSE
      BY <1>1, <1>3
    <2> QED  BY <1>1, <1>4, <2>1, <2>2, <2>3 DEF Buffered
  <1>7. Filed'
    <2>1. ASSUME NEW n \in 1 .. Len(file') - start'
          PROVE  n = 1 /\ continues'
      BY <1>1, <1>2, <1>4
    <2> QED  BY <2>1 DEF Filed, IsFiled, Spoilt
  <1>8. TimesFiled'
    <2>1. \A t \in 1 .. Len(written') : FALSE
      BY <1>3
    <2> QED  BY <2>1 DEF TimesFiled
  <1> QED  BY <1>5, <1>6, <1>7, <1>8 DEF TextInv

(***************************************************************************)
(* The invariant of the text: what is in the file and what is in the       *)
(* buffer are the lines of the observations logged, each in its place,     *)
(* whatever the numbers in them and however often the process is killed.   *)
(***************************************************************************)
THEOREM TextInvariant == Spec => []TextInv
  <1>1. Init => TextInv
    BY InitInv
  <1>2. TextInv /\ [Next]_vars => TextInv'
    <2> SUFFICES ASSUME TextInv, [Next]_vars PROVE TextInv'
      OBVIOUS
    <2>1. ASSUME NEW data \in Data, Log(FromJson(data))
          PROVE  TextInv'
      BY <2>1, BufferedInv, FlushedInv
    <2>2. CASE Kill
      BY <2>2, KillInv
    <2>3. CASE Boot
      BY <2>3, BootInv
    <2>4. CASE UNCHANGED vars
      BY <2>4, StutterInv
    <2> QED  BY <2>1, <2>2, <2>3, <2>4 DEF Next
  <1> QED  BY <1>1, <1>2, PTL DEF Spec

(***************************************************************************)
(* What a process leaves in the file reads back with the ids it logged, in *)
(* order; only a last line can be missing its id, and is then recognised,  *)
(* and only a first line can be spoilt by a torn one before it.            *)
(***************************************************************************)
THEOREM LinesReadBack == Spec => []IdsReadBack
  <1>1. TextInv => IdsReadBack
    <2> SUFFICES ASSUME TextInv, NEW n \in 1 .. Len(file) - start, ~Spoilt(n)
                 PROVE  /\ n \in DOMAIN written
                        /\ \/ ReadBack[start + n].id = written[n].id
                           \/ /\ start + n = Len(file)
                              /\ ~IsUngarbled(ReadBack[start + n])
      BY DEF IdsReadBack
    <2>1. /\ n \in 1 .. Len(written)
          /\ \/ file[start + n] = Str(written[n])
             \/ /\ start + n = Len(file)
                /\ file[start + n] \in Parts(Str(written[n]))
      BY DEF TextInv, Filed, IsFiled
    <2>2. start + n \in 1 .. Len(file) /\ DOMAIN file = 1 .. Len(file) /\ DOMAIN written = 1 .. Len(written)
      BY Lengths DEF TextInv, TextsTyped, IsSeq
    <2>3. ReadBack[start + n] = FromLine(file[start + n])
      BY <2>2 DEF ReadBack
    <2> QED  BY <2>1, <2>2, <2>3, WholeReadBack, PartReadBack DEF IsUngarbled
  <1> QED  BY <1>1, TextInvariant, PTL

(***************************************************************************)
(* A kill loses and garbles nothing of what a process logged up to its     *)
(* last time: all of it reads back, but for a spoilt first line.           *)
(***************************************************************************)
THEOREM NothingLostUpToATime == Spec => []TimesReadBack
  <1>1. TextInv => TimesReadBack
    <2> SUFFICES ASSUME TextInv,
                        NEW t \in DOMAIN written, written[t].id = TimeId, NEW n \in 1 .. t
                 PROVE  /\ start + n <= Len(file)
                        /\ Spoilt(n) \/ ReadBack[start + n].id = written[n].id
      BY DEF TimesReadBack
    <2>1. /\ DOMAIN file = 1 .. Len(file) /\ DOMAIN written = 1 .. Len(written)
          /\ Len(file) \in Nat /\ Len(written) \in Nat /\ start \in Nat
      BY Lengths DEF TextInv, TextsTyped, IsSeq
    <2>2. start + t <= Len(file) /\ (Spoilt(t) \/ file[start + t] = Str(written[t]))
      BY <2>1 DEF TextInv, TimesFiled
    <2>3. start + n <= Len(file) /\ start + n \in 1 .. Len(file) /\ n \in 1 .. Len(file) - start
      BY <2>1, <2>2
    <2>4. Spoilt(n) \/ file[start + n] = Str(written[n])
      <3>1. CASE n = t
        BY <2>2, <3>1
      <3>2. CASE n # t
        <4>1. start + n # Len(file)
          <5>1. \A a, b, c, k \in Nat : a + b <= k /\ c <= b /\ c # b => a + c # k
            OBVIOUS
          <5>2. t \in Nat /\ n \in Nat /\ n <= t /\ start + t <= Len(file)
            BY <2>1, <2>2
          <5> QED  BY <2>1, <3>2, <5>1, <5>2
        <4>2. IsFiled(n)
          BY <2>3 DEF TextInv, Filed
        <4> QED  BY <4>1, <4>2 DEF IsFiled
      <3> QED  BY <3>1, <3>2
    <2>5. ReadBack[start + n] = FromLine(file[start + n])
      BY <2>1, <2>3 DEF ReadBack
    <2> QED  BY <2>3, <2>4, <2>5, WholeReadBack
  <1> QED  BY <1>1, TextInvariant, PTL
=============================================================================
