----------------------------- MODULE FlatFormat -----------------------------
(***************************************************************************)
(* BgObservation (src/bg-observation-class.cpp): an observation from the   *)
(* JSON of a message, its line in the flat log, and back from such a line. *)
(*                                                                         *)
(* A number is its whole part and the digits behind the point, both read   *)
(* as naturals.  A line is a sequence of pieces, a run of digits and what  *)
(* follows it: a comma, a point, the end of the line, or nothing (End)     *)
(* where the text breaks off.  A text is the sequence of its lines, as     *)
(* fgets cuts them; only the last can be without its end.                  *)
(***************************************************************************)
EXTENDS Integers, SequencesExt

Comma == ","
Point == "."
EndOfLine == "eol"
End == "end"

NoFraction == -1

Whole(n) == [whole |-> n, frac |-> NoFraction]

Piece(n, sep) == [num |-> n, sep |-> sep]

-----------------------------------------------------------------------------
(* From JSON *)

IsMember(data, name) == name \in DOMAIN data

\* A member that may be absent keeps the value the constructor gave it.
Member(data, name, initial) == IF IsMember(data, name) THEN data[name] ELSE initial

\* `id' and `valid' are not asked for, but an absent one reads as 0 or false.
FromJson(data) ==
    [id        |-> Member(data, "id", 0),
     valid     |-> Member(data, "valid", FALSE),
     val       |-> Member(data, "val", Whole(0)),
     sysVal    |-> Member(data, "sysVal", Whole(0)),
     dampedVal |-> Member(data, "dampedVal", Whole(0)),
     inst      |-> Member(data, "inst", 0),
     damped    |-> Member(data, "damped", FALSE)]

-----------------------------------------------------------------------------
(* To a line *)

\* A bool is written as 1 or 0.
Bit(b) == IF b THEN 1 ELSE 0

Put(number, sep) ==
    IF number.frac = NoFraction
    THEN <<Piece(number.whole, sep)>>
    ELSE <<Piece(number.whole, Point), Piece(number.frac, sep)>>

Str(o) ==
    Put(Whole(o.id), Comma) \o Put(Whole(Bit(o.valid)), Comma)
        \o Put(Whole(o.inst), Comma) \o Put(Whole(Bit(o.damped)), Comma)
        \o Put(o.val, Comma) \o Put(o.sysVal, Comma) \o Put(o.dampedVal, EndOfLine)

-----------------------------------------------------------------------------
(* From a line *)

\* The constructor reads id, valid, val, sysVal, dampedVal, inst and damped, in
\* this order; the third to the fifth with stod, the others with stoul.
Fields == 1 .. 7

Doubles == 3 .. 5

\* A stod at piece p reads past a point; a stoul stops there.
ReadsFraction(line, p) == p < Len(line) /\ line[p].sep = Point

AfterDouble(line, p) == IF ReadsFraction(line, p) THEN p + 2 ELSE p + 1

\* Where each field is read: behind the previous number and one character.
Start(line) ==
    LET sysVal == AfterDouble(line, 3)
        dampedVal == AfterDouble(line, sysVal)
        inst == AfterDouble(line, dampedVal)
    IN  <<1, 2, 3, sysVal, dampedVal, inst, inst + 1>>

Readable(line, k) == Start(line)[k] <= Len(line)

\* The k-th number; 0, as initialised, from the field on where reading throws.
NumberAt(line, k) ==
    LET p == Start(line)[k]
    IN  IF ~Readable(line, k)
        THEN Whole(0)
        ELSE [whole |-> line[p].num,
              frac  |-> IF k \in Doubles /\ ReadsFraction(line, p)
                        THEN line[p + 1].num ELSE NoFraction]

\* No conversion throws: there is a number for each of the fields.
Ungarbled(line) == \A k \in Fields : Readable(line, k)

\* Mutant of ObservedId: the handler only withdraws `valid'.
KeptId(line) == NumberAt(line, 1).whole

\* The exception handler marks a garbled line with id -1, and as invalid.
ObservedId(line) == IF Ungarbled(line) THEN NumberAt(line, 1).whole ELSE -1

FromLine(line) ==
    [id        |-> ObservedId(line),
     valid     |-> Ungarbled(line) /\ NumberAt(line, 2).whole = 1,
     val       |-> NumberAt(line, 3),
     sysVal    |-> NumberAt(line, 4),
     dampedVal |-> NumberAt(line, 5),
     inst      |-> NumberAt(line, 6).whole,
     damped    |-> NumberAt(line, 7).whole = 1]

-----------------------------------------------------------------------------
(* Texts, and what a process that is killed leaves of them *)

Torn(text) == text # <<>> /\ Last(Last(text)).sep # EndOfLine

\* The numbers that the first digits of n make.
Leading(n) == {n \div 10 ^ j : j \in {k \in 0 .. 9 : k = 0 \/ 10 ^ k <= n}}

\* The line cut behind any of its characters but the last.
Parts(line) ==
    {SubSeq(line, 1, k) : k \in 1 .. Len(line) - 1}
        \cup UNION {{Append(SubSeq(line, 1, k), Piece(n, End)) : n \in Leading(line[k + 1].num)}
                   : k \in 0 .. Len(line) - 1}

\* The text cut behind any of its characters, or before the first.
Cuts(text) ==
    {SubSeq(text, 1, k) : k \in 0 .. Len(text)}
        \cup UNION {{Append(SubSeq(text, 1, k), part) : part \in Parts(text[k + 1])}
                   : k \in 0 .. Len(text) - 1}

Digits(n) == CHOOSE d \in 1 .. 10 : n < 10 ^ d /\ (d = 1 \/ n >= 10 ^ (d - 1))

\* The line that more text makes of one that breaks off, also within a number.
Continued(line, next) ==
    IF Last(line).sep # End
    THEN line \o next
    ELSE LET a == Last(line).num
             b == Head(next).num
         IN  Front(line) \o <<Piece(a * 10 ^ Digits(b) + b, Head(next).sep)>> \o Tail(next)

AppendText(text, more) ==
    IF Torn(text) /\ more # <<>>
    THEN Front(text) \o <<Continued(Last(text), Head(more))>> \o Tail(more)
    ELSE text \o more
=============================================================================
