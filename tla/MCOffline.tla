----------------------------- MODULE MCOffline -----------------------------
(***************************************************************************)
(* Logs for TLC: what a live logger has written of up to three of a date,  *)
(* two times, a mapped and an unmapped item, and every torn piece of each, *)
(* also those torn within dampedVal, which have all their numbers.         *)
(***************************************************************************)
EXTENDS Offline

MCDateId == 34
MCTimeId == 35
Depth == 41
Unmapped == 99

Line(i, v) == FromJson([id |-> i, valid |-> TRUE, val |-> Whole(v), inst |-> 0])

MCLogged ==
    {Line(MCDateId, 2459580), Line(MCTimeId, 512), Line(MCTimeId, 517), Line(Unmapped, 3),
     FromJson([id |-> Depth, valid |-> TRUE, val |-> [whole |-> 12, frac |-> 5],
               dampedVal |-> [whole |-> 13, frac |-> 25], inst |-> 1])}

LogOf(s) == [l \in DOMAIN s |-> Str(s[l])]

Logs(n) == {LogOf(s) : s \in [1 .. n -> MCLogged]}

\* Whole logs of up to four lines, and all torn logs of up to three.
MCInputLog ==
    UNION {Logs(n) : n \in 0 .. 4}
        \cup UNION {{Append(t, part) : part \in UNION {Parts(Str(o)) : o \in MCLogged}} : t \in Logs(2)}

MCShortLog == Logs(3)

\* What val can be read as: the instance, or 0.
MCJulianDate == {0}
MCTickOfDay == {0}
MCReading == {0, 1}
\* The ids of the log, -1 of a line that cannot be read, and what a cut makes of an id.
MCOtherId == {Depth, Unmapped, -1} \cup {0, 3, 4, 9}
OfflineFlags == {[csv |-> TRUE, flat |-> FALSE]}
=============================================================================
