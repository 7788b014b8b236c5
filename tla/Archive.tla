------------------------------ MODULE Archive ------------------------------
(***************************************************************************)
(* What the log files promise their reader: lines are only ever added at   *)
(* the end of a file, and when a process dies a file may lose its last     *)
(* lines, but never a precious line nor anything written before one.       *)
(***************************************************************************)
EXTENDS Integers, Sequences

CONSTANTS File, Line, Precious

VARIABLE log

Prefix(s, t) == Len(s) <= Len(t) /\ SubSeq(t, 1, Len(s)) = s

Init == log = [f \in File |-> <<>>]

Record ==
    /\ log' \in [File -> Seq(Line)]
    /\ \A f \in File : Prefix(log[f], log'[f])

Lose ==
    /\ log' \in [File -> Seq(Line)]
    /\ \A f \in File :
          /\ Prefix(log'[f], log[f])
          /\ \A i \in Len(log'[f]) + 1 .. Len(log[f]) : log[f][i] \notin Precious

Next == Record \/ Lose

Spec == Init /\ [][Next]_log
=============================================================================
