------------------------------- MODULE MCLive ------------------------------
(***************************************************************************)
(* Messages for TLC: a date, times more and less than 1.5 seconds apart    *)
(* with a reading in the same message, an invalid date, a reading without  *)
(* a value, several messages in one, and one of another kind.              *)
(***************************************************************************)
EXTENDS LiveLogger

MCDateId == 34
MCTimeId == 35
Depth == 41
Unmapped == 99

Valid(i, v) == [id |-> i, valid |-> TRUE, val |-> v]

DateMessage == [Data |-> <<Valid(MCDateId, 2459580)>>]

MCMessage ==
    {DateMessage,
     [Data |-> <<Valid(MCTimeId, 3), Valid(Depth, 7)>>],
     [Data |-> <<Valid(MCTimeId, 10)>>],
     [Data |-> <<[id |-> MCDateId, valid |-> FALSE], [id |-> Depth, valid |-> TRUE],
                 Valid(Unmapped, 7)>>],
     [Many |-> <<DateMessage>>],
     [DataInfo |-> <<>>]}

MCShortMessage ==
    {DateMessage, [Data |-> <<Valid(MCTimeId, 3), Valid(Depth, 7)>>], [Data |-> <<Valid(MCTimeId, 10)>>]}

MCJulianDate == {2459580}
MCTickOfDay == {3, 10}
MCReading == {0, 7}
MCOtherId == {Depth, Unmapped}
MCMapped == {MCDateId, MCTimeId, Depth}
AnyFlags == [csv : BOOLEAN, flat : BOOLEAN]
BothLogs == {[csv |-> TRUE, flat |-> TRUE]}
=============================================================================
