--------------------------- MODULE MCLoggerHistory --------------------------
(***************************************************************************)
(* Values of the constants of LoggerHistory for TLC: two days, five times  *)
(* of a day of twelve ticks (midnight, one exactly 1.5 seconds after       *)
(* another, odd ticks that the code truncates), one item with and one      *)
(* without a CSV column.                                                   *)
(***************************************************************************)
EXTENDS LoggerHistory

MCJulianDate == {2459580, 2459581}
MCTickOfDay == {0, 3, 5, 7, 10}
MCAfternoon == {3, 5, 7, 10}
MCReading == {7, 8}
MCOneReading == {7}
CsvOnly == {[csv |-> TRUE, flat |-> FALSE]}
AnyFlags == [csv : BOOLEAN, flat : BOOLEAN]

\* Bound: observations in a behaviour with a flat log.
MaxFlatObs == 4

\* More observations: as long as MaxFlatObs allows, and without a flat log as
\* long as MaxObs does.
MayArrive ==
    \/ nobs < MaxFlatObs
    \/ flags \in CsvOnly /\ \A f \in DOMAIN flat.lines : flat.lines[f] = <<>>

BoundedNext ==
    \/ MayArrive /\ HNext
    \/ ~MayArrive /\ (Exit \/ Kill) /\ latest' = NothingReported
    \/ ~MayArrive /\ Boot /\ UNCHANGED latest

BoundedSpec == HInit /\ [][BoundedNext]_hvars
=============================================================================
