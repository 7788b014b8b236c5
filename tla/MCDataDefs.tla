----------------------------- MODULE MCDataDefs ----------------------------
(***************************************************************************)
(* Definitions for TLC: three data ids and an item without one, in columns *)
(* 1 to 4 of 4, with headings of one, two and three characters; items that *)
(* are not asked for, by an absent or a false flag, or lack a member.      *)
(***************************************************************************)
EXTENDS DataDefs

MCCharacter == {"A", "B", "C", "D", "N", "R", "T", "U", "c", "m", "t"}

MCDefinition ==
    {[CsvTrack |-> TRUE, CsvHeader |-> <<"B">>, CsvColumn |-> 1, ID |-> 41],
     [CsvTrack |-> TRUE, CsvHeader |-> <<"U", "t", "c">>, CsvColumn |-> 2],
     [CsvTrack |-> FALSE, CsvRequired |-> TRUE, CsvHeader |-> <<"T", "m">>, CsvColumn |-> 3, ID |-> 35],
     [CsvRequired |-> TRUE, CsvHeader |-> <<"D", "t">>, CsvColumn |-> 4, ID |-> 34],
     [CsvTrack |-> TRUE, CsvHeader |-> <<"A">>, CsvColumn |-> 3, ID |-> 41],
     [CsvTrack |-> TRUE, CsvHeader |-> <<"N", "C">>, ID |-> 34],
     [CsvRequired |-> FALSE, CsvHeader |-> <<"N", "R">>, CsvColumn |-> 4, ID |-> 35],
     [CsvTrack |-> TRUE, CsvColumn |-> 4, ID |-> 35]}
=============================================================================
