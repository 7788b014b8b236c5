--------------------------- MODULE LoggerHistory ---------------------------
(***************************************************************************)
(* H5000Logger with a history variable: for every item column, the reading *)
(* reported last in the current interval, that is, since the process       *)
(* started or last cleared its observations.  The variable is not part of  *)
(* the program; it lets the contents of a row be compared with what the    *)
(* H5000 CPU reported in the interval the row stands for.                  *)
(***************************************************************************)
EXTENDS H5000Logger

VARIABLE latest

hvars == <<vars, latest>>

NothingReported == [c \in ItemId |-> Blank]

HInit == Init /\ latest = NothingReported

\* Steps that begin a new interval.
BeginsInterval ==
    \/ \E ob \in Observation :
          \/ \E opened \in BOOLEAN : DateStartsFiles(ob, opened) \/ TimeStartsFiles(ob, opened)
          \/ TimeStartsRow(ob)
          \/ CsvOpenFails(ob)
          \/ FlatOpenFails(ob)
    \/ Exit
    \/ Kill

HNext ==
    \/ BeginsInterval /\ latest' = NothingReported
    \/ \E ob \in Observation :
          ItemStored(ob) /\ latest' = [latest EXCEPT ![ob.id] = ob.val]
    \/ /\ \E ob \in Observation : DateStored(ob) \/ TimeStored(ob) \/ OnlyLoggedFlat(ob)
       /\ UNCHANGED latest
    \/ Boot /\ UNCHANGED latest

HSpec == HInit /\ [][HNext]_hvars

-----------------------------------------------------------------------------
(* Properties *)

\* What a step appends to the CSV files, as <<file, line>> pairs.
Appended ==
    UNION {{<<f, csv'.lines[f][i]>> : i \in Len(csv.lines[f]) + 1 .. Len(csv'.lines[f])} :
           f \in Day}

NewRows == {line \in {p[2] : p \in Appended} : IsRow(line)}

(***************************************************************************)
(* The cell of an item in a new row is the reading reported last in the    *)
(* interval; if none was reported it is blank or 0.  No reading is lost,   *)
(* and none is carried into a later interval.  (ProcessObservation's       *)
(* default case, Clear, NewTime and NewDate together.)                     *)
(***************************************************************************)
RowHoldsInterval ==
    [][\A row \in NewRows : \A c \in ItemId :
          IF latest[c] # Blank THEN row[c] = latest[c] ELSE row[c] \in {Blank, 0}]_hvars

(***************************************************************************)
(* The invariant behind it: m_observations holds the interval's last       *)
(* reading of every item, and 0 for the items nothing was reported of,     *)
(* whatever Clear, NewDate, NewTime and a restart have done to it.         *)
(***************************************************************************)
LatestStored ==
    /\ latest \in [ItemId -> Int \cup {Blank}]
    /\ \A c \in ItemId :
          IF latest[c] = Blank THEN obs[c] = 0 ELSE seen[c] /\ obs[c] = latest[c]

(***************************************************************************)
(* Clear (h5000-logger-class.cpp:550-552) says that intermittent values    *)
(* are dropped and not carried forward: an item nothing was reported of in *)
(* the interval has an empty cell.  Not so: Clear zeroes the values but    *)
(* leaves m_obsSeen, so that once seen an item is written as 0.            *)
(***************************************************************************)
UnreportedIsBlank ==
    [][\A row \in NewRows : \A c \in ItemId : latest[c] = Blank => row[c] = Blank]_hvars

(***************************************************************************)
(* NewTime (h5000-logger-class.cpp:507-509) says that the observations are *)
(* written identified with the old timestamp.  Not so: case 35 has stored  *)
(* the new time before it calls NewTime.                                   *)
(***************************************************************************)
RowHasOldTimestamp ==
    [][raw # 0 => \A row \in NewRows : TicksToSeconds(row[TimeId]) = raw]_hvars

(***************************************************************************)
(* BgCsvWriter (bg-csv-writer-class.cpp:66-69) says that UTC date triggers *)
(* a new output file: a row is in the file of the date it carries.  Not    *)
(* so: a later date is stored, and its rows go to the first date's file.   *)
(***************************************************************************)
RowInFileOfItsDate ==
    \A f \in Day : \A i \in 1 .. Len(csv.lines[f]) :
        LET line == csv.lines[f][i]
        IN  IsRow(line) => MakeFileName(line[DateId]) = f

(***************************************************************************)
(* BgCsvWriter (bg-csv-writer-class.cpp:66-69) says that a time more than  *)
(* 1.5 seconds after the last one begins a new collection of observations. *)
(* Not so after midnight: a time of the next day is compared with the time *)
(* of day of the last row and is ignored until it exceeds it.              *)
(***************************************************************************)
LaterTimeWritesRow ==
    [][\A ob \in Observation :
          /\ TimeStored(ob)
          /\ raw # 0
          /\ csv.file # NoFile
          /\ IsRow(csv.lines[csv.file][Len(csv.lines[csv.file])])
          => LET last == csv.lines[csv.file][Len(csv.lines[csv.file])]
             IN  obs[DateId] * DayTicks + ob.val <= last[Utc] + 3]_hvars

\* A row without a time in its Utc column.
Untimed(line) == IsRow(line) /\ line[Utc] = Blank

\* In every file such a row is followed by headings, if by anything.
UntimedEndsBlock(w) ==
    \A f \in Day : \A i \in 1 .. Len(w.lines[f]) - 1 :
        Untimed(w.lines[f][i]) => w.lines[f][i + 1] = Header

\* The open file does not end in such a row.
EndsTimed(w) ==
    w.file # NoFile =>
        LET lines == w.lines[w.file]
        IN  lines # <<>> /\ ~Untimed(lines[Len(lines)])

\* Such rows end their blocks, and the open file does not end in one.
Blocks(w) == UntimedEndsBlock(w) /\ EndsTimed(w)

(***************************************************************************)
(* The use case (docs/USE-CASE.md:37) asks for a row for each timestamp,   *)
(* but a second call of NewDate writes a row that has none in its Utc      *)
(* column: a date starts the files while a time is seen but not tracked,   *)
(* and the next time, or the same midnight, starts them again.  The damage *)
(* is bounded: such a row ends what stands under its headings, as the      *)
(* headings repeated by the same NewDate, or those of the next process,    *)
(* follow it at once: the open file never ends in such a row.              *)
(***************************************************************************)
UntimedRowBeforeHeadings == Blocks(csv)
=============================================================================
