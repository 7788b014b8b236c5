---------------------------- MODULE H5000Logger ----------------------------
(***************************************************************************)
(* The core of H5000Logger (src/h5000-logger-class.cpp): what one observed *)
(* data item does to the accumulated observations and to the two logs.     *)
(*                                                                         *)
(* A process runs in live mode and is given a stream of valid observations *)
(* by the H5000 CPU, in any order.  UTC date (id 34) and UTC time (id 35)  *)
(* drive the logs: together they open the dated files, and a later time    *)
(* closes a row of the CSV file.  The process may end at any moment and be *)
(* started again; only the files outlive it.                               *)
(*                                                                         *)
(* Units.  Times are in ticks of half a second since midnight, so that the *)
(* code's threshold of 1.5 seconds and its truncations to whole seconds    *)
(* are exact; dates are whole days.                                        *)
(***************************************************************************)
EXTENDS Integers, Sequences

CONSTANTS
    DateId, TimeId,   \* data ids 34 and 35
    OtherId,          \* every other data id the CPU may send
    Mapped,           \* the ids with a CSV column (domain of m_bgToCsvMap)
    Boat, Utc,        \* the two columns the logger itself fills in
    JulianDate,       \* values of UTC date observations: Julian day numbers
    TickOfDay,        \* values of UTC time observations
    Reading,          \* values of all other observations
    CommandLine,      \* the flag combinations a process may be started with
    DayTicks,         \* ticks in a day: 24 * 60 * 60 * 2
    Header,           \* the line of CSV column headings
    Blank,            \* an empty cell of a CSV row
    NoFile,           \* the NULL FILE pointer
    EarlyLog,         \* flatlog.log
    MaxObs,           \* bound: observations in a behaviour
    MaxBoots          \* bound: processes started in a behaviour

DataId == {DateId, TimeId} \cup OtherId

ItemId == OtherId \cap Mapped

Column == Mapped \cup {Boat, Utc}

\* What the names and values of ids, columns, dates and files must be.
LoggerConstants ==
    /\ Mapped \subseteq DataId
    /\ -1 \notin Mapped      \* the id that marks a line that cannot be read
    /\ DateId # TimeId /\ Boat # Utc
    /\ DateId \notin OtherId /\ TimeId \notin OtherId
    /\ Boat \notin DataId /\ Utc \notin DataId
    /\ JulianDate \subseteq Nat /\ TickOfDay \subseteq Nat /\ Reading \subseteq Int
    /\ CommandLine \subseteq [csv : BOOLEAN, flat : BOOLEAN]
    /\ DayTicks \in Nat
    /\ Blank \notin Int
    /\ EarlyLog \notin Int /\ NoFile \notin Int /\ NoFile # EarlyLog
    /\ MaxObs \in Nat /\ MaxBoots \in Nat

ASSUME ConstantsAssumption == LoggerConstants

Observation ==
    [id : {DateId}, val : JulianDate] \cup [id : {TimeId}, val : TickOfDay]
        \cup [id : OtherId, val : Reading]

Row == [Column -> Int \cup {Blank}]

ASSUME HeaderAssumption == Header \notin Row

VARIABLES
    flags,      \* the command line: [csv, flat], set by -c and -f
    alive,      \* a process is running
    obs,        \* m_observations, by column
    seen,       \* m_obsSeen, by column
    raw,        \* m_rawTimestamp, in whole seconds; 0 until a time is tracked
    csv,        \* the stream of m_csvWriter and the CSV files
    flat,       \* the stream of m_flatWriter and the flat logs
    nobs,       \* observations so far (bounded by MaxObs)
    boots       \* processes so far (bounded by MaxBoots)

memory == <<obs, seen, raw>>
vars == <<flags, alive, obs, seen, raw, csv, flat, nobs, boots>>

-----------------------------------------------------------------------------
(* Conversions *)

ExcelOffset == 2415019          \* Julian day number of day 0 of an Excel date
UnixEpoch == 25569              \* the Excel date of 1 January 1970

\* MakeFileName of both writers: a file name stands for the UTC day it shows.
\* (A date before 1970 wraps in the code's unsigned seconds, and gmtime may give
\* no day for it; here it is a name like another, and Offline, where alone such
\* a date is read, lets the call fail.)
MakeFileName(utcdate) == utcdate - UnixEpoch

Day == {MakeFileName(d - ExcelOffset) : d \in JulianDate}

Csv == INSTANCE CsvWriter WITH Name <- Day
Flat == INSTANCE FlatWriter WITH Name <- Day \cup {EarlyLog}

\* The cells WriteObservations puts: blank where the column was never seen.
Cells(o, s) == [c \in Column |-> IF s[c] THEN o[c] ELSE Blank]

TicksToSeconds(v) == v \div 2   \* the truncating casts of a time value

-----------------------------------------------------------------------------
(* Clear, NewDate and NewTime, over vectors o and s as the caller left them *)

\* Mutants of Clear: the readings survive into the next row; the vector is
\* emptied instead of zeroed.
CarriedOver(o) == o

EmptiedVector(o) == [c \in {DateId, TimeId} |-> o[c]]

\* Clear: every observation back to 0 except the date and the time.
Clear(o) == [c \in Column |-> IF c \in {DateId, TimeId} THEN o[c] ELSE 0]

\* The flat log's part of ProcessObservation, at its end for every data id.
LogFlat(w, ob) == IF flags.flat THEN Flat!ProcessObservation(w, ob) ELSE w

\* Mutant of StartedCsv: the row so far is written under the new headings.
RowAfterHeadings(o, s) ==
    IF flags.csv
    THEN Csv!WriteObservations(Csv!NewFile(csv, MakeFileName(o[DateId])), Cells(o, s))
    ELSE csv

\* The CSV stream after NewDate: the row so far, then the file of the date.
StartedCsv(o, s) ==
    IF flags.csv
    THEN Csv!NewFile(Csv!WriteObservations(csv, Cells(o, s)), MakeFileName(o[DateId]))
    ELSE csv

(***************************************************************************)
(* NewDate: write the accumulated row, start the CSV file and the flat log *)
(* of the date, clear, and forget that a time was seen.  The flat log then *)
(* receives the observation ob that caused the call; `opened' says whether *)
(* fopen of the dated flat log succeeded.                                  *)
(***************************************************************************)
NewDate(o, s, ob, opened) ==
    LET name == MakeFileName(o[DateId])
    IN  /\ csv' = StartedCsv(o, s)
        /\ flat' = LogFlat(IF flags.flat THEN Flat!NewFile(flat, name, opened) ELSE flat, ob)
        /\ obs' = Clear(o)
        /\ seen' = [s EXCEPT ![TimeId] = FALSE]

\* The vectors NewTime writes: the combined timestamp and the boat are filled in.
Stamped(o) == [o EXCEPT ![Utc] = o[DateId] * DayTicks + o[TimeId], ![Boat] = 0]

MarkStamped(s) == [s EXCEPT ![Utc] = TRUE, ![Boat] = TRUE]

(***************************************************************************)
(* NewTime(utctime): complete and write the row, clear, and make utctime   *)
(* (whole seconds) both the stored time and the tracked raw timestamp.     *)
(***************************************************************************)
NewTime(o, s, utctime, ob) ==
    /\ csv' = IF flags.csv
              THEN Csv!WriteObservations(csv, Cells(Stamped(o), MarkStamped(s)))
              ELSE csv
    /\ flat' = LogFlat(flat, ob)
    /\ obs' = [Clear(Stamped(o)) EXCEPT ![TimeId] = 2 * utctime]
    /\ seen' = MarkStamped(s)
    /\ raw' = utctime

-----------------------------------------------------------------------------
(* ProcessObservation, one action per path through its switch *)

Stored(ob, val) == [obs EXCEPT ![ob.id] = val]
Marked(ob) == [seen EXCEPT ![ob.id] = TRUE]

ExcelDate(ob) == ob.val - ExcelOffset

\* m_bgToCsvMap.at finds the columns of both the date and the time.
ClockMapped == {DateId, TimeId} \subseteq Mapped

\* The observation is stored in its column and nothing else follows from it.
Store(ob, val) ==
    /\ obs' = Stored(ob, val)
    /\ seen' = Marked(ob)
    /\ flat' = LogFlat(flat, ob)
    /\ UNCHANGED <<raw, csv>>

Arrives ==
    /\ alive
    /\ nobs < MaxObs
    /\ nobs' = nobs + 1

Handles(ob) == Arrives /\ UNCHANGED <<flags, alive, boots>>

\* case 34, the first date after a time was seen: start the dated files.
\* m_rawTimestamp stays 0.
DateStartsFiles(ob, opened) ==
    /\ Handles(ob)
    /\ ob.id = DateId /\ ClockMapped
    /\ raw = 0
    /\ Marked(ob)[TimeId]
    /\ NewDate(Stored(ob, ExcelDate(ob)), Marked(ob), ob, opened)
    /\ UNCHANGED raw

\* case 34 otherwise.  Once a time is tracked a new date is only stored: the
\* test for a rollover of the date is `if (false)'.
DateStored(ob) ==
    /\ Handles(ob)
    /\ ob.id = DateId /\ ClockMapped
    /\ raw # 0 \/ ~Marked(ob)[TimeId]
    /\ Store(ob, ExcelDate(ob))

\* Mutant of TimeStartsFiles: a date seen before is not asked for.
AnyTimeStartsFiles(ob, opened) ==
    /\ Handles(ob)
    /\ ob.id = TimeId /\ ClockMapped
    /\ raw = 0
    /\ NewDate(Stored(ob, ob.val), Marked(ob), ob, opened)
    /\ raw' = TicksToSeconds(ob.val)

\* case 35, a time while none is tracked and a date was seen: start the dated
\* files and track the time.
TimeStartsFiles(ob, opened) ==
    /\ Handles(ob)
    /\ ob.id = TimeId /\ ClockMapped
    /\ raw = 0
    /\ Marked(ob)[DateId]
    /\ NewDate(Stored(ob, ob.val), Marked(ob), ob, opened)
    /\ raw' = TicksToSeconds(ob.val)

\* Mutant of LaterThanRow: a time a whole day earlier also closes the row.
DifferentFromRow(v) == v - 2 * raw > 3 \/ v - 2 * raw < -3

\* The time is more than 1.5 seconds after the tracked one.
LaterThanRow(v) == v - 2 * raw > 3

\* case 35, a time tracked before and a later time now: write the row.
TimeStartsRow(ob) ==
    /\ Handles(ob)
    /\ ob.id = TimeId /\ ClockMapped
    /\ raw # 0
    /\ LaterThanRow(ob.val)
    /\ NewTime(Stored(ob, ob.val), Marked(ob), TicksToSeconds(ob.val), ob)

\* case 35 otherwise: before any date, or too close to the tracked time.
TimeStored(ob) ==
    /\ Handles(ob)
    /\ ob.id = TimeId /\ ClockMapped
    /\ \/ raw = 0 /\ ~Marked(ob)[DateId]
       \/ raw # 0 /\ ~LaterThanRow(ob.val)
    /\ Store(ob, ob.val)

\* default: an item with a CSV column.
ItemStored(ob) ==
    /\ Handles(ob)
    /\ ob.id \in ItemId
    /\ Store(ob, ob.val)

\* m_bgToCsvMap.at throws: the item has no column (or the date and the time do
\* not both have one), so only the flat log receives it.
OnlyLoggedFlat(ob) ==
    /\ Handles(ob)
    /\ IF ob.id \in {DateId, TimeId} THEN ~ClockMapped ELSE ob.id \notin Mapped
    /\ flat' = LogFlat(flat, ob)
    /\ UNCHANGED <<memory, csv>>

ProcessObservation(ob) ==
    \/ \E opened \in BOOLEAN : DateStartsFiles(ob, opened) \/ TimeStartsFiles(ob, opened)
    \/ DateStored(ob)
    \/ TimeStored(ob)
    \/ TimeStartsRow(ob)
    \/ ItemStored(ob)
    \/ OnlyLoggedFlat(ob)

-----------------------------------------------------------------------------
(* The life of a process *)

\* The memory of a fresh process after LoadDataDefs sized its vectors.
FreshMemory ==
    [obs  |-> [c \in Column |-> 0],
     seen |-> [c \in Column |-> FALSE],
     raw  |-> 0]

Forget ==
    /\ alive' = FALSE
    /\ obs' = FreshMemory.obs /\ seen' = FreshMemory.seen /\ raw' = FreshMemory.raw

\* ioc.run() returns when the connection is gone; run() and main() return and
\* stdio flushes the streams nobody closed.
Exit ==
    /\ alive
    /\ Forget
    /\ csv' = Csv!AfterExit(csv)
    /\ flat' = Flat!AfterExit(flat)
    /\ UNCHANGED <<flags, nobs, boots>>

\* The process is killed by a signal: what is in its stdio buffers is lost, in
\* part or whole.  What it has flushed is the operating system's and stays; a
\* power-off, which may lose that too, is not modelled (nothing calls fsync).
Kill ==
    /\ alive
    /\ Forget
    /\ csv' \in Csv!AfterKill(csv)
    /\ flat' \in Flat!AfterKill(flat)
    /\ UNCHANGED <<flags, nobs, boots>>

\* The observation makes ProcessObservation call NewDate.
StartsFiles(ob) ==
    /\ ob.id \in {DateId, TimeId} /\ ClockMapped
    /\ raw = 0
    /\ Marked(ob)[DateId] /\ Marked(ob)[TimeId]

\* What NewDate finds in the observations then.
Started(ob) == Stored(ob, IF ob.id = DateId THEN ExcelDate(ob) ELSE ob.val)

\* fopen of the dated CSV file fails in NewDate: fputs to a NULL stream ends
\* the process.  The old row is written and the old file closed by then; the
\* flat log has not been touched yet.
CsvOpenFails(ob) ==
    /\ Arrives
    /\ flags.csv
    /\ StartsFiles(ob)
    /\ Forget
    /\ csv' = Csv!AfterExit(Csv!WriteObservations(csv, Cells(Started(ob), Marked(ob))))
    /\ flat' \in Flat!AfterKill(flat)
    /\ UNCHANGED <<flags, boots>>

\* fopen of flatlog.log fails, which ends the process in the same way: for the
\* first observation, or when the dated flat log could not be opened either.
FlatOpenFails(ob) ==
    /\ Arrives
    /\ flags.flat
    /\ Forget
    /\ IF StartsFiles(ob)
       THEN /\ csv' \in Csv!AfterKill(StartedCsv(Started(ob), Marked(ob)))
            /\ flat' = Flat!AfterExit(flat)
       ELSE /\ flat.file = NoFile
            /\ csv' \in Csv!AfterKill(csv)
            /\ UNCHANGED flat
    /\ UNCHANGED <<flags, boots>>

\* The program is started again, perhaps with other flags.  Files are opened
\* for appending, so what is on the disk stays.
Boot ==
    /\ ~alive
    /\ boots < MaxBoots
    /\ boots' = boots + 1
    /\ alive' = TRUE
    /\ flags' \in CommandLine
    /\ UNCHANGED <<memory, csv, flat, nobs>>

Init ==
    /\ flags \in CommandLine
    /\ alive = TRUE
    /\ obs = FreshMemory.obs /\ seen = FreshMemory.seen /\ raw = FreshMemory.raw
    /\ csv = [file |-> NoFile, lines |-> [f \in Day |-> <<>>], synced |-> [f \in Day |-> 0]]
    /\ flat = [file   |-> NoFile,
               lines  |-> [f \in Day \cup {EarlyLog} |-> <<>>],
               synced |-> [f \in Day \cup {EarlyLog} |-> 0]]
    /\ nobs = 0
    /\ boots = 1

Next ==
    \/ \E ob \in Observation :
          ProcessObservation(ob) \/ CsvOpenFails(ob) \/ FlatOpenFails(ob)
    \/ Exit
    \/ Kill
    \/ Boot

Spec == Init /\ [][Next]_vars

-----------------------------------------------------------------------------
(* Properties *)

CsvLine == Row \cup {Header}

TypeOK ==
    /\ flags \in CommandLine
    /\ alive \in BOOLEAN
    /\ obs \in [Column -> Int]
    /\ seen \in [Column -> BOOLEAN]
    /\ raw \in Nat
    /\ csv \in Csv!Stream(CsvLine)
    /\ flat \in Flat!Stream(Observation)
    /\ nobs \in 0 .. MaxObs
    /\ boots \in Nat

IsRow(line) == line # Header

TimesIncrease(lines) ==
    \A i \in 1 .. Len(lines) - 1 :
        IsRow(lines[i]) /\ IsRow(lines[i + 1]) =>
            /\ lines[i][TimeId] # Blank /\ lines[i + 1][TimeId] # Blank
            /\ lines[i][TimeId] + 1 < lines[i + 1][TimeId]

(***************************************************************************)
(* Two rows that follow each other in a CSV file carry times more than     *)
(* half a second apart, the later row the later time, whatever order, and  *)
(* however often, dates and times are received and processes restarted.    *)
(* (ProcessObservation case 35, NewTime and NewDate together.)             *)
(***************************************************************************)
RowTimesIncrease == \A f \in Day : TimesIncrease(csv.lines[f])

(***************************************************************************)
(* A CSV file that holds anything starts with the column headings, also    *)
(* after kills and restarts in append mode.  (BgCsvWriter::NewFile.)       *)
(***************************************************************************)
HeadingsFirst ==
    \A f \in Day : csv.lines[f] # <<>> => csv.lines[f][1] = Header

(***************************************************************************)
(* While a time is tracked every log asked for has an open file and date   *)
(* and time have been seen: WriteObservations, which drops a row silently  *)
(* when no file is open, never drops a row of NewTime.                     *)
(***************************************************************************)
TrackingHasFiles ==
    raw # 0 =>
        /\ alive /\ seen[DateId]
        /\ flags.csv => csv.file # NoFile
        /\ flags.flat => flat.file # NoFile

(***************************************************************************)
(* The inductive invariant behind these: the stored date names a file; a   *)
(* time is tracked only if date and time have CSV columns; the open CSV    *)
(* file has headings, and if its last line is a row a time is tracked that *)
(* is not earlier than the row's; no row, and no time observation, waits   *)
(* in a stdio buffer for a kill to lose it.                                *)
(***************************************************************************)
DateIsDay == ClockMapped /\ seen[DateId] => MakeFileName(obs[DateId]) \in Day

LastRowTracked(w, tracked) ==
    w.file # NoFile =>
        LET lines == w.lines[w.file]
        IN  /\ lines # <<>>
            /\ IsRow(lines[Len(lines)]) =>
                   /\ tracked # 0
                   /\ lines[Len(lines)][TimeId] \in Int
                   /\ lines[Len(lines)][TimeId] <= 2 * tracked + 1

TimeObservation == [id : {TimeId}, val : TickOfDay]

IInv ==
    /\ TypeOK
    /\ DateIsDay
    /\ raw # 0 => ClockMapped
    /\ TrackingHasFiles
    /\ HeadingsFirst
    /\ RowTimesIncrease
    /\ LastRowTracked(csv, raw)
    /\ Csv!BuffersNone(csv, Row)
    /\ Flat!BuffersNone(flat, TimeObservation)

(***************************************************************************)
(* The CSV files are an archive in which rows are precious: a kill loses   *)
(* at most headings behind the last row.                                   *)
(***************************************************************************)
CsvArchive == INSTANCE Archive
    WITH File <- Day, Line <- CsvLine, Precious <- Row, log <- csv.lines

RowsAreArchived == CsvArchive!Spec

(***************************************************************************)
(* The flat logs are an archive in which time observations are precious: a *)
(* kill loses only observations behind the last time (the flush on id 35). *)
(***************************************************************************)
FlatArchive == INSTANCE Archive
    WITH File <- Day \cup {EarlyLog}, Line <- Observation,
         Precious <- TimeObservation, log <- flat.lines

TimesAreArchived == FlatArchive!Spec
=============================================================================
