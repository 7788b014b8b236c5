------------------------------ MODULE DataDefs ------------------------------
(***************************************************************************)
(* LoadDataDefs and AnalyzeDataDefs (src/h5000-logger-class.cpp): the data *)
(* definitions of BgDataDefs.json, in the order of the file, become the    *)
(* columns of the CSV file, the translation of data ids into columns and   *)
(* the size of the vectors that ProcessObservation indexes unchecked; and  *)
(* MakeHeaderString (src/bg-csv-writer-class.cpp), the line of headings.   *)
(*                                                                         *)
(* A definition is a record of the members the item has in the file.  A    *)
(* heading is the sequence of its characters, <<>> for a column without    *)
(* one; texts are sequences of characters, Comma among them.               *)
(***************************************************************************)
EXTENDS Integers, SequencesExt

CONSTANTS
    Definition,         \* the definitions an item of the file may be
    MaxItems,           \* bound: items in the file
    MAX_CSV_COLUMNS,    \* the size of the vectors while the file is analysed
    Character,          \* the characters of the headings
    Comma               \* the character ','

IsMember(item, name) == name \in DOMAIN item

ASSUME DataDefsAssumption ==
    /\ MaxItems \in Nat
    /\ MAX_CSV_COLUMNS \in Nat
    /\ \A item \in Definition :
          /\ IsMember(item, "CsvColumn") => item.CsvColumn \in 1 .. MAX_CSV_COLUMNS
          /\ IsMember(item, "CsvHeader") => item.CsvHeader \in Seq(Character)

VARIABLES
    state,      \* how far LoadDataDefs is
    items,      \* m_bgDataDefs["DataItems"]
    i,          \* the items analysed
    cols,       \* the columns counted so far
    tracked,    \* m_csvTrackedItems
    bgToCsv,    \* m_bgToCsvMap
    nameToCsv   \* m_ExpNameToCsvCol

analysis == <<i, cols, tracked, bgToCsv, nameToCsv>>
vars == <<state, items, analysis>>

-----------------------------------------------------------------------------
(* The analysis of one item *)

\* std::map::operator[] followed by an assignment.
Entry(map, key, value) ==
    [k \in DOMAIN map \cup {key} |-> IF k = key THEN value ELSE map[k]]

WriteToCsvTest(item) ==
    \E flag \in {"CsvTrack", "CsvRequired"} : IsMember(item, flag) /\ item[flag]

\* The item becomes a column: it is asked for, and says which and how headed.
Complete(item) ==
    WriteToCsvTest(item) /\ IsMember(item, "CsvHeader") /\ IsMember(item, "CsvColumn")

\* Mutants of Extended: the column of the item at hand counts, not the highest;
\* the vectors are counted in indices.
LastColumn(col) == col + 1

HighestIndex(col) == IF col > cols THEN col - 1 ELSE cols

\* The column count after a column is met: a new highest one counts one more.
Extended(col) == IF col > cols THEN col + 1 ELSE cols

\* Mutant of Headed: a column number used as an index.
HeadedNext(item) == [c \in DOMAIN tracked |-> IF c = item.CsvColumn + 1 THEN item.CsvHeader ELSE tracked[c]]

Headed(item) == [c \in DOMAIN tracked |-> IF c = item.CsvColumn THEN item.CsvHeader ELSE tracked[c]]

-----------------------------------------------------------------------------
(* The steps of LoadDataDefs *)

\* The file cannot be opened (exit(-1)), or is not JSON: operator>> throws.
CannotLoad ==
    /\ state = "loading"
    /\ state' = "ended"
    /\ UNCHANGED <<items, analysis>>

Load(definitions) ==
    /\ state = "loading"
    /\ state' = "analyzing"
    /\ items' = definitions
    /\ tracked' = [c \in 1 .. MAX_CSV_COLUMNS |-> <<>>]
    /\ UNCHANGED <<i, cols, bgToCsv, nameToCsv>>

\* The next item, which is i + 1 here and i in the code.
NextItem(item) ==
    /\ state = "analyzing"
    /\ i < Len(items)
    /\ item = items[i + 1]
    /\ i' = i + 1
    /\ UNCHANGED <<state, items>>

\* Not asked for, or (with a complaint) without a heading or a column.
SkipItem(item) ==
    /\ NextItem(item)
    /\ ~Complete(item)
    /\ UNCHANGED <<cols, tracked, bgToCsv, nameToCsv>>

\* The item becomes a column, and the column of its data id if it has one.
TrackItem(item) ==
    /\ NextItem(item)
    /\ Complete(item)
    /\ cols' = Extended(item.CsvColumn)
    /\ tracked' = Headed(item)
    /\ nameToCsv' = Entry(nameToCsv, item.CsvHeader, item.CsvColumn)
    /\ bgToCsv' = IF IsMember(item, "ID")
                  THEN Entry(bgToCsv, item.ID, item.CsvColumn)
                  ELSE bgToCsv

\* All items done: the vectors get their size.  m_precisions, m_observations
\* and m_obsSeen are given the same.  A count beyond MAX_CSV_COLUMNS extends
\* them by an empty column.
Resize ==
    /\ state = "analyzing"
    /\ i = Len(items)
    /\ state' = "ready"
    /\ tracked' = [c \in 1 .. cols |-> IF c \in DOMAIN tracked THEN tracked[c] ELSE <<>>]
    /\ UNCHANGED <<items, i, cols, bgToCsv, nameToCsv>>

NoEntry == [k \in {} |-> 0]

Init ==
    /\ state = "loading"
    /\ items = <<>>
    /\ i = 0
    /\ cols = 0
    /\ tracked = <<>>
    /\ bgToCsv = NoEntry
    /\ nameToCsv = NoEntry

Next ==
    \/ CannotLoad
    \/ \E n \in 0 .. MaxItems : \E definitions \in [1 .. n -> Definition] : Load(definitions)
    \/ \E item \in Definition : SkipItem(item) \/ TrackItem(item)
    \/ Resize

Spec == Init /\ [][Next]_vars

-----------------------------------------------------------------------------
(* The line of headings *)

\* The loop of MakeHeaderString: headerStr after each number of headings.
HeaderStr(headings) ==
    LET headerStr[c \in 0 .. Len(headings)] ==
            IF c = 0 THEN <<>> ELSE headerStr[c - 1] \o Append(headings[c], Comma)
    IN  headerStr

\* The line without its last n characters.
Shortened(headings, n) ==
    LET line == HeaderStr(headings)[Len(headings)] IN SubSeq(line, 1, Len(line) - n)

\* Mutant of MakeHeaderString: one character more is dropped.
ShorterHeaderString(headings) == Shortened(headings, 3)

\* The last two characters are dropped (of a line that has them, or is empty:
\* cols counts an empty column behind the first one met).
MakeHeaderString(headings) == Shortened(headings, 2)

-----------------------------------------------------------------------------
(* Properties *)

TypeOK ==
    /\ state \in {"loading", "analyzing", "ready", "ended"}
    /\ items \in Seq(Definition)
    /\ i \in 0 .. Len(items)
    /\ cols \in Nat
    /\ tracked \in [CASE state = "analyzing" -> 1 .. MAX_CSV_COLUMNS
                       [] state = "ready" -> 1 .. cols
                       [] OTHER -> {} -> Seq(Character)]
    /\ \A id \in DOMAIN bgToCsv : bgToCsv[id] \in 1 .. MAX_CSV_COLUMNS
    /\ \A name \in DOMAIN nameToCsv : nameToCsv[name] \in 1 .. MAX_CSV_COLUMNS

(***************************************************************************)
(* Every column that a data id or a heading is translated into lies inside *)
(* the vectors, in whatever order the columns are defined: AnalyzeDataDefs *)
(* resizes them to the columns counted, and ProcessObservation and NewTime *)
(* index them without a check.                                             *)
(***************************************************************************)
ColumnsFit ==
    state = "ready" =>
        /\ \A id \in DOMAIN bgToCsv : bgToCsv[id] \in DOMAIN tracked
        /\ \A name \in DOMAIN nameToCsv : nameToCsv[name] \in DOMAIN tracked

\* The invariant that proves it: the count covers every column so far, and
\* every id met has a column.
ColumnsCounted ==
    /\ TypeOK
    /\ state = "loading" => i = 0
    /\ \A k \in 1 .. i : Complete(items[k]) =>
          /\ items[k].CsvColumn <= cols
          /\ IsMember(items[k], "ID") => items[k].ID \in DOMAIN bgToCsv
    /\ \A id \in DOMAIN bgToCsv : bgToCsv[id] <= cols
    /\ \A name \in DOMAIN nameToCsv : nameToCsv[name] <= cols

\* No analysed item after the k-th has the k-th's value of a member.
LastWith(k, name) ==
    \A j \in k + 1 .. i : Complete(items[j]) /\ IsMember(items[j], name) =>
                             items[j][name] # items[k][name]

(***************************************************************************)
(* The readings of a data id and its heading end up in the same column: of *)
(* an item no later item takes the column or the id from, the column has   *)
(* the heading and the id has the column (m_csvTrackedItems, m_bgToCsvMap).*)
(***************************************************************************)
ReadingsUnderHeading ==
    state \in {"analyzing", "ready"} =>
        \A k \in 1 .. i :
            Complete(items[k]) /\ LastWith(k, "CsvColumn") =>
                /\ tracked[items[k].CsvColumn] = items[k].CsvHeader
                /\ IsMember(items[k], "ID") /\ LastWith(k, "ID") =>
                       bgToCsv[items[k].ID] = items[k].CsvColumn

\* The heading of column c stands whole between its commas in the line.
HeadingIntact(c) ==
    LET line == MakeHeaderString(tracked)
        upto == Front(HeaderStr(tracked)[c])
    IN  /\ IsPrefix(upto, line)
        /\ Len(line) > Len(upto) => line[Len(upto) + 1] = Comma

(***************************************************************************)
(* Every heading but that of the last column stands whole in its place, so *)
(* that the headings stay above the columns of the rows.                   *)
(***************************************************************************)
HeadingsAlign == state = "ready" => \A c \in 1 .. cols - 1 : HeadingIntact(c)

(***************************************************************************)
(* MakeHeaderString (bg-csv-writer-class.cpp:114) says that it drops the   *)
(* trailing comma: every heading stands whole in the line.  Not so: it     *)
(* drops the character before the comma too.                               *)
(***************************************************************************)
HeadingsIntact ==
    state = "ready" => \A c \in 1 .. cols : tracked[c] # <<>> => HeadingIntact(c)
=============================================================================
