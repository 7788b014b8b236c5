------------------------- MODULE H5000LoggerProofs -------------------------
(***************************************************************************)
(* Proofs about H5000Logger, LoggerHistory and Offline, for any data ids,  *)
(* dates, times and readings and without the bounds' help.  First the      *)
(* sequences of lines, then the operations of the two streams, then the    *)
(* actions; behind the theorems about H5000Logger those of LoggerHistory,  *)
(* which compare the rows with what was reported, and those of Offline,    *)
(* whose conversion of a log is a logger's behaviour.                      *)
(***************************************************************************)
EXTENDS LoggerHistory, Offline, SequenceTheorems, TLAPS

USE DEF LoggerConstants

-----------------------------------------------------------------------------
(* Lines of one CSV file *)

\* A file as the CSV writer leaves it: typed, with headings first and times in
\* order.
GoodLines(lines) ==
    /\ lines \in Seq(CsvLine)
    /\ lines # <<>> => lines[1] = Header
    /\ TimesIncrease(lines)

\* The last line of a file may be followed by a row of this time.
MayFollow(lines, row) ==
    IsRow(lines[Len(lines)]) =>
        /\ lines[Len(lines)][TimeId] # Blank /\ row[TimeId] # Blank
        /\ lines[Len(lines)][TimeId] + 1 < row[TimeId]

\* Headings may be put at the end of any file (BgCsvWriter::NewFile).
LEMMA HeadingsAppended ==
    ASSUME NEW lines, GoodLines(lines)
    PROVE  GoodLines(Append(lines, Header)) /\ Append(lines, Header) # <<>>
<1> DEFINE new == Append(lines, Header)
<1>1. /\ new \in Seq(CsvLine) /\ Len(new) = Len(lines) + 1
      /\ new[Len(new)] = Header
      /\ \A i \in 1 .. Len(lines) : new[i] = lines[i]
  BY DEF GoodLines, CsvLine
<1>2. new[1] = Header
  BY <1>1 DEF GoodLines
<1>3. TimesIncrease(new)
  BY <1>1 DEF GoodLines, TimesIncrease, IsRow
<1>4. QED
  BY <1>1, <1>2, <1>3 DEF GoodLines

\* A row may be put at the end of a file with headings if its time follows.
LEMMA RowAppended ==
    ASSUME NEW lines, GoodLines(lines), lines # <<>>,
           NEW row \in Row, MayFollow(lines, row)
    PROVE  GoodLines(Append(lines, row)) /\ Append(lines, row) # <<>>
<1> DEFINE new == Append(lines, row)
<1>1. /\ new \in Seq(CsvLine) /\ Len(new) = Len(lines) + 1 /\ Len(lines) \in Nat \ {0}
      /\ new[Len(new)] = row
      /\ \A i \in 1 .. Len(lines) : new[i] = lines[i]
  BY DEF GoodLines, CsvLine
<1>2. new[1] = Header
  BY <1>1 DEF GoodLines
<1>3. TimesIncrease(new)
  <2> SUFFICES ASSUME NEW i \in 1 .. Len(new) - 1, IsRow(new[i]), IsRow(new[i + 1])
               PROVE  /\ new[i][TimeId] # Blank /\ new[i + 1][TimeId] # Blank
                      /\ new[i][TimeId] + 1 < new[i + 1][TimeId]
    BY DEF TimesIncrease
  <2>1. CASE i = Len(lines)
    BY <1>1, <2>1 DEF MayFollow
  <2>2. CASE i \in 1 .. Len(lines) - 1
    <3>1. new[i] = lines[i] /\ new[i + 1] = lines[i + 1]
      BY <1>1, <2>2
    <3>2. QED
      BY <2>2, <3>1 DEF GoodLines, TimesIncrease
  <2>3. QED
    BY <1>1, <2>1, <2>2
<1>4. QED
  BY <1>1, <1>2, <1>3 DEF GoodLines

\* A file may lose lines at its end.
LEMMA LinesCut ==
    ASSUME NEW lines, GoodLines(lines), NEW kept \in 0 .. Len(lines)
    PROVE  GoodLines(SubSeq(lines, 1, kept))
<1> DEFINE new == SubSeq(lines, 1, kept)
<1>1. /\ new \in Seq(CsvLine) /\ Len(new) = kept
      /\ \A i \in 1 .. kept : new[i] = lines[i]
  BY SubSeqProperties DEF GoodLines
<1>2. new # <<>> => new[1] = Header
  BY <1>1 DEF GoodLines
<1>3. TimesIncrease(new)
  BY <1>1 DEF GoodLines, TimesIncrease
<1>4. QED
  BY <1>1, <1>2, <1>3 DEF GoodLines

-----------------------------------------------------------------------------
(* The two streams, by the lemmas of StdioFileProofs *)

CsvP == INSTANCE StdioFileProofs WITH Name <- Day
FlatP == INSTANCE StdioFileProofs WITH Name <- Day \cup {EarlyLog}

\* NoFile is not the name of a file of either writer.
LEMMA FileNames ==
    Day \subseteq Int /\ NoFile \notin Day /\ NoFile \notin Day \cup {EarlyLog}
<1>1. Day \subseteq Int
  BY ConstantsAssumption DEF Day, MakeFileName, ExcelOffset, UnixEpoch
<1>2. QED
  BY <1>1, ConstantsAssumption

\* The instances of StdioFile in the writers and here are the same operators.
LEMMA CsvOperators ==
    /\ Csv!Stream(CsvLine) = CsvP!Stream(CsvLine)
    /\ \A w, Kept : Csv!BuffersNone(w, Kept) <=> CsvP!BuffersNone(w, Kept)
    /\ \A w : Csv!AfterExit(w) = CsvP!AfterExit(w)
    /\ \A w : Csv!AfterKill(w) = CsvP!AfterKill(w)
    /\ \A w, name : Csv!FOpen(w, name) = CsvP!FOpen(w, name)
    /\ \A w, line : Csv!FPuts(w, line) = CsvP!FPuts(w, line)
    /\ \A w : Csv!FFlush(w) = CsvP!FFlush(w)
BY Zenon DEF Csv!Stream, CsvP!Stream, Csv!BuffersNone, CsvP!BuffersNone,
             Csv!AfterExit, CsvP!AfterExit, Csv!AfterKill, CsvP!AfterKill,
             Csv!FOpen, CsvP!FOpen, Csv!FPuts, CsvP!FPuts, Csv!FFlush, CsvP!FFlush,
             Csv!FClose, CsvP!FClose, Csv!Unopened, CsvP!Unopened

LEMMA FlatOperators ==
    /\ Flat!Stream(Observation) = FlatP!Stream(Observation)
    /\ \A w, Kept : Flat!BuffersNone(w, Kept) <=> FlatP!BuffersNone(w, Kept)
    /\ \A w : Flat!AfterExit(w) = FlatP!AfterExit(w)
    /\ \A w : Flat!AfterKill(w) = FlatP!AfterKill(w)
    /\ \A w, name : Flat!FOpen(w, name) = FlatP!FOpen(w, name)
    /\ \A w, line : Flat!FPuts(w, line) = FlatP!FPuts(w, line)
    /\ \A w : Flat!FFlush(w) = FlatP!FFlush(w)
BY Zenon DEF Flat!Stream, FlatP!Stream, Flat!BuffersNone, FlatP!BuffersNone,
             Flat!AfterExit, FlatP!AfterExit, Flat!AfterKill, FlatP!AfterKill,
             Flat!FOpen, FlatP!FOpen, Flat!FPuts, FlatP!FPuts, Flat!FFlush, FlatP!FFlush,
             Flat!FClose, FlatP!FClose, Flat!Unopened, FlatP!Unopened

\* Only ever adding lines: every file begins with what it was.
CsvExtends(w2, w) == \A f \in Day : CsvArchive!Prefix(w.lines[f], w2.lines[f])

LEMMA AppendExtends ==
    ASSUME NEW Line, NEW lines \in Seq(Line), NEW line \in Line
    PROVE  /\ CsvArchive!Prefix(lines, lines)
           /\ CsvArchive!Prefix(lines, Append(lines, line))
<1>1. SubSeq(lines, 1, Len(lines)) = lines
  BY SubSeqFull
<1>2. SubSeq(Append(lines, line), 1, Len(lines)) = lines
  BY SubSeqFull
<1>3. QED
  BY <1>1, <1>2 DEF CsvArchive!Prefix

\* What is left of a file is the beginning of it.
LEMMA CutIsPrefix ==
    ASSUME NEW Line, NEW lines \in Seq(Line), NEW lines2, NEW Kept,
           CsvP!Cut(lines2, lines, Kept)
    PROVE  /\ CsvArchive!Prefix(lines2, lines)
           /\ \A i \in Len(lines2) + 1 .. Len(lines) : lines[i] \notin Kept
<1>1. PICK kept \in 0 .. Len(lines) :
         /\ lines2 = SubSeq(lines, 1, kept)
         /\ \A i \in kept + 1 .. Len(lines) : lines[i] \notin Kept
  BY DEF CsvP!Cut
<1>2. Len(lines2) = kept
  BY <1>1, SubSeqProperties
<1>3. QED
  BY <1>1, <1>2 DEF CsvArchive!Prefix

-----------------------------------------------------------------------------
(* The stream of the CSV writer *)

\* A typed CSV stream with good files in which no row waits in the buffer.
GoodCsv(w) ==
    /\ CsvP!Buffered(w, CsvLine, Row)
    /\ \A f \in Day : GoodLines(w.lines[f])
    /\ w.file # NoFile => w.lines[w.file] # <<>>

LEMMA CsvTyped ==
    ASSUME NEW w, GoodCsv(w)
    PROVE  /\ \A f \in Day : w.lines[f] \in Seq(CsvLine) /\ Len(w.lines[f]) \in Nat
           /\ w.file # NoFile => w.file \in Day
<1>1. w \in CsvP!Stream(CsvLine)
  BY DEF GoodCsv, CsvP!Buffered
<1>2. \A f \in Day : w.lines[f] \in Seq(CsvLine)
  BY <1>1 DEF CsvP!Stream
<1>3. QED
  BY <1>1, <1>2 DEF CsvP!Stream

\* exit() keeps every line and closes the file.
LEMMA CsvExits ==
    ASSUME NEW w, GoodCsv(w)
    PROVE  LET w2 == Csv!AfterExit(w)
           IN  GoodCsv(w2) /\ w2.file = NoFile /\ w2.lines = w.lines
<1> DEFINE w2 == CsvP!AfterExit(w)
<1>1. CsvP!Buffered(w2, CsvLine, Row) /\ w2.file = NoFile /\ w2.lines = w.lines
  BY FileNames, CsvP!Exited DEF GoodCsv
<1>2. QED
  BY <1>1, CsvOperators DEF GoodCsv

\* A kill closes the file and loses at most headings at its end.
LEMMA CsvKilled ==
    ASSUME NEW w, GoodCsv(w), NEW w2 \in Csv!AfterKill(w)
    PROVE  /\ GoodCsv(w2) /\ w2.file = NoFile
           /\ CsvExtends(w, w2)
           /\ \A f \in Day : \A i \in Len(w2.lines[f]) + 1 .. Len(w.lines[f]) :
                 w.lines[f][i] \notin Row
           /\ \A f \in Day : w.synced[f] <= Len(w2.lines[f])
<1>1. /\ CsvP!Buffered(w2, CsvLine, Row) /\ w2.file = NoFile
      /\ \A f \in Day : CsvP!Cut(w2.lines[f], w.lines[f], Row)
      /\ \A f \in Day : w.synced[f] <= Len(w2.lines[f])
  BY CsvOperators, CsvP!Killed DEF GoodCsv
<1>2. ASSUME NEW f \in Day
      PROVE  GoodLines(w2.lines[f])
  <2>1. PICK kept \in 0 .. Len(w.lines[f]) : w2.lines[f] = SubSeq(w.lines[f], 1, kept)
    BY <1>1 DEF CsvP!Cut
  <2>2. GoodLines(w.lines[f])
    BY DEF GoodCsv
  <2>3. QED
    BY <2>1, <2>2, LinesCut
<1>3. ASSUME NEW f \in Day
      PROVE  /\ CsvArchive!Prefix(w2.lines[f], w.lines[f])
             /\ \A i \in Len(w2.lines[f]) + 1 .. Len(w.lines[f]) : w.lines[f][i] \notin Row
  BY <1>1, CsvTyped, CutIsPrefix
<1>4. QED
  BY <1>1, <1>2, <1>3 DEF GoodCsv, CsvExtends

\* BgCsvWriter::WriteObservations keeps a CSV stream good if the row's time
\* follows the one of the row before it.
LEMMA CsvRowWritten ==
    ASSUME NEW w, GoodCsv(w), NEW row \in Row,
           w.file # NoFile => MayFollow(w.lines[w.file], row)
    PROVE  LET w2 == Csv!WriteObservations(w, row)
           IN  /\ GoodCsv(w2) /\ w2.file = w.file /\ CsvExtends(w2, w)
               /\ w.file # NoFile =>
                     w2.lines[w.file] = Append(w.lines[w.file], row)
<1> DEFINE w2 == Csv!WriteObservations(w, row)
<1>1. CASE w.file = NoFile
  <2>1. w2 = w
    BY <1>1 DEF Csv!WriteObservations
  <2>2. CsvExtends(w, w)
    BY CsvTyped, SubSeqFull DEF CsvExtends, CsvArchive!Prefix
  <2>3. QED
    BY <1>1, <2>1, <2>2
<1>2. CASE w.file # NoFile
  <2> DEFINE put == CsvP!FPuts(w, row)
  <2>1. w.file \in Day /\ row \in CsvLine /\ CsvP!Buffered(w, CsvLine, Row)
    BY <1>2, CsvTyped DEF GoodCsv, CsvLine
  <2>2. w2 = CsvP!FFlush(put)
    BY <1>2, CsvOperators DEF Csv!WriteObservations
  <2>3. CsvP!Buffered(w2, CsvLine, Row) /\ w2.file = w.file /\ w2.lines = put.lines
    BY <1>2, <2>1, <2>2, CsvP!PutFlushed
  <2>4. \A f \in Day :
           w2.lines[f] = IF f = w.file THEN Append(w.lines[f], row) ELSE w.lines[f]
    BY <1>2, <2>1, <2>3, CsvP!Put
  <2>5. GoodLines(Append(w.lines[w.file], row)) /\ Append(w.lines[w.file], row) # <<>>
    BY <1>2, <2>1, RowAppended DEF GoodCsv
  <2>6. GoodCsv(w2)
    BY <2>1, <2>3, <2>4, <2>5 DEF GoodCsv
  <2>7. CsvExtends(w2, w)
    BY <2>1, <2>4, AppendExtends, CsvTyped DEF CsvExtends
  <2>8. QED
    BY <2>1, <2>3, <2>4, <2>6, <2>7
<1>3. QED
  BY <1>1, <1>2

\* BgCsvWriter::NewFile leaves a good stream whose open file ends in headings.
LEMMA CsvStarted ==
    ASSUME NEW w, GoodCsv(w), NEW name \in Day
    PROVE  LET w2 == Csv!NewFile(w, name)
           IN  /\ GoodCsv(w2) /\ w2.file = name /\ CsvExtends(w2, w)
               /\ w2.lines[name] = Append(w.lines[name], Header)
               /\ \A f \in Day : w2.synced[f] = Len(w.lines[f])
<1> DEFINE closed == CsvP!AfterExit(w)
           opened == CsvP!FOpen(closed, name)
           w2 == CsvP!FPuts(opened, Header)
<1>1. /\ CsvP!Buffered(closed, CsvLine, Row) /\ closed.file = NoFile /\ closed.lines = w.lines
      /\ \A f \in Day : closed.synced[f] = Len(w.lines[f])
  <2>1. CsvP!Buffered(w, CsvLine, Row) /\ NoFile \notin Day
    BY FileNames DEF GoodCsv
  <2>2. QED
    BY <2>1, CsvP!Exited
<1>2. /\ CsvP!Buffered(opened, CsvLine, Row) /\ opened.file = name /\ opened.lines = w.lines
      /\ opened.synced = closed.synced
  BY <1>1, FileNames, CsvP!Opened
<1>3. opened.file # NoFile /\ Header \in CsvLine /\ Header \notin Row
  BY <1>2, FileNames, HeaderAssumption DEF CsvLine
<1>4. CsvP!Buffered(w2, CsvLine, Row)
  BY <1>2, <1>3, CsvP!PutBuffered
<1>5. /\ w2.file = name /\ w2.synced = opened.synced
      /\ \A f \in Day :
            w2.lines[f] = IF f = name THEN Append(w.lines[f], Header) ELSE w.lines[f]
  BY <1>2, <1>3, CsvP!Put
<1>6. GoodLines(Append(w.lines[name], Header)) /\ Append(w.lines[name], Header) # <<>>
  BY HeadingsAppended DEF GoodCsv
<1>7. GoodCsv(w2)
  BY <1>4, <1>5, <1>6 DEF GoodCsv
<1>8. CsvExtends(w2, w)
  BY <1>3, <1>5, AppendExtends, CsvTyped DEF CsvExtends
<1>9. w2 = Csv!NewFile(w, name)
  BY CsvOperators DEF Csv!NewFile
<1>10. QED
  BY <1>1, <1>2, <1>5, <1>7, <1>8, <1>9

-----------------------------------------------------------------------------
(* The stream of the flat writer *)

FlatName == Day \cup {EarlyLog}

\* A typed flat stream in which no time observation waits in the buffer.
GoodFlat(w) == FlatP!Buffered(w, Observation, TimeObservation)

FlatExtends(w2, w) == \A f \in FlatName : FlatArchive!Prefix(w.lines[f], w2.lines[f])

\* The file now open has got the observation as its last line, the others are as
\* before, and no less than before is certainly on the disk.
OneReceives(w2, w, ob) ==
    /\ w2.file \in FlatName
    /\ \A g \in FlatName :
          /\ w2.lines[g] = IF g = w2.file THEN Append(w.lines[g], ob) ELSE w.lines[g]
          /\ w.synced[g] <= w2.synced[g]

LEMMA FlatTyped ==
    ASSUME NEW w, GoodFlat(w)
    PROVE  /\ \A f \in FlatName : w.lines[f] \in Seq(Observation) /\ Len(w.lines[f]) \in Nat
           /\ \A f \in FlatName : w.synced[f] \in Nat /\ w.synced[f] <= Len(w.lines[f])
           /\ w.file # NoFile => w.file \in FlatName
<1>1. w \in FlatP!Stream(Observation)
  BY DEF GoodFlat, FlatP!Buffered
<1>2. \A f \in FlatName : w.lines[f] \in Seq(Observation) /\ w.synced[f] \in Nat
  BY <1>1 DEF FlatP!Stream, FlatName
<1>3. \A f \in FlatName : w.synced[f] <= Len(w.lines[f])
  BY DEF GoodFlat, FlatP!Buffered, FlatP!BuffersNone, FlatName
<1>4. QED
  BY <1>1, <1>2, <1>3 DEF FlatP!Stream, FlatName

LEMMA FlatPrefixes ==
    /\ \A s, t : FlatArchive!Prefix(s, t) <=> CsvArchive!Prefix(s, t)
    /\ \A s, t, Kept : FlatP!Cut(s, t, Kept) <=> CsvP!Cut(s, t, Kept)
BY DEF FlatArchive!Prefix, CsvArchive!Prefix, FlatP!Cut, CsvP!Cut

LEMMA FlatUnchanged == ASSUME NEW w, GoodFlat(w) PROVE FlatExtends(w, w)
BY FlatTyped, FlatPrefixes, SubSeqFull DEF FlatExtends, CsvArchive!Prefix

\* exit() keeps every line and closes the file.
LEMMA FlatExits ==
    ASSUME NEW w, GoodFlat(w)
    PROVE  LET w2 == Flat!AfterExit(w)
           IN  GoodFlat(w2) /\ w2.file = NoFile /\ w2.lines = w.lines
<1> DEFINE w2 == FlatP!AfterExit(w)
<1>1. /\ FlatP!Buffered(w2, Observation, TimeObservation)
      /\ w2.file = NoFile /\ w2.lines = w.lines
  BY FileNames, FlatP!Exited DEF GoodFlat
<1>2. QED
  BY <1>1, FlatOperators DEF GoodFlat

\* A kill closes the file and loses no time observation, and nothing that is
\* certainly on the disk.
LEMMA FlatKilled ==
    ASSUME NEW w, GoodFlat(w), NEW w2 \in Flat!AfterKill(w)
    PROVE  /\ GoodFlat(w2) /\ w2.file = NoFile
           /\ FlatExtends(w, w2)
           /\ \A f \in FlatName : \A i \in Len(w2.lines[f]) + 1 .. Len(w.lines[f]) :
                 w.lines[f][i] \notin TimeObservation
           /\ \A f \in FlatName : w.synced[f] <= Len(w2.lines[f])
<1>1. /\ GoodFlat(w2) /\ w2.file = NoFile
      /\ \A f \in FlatName : FlatP!Cut(w2.lines[f], w.lines[f], TimeObservation)
      /\ \A f \in FlatName : w.synced[f] <= Len(w2.lines[f])
  BY FlatOperators, FlatP!Killed DEF GoodFlat, FlatName
<1>2. ASSUME NEW f \in FlatName
      PROVE  /\ CsvArchive!Prefix(w2.lines[f], w.lines[f])
             /\ \A i \in Len(w2.lines[f]) + 1 .. Len(w.lines[f]) :
                   w.lines[f][i] \notin TimeObservation
  BY <1>1, FlatTyped, FlatPrefixes, CutIsPrefix
<1>3. QED
  BY <1>1, <1>2, FlatPrefixes DEF FlatExtends

\* BgFlatWriter::ProcessObservation opens flatlog.log if no file is open, and
\* only ever adds a line.
LEMMA FlatLogged ==
    ASSUME NEW w, GoodFlat(w), NEW ob \in Observation
    PROVE  LET w2 == LogFlat(w, ob)
           IN  /\ GoodFlat(w2) /\ FlatExtends(w2, w)
               /\ w.file # NoFile => w2.file = w.file
               /\ flags.flat => w2.file # NoFile /\ OneReceives(w2, w, ob)
<1> DEFINE w2 == LogFlat(w, ob)
           opened == IF w.file = NoFile THEN FlatP!FOpen(w, EarlyLog) ELSE w
           put == FlatP!FPuts(opened, ob)
<1>1. CASE ~flags.flat
  <2>1. w2 = w
    BY <1>1 DEF LogFlat
  <2>2. QED
    BY <1>1, <2>1, FlatUnchanged
<1>2. CASE flags.flat
  <2>1. /\ FlatP!Buffered(opened, Observation, TimeObservation)
        /\ opened.lines = w.lines /\ opened.synced = w.synced
        /\ opened.file \in FlatName /\ opened.file # NoFile
        /\ w.file # NoFile => opened.file = w.file
    <3>1. CASE w.file = NoFile
      <4>1. opened = FlatP!FOpen(w, EarlyLog) /\ EarlyLog \in FlatName /\ EarlyLog # NoFile
        BY <3>1, FileNames DEF FlatName
      <4>2. /\ FlatP!Buffered(w, Observation, TimeObservation)
            /\ EarlyLog \in Day \cup {EarlyLog} /\ NoFile \notin Day \cup {EarlyLog}
        BY FileNames DEF GoodFlat
      <4> HIDE DEF opened
      <4>3. /\ FlatP!Buffered(opened, Observation, TimeObservation)
            /\ opened.file = EarlyLog /\ opened.lines = w.lines /\ opened.synced = w.synced
        BY <3>1, <4>1, <4>2, FlatP!Opened
      <4>4. QED
        BY <3>1, <4>1, <4>3
    <3>2. CASE w.file # NoFile
      BY <3>2, FlatTyped DEF GoodFlat
    <3>3. QED
      BY <3>1, <3>2
  <2>2. w2 = IF ob.id = TimeId THEN FlatP!FFlush(put) ELSE put
    BY <1>2, FlatOperators DEF LogFlat, Flat!ProcessObservation
  <2>3. /\ put.file = opened.file /\ put.synced = w.synced
        /\ \A f \in FlatName :
              put.lines[f] = IF f = opened.file THEN Append(w.lines[f], ob) ELSE w.lines[f]
    <3> HIDE DEF opened
    <3>1. QED
      BY <2>1, FlatP!Put DEF FlatName
  <2>4. /\ GoodFlat(w2) /\ w2.file = opened.file /\ w2.lines = put.lines
        /\ \/ w2.synced = w.synced
           \/ \A f \in FlatName : w2.synced[f] = Len(w2.lines[f])
    <3> HIDE DEF opened
    <3>1. CASE ob.id = TimeId
      BY <2>1, <2>2, <3>1, FlatP!PutFlushed DEF GoodFlat, FlatName
    <3>2. CASE ob.id # TimeId
      <4>1. ob \notin TimeObservation
        BY <3>2 DEF TimeObservation
      <4>2. QED
        BY <2>1, <2>2, <2>3, <3>2, <4>1, FlatP!PutBuffered DEF GoodFlat
    <3>3. QED
      BY <3>1, <3>2
  <2>5. ASSUME NEW f \in FlatName
        PROVE  FlatArchive!Prefix(w.lines[f], w2.lines[f])
    <3> HIDE DEF w2, put, opened
    <3>1. w.lines[f] \in Seq(Observation)
      BY FlatTyped
    <3>2. w2.lines[f] \in {w.lines[f], Append(w.lines[f], ob)}
      BY <2>3, <2>4
    <3>3. QED
      BY <3>1, <3>2, AppendExtends, FlatPrefixes
  <2>6. OneReceives(w2, w, ob)
    <3> HIDE DEF w2, put, opened
    <3>1. ASSUME NEW g \in FlatName
          PROVE  /\ w2.lines[g] = IF g = w2.file THEN Append(w.lines[g], ob) ELSE w.lines[g]
                 /\ w.synced[g] <= w2.synced[g]
      <4>1. /\ w.lines[g] \in Seq(Observation)
            /\ w.synced[g] \in Nat /\ w.synced[g] <= Len(w.lines[g])
        BY FlatTyped
      <4>2. w2.lines[g] = IF g = w2.file THEN Append(w.lines[g], ob) ELSE w.lines[g]
        BY <2>3, <2>4
      <4>3. Len(w.lines[g]) <= Len(w2.lines[g])
        BY <4>1, <4>2
      <4>4. Len(w2.lines[g]) \in Nat
        BY <2>4, FlatTyped
      <4>5. w.synced[g] <= w2.synced[g]
        BY <2>4, <4>1, <4>3, <4>4
      <4>6. QED
        BY <4>2, <4>5
    <3>2. QED
      BY <2>1, <2>4, <3>1 DEF OneReceives
  <2>7. QED
    BY <2>1, <2>4, <2>5, <2>6 DEF FlatExtends
<1>3. QED
  BY <1>1, <1>2

\* BgFlatWriter::NewFile changes no line.
LEMMA FlatStarted ==
    ASSUME NEW w, GoodFlat(w), NEW name \in Day, NEW opened \in BOOLEAN
    PROVE  LET w2 == Flat!NewFile(w, name, opened)
           IN  /\ GoodFlat(w2) /\ w2.lines = w.lines
               /\ \A f \in FlatName : w2.synced[f] = Len(w.lines[f])
<1> DEFINE closed == FlatP!AfterExit(w)
<1>1. /\ FlatP!Buffered(closed, Observation, TimeObservation)
      /\ closed.file = NoFile /\ closed.lines = w.lines
      /\ \A f \in FlatName : closed.synced[f] = Len(w.lines[f])
  <2>1. FlatP!Buffered(w, Observation, TimeObservation) /\ NoFile \notin Day \cup {EarlyLog}
    BY FileNames DEF GoodFlat
  <2>2. /\ FlatP!Buffered(closed, Observation, TimeObservation)
        /\ closed.file = NoFile /\ closed.lines = w.lines
    BY <2>1, FlatP!Exited
  <2>3. \A f \in FlatName : closed.synced[f] = Len(w.lines[f])
    BY <2>1, FlatP!ExitSyncs DEF FlatName
  <2>4. QED
    BY <2>2, <2>3
<1>2. /\ FlatP!Buffered(FlatP!FOpen(closed, name), Observation, TimeObservation)
      /\ FlatP!FOpen(closed, name).lines = w.lines
      /\ FlatP!FOpen(closed, name).synced = closed.synced
  BY <1>1, FileNames, FlatP!Opened
<1>3. Flat!NewFile(w, name, opened) = IF opened THEN FlatP!FOpen(closed, name) ELSE closed
  BY FlatOperators DEF Flat!NewFile
<1>4. QED
  BY <1>1, <1>2, <1>3 DEF GoodFlat

-----------------------------------------------------------------------------
(* The invariant in terms of the two streams *)

Memory ==
    /\ flags \in CommandLine /\ alive \in BOOLEAN
    /\ obs \in [Column -> Int] /\ seen \in [Column -> BOOLEAN] /\ raw \in Nat
    /\ nobs \in 0 .. MaxObs /\ boots \in Nat
    /\ DateIsDay /\ (raw # 0 => ClockMapped) /\ TrackingHasFiles

Streams == GoodCsv(csv) /\ LastRowTracked(csv, raw) /\ GoodFlat(flat)

LEMMA InvariantParts == IInv <=> Memory /\ Streams
<1>1. ASSUME IInv PROVE Memory /\ Streams
  <2>1. Memory /\ LastRowTracked(csv, raw)
    BY <1>1 DEF IInv, TypeOK, Memory
  <2>2. /\ CsvP!Buffered(csv, CsvLine, Row)
        /\ csv \in CsvP!Stream(CsvLine)
    BY <1>1, CsvOperators DEF IInv, TypeOK, CsvP!Buffered
  <2>3. ASSUME NEW f \in Day PROVE GoodLines(csv.lines[f])
    BY <1>1, <2>2 DEF IInv, HeadingsFirst, RowTimesIncrease, GoodLines, CsvP!Stream
  <2>4. GoodCsv(csv)
    BY <2>1, <2>2, <2>3 DEF GoodCsv, LastRowTracked
  <2>5. GoodFlat(flat)
    BY <1>1, FlatOperators DEF IInv, TypeOK, GoodFlat, FlatP!Buffered
  <2>6. QED
    BY <2>1, <2>4, <2>5 DEF Streams
<1>2. ASSUME Memory, Streams PROVE IInv
  <2>1. csv \in Csv!Stream(CsvLine) /\ Csv!BuffersNone(csv, Row)
    BY <1>2, CsvOperators DEF Streams, GoodCsv, CsvP!Buffered
  <2>2. flat \in Flat!Stream(Observation) /\ Flat!BuffersNone(flat, TimeObservation)
    BY <1>2, FlatOperators DEF Streams, GoodFlat, FlatP!Buffered
  <2>3. HeadingsFirst /\ RowTimesIncrease
    BY <1>2 DEF Streams, GoodCsv, GoodLines, HeadingsFirst, RowTimesIncrease
  <2>4. QED
    BY <1>2, <2>1, <2>2, <2>3 DEF Memory, Streams, IInv, TypeOK
<1>3. QED
  BY <1>1, <1>2

LEMMA Columns ==
    /\ DateId # TimeId /\ Boat # Utc
    /\ {Boat, Utc} \subseteq Column /\ ItemId \subseteq Column
    /\ {DateId, TimeId} \cap (ItemId \cup {Boat, Utc}) = {}
    /\ ClockMapped => {DateId, TimeId} \subseteq Column
BY ConstantsAssumption DEF Column, ItemId, ClockMapped, DataId

\* The values of an observation.
LEMMA Values ==
    ASSUME NEW ob \in Observation
    PROVE  /\ ob.id = DateId => ExcelDate(ob) \in Int /\ MakeFileName(ExcelDate(ob)) \in Day
           /\ ob.id = TimeId => ob.val \in Nat /\ TicksToSeconds(ob.val) \in Nat
           /\ ob.id \in ItemId => ob.val \in Int
<1>1. \/ ob.id = DateId /\ ob.val \in JulianDate
      \/ ob.id = TimeId /\ ob.val \in TickOfDay
      \/ ob.id \in OtherId /\ ob.val \in Reading
  BY DEF Observation
<1>2. ob.id = DateId => ob.val \in JulianDate
  BY <1>1, ConstantsAssumption
<1>3. ob.id = DateId => MakeFileName(ExcelDate(ob)) \in Day
  <2>1. ASSUME NEW d \in JulianDate PROVE MakeFileName(d - ExcelOffset) \in Day
    BY SMT DEF Day
  <2>2. QED
    BY <1>2, <2>1 DEF ExcelDate
<1>4. ob.id = DateId => ExcelDate(ob) \in Int
  <2>1. ob.id = DateId => ob.val \in Nat
    BY <1>2, ConstantsAssumption
  <2>2. \A n \in Nat : n - ExcelOffset \in Int
    BY SMT DEF ExcelOffset
  <2>3. QED
    BY <2>1, <2>2 DEF ExcelDate
<1>5. ob.id = TimeId => ob.val \in Nat
  BY <1>1, ConstantsAssumption
<1>6. \A n \in Nat : TicksToSeconds(n) \in Nat
  BY SMT DEF TicksToSeconds
<1>7. ob.id \in ItemId => ob.val \in Int
  BY <1>1, ConstantsAssumption DEF ItemId
<1>8. QED
  BY <1>3, <1>4, <1>5, <1>6, <1>7

\* The vectors after an observation is stored.
LEMMA StoredTyped ==
    ASSUME Memory, NEW ob \in Observation, NEW val \in Int
    PROVE  /\ Stored(ob, val) \in [Column -> Int]
           /\ Marked(ob) \in [Column -> BOOLEAN]
           /\ \A c \in Column : Stored(ob, val)[c] = IF c = ob.id THEN val ELSE obs[c]
           /\ \A c \in Column : Marked(ob)[c] = (c = ob.id \/ seen[c])
BY DEF Memory, Stored, Marked

LEMMA CellsTyped ==
    ASSUME NEW o \in [Column -> Int], NEW s \in [Column -> BOOLEAN]
    PROVE  /\ Cells(o, s) \in Row
           /\ \A c \in Column : s[c] => Cells(o, s)[c] = o[c]
BY DEF Cells, Row

LEMMA ClearTyped ==
    ASSUME NEW o \in [Column -> Int], ClockMapped
    PROVE  /\ Clear(o) \in [Column -> Int]
           /\ Clear(o)[DateId] = o[DateId] /\ Clear(o)[TimeId] = o[TimeId]
BY Columns DEF Clear

-----------------------------------------------------------------------------
(* The steps that only add lines *)

Adds == CsvExtends(csv', csv) /\ FlatExtends(flat', flat)

LEMMA CsvUnchanged == ASSUME NEW w, GoodCsv(w) PROVE CsvExtends(w, w)
BY CsvTyped, SubSeqFull DEF CsvExtends, CsvArchive!Prefix

LEMMA ArrivesTyped == ASSUME Memory, Arrives PROVE nobs' \in 0 .. MaxObs
BY ConstantsAssumption DEF Memory, Arrives

\* Storing an observation, with its effect on the flat log.
LEMMA StoreKeeps ==
    ASSUME Memory, Streams, NEW ob \in Observation, NEW val \in Int,
           ob.id = DateId => MakeFileName(val) \in Day,
           Handles(ob), Store(ob, val)
    PROVE  Memory' /\ Streams' /\ Adds
<1>1. /\ obs' = Stored(ob, val) /\ seen' = Marked(ob)
      /\ flat' = LogFlat(flat, ob) /\ raw' = raw /\ csv' = csv
      /\ flags' = flags /\ alive' = alive /\ boots' = boots
  BY DEF Handles, Store
<1>2. nobs' \in 0 .. MaxObs
  BY ArrivesTyped DEF Handles
<1>3. /\ GoodFlat(flat') /\ FlatExtends(flat', flat)
      /\ flags.flat => flat'.file # NoFile
  BY <1>1, FlatLogged DEF Streams
<1>4. ClockMapped => /\ seen'[DateId] => seen[DateId] \/ ob.id = DateId
                     /\ seen[DateId] => seen'[DateId]
                     /\ obs'[DateId] = IF ob.id = DateId THEN val ELSE obs[DateId]
  BY <1>1, StoredTyped, Columns
<1>5. DateIsDay'
  BY <1>4 DEF Memory, DateIsDay, ClockMapped
<1>6. (raw # 0 => ClockMapped)' /\ TrackingHasFiles'
  BY <1>1, <1>3, <1>4 DEF Memory, TrackingHasFiles, ClockMapped
<1>7. Memory'
  BY <1>1, <1>2, <1>5, <1>6, StoredTyped DEF Memory
<1>8. Streams'
  BY <1>1, <1>3 DEF Streams
<1>9. QED
  BY <1>1, <1>3, <1>7, <1>8, CsvUnchanged DEF Adds, Streams

\* Prefix is transitive, and of two prefixes the shorter is one of the longer.
LEMMA PrefixOf ==
    ASSUME NEW Line, NEW r \in Seq(Line), NEW s \in Seq(Line), NEW t \in Seq(Line)
    PROVE  /\ CsvArchive!Prefix(r, s) /\ CsvArchive!Prefix(s, t) => CsvArchive!Prefix(r, t)
           /\ CsvArchive!Prefix(r, t) /\ CsvArchive!Prefix(s, t) /\ Len(r) <= Len(s)
                  => CsvArchive!Prefix(r, s)
<1>1. ASSUME NEW a \in Seq(Line), NEW b \in Seq(Line), CsvArchive!Prefix(a, b)
      PROVE  Len(a) <= Len(b) /\ \A i \in 1 .. Len(a) : a[i] = b[i]
  BY <1>1 DEF CsvArchive!Prefix
<1>2. ASSUME NEW a \in Seq(Line), NEW b \in Seq(Line),
             Len(a) <= Len(b), \A i \in 1 .. Len(a) : a[i] = b[i]
      PROVE  CsvArchive!Prefix(a, b)
  <2> DEFINE beginning == SubSeq(b, 1, Len(a))
  <2>1. /\ beginning \in Seq(Line) /\ Len(beginning) = Len(a)
        /\ \A i \in 1 .. Len(a) : beginning[i] = b[i]
    BY <1>2, SubSeqProperties
  <2>2. beginning = a
    <3> HIDE DEF beginning
    <3>1. QED
      BY <1>2, <2>1, SeqEqual
  <2>3. QED
    BY <1>2, <2>2 DEF CsvArchive!Prefix
<1>3. QED
  BY <1>1, <1>2

LEMMA CsvExtendsMore ==
    ASSUME NEW w1, GoodCsv(w1), NEW w2, GoodCsv(w2), NEW w3, GoodCsv(w3)
    PROVE  CsvExtends(w2, w1) /\ CsvExtends(w3, w2) => CsvExtends(w3, w1)
BY CsvTyped, PrefixOf DEF CsvExtends

LEMMA FlatExtendsMore ==
    ASSUME NEW w1, GoodFlat(w1), NEW w2, GoodFlat(w2), NEW w3, GoodFlat(w3)
    PROVE  FlatExtends(w2, w1) /\ FlatExtends(w3, w2) => FlatExtends(w3, w1)
BY FlatTyped, FlatPrefixes, PrefixOf DEF FlatExtends

\* The CSV part of NewDate.  No time is tracked, so the open file does not end
\* in a row and the row NewDate writes follows none.
LEMMA CsvStarts ==
    ASSUME Memory, Streams, raw = 0,
           NEW o \in [Column -> Int], NEW s \in [Column -> BOOLEAN],
           MakeFileName(o[DateId]) \in Day
    PROVE  LET w2 == StartedCsv(o, s)
           IN  /\ GoodCsv(w2) /\ CsvExtends(w2, csv)
               /\ \A tracked : LastRowTracked(w2, tracked)
               /\ flags.csv => w2.file # NoFile
               /\ flags.csv => \A f \in Day : Len(csv.lines[f]) <= w2.synced[f]
<1> DEFINE w2 == StartedCsv(o, s)
<1>1. GoodCsv(csv) /\ LastRowTracked(csv, 0)
  BY DEF Streams
<1>2. CASE ~flags.csv
  <2>1. w2 = csv
    BY <1>2 DEF StartedCsv
  <2>2. \A tracked : LastRowTracked(csv, tracked)
    BY <1>1 DEF LastRowTracked
  <2>3. QED
    BY <1>1, <1>2, <2>1, <2>2, CsvUnchanged
<1>3. CASE flags.csv
  <2> DEFINE w1 == Csv!WriteObservations(csv, Cells(o, s))
             name == MakeFileName(o[DateId])
  <2>1. Cells(o, s) \in Row
    BY CellsTyped
  <2>2. csv.file # NoFile => MayFollow(csv.lines[csv.file], Cells(o, s))
    BY <1>1 DEF LastRowTracked, MayFollow
  <2>3. GoodCsv(w1) /\ CsvExtends(w1, csv)
    BY <1>1, <2>1, <2>2, CsvRowWritten
  <2>4. w2 = Csv!NewFile(w1, name)
    BY <1>3 DEF StartedCsv
  <2> HIDE DEF w1, w2, name
  <2>5. /\ GoodCsv(w2) /\ w2.file = name /\ CsvExtends(w2, w1)
        /\ w2.lines[name] = Append(w1.lines[name], Header)
        /\ \A f \in Day : w2.synced[f] = Len(w1.lines[f])
    BY <2>3, <2>4, CsvStarted DEF name
  <2>6. name \in Day /\ name # NoFile
    BY FileNames DEF name
  <2>7. CsvExtends(w2, csv)
    BY <1>1, <2>3, <2>5, CsvExtendsMore
  <2>8. ASSUME NEW tracked PROVE LastRowTracked(w2, tracked)
    <3>1. w1.lines[name] \in Seq(CsvLine) /\ Header \in CsvLine
      BY <2>3, <2>6, CsvTyped DEF CsvLine
    <3>2. /\ w2.lines[name] # <<>>
          /\ w2.lines[name][Len(w2.lines[name])] = Header
      BY <2>5, <3>1
    <3>3. QED
      BY <2>5, <3>2 DEF LastRowTracked, IsRow
  <2>9. \A f \in Day : Len(csv.lines[f]) <= w2.synced[f]
    BY <2>3, <2>5 DEF CsvExtends, CsvArchive!Prefix
  <2>10. QED
    BY <2>5, <2>6, <2>7, <2>8, <2>9 DEF w2
<1>4. QED
  BY <1>2, <1>3

\* NewDate on vectors in which the date was seen; r is the time tracked then.
LEMMA NewDateKeeps ==
    ASSUME Memory, Streams, raw = 0, ClockMapped, alive,
           NEW o \in [Column -> Int], NEW s \in [Column -> BOOLEAN],
           s[DateId], MakeFileName(o[DateId]) \in Day,
           NEW ob \in Observation, NEW opened \in BOOLEAN, NEW r \in Nat,
           Handles(ob), NewDate(o, s, ob, opened), raw' = r
    PROVE  Memory' /\ Streams' /\ Adds
<1> DEFINE name == MakeFileName(o[DateId])
           started == IF flags.flat THEN Flat!NewFile(flat, name, opened) ELSE flat
<1>1. /\ csv' = StartedCsv(o, s) /\ flat' = LogFlat(started, ob)
      /\ obs' = Clear(o) /\ seen' = [s EXCEPT ![TimeId] = FALSE]
      /\ flags' = flags /\ alive' = alive /\ boots' = boots
  BY DEF Handles, NewDate
<1>2. nobs' \in 0 .. MaxObs
  BY ArrivesTyped DEF Handles
<1>3. /\ GoodCsv(csv') /\ CsvExtends(csv', csv) /\ LastRowTracked(csv', raw')
      /\ flags.csv => csv'.file # NoFile
  BY <1>1, CsvStarts
<1>4. GoodFlat(started) /\ FlatExtends(started, flat)
  <2>1. CASE flags.flat
    <3>1. GoodFlat(started) /\ started.lines = flat.lines
      BY <2>1, FlatStarted DEF Streams
    <3> HIDE DEF started
    <3>2. QED
      BY <3>1, FlatUnchanged DEF Streams, FlatExtends
  <2>2. CASE ~flags.flat
    BY <2>2, FlatUnchanged DEF Streams
  <2>3. QED
    BY <2>1, <2>2
<1>5. /\ GoodFlat(flat') /\ FlatExtends(flat', started)
      /\ flags.flat => flat'.file # NoFile
  <2> HIDE DEF started
  <2>1. QED
    BY <1>1, <1>4, FlatLogged
<1>6. FlatExtends(flat', flat)
  <2> HIDE DEF started
  <2>1. QED
    BY <1>4, <1>5, FlatExtendsMore DEF Streams
<1>7. /\ obs' \in [Column -> Int] /\ seen' \in [Column -> BOOLEAN]
      /\ seen'[DateId] /\ obs'[DateId] = o[DateId]
  BY <1>1, ClearTyped, Columns
<1>8. DateIsDay'
  BY <1>7 DEF DateIsDay, ClockMapped
<1>9. TrackingHasFiles'
  BY <1>1, <1>3, <1>5, <1>7 DEF TrackingHasFiles
<1>10. Memory'
  BY <1>1, <1>2, <1>7, <1>8, <1>9 DEF Memory, ClockMapped
<1>11. QED
  BY <1>3, <1>5, <1>6, <1>10 DEF Streams, Adds

\* NewTime closes the row of a later time and tracks that time.
LEMMA TimeStartsRowKeeps ==
    ASSUME Memory, Streams, NEW ob \in Observation, TimeStartsRow(ob)
    PROVE  /\ Memory' /\ Streams' /\ Adds
           /\ csv'.file = csv.file /\ raw' # 0 /\ flat' = LogFlat(flat, ob)
<1> DEFINE o == Stored(ob, ob.val)
           s == Marked(ob)
           row == Cells(Stamped(o), MarkStamped(s))
           utctime == TicksToSeconds(ob.val)
<1>1. /\ ob.id = TimeId /\ ClockMapped /\ raw # 0 /\ ob.val - 2 * raw > 3
      /\ Handles(ob) /\ NewTime(o, s, utctime, ob)
  BY DEF TimeStartsRow, LaterThanRow
<1>2. /\ csv' = (IF flags.csv THEN Csv!WriteObservations(csv, row) ELSE csv)
      /\ flat' = LogFlat(flat, ob)
      /\ obs' = [Clear(Stamped(o)) EXCEPT ![TimeId] = 2 * utctime]
      /\ seen' = MarkStamped(s) /\ raw' = utctime
      /\ flags' = flags /\ alive' = alive /\ boots' = boots
  BY <1>1 DEF NewTime, Handles
<1>3. nobs' \in 0 .. MaxObs
  BY <1>1, ArrivesTyped DEF Handles
<1>4. /\ ob.val \in Nat /\ utctime \in Nat /\ utctime # 0
      /\ ob.val <= 2 * utctime + 1 /\ 2 * raw + 3 < ob.val
  <2>1. ob.val \in Nat
    BY <1>1, Values
  <2>2. \A v, n \in Nat : v - 2 * n > 3 =>
           /\ v \div 2 \in Nat /\ v \div 2 # 0
           /\ v <= 2 * (v \div 2) + 1 /\ 2 * n + 3 < v
    OBVIOUS
  <2>3. QED
    BY <1>1, <2>1, <2>2 DEF Memory, TicksToSeconds
<1>5. /\ o \in [Column -> Int] /\ o[TimeId] = ob.val /\ o[DateId] = obs[DateId]
      /\ s \in [Column -> BOOLEAN] /\ s[TimeId] /\ (s[DateId] <=> seen[DateId])
  <2>1. {DateId, TimeId} \subseteq Column /\ DateId # TimeId /\ ob.val \in Int
    BY <1>1, <1>4, Columns
  <2>2. o \in [Column -> Int] /\ o[TimeId] = ob.val /\ o[DateId] = obs[DateId]
    BY <1>1, <2>1, StoredTyped
  <2>3. s \in [Column -> BOOLEAN] /\ s[TimeId] /\ (s[DateId] <=> seen[DateId])
    BY <1>1, <2>1, StoredTyped
  <2>4. QED
    BY <2>2, <2>3
<1>6. /\ Stamped(o) \in [Column -> Int]
      /\ Stamped(o)[TimeId] = ob.val /\ Stamped(o)[DateId] = obs[DateId]
      /\ MarkStamped(s) \in [Column -> BOOLEAN]
      /\ MarkStamped(s)[TimeId] /\ (MarkStamped(s)[DateId] <=> seen[DateId])
  <2> HIDE DEF o, s
  <2>1. o[DateId] * DayTicks + o[TimeId] \in Int
    BY <1>1, <1>5, Columns, ConstantsAssumption
  <2>2. /\ {DateId, TimeId, Boat, Utc} \subseteq Column
        /\ DateId # Boat /\ DateId # Utc /\ TimeId # Boat /\ TimeId # Utc
    BY <1>1, Columns
  <2>3. /\ Stamped(o) \in [Column -> Int]
        /\ Stamped(o)[TimeId] = ob.val /\ Stamped(o)[DateId] = obs[DateId]
    <3>1. ASSUME NEW utc \in Int, NEW o2, o2 = [o EXCEPT ![Utc] = utc, ![Boat] = 0]
          PROVE  /\ o2 \in [Column -> Int]
                 /\ o2[TimeId] = ob.val /\ o2[DateId] = obs[DateId]
      BY <1>5, <2>2, <3>1
    <3>2. QED
      BY <2>1, <3>1 DEF Stamped
  <2>4. /\ MarkStamped(s) \in [Column -> BOOLEAN]
        /\ MarkStamped(s)[TimeId] /\ (MarkStamped(s)[DateId] <=> seen[DateId])
    BY <1>5, <2>2 DEF MarkStamped
  <2>5. QED
    BY <2>3, <2>4
<1>7. row \in Row /\ row[TimeId] = ob.val
  <2> HIDE DEF o, s
  <2>1. QED
    BY <1>1, <1>6, CellsTyped, Columns
<1>8. csv.file # NoFile => MayFollow(csv.lines[csv.file], row)
  <2> SUFFICES ASSUME csv.file # NoFile PROVE MayFollow(csv.lines[csv.file], row)
    OBVIOUS
  <2> HIDE DEF row, utctime
  <2> DEFINE last == csv.lines[csv.file][Len(csv.lines[csv.file])]
  <2>1. IsRow(last) => last[TimeId] \in Int /\ last[TimeId] <= 2 * raw + 1
    BY DEF Streams, LastRowTracked
  <2>2. \A t \in Int : t <= 2 * raw + 1 => t + 1 < ob.val
    BY <1>4 DEF Memory
  <2>3. Blank \notin Int /\ ob.val \in Int
    BY <1>4, ConstantsAssumption
  <2>4. QED
    BY <1>7, <2>1, <2>2, <2>3 DEF MayFollow
<1>9. /\ GoodCsv(csv') /\ CsvExtends(csv', csv) /\ csv'.file = csv.file
      /\ LastRowTracked(csv', raw')
  <2> HIDE DEF row, utctime
  <2>1. CASE ~flags.csv
    <3>1. csv' = csv
      BY <1>2, <2>1
    <3>2. LastRowTracked(csv, utctime)
      <4> SUFFICES ASSUME csv.file # NoFile,
                          IsRow(csv.lines[csv.file][Len(csv.lines[csv.file])])
                   PROVE  csv.lines[csv.file][Len(csv.lines[csv.file])][TimeId] <= 2 * utctime + 1
        BY <1>4 DEF Streams, LastRowTracked
      <4> DEFINE t == csv.lines[csv.file][Len(csv.lines[csv.file])][TimeId]
      <4>1. t \in Int /\ t <= 2 * raw + 1
        BY DEF Streams, LastRowTracked
      <4> HIDE DEF t
      <4>2. t <= 2 * utctime + 1
        BY <1>4, <4>1 DEF Memory
      <4>3. QED
        BY <4>2 DEF t
    <3>3. QED
      BY <1>2, <3>1, <3>2, CsvUnchanged DEF Streams
  <2>2. CASE flags.csv
    <3>1. /\ GoodCsv(csv') /\ csv'.file = csv.file /\ CsvExtends(csv', csv)
          /\ csv.file # NoFile => csv'.lines[csv.file] = Append(csv.lines[csv.file], row)
      BY <1>2, <1>7, <1>8, <2>2, CsvRowWritten DEF Streams
    <3>2. csv.file # NoFile => csv.lines[csv.file] \in Seq(CsvLine)
      BY CsvTyped DEF Streams
    <3>3. LastRowTracked(csv', utctime)
      <4> SUFFICES ASSUME csv.file # NoFile
                   PROVE  /\ csv'.lines[csv.file] # <<>>
                          /\ csv'.lines[csv.file][Len(csv'.lines[csv.file])] = row
        BY <1>4, <1>7, <3>1 DEF LastRowTracked
      <4>1. csv.lines[csv.file] \in Seq(CsvLine) /\ row \in CsvLine
        BY <1>7, <3>2 DEF CsvLine
      <4>2. QED
        BY <3>1, <4>1
    <3>4. QED
      BY <1>2, <3>1, <3>3
  <2>3. QED
    BY <2>1, <2>2
<1>10. /\ GoodFlat(flat') /\ FlatExtends(flat', flat)
       /\ flags.flat => flat'.file # NoFile
  BY <1>2, FlatLogged DEF Streams
<1>11. /\ obs' \in [Column -> Int] /\ seen' \in [Column -> BOOLEAN]
       /\ obs'[DateId] = obs[DateId] /\ (seen'[DateId] <=> seen[DateId])
  <2> HIDE DEF o, s, utctime
  <2>1. QED
    BY <1>1, <1>2, <1>4, <1>6, ClearTyped, Columns
<1>12. DateIsDay' /\ TrackingHasFiles'
  BY <1>1, <1>2, <1>9, <1>10, <1>11 DEF Memory, DateIsDay, TrackingHasFiles, ClockMapped
<1>13. Memory'
  BY <1>1, <1>2, <1>3, <1>4, <1>11, <1>12 DEF Memory, ClockMapped
<1>14. QED
  BY <1>2, <1>4, <1>9, <1>10, <1>13 DEF Streams, Adds

\* Where NewDate is called, the date names a file.
LEMMA NewDateDay ==
    ASSUME Memory, NEW ob \in Observation, NEW opened \in BOOLEAN,
           DateStartsFiles(ob, opened) \/ TimeStartsFiles(ob, opened)
    PROVE  \E name \in Day :
               flat' = LogFlat(IF flags.flat THEN Flat!NewFile(flat, name, opened) ELSE flat, ob)
<1>1. CASE DateStartsFiles(ob, opened)
  <2> DEFINE name == MakeFileName(Stored(ob, ExcelDate(ob))[DateId])
  <2>1. ob.id = DateId /\ ClockMapped
    BY <1>1 DEF DateStartsFiles
  <2>2. name \in Day
    BY <2>1, StoredTyped, Values, Columns
  <2>3. flat' = LogFlat(IF flags.flat THEN Flat!NewFile(flat, name, opened) ELSE flat, ob)
    BY <1>1 DEF DateStartsFiles, NewDate
  <2>4. QED
    BY <2>2, <2>3
<1>2. CASE TimeStartsFiles(ob, opened)
  <2> DEFINE name == MakeFileName(Stored(ob, ob.val)[DateId])
  <2>1. ob.id = TimeId /\ ClockMapped /\ Marked(ob)[DateId]
    BY <1>2 DEF TimeStartsFiles
  <2>2. Stored(ob, ob.val)[DateId] = obs[DateId] /\ (Marked(ob)[DateId] <=> seen[DateId])
    BY <2>1, StoredTyped, Values, Columns
  <2>3. name \in Day
    BY <2>1, <2>2 DEF Memory, DateIsDay
  <2>4. flat' = LogFlat(IF flags.flat THEN Flat!NewFile(flat, name, opened) ELSE flat, ob)
    BY <1>2 DEF TimeStartsFiles, NewDate
  <2>5. QED
    BY <2>3, <2>4
<1>3. QED
  BY <1>1, <1>2

\* With -f an observation is a line of exactly one flat log once it is
\* processed, whichever path it took.
LEMMA FlatReceives ==
    ASSUME Memory, Streams, flags.flat, NEW ob \in Observation, ProcessObservation(ob)
    PROVE  OneReceives(flat', flat, ob)
<1>1. CASE \E opened \in BOOLEAN : DateStartsFiles(ob, opened) \/ TimeStartsFiles(ob, opened)
  <2>1. PICK opened \in BOOLEAN : DateStartsFiles(ob, opened) \/ TimeStartsFiles(ob, opened)
    BY <1>1
  <2>2. PICK name \in Day : flat' = LogFlat(Flat!NewFile(flat, name, opened), ob)
    BY <2>1, NewDateDay
  <2> DEFINE started == Flat!NewFile(flat, name, opened)
  <2>3. /\ GoodFlat(started) /\ started.lines = flat.lines
        /\ \A f \in FlatName : flat.synced[f] <= started.synced[f]
    BY FlatStarted, FlatTyped DEF Streams
  <2> HIDE DEF started
  <2>4. OneReceives(LogFlat(started, ob), started, ob)
    BY <2>3, FlatLogged
  <2>5. ASSUME NEW f \in FlatName
        PROVE  flat.synced[f] <= LogFlat(started, ob).synced[f]
    <3>1. started.synced[f] <= LogFlat(started, ob).synced[f]
      BY <2>4 DEF OneReceives
    <3>2. /\ flat.synced[f] \in Nat /\ started.synced[f] \in Nat
          /\ LogFlat(started, ob).synced[f] \in Nat
      BY <2>3, FlatLogged, FlatTyped DEF Streams
    <3>3. QED
      BY <2>3, <3>1, <3>2
  <2>6. QED
    BY <2>2, <2>3, <2>4, <2>5 DEF OneReceives, started
<1>2. CASE ~\E opened \in BOOLEAN : DateStartsFiles(ob, opened) \/ TimeStartsFiles(ob, opened)
  <2>1. flat' = LogFlat(flat, ob)
    BY <1>2 DEF ProcessObservation, DateStored, TimeStored, TimeStartsRow, NewTime,
                ItemStored, Store, OnlyLoggedFlat
  <2>2. QED
    BY <2>1, FlatLogged DEF Streams
<1>3. QED
  BY <1>1, <1>2

\* Every path through ProcessObservation.
LEMMA ProcessObservationKeeps ==
    ASSUME Memory, Streams, NEW ob \in Observation, ProcessObservation(ob)
    PROVE  Memory' /\ Streams' /\ Adds
<1>1. CASE \E opened \in BOOLEAN : DateStartsFiles(ob, opened)
  <2> PICK opened \in BOOLEAN : DateStartsFiles(ob, opened)
    BY <1>1
  <2> DEFINE o == Stored(ob, ExcelDate(ob))
             s == Marked(ob)
  <2>1. /\ Handles(ob) /\ ob.id = DateId /\ ClockMapped /\ raw = 0 /\ raw' = raw
        /\ NewDate(o, s, ob, opened)
    BY DEF DateStartsFiles
  <2>2. alive
    BY <2>1 DEF Handles, Arrives
  <2>3. /\ o \in [Column -> Int] /\ s \in [Column -> BOOLEAN]
        /\ s[DateId] /\ MakeFileName(o[DateId]) \in Day
    BY <2>1, StoredTyped, Values, Columns
  <2> HIDE DEF o, s
  <2>4. QED
    BY <2>1, <2>2, <2>3, NewDateKeeps
<1>2. CASE \E opened \in BOOLEAN : TimeStartsFiles(ob, opened)
  <2> PICK opened \in BOOLEAN : TimeStartsFiles(ob, opened)
    BY <1>2
  <2> DEFINE o == Stored(ob, ob.val)
             s == Marked(ob)
             r == TicksToSeconds(ob.val)
  <2>1. /\ Handles(ob) /\ ob.id = TimeId /\ ClockMapped /\ raw = 0 /\ raw' = r
        /\ s[DateId] /\ NewDate(o, s, ob, opened)
    BY DEF TimeStartsFiles
  <2>2. alive
    BY <2>1 DEF Handles, Arrives
  <2>3. /\ o \in [Column -> Int] /\ s \in [Column -> BOOLEAN]
        /\ o[DateId] = obs[DateId] /\ (s[DateId] <=> seen[DateId])
    BY <2>1, StoredTyped, Values, Columns
  <2>4. MakeFileName(o[DateId]) \in Day /\ r \in Nat
    BY <2>1, <2>3, Values DEF Memory, DateIsDay
  <2> HIDE DEF o, s, r
  <2>5. QED
    BY <2>1, <2>2, <2>3, <2>4, NewDateKeeps
<1>3. CASE DateStored(ob)
  BY <1>3, StoreKeeps, Values DEF DateStored
<1>4. CASE TimeStored(ob)
  <2>1. ob.id = TimeId /\ ob.val \in Int /\ Handles(ob) /\ Store(ob, ob.val)
    BY <1>4, Values DEF TimeStored
  <2>2. QED
    BY <2>1, StoreKeeps, Columns
<1>5. CASE TimeStartsRow(ob)
  BY <1>5, TimeStartsRowKeeps
<1>6. CASE ItemStored(ob)
  <2>1. /\ ob.id \in ItemId /\ ob.val \in Int /\ ob.id # DateId
        /\ Handles(ob) /\ Store(ob, ob.val)
    BY <1>6, Values, Columns DEF ItemStored
  <2>2. QED
    BY <2>1, StoreKeeps
<1>7. CASE OnlyLoggedFlat(ob)
  <2>1. /\ flat' = LogFlat(flat, ob) /\ csv' = csv
        /\ obs' = obs /\ seen' = seen /\ raw' = raw
        /\ flags' = flags /\ alive' = alive /\ boots' = boots
    BY <1>7 DEF OnlyLoggedFlat, Handles, memory
  <2>2. nobs' \in 0 .. MaxObs
    BY <1>7, ArrivesTyped DEF OnlyLoggedFlat, Handles
  <2>3. /\ GoodFlat(flat') /\ FlatExtends(flat', flat)
        /\ flags.flat => flat'.file # NoFile
    BY <2>1, FlatLogged DEF Streams
  <2>4. Memory'
    BY <2>1, <2>2, <2>3 DEF Memory, DateIsDay, TrackingHasFiles, ClockMapped
  <2>5. QED
    BY <2>1, <2>3, <2>4, CsvUnchanged DEF Streams, Adds
<1>8. QED
  BY <1>1, <1>2, <1>3, <1>4, <1>5, <1>6, <1>7 DEF ProcessObservation

-----------------------------------------------------------------------------
(* The steps that end a process, and the one that starts one *)

\* A step adds lines to the files of a writer or, at their ends, loses some.
CsvLoses ==
    /\ CsvExtends(csv, csv')
    /\ \A f \in Day : \A i \in Len(csv'.lines[f]) + 1 .. Len(csv.lines[f]) :
          csv.lines[f][i] \notin Row

FlatLoses ==
    /\ FlatExtends(flat, flat')
    /\ \A f \in FlatName : \A i \in Len(flat'.lines[f]) + 1 .. Len(flat.lines[f]) :
          flat.lines[f][i] \notin TimeObservation

Archives ==
    /\ CsvExtends(csv', csv) \/ CsvLoses
    /\ FlatExtends(flat', flat) \/ FlatLoses

LEMMA ForgetKeeps ==
    ASSUME Memory, Forget, flags' = flags, nobs' \in 0 .. MaxObs, boots' = boots,
           GoodCsv(csv'), csv'.file = NoFile, GoodFlat(flat')
    PROVE  Memory' /\ Streams'
<1>1. /\ alive' = FALSE /\ raw' = 0
      /\ obs' = [c \in Column |-> 0] /\ seen' = [c \in Column |-> FALSE]
  BY DEF Forget, FreshMemory
<1>2. DateIsDay'
  BY <1>1, Columns DEF DateIsDay, ClockMapped
<1>3. obs' \in [Column -> Int] /\ seen' \in [Column -> BOOLEAN]
  BY <1>1
<1>4. (raw # 0 => ClockMapped)' /\ TrackingHasFiles'
  BY <1>1 DEF TrackingHasFiles
<1>5. Memory'
  BY <1>1, <1>2, <1>3, <1>4 DEF Memory
<1>6. QED
  BY <1>5 DEF Streams, LastRowTracked

LEMMA ExitKeeps ==
    ASSUME Memory, Streams, Exit
    PROVE  Memory' /\ Streams' /\ Archives
<1>1. /\ Forget /\ flags' = flags /\ nobs' = nobs /\ boots' = boots
      /\ csv' = Csv!AfterExit(csv) /\ flat' = Flat!AfterExit(flat)
  BY DEF Exit
<1>2. GoodCsv(csv') /\ csv'.file = NoFile /\ csv'.lines = csv.lines
  BY <1>1, CsvExits DEF Streams
<1>3. GoodFlat(flat') /\ flat'.lines = flat.lines
  BY <1>1, FlatExits DEF Streams
<1>4. CsvExtends(csv', csv) /\ FlatExtends(flat', flat)
  BY <1>2, <1>3, CsvUnchanged, FlatUnchanged DEF Streams, CsvExtends, FlatExtends
<1>5. QED
  BY <1>1, <1>2, <1>3, <1>4, ForgetKeeps DEF Memory, Archives

LEMMA KillKeeps ==
    ASSUME Memory, Streams, Kill
    PROVE  Memory' /\ Streams' /\ Archives
<1>1. /\ Forget /\ flags' = flags /\ nobs' = nobs /\ boots' = boots
      /\ csv' \in Csv!AfterKill(csv) /\ flat' \in Flat!AfterKill(flat)
  BY DEF Kill
<1>2. GoodCsv(csv') /\ csv'.file = NoFile /\ CsvLoses
  BY <1>1, CsvKilled DEF Streams, CsvLoses
<1>3. GoodFlat(flat') /\ FlatLoses
  BY <1>1, FlatKilled DEF Streams, FlatLoses
<1>4. QED
  BY <1>1, <1>2, <1>3, ForgetKeeps DEF Memory, Archives

\* The vectors with which StartsFiles has NewDate called.
LEMMA StartedTyped ==
    ASSUME Memory, NEW ob \in Observation, StartsFiles(ob)
    PROVE  /\ Started(ob) \in [Column -> Int] /\ Marked(ob) \in [Column -> BOOLEAN]
           /\ MakeFileName(Started(ob)[DateId]) \in Day
<1>1. /\ ob.id \in {DateId, TimeId} /\ ClockMapped /\ Marked(ob)[DateId]
      /\ {DateId, TimeId} \subseteq Column /\ DateId # TimeId
  BY Columns DEF StartsFiles
<1>2. CASE ob.id = DateId
  <2>1. Started(ob) = Stored(ob, ExcelDate(ob))
    BY <1>2 DEF Started
  <2>2. QED
    BY <1>1, <1>2, <2>1, StoredTyped, Values
<1>3. CASE ob.id = TimeId
  <2>1. Started(ob) = Stored(ob, ob.val)
    BY <1>1, <1>3 DEF Started
  <2>2. ob.val \in Int
    BY <1>3, Values
  <2>3. /\ Started(ob) \in [Column -> Int] /\ Started(ob)[DateId] = obs[DateId]
        /\ Marked(ob) \in [Column -> BOOLEAN] /\ seen[DateId]
    BY <1>1, <1>3, <2>1, <2>2, StoredTyped
  <2>4. QED
    BY <1>1, <2>3 DEF Memory, DateIsDay
<1>4. QED
  BY <1>1, <1>2, <1>3

LEMMA CsvOpenFailsKeeps ==
    ASSUME Memory, Streams, NEW ob \in Observation, CsvOpenFails(ob)
    PROVE  Memory' /\ Streams' /\ Archives
<1> DEFINE row == Cells(Started(ob), Marked(ob))
           w == Csv!WriteObservations(csv, row)
<1>1. /\ Arrives /\ StartsFiles(ob) /\ raw = 0
      /\ Forget /\ flags' = flags /\ boots' = boots
      /\ csv' = Csv!AfterExit(w) /\ flat' \in Flat!AfterKill(flat)
  BY DEF CsvOpenFails, StartsFiles
<1>2. row \in Row
  BY <1>1, StartedTyped, CellsTyped
<1>3. csv.file # NoFile => MayFollow(csv.lines[csv.file], row)
  BY <1>1 DEF Streams, LastRowTracked, MayFollow
<1>4. GoodCsv(w) /\ CsvExtends(w, csv)
  <2> HIDE DEF row
  <2>1. QED
    BY <1>2, <1>3, CsvRowWritten DEF Streams
<1>5. GoodCsv(csv') /\ csv'.file = NoFile /\ CsvExtends(csv', csv)
  <2> HIDE DEF w
  <2>1. GoodCsv(csv') /\ csv'.file = NoFile /\ csv'.lines = w.lines
    BY <1>1, <1>4, CsvExits
  <2>2. QED
    BY <1>4, <2>1 DEF CsvExtends
<1>6. GoodFlat(flat') /\ FlatLoses
  BY <1>1, FlatKilled DEF Streams, FlatLoses
<1>7. QED
  BY <1>1, <1>5, <1>6, ForgetKeeps, ArrivesTyped DEF Archives

LEMMA FlatOpenFailsKeeps ==
    ASSUME Memory, Streams, NEW ob \in Observation, FlatOpenFails(ob)
    PROVE  Memory' /\ Streams' /\ Archives
<1> DEFINE w == StartedCsv(Started(ob), Marked(ob))
<1>1. Arrives /\ Forget /\ flags' = flags /\ boots' = boots
  BY DEF FlatOpenFails
<1>2. CASE StartsFiles(ob)
  <2>1. raw = 0 /\ csv' \in Csv!AfterKill(w) /\ flat' = Flat!AfterExit(flat)
    BY <1>2 DEF FlatOpenFails, StartsFiles
  <2>2. GoodFlat(flat') /\ FlatExtends(flat', flat)
    <3>1. GoodFlat(flat') /\ flat'.lines = flat.lines
      BY <2>1, FlatExits DEF Streams
    <3>2. QED
      BY <3>1, FlatUnchanged DEF Streams, FlatExtends
  <2>3. /\ GoodCsv(w) /\ CsvExtends(w, csv)
        /\ flags.csv => \A f \in Day : Len(csv.lines[f]) <= w.synced[f]
    BY <1>2, <2>1, StartedTyped, CsvStarts
  <2> HIDE DEF w
  <2>4. /\ GoodCsv(csv') /\ csv'.file = NoFile /\ CsvExtends(w, csv')
        /\ \A f \in Day : w.synced[f] <= Len(csv'.lines[f])
    BY <2>1, <2>3, CsvKilled
  <2>5. CASE flags.csv
    <3>1. ASSUME NEW f \in Day
          PROVE  CsvArchive!Prefix(csv.lines[f], csv'.lines[f])
      <4>1. /\ csv.lines[f] \in Seq(CsvLine) /\ csv'.lines[f] \in Seq(CsvLine)
            /\ w.lines[f] \in Seq(CsvLine)
        BY <2>3, <2>4, CsvTyped DEF Streams
      <4>2. w.synced[f] \in Nat
        BY <2>3 DEF GoodCsv, CsvP!Buffered, CsvP!Stream
      <4>3. Len(csv.lines[f]) <= Len(csv'.lines[f])
        BY <2>3, <2>4, <2>5, <4>1, <4>2
      <4>4. /\ CsvArchive!Prefix(csv.lines[f], w.lines[f])
            /\ CsvArchive!Prefix(csv'.lines[f], w.lines[f])
        BY <2>3, <2>4 DEF CsvExtends
      <4>5. QED
        BY <4>1, <4>3, <4>4, PrefixOf
    <3>2. CsvExtends(csv', csv)
      BY <3>1 DEF CsvExtends
    <3>3. QED
      BY <1>1, <2>2, <2>4, <3>2, ForgetKeeps, ArrivesTyped DEF Archives
  <2>6. CASE ~flags.csv
    <3>1. w = csv
      BY <2>6 DEF w, StartedCsv
    <3>2. CsvLoses
      BY <2>1, <3>1, CsvKilled DEF Streams, CsvLoses
    <3>3. QED
      BY <1>1, <2>2, <2>4, <3>2, ForgetKeeps, ArrivesTyped DEF Archives
  <2>7. QED
    BY <2>5, <2>6
<1>3. CASE ~StartsFiles(ob)
  <2>1. csv' \in Csv!AfterKill(csv) /\ flat' = flat
    BY <1>3 DEF FlatOpenFails
  <2>2. GoodCsv(csv') /\ csv'.file = NoFile /\ CsvLoses
    BY <2>1, CsvKilled DEF Streams, CsvLoses
  <2>3. GoodFlat(flat') /\ FlatExtends(flat', flat)
    BY <2>1, FlatUnchanged DEF Streams
  <2>4. QED
    BY <1>1, <2>2, <2>3, ForgetKeeps, ArrivesTyped DEF Archives
<1>4. QED
  BY <1>2, <1>3

LEMMA BootKeeps ==
    ASSUME Memory, Streams, Boot
    PROVE  Memory' /\ Streams' /\ Archives
<1>1. /\ ~alive /\ flags' \in CommandLine /\ alive' = TRUE /\ boots' = boots + 1
      /\ obs' = obs /\ seen' = seen /\ raw' = raw /\ csv' = csv /\ flat' = flat /\ nobs' = nobs
  BY DEF Boot, memory
<1>2. raw = 0
  BY <1>1 DEF Memory, TrackingHasFiles
<1>3. Memory'
  BY <1>1, <1>2 DEF Memory, DateIsDay, TrackingHasFiles, ClockMapped
<1>4. QED
  BY <1>1, <1>3, CsvUnchanged, FlatUnchanged DEF Streams, Archives

-----------------------------------------------------------------------------
(* The theorems *)

\* Every step of the logger keeps the invariant.
LEMMA NextKeeps ==
    ASSUME Memory, Streams, [Next]_vars
    PROVE  Memory' /\ Streams' /\ Archives
<1>1. CASE \E ob \in Observation : ProcessObservation(ob)
  BY <1>1, ProcessObservationKeeps DEF Adds, Archives
<1>2. CASE \E ob \in Observation : CsvOpenFails(ob)
  BY <1>2, CsvOpenFailsKeeps
<1>3. CASE \E ob \in Observation : FlatOpenFails(ob)
  BY <1>3, FlatOpenFailsKeeps
<1>4. CASE Exit
  BY <1>4, ExitKeeps
<1>5. CASE Kill
  BY <1>5, KillKeeps
<1>6. CASE Boot
  BY <1>6, BootKeeps
<1>7. CASE UNCHANGED vars
  <2>1. Memory'
    BY <1>7 DEF vars, Memory, DateIsDay, TrackingHasFiles, ClockMapped
  <2>2. QED
    BY <1>7, <2>1, CsvUnchanged, FlatUnchanged DEF vars, Streams, Archives
<1>8. QED
  BY <1>1, <1>2, <1>3, <1>4, <1>5, <1>6, <1>7 DEF Next

LEMMA InitHolds == Init => Memory /\ Streams
<1> SUFFICES ASSUME Init PROVE Memory /\ Streams
  OBVIOUS
<1>1. /\ obs = [c \in Column |-> 0] /\ seen = [c \in Column |-> FALSE] /\ raw = 0
      /\ flags \in CommandLine /\ alive = TRUE /\ nobs = 0 /\ boots = 1
  BY DEF Init, FreshMemory
<1>2. DateIsDay
  BY <1>1, Columns DEF DateIsDay, ClockMapped
<1>3. Memory
  BY <1>1, <1>2, ConstantsAssumption DEF Memory, TrackingHasFiles
<1>4. GoodLines(<<>>)
  BY DEF GoodLines, TimesIncrease
<1>5. GoodCsv(csv) /\ csv.file = NoFile
  <2>1. csv = [file |-> NoFile, lines |-> [f \in Day |-> <<>>], synced |-> [f \in Day |-> 0]]
    BY DEF Init
  <2>2. csv \in CsvP!Stream(CsvLine)
    BY <2>1 DEF CsvP!Stream
  <2>3. CsvP!BuffersNone(csv, Row)
    BY <2>1, CsvP!AllSynced
  <2>4. QED
    BY <1>4, <2>1, <2>2, <2>3 DEF GoodCsv, CsvP!Buffered
<1>6. GoodFlat(flat)
  <2>1. flat = [file   |-> NoFile,
                lines  |-> [f \in FlatName |-> <<>>],
                synced |-> [f \in FlatName |-> 0]]
    BY DEF Init, FlatName
  <2>2. flat \in FlatP!Stream(Observation)
    BY <2>1 DEF FlatP!Stream, FlatName
  <2>3. FlatP!BuffersNone(flat, TimeObservation)
    BY <2>1, FlatP!AllSynced DEF FlatName
  <2>4. QED
    BY <2>2, <2>3 DEF GoodFlat, FlatP!Buffered
<1>7. QED
  BY <1>3, <1>5, <1>6 DEF Streams, LastRowTracked

(***************************************************************************)
(* The inductive invariant: whatever the CPU sends and whenever the        *)
(* process ends or is started again.                                       *)
(***************************************************************************)
THEOREM Invariant == Spec => []IInv
<1>1. Init => Memory /\ Streams
  BY InitHolds
<1>2. Memory /\ Streams /\ [Next]_vars => (Memory /\ Streams)'
  BY NextKeeps
<1>3. QED
  BY <1>1, <1>2, InvariantParts, PTL DEF Spec

(***************************************************************************)
(* Every variable keeps its type.                                          *)
(***************************************************************************)
THEOREM TypeCorrect == Spec => []TypeOK
<1>1. IInv => TypeOK
  BY DEF IInv
<1>2. QED
  BY <1>1, Invariant, PTL

(***************************************************************************)
(* Rows that follow each other in a CSV file have increasing times.        *)
(***************************************************************************)
THEOREM RowsInOrder == Spec => []RowTimesIncrease
<1>1. IInv => RowTimesIncrease
  BY DEF IInv
<1>2. QED
  BY <1>1, Invariant, PTL

(***************************************************************************)
(* A CSV file that holds anything starts with the column headings.         *)
(***************************************************************************)
THEOREM HeadingsComeFirst == Spec => []HeadingsFirst
<1>1. IInv => HeadingsFirst
  BY DEF IInv
<1>2. QED
  BY <1>1, Invariant, PTL

(***************************************************************************)
(* While a time is tracked, every log asked for has an open file.          *)
(***************************************************************************)
THEOREM TrackingWrites == Spec => []TrackingHasFiles
<1>1. IInv => TrackingHasFiles
  BY DEF IInv
<1>2. QED
  BY <1>1, Invariant, PTL

(***************************************************************************)
(* The CSV files are an append-only archive that loses no row.             *)
(***************************************************************************)
THEOREM CsvFilesAreAnArchive == Spec => RowsAreArchived
<1>1. Init => CsvArchive!Init
  BY DEF Init, CsvArchive!Init
<1>2. ASSUME Memory, Streams, [Next]_vars
      PROVE  [CsvArchive!Next]_(csv.lines)
  <2>1. csv'.lines \in [Day -> Seq(CsvLine)]
    BY <1>2, NextKeeps DEF Streams, GoodCsv, CsvP!Buffered, CsvP!Stream
  <2>2. CASE CsvExtends(csv', csv)
    BY <2>1, <2>2 DEF CsvExtends, CsvArchive!Next, CsvArchive!Record
  <2>3. CASE CsvLoses
    BY <2>1, <2>3 DEF CsvLoses, CsvExtends, CsvArchive!Next, CsvArchive!Lose
  <2>4. QED
    BY <1>2, <2>2, <2>3, NextKeeps DEF Archives
<1>3. QED
  BY <1>1, <1>2, Invariant, InvariantParts, PTL DEF Spec, RowsAreArchived, CsvArchive!Spec

(***************************************************************************)
(* The flat logs are an append-only archive that loses no UTC time.        *)
(***************************************************************************)
THEOREM FlatLogsAreAnArchive == Spec => TimesAreArchived
<1>1. Init => FlatArchive!Init
  BY DEF Init, FlatArchive!Init
<1>2. ASSUME Memory, Streams, [Next]_vars
      PROVE  [FlatArchive!Next]_(flat.lines)
  <2>1. flat'.lines \in [Day \cup {EarlyLog} -> Seq(Observation)]
    BY <1>2, NextKeeps DEF Streams, GoodFlat, FlatP!Buffered, FlatP!Stream
  <2>2. CASE FlatExtends(flat', flat)
    BY <2>1, <2>2 DEF FlatName, FlatExtends, FlatArchive!Next, FlatArchive!Record
  <2>3. CASE FlatLoses
    BY <2>1, <2>3 DEF FlatName, FlatLoses, FlatExtends, FlatArchive!Next, FlatArchive!Lose
  <2>4. QED
    BY <1>2, <2>2, <2>3, NextKeeps DEF Archives
<1>3. QED
  BY <1>1, <1>2, Invariant, InvariantParts, PTL DEF Spec, TimesAreArchived, FlatArchive!Spec

-----------------------------------------------------------------------------
(* LoggerHistory: what is appended to a file *)

Buffered(w) == CsvP!Buffered(w, CsvLine, Row)

\* The lines l2 of a file add to the lines l at most row and headings.
AddsOnly(l2, l, row) ==
    \A i \in Len(l) + 1 .. Len(l2) : l2[i] \in {row, Header}

LEMMA BufferedTyped ==
    ASSUME NEW w, Buffered(w), NEW f \in Day
    PROVE  w.lines[f] \in Seq(CsvLine) /\ Len(w.lines[f]) \in Nat
<1>1. w.lines[f] \in Seq(CsvLine)
  BY DEF Buffered, CsvP!Buffered, CsvP!Stream
<1>2. QED
  BY <1>1

LEMMA AppendsOnly ==
    ASSUME NEW l \in Seq(CsvLine), NEW row \in Row
    PROVE  /\ AddsOnly(l, l, row)
           /\ AddsOnly(Append(l, row), l, row)
           /\ AddsOnly(Append(l, Header), l, row)
           /\ AddsOnly(Append(Append(l, row), Header), l, row)
BY DEF AddsOnly, CsvLine

\* WriteObservations.
LEMMA RowPut ==
    ASSUME NEW w, Buffered(w), NEW row \in Row
    PROVE  LET w2 == Csv!WriteObservations(w, row)
           IN  /\ Buffered(w2) /\ w2.file = w.file
               /\ \A f \in Day :
                     w2.lines[f] = IF f = w.file THEN Append(w.lines[f], row) ELSE w.lines[f]
<1> DEFINE w2 == Csv!WriteObservations(w, row)
           put == CsvP!FPuts(w, row)
<1>1. CASE w.file = NoFile
  BY <1>1, FileNames DEF Csv!WriteObservations
<1>2. CASE w.file # NoFile
  <2>1. row \in CsvLine /\ CsvP!Buffered(w, CsvLine, Row)
    BY DEF CsvLine, Buffered
  <2>2. w2 = CsvP!FFlush(put)
    BY <1>2, CsvOperators DEF Csv!WriteObservations
  <2>3. CsvP!Buffered(w2, CsvLine, Row) /\ w2.file = w.file /\ w2.lines = put.lines
    BY <1>2, <2>1, <2>2, CsvP!PutFlushed
  <2>4. \A f \in Day :
           w2.lines[f] = IF f = w.file THEN Append(w.lines[f], row) ELSE w.lines[f]
    BY <1>2, <2>1, <2>3, CsvP!Put
  <2>5. QED
    BY <2>3, <2>4 DEF Buffered
<1>3. QED
  BY <1>1, <1>2

\* NewFile.
LEMMA HeadingsPut ==
    ASSUME NEW w, Buffered(w), NEW name \in Day
    PROVE  LET w2 == Csv!NewFile(w, name)
           IN  /\ Buffered(w2) /\ w2.file = name
               /\ \A f \in Day :
                     w2.lines[f] = IF f = name THEN Append(w.lines[f], Header) ELSE w.lines[f]
<1> DEFINE closed == CsvP!AfterExit(w)
           opened == CsvP!FOpen(closed, name)
           w2 == CsvP!FPuts(opened, Header)
<1>1. /\ CsvP!Buffered(closed, CsvLine, Row) /\ closed.file = NoFile
      /\ closed.lines = w.lines
  BY FileNames, CsvP!Exited DEF Buffered
<1>2. /\ CsvP!Buffered(opened, CsvLine, Row) /\ opened.file = name
      /\ opened.lines = w.lines
  BY <1>1, FileNames, CsvP!Opened
<1>3. opened.file # NoFile /\ Header \in CsvLine /\ Header \notin Row
  BY <1>2, FileNames, HeaderAssumption DEF CsvLine
<1>4. CsvP!Buffered(w2, CsvLine, Row)
  BY <1>2, <1>3, CsvP!PutBuffered
<1>5. w2.file = name /\ \A f \in Day :
         w2.lines[f] = IF f = name THEN Append(w.lines[f], Header) ELSE w.lines[f]
  BY <1>2, <1>3, CsvP!Put
<1>6. w2 = Csv!NewFile(w, name)
  BY CsvOperators DEF Csv!NewFile
<1>7. QED
  BY <1>4, <1>5, <1>6 DEF Buffered

\* A kill adds nothing to what the lines were.
LEMMA KillAddsOnly ==
    ASSUME NEW w, Buffered(w), NEW w2 \in Csv!AfterKill(w), NEW f \in Day,
           NEW l \in Seq(CsvLine), NEW row \in Row, AddsOnly(w.lines[f], l, row)
    PROVE  AddsOnly(w2.lines[f], l, row)
<1>1. CsvP!Cut(w2.lines[f], w.lines[f], Row)
  BY CsvOperators, CsvP!Killed DEF Buffered
<1>2. PICK kept \in 0 .. Len(w.lines[f]) : w2.lines[f] = SubSeq(w.lines[f], 1, kept)
  BY <1>1 DEF CsvP!Cut
<1>3. w.lines[f] \in Seq(CsvLine)
  BY BufferedTyped
<1>4. /\ Len(w2.lines[f]) = kept /\ kept <= Len(w.lines[f]) /\ kept \in Nat
      /\ \A i \in 1 .. kept : w2.lines[f][i] = w.lines[f][i]
  BY <1>2, <1>3, SubSeqProperties
<1>5. QED
  BY <1>3, <1>4 DEF AddsOnly

\* The CSV part of NewDate.
LEMMA StartAddsOnly ==
    ASSUME Buffered(csv), NEW o \in [Column -> Int], NEW s \in [Column -> BOOLEAN],
           MakeFileName(o[DateId]) \in Day
    PROVE  /\ Buffered(StartedCsv(o, s))
           /\ \A f \in Day : AddsOnly(StartedCsv(o, s).lines[f], csv.lines[f], Cells(o, s))
<1> DEFINE written == Csv!WriteObservations(csv, Cells(o, s))
           w2 == Csv!NewFile(written, MakeFileName(o[DateId]))
<1>1. Cells(o, s) \in Row
  BY CellsTyped
<1>2. /\ Buffered(written)
      /\ \A f \in Day : \/ written.lines[f] = csv.lines[f]
                        \/ written.lines[f] = Append(csv.lines[f], Cells(o, s))
  BY <1>1, RowPut
<1>3. /\ Buffered(w2)
      /\ \A f \in Day : \/ w2.lines[f] = written.lines[f]
                        \/ w2.lines[f] = Append(written.lines[f], Header)
  <2> DEFINE name == MakeFileName(o[DateId])
  <2> HIDE DEF written, name
  <2>1. name \in Day
    BY DEF name
  <2>2. LET w3 == Csv!NewFile(written, name)
        IN  /\ Buffered(w3)
            /\ \A f \in Day :
                  w3.lines[f] = IF f = name THEN Append(written.lines[f], Header)
                                            ELSE written.lines[f]
    BY <1>2, <2>1, HeadingsPut
  <2>3. QED
    BY <2>2 DEF name
<1>4. ASSUME NEW f \in Day
      PROVE  /\ AddsOnly(w2.lines[f], csv.lines[f], Cells(o, s))
             /\ AddsOnly(csv.lines[f], csv.lines[f], Cells(o, s))
  <2>1. csv.lines[f] \in Seq(CsvLine)
    BY BufferedTyped
  <2> HIDE DEF written, w2
  <2>2. QED
    BY <1>1, <1>2, <1>3, <2>1, AppendsOnly
<1>5. StartedCsv(o, s) = IF flags.csv THEN w2 ELSE csv
  BY DEF StartedCsv
<1>6. QED
  BY <1>3, <1>4, <1>5

\* If every file gets at most this row and headings, no other row is new.
LEMMA OnlyNewRow ==
    ASSUME NEW row, \A f \in Day : AddsOnly(csv'.lines[f], csv.lines[f], row)
    PROVE  NewRows \subseteq {row}
<1> SUFFICES ASSUME NEW line \in NewRows PROVE line = row
  OBVIOUS
<1>1. PICK p \in Appended : line = p[2]
  BY DEF NewRows
<1>2. PICK f \in Day :
         p \in {<<f, csv'.lines[f][i]>> : i \in Len(csv.lines[f]) + 1 .. Len(csv'.lines[f])}
  BY <1>1 DEF Appended
<1>3. PICK i \in Len(csv.lines[f]) + 1 .. Len(csv'.lines[f]) : p = <<f, csv'.lines[f][i]>>
  BY <1>2
<1>4. line \in {row, Header} /\ line # Header
  BY <1>1, <1>3 DEF AddsOnly, NewRows, IsRow
<1>5. QED
  BY <1>4
-----------------------------------------------------------------------------
(* The observations and the history *)

ItemMatches(c) ==
    IF latest[c] = Blank THEN obs[c] = 0 ELSE seen[c] /\ obs[c] = latest[c]

\* A row of vectors that hold of the item what obs and seen hold.
RowMatches(row) ==
    \A c \in ItemId :
        IF latest[c] # Blank THEN row[c] = latest[c] ELSE row[c] \in {Blank, 0}

LEMMA ItemColumns ==
    ASSUME NEW c \in ItemId
    PROVE  c \in Column /\ c # DateId /\ c # TimeId /\ c # Boat /\ c # Utc
BY ConstantsAssumption DEF Column, ItemId, DataId

LEMMA RowOfInterval ==
    ASSUME LatestStored, NEW o, NEW s,
           \A c \in ItemId : o[c] = obs[c] /\ (s[c] <=> seen[c])
    PROVE  RowMatches(Cells(o, s))
<1> SUFFICES ASSUME NEW c \in ItemId
             PROVE  IF latest[c] # Blank THEN Cells(o, s)[c] = latest[c]
                                         ELSE Cells(o, s)[c] \in {Blank, 0}
  BY DEF RowMatches
<1>1. Cells(o, s)[c] = IF s[c] THEN o[c] ELSE Blank
  BY ItemColumns DEF Cells
<1>2. QED
  BY <1>1 DEF LatestStored

\* A date or a time leaves the items alone.
LEMMA ClockStored ==
    ASSUME Memory, NEW ob \in Observation, ob.id \in {DateId, TimeId}, NEW val \in Int,
           NEW c \in ItemId
    PROVE  /\ Stored(ob, val)[c] = obs[c] /\ (Marked(ob)[c] <=> seen[c])
           /\ Stamped(Stored(ob, val))[c] = obs[c]
           /\ MarkStamped(Marked(ob))[c] <=> seen[c]
<1>1. Stored(ob, val)[c] = obs[c] /\ (Marked(ob)[c] <=> seen[c])
  BY ItemColumns, StoredTyped
<1>2. /\ Stored(ob, val) \in [Column -> Int] /\ Marked(ob) \in [Column -> BOOLEAN]
      /\ c \in Column /\ c # Boat /\ c # Utc
  BY ItemColumns, StoredTyped
<1>3. Stamped(Stored(ob, val))[c] = Stored(ob, val)[c]
  BY <1>2 DEF Stamped
<1>4. MarkStamped(Marked(ob))[c] = Marked(ob)[c]
  BY <1>2 DEF MarkStamped
<1>5. QED
  BY <1>1, <1>3, <1>4

LEMMA ClearsItems ==
    ASSUME NEW o, NEW c \in ItemId
    PROVE  Clear(o)[c] = 0
BY ItemColumns DEF Clear

\* When nothing is appended there is no new row.
LEMMA NoNewRow ==
    ASSUME Buffered(csv), csv'.lines = csv.lines
    PROVE  NewRows = {}
<1>1. \A f \in Day : Len(csv.lines[f]) + 1 .. Len(csv'.lines[f]) = {}
  BY BufferedTyped
<1>2. Appended = {}
  BY <1>1 DEF Appended
<1>3. QED
  BY <1>2 DEF NewRows

-----------------------------------------------------------------------------
(* The steps *)

\* A step keeps the history in step and writes only rows that match it.
Matches ==
    /\ LatestStored'
    /\ \A row \in NewRows : RowMatches(row)

LEMMA BufferedCsv == ASSUME Streams PROVE Buffered(csv)
BY DEF Streams, GoodCsv, Buffered

LEMMA IntervalBegins ==
    ASSUME latest' = NothingReported, \A c \in ItemId : obs'[c] = 0
    PROVE  LatestStored'
BY DEF LatestStored, NothingReported

\* The row of vectors in which only a date or a time was stored.
LEMMA RowAdded ==
    ASSUME LatestStored, NEW o, NEW s,
           \A c \in ItemId : o[c] = obs[c] /\ (s[c] <=> seen[c]),
           \A f \in Day : AddsOnly(csv'.lines[f], csv.lines[f], Cells(o, s))
    PROVE  \A row \in NewRows : RowMatches(row)
<1>1. NewRows \subseteq {Cells(o, s)}
  BY OnlyNewRow
<1>2. RowMatches(Cells(o, s))
  BY RowOfInterval
<1>3. QED
  BY <1>1, <1>2

LEMMA NewDateMatches ==
    ASSUME Memory, Streams, LatestStored, latest' = NothingReported,
           NEW ob \in Observation, ob.id \in {DateId, TimeId}, NEW val \in Int,
           MakeFileName(Stored(ob, val)[DateId]) \in Day,
           NEW opened, NewDate(Stored(ob, val), Marked(ob), ob, opened)
    PROVE  Matches
<1> DEFINE o == Stored(ob, val)
           s == Marked(ob)
<1>1. csv' = StartedCsv(o, s) /\ obs' = Clear(o)
  BY DEF NewDate
<1>2. /\ o \in [Column -> Int] /\ s \in [Column -> BOOLEAN]
      /\ \A c \in ItemId : o[c] = obs[c] /\ (s[c] <=> seen[c])
  BY StoredTyped, ClockStored
<1>3. LatestStored'
  BY <1>1, ClearsItems, IntervalBegins
<1> HIDE DEF o, s
<1>4. \A f \in Day : AddsOnly(csv'.lines[f], csv.lines[f], Cells(o, s))
  BY <1>1, <1>2, StartAddsOnly, BufferedCsv DEF o
<1>5. QED
  BY <1>2, <1>3, <1>4, RowAdded DEF Matches

LEMMA DateStartsMatches ==
    ASSUME Memory, Streams, LatestStored, latest' = NothingReported,
           NEW ob \in Observation, NEW opened \in BOOLEAN, DateStartsFiles(ob, opened)
    PROVE  Matches
<1>1. /\ ob.id = DateId /\ ClockMapped
      /\ NewDate(Stored(ob, ExcelDate(ob)), Marked(ob), ob, opened)
  BY DEF DateStartsFiles
<1>2. /\ ExcelDate(ob) \in Int
      /\ MakeFileName(Stored(ob, ExcelDate(ob))[DateId]) \in Day
  BY <1>1, StoredTyped, Values, Columns
<1>3. QED
  BY <1>1, <1>2, NewDateMatches

LEMMA TimeStartsMatches ==
    ASSUME Memory, Streams, LatestStored, latest' = NothingReported,
           NEW ob \in Observation, NEW opened \in BOOLEAN, TimeStartsFiles(ob, opened)
    PROVE  Matches
<1>1. /\ ob.id = TimeId /\ ClockMapped /\ Marked(ob)[DateId]
      /\ NewDate(Stored(ob, ob.val), Marked(ob), ob, opened)
  BY DEF TimeStartsFiles
<1>2. /\ ob.val \in Int
      /\ Stored(ob, ob.val)[DateId] = obs[DateId] /\ (Marked(ob)[DateId] <=> seen[DateId])
  BY <1>1, StoredTyped, Values, Columns
<1>3. MakeFileName(Stored(ob, ob.val)[DateId]) \in Day
  BY <1>1, <1>2 DEF Memory, DateIsDay
<1>4. QED
  BY <1>1, <1>2, <1>3, NewDateMatches

LEMMA TimeStartsRowMatches ==
    ASSUME Memory, Streams, LatestStored, latest' = NothingReported,
           NEW ob \in Observation, TimeStartsRow(ob)
    PROVE  Matches
<1> DEFINE o == Stamped(Stored(ob, ob.val))
           s == MarkStamped(Marked(ob))
<1>1. /\ ob.id = TimeId /\ ClockMapped
      /\ csv' = (IF flags.csv THEN Csv!WriteObservations(csv, Cells(o, s)) ELSE csv)
      /\ obs' = [Clear(o) EXCEPT ![TimeId] = 2 * TicksToSeconds(ob.val)]
  BY DEF TimeStartsRow, NewTime
<1>2. ob.val \in Int
  BY <1>1, Values
<1>3. \A c \in ItemId : o[c] = obs[c] /\ (s[c] <=> seen[c])
  BY <1>1, <1>2, ClockStored
<1>4. ASSUME NEW c \in ItemId PROVE obs'[c] = 0
  <2> HIDE DEF o
  <2>1. Clear(o)[c] = 0 /\ c # TimeId
    BY ClearsItems, ItemColumns
  <2>2. QED
    BY <1>1, <2>1
<1>5. LatestStored'
  BY <1>4, IntervalBegins
<1>6. o \in [Column -> Int] /\ s \in [Column -> BOOLEAN]
  <2>1. /\ Stored(ob, ob.val) \in [Column -> Int] /\ Marked(ob) \in [Column -> BOOLEAN]
        /\ DateId \in Column /\ TimeId \in Column
    BY <1>1, <1>2, StoredTyped, Columns
  <2>2. ASSUME NEW v \in [Column -> Int] PROVE Stamped(v) \in [Column -> Int]
    <3>1. v[DateId] * DayTicks + v[TimeId] \in Int
      BY <2>1, ConstantsAssumption
    <3>2. ASSUME NEW utc \in Int, NEW v2, v2 = [v EXCEPT ![Utc] = utc, ![Boat] = 0]
          PROVE  v2 \in [Column -> Int]
      BY <3>2, Columns
    <3>3. QED
      BY <3>1, <3>2 DEF Stamped
  <2>3. QED
    BY <2>1, <2>2 DEF MarkStamped
<1> HIDE DEF o, s
<1>7. ASSUME NEW f \in Day
      PROVE  AddsOnly(csv'.lines[f], csv.lines[f], Cells(o, s))
  <2>1. Cells(o, s) \in Row
    BY <1>6, CellsTyped
  <2>2. csv'.lines[f] \in {csv.lines[f], Append(csv.lines[f], Cells(o, s))}
    BY <1>1, <2>1, RowPut, BufferedCsv
  <2>3. QED
    BY <2>1, <2>2, AppendsOnly, BufferedTyped, BufferedCsv
<1>8. QED
  BY <1>3, <1>5, <1>7, RowAdded DEF Matches

\* What StartsFiles has NewDate write.
LEMMA StartedItems ==
    ASSUME Memory, NEW ob \in Observation, StartsFiles(ob), NEW c \in ItemId
    PROVE  Started(ob)[c] = obs[c] /\ (Marked(ob)[c] <=> seen[c])
<1>1. ob.id \in {DateId, TimeId}
  BY DEF StartsFiles
<1>2. ob.id = DateId => ExcelDate(ob) \in Int
  BY Values
<1>3. ob.id = TimeId => ob.val \in Int
  BY Values
<1>4. QED
  BY <1>1, <1>2, <1>3, ClockStored DEF Started

LEMMA Forgets ==
    ASSUME Forget, latest' = NothingReported
    PROVE  LatestStored'
BY ItemColumns, IntervalBegins DEF Forget, FreshMemory

LEMMA CsvOpenFailsMatches ==
    ASSUME Memory, Streams, LatestStored, latest' = NothingReported,
           NEW ob \in Observation, CsvOpenFails(ob)
    PROVE  Matches
<1> DEFINE row == Cells(Started(ob), Marked(ob))
           w == Csv!WriteObservations(csv, row)
<1>1. Forget /\ StartsFiles(ob) /\ csv' = Csv!AfterExit(w)
  BY DEF CsvOpenFails
<1>2. row \in Row
  BY <1>1, StartedTyped, CellsTyped
<1> HIDE DEF row
<1>3. Buffered(w) /\ \A f \in Day : w.lines[f] \in {csv.lines[f], Append(csv.lines[f], row)}
  BY <1>2, RowPut, BufferedCsv
<1> HIDE DEF w
<1>4. csv'.lines = w.lines
  BY <1>1, <1>3, FileNames, CsvP!Exited, CsvOperators DEF Buffered
<1>5. ASSUME NEW f \in Day PROVE AddsOnly(csv'.lines[f], csv.lines[f], row)
  BY <1>2, <1>3, <1>4, AppendsOnly, BufferedTyped, BufferedCsv
<1>6. \A new \in NewRows : RowMatches(new)
  BY <1>1, <1>5, StartedItems, RowAdded DEF row
<1>7. QED
  BY <1>1, <1>6, Forgets DEF Matches

\* A kill of the stream as it is writes no row.
LEMMA KilledMatches ==
    ASSUME Streams, csv' \in Csv!AfterKill(csv)
    PROVE  NewRows = {}
<1>1. ASSUME NEW f \in Day
      PROVE  Len(csv.lines[f]) + 1 .. Len(csv'.lines[f]) = {}
  <2>1. CsvP!Cut(csv'.lines[f], csv.lines[f], Row)
    BY CsvOperators, CsvP!Killed DEF Streams, GoodCsv
  <2>2. PICK kept \in 0 .. Len(csv.lines[f]) : csv'.lines[f] = SubSeq(csv.lines[f], 1, kept)
    BY <2>1 DEF CsvP!Cut
  <2>3. csv.lines[f] \in Seq(CsvLine) /\ Len(csv'.lines[f]) = kept
    BY <2>2, BufferedTyped, BufferedCsv, SubSeqProperties
  <2>4. QED
    BY <2>3
<1>2. Appended = {}
  BY <1>1 DEF Appended
<1>3. QED
  BY <1>2 DEF NewRows

LEMMA FlatOpenFailsMatches ==
    ASSUME Memory, Streams, LatestStored, latest' = NothingReported,
           NEW ob \in Observation, FlatOpenFails(ob)
    PROVE  Matches
<1>1. LatestStored'
  BY Forgets DEF FlatOpenFails
<1>2. CASE StartsFiles(ob)
  <2> DEFINE row == Cells(Started(ob), Marked(ob))
             w == StartedCsv(Started(ob), Marked(ob))
  <2>1. csv' \in Csv!AfterKill(w)
    BY <1>2 DEF FlatOpenFails
  <2>2. Buffered(w) /\ \A f \in Day : AddsOnly(w.lines[f], csv.lines[f], row)
    BY <1>2, StartedTyped, StartAddsOnly, BufferedCsv
  <2>3. row \in Row
    BY <1>2, StartedTyped, CellsTyped
  <2> HIDE DEF w, row
  <2>4. ASSUME NEW f \in Day PROVE AddsOnly(csv'.lines[f], csv.lines[f], row)
    <3>1. csv.lines[f] \in Seq(CsvLine)
      BY BufferedTyped, BufferedCsv
    <3>2. QED
      BY <2>1, <2>2, <2>3, <3>1, KillAddsOnly
  <2>5. \A new \in NewRows : RowMatches(new)
    BY <1>2, <2>4, StartedItems, RowAdded DEF row
  <2>6. QED
    BY <1>1, <2>5 DEF Matches
<1>3. CASE ~StartsFiles(ob)
  BY <1>1, <1>3, KilledMatches DEF FlatOpenFails, Matches
<1>4. QED
  BY <1>2, <1>3

\* A step that begins an interval.
LEMMA BeginsMatches ==
    ASSUME Memory, Streams, LatestStored, BeginsInterval, latest' = NothingReported
    PROVE  Matches
<1>1. CASE Exit
  <2>1. NewRows = {}
    BY <1>1, CsvExits, NoNewRow, BufferedCsv DEF Exit, Streams
  <2>2. QED
    BY <1>1, <2>1, Forgets DEF Exit, Matches
<1>2. CASE Kill
  BY <1>2, KilledMatches, Forgets DEF Kill, Matches
<1>3. CASE ~Exit /\ ~Kill
  <2>1. PICK ob \in Observation :
           \/ \E opened \in BOOLEAN : DateStartsFiles(ob, opened) \/ TimeStartsFiles(ob, opened)
           \/ TimeStartsRow(ob)
           \/ CsvOpenFails(ob)
           \/ FlatOpenFails(ob)
    BY <1>3 DEF BeginsInterval
  <2>2. QED
    BY <2>1, DateStartsMatches, TimeStartsMatches, TimeStartsRowMatches,
       CsvOpenFailsMatches, FlatOpenFailsMatches
<1>4. QED
  BY <1>1, <1>2, <1>3

\* A reading of an item is stored, and remembered as its latest.
LEMMA ItemMatchesKept ==
    ASSUME Memory, Streams, LatestStored, NEW ob \in Observation, ItemStored(ob),
           latest' = [latest EXCEPT ![ob.id] = ob.val]
    PROVE  Matches
<1>1. /\ ob.id \in ItemId /\ csv' = csv
      /\ obs' = Stored(ob, ob.val) /\ seen' = Marked(ob)
  BY DEF ItemStored, Store
<1>2. ob.val \in Int /\ ob.val # Blank
  BY <1>1, Values, ConstantsAssumption
<1>3. latest \in [ItemId -> Int \cup {Blank}]
  BY DEF LatestStored
<1>4. latest' \in [ItemId -> Int \cup {Blank}]
  BY <1>2, <1>3
<1>5. ASSUME NEW c \in ItemId
      PROVE  IF latest'[c] = Blank THEN obs'[c] = 0 ELSE seen'[c] /\ obs'[c] = latest'[c]
  <2>1. /\ obs'[c] = IF c = ob.id THEN ob.val ELSE obs[c]
        /\ seen'[c] = (c = ob.id \/ seen[c])
    BY <1>1, <1>2, StoredTyped, ItemColumns
  <2>2. latest'[c] = IF c = ob.id THEN ob.val ELSE latest[c]
    BY <1>3
  <2>3. CASE c = ob.id
    BY <1>2, <2>1, <2>2, <2>3
  <2>4. CASE c # ob.id
    <3>1. /\ obs'[c] = obs[c] /\ latest'[c] = latest[c]
          /\ seen'[c] <=> seen[c]
      BY <2>1, <2>2, <2>4, ItemColumns DEF Memory
    <3>2. QED
      BY <3>1 DEF LatestStored
  <2>5. QED
    BY <2>3, <2>4
<1>6. NewRows = {}
  BY <1>1, NoNewRow, BufferedCsv
<1>7. QED
  BY <1>4, <1>5, <1>6 DEF LatestStored, Matches

\* Neither the items nor the files change.
LEMMA SameItems ==
    ASSUME Streams, LatestStored, latest' = latest, csv' = csv,
           \A c \in ItemId : obs'[c] = obs[c] /\ (seen'[c] <=> seen[c])
    PROVE  Matches
<1>1. NewRows = {}
  BY NoNewRow, BufferedCsv
<1>2. QED
  BY <1>1 DEF LatestStored, Matches

LEMMA StepMatches ==
    ASSUME Memory, Streams, LatestStored, [HNext]_hvars
    PROVE  Matches
<1>1. CASE BeginsInterval /\ latest' = NothingReported
  BY <1>1, BeginsMatches
<1>2. ASSUME NEW ob \in Observation, ItemStored(ob),
             latest' = [latest EXCEPT ![ob.id] = ob.val]
      PROVE  Matches
  BY <1>2, ItemMatchesKept
<1>3. ASSUME NEW ob \in Observation, DateStored(ob) \/ TimeStored(ob), latest' = latest
      PROVE  Matches
  <2>1. PICK val \in Int :
           ob.id \in {DateId, TimeId} /\ csv' = csv
               /\ obs' = Stored(ob, val) /\ seen' = Marked(ob)
    BY <1>3, Values DEF DateStored, TimeStored, Store
  <2>2. QED
    BY <1>3, <2>1, ClockStored, SameItems
<1>4. ASSUME NEW ob \in Observation, OnlyLoggedFlat(ob), latest' = latest
      PROVE  Matches
  BY <1>4, SameItems DEF OnlyLoggedFlat, memory
<1>5. CASE Boot /\ latest' = latest
  BY <1>5, SameItems DEF Boot, memory
<1>6. CASE UNCHANGED hvars
  BY <1>6, SameItems DEF hvars, vars
<1>7. QED
  BY <1>1, <1>2, <1>3, <1>4, <1>5, <1>6 DEF HNext

\* The history variable does not change what the logger does.
LEMMA HistoryNext == [HNext]_hvars => [Next]_vars
BY DEF HNext, hvars, BeginsInterval, Next, ProcessObservation

-----------------------------------------------------------------------------
(* Rows without a time *)

\* A stream without an open file ends in no row.
LEMMA ClosedBlocks ==
    ASSUME NEW w, w.file = NoFile, UntimedEndsBlock(w)
    PROVE  Blocks(w)
BY DEF Blocks, EndsTimed

\* WriteObservations: any row may be added to what Blocks holds of.
LEMMA RowBlocks ==
    ASSUME NEW w, Buffered(w), Blocks(w), NEW row \in Row
    PROVE  LET w2 == Csv!WriteObservations(w, row)
           IN  /\ UntimedEndsBlock(w2)
               /\ row[Utc] # Blank => Blocks(w2)
<1> DEFINE w2 == Csv!WriteObservations(w, row)
<1>1. /\ w2.file = w.file
      /\ \A f \in Day : w2.lines[f] = IF f = w.file THEN Append(w.lines[f], row) ELSE w.lines[f]
  BY RowPut
<1>2. w.file # NoFile => w.file \in Day
  BY DEF Buffered, CsvP!Buffered, CsvP!Stream
<1> HIDE DEF w2
<1>3. ASSUME NEW f \in Day, NEW i \in 1 .. Len(w2.lines[f]) - 1, Untimed(w2.lines[f][i])
      PROVE  w2.lines[f][i + 1] = Header
  <2>1. CASE f # w.file
    BY <1>1, <1>3, <2>1 DEF Blocks, UntimedEndsBlock
  <2>2. CASE f = w.file
    <3> DEFINE lines == w.lines[f]
    <3>1. lines \in Seq(CsvLine) /\ Len(lines) \in Nat /\ w2.lines[f] = Append(lines, row)
      BY <1>1, <2>2, BufferedTyped
    <3>2. lines # <<>> /\ ~Untimed(lines[Len(lines)])
      BY <2>2, FileNames DEF Blocks, EndsTimed
    <3>3. /\ i \in 1 .. Len(lines) /\ w2.lines[f][i] = lines[i]
          /\ i < Len(lines) => w2.lines[f][i + 1] = lines[i + 1]
      BY <1>3, <3>1
    <3>4. i # Len(lines)
      BY <1>3, <3>2, <3>3
    <3>5. QED
      BY <1>3, <3>1, <3>3, <3>4 DEF Blocks, UntimedEndsBlock
  <2>3. QED
    BY <2>1, <2>2
<1>4. ASSUME row[Utc] # Blank PROVE EndsTimed(w2)
  <2> SUFFICES ASSUME w2.file # NoFile
               PROVE  LET lines == w2.lines[w2.file]
                      IN  lines # <<>> /\ ~Untimed(lines[Len(lines)])
    BY DEF EndsTimed
  <2>1. w.file \in Day /\ w2.lines[w2.file] = Append(w.lines[w.file], row)
    BY <1>1, <1>2
  <2>2. w.lines[w.file] \in Seq(CsvLine)
    BY <2>1, BufferedTyped
  <2>3. QED
    BY <1>4, <2>1, <2>2 DEF Untimed
<1>5. QED
  BY <1>3, <1>4 DEF Blocks, UntimedEndsBlock, w2

\* NewFile: the headings follow whatever the file of the date ended in.
LEMMA HeadingsBlocks ==
    ASSUME NEW w, Buffered(w), UntimedEndsBlock(w), NEW name \in Day
    PROVE  Blocks(Csv!NewFile(w, name))
<1> DEFINE w2 == Csv!NewFile(w, name)
<1>1. /\ w2.file = name
      /\ \A f \in Day : w2.lines[f] = IF f = name THEN Append(w.lines[f], Header) ELSE w.lines[f]
  BY HeadingsPut
<1> HIDE DEF w2
<1>2. ASSUME NEW f \in Day, NEW i \in 1 .. Len(w2.lines[f]) - 1, Untimed(w2.lines[f][i])
      PROVE  w2.lines[f][i + 1] = Header
  <2>1. w.lines[f] \in Seq(CsvLine) /\ Len(w.lines[f]) \in Nat
    BY BufferedTyped
  <2>2. CASE f # name
    BY <1>1, <1>2, <2>2 DEF UntimedEndsBlock
  <2>3. CASE f = name
    <3>1. w2.lines[f] = Append(w.lines[f], Header)
      BY <1>1, <2>3
    <3>2. /\ i \in 1 .. Len(w.lines[f]) /\ w2.lines[f][i] = w.lines[f][i]
          /\ w2.lines[f][i + 1] = IF i = Len(w.lines[f]) THEN Header ELSE w.lines[f][i + 1]
      BY <1>2, <2>1, <3>1
    <3>3. QED
      BY <1>2, <2>1, <3>2 DEF UntimedEndsBlock
  <2>4. QED
    BY <2>2, <2>3
<1>3. w2.lines[name] = Append(w.lines[name], Header) /\ w.lines[name] \in Seq(CsvLine)
  BY <1>1, BufferedTyped
<1>4. EndsTimed(w2)
  <2>1. /\ w2.lines[name] # <<>>
        /\ w2.lines[name][Len(w2.lines[name])] = Header
    BY <1>3
  <2>2. QED
    BY <1>1, <2>1 DEF EndsTimed, Untimed, IsRow
<1>5. QED
  BY <1>2, <1>4 DEF Blocks, UntimedEndsBlock, w2

\* A kill shortens blocks and closes the file.
LEMMA KilledBlocks ==
    ASSUME NEW w, Buffered(w), UntimedEndsBlock(w), NEW w2 \in Csv!AfterKill(w)
    PROVE  Blocks(w2)
<1>1. w2.file = NoFile /\ \A f \in Day : CsvP!Cut(w2.lines[f], w.lines[f], Row)
  BY CsvOperators, CsvP!Killed DEF Buffered
<1>2. ASSUME NEW f \in Day, NEW i \in 1 .. Len(w2.lines[f]) - 1, Untimed(w2.lines[f][i])
      PROVE  w2.lines[f][i + 1] = Header
  <2>1. PICK kept \in 0 .. Len(w.lines[f]) : w2.lines[f] = SubSeq(w.lines[f], 1, kept)
    BY <1>1 DEF CsvP!Cut
  <2>2. w.lines[f] \in Seq(CsvLine) /\ Len(w.lines[f]) \in Nat
    BY BufferedTyped
  <2>3. Len(w2.lines[f]) = kept /\ \A k \in 1 .. kept : w2.lines[f][k] = w.lines[f][k]
    BY <2>1, <2>2, SubSeqProperties
  <2>4. /\ i \in 1 .. Len(w.lines[f]) - 1 /\ i \in 1 .. kept /\ i + 1 \in 1 .. kept
    BY <2>2, <2>3
  <2>5. QED
    BY <1>2, <2>3, <2>4 DEF UntimedEndsBlock
<1>3. QED
  BY <1>1, <1>2, ClosedBlocks DEF UntimedEndsBlock

\* exit() keeps every line and closes the file.
LEMMA ExitedBlocks ==
    ASSUME NEW w, Buffered(w), UntimedEndsBlock(w)
    PROVE  Blocks(Csv!AfterExit(w))
<1>1. Csv!AfterExit(w).file = NoFile /\ Csv!AfterExit(w).lines = w.lines
  BY FileNames, CsvP!Exited, CsvOperators DEF Buffered
<1>2. QED
  BY <1>1, ClosedBlocks DEF UntimedEndsBlock

\* The CSV part of NewDate: the row so far may be untimed, headings follow it.
LEMMA StartedBlocks ==
    ASSUME Buffered(csv), Blocks(csv), NEW o \in [Column -> Int],
           NEW s \in [Column -> BOOLEAN], MakeFileName(o[DateId]) \in Day
    PROVE  Blocks(StartedCsv(o, s))
<1> DEFINE written == Csv!WriteObservations(csv, Cells(o, s))
           name == MakeFileName(o[DateId])
<1>1. Buffered(written) /\ UntimedEndsBlock(written)
  BY CellsTyped, RowPut, RowBlocks
<1>2. name \in Day
  OBVIOUS
<1>3. StartedCsv(o, s) = IF flags.csv THEN Csv!NewFile(written, name) ELSE csv
  BY DEF StartedCsv
<1> HIDE DEF written, name
<1>4. QED
  BY <1>1, <1>2, <1>3, HeadingsBlocks

LEMMA NewDateBlocks ==
    ASSUME Memory, Streams, Blocks(csv), NEW ob \in Observation,
           ob.id \in {DateId, TimeId}, NEW val \in Int,
           MakeFileName(Stored(ob, val)[DateId]) \in Day,
           NEW opened, NewDate(Stored(ob, val), Marked(ob), ob, opened)
    PROVE  Blocks(csv')
<1>1. csv' = StartedCsv(Stored(ob, val), Marked(ob))
  BY DEF NewDate
<1>2. Stored(ob, val) \in [Column -> Int] /\ Marked(ob) \in [Column -> BOOLEAN]
  BY StoredTyped
<1>3. Buffered(csv)
  BY BufferedCsv
<1>4. QED
  BY <1>1, <1>2, <1>3, StartedBlocks

LEMMA DateStartsBlocks ==
    ASSUME Memory, Streams, Blocks(csv), NEW ob \in Observation, NEW opened \in BOOLEAN,
           DateStartsFiles(ob, opened)
    PROVE  Blocks(csv')
<1>1. /\ ob.id = DateId /\ ClockMapped
      /\ NewDate(Stored(ob, ExcelDate(ob)), Marked(ob), ob, opened)
  BY DEF DateStartsFiles
<1>2. /\ ExcelDate(ob) \in Int
      /\ MakeFileName(Stored(ob, ExcelDate(ob))[DateId]) \in Day
  BY <1>1, StoredTyped, Values, Columns
<1>3. QED
  BY <1>1, <1>2, NewDateBlocks

LEMMA TimeStartsBlocks ==
    ASSUME Memory, Streams, Blocks(csv), NEW ob \in Observation, NEW opened \in BOOLEAN,
           TimeStartsFiles(ob, opened)
    PROVE  Blocks(csv')
<1>1. /\ ob.id = TimeId /\ ClockMapped /\ Marked(ob)[DateId]
      /\ NewDate(Stored(ob, ob.val), Marked(ob), ob, opened)
  BY DEF TimeStartsFiles
<1>2. /\ ob.val \in Int
      /\ Stored(ob, ob.val)[DateId] = obs[DateId] /\ (Marked(ob)[DateId] <=> seen[DateId])
  BY <1>1, StoredTyped, Values, Columns
<1>3. MakeFileName(Stored(ob, ob.val)[DateId]) \in Day
  BY <1>1, <1>2 DEF Memory, DateIsDay
<1>4. QED
  BY <1>1, <1>2, <1>3, NewDateBlocks

\* NewTime stamps the row before it writes it.
LEMMA TimeStartsRowBlocks ==
    ASSUME Memory, Streams, Blocks(csv), NEW ob \in Observation, TimeStartsRow(ob)
    PROVE  Blocks(csv')
<1> DEFINE o == Stored(ob, ob.val)
           s == Marked(ob)
           row == Cells(Stamped(o), MarkStamped(s))
<1>1. /\ ob.id = TimeId /\ ClockMapped
      /\ csv' = IF flags.csv THEN Csv!WriteObservations(csv, row) ELSE csv
  BY DEF TimeStartsRow, NewTime
<1>2. ob.val \in Int
  BY <1>1, Values
<1>3. /\ o \in [Column -> Int] /\ s \in [Column -> BOOLEAN]
      /\ DateId \in Column /\ TimeId \in Column /\ Utc \in Column /\ Utc # Boat
  BY <1>1, <1>2, StoredTyped, Columns
<1> HIDE DEF o, s
<1>4. /\ Stamped(o) \in [Column -> Int] /\ MarkStamped(s) \in [Column -> BOOLEAN]
      /\ MarkStamped(s)[Utc]
  <2> DEFINE utc == o[DateId] * DayTicks + o[TimeId]
  <2>1. utc \in Int
    BY <1>3, ConstantsAssumption
  <2>2. Stamped(o) = [o EXCEPT ![Utc] = utc, ![Boat] = 0]
    BY DEF Stamped
  <2> HIDE DEF utc
  <2>3. Stamped(o) \in [Column -> Int]
    BY <1>3, <2>1, <2>2, Columns
  <2>4. MarkStamped(s) \in [Column -> BOOLEAN] /\ MarkStamped(s)[Utc]
    BY <1>3, Columns DEF MarkStamped
  <2>5. QED
    BY <2>3, <2>4
<1>5. row \in Row /\ row[Utc] # Blank
  <2>1. row \in Row /\ row[Utc] = Stamped(o)[Utc]
    BY <1>3, <1>4, CellsTyped
  <2>2. Stamped(o)[Utc] \in Int
    BY <1>3, <1>4
  <2>3. QED
    BY <2>1, <2>2, ConstantsAssumption
<1> HIDE DEF row
<1>6. QED
  BY <1>1, <1>5, RowBlocks, BufferedCsv

LEMMA CsvOpenFailsBlocks ==
    ASSUME Memory, Streams, Blocks(csv), NEW ob \in Observation, CsvOpenFails(ob)
    PROVE  Blocks(csv')
<1> DEFINE row == Cells(Started(ob), Marked(ob))
           w == Csv!WriteObservations(csv, row)
<1>1. StartsFiles(ob) /\ csv' = Csv!AfterExit(w)
  BY DEF CsvOpenFails
<1>2. row \in Row
  BY <1>1, StartedTyped, CellsTyped
<1> HIDE DEF row
<1>3. Buffered(w) /\ UntimedEndsBlock(w)
  BY <1>2, RowPut, RowBlocks, BufferedCsv
<1> HIDE DEF w
<1>4. QED
  BY <1>1, <1>3, ExitedBlocks

LEMMA FlatOpenFailsBlocks ==
    ASSUME Memory, Streams, Blocks(csv), NEW ob \in Observation, FlatOpenFails(ob)
    PROVE  Blocks(csv')
<1>1. CASE StartsFiles(ob)
  <2> DEFINE w == StartedCsv(Started(ob), Marked(ob))
  <2>1. csv' \in Csv!AfterKill(w)
    BY <1>1 DEF FlatOpenFails
  <2>2. Buffered(w) /\ Blocks(w)
    BY <1>1, StartedTyped, StartAddsOnly, StartedBlocks, BufferedCsv
  <2> HIDE DEF w
  <2>3. QED
    BY <2>1, <2>2, KilledBlocks DEF Blocks
<1>2. CASE ~StartsFiles(ob)
  <2>1. csv' \in Csv!AfterKill(csv) /\ Buffered(csv)
    BY <1>2, BufferedCsv DEF FlatOpenFails
  <2>2. QED
    BY <2>1, KilledBlocks DEF Blocks
<1>3. QED
  BY <1>1, <1>2

LEMMA StepBlocks ==
    ASSUME Memory, Streams, Blocks(csv), [Next]_vars
    PROVE  Blocks(csv')
<1>1. CASE csv' = csv
  BY <1>1
<1>2. ASSUME NEW ob \in Observation, ProcessObservation(ob)
      PROVE  Blocks(csv')
  <2>1. \/ \E opened \in BOOLEAN : DateStartsFiles(ob, opened) \/ TimeStartsFiles(ob, opened)
        \/ TimeStartsRow(ob)
        \/ csv' = csv
    BY <1>2 DEF ProcessObservation, DateStored, TimeStored, ItemStored, Store, OnlyLoggedFlat
  <2>2. QED
    BY <1>1, <2>1, DateStartsBlocks, TimeStartsBlocks, TimeStartsRowBlocks
<1>3. ASSUME NEW ob \in Observation, CsvOpenFails(ob) \/ FlatOpenFails(ob)
      PROVE  Blocks(csv')
  BY <1>3, CsvOpenFailsBlocks, FlatOpenFailsBlocks
<1>4. CASE Exit
  BY <1>4, ExitedBlocks, BufferedCsv DEF Exit, Blocks
<1>5. CASE Kill
  <2>1. csv' \in Csv!AfterKill(csv) /\ Buffered(csv)
    BY <1>5, BufferedCsv DEF Kill
  <2>2. QED
    BY <2>1, KilledBlocks DEF Blocks
<1>6. CASE Boot
  BY <1>1, <1>6 DEF Boot
<1>7. CASE UNCHANGED vars
  BY <1>1, <1>7 DEF vars
<1>8. QED
  BY <1>2, <1>3, <1>4, <1>5, <1>6, <1>7 DEF Next

-----------------------------------------------------------------------------
(* The theorems *)

LEMMA HistoryInvariant == HSpec => [](Memory /\ Streams /\ LatestStored)
<1>1. HInit => Memory /\ Streams /\ LatestStored
  <2> SUFFICES ASSUME HInit PROVE Memory /\ Streams /\ LatestStored
    OBVIOUS
  <2>1. Memory /\ Streams
    BY InitHolds DEF HInit
  <2>2. LatestStored
    BY ItemColumns DEF HInit, Init, FreshMemory, NothingReported, LatestStored
  <2>3. QED
    BY <2>1, <2>2
<1>2. Memory /\ Streams /\ LatestStored /\ [HNext]_hvars
          => (Memory /\ Streams /\ LatestStored)'
  BY NextKeeps, StepMatches, HistoryNext DEF Matches
<1>3. QED
  BY <1>1, <1>2, PTL DEF HSpec

(***************************************************************************)
(* m_observations holds the interval's last reading of every item, and 0   *)
(* for the others.                                                         *)
(***************************************************************************)
THEOREM LatestIsStored == HSpec => []LatestStored
BY HistoryInvariant, PTL

(***************************************************************************)
(* Every row a step adds to a CSV file holds the last reading of each item *)
(* in its interval, and no reading of an earlier one.                      *)
(***************************************************************************)
THEOREM RowsHoldInterval == HSpec => RowHoldsInterval
<1> DEFINE Holds == \A row \in NewRows : \A c \in ItemId :
                        IF latest[c] # Blank THEN row[c] = latest[c]
                                             ELSE row[c] \in {Blank, 0}
<1>1. Memory /\ Streams /\ LatestStored /\ [HNext]_hvars => [Holds]_hvars
  BY StepMatches DEF Matches, RowMatches
<1>2. QED
  BY <1>1, HistoryInvariant, PTL DEF HSpec, RowHoldsInterval

(***************************************************************************)
(* A row without a time in its Utc column ends the block of rows it stands *)
(* in, in every file, through kills and restarts.                          *)
(***************************************************************************)
THEOREM UntimedRowsEndBlocks == HSpec => []UntimedRowBeforeHeadings
<1>1. HInit => Blocks(csv)
  BY DEF HInit, Init, Blocks, UntimedEndsBlock, EndsTimed
<1>2. Memory /\ Streams /\ Blocks(csv) /\ [HNext]_hvars => Blocks(csv)'
  BY StepBlocks, HistoryNext
<1>3. Blocks(csv) => UntimedRowBeforeHeadings
  BY DEF UntimedRowBeforeHeadings
<1>4. QED
  BY <1>1, <1>2, <1>3, HistoryInvariant, PTL DEF HSpec

-----------------------------------------------------------------------------
(* The conversion of a flat log (Offline) *)

\* m_bgToCsvMap.at throws for an item without a column, before anything is done.
LEMMA UnmappedIgnored ==
    ASSUME NEW ob, ob.id \notin Mapped, ProcessObservation(ob)
    PROVE  UNCHANGED <<memory, csv>>
  <1>1. ClockMapped => ob.id # DateId /\ ob.id # TimeId
    BY DEF ClockMapped
  <1>2. ob.id \notin ItemId
    BY DEF ItemId
  <1>3. OnlyLoggedFlat(ob)
    BY <1>1, <1>2 DEF ProcessObservation, DateStartsFiles, TimeStartsFiles, DateStored,
                      TimeStored, TimeStartsRow, ItemStored
  <1> QED BY <1>3 DEF OnlyLoggedFlat

\* The theorems about lines, which are in none of the state of FlatLog.
LineP == INSTANCE FlatLogProofs
    WITH Data <- {}, MaxLines <- 0, MaxBoots <- 0, file <- unread, buffer <- unread, written <- unread,
         start <- 0, continues <- FALSE

LEMMA SameFormat ==
    /\ \A o : LineP!Str(o) = Str(o)
    /\ \A line : LineP!Parts(line) = Parts(line)
    /\ \A line : LineP!Ungarbled(line) <=> Ungarbled(line)
    /\ \A line : LineP!FromLine(line) = FromLine(line)
  <1>1. /\ \A n, sep : LineP!Piece(n, sep) = Piece(n, sep)
        /\ \A n : LineP!Whole(n) = Whole(n)
        /\ \A b : LineP!Bit(b) = Bit(b)
        /\ LineP!NoFraction = NoFraction
    BY DEF LineP!Piece, Piece, LineP!Whole, Whole, LineP!Bit, Bit, LineP!NoFraction, NoFraction
  <1>2. LineP!Comma = Comma /\ LineP!Point = Point /\ LineP!EndOfLine = EndOfLine
    BY Zenon DEF LineP!Comma, Comma, LineP!Point, Point, LineP!EndOfLine, EndOfLine
  <1>3. \A n, sep : LineP!Put(n, sep) = Put(n, sep)
    BY <1>1, <1>2 DEF LineP!Put, Put
  <1>4. \A o : LineP!Str(o) = Str(o)
    BY <1>1, <1>2, <1>3 DEF LineP!Str, Str
  <1>5. \A line : LineP!Parts(line) = Parts(line)
    BY Zenon DEF LineP!Parts, Parts, LineP!Leading, Leading, LineP!Piece, Piece, LineP!End, End
  <1>6. \A line : LineP!Start(line) = Start(line)
    BY DEF LineP!Start, Start, LineP!AfterDouble, AfterDouble,
           LineP!ReadsFraction, ReadsFraction, LineP!Point, Point
  <1>7. \A line, k : LineP!Readable(line, k) <=> Readable(line, k)
    BY <1>6 DEF LineP!Readable, Readable
  <1>8. \A line, k : LineP!NumberAt(line, k) = NumberAt(line, k)
    BY <1>6, <1>7 DEF LineP!NumberAt, NumberAt, LineP!ReadsFraction, ReadsFraction,
           LineP!Whole, Whole, LineP!NoFraction, NoFraction, LineP!Point, Point,
           LineP!Doubles, Doubles
  <1>9. \A line : LineP!Ungarbled(line) <=> Ungarbled(line)
    BY <1>7 DEF LineP!Ungarbled, Ungarbled, LineP!Fields, Fields
  <1>10. \A line : LineP!FromLine(line) = FromLine(line)
    BY <1>8, <1>9 DEF LineP!FromLine, FromLine, LineP!ObservedId, ObservedId
  <1> QED BY <1>4, <1>5, <1>9, <1>10

(***************************************************************************)
(* Whatever a kill has left of any observation's line, its conversion      *)
(* changes nothing or does what the whole line would have done: either the *)
(* mark the line ends up with, id -1, has no column, or the id and the     *)
(* value stand before what is missing.                                     *)
(***************************************************************************)
THEOREM TornLinesAreHarmless == OSpec => TornLineIgnoredOrWhole
  <1> DEFINE Harmless ==
        unread' # unread =>
            \A o \in Logged : NextLine \in Parts(Str(o)) =>
                \/ UNCHANGED <<memory, csv>>
                \/ ProcessObservation(Observed(Str(o)))
  <1>1. [ONext]_ovars => [Harmless]_ovars
    <2> SUFFICES ASSUME ONext, unread' # unread,
                        NEW o \in Logged, NextLine \in Parts(Str(o))
                 PROVE  UNCHANGED <<memory, csv>> \/ ProcessObservation(Observed(Str(o)))
      BY DEF ovars
    <2>1. ReadLine
      BY DEF ONext, OpenInput, NoInput, LineFails, EndInput
    <2>2. ProcessObservation(Observed(NextLine))
      BY <2>1 DEF ReadLine
    <2>3. CASE ~Ungarbled(NextLine)
      <3>1. Observed(NextLine).id = -1
        BY <2>3 DEF Observed, FromLine, ObservedId
      <3> QED BY <2>2, <3>1, ConstantsAssumption, UnmappedIgnored
    <2>4. CASE Ungarbled(NextLine)
      <3>1. /\ FromLine(NextLine).id = FromLine(Str(o)).id
            /\ FromLine(NextLine).val.whole = FromLine(Str(o)).val.whole
        <4>1. NextLine \in LineP!Parts(LineP!Str(o)) /\ LineP!Ungarbled(NextLine)
          BY <2>4, SameFormat
        <4>2. /\ LineP!FromLine(NextLine).id = LineP!FromLine(LineP!Str(o)).id
              /\ LineP!FromLine(NextLine).val.whole = LineP!FromLine(LineP!Str(o)).val.whole
          BY <4>1, LineP!TornReadBack
        <4> QED BY <4>2, SameFormat
      <3>2. Observed(NextLine) = Observed(Str(o))
        BY <3>1 DEF Observed
      <3> QED BY <2>2, <3>2
    <2> QED BY <2>3, <2>4
  <1> QED BY <1>1, PTL DEF OSpec, TornLineIgnoredOrWhole

\* The line that is read, and what is left behind it.
LEMMA LinesObservable ==
    ASSUME Observable(unread), unread # <<>>
    PROVE  Observed(NextLine) \in Observation /\ Observable(Rest)
  <1> DEFINE S == Range(unread)
  <1>1. unread \in Seq(S) /\ \A line \in S : Observed(line) \in Observation
    BY DEF Observable
  <1> HIDE DEF S
  <1>2. NextLine \in S /\ Rest \in Seq(S)
    BY <1>1 DEF NextLine, Rest
  <1>3. Range(Rest) \subseteq S /\ Rest \in Seq(Range(Rest))
    BY <1>2 DEF Range
  <1> QED BY <1>1, <1>2, <1>3 DEF Observable

(***************************************************************************)
(* ProcessFlatLog drives the logger as the websocket session does: the     *)
(* conversion of any log is a behaviour of H5000Logger, ended by its exit  *)
(* or by a file that cannot be opened.                                     *)
(***************************************************************************)
THEOREM ConversionIsLogger == OSpec => Spec
  <1>1. OInit => Init /\ Observable(unread)
    BY InputAssumption DEF OInit
  <1>2. Observable(unread) /\ [ONext]_ovars => Observable(unread)' /\ [Next]_vars
    <2> SUFFICES ASSUME Observable(unread), [ONext]_ovars
                 PROVE  Observable(unread)' /\ [Next]_vars
      OBVIOUS
    <2>1. CASE OpenInput \/ UNCHANGED ovars
      BY <2>1 DEF OpenInput, ovars
    <2>2. CASE NoInput \/ EndInput
      BY <2>2 DEF NoInput, EndInput, Next
    <2>3. CASE ReadLine
      <3>1. unread # <<>> /\ unread' = Rest /\ ProcessObservation(Observed(NextLine))
        BY <2>3 DEF ReadLine
      <3>2. Observed(NextLine) \in Observation /\ Observable(unread)'
        BY <3>1, LinesObservable
      <3> QED BY <3>1, <3>2 DEF Next
    <2>4. CASE LineFails
      <3>1. unread # <<>> /\ unread' = unread /\ CsvOpenFails(Observed(NextLine))
        BY <2>4 DEF LineFails
      <3>2. Observed(NextLine) \in Observation
        BY <3>1, LinesObservable
      <3> QED BY <3>1, <3>2 DEF Next
    <2> QED BY <2>1, <2>2, <2>3, <2>4 DEF ONext
  <1> QED BY <1>1, <1>2, PTL DEF OSpec, Spec

(***************************************************************************)
(* The rows of a converted log are in time order under their headings,     *)
(* torn lines, repeated times and dates in any order included.             *)
(***************************************************************************)
THEOREM ConvertedRowsInOrder == OSpec => [](RowTimesIncrease /\ HeadingsFirst)
  BY ConversionIsLogger, RowsInOrder, HeadingsComeFirst, PTL
=============================================================================
