----------------------------- MODULE CsvWriter -----------------------------
(***************************************************************************)
(* BgCsvWriter (src/bg-csv-writer-class.cpp): the stream m_oFile and the   *)
(* operations of the class, each a function from stream to stream.         *)
(***************************************************************************)
EXTENDS StdioFile

CONSTANT Header     \* the line of column headings

\* Mutant of WriteObservations: the row is not flushed.
UnflushedRow(w, row) == IF w.file = NoFile THEN w ELSE FPuts(w, row)

(***************************************************************************)
(* WriteObservations: a row is written, and flushed, only when a file is   *)
(* open; otherwise it is dropped without a word.                           *)
(***************************************************************************)
WriteObservations(w, row) ==
    IF w.file = NoFile THEN w ELSE FFlush(FPuts(w, row))

\* Mutant of NewFile: no headings are put.
UnheadedNewFile(w, name) == FOpen(AfterExit(w), name)

(***************************************************************************)
(* NewFile: close the old file if there is one, open the file of the new   *)
(* date for appending and put the headings, which are not flushed.         *)
(***************************************************************************)
NewFile(w, name) == FPuts(FOpen(AfterExit(w), name), Header)
=============================================================================
