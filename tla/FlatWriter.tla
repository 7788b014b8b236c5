----------------------------- MODULE FlatWriter ----------------------------
(***************************************************************************)
(* BgFlatWriter (src/bg-flat-writer-class.cpp): the stream m_oFile and the *)
(* operations of the class, each a function from stream to stream.         *)
(***************************************************************************)
EXTENDS StdioFile

CONSTANTS EarlyLog,     \* "flatlog.log", used until a date is known
          TimeId        \* the data id (35) whose observations force a flush

\* Mutant of ProcessObservation: the flush on a new timestamp is forgotten.
UnflushedObservation(w, o) ==
    FPuts(IF w.file = NoFile THEN FOpen(w, EarlyLog) ELSE w, o)

(***************************************************************************)
(* ProcessObservation: with no open file, open flatlog.log; put the line;  *)
(* flush when the observation is a UTC time.                               *)
(***************************************************************************)
ProcessObservation(w, o) ==
    LET put == FPuts(IF w.file = NoFile THEN FOpen(w, EarlyLog) ELSE w, o)
    IN  IF o.id = TimeId THEN FFlush(put) ELSE put

\* Mutant of NewFile: the file of the date is opened to write, not to append.
OverwritingNewFile(w, name, opened) ==
    LET closed == AfterExit(w)
    IN  IF opened
        THEN FOpen([closed EXCEPT !.lines[name] = <<>>, !.synced[name] = 0], name)
        ELSE closed

\* NewFile: close the old file, try to open the file of the date.  When fopen
\* fails the stream stays NULL and the next observation opens flatlog.log.
NewFile(w, name, opened) ==
    IF opened THEN FOpen(AfterExit(w), name) ELSE AfterExit(w)
=============================================================================
