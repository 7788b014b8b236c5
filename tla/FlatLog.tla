------------------------------ MODULE FlatLog -------------------------------
(***************************************************************************)
(* The text of one flat log (flatlog.log, or the log of a day) over the    *)
(* lives of the processes that append to it: BgFlatWriter::                *)
(* ProcessObservation down to the characters, with a kill that cuts the    *)
(* text anywhere behind the last flush; and what can be read back from it. *)
(***************************************************************************)
EXTENDS FlatFormat

CONSTANTS
    Data,       \* the JSON of the observations received
    TimeId,     \* the data id (35) whose observations force a flush
    MaxLines,   \* bound: lines in the file
    MaxBoots    \* bound: processes in a behaviour

ASSUME FlatLogAssumption == MaxLines \in Nat /\ MaxBoots \in Nat

VARIABLES
    file,       \* the text that is certainly in the file
    buffer,     \* the text behind it in the stdio buffer
    alive,      \* a process has the log open
    boots,      \* processes so far
    written,    \* history: the observations that the last process logged
    start,      \* history: the lines of the file before its first
    continues   \* history: its first line continues a torn one

vars == <<file, buffer, alive, boots, written, start, continues>>

\* Mutant of Log: no flush at a new timestamp.
LogUnflushed(o) ==
    /\ alive /\ start + Len(written) < MaxLines
    /\ buffer' = Append(buffer, Str(o))
    /\ written' = Append(written, o)
    /\ UNCHANGED <<file, alive, boots, start, continues>>

\* ProcessObservation: a line, flushed when it is a UTC time's.
Log(o) ==
    /\ alive /\ start + Len(written) < MaxLines
    /\ LET text == Append(buffer, Str(o))
       IN  IF o.id = TimeId
           THEN file' = AppendText(file, text) /\ buffer' = <<>>
           ELSE buffer' = text /\ UNCHANGED file
    /\ written' = Append(written, o)
    /\ UNCHANGED <<alive, boots, start, continues>>

\* The process is killed: any part of the buffer may have reached the file.
\* (A reader of the file may find it like that before, too.)
Kill ==
    /\ alive
    /\ alive' = FALSE
    /\ \E part \in Cuts(buffer) : file' = AppendText(file, part)
    /\ buffer' = <<>>
    /\ UNCHANGED <<boots, written, start, continues>>

\* The lines of a text before a torn one.
WholeLines(text) == Len(text) - Bit(Torn(text))

\* The next process opens the file to append, whatever it ends in.
Boot ==
    /\ ~alive /\ boots < MaxBoots
    /\ alive' = TRUE
    /\ boots' = boots + 1
    /\ written' = <<>>
    /\ continues' = Torn(file)
    /\ start' = WholeLines(file)
    /\ UNCHANGED <<file, buffer>>

Init ==
    /\ file = <<>> /\ buffer = <<>>
    /\ alive = TRUE /\ boots = 1
    /\ written = <<>> /\ start = 0 /\ continues = FALSE

Next ==
    \/ \E data \in Data : FromJson(data).valid /\ Log(FromJson(data))
    \/ Kill
    \/ Boot

Spec == Init /\ [][Next]_vars

-----------------------------------------------------------------------------
(* Properties *)

ReadBack == [l \in DOMAIN file |-> FromLine(file[l])]

IsUngarbled(o) == o.id # -1

\* The n-th line of the last process is not its own from the beginning.
Spoilt(n) == n = 1 /\ continues

(***************************************************************************)
(* The lines a process leaves in the file are those of the first           *)
(* observations it logged, in order, and read back with their ids: a       *)
(* number with a fraction is not taken for two, and a line cut short by a  *)
(* kill is recognised or still yields its own id.  Only the first can be   *)
(* spoilt, by a torn line of the previous process.  (str, the constructor  *)
(* from a string, its exception handler; fopen to append.)                 *)
(***************************************************************************)
IdsReadBack ==
    \A n \in 1 .. Len(file) - start :
        \/ Spoilt(n)
        \/ /\ n \in DOMAIN written
           /\ \/ ReadBack[start + n].id = written[n].id
              \/ start + n = Len(file) /\ ~IsUngarbled(ReadBack[start + n])

(***************************************************************************)
(* None of the lines a process logs up to its last time is lost or garbled *)
(* by a kill (the flush on data id 35, down to the characters).            *)
(***************************************************************************)
TimesReadBack ==
    \A t \in DOMAIN written : written[t].id = TimeId =>
        \A n \in 1 .. t :
            /\ start + n <= Len(file)
            /\ Spoilt(n) \/ ReadBack[start + n].id = written[n].id

(***************************************************************************)
(* Lines garbled because the logging program is not terminated gracefully  *)
(* are captured (bg-observation-class.cpp:65-66): an observation that is   *)
(* read has the id of one that was logged.  Not so after a restart: the    *)
(* first line of the next process continues the torn one.                  *)
(***************************************************************************)
GarbledCaptured ==
    \A l \in DOMAIN file :
        IsUngarbled(ReadBack[l]) => ReadBack[l].id \in {FromJson(data).id : data \in Data}
=============================================================================
