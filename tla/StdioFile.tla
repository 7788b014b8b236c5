----------------------------- MODULE StdioFile -----------------------------
(***************************************************************************)
(* The C stdio stream (FILE * ) the two log writers hold, as far as the    *)
(* writers use it: fopen in append mode, fputs, fflush, fclose, and what a *)
(* process that ends leaves on the disk.  External: the C library.         *)
(*                                                                         *)
(* A stream is a record                                                    *)
(*   file    the open file, or NoFile for a NULL FILE pointer              *)
(*   lines   for every file name, the lines put into that file so far      *)
(*   synced  for every file name, how many of those lines the process has  *)
(*           certainly handed to the operating system.                     *)
(* Lines beyond synced[f] sit in the stdio buffer.  stdio may write a full *)
(* buffer out at any moment, so a killed process leaves some prefix.       *)
(***************************************************************************)
EXTENDS Integers, Sequences

CONSTANTS Name,     \* the file names of the stream
          NoFile    \* the NULL FILE pointer

\* The stream types over a set of lines.
Stream(Line) ==
    [file : Name \cup {NoFile}, lines : [Name -> Seq(Line)], synced : [Name -> Nat]]

\* A stream that has not been opened, over what earlier runs left on the disk.
Unopened(w) == [w EXCEPT !.file = NoFile]

FOpen(w, name) == [w EXCEPT !.file = name]

FPuts(w, line) == [w EXCEPT !.lines[w.file] = Append(@, line)]

FFlush(w) == [w EXCEPT !.synced[w.file] = Len(w.lines[w.file])]

FClose(w) == Unopened(FFlush(w))

\* exit() and a return from main() flush and close every open stream.
AfterExit(w) == IF w.file = NoFile THEN w ELSE FClose(w)

\* A killed process loses a suffix of the buffered lines, possibly none.
AfterKill(w) ==
    IF w.file = NoFile
    THEN {w}
    ELSE {[file   |-> NoFile,
           lines  |-> [w.lines EXCEPT ![w.file] = SubSeq(@, 1, kept)],
           synced |-> [w.synced EXCEPT ![w.file] = kept]] :
          kept \in w.synced[w.file] .. Len(w.lines[w.file])}

\* Only the end of the open file is buffered, and no line of Kept is in it.
BuffersNone(w, Kept) ==
    \A f \in Name :
        /\ w.synced[f] <= Len(w.lines[f])
        /\ f # w.file => w.synced[f] = Len(w.lines[f])
        /\ \A i \in w.synced[f] + 1 .. Len(w.lines[f]) : w.lines[f][i] \notin Kept
=============================================================================
