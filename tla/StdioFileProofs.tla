-------------------------- MODULE StdioFileProofs --------------------------
(***************************************************************************)
(* What the operations of StdioFile do to a stream whose open file alone   *)
(* is buffered, and whose buffer holds no line of Kept.                    *)
(***************************************************************************)
EXTENDS StdioFile, SequenceTheorems, TLAPS

Buffered(w, Line, Kept) == w \in Stream(Line) /\ BuffersNone(w, Kept)

\* Only the end of the file is missing, and no line of Kept is in that end.
Cut(lines2, lines, Kept) ==
    \E kept \in 0 .. Len(lines) :
        /\ lines2 = SubSeq(lines, 1, kept)
        /\ \A i \in kept + 1 .. Len(lines) : lines[i] \notin Kept

\* Nothing is buffered when every file is synced.
LEMMA AllSynced ==
    ASSUME NEW Kept, NEW w,
           \A f \in Name : w.synced[f] = Len(w.lines[f]) /\ Len(w.lines[f]) \in Nat
    PROVE  BuffersNone(w, Kept)
<1>1. ASSUME NEW f \in Name
      PROVE  /\ w.synced[f] <= Len(w.lines[f])
             /\ f # w.file => w.synced[f] = Len(w.lines[f])
             /\ w.synced[f] + 1 .. Len(w.lines[f]) = {}
  OBVIOUS
<1>2. QED
  BY <1>1, Zenon DEF BuffersNone

\* fopen after the old file is closed.
LEMMA Opened ==
    ASSUME NEW Line, NEW Kept, NEW w, Buffered(w, Line, Kept), w.file = NoFile,
           NEW name \in Name, NoFile \notin Name
    PROVE  LET w2 == FOpen(w, name)
           IN  /\ Buffered(w2, Line, Kept)
               /\ w2.file = name /\ w2.lines = w.lines /\ w2.synced = w.synced
<1> DEFINE w2 == FOpen(w, name)
<1>1. w2 = [file |-> name, lines |-> w.lines, synced |-> w.synced]
  BY DEF Buffered, FOpen, Stream
<1>2. w2 \in Stream(Line)
  BY <1>1 DEF Buffered, Stream
<1>3. BuffersNone(w2, Kept)
  <2> HIDE DEF w2
  <2>1. w2.lines = w.lines /\ w2.synced = w.synced
    BY <1>1
  <2>2. QED
    BY <2>1 DEF Buffered, BuffersNone
<1>4. QED
  BY <1>1, <1>2, <1>3 DEF Buffered

\* exit() keeps every line and closes the file.
LEMMA Exited ==
    ASSUME NEW Line, NEW Kept, NEW w, Buffered(w, Line, Kept), NoFile \notin Name
    PROVE  LET w2 == AfterExit(w)
           IN  /\ Buffered(w2, Line, Kept) /\ w2.file = NoFile /\ w2.lines = w.lines
               /\ \A f \in Name : w2.synced[f] = Len(w.lines[f])
<1> DEFINE w2 == AfterExit(w)
<1>1. CASE w.file = NoFile
  <2>1. w2 = w
    BY <1>1 DEF AfterExit
  <2>2. \A f \in Name : f # w.file
    BY <1>1
  <2>3. QED
    BY <1>1, <2>1, <2>2 DEF Buffered, BuffersNone
<1>2. CASE w.file # NoFile
  <2>1. w2 = [file |-> NoFile, lines |-> w.lines,
              synced |-> [w.synced EXCEPT ![w.file] = Len(w.lines[w.file])]]
    BY <1>2 DEF AfterExit, FClose, Unopened, FFlush, Buffered, Stream
  <2>2. w.file \in Name
    BY <1>2 DEF Buffered, Stream
  <2>3. w2 \in Stream(Line)
    BY <2>1, <2>2 DEF Buffered, Stream
  <2>4. ASSUME NEW f \in Name
        PROVE  w2.synced[f] = Len(w.lines[f]) /\ w2.lines[f] = w.lines[f] /\ Len(w.lines[f]) \in Nat
    <3> HIDE DEF w2
    <3>1. w2.lines[f] = w.lines[f] /\ w.lines[f] \in Seq(Line)
      BY <2>1 DEF Buffered, Stream
    <3>2. w2.synced[f] = Len(w.lines[f])
      BY <2>1 DEF Buffered, Stream, BuffersNone
    <3>3. QED
      BY <3>1, <3>2
  <2>5. BuffersNone(w2, Kept)
    BY <2>4, AllSynced
  <2>6. QED
    BY <2>1, <2>3, <2>4, <2>5 DEF Buffered
<1>3. QED
  BY <1>1, <1>2

LEMMA ExitSyncs ==
    ASSUME NEW Line, NEW Kept, NEW w, Buffered(w, Line, Kept), NoFile \notin Name,
           NEW f \in Name
    PROVE  AfterExit(w).synced[f] = Len(w.lines[f])
BY Exited

\* A kill closes the file and cuts it somewhere behind the last line of Kept.
LEMMA Killed ==
    ASSUME NEW Line, NEW Kept, NEW w, Buffered(w, Line, Kept),
           NEW w2 \in AfterKill(w)
    PROVE  /\ Buffered(w2, Line, Kept) /\ w2.file = NoFile
           /\ \A f \in Name : Cut(w2.lines[f], w.lines[f], Kept)
           /\ \A f \in Name : w.synced[f] <= Len(w2.lines[f])
<1>1. \A f \in Name : w.lines[f] \in Seq(Line) /\ Len(w.lines[f]) \in Nat
  BY DEF Buffered, Stream
<1>2. ASSUME NEW f \in Name
      PROVE  Cut(w.lines[f], w.lines[f], Kept)
  <2>1. SubSeq(w.lines[f], 1, Len(w.lines[f])) = w.lines[f]
    BY <1>1, SubSeqFull
  <2>2. Len(w.lines[f]) \in 0 .. Len(w.lines[f])
    BY <1>1
  <2>3. \A i \in Len(w.lines[f]) + 1 .. Len(w.lines[f]) : w.lines[f][i] \notin Kept
    BY <1>1
  <2>4. QED
    BY <2>1, <2>2, <2>3 DEF Cut
<1>3. CASE w.file = NoFile
  <2>1. w2 = w
    BY <1>3 DEF AfterKill
  <2>2. QED
    BY <1>2, <1>3, <2>1 DEF Buffered, BuffersNone
<1>4. CASE w.file # NoFile
  <2> DEFINE lines == w.lines[w.file]
  <2>1. w.file \in Name /\ w.synced[w.file] \in Nat /\ lines \in Seq(Line)
    BY <1>4 DEF Buffered, Stream
  <2>2. PICK kept \in w.synced[w.file] .. Len(lines) :
           w2 = [file   |-> NoFile,
                 lines  |-> [w.lines EXCEPT ![w.file] = SubSeq(lines, 1, kept)],
                 synced |-> [w.synced EXCEPT ![w.file] = kept]]
    BY <1>4 DEF AfterKill
  <2> DEFINE cut == SubSeq(lines, 1, kept)
  <2>3. kept \in 0 .. Len(lines)
    BY <2>1
  <2>4. cut \in Seq(Line) /\ Len(cut) = kept
    BY <2>1, <2>3, SubSeqProperties
  <2>5. w2 \in Stream(Line) /\ w2.file = NoFile
    BY <2>1, <2>2, <2>3, <2>4 DEF Buffered, Stream
  <2>6. ASSUME NEW f \in Name
        PROVE  /\ w2.lines[f] = IF f = w.file THEN cut ELSE w.lines[f]
               /\ w2.synced[f] = IF f = w.file THEN kept ELSE w.synced[f]
    BY <2>2 DEF Buffered, Stream
  <2>7. BuffersNone(w2, Kept)
    <3> SUFFICES ASSUME NEW f \in Name
                 PROVE  w2.synced[f] = Len(w2.lines[f]) /\ Len(w2.lines[f]) \in Nat
      BY AllSynced
    <3>1. CASE f = w.file
      <4>1. w2.lines[f] = cut /\ w2.synced[f] = kept
        BY <2>6, <3>1
      <4>2. QED
        BY <2>1, <2>3, <2>4, <4>1
    <3>2. CASE f # w.file
      BY <1>1, <2>6, <3>2 DEF Buffered, BuffersNone
    <3>3. QED
      BY <3>1, <3>2
  <2>8. ASSUME NEW f \in Name
        PROVE  Cut(w2.lines[f], w.lines[f], Kept)
    <3>1. CASE f = w.file
      <4>1. \A i \in kept + 1 .. Len(lines) : lines[i] \notin Kept
        BY <2>1, <2>2 DEF Buffered, BuffersNone
      <4>2. QED
        BY <2>3, <2>6, <3>1, <4>1 DEF Cut
    <3>2. CASE f # w.file
      BY <1>2, <2>6, <3>2
    <3>3. QED
      BY <3>1, <3>2
  <2>9. ASSUME NEW f \in Name
        PROVE  w.synced[f] <= Len(w2.lines[f])
    <3>1. CASE f = w.file
      <4>1. w2.lines[f] = cut
        BY <2>6, <3>1
      <4>2. QED
        BY <2>1, <2>4, <3>1, <4>1
    <3>2. CASE f # w.file
      <4>1. w2.lines[f] = w.lines[f]
        BY <2>6, <3>2
      <4>2. QED
        BY <4>1 DEF Buffered, BuffersNone
    <3>3. QED
      BY <3>1, <3>2
  <2>10. QED
    BY <2>5, <2>7, <2>8, <2>9 DEF Buffered
<1>5. QED
  BY <1>3, <1>4

\* fputs to an open file adds the line at its end.
LEMMA Put ==
    ASSUME NEW Line, NEW Kept, NEW w, Buffered(w, Line, Kept), w.file # NoFile,
           NEW line \in Line
    PROVE  LET put == FPuts(w, line)
           IN  /\ put \in Stream(Line) /\ put.file = w.file
               /\ \A f \in Name :
                     put.lines[f] = IF f = w.file THEN Append(w.lines[f], line) ELSE w.lines[f]
               /\ put.synced = w.synced
<1> DEFINE put == FPuts(w, line)
           lines == [w.lines EXCEPT ![w.file] = Append(w.lines[w.file], line)]
<1>1. w.file \in Name /\ w.lines[w.file] \in Seq(Line)
  BY DEF Buffered, Stream
<1>2. lines \in [Name -> Seq(Line)]
  BY <1>1 DEF Buffered, Stream
<1>3. put = [w EXCEPT !.lines = lines]
  BY DEF FPuts, Buffered, Stream
<1>4. /\ put \in Stream(Line)
      /\ put.file = w.file /\ put.synced = w.synced /\ put.lines = lines
  <2> HIDE DEF lines, put
  <2>1. QED
    BY <1>1, <1>2, <1>3 DEF Buffered, Stream
<1>5. QED
  BY <1>4 DEF Buffered, Stream

\* A line that is not of Kept may stay in the buffer.
LEMMA PutBuffered ==
    ASSUME NEW Line, NEW Kept, NEW w, Buffered(w, Line, Kept), w.file # NoFile,
           NEW line \in Line, line \notin Kept
    PROVE  Buffered(FPuts(w, line), Line, Kept)
<1> DEFINE put == FPuts(w, line)
<1>1. /\ put \in Stream(Line) /\ put.file = w.file /\ put.synced = w.synced
      /\ \A f \in Name :
            put.lines[f] = IF f = w.file THEN Append(w.lines[f], line) ELSE w.lines[f]
  BY Put
<1> HIDE DEF put
<1>2. ASSUME NEW f \in Name
      PROVE  /\ put.synced[f] <= Len(put.lines[f])
             /\ f # put.file => put.synced[f] = Len(put.lines[f])
             /\ \A i \in put.synced[f] + 1 .. Len(put.lines[f]) : put.lines[f][i] \notin Kept
  <2>1. /\ w.lines[f] \in Seq(Line) /\ w.synced[f] \in Nat
        /\ w.synced[f] <= Len(w.lines[f])
        /\ f # w.file => w.synced[f] = Len(w.lines[f])
        /\ \A i \in w.synced[f] + 1 .. Len(w.lines[f]) : w.lines[f][i] \notin Kept
    BY DEF Buffered, Stream, BuffersNone
  <2>2. CASE f = w.file
    <3>1. put.lines[f] = Append(w.lines[f], line)
      BY <1>1, <2>2
    <3>2. /\ Len(put.lines[f]) = Len(w.lines[f]) + 1
          /\ put.lines[f][Len(put.lines[f])] = line
          /\ \A i \in 1 .. Len(w.lines[f]) : put.lines[f][i] = w.lines[f][i]
      BY <2>1, <3>1
    <3>3. put.synced[f] = w.synced[f] /\ put.synced[f] <= Len(put.lines[f])
      BY <1>1, <2>1, <3>2
    <3>4. ASSUME NEW i \in put.synced[f] + 1 .. Len(put.lines[f])
          PROVE  put.lines[f][i] \notin Kept
      <4>1. CASE i = Len(put.lines[f])
        BY <3>2, <4>1
      <4>2. CASE i # Len(put.lines[f])
        <5>1. i \in w.synced[f] + 1 .. Len(w.lines[f]) /\ i \in 1 .. Len(w.lines[f])
          BY <2>1, <3>2, <3>3, <4>2
        <5>2. QED
          BY <2>1, <3>2, <5>1
      <4>3. QED
        BY <4>1, <4>2
    <3>5. QED
      BY <1>1, <2>2, <3>3, <3>4
  <2>3. CASE f # w.file
    <3>1. put.lines[f] = w.lines[f]
      BY <1>1, <2>3
    <3>2. QED
      BY <1>1, <2>1, <2>3, <3>1
  <2>4. QED
    BY <2>2, <2>3
<1>3. QED
  BY <1>1, <1>2 DEF Buffered, BuffersNone, put

\* Any line may be put if it is flushed at once.
LEMMA PutFlushed ==
    ASSUME NEW Line, NEW Kept, NEW w, Buffered(w, Line, Kept), w.file # NoFile,
           NEW line \in Line
    PROVE  LET w2 == FFlush(FPuts(w, line))
           IN  /\ Buffered(w2, Line, Kept)
               /\ w2.file = w.file /\ w2.lines = FPuts(w, line).lines
               /\ \A f \in Name : w2.synced[f] = Len(w2.lines[f])
<1> DEFINE put == FPuts(w, line)
           w2 == FFlush(put)
           synced == [w.synced EXCEPT ![w.file] = Len(put.lines[w.file])]
<1>1. /\ put \in Stream(Line) /\ put.file = w.file /\ put.synced = w.synced
      /\ \A f \in Name :
            put.lines[f] = IF f = w.file THEN Append(w.lines[f], line) ELSE w.lines[f]
  BY Put
<1> HIDE DEF put
<1>2. w.file \in Name
  BY DEF Buffered, Stream
<1>3. ASSUME NEW f \in Name
      PROVE  put.lines[f] \in Seq(Line) /\ Len(put.lines[f]) \in Nat
  <2>1. put.lines[f] \in Seq(Line)
    BY <1>1 DEF Stream
  <2>2. QED
    BY <2>1
<1>4. synced \in [Name -> Nat]
  BY <1>2, <1>3 DEF Buffered, Stream
<1>5. w2 = [put EXCEPT !.synced = synced]
  BY <1>1 DEF FFlush, Stream
<1>6. /\ w2 \in Stream(Line) /\ w2.file = w.file /\ w2.lines = put.lines
      /\ w2.synced = synced
  <2> HIDE DEF w2, synced
  <2>1. QED
    BY <1>1, <1>4, <1>5 DEF Stream
<1>7. ASSUME NEW f \in Name
      PROVE  w2.synced[f] = Len(w2.lines[f]) /\ Len(w2.lines[f]) \in Nat
  <2> HIDE DEF w2
  <2>1. CASE f = w.file
    BY <1>3, <1>6, <2>1 DEF Buffered, Stream
  <2>2. CASE f # w.file
    <3>1. w2.synced[f] = w.synced[f]
      BY <1>6, <2>2 DEF Buffered, Stream
    <3>2. w2.lines[f] = w.lines[f]
      BY <1>1, <1>6, <2>2
    <3>3. QED
      BY <1>3, <1>6, <2>2, <3>1, <3>2 DEF Buffered, BuffersNone
  <2>3. QED
    BY <2>1, <2>2
<1>8. QED
  BY <1>6, <1>7, AllSynced DEF Buffered, put
=============================================================================
