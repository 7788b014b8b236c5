-------------------------- MODULE LiveLoggerProofs --------------------------
(***************************************************************************)
(* The live program implements the logger of H5000Logger, for any messages *)
(* and any course of the session: what is proved of the logger holds of    *)
(* the observations and files of the live program.                         *)
(***************************************************************************)
EXTENDS LiveLogger, TLAPS

-----------------------------------------------------------------------------
(* The items of a message *)

\* A step of the session leaves the logger and the message alone.
LEMMA SessionStepKeeps ==
    ASSUME SessionStep
    PROVE  UNCHANGED <<coreVars, pending>>
  BY DEF SessionStep

\* What handleData is going to pass on are observations.
LEMMA ReceivePending ==
    ASSUME NEW root \in Message, Receive(root)
    PROVE  PendingObservations'
  <1>1. observed' = Session!HandleResponse(root)
    BY DEF Receive, Session!OnMessage, Session!HandleText
  <1>2. pending' = Observations(Session!HandleResponse(root))
    BY <1>1 DEF Receive
  <1> QED BY <1>2, MessageAssumption DEF PendingObservations

LEMMA InitPending == Init => PendingObservations
  BY DEF Init, PendingObservations

LEMMA StepPending ==
    ASSUME PendingObservations, [Next]_vars
    PROVE  PendingObservations'
  <1>1. CASE SessionStep
    BY <1>1, SessionStepKeeps DEF PendingObservations
  <1>2. ASSUME NEW root \in Message, Receive(root)
        PROVE  PendingObservations'
    BY <1>2, ReceivePending
  <1>3. ASSUME NEW root, TestAnswered(root)
        PROVE  PendingObservations'
    BY <1>3 DEF TestAnswered, PendingObservations
  <1>4. CASE ProcessNext
    BY <1>4 DEF ProcessNext, PendingObservations
  <1>5. CASE Return
    BY <1>5 DEF Return, PendingObservations
  <1>6. CASE Crash \/ Kill \/ Boot
    <2>1. pending' = pending \/ pending' = <<>>
      BY <1>6 DEF Crash, Kill, Boot, SessionGone
    <2>2. <<>> \in Seq(Core!Observation)
      OBVIOUS
    <2> QED BY <2>1, <2>2, Zenon DEF PendingObservations
  <1>7. CASE UNCHANGED vars
    BY <1>7 DEF vars, PendingObservations
  <1> QED BY <1>1, <1>2, <1>3, <1>4, <1>5, <1>6, <1>7 DEF Next

\* A message never holds anything but observations for the logger.
LEMMA PendingIsObservations == Spec => []PendingObservations
  BY InitPending, StepPending, PTL DEF Spec

-----------------------------------------------------------------------------
(* Refinement *)

LEMMA StepOfLogger ==
    ASSUME PendingObservations, [Next]_vars
    PROVE  [Core!Next]_Core!vars
  <1>1. CASE SessionStep
    BY <1>1, SessionStepKeeps DEF coreVars, Core!vars
  <1>2. ASSUME NEW root, Receive(root)
        PROVE  UNCHANGED Core!vars
    BY <1>2 DEF Receive, coreVars, Core!vars
  <1>3. ASSUME NEW root, TestAnswered(root)
        PROVE  Core!Next
    BY <1>3 DEF TestAnswered, Core!Next
  <1>4. CASE ProcessNext
    <2>1. Head(pending) \in Core!Observation
      BY <1>4 DEF ProcessNext, PendingObservations
    <2>2. Core!ProcessObservation(Head(pending))
      BY <1>4 DEF ProcessNext
    <2> QED BY <2>1, <2>2 DEF Core!Next
  <1>5. CASE Return
    BY <1>5 DEF Return, Core!Next
  <1>6. CASE Crash
    <2>1. Head(pending) \in Core!Observation
      BY <1>6 DEF Crash, PendingObservations
    <2>2. Core!CsvOpenFails(Head(pending)) \/ Core!FlatOpenFails(Head(pending))
      BY <1>6 DEF Crash
    <2> QED BY <2>1, <2>2 DEF Core!Next
  <1>7. CASE Kill
    BY <1>7 DEF Kill, Core!Next
  <1>8. CASE Boot
    BY <1>8 DEF Boot, Core!Next
  <1>9. CASE UNCHANGED vars
    BY <1>9 DEF vars, coreVars, Core!vars
  <1> QED BY <1>1, <1>2, <1>3, <1>4, <1>5, <1>6, <1>7, <1>8, <1>9 DEF Next

(***************************************************************************)
(* The live program is a logger: ProcessObservation is only ever called    *)
(* with an observation, within one process, and nothing else changes the   *)
(* observations or the files.                                              *)
(***************************************************************************)
THEOREM LiveIsLogger == Spec => IsLogger
  <1>1. Init => Core!Init
    BY DEF Init
  <1>2. PendingObservations /\ [Next]_vars => [Core!Next]_Core!vars
    BY StepOfLogger
  <1> QED BY <1>1, <1>2, PendingIsObservations, PTL DEF Spec, IsLogger, Core!Spec

-----------------------------------------------------------------------------
(* The theorems about the logger, for the logger in the live program *)

\* The history variable of LoggerHistory and the state of Offline are in none of
\* the lemmas used here.
CoreP == INSTANCE H5000LoggerProofs
    WITH latest <- received, mode <- pending, input <- pending, unread <- pending,
         InputLog <- {}, Logged <- {}

LEMMA LoggerConstantsHold == CoreP!LoggerConstants /\ Header \notin CoreP!Row
  BY LoggerAssumption
     DEF Core!LoggerConstants, CoreP!LoggerConstants,
         Core!DataId, CoreP!DataId, Core!Row, CoreP!Row,
         Core!Column, CoreP!Column

\* The two instances of the logger are the same: the writers, the operators on
\* the observations, the actions.
LEMMA SameWriters ==
    /\ \A w, row : Core!Csv!WriteObservations(w, row) = CoreP!Csv!WriteObservations(w, row)
    /\ \A w, name : Core!Csv!NewFile(w, name) = CoreP!Csv!NewFile(w, name)
    /\ \A w : Core!Csv!AfterExit(w) = CoreP!Csv!AfterExit(w)
    /\ \A w : Core!Csv!AfterKill(w) = CoreP!Csv!AfterKill(w)
    /\ \A w, ob : Core!Flat!ProcessObservation(w, ob) = CoreP!Flat!ProcessObservation(w, ob)
    /\ \A w, name, opened :
          Core!Flat!NewFile(w, name, opened) = CoreP!Flat!NewFile(w, name, opened)
    /\ \A w : Core!Flat!AfterExit(w) = CoreP!Flat!AfterExit(w)
    /\ \A w : Core!Flat!AfterKill(w) = CoreP!Flat!AfterKill(w)
  BY Zenon
     DEF Core!Csv!WriteObservations, CoreP!Csv!WriteObservations,
         Core!Csv!NewFile, CoreP!Csv!NewFile,
         Core!Csv!AfterExit, CoreP!Csv!AfterExit,
         Core!Csv!AfterKill, CoreP!Csv!AfterKill,
         Core!Csv!FOpen, CoreP!Csv!FOpen, Core!Csv!FPuts, CoreP!Csv!FPuts,
         Core!Csv!FFlush, CoreP!Csv!FFlush, Core!Csv!FClose, CoreP!Csv!FClose,
         Core!Csv!Unopened, CoreP!Csv!Unopened,
         Core!Flat!ProcessObservation, CoreP!Flat!ProcessObservation,
         Core!Flat!NewFile, CoreP!Flat!NewFile,
         Core!Flat!AfterExit, CoreP!Flat!AfterExit,
         Core!Flat!AfterKill, CoreP!Flat!AfterKill,
         Core!Flat!FOpen, CoreP!Flat!FOpen, Core!Flat!FPuts, CoreP!Flat!FPuts,
         Core!Flat!FFlush, CoreP!Flat!FFlush,
         Core!Flat!FClose, CoreP!Flat!FClose,
         Core!Flat!Unopened, CoreP!Flat!Unopened

LEMMA SameOperators ==
    /\ Core!Day = CoreP!Day /\ Core!Observation = CoreP!Observation
    /\ Core!FreshMemory = CoreP!FreshMemory /\ Core!ItemId = CoreP!ItemId
    /\ (Core!ClockMapped <=> CoreP!ClockMapped)
    /\ \A d : Core!MakeFileName(d) = CoreP!MakeFileName(d)
    /\ \A ob : Core!ExcelDate(ob) = CoreP!ExcelDate(ob)
    /\ \A ob, val : Core!Stored(ob, val) = CoreP!Stored(ob, val)
    /\ \A ob : Core!Marked(ob) = CoreP!Marked(ob)
    /\ \A o : Core!Clear(o) = CoreP!Clear(o) /\ Core!Stamped(o) = CoreP!Stamped(o)
    /\ \A s : Core!MarkStamped(s) = CoreP!MarkStamped(s)
    /\ \A o, s : Core!Cells(o, s) = CoreP!Cells(o, s)
    /\ \A v : Core!TicksToSeconds(v) = CoreP!TicksToSeconds(v)
    /\ \A v : Core!LaterThanRow(v) <=> CoreP!LaterThanRow(v)
  <1>1. /\ \A d : Core!MakeFileName(d) = CoreP!MakeFileName(d)
        /\ \A ob : Core!ExcelDate(ob) = CoreP!ExcelDate(ob)
    BY SMT DEF Core!MakeFileName, CoreP!MakeFileName,
               Core!ExcelDate, CoreP!ExcelDate,
               Core!ExcelOffset, CoreP!ExcelOffset,
               Core!UnixEpoch, CoreP!UnixEpoch
  <1>2. Core!Day = CoreP!Day
    BY <1>1, SMT DEF Core!Day, CoreP!Day, Core!ExcelOffset, CoreP!ExcelOffset
  <1> QED BY <1>1, <1>2, Zenon
             DEF Core!Observation, CoreP!Observation,
                 Core!FreshMemory, CoreP!FreshMemory,
                 Core!ItemId, CoreP!ItemId,
                 Core!ClockMapped, CoreP!ClockMapped,
                 Core!Stored, CoreP!Stored, Core!Marked, CoreP!Marked,
                 Core!Clear, CoreP!Clear, Core!Stamped, CoreP!Stamped,
                 Core!MarkStamped, CoreP!MarkStamped, Core!Cells, CoreP!Cells,
                 Core!TicksToSeconds, CoreP!TicksToSeconds,
                 Core!LaterThanRow, CoreP!LaterThanRow,
                 Core!Column, CoreP!Column

LEMMA SameFiles ==
    /\ \A o, s : Core!StartedCsv(o, s) = CoreP!StartedCsv(o, s)
    /\ \A w, ob : Core!LogFlat(w, ob) = CoreP!LogFlat(w, ob)
    /\ \A ob : Core!StartsFiles(ob) <=> CoreP!StartsFiles(ob)
    /\ \A ob : Core!Started(ob) = CoreP!Started(ob)
    /\ \A ob : Core!Handles(ob) <=> CoreP!Handles(ob)
    /\ (Core!Forget <=> CoreP!Forget) /\ (Core!Arrives <=> CoreP!Arrives)
  BY SameWriters, SameOperators, Zenon
     DEF Core!StartedCsv, CoreP!StartedCsv, Core!LogFlat, CoreP!LogFlat,
         Core!StartsFiles, CoreP!StartsFiles, Core!Started, CoreP!Started,
         Core!Handles, CoreP!Handles, Core!Arrives, CoreP!Arrives,
         Core!Forget, CoreP!Forget

LEMMA SameProcessObservation ==
    ASSUME NEW ob
    PROVE  Core!ProcessObservation(ob) <=> CoreP!ProcessObservation(ob)
  <1>1. \A o, s, opened : Core!NewDate(o, s, ob, opened) <=> CoreP!NewDate(o, s, ob, opened)
    BY SameWriters, SameOperators, SameFiles DEF Core!NewDate, CoreP!NewDate
  <1>2. \A o, s, utctime : Core!NewTime(o, s, utctime, ob) <=> CoreP!NewTime(o, s, utctime, ob)
    BY SameWriters, SameOperators, SameFiles DEF Core!NewTime, CoreP!NewTime
  <1>3. \A val : Core!Store(ob, val) <=> CoreP!Store(ob, val)
    BY SameOperators, SameFiles DEF Core!Store, CoreP!Store
  <1>4. \A opened : /\ Core!DateStartsFiles(ob, opened) <=> CoreP!DateStartsFiles(ob, opened)
                    /\ Core!TimeStartsFiles(ob, opened) <=> CoreP!TimeStartsFiles(ob, opened)
    BY <1>1, SameOperators, SameFiles
       DEF Core!DateStartsFiles, CoreP!DateStartsFiles,
           Core!TimeStartsFiles, CoreP!TimeStartsFiles
  <1>5. /\ Core!DateStored(ob) <=> CoreP!DateStored(ob)
        /\ Core!TimeStored(ob) <=> CoreP!TimeStored(ob)
        /\ Core!ItemStored(ob) <=> CoreP!ItemStored(ob)
    BY <1>3, SameOperators, SameFiles
       DEF Core!DateStored, CoreP!DateStored,
           Core!TimeStored, CoreP!TimeStored,
           Core!ItemStored, CoreP!ItemStored
  <1>6. Core!TimeStartsRow(ob) <=> CoreP!TimeStartsRow(ob)
    BY <1>2, SameOperators, SameFiles DEF Core!TimeStartsRow, CoreP!TimeStartsRow
  <1>7. Core!OnlyLoggedFlat(ob) <=> CoreP!OnlyLoggedFlat(ob)
    BY SameOperators, SameFiles
       DEF Core!OnlyLoggedFlat, CoreP!OnlyLoggedFlat,
           Core!memory, CoreP!memory
  <1> QED BY <1>4, <1>5, <1>6, <1>7 DEF Core!ProcessObservation, CoreP!ProcessObservation

LEMMA SameNext == Core!Next <=> CoreP!Next
  <1>1. \A ob : /\ Core!CsvOpenFails(ob) <=> CoreP!CsvOpenFails(ob)
                /\ Core!FlatOpenFails(ob) <=> CoreP!FlatOpenFails(ob)
    BY SameWriters, SameOperators, SameFiles
       DEF Core!CsvOpenFails, CoreP!CsvOpenFails,
           Core!FlatOpenFails, CoreP!FlatOpenFails
  <1>2. /\ Core!Exit <=> CoreP!Exit
        /\ Core!Kill <=> CoreP!Kill
        /\ Core!Boot <=> CoreP!Boot
    BY SameWriters, SameFiles
       DEF Core!Exit, CoreP!Exit, Core!Kill, CoreP!Kill, Core!Boot, CoreP!Boot,
           Core!memory, CoreP!memory
  <1> QED BY <1>1, <1>2, SameProcessObservation, SameOperators DEF Core!Next, CoreP!Next

LEMMA SameStates == (Core!Init <=> CoreP!Init) /\ Core!vars = CoreP!vars
  BY SameOperators DEF Core!Init, CoreP!Init, Core!vars, CoreP!vars

\* All that is proved of the logger holds of the live program.
LEMMA LiveIsCore == Spec => CoreP!Spec
  <1>1. Init => CoreP!Init
    BY SameStates DEF Init
  <1>2. PendingObservations /\ [Next]_vars => [CoreP!Next]_CoreP!vars
    <2> SUFFICES ASSUME PendingObservations, [Next]_vars PROVE [CoreP!Next]_CoreP!vars
      OBVIOUS
    <2>1. [Core!Next]_Core!vars
      BY StepOfLogger
    <2>2. CASE Core!Next
      BY <2>2, SameNext
    <2>3. CASE UNCHANGED Core!vars
      BY <2>3 DEF Core!vars, CoreP!vars
    <2> QED BY <2>1, <2>2, <2>3
  <1> QED BY <1>1, <1>2, PendingIsObservations, PTL DEF Spec, CoreP!Spec

\* What the inductive invariant of the logger says holds in the live program.
LEMMA LoggerInvariant == Spec => [](CoreP!Memory /\ CoreP!Streams)
  <1>1. CoreP!Spec => []CoreP!IInv
    BY LoggerConstantsHold, CoreP!Invariant
  <1>2. CoreP!IInv => CoreP!Memory /\ CoreP!Streams
    BY LoggerConstantsHold, CoreP!InvariantParts
  <1> QED BY <1>1, <1>2, LiveIsCore, PTL
-----------------------------------------------------------------------------
(* The places of observations in a set of files *)

\* Files of observations S, with what they held before in front.
Filed(lines, before, S) ==
    \A g \in DOMAIN before :
        /\ before[g] \in Seq(S) /\ lines[g] \in Seq(S)
        /\ Len(before[g]) <= Len(lines[g])
        /\ \A k \in 1 .. Len(before[g]) : lines[g][k] = before[g][k]

\* What is not certainly on the disk is in one file, also what follows it.
Late(at, s, synced) ==
    \A i, j \in DOMAIN s :
        i < j /\ at[i][2] > synced[at[i][1]] => at[j][1] = at[i][1]

LEMMA PlaceGained ==
    ASSUME NEW lines, NEW before, NEW p \in Gained(lines, before)
    PROVE  /\ p = <<p[1], p[2]>> /\ p[1] \in DOMAIN before
           /\ p[2] \in Len(before[p[1]]) + 1 .. Len(lines[p[1]])
  BY DEF Gained

LEMMA GainedPlace ==
    ASSUME NEW lines, NEW before, NEW f \in DOMAIN before,
           NEW k \in Len(before[f]) + 1 .. Len(lines[f])
    PROVE  <<f, k>> \in Gained(lines, before)
  BY DEF Gained

\* A file that has got no line is as before.
LEMMA NothingGained ==
    ASSUME NEW S, NEW before, \A g \in DOMAIN before : before[g] \in Seq(S)
    PROVE  Gained(before, before) = {}
  <1> SUFFICES ASSUME NEW p \in Gained(before, before) PROVE FALSE
    OBVIOUS
  <1>1. p[1] \in DOMAIN before /\ p[2] \in Len(before[p[1]]) + 1 .. Len(before[p[1]])
    BY PlaceGained
  <1>2. Len(before[p[1]]) \in Nat
    BY <1>1
  <1> QED BY <1>1, <1>2

\* Where the observations are once the next is the last line of file f.
AtEndOf(at, s, f, lines) ==
    [n \in 1 .. Len(s) + 1 |-> IF n <= Len(s) THEN at[n] ELSE <<f, Len(lines[f]) + 1>>]

Grows(lines2, lines, f, ob, before) ==
    \A g \in DOMAIN before :
        lines2[g] = IF g = f THEN Append(lines[g], ob) ELSE lines[g]

Grown(lines2, lines, f, ob, before) ==
    /\ Len(lines[f]) \in Nat /\ Len(lines2[f]) = Len(lines[f]) + 1
    /\ lines2[f][Len(lines[f]) + 1] = ob
    /\ \A g \in DOMAIN before :
          /\ g # f => Len(lines2[g]) = Len(lines[g])
          /\ \A k \in 1 .. Len(lines[g]) : lines2[g][k] = lines[g][k]

LEMMA LinesGrow ==
    ASSUME NEW S, NEW ob \in S, NEW before, NEW f \in DOMAIN before,
           NEW lines, NEW lines2, Filed(lines, before, S), Grows(lines2, lines, f, ob, before)
    PROVE  Filed(lines2, before, S) /\ Grown(lines2, lines, f, ob, before)
  <1>1. ASSUME NEW g \in DOMAIN before
        PROVE  /\ before[g] \in Seq(S) /\ lines2[g] \in Seq(S)
               /\ Len(before[g]) <= Len(lines2[g])
               /\ \A k \in 1 .. Len(before[g]) : lines2[g][k] = before[g][k]
               /\ g # f => Len(lines2[g]) = Len(lines[g])
               /\ \A k \in 1 .. Len(lines[g]) : lines2[g][k] = lines[g][k]
               /\ Len(lines[g]) \in Nat
    <2> DEFINE old == before[g]
               now == lines[g]
               new == lines2[g]
    <2>1. /\ old \in Seq(S) /\ now \in Seq(S) /\ Len(old) <= Len(now)
          /\ \A k \in 1 .. Len(old) : now[k] = old[k]
      BY DEF Filed
    <2>2. new = IF g = f THEN Append(now, ob) ELSE now
      BY DEF Grows
    <2> HIDE DEF old, now, new
    <2>3. new \in Seq(S) /\ Len(old) \in Nat /\ Len(now) \in Nat
      BY <2>1, <2>2
    <2>4. Len(new) >= Len(now) /\ (g # f => Len(new) = Len(now))
      BY <2>1, <2>2
    <2>5. \A k \in 1 .. Len(now) : new[k] = now[k]
      BY <2>1, <2>2
    <2>6. \A k \in 1 .. Len(old) : new[k] = old[k]
      BY <2>1, <2>3, <2>5
    <2>7. Len(old) <= Len(new)
      BY <2>1, <2>3, <2>4
    <2> QED BY <2>1, <2>3, <2>4, <2>5, <2>6, <2>7 DEF old, now, new
  <1>2. lines2[f] = Append(lines[f], ob) /\ lines[f] \in Seq(S)
    BY DEF Grows, Filed
  <1>3. lines2[f][Len(lines[f]) + 1] = ob
    BY <1>2
  <1>4. \A g \in DOMAIN before :
           /\ g # f => Len(lines2[g]) = Len(lines[g])
           /\ \A k \in 1 .. Len(lines[g]) : lines2[g][k] = lines[g][k]
    BY <1>1
  <1>5. Len(lines[f]) \in Nat /\ Len(lines2[f]) = Len(lines[f]) + 1
    BY <1>2
  <1>6. Filed(lines2, before, S)
    BY <1>1 DEF Filed
  <1> QED BY <1>3, <1>4, <1>5, <1>6 DEF Grown

\* The new line is the place of the new observation.
LEMMA ArrangesMore ==
    ASSUME NEW S, NEW ob \in S, NEW before, NEW f \in DOMAIN before,
           NEW lines, NEW lines2, Filed(lines, before, S), Grows(lines2, lines, f, ob, before),
           NEW s \in Seq(S), NEW at, Arranges(at, s, lines, before)
    PROVE  Arranges(AtEndOf(at, s, f, lines), Append(s, ob), lines2, before)
  <1> DEFINE t == Append(s, ob)
             at2 == AtEndOf(at, s, f, lines)
             place == <<f, Len(lines[f]) + 1>>
  <1>1. /\ Len(s) \in Nat /\ DOMAIN s = 1 .. Len(s) /\ DOMAIN t = 1 .. Len(s) + 1
        /\ \A n \in 1 .. Len(s) : t[n] = s[n]
        /\ t[Len(s) + 1] = ob
    OBVIOUS
  <1>2. /\ DOMAIN at2 = 1 .. Len(s) + 1
        /\ \A n \in 1 .. Len(s) : at2[n] = at[n]
        /\ at2[Len(s) + 1] = place
    BY <1>1 DEF AtEndOf
  <1>3. /\ Len(lines[f]) \in Nat /\ Len(lines2[f]) = Len(lines[f]) + 1
        /\ lines2[f][Len(lines[f]) + 1] = ob
        /\ \A g \in DOMAIN before :
              /\ g # f => Len(lines2[g]) = Len(lines[g])
              /\ \A k \in 1 .. Len(lines[g]) : lines2[g][k] = lines[g][k]
    BY LinesGrow DEF Grown
  <1>11. \A g \in DOMAIN before :
            Len(before[g]) \in Nat /\ Len(lines[g]) \in Nat /\ Len(before[g]) <= Len(lines[g])
    BY DEF Filed
  <1>4. \A n \in 1 .. Len(s) :
           /\ at[n] = <<at[n][1], at[n][2]>> /\ at[n][1] \in DOMAIN before
           /\ at[n][2] \in Len(before[at[n][1]]) + 1 .. Len(lines[at[n][1]])
    BY <1>1, PlaceGained DEF Arranges
  <1>5. place \in Gained(lines2, before)
    <2>1. Len(lines[f]) + 1 \in Len(before[f]) + 1 .. Len(lines2[f])
      BY <1>3, <1>11
    <2> QED BY <2>1, GainedPlace
  <1>6. ASSUME NEW n \in 1 .. Len(s)
        PROVE  at[n] \in Gained(lines2, before) /\ lines2[at[n][1]][at[n][2]] = s[n]
    <2> DEFINE g == at[n][1]
               k == at[n][2]
    <2>1. g \in DOMAIN before /\ k \in Len(before[g]) + 1 .. Len(lines[g]) /\ at[n] = <<g, k>>
      BY <1>4
    <2>2. lines[g][k] = s[n]
      BY <1>1 DEF Arranges
    <2> HIDE DEF g, k
    <2>3. k \in Len(before[g]) + 1 .. Len(lines2[g]) /\ k \in 1 .. Len(lines[g])
      BY <1>3, <1>11, <2>1
    <2>4. lines2[g][k] = s[n]
      BY <1>3, <2>1, <2>2, <2>3
    <2> QED BY <2>1, <2>3, <2>4, GainedPlace DEF g, k
  <1> HIDE DEF t, at2, place
  <1>7. at2 \in [DOMAIN t -> Gained(lines2, before)]
    <2>1. ASSUME NEW n \in 1 .. Len(s) + 1
          PROVE  at2[n] \in Gained(lines2, before)
      <3>1. n \in 1 .. Len(s) \/ n = Len(s) + 1
        BY <1>1
      <3> QED BY <1>2, <1>5, <1>6, <3>1
    <2>2. at2 = [n \in DOMAIN at2 |-> at2[n]]
      BY DEF at2, AtEndOf
    <2> QED BY <1>1, <1>2, <2>1, <2>2
  <1>8. ASSUME NEW p \in Gained(lines2, before)
        PROVE  \E n \in DOMAIN t : at2[n] = p
    <2>1. /\ p = <<p[1], p[2]>> /\ p[1] \in DOMAIN before
          /\ p[2] \in Len(before[p[1]]) + 1 .. Len(lines2[p[1]])
      BY PlaceGained
    <2>2. CASE p[2] \in Len(before[p[1]]) + 1 .. Len(lines[p[1]])
      <3>1. p \in Gained(lines, before)
        BY <2>1, <2>2, GainedPlace
      <3>2. PICK n \in DOMAIN s : at[n] = p
        BY <3>1 DEF Arranges
      <3> QED BY <1>1, <1>2, <3>2
    <2>3. CASE p[2] \notin Len(before[p[1]]) + 1 .. Len(lines[p[1]])
      <3>1. p[1] = f /\ p[2] = Len(lines[f]) + 1
        BY <1>3, <1>11, <2>1, <2>3
      <3> QED BY <1>1, <1>2, <2>1, <3>1 DEF place
    <2> QED BY <2>2, <2>3
  <1>9. ASSUME NEW n \in DOMAIN t
        PROVE  lines2[at2[n][1]][at2[n][2]] = t[n]
    <2>1. CASE n \in 1 .. Len(s)
      BY <1>1, <1>2, <1>6, <2>1
    <2>2. CASE n = Len(s) + 1
      BY <1>1, <1>2, <1>3, <2>2 DEF place
    <2> QED BY <1>1, <2>1, <2>2
  <1>10. ASSUME NEW i \in DOMAIN t, NEW j \in DOMAIN t, i < j, at2[i][1] = at2[j][1]
         PROVE  at2[i][2] < at2[j][2]
    <2>1. i \in 1 .. Len(s)
      BY <1>1, <1>10
    <2>2. CASE j \in 1 .. Len(s)
      BY <1>1, <1>2, <1>10, <2>1, <2>2 DEF Arranges
    <2>3. CASE j = Len(s) + 1
      <3>1. at[i][1] = f /\ at2[j][2] = Len(lines[f]) + 1
        BY <1>2, <1>10, <2>1, <2>3 DEF place
      <3>2. at[i][2] \in Len(before[f]) + 1 .. Len(lines[f])
        BY <1>4, <2>1, <3>1
      <3> QED BY <1>2, <1>3, <2>1, <3>1, <3>2
    <2> QED BY <1>1, <2>2, <2>3
  <1> QED BY <1>7, <1>8, <1>9, <1>10 DEF Arranges, t, at2

\* Of the files no less is on the disk, and all of those that are not f.
Advances(synced2, synced, f, lines2, before) ==
    \A g \in DOMAIN before :
        /\ synced[g] \in Nat /\ synced2[g] \in Nat /\ synced[g] <= synced2[g]
        /\ g # f => synced2[g] = Len(lines2[g])

\* What is late is in the open file f: the others are certainly on the disk.
LEMMA LateMore ==
    ASSUME NEW S, NEW ob \in S, NEW before, NEW f \in DOMAIN before,
           NEW lines, NEW lines2, Filed(lines, before, S), Grows(lines2, lines, f, ob, before),
           NEW s \in Seq(S), NEW at, Arranges(at, s, lines, before),
           NEW synced, NEW synced2, Late(at, s, synced),
           Advances(synced2, synced, f, lines2, before)
    PROVE  Late(AtEndOf(at, s, f, lines), Append(s, ob), synced2)
  <1> DEFINE t == Append(s, ob)
             at2 == AtEndOf(at, s, f, lines)
  <1>1. /\ Len(s) \in Nat /\ DOMAIN s = 1 .. Len(s) /\ DOMAIN t = 1 .. Len(s) + 1
        /\ \A n \in 1 .. Len(s) : at2[n] = at[n]
        /\ at2[Len(s) + 1][1] = f
    BY DEF AtEndOf
  <1> HIDE DEF t, at2
  <1>2. ASSUME NEW i \in DOMAIN t, NEW j \in DOMAIN t, i < j,
               at2[i][2] > synced2[at2[i][1]]
        PROVE  at2[j][1] = at2[i][1]
    <2> DEFINE g == at[i][1]
               k == at[i][2]
    <2>1. i \in 1 .. Len(s) /\ at2[i] = at[i]
      BY <1>1, <1>2
    <2>2. g \in DOMAIN before /\ k \in Len(before[g]) + 1 .. Len(lines[g]) /\ k > synced2[g]
      BY <1>1, <1>2, <2>1, PlaceGained DEF Arranges
    <2> HIDE DEF g, k
    <2>3. /\ synced[g] \in Nat /\ synced2[g] \in Nat /\ synced[g] <= synced2[g]
          /\ g # f => synced2[g] = Len(lines[g])
          /\ Len(before[g]) \in Nat /\ Len(lines[g]) \in Nat
      <3>1. g # f => lines2[g] = lines[g]
        BY <2>2 DEF Grows
      <3> QED BY <2>2, <3>1 DEF Filed, Advances
    <2>4. g = f /\ k > synced[g]
      BY <2>2, <2>3
    <2>5. CASE j \in 1 .. Len(s)
      <3>1. at[j][1] = at[i][1]
        BY <1>1, <1>2, <2>1, <2>4, <2>5 DEF Late, g, k
      <3> QED BY <1>1, <2>1, <2>5, <3>1
    <2>6. CASE j = Len(s) + 1
      BY <1>1, <2>1, <2>4, <2>6 DEF g
    <2> QED BY <1>1, <2>5, <2>6
  <1> QED BY <1>2 DEF Late, t, at2

\* The files lose lines at the end of at most one of them, none of what was
\* there before, of what is certainly on the disk, or of Kept.
Loses(lines2, lines, before, synced, f, Kept) ==
    /\ \A g \in DOMAIN before :
          /\ Len(before[g]) <= Len(lines2[g]) /\ Len(lines2[g]) <= Len(lines[g])
          /\ synced[g] \in Nat /\ synced[g] <= Len(lines2[g])
          /\ g # f => Len(lines2[g]) = Len(lines[g])
          /\ Len(lines2[g]) \in Nat
    /\ \A g \in DOMAIN before :
          /\ \A k \in 1 .. Len(lines2[g]) : lines2[g][k] = lines[g][k]
          /\ \A k \in Len(lines2[g]) + 1 .. Len(lines[g]) : lines[g][k] \notin Kept

\* Then the last observations are lost, those from one on, and none of Kept.
LastLost(s, m, lines2, before, Kept) ==
    /\ \A n \in m + 1 .. Len(s) : s[n] \notin Kept
    /\ \E at : Arranges(at, SubSeq(s, 1, m), lines2, before)

\* What is in the first m places of a sequence.
LEMMA FirstOnes ==
    ASSUME NEW S, NEW s \in Seq(S), NEW m \in 0 .. Len(s)
    PROVE  /\ DOMAIN SubSeq(s, 1, m) = 1 .. m
           /\ \A n \in 1 .. m : SubSeq(s, 1, m)[n] = s[n]
  <1>1. Len(s) \in Nat
    OBVIOUS
  <1>2. \A n \in 1 .. m : SubSeq(s, 1, m)[n] = s[n]
    BY <1>1
  <1>3. DOMAIN SubSeq(s, 1, m) = 1 .. m
    BY <1>1
  <1> QED BY <1>2, <1>3

\* The first m observations are arranged if they have the places left.
LEMMA ArrangesFirst ==
    ASSUME NEW S, NEW s \in Seq(S), NEW m \in 0 .. Len(s),
           NEW before, NEW lines, NEW lines2, Filed(lines, before, S),
           NEW at, Arranges(at, s, lines, before),
           NEW synced, NEW f, NEW Kept, Loses(lines2, lines, before, synced, f, Kept),
           \A n \in 1 .. m : at[n] \in Gained(lines2, before),
           \A n \in m + 1 .. Len(s) : at[n] \notin Gained(lines2, before)
    PROVE  \E at2 : Arranges(at2, SubSeq(s, 1, m), lines2, before)
  <1> DEFINE t == SubSeq(s, 1, m)
             at2 == [n \in 1 .. m |-> at[n]]
  <1>1. Len(s) \in Nat /\ m \in Nat /\ m <= Len(s) /\ DOMAIN s = 1 .. Len(s)
    OBVIOUS
  <1>2. DOMAIN t = 1 .. m /\ \A n \in 1 .. m : t[n] = s[n]
    BY FirstOnes
  <1>3. DOMAIN at2 = 1 .. m /\ \A n \in 1 .. m : at2[n] = at[n]
    OBVIOUS
  <1>4. at2 \in [1 .. m -> Gained(lines2, before)]
    OBVIOUS
  <1>5. 1 .. m \subseteq DOMAIN s
    BY <1>1
  <1> HIDE DEF t, at2
  <1>6. ASSUME NEW p \in Gained(lines2, before)
        PROVE  \E n \in DOMAIN t : at2[n] = p
    <2>1. p = <<p[1], p[2]>> /\ p[1] \in DOMAIN before
          /\ p[2] \in Len(before[p[1]]) + 1 .. Len(lines2[p[1]])
      BY PlaceGained
    <2>2. /\ Len(lines2[p[1]]) <= Len(lines[p[1]])
          /\ Len(before[p[1]]) \in Nat /\ Len(lines2[p[1]]) \in Nat /\ Len(lines[p[1]]) \in Nat
      BY <2>1 DEF Loses, Filed
    <2>3. p[2] \in Len(before[p[1]]) + 1 .. Len(lines[p[1]])
      BY <2>1, <2>2
    <2>4. p \in Gained(lines, before)
      BY <2>1, <2>3, GainedPlace
    <2>5. PICK n \in DOMAIN s : at[n] = p
      BY <2>4 DEF Arranges
    <2>6. n \in 1 .. m
      BY <1>1, <2>5
    <2> QED BY <1>2, <1>3, <2>5, <2>6
  <1>7. ASSUME NEW n \in 1 .. m
        PROVE  lines2[at[n][1]][at[n][2]] = s[n]
    <2> DEFINE g == at[n][1]
               k == at[n][2]
    <2>1. g \in DOMAIN before /\ k \in Len(before[g]) + 1 .. Len(lines2[g])
      BY PlaceGained
    <2>2. lines[g][k] = s[n]
      BY <1>5 DEF Arranges
    <2> HIDE DEF g, k
    <2>3. k \in 1 .. Len(lines2[g])
      <3>1. Len(before[g]) \in Nat /\ Len(lines2[g]) \in Nat
        BY <2>1 DEF Loses, Filed
      <3> QED BY <2>1, <3>1
    <2>4. lines2[g][k] = lines[g][k]
      BY <2>1, <2>3 DEF Loses
    <2> QED BY <2>2, <2>4 DEF g, k
  <1>8. ASSUME NEW i \in 1 .. m, NEW j \in 1 .. m, i < j, at[i][1] = at[j][1]
        PROVE  at[i][2] < at[j][2]
    BY <1>5, <1>8 DEF Arranges
  <1>9. Arranges(at2, t, lines2, before)
    <2>1. at2 \in [DOMAIN t -> Gained(lines2, before)]
      BY <1>2, <1>4
    <2>2. \A n \in DOMAIN t : lines2[at2[n][1]][at2[n][2]] = t[n]
      BY <1>2, <1>3, <1>7
    <2>3. \A i, j \in DOMAIN t : i < j /\ at2[i][1] = at2[j][1] => at2[i][2] < at2[j][2]
      BY <1>2, <1>3, <1>8
    <2> QED BY <1>6, <2>1, <2>2, <2>3 DEF Arranges
  <1> QED BY <1>9 DEF t

LEMMA LinesLost ==
    ASSUME NEW S, NEW s \in Seq(S), NEW before, NEW lines, NEW lines2, Filed(lines, before, S),
           NEW at, Arranges(at, s, lines, before), NEW synced, Late(at, s, synced),
           NEW f, NEW Kept, Loses(lines2, lines, before, synced, f, Kept)
    PROVE  \E m \in 0 .. Len(s) : LastLost(s, m, lines2, before, Kept)
  <1>1. Len(s) \in Nat /\ DOMAIN s = 1 .. Len(s)
    OBVIOUS
  <1>2. ASSUME NEW g \in DOMAIN before
        PROVE  /\ Len(before[g]) \in Nat /\ Len(lines[g]) \in Nat /\ Len(lines2[g]) \in Nat
               /\ synced[g] \in Nat /\ synced[g] <= Len(lines2[g])
               /\ Len(before[g]) <= Len(lines2[g]) /\ Len(lines2[g]) <= Len(lines[g])
               /\ g # f => Len(lines2[g]) = Len(lines[g])
    BY DEF Filed, Loses
  <1>3. ASSUME NEW n \in 1 .. Len(s)
        PROVE  /\ at[n] = <<at[n][1], at[n][2]>> /\ at[n][1] \in DOMAIN before
               /\ at[n][2] \in Len(before[at[n][1]]) + 1 .. Len(lines[at[n][1]])
               /\ lines[at[n][1]][at[n][2]] = s[n]
    BY <1>1, PlaceGained DEF Arranges
  <1>4. CASE f \in DOMAIN before /\ Len(lines2[f]) < Len(lines[f])
    <2> DEFINE first == Len(lines2[f]) + 1
    <2>1. /\ first \in Len(before[f]) + 1 .. Len(lines[f]) /\ first \in Nat
          /\ synced[f] < first /\ first = Len(lines2[f]) + 1
      BY <1>2, <1>4
    <2> HIDE DEF first
    <2>2. PICK n \in 1 .. Len(s) : at[n] = <<f, first>>
      <3>1. <<f, first>> \in Gained(lines, before)
        BY <1>4, <2>1, GainedPlace
      <3> QED BY <1>1, <3>1 DEF Arranges
    <2> DEFINE m == n - 1
    <2>3. m \in 0 .. Len(s) /\ n = m + 1 /\ m \in Nat /\ n \in Nat
      BY <1>1
    <2>4. ASSUME NEW i \in n .. Len(s)
          PROVE  at[i][1] = f /\ at[i][2] >= first /\ i \in 1 .. Len(s)
      <3>1. i \in 1 .. Len(s) /\ (i = n \/ n < i)
        BY <1>1, <2>3
      <3>2. CASE i = n
        BY <2>1, <2>2, <3>1, <3>2
      <3>3. CASE n < i
        <4>1. at[n][1] = f /\ at[n][2] = first
          BY <2>2
        <4>2. at[i][1] = f
          BY <1>1, <2>1, <3>1, <3>3, <4>1 DEF Late
        <4>3. at[n][2] < at[i][2]
          BY <1>1, <3>1, <3>3, <4>1, <4>2 DEF Arranges
        <4>4. at[i][2] \in Int
          BY <1>2, <1>3, <3>1
        <4> QED BY <2>1, <3>1, <4>1, <4>2, <4>3, <4>4
      <3> QED BY <3>1, <3>2, <3>3
    <2>5. ASSUME NEW i \in n .. Len(s)
          PROVE  s[i] \notin Kept /\ at[i] \notin Gained(lines2, before)
      <3>1. /\ at[i][1] = f /\ at[i][2] >= first /\ i \in 1 .. Len(s)
            /\ at[i][2] \in Len(before[f]) + 1 .. Len(lines[f]) /\ lines[f][at[i][2]] = s[i]
        BY <1>3, <2>4
      <3>2. at[i][2] \in Len(lines2[f]) + 1 .. Len(lines[f])
        BY <1>2, <1>4, <2>1, <3>1
      <3>3. s[i] \notin Kept
        BY <1>4, <3>1, <3>2 DEF Loses
      <3>4. ~ at[i][2] <= Len(lines2[f])
        BY <1>2, <1>4, <3>2
      <3>5. at[i] \notin Gained(lines2, before)
        <4> SUFFICES ASSUME at[i] \in Gained(lines2, before) PROVE FALSE
          OBVIOUS
        <4>1. at[i][2] \in Len(before[f]) + 1 .. Len(lines2[f])
          BY <3>1, PlaceGained
        <4> QED BY <1>2, <1>4, <3>4, <4>1
      <3> QED BY <3>3, <3>5
    <2>6. ASSUME NEW i \in 1 .. m
          PROVE  at[i] \in Gained(lines2, before)
      <3> DEFINE g == at[i][1]
                 k == at[i][2]
      <3>1. i \in 1 .. Len(s) /\ i < n
        BY <1>1, <2>3
      <3>2. /\ at[i] = <<g, k>> /\ g \in DOMAIN before
            /\ k \in Len(before[g]) + 1 .. Len(lines[g])
        BY <1>3, <3>1
      <3>3. g = f => k < first
        BY <1>1, <2>2, <3>1 DEF Arranges
      <3> HIDE DEF g, k
      <3>4. k \in Len(before[g]) + 1 .. Len(lines2[g])
        BY <1>2, <2>1, <3>2, <3>3
      <3> QED BY <3>2, <3>4, GainedPlace
    <2> HIDE DEF m
    <2>7. \E at2 : Arranges(at2, SubSeq(s, 1, m), lines2, before)
      BY <2>3, <2>5, <2>6, ArrangesFirst
    <2> QED BY <2>3, <2>5, <2>7 DEF LastLost
  <1>5. CASE ~ (f \in DOMAIN before /\ Len(lines2[f]) < Len(lines[f]))
    <2> DEFINE m == Len(s)
    <2>1. \A g \in DOMAIN before : Len(lines2[g]) = Len(lines[g])
      BY <1>2, <1>5
    <2>2. \A n \in 1 .. m : at[n] \in Gained(lines2, before)
      <3> SUFFICES ASSUME NEW n \in 1 .. m PROVE at[n] \in Gained(lines2, before)
        OBVIOUS
      <3> DEFINE g == at[n][1]
                 k == at[n][2]
      <3>1. /\ at[n] = <<g, k>> /\ g \in DOMAIN before
            /\ k \in Len(before[g]) + 1 .. Len(lines[g])
        BY <1>3
      <3> HIDE DEF g, k
      <3>2. k \in Len(before[g]) + 1 .. Len(lines2[g])
        BY <2>1, <3>1
      <3> QED BY <3>1, <3>2, GainedPlace
    <2>3. m \in 0 .. Len(s) /\ m + 1 .. Len(s) = {}
      BY <1>1
    <2> HIDE DEF m
    <2>4. \E at2 : Arranges(at2, SubSeq(s, 1, m), lines2, before)
      BY <2>2, <2>3, ArrangesFirst
    <2> QED BY <2>3, <2>4 DEF LastLost
  <1> QED BY <1>4, <1>5

-----------------------------------------------------------------------------
(* The flat logs hold what was received *)

Handled == Len(received) - Len(pending)

\* The observations processed have their places in the flat logs.
Arranged ==
    \E at : Arranges(at, Processed, flat.lines, began) /\ Late(at, Processed, flat.synced)

\* The session has not ended while the process runs; what is pending is the end
\* of what was received; what the files held when the process began is certainly
\* on the disk, and what is not pending is behind it.
LogInv ==
    /\ alive => exit = Session!NotEnded
    /\ received \in Seq(Core!Observation) /\ Len(pending) <= Len(received)
    /\ \A k \in 1 .. Len(pending) : pending[k] = received[Handled + k]
    /\ DOMAIN began = CoreP!FlatName
    /\ Filed(flat.lines, began, Core!Observation)
    /\ alive => \A f \in CoreP!FlatName : Len(began[f]) <= flat.synced[f]
    /\ ~alive => flat.file = NoFile
    /\ alive /\ flags.flat => Arranged
    /\ ~alive => LogHoldsReceived

LEMMA FlatFacts ==
    ASSUME NEW w, CoreP!GoodFlat(w)
    PROVE  /\ DOMAIN w.lines = CoreP!FlatName
           /\ \A f \in CoreP!FlatName :
                 /\ w.lines[f] \in Seq(Core!Observation) /\ Len(w.lines[f]) \in Nat
                 /\ w.synced[f] \in Nat /\ w.synced[f] <= Len(w.lines[f])
                 /\ f # w.file => w.synced[f] = Len(w.lines[f])
           /\ NoFile \notin CoreP!FlatName
  <1>1. w \in CoreP!FlatP!Stream(CoreP!Observation)
    BY DEF CoreP!GoodFlat, CoreP!FlatP!Buffered
  <1>2. \A f \in CoreP!FlatName :
           /\ w.synced[f] <= Len(w.lines[f])
           /\ f # w.file => w.synced[f] = Len(w.lines[f])
    BY DEF CoreP!GoodFlat, CoreP!FlatP!Buffered, CoreP!FlatP!BuffersNone, CoreP!FlatName
  <1>3. /\ DOMAIN w.lines = CoreP!FlatName
        /\ \A f \in CoreP!FlatName :
              w.lines[f] \in Seq(Core!Observation) /\ w.synced[f] \in Nat
    BY <1>1, SameOperators DEF CoreP!FlatP!Stream, CoreP!FlatName
  <1>4. NoFile \notin CoreP!FlatName
    BY LoggerConstantsHold, CoreP!FileNames DEF CoreP!FlatName
  <1> QED BY <1>2, <1>3, <1>4

LEMMA ProcessedFirst ==
    ASSUME LogInv, PendingObservations
    PROVE  /\ Handled \in Nat /\ Len(received) \in Nat /\ Handled <= Len(received)
           /\ Processed \in Seq(Core!Observation) /\ Len(Processed) = Handled
           /\ \A n \in 1 .. Handled : Processed[n] = received[n]
           /\ SubSeq(Processed, 1, Len(Processed)) = Processed
  <1>1. /\ received \in Seq(Core!Observation) /\ Len(pending) <= Len(received)
        /\ Len(pending) \in Nat /\ Len(received) \in Nat
    BY DEF LogInv, PendingObservations
  <1>2. Handled \in 0 .. Len(received)
    BY <1>1 DEF Handled
  <1>3. Processed = SubSeq(received, 1, Handled)
    BY DEF Processed, Handled
  <1>4. /\ Processed \in Seq(Core!Observation) /\ Len(Processed) = Handled
        /\ \A n \in 1 .. Handled : Processed[n] = received[n]
    BY <1>1, <1>2, <1>3
  <1>5. SubSeq(Processed, 1, Len(Processed)) = Processed
    BY <1>4
  <1> QED BY <1>1, <1>2, <1>4, <1>5

\* Files with what they held before in front hold it still.
LEMMA HoldsArranged ==
    ASSUME NEW S, NEW lines, NEW before, Filed(lines, before, S),
           NEW s, NEW at, Arranges(at, s, lines, before)
    PROVE  HoldsBehind(s, lines, before)
  <1>1. ASSUME NEW f \in DOMAIN before
        PROVE  IsPrefix(before[f], lines[f])
    <2> DEFINE old == before[f]
               new == lines[f]
    <2>1. /\ old \in Seq(S) /\ new \in Seq(S) /\ Len(old) <= Len(new)
          /\ \A k \in 1 .. Len(old) : new[k] = old[k]
      BY DEF Filed
    <2> HIDE DEF old, new
    <2>2. SubSeq(old, 1, Len(old)) = SubSeq(new, 1, Len(old))
      BY <2>1
    <2> QED BY <2>1, <2>2 DEF IsPrefix, old, new
  <1> QED BY <1>1 DEF HoldsBehind, Arranges

\* While the process runs the flat logs hold all that is processed.
LEMMA AliveHolds ==
    ASSUME LogInv, PendingObservations, flags.flat => Arranged
    PROVE  LogHoldsReceived
  <1> SUFFICES ASSUME flags.flat PROVE LogHoldsReceived
    BY DEF LogHoldsReceived
  <1> DEFINE m == Len(Processed)
  <1>1. m \in 0 .. Len(Processed) /\ m + 1 .. Len(Processed) = {}
    BY ProcessedFirst
  <1>2. PICK at : Arranges(at, Processed, flat.lines, began)
    BY DEF Arranged
  <1>3. HoldsBehind(SubSeq(Processed, 1, m), flat.lines, began)
    BY <1>2, ProcessedFirst, HoldsArranged DEF LogInv
  <1> QED BY <1>1, <1>3 DEF LogHoldsReceived

\* A process begins, for the first time or again.
Begins ==
    /\ alive /\ exit = Session!NotEnded
    /\ received = <<>> /\ pending = <<>>
    /\ began = flat.lines /\ flat.file = NoFile
    /\ CoreP!GoodFlat(flat)

LEMMA BeginsInv == Begins => LogInv
  <1> SUFFICES ASSUME Begins PROVE LogInv
    OBVIOUS
  <1>1. /\ DOMAIN began = CoreP!FlatName
        /\ \A f \in CoreP!FlatName :
              /\ began[f] \in Seq(Core!Observation) /\ Len(began[f]) \in Nat
              /\ flat.lines[f] = began[f] /\ flat.synced[f] = Len(began[f])
    BY FlatFacts DEF Begins
  <1>2. Filed(flat.lines, began, Core!Observation)
    BY <1>1 DEF Filed
  <1>3. /\ received \in Seq(Core!Observation) /\ Len(pending) = 0 /\ Len(received) = 0
    BY DEF Begins
  <1>4. Processed = <<>>
    BY <1>3 DEF Processed, Begins
  <1>5. Arranged
    <2>1. Gained(flat.lines, began) = {}
      BY <1>1, NothingGained DEF Begins
    <2>2. <<>> \in [DOMAIN <<>> -> Gained(flat.lines, began)] /\ DOMAIN <<>> = {}
      OBVIOUS
    <2>3. Arranges(<<>>, <<>>, flat.lines, began) /\ Late(<<>>, <<>>, flat.synced)
      BY <2>1, <2>2 DEF Arranges, Late
    <2> QED BY <1>4, <2>3 DEF Arranged
  <1>6. \A k \in 1 .. Len(pending) : pending[k] = received[Handled + k]
    BY <1>3
  <1> QED BY <1>1, <1>2, <1>3, <1>5, <1>6 DEF LogInv, Begins

\* Nothing that matters here changes.
LEMMA SameLog ==
    ASSUME LogInv, UNCHANGED <<flags, alive, exit, flat, received, pending, began>>
    PROVE  LogInv'
  <1>1. /\ flags' = flags /\ alive' = alive /\ exit' = exit /\ flat' = flat
        /\ received' = received /\ pending' = pending /\ began' = began
    OBVIOUS
  <1>2. Handled' = Handled /\ Processed' = Processed
    BY <1>1 DEF Handled, Processed
  <1>3. Arranged' <=> Arranged
    BY <1>1, <1>2 DEF Arranged
  <1>4. LogHoldsReceived' <=> LogHoldsReceived
    BY <1>1, <1>2 DEF LogHoldsReceived
  <1> QED BY <1>1, <1>2, <1>3, <1>4 DEF LogInv

\* A message has arrived: its items are received, and pending.
LEMMA ReceiveLog ==
    ASSUME LogInv, NEW root \in Message, Receive(root)
    PROVE  LogInv'
  <1>1. /\ pending = <<>> /\ received' = received \o pending' /\ exit' = exit
        /\ began' = began /\ alive /\ UNCHANGED coreVars
    BY DEF Receive, Idle, Session!OnMessage, Session!HandleText
  <1>2. received \in Seq(Core!Observation) /\ pending' \in Seq(Core!Observation)
    BY ReceivePending DEF LogInv, PendingObservations
  <1>3. /\ flags' = flags /\ alive' = alive /\ flat' = flat
    BY <1>1 DEF coreVars
  <1>4. Handled = Len(received) /\ Handled' = Len(received)
    BY <1>1, <1>2 DEF Handled
  <1>5. /\ received' \in Seq(Core!Observation) /\ Len(pending') <= Len(received')
        /\ \A k \in 1 .. Len(pending') : pending'[k] = received'[Handled' + k]
    BY <1>1, <1>2, <1>4
  <1>6. Processed' = Processed
    <2>1. Processed = SubSeq(received, 1, Len(received))
      BY <1>4 DEF Processed, Handled
    <2>2. Processed' = SubSeq(received \o pending', 1, Len(received))
      BY <1>1, <1>4 DEF Processed, Handled
    <2>3. SubSeq(received \o pending', 1, Len(received)) = SubSeq(received, 1, Len(received))
      BY <1>2
    <2> QED BY <2>1, <2>2, <2>3
  <1>7. Arranged' <=> Arranged
    BY <1>1, <1>3, <1>6 DEF Arranged
  <1> QED BY <1>1, <1>3, <1>5, <1>7 DEF LogInv

\* Without -f the flat logs are left alone.
LEMMA NotLogged ==
    ASSUME NEW ob, CoreP!ProcessObservation(ob), ~flags.flat
    PROVE  flat' = flat
  BY DEF CoreP!ProcessObservation, CoreP!DateStartsFiles, CoreP!TimeStartsFiles, CoreP!NewDate,
         CoreP!DateStored, CoreP!TimeStored, CoreP!TimeStartsRow, CoreP!NewTime,
         CoreP!ItemStored, CoreP!Store, CoreP!OnlyLoggedFlat, CoreP!LogFlat

\* The next pending item is one more line of one flat log.
LEMMA ProcessNextLog ==
    ASSUME LogInv, CoreP!Memory, CoreP!Streams, CoreP!Streams', PendingObservations, ProcessNext
    PROVE  LogInv'
  <1> DEFINE ob == Head(pending)
             n == Handled
  <1>1. /\ pending \in Seq(Core!Observation) /\ pending # <<>>
        /\ received \in Seq(Core!Observation) /\ Len(pending) <= Len(received)
        /\ pending' = Tail(pending) /\ received' = received /\ exit' = exit /\ began' = began
    BY DEF ProcessNext, LogInv, PendingObservations, sessionVars
  <1>2. /\ ob \in Core!Observation /\ ob = pending[1]
        /\ Len(pending) \in Nat \ {0} /\ Len(received) \in Nat
        /\ Len(pending') = Len(pending) - 1 /\ pending' \in Seq(Core!Observation)
        /\ \A k \in 1 .. Len(pending') : pending'[k] = pending[k + 1]
    BY <1>1
  <1>3. n \in Nat /\ Handled' = n + 1 /\ ob = received[n + 1]
    BY <1>1, <1>2 DEF Handled, LogInv
  <1>4. \A k \in 1 .. Len(pending') : pending'[k] = received'[Handled' + k]
    <2>1. \A k \in 1 .. Len(pending) : pending[k] = received[n + k]
      BY DEF LogInv
    <2> HIDE DEF n
    <2> QED BY <1>1, <1>2, <1>3, <2>1
  <1>5. /\ Core!Handles(ob) /\ CoreP!ProcessObservation(ob)
    BY SameProcessObservation
       DEF ProcessNext, Core!ProcessObservation, Core!DateStartsFiles, Core!TimeStartsFiles,
           Core!DateStored, Core!TimeStored, Core!TimeStartsRow, Core!ItemStored,
           Core!OnlyLoggedFlat
  <1>6. alive /\ alive' = alive /\ flags' = flags
    BY <1>5 DEF Core!Handles, Core!Arrives
  <1>7. Processed' = Append(Processed, ob)
    <2>1. /\ Processed \in Seq(Core!Observation) /\ Len(Processed) = n
          /\ \A k \in 1 .. n : Processed[k] = received[k]
      BY ProcessedFirst
    <2>2. Processed' = SubSeq(received, 1, n + 1)
      BY <1>1, <1>3 DEF Processed, Handled
    <2>3. n + 1 <= Len(received)
      BY <1>1, <1>2 DEF Handled
    <2> HIDE DEF ob, n
    <2>4. SubSeq(received, 1, n + 1) = Append(Processed, ob)
      BY <1>1, <1>2, <1>3, <2>1, <2>3
    <2> QED BY <2>2, <2>4
  <1>8. Len(pending') <= Len(received')
    BY <1>1, <1>2
  <1> HIDE DEF ob
  <1>9. CASE ~flags.flat
    <2>1. flat' = flat
      BY <1>5, <1>9, NotLogged
    <2> QED BY <1>1, <1>4, <1>6, <1>8, <1>9, <2>1 DEF LogInv
  <1>10. CASE flags.flat
    <2>1. CoreP!OneReceives(flat', flat, ob)
      BY <1>2, <1>5, <1>10, LoggerConstantsHold, SameOperators, CoreP!FlatReceives
    <2> DEFINE f == flat'.file
    <2>2. /\ f \in DOMAIN began /\ Grows(flat'.lines, flat.lines, f, ob, began)
          /\ \A g \in CoreP!FlatName : flat.synced[g] <= flat'.synced[g]
      BY <2>1 DEF CoreP!OneReceives, Grows, LogInv
    <2>3. /\ DOMAIN began = CoreP!FlatName
          /\ \A g \in CoreP!FlatName :
                /\ flat.synced[g] \in Nat /\ flat'.synced[g] \in Nat
                /\ g # f => flat'.synced[g] = Len(flat'.lines[g])
                /\ Len(began[g]) \in Nat
      <3>1. \A g \in CoreP!FlatName : flat.synced[g] \in Nat
        BY FlatFacts DEF CoreP!Streams
      <3>2. \A g \in CoreP!FlatName :
               flat'.synced[g] \in Nat /\ (g # f => flat'.synced[g] = Len(flat'.lines[g]))
        BY FlatFacts DEF CoreP!Streams
      <3> QED BY <3>1, <3>2 DEF LogInv, Filed
    <2> HIDE DEF f
    <2>4. Filed(flat'.lines, began, Core!Observation)
      BY <1>2, <2>2, LinesGrow DEF LogInv
    <2>5. PICK at : Arranges(at, Processed, flat.lines, began) /\ Late(at, Processed, flat.synced)
      BY <1>6, <1>10 DEF LogInv, Arranged
    <2>6. Arranges(AtEndOf(at, Processed, f, flat.lines), Processed', flat'.lines, began)
      BY <1>2, <1>7, <2>2, <2>5, ProcessedFirst, ArrangesMore DEF LogInv
    <2>7. Late(AtEndOf(at, Processed, f, flat.lines), Processed', flat'.synced)
      <3>1. /\ Filed(flat.lines, began, Core!Observation)
            /\ Processed \in Seq(Core!Observation) /\ ob \in Core!Observation
        BY <1>2, ProcessedFirst DEF LogInv
      <3>2. Advances(flat'.synced, flat.synced, f, flat'.lines, began)
        BY <2>2, <2>3 DEF Advances
      <3>3. Late(AtEndOf(at, Processed, f, flat.lines), Append(Processed, ob), flat'.synced)
        BY <2>2, <2>5, <3>1, <3>2, LateMore, Zenon
      <3> QED BY <1>7, <3>3
    <2>8. Arranged'
      BY <1>1, <2>6, <2>7 DEF Arranged
    <2>9. \A g \in CoreP!FlatName : Len(began[g]) <= flat'.synced[g]
      BY <1>6, <2>2, <2>3 DEF LogInv
    <2> QED BY <1>1, <1>4, <1>6, <1>8, <2>4, <2>8, <2>9 DEF LogInv
  <1> QED BY <1>9, <1>10

\* What a kill leaves of a flat stream.
LEMMA KillLoses ==
    ASSUME LogInv, alive, CoreP!GoodFlat(flat), NEW w2 \in Core!Flat!AfterKill(flat)
    PROVE  /\ CoreP!GoodFlat(w2) /\ w2.file = NoFile
           /\ Loses(w2.lines, flat.lines, began, flat.synced, flat.file, CoreP!TimeObservation)
  <1>1. /\ CoreP!GoodFlat(w2) /\ w2.file = NoFile /\ CoreP!FlatExtends(flat, w2)
        /\ \A f \in CoreP!FlatName : \A i \in Len(w2.lines[f]) + 1 .. Len(flat.lines[f]) :
              flat.lines[f][i] \notin CoreP!TimeObservation
        /\ \A f \in CoreP!FlatName : flat.synced[f] <= Len(w2.lines[f])
    BY SameWriters, LoggerConstantsHold, CoreP!FlatKilled
  <1>2. ASSUME NEW f \in CoreP!FlatName
        PROVE  /\ Len(w2.lines[f]) <= Len(flat.lines[f])
               /\ \A k \in 1 .. Len(w2.lines[f]) : w2.lines[f][k] = flat.lines[f][k]
    <2> DEFINE new == w2.lines[f]
               old == flat.lines[f]
    <2>1. Len(new) <= Len(old) /\ SubSeq(old, 1, Len(new)) = new
      BY <1>1 DEF CoreP!FlatExtends, CoreP!FlatArchive!Prefix
    <2>2. old \in Seq(Core!Observation) /\ new \in Seq(Core!Observation)
      BY <1>1, FlatFacts
    <2> HIDE DEF new, old
    <2>3. \A k \in 1 .. Len(new) : new[k] = old[k]
      <3> DEFINE cut == SubSeq(old, 1, Len(new))
      <3>1. \A k \in 1 .. Len(new) : cut[k] = old[k]
        BY <2>1, <2>2
      <3> HIDE DEF cut
      <3>2. cut = new
        BY <2>1 DEF cut
      <3> QED BY <3>1, <3>2
    <2> QED BY <2>1, <2>3 DEF new, old
  <1>3. ASSUME NEW f \in CoreP!FlatName
        PROVE  /\ Len(began[f]) \in Nat /\ Len(w2.lines[f]) \in Nat /\ Len(flat.lines[f]) \in Nat
               /\ Len(began[f]) <= flat.synced[f] /\ flat.synced[f] \in Nat
               /\ f # flat.file => flat.synced[f] = Len(flat.lines[f])
    <2>1. Len(w2.lines[f]) \in Nat
      BY <1>1, FlatFacts
    <2>2. Len(began[f]) \in Nat
      BY DEF LogInv, Filed
    <2> QED BY <2>1, <2>2, FlatFacts DEF LogInv
  <1>4. ASSUME NEW f \in CoreP!FlatName
        PROVE  /\ Len(began[f]) <= Len(w2.lines[f])
               /\ f # flat.file => Len(w2.lines[f]) = Len(flat.lines[f])
    BY <1>1, <1>2, <1>3
  <1>5. DOMAIN began = CoreP!FlatName
    BY DEF LogInv
  <1> QED BY <1>1, <1>2, <1>3, <1>4, <1>5 DEF Loses

\* A line that is lost without being a time observation has no time's id.
LEMMA NoTimeId ==
    ASSUME NEW o \in Core!Observation, o \notin CoreP!TimeObservation
    PROVE  o.id # TimeId
  <1>1. DateId # TimeId /\ TimeId \notin OtherId
    BY LoggerConstantsHold DEF CoreP!LoggerConstants
  <1> QED BY <1>1 DEF Core!Observation, CoreP!TimeObservation

\* The process dies: the files are complete, or it is not a regular end and they
\* lose their last lines.
LEMMA DiesLog ==
    ASSUME LogInv, PendingObservations, CoreP!GoodFlat(flat), alive, ~alive',
           flags' = flags, received' = received, pending' = pending, began' = began,
           CoreP!GoodFlat(flat'), flat'.file = NoFile,
           \/ flat'.lines = flat.lines
           \/ /\ exit' # Session!EXIT_SUCCESS
              /\ Loses(flat'.lines, flat.lines, began, flat.synced, flat.file,
                       CoreP!TimeObservation)
    PROVE  LogInv'
  <1>1. Handled' = Handled /\ Processed' = Processed
    BY DEF Handled, Processed
  <1>2. CASE flat'.lines = flat.lines
    <2>1. LogHoldsReceived
      BY AliveHolds DEF LogInv
    <2>2. LogHoldsReceived'
      <3> SUFFICES ASSUME flags.flat PROVE LogHoldsReceived'
        BY DEF LogHoldsReceived
      <3>1. PICK m \in 0 .. Len(Processed) :
               /\ alive \/ exit = Session!EXIT_SUCCESS => m = Len(Processed)
               /\ \A n \in m + 1 .. Len(Processed) : Processed[n].id # TimeId
               /\ HoldsBehind(SubSeq(Processed, 1, m), flat.lines, began)
        BY <2>1 DEF LogHoldsReceived
      <3> QED BY <1>1, <1>2, <3>1 DEF LogHoldsReceived
    <2> QED BY <1>1, <1>2, <2>2 DEF LogInv
  <1>3. CASE /\ exit' # Session!EXIT_SUCCESS
             /\ Loses(flat'.lines, flat.lines, began, flat.synced, flat.file,
                      CoreP!TimeObservation)
    <2>1. Filed(flat'.lines, began, Core!Observation)
      <3> SUFFICES ASSUME NEW g \in DOMAIN began
                   PROVE  /\ began[g] \in Seq(Core!Observation)
                          /\ flat'.lines[g] \in Seq(Core!Observation)
                          /\ Len(began[g]) <= Len(flat'.lines[g])
                          /\ \A k \in 1 .. Len(began[g]) : flat'.lines[g][k] = began[g][k]
        BY DEF Filed
      <3> DEFINE old == flat.lines[g]
                 new == flat'.lines[g]
                 before == began[g]
      <3>1. /\ before \in Seq(Core!Observation)
            /\ \A k \in 1 .. Len(before) : old[k] = before[k]
        BY DEF LogInv, Filed
      <3>2. new \in Seq(Core!Observation)
        BY FlatFacts DEF LogInv
      <3>3. /\ Len(before) <= Len(new)
            /\ \A k \in 1 .. Len(new) : new[k] = old[k]
        BY <1>3 DEF Loses
      <3> HIDE DEF old, new, before
      <3>4. \A k \in 1 .. Len(before) : new[k] = before[k]
        BY <3>1, <3>2, <3>3
      <3> QED BY <3>1, <3>2, <3>3, <3>4 DEF old, new, before
    <2>2. LogHoldsReceived'
      <3> SUFFICES ASSUME flags.flat PROVE LogHoldsReceived'
        BY DEF LogHoldsReceived
      <3>1. PICK at : Arranges(at, Processed, flat.lines, began) /\ Late(at, Processed, flat.synced)
        BY DEF LogInv, Arranged
      <3>2. Processed \in Seq(Core!Observation)
        BY ProcessedFirst
      <3>3. PICK m \in 0 .. Len(Processed) :
               LastLost(Processed, m, flat'.lines, began, CoreP!TimeObservation)
        BY <1>3, <3>1, <3>2, LinesLost DEF LogInv
      <3>4. PICK at2 : Arranges(at2, SubSeq(Processed, 1, m), flat'.lines, began)
        BY <3>3 DEF LastLost
      <3>5. HoldsBehind(SubSeq(Processed, 1, m), flat'.lines, began)
        BY <2>1, <3>4, HoldsArranged
      <3>6. \A n \in m + 1 .. Len(Processed) : Processed[n].id # TimeId
        <4> SUFFICES ASSUME NEW n \in m + 1 .. Len(Processed)
                     PROVE  Processed[n].id # TimeId
          OBVIOUS
        <4>1. Processed[n] \in Core!Observation
          BY <3>2
        <4>2. Processed[n] \notin CoreP!TimeObservation
          BY <3>3 DEF LastLost
        <4> QED BY <4>1, <4>2, NoTimeId
      <3> QED BY <1>1, <1>3, <3>5, <3>6 DEF LogHoldsReceived
    <2> QED BY <1>1, <2>1, <2>2 DEF LogInv
  <1> QED BY <1>2, <1>3

LEMMA StepLog ==
    ASSUME LogInv, CoreP!Memory, CoreP!Streams, CoreP!Streams', PendingObservations, [Next]_vars
    PROVE  LogInv'
  <1>1. CASE SessionStep
    <2>1. exit' = exit /\ UNCHANGED <<coreVars, pending, received, began>>
      BY <1>1
         DEF SessionStep, Session!OnResolve, Session!OnConnect, Session!OnHandshake,
             Session!RequestNext, Session!StartReading, Session!OnReadError, Session!OnWrite,
             Session!OnWriteError, Session!LinkFails
    <2>2. UNCHANGED <<flags, alive, exit, flat, received, pending, began>>
      BY <2>1 DEF coreVars
    <2> QED BY <2>2, SameLog
  <1>2. CASE \E root \in Message : Receive(root)
    BY <1>2, ReceiveLog
  <1>3. CASE (\E root \in Message : TestAnswered(root)) \/ Return
    <2>1. /\ Core!Exit /\ UNCHANGED <<pending, received, began>>
      BY <1>3 DEF TestAnswered, Return
    <2>2. /\ alive /\ ~alive' /\ flags' = flags
          /\ flat' = CoreP!Flat!AfterExit(flat)
      BY <2>1, SameWriters DEF Core!Exit, Core!Forget
    <2>3. CoreP!GoodFlat(flat') /\ flat'.file = NoFile /\ flat'.lines = flat.lines
      BY <2>2, LoggerConstantsHold, CoreP!FlatExits DEF CoreP!Streams
    <2> QED BY <2>1, <2>2, <2>3, DiesLog DEF CoreP!Streams
  <1>4. CASE ProcessNext
    BY <1>4, ProcessNextLog
  <1>5. CASE Crash \/ Kill
    <2>1. /\ UNCHANGED <<pending, received, began>> /\ exit' = exit
          /\ alive /\ ~alive' /\ flags' = flags
          /\ \/ flat' \in Core!Flat!AfterKill(flat)
             \/ flat' = CoreP!Flat!AfterExit(flat)
             \/ flat' = flat /\ flat.file = NoFile
      BY <1>5, SameWriters
         DEF Crash, Kill, SessionGone, sessionVars, Core!CsvOpenFails, Core!FlatOpenFails,
             Core!Kill, Core!Arrives, Core!Forget
    <2>2. exit' # Session!EXIT_SUCCESS
      BY <2>1 DEF LogInv, Session!NotEnded, Session!EXIT_SUCCESS
    <2>3. CASE flat' \in Core!Flat!AfterKill(flat)
      <3>1. /\ CoreP!GoodFlat(flat') /\ flat'.file = NoFile
            /\ Loses(flat'.lines, flat.lines, began, flat.synced, flat.file,
                     CoreP!TimeObservation)
        BY <2>1, <2>3, KillLoses DEF CoreP!Streams
      <3> QED BY <2>1, <2>2, <3>1, DiesLog DEF CoreP!Streams
    <2>4. CASE flat' = CoreP!Flat!AfterExit(flat)
      <3>1. CoreP!GoodFlat(flat') /\ flat'.file = NoFile /\ flat'.lines = flat.lines
        BY <2>4, LoggerConstantsHold, CoreP!FlatExits DEF CoreP!Streams
      <3> QED BY <2>1, <3>1, DiesLog DEF CoreP!Streams
    <2>5. CASE flat' = flat /\ flat.file = NoFile
      BY <2>1, <2>5, DiesLog DEF CoreP!Streams
    <2> QED BY <2>1, <2>3, <2>4, <2>5
  <1>6. CASE Boot
    <2>1. /\ ~alive /\ alive' /\ exit' = Session!NotEnded
          /\ received' = <<>> /\ pending' = <<>>
          /\ began' = flat.lines /\ flat' = flat
      BY <1>6 DEF Boot, Core!Boot
    <2>2. Begins'
      BY <2>1 DEF Begins, LogInv, CoreP!Streams, Session!NotEnded
    <2>3. (Begins => LogInv)'
      BY BeginsInv, PTL
    <2> QED BY <2>2, <2>3
  <1>7. CASE UNCHANGED vars
    <2>1. UNCHANGED <<flags, alive, exit, flat, received, pending, began>>
      BY <1>7 DEF vars, sessionVars, coreVars
    <2> QED BY <2>1, SameLog
  <1> QED BY <1>1, <1>2, <1>3, <1>4, <1>5, <1>6, <1>7 DEF Next

(***************************************************************************)
(* With -f the flat logs hold what every process, the first or a restarted *)
(* one, was sent, each observation once and in its order, behind what they *)
(* held when it began: all that is processed while it runs and when it     *)
(* ends regularly, and after a kill all but some at the end, among which   *)
(* there is no time.  For any messages, any interleaving of the session's  *)
(* handlers, and any file the observations went to.                        *)
(***************************************************************************)
THEOREM LogsHoldReceived == Spec => []LogHoldsReceived
  <1>1. Init => LogInv
    <2> SUFFICES ASSUME Init PROVE LogInv
      OBVIOUS
    <2>1. CoreP!Streams
      <3>1. CoreP!Init
        BY SameStates DEF Init
      <3> QED BY <3>1, LoggerConstantsHold, CoreP!InitHolds
    <2>2. /\ alive /\ exit = Session!NotEnded /\ received = <<>> /\ pending = <<>>
          /\ began = flat.lines /\ flat.file = NoFile
      BY DEF Init, Session!Init, Core!Init
    <2> QED BY <2>1, <2>2, BeginsInv DEF Begins, CoreP!Streams
  <1>2. LogInv /\ CoreP!Memory /\ CoreP!Streams /\ (CoreP!Streams)' /\ PendingObservations
        /\ [Next]_vars => LogInv'
    BY StepLog
  <1>3. Spec => []CoreP!Memory /\ []CoreP!Streams
    BY LoggerInvariant, PTL
  <1>4. Spec => []LogInv
    BY <1>1, <1>2, <1>3, PendingIsObservations, PTL DEF Spec
  <1>5. LogInv /\ PendingObservations => LogHoldsReceived
    BY AliveHolds DEF LogInv
  <1> QED BY <1>4, <1>5, PendingIsObservations, PTL

-----------------------------------------------------------------------------
(* The session in the live program *)

SessionP == INSTANCE WebsocketSessionProofs

\* The two instances of the session are the same.
LEMMA SameSession ==
    /\ \A ec : /\ Session!OnResolve(ec) <=> SessionP!OnResolve(ec)
               /\ Session!OnConnect(ec) <=> SessionP!OnConnect(ec)
               /\ Session!OnHandshake(ec) <=> SessionP!OnHandshake(ec)
    /\ Session!RequestNext <=> SessionP!RequestNext
    /\ Session!StartReading <=> SessionP!StartReading
    /\ \A root : Session!OnMessage(root) <=> SessionP!OnMessage(root)
    /\ Session!OnReadError <=> SessionP!OnReadError
    /\ Session!OnWrite <=> SessionP!OnWrite
    /\ Session!OnWriteError <=> SessionP!OnWriteError
    /\ Session!Return <=> SessionP!Return
    /\ Session!LinkFails <=> SessionP!LinkFails
  <1>1. \A root : Session!HandleResponse(root) = SessionP!HandleResponse(root)
    BY DEF Session!HandleResponse, SessionP!HandleResponse, Session!HandleData, SessionP!HandleData,
           Session!IsMember, SessionP!IsMember, Session!IsValid, SessionP!IsValid
  <1>2. /\ Session!Running <=> SessionP!Running
        /\ Session!Handler <=> SessionP!Handler
        /\ Session!RequestAllValues = SessionP!RequestAllValues
        /\ Session!EXIT_SUCCESS = SessionP!EXIT_SUCCESS
    BY DEF Session!Running, SessionP!Running, Session!Handler, SessionP!Handler,
           Session!NotEnded, SessionP!NotEnded, Session!EXIT_SUCCESS, SessionP!EXIT_SUCCESS,
           Session!RequestAllValues, SessionP!RequestAllValues
  <1>3. \A root : Session!HandleText(root) <=> SessionP!HandleText(root)
    BY <1>1, <1>2 DEF Session!HandleText, SessionP!HandleText
  <1>4. \A ec : Session!OnResolve(ec) <=> SessionP!OnResolve(ec)
    BY <1>2, <1>3
       DEF Session!OnResolve, SessionP!OnResolve,
           Session!outgoing, SessionP!outgoing
  <1>5. \A ec : Session!OnConnect(ec) <=> SessionP!OnConnect(ec)
    BY <1>2, <1>3
       DEF Session!OnConnect, SessionP!OnConnect,
           Session!outgoing, SessionP!outgoing
  <1>6. \A ec : Session!OnHandshake(ec) <=> SessionP!OnHandshake(ec)
    BY <1>2, <1>3
       DEF Session!OnHandshake, SessionP!OnHandshake,
           Session!outgoing, SessionP!outgoing
  <1>7. Session!StartReading <=> SessionP!StartReading
    BY <1>2, <1>3
       DEF Session!StartReading, SessionP!StartReading,
           Session!outgoing, SessionP!outgoing
  <1>8. \A root : Session!OnMessage(root) <=> SessionP!OnMessage(root)
    BY <1>2, <1>3
       DEF Session!OnMessage, SessionP!OnMessage, Session!cascade, SessionP!cascade,
           Session!outgoing, SessionP!outgoing
  <1>9. Session!OnReadError <=> SessionP!OnReadError
    BY <1>2, <1>3
       DEF Session!OnReadError, SessionP!OnReadError, Session!cascade, SessionP!cascade,
           Session!outgoing, SessionP!outgoing
  <1>10. Session!OnWrite <=> SessionP!OnWrite
    BY <1>2, <1>3
       DEF Session!OnWrite, SessionP!OnWrite, Session!cascade, SessionP!cascade
  <1>11. Session!OnWriteError <=> SessionP!OnWriteError
    BY <1>2, <1>3
       DEF Session!OnWriteError, SessionP!OnWriteError, Session!cascade, SessionP!cascade
  <1>12. Session!Return <=> SessionP!Return
    BY <1>2, <1>3
       DEF Session!Return, SessionP!Return, Session!cascade, SessionP!cascade,
           Session!outgoing, SessionP!outgoing
  <1>13. Session!LinkFails <=> SessionP!LinkFails
    BY <1>2, <1>3
       DEF Session!LinkFails, SessionP!LinkFails, Session!cascade, SessionP!cascade,
           Session!outgoing, SessionP!outgoing
  <1>14. Session!RequestNext <=> SessionP!RequestNext
    BY <1>2 DEF Session!RequestNext, SessionP!RequestNext, Session!Send, SessionP!Send
  <1> QED BY <1>4, <1>5, <1>6, <1>7, <1>8, <1>9, <1>10, <1>11, <1>12, <1>13, <1>14

\* A step of the program is a step of the session, or begins a new session.
LEMMA StepOfSession ==
    ASSUME [Next]_vars
    PROVE  [SessionP!Next]_SessionP!vars \/ SessionP!Init'
  <1>1. CASE SessionStep
    BY <1>1, SameSession DEF SessionStep, SessionP!Next
  <1>2. ASSUME NEW root \in Message, Receive(root) \/ TestAnswered(root)
        PROVE  SessionP!Next
    BY <1>2, SameSession DEF Receive, TestAnswered, SessionP!Next
  <1>3. CASE ProcessNext
    BY <1>3 DEF ProcessNext, sessionVars, SessionP!vars
  <1>4. CASE Return
    BY <1>4, SameSession DEF Return, SessionP!Next
  <1>5. CASE Crash \/ Kill
    BY <1>5 DEF Crash, Kill, SessionGone, sessionVars, SessionP!vars
  <1>6. CASE Boot
    BY <1>6 DEF Boot, SessionP!Init, SessionP!NotEnded, Session!NotEnded
  <1>7. CASE UNCHANGED vars
    BY <1>7 DEF vars, sessionVars, SessionP!vars
  <1> QED BY <1>1, <1>2, <1>3, <1>4, <1>5, <1>6, <1>7 DEF Next

\* Every request is sent, queued or still to be queued, in every life of the
\* program.
LEMMA SessionInvariant == Spec => []SessionP!IInv
  <1>1. Init => SessionP!IInv
    <2>1. Session!Init => SessionP!Init
      BY DEF Session!Init, SessionP!Init, Session!NotEnded, SessionP!NotEnded
    <2> QED BY <2>1, SessionP!InitInvariant, SessionAssumption DEF Init
  <1>2. SessionP!IInv /\ [Next]_vars => SessionP!IInv'
    <2> SUFFICES ASSUME SessionP!IInv, [Next]_vars PROVE SessionP!IInv'
      OBVIOUS
    <2>1. CASE SessionP!Init'
      <3>1. (SessionP!Init => SessionP!IInv)'
        BY SessionP!InitInvariant, SessionAssumption, PTL
      <3> QED BY <2>1, <3>1
    <2>2. CASE [SessionP!Next]_SessionP!vars
      BY <2>2, SessionP!StepInvariant, SessionAssumption
    <2> QED BY <2>1, <2>2, StepOfSession
  <1> QED BY <1>1, <1>2, PTL DEF Spec

(***************************************************************************)
(* While messages are handled, processes die and are started again, the    *)
(* session keeps to one write at a time, of a message that m_queue holds.  *)
(***************************************************************************)
THEOREM LiveWritesOneAtATime == Spec => [](Session!OneWriteInFlight /\ Session!WriteBufferAlive)
  <1>1. SessionP!IInv => SessionP!OneWriteInFlight /\ SessionP!WriteBufferAlive
    BY SessionP!WritesInOrder, SessionAssumption
  <1>2. SessionP!OneWriteInFlight /\ SessionP!WriteBufferAlive
        => Session!OneWriteInFlight /\ Session!WriteBufferAlive
    BY DEF SessionP!OneWriteInFlight, Session!OneWriteInFlight,
           SessionP!WriteBufferAlive, Session!WriteBufferAlive
  <1> QED BY <1>1, <1>2, SessionInvariant, PTL

-----------------------------------------------------------------------------
(* The files of the live program *)

(***************************************************************************)
(* The CSV files of the live program: rows in the order of their times,    *)
(* under headings, and a kill loses none of them; and of its flat logs no  *)
(* kill loses what was logged up to the last time.                         *)
(***************************************************************************)
THEOREM LiveFilesInOrder ==
    Spec => [](CoreP!RowTimesIncrease /\ CoreP!HeadingsFirst)
            /\ CoreP!RowsAreArchived /\ CoreP!TimesAreArchived
  <1>1. CoreP!Spec => []CoreP!RowTimesIncrease
    BY LoggerConstantsHold, CoreP!RowsInOrder
  <1>2. CoreP!Spec => []CoreP!HeadingsFirst
    BY LoggerConstantsHold, CoreP!HeadingsComeFirst
  <1>3. CoreP!Spec => CoreP!RowsAreArchived
    BY LoggerConstantsHold, CoreP!CsvFilesAreAnArchive
  <1>4. CoreP!Spec => CoreP!TimesAreArchived
    BY LoggerConstantsHold, CoreP!FlatLogsAreAnArchive
  <1> QED BY <1>1, <1>2, <1>3, <1>4, LiveIsCore, PTL
=============================================================================
