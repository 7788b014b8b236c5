--------------------------- MODULE DataDefsProofs ---------------------------
(***************************************************************************)
(* What AnalyzeDataDefs makes of any list of definitions, whatever their   *)
(* number and order and whichever members they lack.                       *)
(***************************************************************************)
EXTENDS DataDefs, WellFoundedInduction, TLAPS

-----------------------------------------------------------------------------
(* The analysis of one item *)

\* A complete item has a column inside the vectors it is analysed with.
LEMMA CompleteColumn ==
    ASSUME NEW item \in Definition, Complete(item)
    PROVE  item.CsvColumn \in 1 .. MAX_CSV_COLUMNS
  BY DataDefsAssumption DEF Complete

\* The count never shrinks, and covers the column just met.
LEMMA ExtendedCovers ==
    ASSUME cols \in Nat, NEW c \in Nat
    PROVE  Extended(c) \in Nat /\ cols <= Extended(c) /\ c <= Extended(c)
  BY DEF Extended

\* A translation extended by an entry keeps what its values satisfy.
LEMMA EntryTyped ==
    ASSUME NEW S, NEW map, \A k \in DOMAIN map : map[k] \in S, NEW key, NEW value \in S
    PROVE  LET entered == Entry(map, key, value)
           IN  /\ \A k \in DOMAIN entered : entered[k] \in S
               /\ entered[key] = value
               /\ \A k \in DOMAIN map : k # key => entered[k] = map[k]
  BY DEF Entry

\* An item being analysed is one of the definitions.
LEMMA ItemTyped ==
    ASSUME TypeOK, NEW item, NextItem(item)
    PROVE  /\ item \in Definition /\ item = items[i']
           /\ i \in Nat /\ i' = i + 1 /\ i' \in 1 .. Len(items)
           /\ 1 .. i' = (1 .. i) \cup {i'}
           /\ i' \in 0 .. Len(items) /\ i' \notin 1 .. i
           /\ state = "analyzing" /\ state' = state /\ items' = items
  <1>1. Len(items) \in Nat /\ i \in 0 .. Len(items)
    BY DEF TypeOK
  <1>2. i' = i + 1 /\ i < Len(items) /\ item = items[i + 1]
    BY DEF NextItem
  <1>3. items[i + 1] \in Definition
    BY <1>1, <1>2 DEF TypeOK
  <1> QED BY <1>1, <1>2, <1>3 DEF NextItem

-----------------------------------------------------------------------------
(* The columns *)

LEMMA InitCounted == Init => ColumnsCounted
  BY DataDefsAssumption DEF Init, ColumnsCounted, TypeOK, NoEntry

LEMMA SkipCounted ==
    ASSUME ColumnsCounted, NEW item, SkipItem(item)
    PROVE  ColumnsCounted'
  <1>1. TypeOK /\ NextItem(item) /\ ~Complete(item)
        /\ UNCHANGED <<cols, tracked, bgToCsv, nameToCsv>>
    BY DEF ColumnsCounted, SkipItem
  <1>2. /\ item = items[i'] /\ items' = items /\ state' = state
        /\ i' \in 0 .. Len(items) /\ 1 .. i' = (1 .. i) \cup {i'}
    BY <1>1, ItemTyped
  <1>3. TypeOK'
    BY <1>1, <1>2 DEF TypeOK
  <1>4. ASSUME NEW k \in 1 .. i', Complete(items[k])
        PROVE  /\ items[k].CsvColumn <= cols
               /\ IsMember(items[k], "ID") => items[k].ID \in DOMAIN bgToCsv
    BY <1>1, <1>2, <1>4 DEF ColumnsCounted
  <1>5. state' # "loading"
    BY <1>1, <1>2 DEF NextItem
  <1> QED BY <1>1, <1>2, <1>3, <1>4, <1>5 DEF ColumnsCounted, Complete, WriteToCsvTest, IsMember

LEMMA TrackCounted ==
    ASSUME ColumnsCounted, NEW item, TrackItem(item)
    PROVE  ColumnsCounted'
  <1> DEFINE column == item.CsvColumn
             inside == {c \in 1 .. MAX_CSV_COLUMNS : c <= cols'}
  <1>1. TypeOK /\ NextItem(item) /\ Complete(item)
    BY DEF ColumnsCounted, TrackItem
  <1>2. /\ item \in Definition /\ item = items[i'] /\ items' = items /\ state' = state
        /\ state = "analyzing"
        /\ i' \in 0 .. Len(items) /\ 1 .. i' = (1 .. i) \cup {i'}
    BY <1>1, ItemTyped
  <1>3. column \in 1 .. MAX_CSV_COLUMNS
    BY <1>1, <1>2, CompleteColumn
  <1>4. cols \in Nat /\ cols' \in Nat /\ cols <= cols' /\ column <= cols'
    <2>1. cols \in Nat /\ column \in Nat /\ cols' = Extended(column)
      BY <1>1, <1>3, DataDefsAssumption DEF TypeOK, TrackItem
    <2> QED BY <2>1, ExtendedCovers
  <1>5. column \in inside
    BY <1>3, <1>4
  <1>6. /\ \A id \in DOMAIN bgToCsv : bgToCsv[id] \in inside
        /\ \A name \in DOMAIN nameToCsv : nameToCsv[name] \in inside
    BY <1>1, <1>4, DataDefsAssumption DEF ColumnsCounted, TypeOK
  <1>7. \A id \in DOMAIN bgToCsv' : bgToCsv'[id] \in inside
    <2> HIDE DEF inside, column
    <2>1. CASE IsMember(item, "ID")
      <3>1. bgToCsv' = Entry(bgToCsv, item.ID, column)
        BY <2>1 DEF TrackItem, column
      <3> QED BY <1>5, <1>6, <3>1, EntryTyped
    <2>2. CASE ~IsMember(item, "ID")
      BY <1>6, <2>2 DEF TrackItem
    <2> QED BY <2>1, <2>2
  <1>8. \A name \in DOMAIN nameToCsv' : nameToCsv'[name] \in inside
    <2> HIDE DEF inside, column
    <2>1. nameToCsv' = Entry(nameToCsv, item.CsvHeader, column)
      BY DEF TrackItem, column
    <2> QED BY <1>5, <1>6, <2>1, EntryTyped
  <1>9. tracked' \in [1 .. MAX_CSV_COLUMNS -> Seq(Character)]
    <2>1. item.CsvHeader \in Seq(Character)
      BY <1>1, <1>2, DataDefsAssumption DEF Complete
    <2>2. tracked \in [1 .. MAX_CSV_COLUMNS -> Seq(Character)]
      BY <1>1, <1>2 DEF TypeOK
    <2> QED BY <2>1, <2>2 DEF TrackItem, Headed
  <1>10. TypeOK'
    BY <1>1, <1>2, <1>4, <1>7, <1>8, <1>9 DEF TypeOK
  <1>11. ASSUME NEW k \in 1 .. i', Complete(items[k])
         PROVE  /\ items[k].CsvColumn <= cols'
                /\ IsMember(items[k], "ID") => items[k].ID \in DOMAIN bgToCsv'
    <2>1. CASE k = i'
      BY <1>2, <1>4, <2>1 DEF TrackItem, Entry
    <2>2. CASE k \in 1 .. i
      <3>1. items[k].CsvColumn <= cols
        BY <1>11, <2>2 DEF ColumnsCounted
      <3>2. items[k] \in Definition
        BY <1>1, <2>2 DEF TypeOK
      <3>3. items[k].CsvColumn \in Nat
        BY <1>11, <3>2, CompleteColumn, DataDefsAssumption
      <3>4. IsMember(items[k], "ID") => items[k].ID \in DOMAIN bgToCsv
        BY <1>11, <2>2 DEF ColumnsCounted
      <3>5. DOMAIN bgToCsv \subseteq DOMAIN bgToCsv'
        BY DEF TrackItem, Entry
      <3> QED BY <1>4, <3>1, <3>3, <3>4, <3>5
    <2> QED BY <1>2, <2>1, <2>2
  <1>12. state' # "loading"
    BY <1>2
  <1> QED BY <1>2, <1>7, <1>8, <1>10, <1>11, <1>12 DEF ColumnsCounted, Complete, WriteToCsvTest, IsMember

LEMMA StepCounted ==
    ASSUME ColumnsCounted, [Next]_vars
    PROVE  ColumnsCounted'
  <1>1. CASE CannotLoad
    BY <1>1 DEF CannotLoad, analysis, ColumnsCounted, TypeOK, Complete, WriteToCsvTest, IsMember
  <1>2. ASSUME NEW n \in 0 .. MaxItems, NEW definitions \in [1 .. n -> Definition],
               Load(definitions)
        PROVE  ColumnsCounted'
    <2>1. i = 0 /\ i' = 0
      BY <1>2 DEF Load, ColumnsCounted
    <2>2. definitions \in Seq(Definition)
      BY <1>2, DataDefsAssumption
    <2> QED BY <1>2, <2>1, <2>2 DEF Load, ColumnsCounted, TypeOK
  <1>3. ASSUME NEW item \in Definition, SkipItem(item)
        PROVE  ColumnsCounted'
    BY <1>3, SkipCounted
  <1>4. ASSUME NEW item \in Definition, TrackItem(item)
        PROVE  ColumnsCounted'
    BY <1>4, TrackCounted
  <1>5. CASE Resize
    BY <1>5 DEF Resize, ColumnsCounted, TypeOK, Complete, WriteToCsvTest, IsMember
  <1>6. CASE UNCHANGED vars
    BY <1>6 DEF vars, analysis, ColumnsCounted, TypeOK, Complete, WriteToCsvTest, IsMember
  <1> QED BY <1>1, <1>2, <1>3, <1>4, <1>5, <1>6 DEF Next

(***************************************************************************)
(* Every file of definitions keeps the count of columns above all columns  *)
(* met so far (AnalyzeDataDefs).                                           *)
(***************************************************************************)
THEOREM CountCoversColumns == Spec => []ColumnsCounted
  BY InitCounted, StepCounted, PTL DEF Spec

(***************************************************************************)
(* No translation of AnalyzeDataDefs leads outside the vectors, which      *)
(* ProcessObservation indexes without a check.                             *)
(***************************************************************************)
THEOREM TranslationsFit == Spec => []ColumnsFit
  <1>1. ColumnsCounted => ColumnsFit
    <2> SUFFICES ASSUME ColumnsCounted, state = "ready" PROVE ColumnsFit
      BY DEF ColumnsFit
    <2>1. DOMAIN tracked = 1 .. cols /\ cols \in Nat
      BY DEF ColumnsCounted, TypeOK
    <2>2. \A id \in DOMAIN bgToCsv : bgToCsv[id] \in 1 .. cols
      BY <2>1, DataDefsAssumption DEF ColumnsCounted, TypeOK
    <2>3. \A name \in DOMAIN nameToCsv : nameToCsv[name] \in 1 .. cols
      BY <2>1, DataDefsAssumption DEF ColumnsCounted, TypeOK
    <2> QED BY <2>1, <2>2, <2>3 DEF ColumnsFit
  <1> QED BY <1>1, CountCoversColumns, PTL

-----------------------------------------------------------------------------
(* The headings *)

\* An item without a column takes nothing from those before it.
LEMMA SkipPlaced ==
    ASSUME ColumnsCounted, ReadingsUnderHeading, NEW item, SkipItem(item)
    PROVE  ReadingsUnderHeading'
  <1>1. TypeOK /\ NextItem(item) /\ ~Complete(item)
        /\ UNCHANGED <<cols, tracked, bgToCsv, nameToCsv>>
    BY DEF ColumnsCounted, SkipItem
  <1>2. /\ item = items[i'] /\ items' = items /\ state = "analyzing" /\ i \in Nat /\ i' = i + 1
        /\ 1 .. i' = (1 .. i) \cup {i'}
    BY <1>1, ItemTyped
  <1>3. ASSUME NEW k \in 1 .. i', Complete(items[k]), LastWith(k, "CsvColumn")'
        PROVE  /\ tracked[items[k].CsvColumn] = items[k].CsvHeader
               /\ IsMember(items[k], "ID") /\ LastWith(k, "ID")' =>
                      bgToCsv[items[k].ID] = items[k].CsvColumn
    <2>1. k \in 1 .. i
      BY <1>1, <1>2, <1>3
    <2>2. k + 1 .. i \subseteq k + 1 .. i'
      BY <1>2, <2>1
    <2>3. \A name : LastWith(k, name)' => LastWith(k, name)
      BY <1>2, <2>2 DEF LastWith, Complete, WriteToCsvTest, IsMember
    <2> QED BY <1>2, <1>3, <2>1, <2>3 DEF ReadingsUnderHeading
  <1> QED BY <1>1, <1>2, <1>3 DEF ReadingsUnderHeading, Complete, WriteToCsvTest, IsMember

\* The new item is placed; it takes column and id only from items that LastWith
\* no longer holds of.
LEMMA TrackPlaced ==
    ASSUME ColumnsCounted, ReadingsUnderHeading, NEW item, TrackItem(item)
    PROVE  ReadingsUnderHeading'
  <1>1. TypeOK /\ NextItem(item) /\ Complete(item)
    BY DEF ColumnsCounted, TrackItem
  <1>2. /\ item = items[i'] /\ items' = items /\ item \in Definition
        /\ state = "analyzing" /\ i \in Nat /\ i' = i + 1
        /\ 1 .. i' = (1 .. i) \cup {i'}
    BY <1>1, ItemTyped
  <1>3. tracked' = [c \in 1 .. MAX_CSV_COLUMNS |->
                       IF c = item.CsvColumn THEN item.CsvHeader ELSE tracked[c]]
    BY <1>1, <1>2 DEF TrackItem, Headed, TypeOK
  <1>4. /\ IsMember(item, "ID") => bgToCsv' = Entry(bgToCsv, item.ID, item.CsvColumn)
        /\ ~IsMember(item, "ID") => bgToCsv' = bgToCsv
    BY DEF TrackItem
  <1>5. ASSUME NEW k \in 1 .. i', Complete(items[k]), LastWith(k, "CsvColumn")'
        PROVE  /\ tracked'[items[k].CsvColumn] = items[k].CsvHeader
               /\ IsMember(items[k], "ID") /\ LastWith(k, "ID")' =>
                      bgToCsv'[items[k].ID] = items[k].CsvColumn
    <2>1. items[k] \in Definition
      BY <1>1, <1>2, <1>5 DEF TypeOK
    <2>2. items[k].CsvColumn \in 1 .. MAX_CSV_COLUMNS
      BY <1>5, <2>1, CompleteColumn
    <2>3. CASE k = i'
      <3>1. items[k] = item
        BY <1>2, <2>3
      <3>2. tracked'[item.CsvColumn] = item.CsvHeader
        BY <1>3, <2>2, <3>1
      <3>3. IsMember(item, "ID") => bgToCsv'[item.ID] = item.CsvColumn
        BY <1>4 DEF Entry
      <3> QED BY <3>1, <3>2, <3>3
    <2>4. CASE k \in 1 .. i
      <3>1. i' \in k + 1 .. i' /\ k + 1 .. i \subseteq k + 1 .. i'
        BY <1>2, <2>4
      <3>2. \A name : LastWith(k, name)' => LastWith(k, name)
        BY <1>2, <3>1 DEF LastWith, Complete, WriteToCsvTest, IsMember
      <3>3. /\ tracked[items[k].CsvColumn] = items[k].CsvHeader
            /\ IsMember(items[k], "ID") /\ LastWith(k, "ID") =>
                   bgToCsv[items[k].ID] = items[k].CsvColumn
        BY <1>2, <1>5, <2>4, <3>2 DEF ReadingsUnderHeading
      <3>4. IsMember(item, "CsvColumn")
        BY <1>1 DEF Complete
      <3>5. items[k].CsvColumn # item.CsvColumn
        BY <1>1, <1>2, <1>5, <3>1, <3>4 DEF LastWith, Complete, WriteToCsvTest, IsMember
      <3>6. tracked'[items[k].CsvColumn] = items[k].CsvHeader
        BY <1>3, <2>2, <3>3, <3>5
      <3>7. ASSUME IsMember(items[k], "ID"), LastWith(k, "ID")'
            PROVE  bgToCsv'[items[k].ID] = items[k].CsvColumn
        <4>1. bgToCsv[items[k].ID] = items[k].CsvColumn
          BY <3>2, <3>3, <3>7
        <4>2. CASE IsMember(item, "ID")
          <5>1. items[k].ID # item.ID
            BY <1>1, <1>2, <3>1, <3>7, <4>2 DEF LastWith, Complete, WriteToCsvTest, IsMember
          <5>2. items[k].ID \in DOMAIN bgToCsv
            BY <1>5, <2>4, <3>7 DEF ColumnsCounted
          <5> QED BY <1>4, <4>1, <4>2, <5>1, <5>2 DEF Entry
        <4>3. CASE ~IsMember(item, "ID")
          BY <1>4, <4>1, <4>3
        <4> QED BY <4>2, <4>3
      <3> QED BY <3>6, <3>7
    <2> QED BY <1>2, <2>3, <2>4
  <1> QED BY <1>2, <1>5 DEF ReadingsUnderHeading, Complete, WriteToCsvTest, IsMember

\* The vectors are cut to the columns counted, which keeps every column met.
LEMMA ResizePlaced ==
    ASSUME ColumnsCounted, ReadingsUnderHeading, Resize
    PROVE  ReadingsUnderHeading'
  <1>1. /\ TypeOK /\ state = "analyzing"
        /\ UNCHANGED <<items, i, cols, bgToCsv, nameToCsv>>
        /\ tracked' = [c \in 1 .. cols |-> IF c \in DOMAIN tracked THEN tracked[c] ELSE <<>>]
        /\ DOMAIN tracked = 1 .. MAX_CSV_COLUMNS
    BY DEF ColumnsCounted, Resize, TypeOK
  <1>2. ASSUME NEW k \in 1 .. i, Complete(items[k])
        PROVE  tracked'[items[k].CsvColumn] = tracked[items[k].CsvColumn]
    <2>1. items[k] \in Definition /\ cols \in Nat
      BY <1>1 DEF TypeOK
    <2>2. items[k].CsvColumn \in 1 .. MAX_CSV_COLUMNS
      BY <1>2, <2>1, CompleteColumn
    <2>3. items[k].CsvColumn <= cols
      BY <1>2 DEF ColumnsCounted
    <2>4. items[k].CsvColumn \in 1 .. cols
      BY <2>1, <2>2, <2>3, DataDefsAssumption
    <2> QED BY <1>1, <2>2, <2>4
  <1>3. \A k, name : LastWith(k, name)' <=> LastWith(k, name)
    BY <1>1 DEF LastWith, Complete, WriteToCsvTest, IsMember
  <1> QED BY <1>1, <1>2, <1>3 DEF ReadingsUnderHeading, Complete, WriteToCsvTest, IsMember

LEMMA StepPlaced ==
    ASSUME ColumnsCounted, ReadingsUnderHeading, [Next]_vars
    PROVE  ReadingsUnderHeading'
  <1>1. CASE CannotLoad
    BY <1>1 DEF CannotLoad, ReadingsUnderHeading
  <1>2. ASSUME NEW definitions, Load(definitions)
        PROVE  ReadingsUnderHeading'
    BY <1>2 DEF Load, ColumnsCounted, ReadingsUnderHeading
  <1>3. ASSUME NEW item, SkipItem(item) \/ TrackItem(item)
        PROVE  ReadingsUnderHeading'
    BY <1>3, SkipPlaced, TrackPlaced
  <1>4. CASE Resize
    BY <1>4, ResizePlaced
  <1>5. CASE UNCHANGED vars
    BY <1>5 DEF vars, analysis, ReadingsUnderHeading, LastWith, Complete, WriteToCsvTest, IsMember
  <1> QED BY <1>1, <1>2, <1>3, <1>4, <1>5 DEF Next

(***************************************************************************)
(* In whatever order AnalyzeDataDefs meets items that share ids or columns *)
(* with others, the last of them has its heading over its readings.        *)
(***************************************************************************)
THEOREM HeadingsOverReadings == Spec => []ReadingsUnderHeading
  <1>1. Init => ReadingsUnderHeading
    BY DEF Init, ReadingsUnderHeading
  <1> QED BY <1>1, StepPlaced, CountCoversColumns, PTL DEF Spec

-----------------------------------------------------------------------------
(* Induction over a set of natural numbers *)

\* A set of natural numbers has a least element.
LEMMA LeastElement ==
    ASSUME NEW T, T \subseteq Nat, T # {}
    PROVE  \E m \in T : \A k \in T : m <= k
  <1> DEFINE Less == OpToRel(<, Nat)
  <1>1. IsWellFoundedOn(Less, Nat)
    BY NatLessThanWellFounded
  <1>2. \A j, k \in Nat : j < k => <<j, k>> \in Less
    BY DEF OpToRel
  <1> HIDE DEF Less
  <1>3. PICK m \in T : \A k \in T : ~ (<<k, m>> \in Less)
    BY <1>1, WFMin
  <1>4. ASSUME NEW k \in T
        PROVE  m <= k
    <2>1. k \in Nat /\ m \in Nat /\ ~ (<<k, m>> \in Less)
      BY <1>3
    <2>2. ~ (k < m)
      BY <1>2, <2>1
    <2> QED BY <2>1, <2>2
  <1> QED BY <1>4

\* What holds of m and of the successor of each number it holds of, up to n,
\* holds of all of them.
LEMMA Induction ==
    ASSUME NEW m \in Nat, NEW n \in Nat, NEW T, m \in T,
           \A k \in m .. n : k \in T /\ k < n => k + 1 \in T
    PROVE  \A k \in m .. n : k \in T
  <1> SUFFICES ASSUME NEW j \in m .. n, j \notin T
               PROVE  FALSE
    OBVIOUS
  <1> DEFINE Out == {k \in m .. n : k \notin T}
  <1>1. Out \subseteq Nat /\ j \in Out
    OBVIOUS
  <1>2. PICK least \in Out : \A k \in Out : least <= k
    BY <1>1, LeastElement
  <1>3. least \in Nat /\ least > m
    OBVIOUS
  <1>4. least - 1 \in m .. n /\ least - 1 < n /\ least - 1 \notin Out
    BY <1>2, <1>3
  <1> QED BY <1>3, <1>4

-----------------------------------------------------------------------------
(* The line of headings *)

\* The loop of MakeHeaderString computes what its recursion says.
LEMMA HeaderStrDefined ==
    ASSUME NEW headings \in Seq(Seq(Character))
    PROVE  HeaderStr(headings) =
              [c \in 0 .. Len(headings) |->
                  IF c = 0 THEN <<>>
                  ELSE HeaderStr(headings)[c - 1] \o Append(headings[c], Comma)]
  <1> DEFINE Loop(f, n) ==
                f = [c \in 0 .. n |->
                        IF c = 0 THEN <<>> ELSE f[c - 1] \o Append(headings[c], Comma)]
             n == Len(headings)
             T == {k \in 0 .. n : \E f : Loop(f, k)}
  <1>1. n \in Nat
    OBVIOUS
  <1>2. 0 \in T
    <2> DEFINE f == [c \in 0 .. 0 |-> <<>>]
    <2>1. Loop(f, 0)
      OBVIOUS
    <2> HIDE DEF Loop, f
    <2> QED BY <1>1, <2>1
  <1>3. ASSUME NEW k \in 0 .. n, k \in T, k < n
        PROVE  k + 1 \in T
    <2>1. PICK f : Loop(f, k)
      BY <1>3
    <2> DEFINE g == [c \in 0 .. k + 1 |->
                        IF c = k + 1 THEN f[k] \o Append(headings[k + 1], Comma) ELSE f[c]]
    <2>2. Loop(g, k + 1)
      <3> DEFINE h == [c \in 0 .. k + 1 |->
                          IF c = 0 THEN <<>> ELSE g[c - 1] \o Append(headings[c], Comma)]
      <3>1. ASSUME NEW c \in 0 .. k + 1
            PROVE  g[c] = h[c]
        <4>1. /\ c # 0 => g[c - 1] = f[c - 1]
              /\ c # k + 1 => g[c] = f[c] /\ c \in 0 .. k
              /\ g[k + 1] = f[k] \o Append(headings[k + 1], Comma)
          <5>1. \A b \in 0 .. k + 1 :
                   g[b] = IF b = k + 1 THEN f[k] \o Append(headings[k + 1], Comma) ELSE f[b]
            OBVIOUS
          <5> HIDE DEF g
          <5>2. k \in Nat /\ k + 1 \in 0 .. k + 1
            BY <1>1
          <5>3. c # 0 => c - 1 \in 0 .. k + 1 /\ c - 1 # k + 1
            BY <5>2
          <5>4. c # 0 => g[c - 1] = f[c - 1]
            BY <5>1, <5>3
          <5>5. c # k + 1 => g[c] = f[c] /\ c \in 0 .. k
            BY <5>1, <5>2
          <5>6. g[k + 1] = f[k] \o Append(headings[k + 1], Comma)
            BY <5>1, <5>2
          <5> QED BY <5>4, <5>5, <5>6
        <4>2. h[c] = IF c = 0 THEN <<>> ELSE g[c - 1] \o Append(headings[c], Comma)
          OBVIOUS
        <4> HIDE DEF g, h
        <4>3. CASE c = k + 1
          <5>1. c # 0 /\ c - 1 = k
            BY <4>3
          <5> QED BY <4>1, <4>2, <4>3, <5>1
        <4>4. CASE c # k + 1
          <5>1. f[c] = IF c = 0 THEN <<>> ELSE f[c - 1] \o Append(headings[c], Comma)
            BY <2>1, <4>1, <4>4
          <5> QED BY <4>1, <4>2, <4>4, <5>1
        <4> QED BY <4>3, <4>4
      <3> QED BY <3>1
    <2> HIDE DEF g, Loop
    <2> QED BY <1>1, <1>3, <2>2
  <1>4. n \in T
    <2> HIDE DEF T, n
    <2>1. \A k \in 0 .. n : k \in T
      BY <1>1, <1>2, <1>3, Induction
    <2> QED BY <1>1, <2>1
  <1>5. PICK f : Loop(f, n)
    BY <1>4
  <1>6. HeaderStr(headings) = CHOOSE g : Loop(g, n)
    BY DEF HeaderStr
  <1> HIDE DEF Loop
  <1>7. Loop(HeaderStr(headings), n)
    BY <1>5, <1>6
  <1> QED BY <1>7 DEF Loop

LineCharacter == Character \cup {Comma}

\* A heading and its comma are put behind the line so far.
LEMMA HeaderStrStep ==
    ASSUME NEW headings \in Seq(Seq(Character))
    PROVE  LET line == HeaderStr(headings)
           IN  /\ \A c \in 0 .. Len(headings) : line[c] \in Seq(LineCharacter)
               /\ \A c \in 0 .. Len(headings) : c < Len(headings) =>
                      line[c + 1] = line[c] \o Append(headings[c + 1], Comma)
  <1> DEFINE line == HeaderStr(headings)
             n == Len(headings)
             T == {c \in 0 .. n : line[c] \in Seq(LineCharacter)}
  <1>1. n \in Nat
    OBVIOUS
  <1>2. /\ line[0] = <<>>
        /\ \A c \in 0 .. n : c < n => line[c + 1] = line[c] \o Append(headings[c + 1], Comma)
    <2>1. \A c \in 0 .. n : line[c] = IF c = 0 THEN <<>>
                                      ELSE line[c - 1] \o Append(headings[c], Comma)
      BY HeaderStrDefined
    <2> HIDE DEF line, n
    <2>2. 0 \in 0 .. n
      BY <1>1
    <2>3. \A c \in 0 .. n : c < n => c + 1 \in 0 .. n /\ c + 1 # 0 /\ (c + 1) - 1 = c
      BY <1>1
    <2> QED BY <2>1, <2>2, <2>3
  <1>3. \A c \in 1 .. n : Append(headings[c], Comma) \in Seq(LineCharacter)
    BY DEF LineCharacter
  <1> HIDE DEF line, n
  <1>4. 0 \in T
    <2>1. <<>> \in Seq(LineCharacter) /\ 0 \in 0 .. n
      BY <1>1
    <2> QED BY <1>2, <2>1
  <1>5. ASSUME NEW c \in 0 .. n, c \in T, c < n
        PROVE  c + 1 \in T
    <2>1. c + 1 \in 1 .. n /\ c + 1 \in 0 .. n
      BY <1>1, <1>5
    <2>2. line[c + 1] = line[c] \o Append(headings[c + 1], Comma)
      BY <1>2, <1>5
    <2>3. Append(headings[c + 1], Comma) \in Seq(LineCharacter) /\ line[c] \in Seq(LineCharacter)
      BY <1>3, <1>5, <2>1
    <2>4. \A s, u \in Seq(LineCharacter) : s \o u \in Seq(LineCharacter)
      OBVIOUS
    <2>5. line[c + 1] \in Seq(LineCharacter)
      BY <2>2, <2>3, <2>4
    <2> QED BY <2>1, <2>5
  <1>6. \A c \in 0 .. n : c \in T
    <2> HIDE DEF T
    <2> QED BY <1>1, <1>4, <1>5, Induction
  <1> QED BY <1>2, <1>6 DEF line, n

\* The line up to a heading stays the beginning of the line, and every further
\* heading makes it longer.
LEMMA HeaderStrGrows ==
    ASSUME NEW headings \in Seq(Seq(Character)), NEW c \in 0 .. Len(headings)
    PROVE  LET line == HeaderStr(headings)
           IN  \A k \in c .. Len(headings) :
                  /\ Len(line[k]) >= Len(line[c]) + (k - c)
                  /\ \A p \in 1 .. Len(line[c]) : line[k][p] = line[c][p]
  <1> DEFINE line == HeaderStr(headings)
             n == Len(headings)
             Begins(k) == /\ Len(line[k]) >= Len(line[c]) + (k - c)
                          /\ \A p \in 1 .. Len(line[c]) : line[k][p] = line[c][p]
             T == {k \in c .. n : Begins(k)}
  <1>1. /\ n \in Nat /\ c \in Nat /\ c <= n
        /\ \A k \in 0 .. n : line[k] \in Seq(LineCharacter) /\ Len(line[k]) \in Nat
        /\ \A k \in 0 .. n : k < n => line[k + 1] = line[k] \o Append(headings[k + 1], Comma)
        /\ \A k \in 1 .. n : headings[k] \in Seq(Character)
    <2>1. \A s \in Seq(LineCharacter) : Len(s) \in Nat
      OBVIOUS
    <2>2. /\ \A k \in 0 .. n : line[k] \in Seq(LineCharacter)
          /\ \A k \in 0 .. n : k < n =>
                 line[k + 1] = line[k] \o Append(headings[k + 1], Comma)
      BY HeaderStrStep
    <2> HIDE DEF line
    <2>3. n \in Nat /\ c \in Nat /\ c <= n /\ \A k \in 1 .. n : headings[k] \in Seq(Character)
      OBVIOUS
    <2> QED BY <2>1, <2>2, <2>3
  <1> HIDE DEF line, n
  <1>2. c \in T
    BY <1>1
  <1>3. ASSUME NEW k \in c .. n, k \in T, k < n
        PROVE  k + 1 \in T
    <2> DEFINE more == Append(headings[k + 1], Comma)
    <2>1. /\ k \in 0 .. n /\ k + 1 \in 1 .. n /\ k + 1 \in c .. n
      BY <1>1, <1>3
    <2>2. /\ more \in Seq(LineCharacter) /\ Len(more) \in Nat /\ Len(more) >= 1
      BY <1>1, <2>1 DEF LineCharacter
    <2>3. /\ line[k + 1] = line[k] \o more
          /\ line[k] \in Seq(LineCharacter) /\ Len(line[k]) \in Nat
      BY <1>1, <1>3, <2>1
    <2>0. Len(line[c]) \in Nat
      <3>1. c \in 0 .. n
        BY <1>1
      <3> QED BY <1>1, <3>1
    <2> HIDE DEF more
    <2>4. /\ Len(line[k + 1]) = Len(line[k]) + Len(more)
          /\ \A p \in 1 .. Len(line[k]) : line[k + 1][p] = line[k][p]
      BY <2>2, <2>3
    <2>5. Begins(k)
      BY <1>3
    <2>6. Begins(k + 1)
      <3>1. 1 .. Len(line[c]) \subseteq 1 .. Len(line[k])
        BY <1>1, <2>1, <2>3, <2>5, <2>0
      <3>2. \A p \in 1 .. Len(line[c]) : line[k + 1][p] = line[c][p]
        BY <2>4, <2>5, <3>1
      <3>3. Len(line[k + 1]) >= Len(line[c]) + ((k + 1) - c)
        <4>1. Len(line[k]) >= Len(line[c]) + (k - c) /\ k \in Nat
          BY <1>1, <2>1, <2>5
        <4>2. \A a, b, d, u \in Nat : a >= b + (k - c) /\ d >= 1 /\ u = a + d
                                      => u >= b + ((k + 1) - c)
          BY <1>1, <4>1
        <4>3. Len(line[k + 1]) \in Nat
          BY <2>2, <2>3, <2>4
        <4> QED BY <2>2, <2>3, <2>4, <2>0, <4>1, <4>2, <4>3
      <3> QED BY <3>2, <3>3
    <2> QED BY <2>1, <2>6
  <1>4. \A k \in c .. n : k \in T
    <2> HIDE DEF T
    <2> QED BY <1>1, <1>2, <1>3, Induction
  <1> QED BY <1>4 DEF line, n

\* The line up to a heading ends with its comma.
LEMMA HeaderStrEnds ==
    ASSUME NEW headings \in Seq(Seq(Character)), NEW c \in 1 .. Len(headings)
    PROVE  LET upto == HeaderStr(headings)[c]
           IN  upto \in Seq(LineCharacter) /\ Len(upto) >= 1 /\ upto[Len(upto)] = Comma
  <1> DEFINE line == HeaderStr(headings)
             n == Len(headings)
             more == Append(headings[c], Comma)
  <1>1. /\ n \in Nat /\ c \in 1 .. n
        /\ \A k \in 0 .. n : line[k] \in Seq(LineCharacter)
        /\ \A k \in 0 .. n : k < n => line[k + 1] = line[k] \o Append(headings[k + 1], Comma)
    <2>1. /\ \A k \in 0 .. n : line[k] \in Seq(LineCharacter)
          /\ \A k \in 0 .. n : k < n =>
                 line[k + 1] = line[k] \o Append(headings[k + 1], Comma)
      BY HeaderStrStep
    <2>2. n \in Nat /\ c \in 1 .. n
      OBVIOUS
    <2> HIDE DEF line
    <2> QED BY <2>1, <2>2
  <1>2. more \in Seq(LineCharacter) /\ Len(more) \in Nat \ {0} /\ more[Len(more)] = Comma
    BY DEF LineCharacter
  <1> HIDE DEF line, n
  <1>3. c - 1 \in 0 .. n /\ c - 1 < n /\ (c - 1) + 1 = c /\ c \in 0 .. n
    BY <1>1
  <1>4. line[c] = line[c - 1] \o more /\ line[c - 1] \in Seq(LineCharacter)
    BY <1>1, <1>3
  <1> HIDE DEF more
  <1>5. line[c] \in Seq(LineCharacter) /\ Len(line[c]) >= 1 /\ line[c][Len(line[c])] = Comma
    BY <1>2, <1>4
  <1> QED BY <1>5 DEF line

LEMMA Beginning ==
    ASSUME NEW S, NEW s \in Seq(S), NEW k \in 0 .. Len(s)
    PROVE  /\ SubSeq(s, 1, k) \in Seq(S) /\ Len(SubSeq(s, 1, k)) = k
           /\ \A p \in 1 .. k : SubSeq(s, 1, k)[p] = s[p]
  OBVIOUS

LEMMA IntactBeforeLast ==
    ASSUME TypeOK, state = "ready", NEW c \in 1 .. cols - 1
    PROVE  HeadingIntact(c)
  <1> DEFINE all == HeaderStr(tracked)[cols]
             upto == HeaderStr(tracked)[c]
             line == MakeHeaderString(tracked)
  <1>1. /\ cols \in Nat /\ tracked \in Seq(Seq(Character)) /\ Len(tracked) = cols
        /\ c \in 1 .. Len(tracked) /\ c \in 0 .. Len(tracked) /\ cols \in c .. Len(tracked)
        /\ cols \in 1 .. Len(tracked)
    <2>1. cols \in Nat /\ tracked \in [1 .. cols -> Seq(Character)]
      BY DEF TypeOK
    <2>2. tracked \in Seq(Seq(Character)) /\ Len(tracked) = cols
      BY <2>1
    <2> QED BY <2>1, <2>2
  <1>2. /\ upto \in Seq(LineCharacter) /\ Len(upto) >= 1 /\ upto[Len(upto)] = Comma
        /\ all \in Seq(LineCharacter)
    BY <1>1, HeaderStrEnds
  <1>3. /\ Len(all) >= Len(upto) + (cols - c)
        /\ \A p \in 1 .. Len(upto) : all[p] = upto[p]
    BY <1>1, HeaderStrGrows
  <1>4. line = SubSeq(all, 1, Len(all) - 2)
    BY <1>1 DEF MakeHeaderString, Shortened
  <1> HIDE DEF all, upto, line
  <1>5. Len(upto) \in Nat /\ Len(all) \in Nat /\ Len(all) >= Len(upto) + 1
    BY <1>1, <1>2, <1>3
  <1>6. /\ line \in Seq(LineCharacter) /\ Len(line) = Len(all) - 2
        /\ \A p \in 1 .. Len(line) : line[p] = all[p]
    <2>1. Len(all) - 2 \in 0 .. Len(all)
      BY <1>2, <1>5
    <2> QED BY <1>2, <1>4, <2>1, Beginning
  <1>7. /\ Front(upto) \in Seq(LineCharacter) /\ Len(Front(upto)) = Len(upto) - 1
        /\ \A p \in 1 .. Len(upto) - 1 : Front(upto)[p] = upto[p]
    <2>1. Len(upto) - 1 \in 0 .. Len(upto)
      BY <1>2, <1>5
    <2>2. Front(upto) = SubSeq(upto, 1, Len(upto) - 1)
      BY DEF Front
    <2> HIDE DEF Front
    <2> QED BY <1>2, <2>1, <2>2, Beginning
  <1> HIDE DEF Front
  <1>8. IsPrefix(Front(upto), line)
    <2>1. Len(Front(upto)) <= Len(line)
      BY <1>5, <1>6, <1>7
    <2>2. \A p \in 1 .. Len(Front(upto)) : Front(upto)[p] = line[p]
      BY <1>3, <1>5, <1>6, <1>7
    <2>3. SubSeq(Front(upto), 1, Len(Front(upto))) = SubSeq(line, 1, Len(Front(upto)))
      BY <1>6, <1>7, <2>1, <2>2
    <2> QED BY <2>1, <2>3 DEF IsPrefix
  <1>9. Len(line) > Len(Front(upto)) => line[Len(Front(upto)) + 1] = Comma
    BY <1>2, <1>3, <1>5, <1>6, <1>7
  <1> QED BY <1>8, <1>9 DEF HeadingIntact, upto, line

(***************************************************************************)
(* Whatever the definitions, MakeHeaderString cuts into no heading but the *)
(* last: all others stand whole in the line, each above its column.        *)
(***************************************************************************)
THEOREM HeadingsInPlace == Spec => []HeadingsAlign
  <1>1. ColumnsCounted => HeadingsAlign
    BY IntactBeforeLast DEF ColumnsCounted, HeadingsAlign
  <1> QED BY <1>1, CountCoversColumns, PTL
=============================================================================
