------------------------------ MODULE Program -------------------------------
(***************************************************************************)
(* main (src/main.cpp), the constructor, ProcessCommandLine and run()      *)
(* (src/h5000-logger-class.cpp): from the command line to the websocket    *)
(* session or to the conversion of a flat log, with the writers that exist *)
(* by then.  getopt is external: it returns the options in their order.    *)
(***************************************************************************)
EXTENDS Naturals, Sequences, TLAPS

CONSTANT MaxOptions     \* bound: options on the command line

ASSUME MaxOptionsAssumption == MaxOptions \in Nat

\* A letter of the option string, or what getopt makes of any other.
Known == {"h", "p", "o", "d", "l", "t", "c", "f"}

Unknown == "?"

VARIABLES
    options,    \* what getopt has yet to return
    flags,      \* the flags set, m_hostFlag as "h" and so on
    step,       \* how far main is
    writers,    \* the writers constructed, "csv" and "flat"
    connects    \* the session has been started

vars == <<options, flags, step, writers, connects>>

Step == {"options", "loading", "csv", "offline", "flat", "session",
         "done", "refused", "crashed"}

-----------------------------------------------------------------------------
(* ProcessCommandLine *)

\* Mutant of FlagsOf: -l alone does not ask for the CSV file.
LetterOnly(option) == {option}

\* What an option sets: its own flag, and -l the flag of -c too.
FlagsOf(option) == {option} \cup (IF option = "l" THEN {"c"} ELSE {})

TakeOption ==
    /\ step = "options" /\ options # <<>>
    /\ Head(options) \in Known
    /\ flags' = flags \cup FlagsOf(Head(options))
    /\ options' = Tail(options)
    /\ UNCHANGED <<step, writers, connects>>

\* default: Usage, exit(-1).
RefuseOption ==
    /\ step = "options" /\ options # <<>>
    /\ Head(options) \notin Known
    /\ step' = "refused"
    /\ UNCHANGED <<options, flags, writers, connects>>

\* A host to log from or a log to convert.
HasSource == {"h", "l"} \cap flags # {}

\* getopt returns -1: the combination is tested.
EndOptions ==
    /\ step = "options" /\ options = <<>>
    /\ step' = IF HasSource THEN "loading" ELSE "refused"
    /\ UNCHANGED <<options, flags, writers, connects>>

-----------------------------------------------------------------------------
(* run *)

\* LoadDataDefs, which exits when it cannot read the definitions.
LoadDataDefs ==
    /\ step = "loading"
    /\ step' \in {"csv", "refused"}
    /\ UNCHANGED <<options, flags, writers, connects>>

\* The CSV writer, if asked for; with it, the offline mode leaves run().
MakeCsvWriter ==
    /\ step = "csv"
    /\ writers' = IF "c" \in flags THEN writers \cup {"csv"} ELSE writers
    /\ step' = IF {"c", "l"} \subseteq flags THEN "offline" ELSE "flat"
    /\ UNCHANGED <<options, flags, connects>>

\* The writers ProcessObservation calls.
Called == (IF "c" \in flags THEN {"csv"} ELSE {}) \cup (IF "f" \in flags THEN {"flat"} ELSE {})

\* ProcessFlatLog over a log with lines in it, and exit: ProcessObservation
\* calls a writer that is NULL, which ends the process.
ConvertLines ==
    /\ step = "offline"
    /\ step' = IF Called \subseteq writers THEN "done" ELSE "crashed"
    /\ UNCHANGED <<options, flags, writers, connects>>

\* ProcessFlatLog over an empty log, or one that cannot be opened.
ConvertNothing ==
    /\ step = "offline"
    /\ step' \in {"done", "refused"}
    /\ UNCHANGED <<options, flags, writers, connects>>

\* Mutant of MakeFlatWriter: in the block of the CSV writer.
MakeFlatWithCsv ==
    /\ step = "flat"
    /\ writers' = IF {"c", "f"} \subseteq flags THEN writers \cup {"flat"} ELSE writers
    /\ step' = "session"
    /\ UNCHANGED <<options, flags, connects>>

MakeFlatWriter ==
    /\ step = "flat"
    /\ writers' = IF "f" \in flags THEN writers \cup {"flat"} ELSE writers
    /\ step' = "session"
    /\ UNCHANGED <<options, flags, connects>>

\* The session runs until the connection is gone (WebsocketSession).
RunSession ==
    /\ step = "session"
    /\ connects' = TRUE
    /\ step' = "done"
    /\ UNCHANGED <<options, flags, writers>>

CommandLines == UNION {[1 .. n -> Known \cup {Unknown}] : n \in 0 .. MaxOptions}

Init ==
    /\ options \in CommandLines
    /\ flags = {}
    /\ step = "options"
    /\ writers = {}
    /\ connects = FALSE

Next ==
    \/ TakeOption \/ RefuseOption \/ EndOptions
    \/ LoadDataDefs
    \/ MakeCsvWriter
    \/ ConvertLines \/ ConvertNothing
    \/ MakeFlatWriter
    \/ RunSession

Spec == Init /\ [][Next]_vars

-----------------------------------------------------------------------------
(* Properties *)

TypeOK ==
    /\ options \in Seq(Known \cup {Unknown})
    /\ flags \subseteq Known
    /\ step \in Step
    /\ writers \subseteq {"csv", "flat"}
    /\ connects \in BOOLEAN

\* The invariant behind these: an accepted command line has a source, -l
\* brings the CSV flag, and the writers follow the flags.
IInv ==
    /\ TypeOK
    /\ step \notin {"options", "refused"} => HasSource
    /\ "l" \in flags => "c" \in flags
    /\ step \in {"flat", "session"} \/ connects => "l" \notin flags
    /\ step = "flat" /\ "c" \in flags => "csv" \in writers
    /\ step = "session" \/ connects => Called \subseteq writers
    /\ connects => step = "done"

(***************************************************************************)
(* -l converts and never connects, in whatever order and with whatever     *)
(* other options it is given; that rests on its setting the CSV flag,      *)
(* since run() looks at -l only inside the CSV writer's block.             *)
(***************************************************************************)
OfflineNeverConnects == "l" \in flags => step # "flat" /\ ~connects

(***************************************************************************)
(* While messages are handled every writer ProcessObservation calls exists *)
(* (run() constructs them before it starts the session).                   *)
(***************************************************************************)
SessionHasWriters == step = "session" \/ connects => Called \subseteq writers

(***************************************************************************)
(* Usage (h5000-logger-class.cpp:692) gives the live options, -f among     *)
(* them, and -l as alternatives, so that a log is converted without a flat *)
(* log being written.  Not so: -l -f is let through to ProcessFlatLog, and *)
(* the flat writer it then calls is only constructed for a session.        *)
(***************************************************************************)
ConversionHasWriters == step = "offline" => Called \subseteq writers

-----------------------------------------------------------------------------
(* Proofs, for command lines of any length *)

LEMMA InitInvariant == Init => IInv
  <1> SUFFICES ASSUME Init PROVE IInv
    OBVIOUS
  <1>1. options \in Seq(Known \cup {Unknown})
    BY MaxOptionsAssumption DEF Init, CommandLines
  <1> QED BY <1>1 DEF Init, IInv, TypeOK, Step

LEMMA StepInvariant ==
    ASSUME IInv, [Next]_vars
    PROVE  IInv'
  <1>1. CASE TakeOption
    <2>1. /\ flags' \subseteq Known
          /\ "l" \in flags' => "c" \in flags'
      <3>1. flags' = flags \cup FlagsOf(Head(options)) /\ Head(options) \in Known
        BY <1>1 DEF TakeOption
      <3>2. CASE Head(options) = "l"
        <4>1. flags' = flags \cup {"l", "c"}
          BY <3>1, <3>2 DEF FlagsOf
        <4> QED BY <3>1, <4>1 DEF IInv, TypeOK, Known
      <3>3. CASE Head(options) # "l"
        <4>1. flags' = flags \cup {Head(options)}
          BY <3>1, <3>3 DEF FlagsOf
        <4> QED BY <3>1, <3>3, <4>1 DEF IInv, TypeOK
      <3> QED BY <3>2, <3>3
    <2>2. options' \in Seq(Known \cup {Unknown})
      BY <1>1 DEF TakeOption, IInv, TypeOK
    <2>3. step' = "options" /\ connects' = FALSE /\ writers' = writers
      BY <1>1 DEF TakeOption, IInv, TypeOK
    <2> QED BY <2>1, <2>2, <2>3 DEF IInv, TypeOK, Step
  <1>2. CASE RefuseOption
    BY <1>2 DEF RefuseOption, IInv, TypeOK, Step, HasSource, Called
  <1>3. CASE EndOptions
    BY <1>3 DEF EndOptions, IInv, TypeOK, Step, HasSource, Called
  <1>4. CASE LoadDataDefs
    BY <1>4 DEF LoadDataDefs, IInv, TypeOK, Step, HasSource, Called
  <1>5. CASE MakeCsvWriter
    BY <1>5 DEF MakeCsvWriter, IInv, TypeOK, Step, HasSource, Called
  <1>6. CASE ConvertLines \/ ConvertNothing
    <2>1. /\ step = "offline" /\ connects' = FALSE
          /\ UNCHANGED <<options, flags, writers>>
      BY <1>6 DEF ConvertLines, ConvertNothing, IInv, TypeOK
    <2>2. step' \in {"done", "crashed", "refused"}
      BY <1>6 DEF ConvertLines, ConvertNothing
    <2>3. HasSource'
      BY <2>1 DEF IInv, HasSource
    <2> QED BY <2>1, <2>2, <2>3 DEF IInv, TypeOK, Step
  <1>7. CASE MakeFlatWriter
    BY <1>7 DEF MakeFlatWriter, IInv, TypeOK, Step, HasSource, Called
  <1>8. CASE RunSession
    BY <1>8 DEF RunSession, IInv, TypeOK, Step, HasSource, Called
  <1>9. CASE UNCHANGED vars
    BY <1>9 DEF vars, IInv, TypeOK, HasSource, Called
  <1> QED BY <1>1, <1>2, <1>3, <1>4, <1>5, <1>6, <1>7, <1>8, <1>9 DEF Next

(***************************************************************************)
(* The invariant of ProcessCommandLine and run(), which the theorems below *)
(* rest on, holds for every number and order of the options.               *)
(***************************************************************************)
THEOREM Invariant == Spec => []IInv
  BY InitInvariant, StepInvariant, PTL DEF Spec

(***************************************************************************)
(* A program started with -l never reaches the flat writer's block or the  *)
(* session of run(), however many other options it is given.               *)
(***************************************************************************)
THEOREM OfflineStaysOffline == Spec => []OfflineNeverConnects
  <1>1. IInv => OfflineNeverConnects
    BY DEF IInv, OfflineNeverConnects
  <1> QED BY <1>1, Invariant, PTL

(***************************************************************************)
(* run() starts no session before the writers ProcessObservation calls are *)
(* constructed.                                                            *)
(***************************************************************************)
THEOREM SessionCallsWriters == Spec => []SessionHasWriters
  <1>1. IInv => SessionHasWriters
    BY DEF IInv, SessionHasWriters
  <1> QED BY <1>1, Invariant, PTL
=============================================================================
