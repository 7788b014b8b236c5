------------------------------ MODULE Offline -------------------------------
(***************************************************************************)
(* ProcessFlatLog (src/h5000-logger-class.cpp): a flat log is read line by *)
(* line, each line becomes an observation, and the logger of H5000Logger   *)
(* processes it as it processes the live ones.  The log is what a live     *)
(* process left, possibly torn by a kill.                                  *)
(*                                                                         *)
(* The values of an observation that is read are those of FlatFormat, put  *)
(* into the units of H5000Logger.                                          *)
(***************************************************************************)
EXTENDS H5000Logger, FlatFormat

CONSTANTS
    InputLog,   \* the logs to be converted, as texts
    Logged      \* the observations a live logger may have written into them

VARIABLES
    mode,       \* how far ProcessFlatLog is
    input,      \* the input file
    unread      \* what fgets has not read of it

ovars == <<vars, mode, input, unread>>

\* A line's observation as the logger takes it; times are in half seconds.
Observed(line) ==
    LET o == FromLine(line)
    IN  [id  |-> o.id,
         val |-> IF o.id = TimeId THEN 2 * o.val.whole ELSE o.val.whole]

\* Every line becomes an observation that H5000Logger knows.
Observable(log) ==
    log \in Seq(Range(log)) /\ \A line \in Range(log) : Observed(line) \in Observation

ASSUME InputAssumption == \A log \in InputLog : Observable(log)

-----------------------------------------------------------------------------

\* run() with -l: the CSV writer exists, the flat writer does not.  m_flatFlag
\* is off here; Program tells what happens with -f.
OpenInput ==
    /\ mode = "starting"
    /\ mode' = "reading"
    /\ UNCHANGED <<vars, input, unread>>

\* fopen fails: exit(-1).
NoInput ==
    /\ mode = "starting"
    /\ mode' = "failed"
    /\ Exit
    /\ UNCHANGED <<input, unread>>

NextLine == Head(unread)

\* What is left behind the line.
Rest == Tail(unread)

\* fgets returns a line.  It is processed whether it is valid or not; a
\* garbled one counts on its id -1, which has no column.
ReadLine ==
    /\ mode = "reading"
    /\ unread # <<>>
    /\ \E ob \in {Observed(NextLine)} : ProcessObservation(ob)
    /\ unread' = Rest
    /\ UNCHANGED <<mode, input>>

\* The CSV file cannot be opened for this line (or its name not be made: the
\* date read is 0, which gmtime may reject), which ends the process.
LineFails ==
    /\ mode = "reading"
    /\ unread # <<>>
    /\ \E ob \in {Observed(NextLine)} : CsvOpenFails(ob)
    /\ mode' = "failed"
    /\ UNCHANGED <<input, unread>>

\* fgets returns NULL: run() exits with ProcessFlatLog's result, 0.
EndInput ==
    /\ mode = "reading"
    /\ unread = <<>>
    /\ mode' = "complete"
    /\ Exit
    /\ UNCHANGED <<input, unread>>

OInit ==
    /\ Init
    /\ mode = "starting"
    /\ input \in InputLog
    /\ unread = input

ONext == OpenInput \/ NoInput \/ ReadLine \/ LineFails \/ EndInput

OSpec == OInit /\ [][ONext]_ovars

-----------------------------------------------------------------------------
(* Properties *)

(***************************************************************************)
(* Whatever a kill has left of an observation's line, its conversion       *)
(* changes nothing, or it does what the whole line would have done:        *)
(* ProcessFlatLog never asks isValid and the constructor sets a line's     *)
(* values one by one, but neither an id without its value nor part of a    *)
(* number gets into the observations or the CSV file.  (A line torn behind *)
(* its seventh number begins, in or behind dampedVal, is processed.)       *)
(***************************************************************************)
TornLineIgnoredOrWhole ==
    [][unread' # unread =>
          \A o \in Logged : NextLine \in Parts(Str(o)) =>
              \/ UNCHANGED <<memory, csv>>
              \/ ProcessObservation(Observed(Str(o)))]_ovars

\* The times of the log's lines, in seconds, as a reader of the file sees them
\* in the fifth field.
LoggedTimes ==
    {input[l][5].num :
     l \in {n \in DOMAIN input : Ungarbled(input[n]) /\ input[n][1].num = TimeId}}

RowTimes ==
    UNION {{TicksToSeconds(csv.lines[f][n][TimeId]) :
            n \in {k \in DOMAIN csv.lines[f] :
                      IsRow(csv.lines[f][k]) /\ csv.lines[f][k][TimeId] # Blank}} : f \in Day}

(***************************************************************************)
(* The log is consolidated by timestamp and written to a CSV file          *)
(* (h5000-logger-class.cpp:702, README.md:80): the time of a row is one of *)
(* the log's times.  Not so: the value taken from every line is its        *)
(* instance, so that every time and every date reads as 0.                 *)
(***************************************************************************)
RowsConsolidateLog == RowTimes \subseteq LoggedTimes
=============================================================================
