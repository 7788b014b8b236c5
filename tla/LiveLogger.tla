----------------------------- MODULE LiveLogger -----------------------------
(***************************************************************************)
(* The live program: the websocket session of WebsocketSession and the     *)
(* logger of H5000Logger in one process.  on_read gives a message to       *)
(* handleResponse, and handleData gives its valid items to                 *)
(* ProcessObservation one by one; the thread handles nothing else until    *)
(* the message is done (`pending' is what is left of it), but the process  *)
(* may be killed, or end by a failing fopen, after any of them.            *)
(*                                                                         *)
(* The values of a message's items are in the units of H5000Logger.        *)
(***************************************************************************)
EXTENDS Integers, SequencesExt

CONSTANTS
    Batches, TestFlags, Message,
    DateId, TimeId, OtherId, Mapped, Boat, Utc, JulianDate, TickOfDay, Reading,
    CommandLine, DayTicks, Header, Blank, NoFile, EarlyLog, MaxObs, MaxBoots

VARIABLES
    testFlag, phase, toRequest, queue, writing, reading, observed, failures,
    link, sent, exit,                                   \* the session
    flags, alive, obs, seen, raw, csv, flat, nobs, boots,   \* the logger
    pending,    \* items of the message being handled
    received,   \* history: the observations this process has been sent
    began       \* history: the lines of the flat logs when the process began

sessionVars == <<testFlag, phase, toRequest, queue, writing, reading, observed,
                 failures, link, sent, exit>>
coreVars == <<flags, alive, obs, seen, raw, csv, flat, nobs, boots>>
vars == <<sessionVars, coreVars, pending, received, began>>

Session == INSTANCE WebsocketSession
Core == INSTANCE H5000Logger

-----------------------------------------------------------------------------

\* The thread is not inside handleResponse.
Idle == alive /\ pending = <<>>

\* What a valid item is for ProcessObservation; an absent value is 0.
AsObservation(item) ==
    [id |-> item.id, val |-> IF Session!IsMember(item, "val") THEN item.val ELSE 0]

Observations(items) == [k \in DOMAIN items |-> AsObservation(items[k])]

\* There is something to request, and -t is given or not.
ASSUME SessionAssumption == Batches \in Nat \ {0} /\ TestFlags \subseteq BOOLEAN

\* The logger's constants are what H5000Logger relies on.
ASSUME LoggerAssumption == Core!LoggerConstants /\ Header \notin Core!Row

\* The valid items the CPU sends are observations of the logger.
ASSUME MessageAssumption ==
    \A root \in Message : Observations(Session!HandleResponse(root)) \in Seq(Core!Observation)

\* A step of the session in which no message arrives.
SessionStep ==
    /\ Idle
    /\ \/ \E ec \in BOOLEAN :
              Session!OnResolve(ec) \/ Session!OnConnect(ec) \/ Session!OnHandshake(ec)
       \/ Session!RequestNext \/ Session!StartReading
       \/ Session!OnReadError
       \/ Session!OnWrite \/ Session!OnWriteError
       \/ Session!LinkFails
    /\ UNCHANGED <<coreVars, pending, received, began>>

\* Mutant of Receive: all items are processed, valid or not.
ReceiveAll(root) ==
    /\ Idle
    /\ ~testFlag
    /\ nobs + Len(Session!HandleResponse(root)) <= MaxObs
    /\ Session!OnMessage(root)
    /\ pending' = Observations(IF Session!IsMember(root, "Data") THEN root.Data ELSE <<>>)
    /\ received' = received \o pending'
    /\ UNCHANGED <<coreVars, began>>

\* on_read with a message: its valid items are going to be processed.
Receive(root) ==
    /\ Idle
    /\ ~testFlag
    /\ nobs + Len(Session!HandleResponse(root)) <= MaxObs
    /\ Session!OnMessage(root)
    /\ pending' = Observations(observed')
    /\ received' = received \o pending'
    /\ UNCHANGED <<coreVars, began>>

\* on_read in test mode: exit(0).
TestAnswered(root) ==
    /\ Idle
    /\ testFlag
    /\ Session!OnMessage(root)
    /\ Core!Exit
    /\ UNCHANGED <<pending, received, began>>

\* handleData: the next valid item.
ProcessNext ==
    /\ pending # <<>>
    /\ Core!ProcessObservation(Head(pending))
    /\ pending' = Tail(pending)
    /\ UNCHANGED <<sessionVars, received, began>>

\* ioc.run() has no work left: run() and main() return.
Return ==
    /\ Idle
    /\ Session!Return
    /\ Core!Exit
    /\ UNCHANGED <<pending, received, began>>

\* The process dies, and the session with it: what is left of the message is
\* never processed.
SessionGone == UNCHANGED <<sessionVars, pending, received, began>>

Crash ==
    /\ pending # <<>>
    /\ Core!CsvOpenFails(Head(pending)) \/ Core!FlatOpenFails(Head(pending))
    /\ SessionGone

\* The process is killed by a signal.
Kill == Core!Kill /\ SessionGone

\* The program is started again: a new session, the files as they are.
Boot ==
    /\ Core!Boot
    /\ phase' = "resolving"
    /\ toRequest' = <<>>
    /\ queue' = <<>> /\ writing' = <<>> /\ sent' = <<>>
    /\ reading' = FALSE
    /\ observed' = <<>>
    /\ failures' = {}
    /\ link' = "none"
    /\ exit' = Session!NotEnded
    /\ testFlag' \in TestFlags
    /\ pending' = <<>>
    /\ received' = <<>>
    /\ began' = flat.lines

Init ==
    /\ Session!Init
    /\ Core!Init
    /\ pending = <<>>
    /\ received = <<>>
    /\ began = flat.lines

Next ==
    \/ SessionStep
    \/ \E root \in Message : Receive(root) \/ TestAnswered(root)
    \/ ProcessNext
    \/ Return
    \/ Crash \/ Kill \/ Boot

Spec == Init /\ [][Next]_vars

\* The session's fairness, and the thread's: a message is handled to its end.
Fairness ==
    /\ WF_vars(SessionStep /\ phase \notin {"open", "failed"})
    /\ WF_vars(Idle /\ Session!OnReadError /\ UNCHANGED <<coreVars, pending, received, began>>)
    /\ WF_vars(Idle /\ (Session!OnWrite \/ Session!OnWriteError)
                 /\ UNCHANGED <<coreVars, pending, received, began>>)
    /\ WF_vars(ProcessNext \/ Crash)
    /\ WF_vars(Return)

FairSpec == Spec /\ Fairness

-----------------------------------------------------------------------------
(* Properties *)

\* What is left of a message are observations of the logger.
PendingObservations == pending \in Seq(Core!Observation)

(***************************************************************************)
(* The process is a logger: whatever the CPU sends and however the session *)
(* goes, the observations and files change as H5000Logger allows, so that  *)
(* what is proved of it holds in the live program.  (Only valid items, and *)
(* only between the start and the end of the process.)                     *)
(***************************************************************************)
IsLogger == Core!Spec

\* The observations ProcessObservation has been given by this process.
Processed == SubSeq(received, 1, Len(received) - Len(pending))

\* The places of the lines that files have gained since they held `before'.
Gained(lines, before) ==
    UNION {{f} \X (Len(before[f]) + 1 .. Len(lines[f])) : f \in DOMAIN before}

\* `at' gives every observation of s a place of its own among these, all of them
\* taken, and in each file they are in their order.
Arranges(at, s, lines, before) ==
    /\ at \in [DOMAIN s -> Gained(lines, before)]
    /\ \A p \in Gained(lines, before) : \E n \in DOMAIN s : at[n] = p
    /\ \A n \in DOMAIN s : lines[at[n][1]][at[n][2]] = s[n]
    /\ \A i, j \in DOMAIN s : i < j /\ at[i][1] = at[j][1] => at[i][2] < at[j][2]

\* What a set of flat logs held `before' it holds still, and s behind it.
HoldsBehind(s, lines, before) ==
    /\ \A f \in DOMAIN before : IsPrefix(before[f], lines[f])
    /\ \E at \in [DOMAIN s -> Gained(lines, before)] : Arranges(at, s, lines, before)

(***************************************************************************)
(* With -f every process, the first or a restarted one, leaves in the flat *)
(* logs exactly the valid observations of the messages it was sent, each   *)
(* once, in their order within every file, behind what the files held when *)
(* it began: while it runs and at its regular end all those processed, and *)
(* once it is killed, or dies by a failing fopen in the middle of a        *)
(* message, all but some at the end, among which there is no time.         *)
(***************************************************************************)
LogHoldsReceived ==
    flags.flat =>
        \E m \in 0 .. Len(Processed) :
            /\ alive \/ exit = Session!EXIT_SUCCESS => m = Len(Processed)
            /\ \A n \in m + 1 .. Len(Processed) : Processed[n].id # TimeId
            /\ HoldsBehind(SubSeq(Processed, 1, m), flat.lines, began)

(***************************************************************************)
(* When the connection is gone the process ends, also if it breaks while   *)
(* messages are handled, read or written.                                  *)
(***************************************************************************)
ProcessEnds == link = "down" /\ alive ~> ~alive
=============================================================================
