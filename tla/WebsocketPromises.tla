------------------------ MODULE WebsocketPromises --------------------------
(***************************************************************************)
(* What comments of the code say of the session and the code does not do.  *)
(***************************************************************************)
EXTENDS WebsocketSession, SequencesExt

(***************************************************************************)
(* run() is documented to return "ERROR_SUCCESS if successful; otherwise,  *)
(* error code" (h5000-logger-class.cpp:49): a program that could not       *)
(* establish its session does not report success.                          *)
(***************************************************************************)
FailureIsReported == ~Running /\ phase = "failed" => exit # EXIT_SUCCESS

\* The observations of a message and of the messages its `Many' encapsulates.
Contents(root) ==
    (IF IsMember(root, "Data") THEN HandleData(root.Data) ELSE <<>>)
        \o IF IsMember(root, "Many")
           THEN FlattenSeq([i \in DOMAIN root.Many |-> HandleResponse(root.Many[i])])
           ELSE <<>>

(***************************************************************************)
(* A `Many' message is processed "by accessing each of the encapsulated    *)
(* messages and separately handling each of them" (comment of handleMany,  *)
(* h5000-logger-class.cpp:604-606): their observations are processed too.  *)
(***************************************************************************)
ManyIsHandled ==
    [][\A root \in Message :
          OnMessage(root) /\ ~testFlag => observed' = Contents(root)]_vars
=============================================================================
