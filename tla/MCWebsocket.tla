---------------------------- MODULE MCWebsocket ----------------------------
(***************************************************************************)
(* Messages of every kind the dispatch tells apart: data with a valid and  *)
(* an invalid item, several messages in one, a message of another kind     *)
(* (which is also what becomes of a text that cannot be parsed).           *)
(***************************************************************************)
EXTENDS WebsocketPromises

Item(i, v) == [id |-> i, valid |-> v]

DataMessage == [Data |-> <<Item(34, TRUE), Item(41, FALSE)>>]
OtherData == [Data |-> <<Item(35, TRUE)>>]

MCMessage ==
    {DataMessage, [Many |-> <<DataMessage, OtherData>>], [DataInfo |-> <<>>]}
=============================================================================
