---------------------------- MODULE JsonDispatch ----------------------------
(***************************************************************************)
(* The logger's side of JSON (src/h5000-logger-class.cpp): the texts of    *)
(* its requests, and what it does with the text of a message:              *)
(* ConstructJson, handleResponse and handleData, and the constructor of    *)
(* BgObservation that takes a Json::Value.                                 *)
(*                                                                         *)
(* Nothing in the program catches an exception: one that leaves the parser *)
(* or a conversion of a value ends the process.  In test mode (-t) a       *)
(* message is only shown and the program ends: see WebsocketSession.       *)
(***************************************************************************)
EXTENDS JsonReader

VARIABLES
    thread,     \* "parsing", "handling", "waiting" for a message, "terminated"
    todo,       \* the items still to be handled, in order
    observed    \* the observations given to ProcessObservation

vars == <<readerVars, thread, todo, observed>>

-----------------------------------------------------------------------------
(* The texts of the requests: put together by hand, with a comma behind     *)
(* every entry and the last one dropped                                     *)

Named(name) == <<"\"", name, "\"", ":">>

\* pop_back, unless there is nothing.
PopBack(str) == IF str = <<>> THEN str ELSE Front(str)

\* Every item with "repeat" true and instance 0.
AddDataItemArray(array, str) ==
    LET entry(id) == <<"{">> \o Named("id") \o IntToString(id) \o <<",">>
                        \o Named("repeat") \o Word(TRUE) \o <<",">>
                        \o Named("inst") \o <<"0", "}", ",">>
    IN  PopBack(FoldLeft(LAMBDA s, id : s \o entry(id), str, array))

AddIntArray(array, str) ==
    PopBack(FoldLeft(LAMBDA s, id : s \o IntToString(id) \o <<",">>, str, array))

RequestDataValues(items) ==
    AddDataItemArray(items, <<"{">> \o Named("DataReq") \o <<"[">>) \o <<"]", "}">>

RequestDataInfo(items) ==
    AddIntArray(items, <<"{">> \o Named("DataInfoReq") \o <<"[">>) \o <<"]", "}">>

-----------------------------------------------------------------------------
(* A message *)

\* A message of one of the texts has arrived.
Init(texts) ==
    /\ \E t \in texts : Parse(t)
    /\ thread = "parsing"
    /\ todo = <<>>
    /\ observed = <<>>

ConstructJson ==
    /\ thread = "parsing"
    /\ ReaderNext
    /\ UNCHANGED <<thread, todo, observed>>

\* Json::RuntimeError of readValue.
ParseThrows ==
    /\ thread = "parsing"
    /\ expects = "thrown"
    /\ thread' = "terminated"
    /\ UNCHANGED <<readerVars, todo, observed>>

-----------------------------------------------------------------------------
(* handleResponse and handleData *)

\* Mutant of Message: what was read before the error.
WhateverRead == root

\* What ConstructJson returns.
Message == IF successful THEN root ELSE NullValue

\* handleData's root_[idx] for idx below its size: the set of what there is, {}
\* where it throws since the value is an object that is not empty.
Items(v) ==
    [k \in 1 .. Size(v) |-> IF v.type = "object" THEN {} ELSE Element(v, k - 1)]

\* What a message has below "Data", then what it has below "Many".
ItemsOf(message) ==
    IF message.type = "null" THEN <<>>
    ELSE LET names == SelectSeq(<< <<"Data">>, <<"Many">> >>, LAMBDA n : n \in DOMAIN message.members)
         IN  FlattenSeq([k \in DOMAIN names |-> Items(message.members[names[k]])])

HandleResponse ==
    /\ thread = "parsing"
    /\ expects = "done"
    /\ IF IsMember(Message, <<"Data">>) = {}
       THEN thread' = "terminated" /\ UNCHANGED todo
       ELSE thread' = "handling" /\ todo' = ItemsOf(Message)
    /\ UNCHANGED <<readerVars, observed>>

\* A member the constructor looks for before it takes it.
Given(data, name, As(_), default) ==
    IF data.type = "object" /\ <<name>> \in DOMAIN data.members
    THEN As(data.members[<<name>>]) ELSE {default}

\* A member that is taken to be there: null if it is not.
Always(data, name, As(_)) == UNION {As(v) : v \in Member(data, <<name>>)}

\* BgObservation(Json::Value): the observation, {} if a conversion throws.
BgObservation(data) ==
    {[id |-> id, valid |-> valid, val |-> val, sysVal |-> sysVal, dampedVal |-> dampedVal,
      valStr |-> valStr, inst |-> inst, damped |-> damped] :
     id \in Always(data, "id", AsInt),
     valid \in Always(data, "valid", AsBool),
     val \in Given(data, "val", AsDouble, 0),
     sysVal \in Given(data, "sysVal", AsDouble, 0),
     dampedVal \in Given(data, "dampedVal", AsDouble, 0),
     valStr \in Given(data, "valStr", AsString, <<>>),
     inst \in Given(data, "inst", AsInt, 0),
     damped \in Given(data, "damped", AsBool, FALSE)}

\* Mutant of HandleItem: isValid is not asked.
HandleEveryItem ==
    /\ thread = "handling"
    /\ todo # <<>>
    /\ \E o \in UNION {BgObservation(data) : data \in Head(todo)} : observed' = Append(observed, o)
    /\ todo' = Tail(todo)
    /\ UNCHANGED <<readerVars, thread>>

\* One turn of handleData's loop.
HandleItem ==
    /\ thread = "handling"
    /\ todo # <<>>
    /\ \E o \in UNION {BgObservation(data) : data \in Head(todo)} :
           observed' = IF o.valid THEN Append(observed, o) ELSE observed
    /\ todo' = Tail(todo)
    /\ UNCHANGED <<readerVars, thread>>

ItemThrows ==
    /\ thread = "handling"
    /\ todo # <<>>
    /\ UNION {BgObservation(data) : data \in Head(todo)} = {}
    /\ thread' = "terminated"
    /\ UNCHANGED <<readerVars, todo, observed>>

\* handleResponse returns, and on_read reads the next message.
AwaitNext ==
    /\ thread = "handling"
    /\ todo = <<>>
    /\ thread' = "waiting"
    /\ UNCHANGED <<readerVars, todo, observed>>

-----------------------------------------------------------------------------

\* Until the next message arrives, or for ever.
Ended == thread \in {"waiting", "terminated"} /\ UNCHANGED vars

Next ==
    \/ ConstructJson \/ ParseThrows
    \/ HandleResponse \/ HandleItem \/ ItemThrows \/ AwaitNext
    \/ Ended

-----------------------------------------------------------------------------
(* Properties *)

\* A text that is rejected leaves no observation behind, whatever of it was
\* read by then, and the logger goes on.
MalformedIgnored ==
    thread \in {"waiting", "terminated"} /\ expects = "done" /\ ~successful =>
        thread = "waiting" /\ observed = <<>>

\* The places of the reader, from the last to the first.
WayOut == <<"done", "thrown", "end", "failure", "separator", "name", "value", "element">>

Distance(e) == CHOOSE k \in DOMAIN WayOut : WayOut[k] = e

\* Every text, well-formed or not, is read to an end: each step of the reader
\* leaves less of the text, or else a shorter way out of the calls in progress.
\* No loop of readObject, readArray or a recovery goes round without reading.
ReadingAdvances ==
    [][expects \notin {"done", "thrown"} =>
         \/ at' > at
         \/ at' = at /\ Distance(expects') < Distance(expects)
         \/ at' = at /\ expects' = expects /\ Len(nodes') < Len(nodes)]_vars
=============================================================================
