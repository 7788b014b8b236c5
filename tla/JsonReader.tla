----------------------------- MODULE JsonReader -----------------------------
(***************************************************************************)
(* OurReader of the vendored jsoncpp (src/json/jsoncpp.cpp), with the      *)
(* settings of CharReaderBuilder::setDefaults, reading one text: readValue *)
(* and the loops of readObject and readArray that call each other, with    *)
(* nodes_, the stack of the values under construction.                     *)
(*                                                                         *)
(* `expects' is where the innermost call stands:                           *)
(*   "value"      readValue begins                                         *)
(*   "name"       readObject, before a member                              *)
(*   "element"    readArray, before an element                             *)
(*   "separator"  behind a member or an element                            *)
(*   "failure"    readValue has returned false                             *)
(*   "end"        readValue of the root has returned                       *)
(*   "done"       parse has returned                                       *)
(*   "thrown"     an exception has left parse                              *)
(* Comments are skipped; that they are also kept beside the values changes *)
(* nothing that is read.                                                   *)
(***************************************************************************)
EXTENDS JsonValue

CONSTANT stackLimit     \* features_.stackLimit_: 1000

ASSUME StackAssumption == stackLimit \in Nat

VARIABLES
    text,
    at,             \* current_
    nodes,          \* nodes_: values, with the key each has in the one before
    expects,
    successful,
    errors          \* how many entries errors_ has

readerVars == <<text, at, nodes, expects, successful, errors>>

Node(key, value) == [key |-> key, value |-> value]

\* parse up to its call of readValue.
Parse(t) ==
    /\ text = t
    /\ at = SkipBom(t)
    /\ nodes = <<Node(0, NullValue)>>
    /\ expects = "value"
    /\ successful = TRUE
    /\ errors = 0

-----------------------------------------------------------------------------
(* nodes_ *)

currentValue == Last(nodes).value

\* Mutant of With: a name that is there keeps its value.
WithFirst(v, key, x) ==
    IF v.type = "array" THEN ArrayValue(v.items @@ (key :> x))
                        ELSE ObjectValue(v.members @@ (key :> x))

With(v, key, x) ==
    LET entered(map) == [k \in DOMAIN map \cup {key} |-> IF k = key THEN x ELSE map[k]]
    IN  IF v.type = "array" THEN ArrayValue(entered(v.items)) ELSE ObjectValue(entered(v.members))

Stored(v) == [nodes EXCEPT ![Len(nodes)].value = v]

\* nodes_.pop(); what was built in place is part of the value below.
Popped(stack) ==
    LET child == Last(stack)
    IN  [k \in 1 .. Len(stack) - 1 |->
           IF k < Len(stack) - 1 THEN stack[k]
           ELSE [stack[k] EXCEPT !.value = With(@, child.key, child.value)]]

\* currentValue()[key] is pushed: null, or the value of an earlier member of
\* that name.
Pushed(key) ==
    LET map == IF currentValue.type = "array" THEN currentValue.items ELSE currentValue.members
    IN  Append(nodes, Node(key, Resolve(map, key)[key]))

\* readValue returns true, v its value, to what called it.
Return(v, p) ==
    /\ IF Len(nodes) = 1 THEN nodes' = Stored(v) /\ expects' = "end"
                         ELSE nodes' = Popped(Stored(v)) /\ expects' = "separator"
    /\ at' = p
    /\ UNCHANGED <<text, successful, errors>>

Closing(v) == IF v.type = "array" THEN "]" ELSE "}"

\* addErrorAndRecover, or recoverFromError behind an error of decodeString.
Fail(p) ==
    /\ at' = Recover(text, p, Closing(currentValue))
    /\ expects' = "failure"
    /\ successful' = FALSE
    /\ errors' = errors + 1
    /\ UNCHANGED <<text, nodes>>

\* The loop of readObject or readArray goes on.
Continue(next, p) ==
    /\ expects' = next
    /\ at' = p
    /\ UNCHANGED <<text, nodes, successful, errors>>

Descend(key, p) ==
    /\ nodes' = Pushed(key)
    /\ expects' = "value"
    /\ at' = p
    /\ UNCHANGED <<text, successful, errors>>

-----------------------------------------------------------------------------
(* readValue *)

\* throwRuntimeError: the exception passes through parse.
TooDeep ==
    /\ expects = "value"
    /\ Len(nodes) > stackLimit
    /\ expects' = "thrown"
    /\ UNCHANGED <<text, at, nodes, successful, errors>>

\* The value of a token that is one, {} if it is none or cannot be decoded.
Scalar(t, token) ==
    CASE token.type = "number" -> DecodeNumber(SubSeq(t, token.start, token.end - 1))
      [] token.type = "string" ->
             {StringValue(s) : s \in DecodeString(SubSeq(t, token.start + 1, token.end - 2))}
      [] token.type = "true" -> {BooleanValue(TRUE)}
      [] token.type = "false" -> {BooleanValue(FALSE)}
      [] token.type = "null" -> {NullValue}
      [] OTHER -> {}

ReadsValue == expects = "value" /\ Len(nodes) <= stackLimit

\* The first lines of readObject and readArray.
Begin ==
    /\ ReadsValue
    /\ \E token \in {SkipComments(text, at)} :
        /\ token.type \in {"{", "["}
        /\ nodes' = Stored(Default(IF token.type = "{" THEN "object" ELSE "array"))
        /\ expects' = IF token.type = "{" THEN "name" ELSE "element"
        /\ at' = token.end
        /\ UNCHANGED <<text, successful, errors>>

ReadScalar ==
    /\ ReadsValue
    /\ \E token \in {SkipComments(text, at)} :
           \E v \in Scalar(text, token) : Return(v, token.end)

\* "Syntax error: value, object or array expected.", or a failed decoding.
ReadNoValue ==
    /\ ReadsValue
    /\ \E token \in {SkipComments(text, at)} :
        /\ token.type \notin {"{", "["}
        /\ Scalar(text, token) = {}
        /\ at' = token.end
        /\ expects' = "failure"
        /\ successful' = FALSE
        /\ errors' = errors + 1
        /\ UNCHANGED <<text, nodes>>

\* Mutant of Unwind: the caller goes on behind what has failed.
UnwindInPlace ==
    /\ expects = "failure"
    /\ nodes' = IF Len(nodes) = 1 THEN nodes ELSE Popped(nodes)
    /\ expects' = IF Len(nodes) = 1 THEN "end" ELSE "separator"
    /\ UNCHANGED <<text, at, successful, errors>>

\* readValue has failed inside a container: "error already set".
Unwind ==
    /\ expects = "failure"
    /\ IF Len(nodes) = 1
       THEN expects' = "end" /\ UNCHANGED <<nodes, at>>
       ELSE /\ nodes' = Popped(nodes)
            /\ at' = Recover(text, at, Closing(nodes[Len(nodes) - 1].value))
            /\ UNCHANGED expects
    /\ UNCHANGED <<text, successful, errors>>

-----------------------------------------------------------------------------
(* readObject *)

\* A name, the mark behind it, and the member is pushed.  Commas may trail.
ReadName ==
    /\ expects = "name"
    /\ \E name \in {SkipComments(text, at)} :
           \/ /\ name.type = "}"
              /\ Return(currentValue, name.end)
           \/ /\ name.type = "string"
              /\ \E colon \in {ReadToken(text, name.end)} :
                     IF Scalar(text, name) = {} THEN Fail(name.end)
                     ELSE IF colon.type # ":" THEN Fail(colon.end)
                     ELSE \E key \in Scalar(text, name) : Descend(key.str, colon.end)
           \/ /\ name.type \notin {"}", "string"}
              /\ Fail(name.end)

\* Behind a comment any token but the closing one passes for the comma.
EndMember ==
    /\ expects = "separator"
    /\ currentValue.type = "object"
    /\ \E comma \in {ReadToken(text, at)}, next \in {SkipComments(text, at)} :
           IF comma.type \in {"}", ",", "comment"}
           THEN IF next.type = "}" THEN Return(currentValue, next.end) ELSE Continue("name", next.end)
           ELSE Fail(comma.end)

-----------------------------------------------------------------------------
(* readArray *)

ReadElement ==
    /\ expects = "element"
    /\ \E p \in {Behind(text, at, Space)} :
           IF CharAt(text, p) = "]" THEN Return(currentValue, p + 1)
                                    ELSE Descend(Size(currentValue), p)

EndElement ==
    /\ expects = "separator"
    /\ currentValue.type = "array"
    /\ \E token \in {SkipComments(text, at)} :
           CASE token.type = "]" -> Return(currentValue, token.end)
             [] token.type = "," -> Continue("element", token.end)
             [] token.type \notin {"]", ","} -> Fail(token.end)

-----------------------------------------------------------------------------

\* The rest of parse: what follows the value is not looked at.
Finish ==
    /\ expects = "end"
    /\ expects' = "done"
    /\ at' = SkipComments(text, at).end
    /\ UNCHANGED <<text, nodes, successful, errors>>

root == nodes[1].value

ReaderNext ==
    \/ TooDeep \/ Begin \/ ReadScalar \/ ReadNoValue \/ Unwind
    \/ ReadName \/ EndMember
    \/ ReadElement \/ EndElement
    \/ Finish
=============================================================================
