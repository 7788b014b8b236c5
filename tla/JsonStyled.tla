----------------------------- MODULE JsonStyled -----------------------------
(***************************************************************************)
(* The writers of the vendored jsoncpp (src/json/jsoncpp.cpp) that lay a   *)
(* value out in lines: StyledWriter, StyledStreamWriter, and the           *)
(* BuiltStyledStreamWriter that StreamWriterBuilder makes.  They are the   *)
(* same code but for what stands in a style: WriteValueCalls and           *)
(* WriteArrayValue are writeValue and writeArrayValue of any of them.      *)
(*                                                                         *)
(* A writer w is what its object keeps between the calls of its own        *)
(* methods: the document, indentString_ and indented_.  What writeValue    *)
(* calls for a value is a sequence, which the writer's class then carries  *)
(* out.  Values have no comments.                                          *)
(***************************************************************************)
EXTENDS JsonWriter

CONSTANT rightMargin        \* rightMargin_: 74

-----------------------------------------------------------------------------
(* Styles *)

StyledWriter == [class |-> "StyledWriter", indentation |-> <<" ", " ", " ">>,
                 colon |-> <<" ", ":", " ">>, comments |-> "Some"]

StyledStreamWriter == [StyledWriter EXCEPT !.class = "StyledStreamWriter", !.indentation = <<"\t">>]

\* newStreamWriter with settings_["indentation"] and settings_["commentStyle"].
BuiltWriter(indentation, commentStyle) ==
    [class |-> "BuiltStyledStreamWriter", indentation |-> indentation,
     colon |-> IF indentation = <<>> THEN <<":">> ELSE <<" ", ":", " ">>,
     comments |-> commentStyle]

-----------------------------------------------------------------------------
(* The calls of writeValue *)

Call(name, chars) == [call |-> name, chars |-> chars]

\* document_ += chars, also by pushValue when no array is being tried.
Put(chars) == <<Call("put", chars)>>
WriteWithIndent(chars) == <<Call("line", chars)>>
\* writeIndent, then the value of an element, then indented_ = false.
InOwnLine(calls) == <<Call("writeIndent", <<>>)>> \o calls \o <<Call("written", <<>>)>>
Indent == <<Call("indent", <<>>)>>
Unindent == <<Call("unindent", <<>>)>>

HasParts(v) == v.type \in {"array", "object"} /\ Size(v) > 0

Elements(v) == [k \in 1 .. Size(v) |-> CHOOSE x \in Element(v, k - 1) : TRUE]

\* The array is tried on one line: childValues_ are its elements as texts.
IsTried(style, v) ==
    /\ style.comments # "All"
    /\ Size(v) * 3 < rightMargin
    /\ \A k \in 1 .. Size(v) : ~HasParts(Elements(v)[k])

ChildValues(v) == [k \in 1 .. Size(v) |-> WriteValue[Elements(v)[k]]]

IsMultilineArray(style, v, childValues) ==
    \/ ~IsTried(style, v)
    \/ 4 + 2 * (Size(v) - 1) + FoldLeft(LAMBDA n, chars : n + Len(chars), 0, childValues) >= rightMargin

\* The array on one line.
OnLine(style, childValues) ==
    LET space == IF style.indentation = <<>> THEN <<>> ELSE <<" ">>
        item(k) == (IF k = 1 THEN <<>> ELSE <<",">> \o space) \o childValues[k]
    IN  Put(<<"[">> \o space \o FlattenSeq([k \in DOMAIN childValues |-> item(k)]) \o space \o <<"]">>)

\* The name of a member, up to a NUL unless its length is passed along.
NameText(style, name) ==
    QuotedString(IF style.class = "BuiltStyledStreamWriter" THEN name
                 ELSE SubSeq(name, 1, FirstOf(name, {k \in DOMAIN name : name[k] = Byte(0)}) - 1))

\* The parts between brackets, each on lines of its own.
InLines(open, parts, close) ==
    WriteWithIndent(<<open>>) \o Indent
        \o FlattenSeq([k \in DOMAIN parts |-> IF k = 1 THEN parts[k] ELSE Put(<<",">>) \o parts[k]])
        \o Unindent \o WriteWithIndent(<<close>>)

\* writeArrayValue; an array that was tried has its elements as texts already,
\* for another one lines are what its elements call for.
WriteArrayValue(style, v, childValues, lines) ==
    IF IsMultilineArray(style, v, childValues)
    THEN InLines("[",
                 [k \in DOMAIN lines |->
                    IF IsTried(style, v) THEN WriteWithIndent(childValues[k]) ELSE InOwnLine(lines[k])],
                 "]")
    ELSE OnLine(style, childValues)

\* writeValue
WriteValueCalls(style, value) ==
    LET calls[v \in Value] ==
            CASE ~HasParts(v) -> Put(WriteValue[v])
              [] HasParts(v) /\ v.type = "array" ->
                     WriteArrayValue(style, v, ChildValues(v),
                                     [k \in 1 .. Size(v) |-> calls[Elements(v)[k]]])
              [] HasParts(v) /\ v.type = "object" ->
                     LET names == SetToSortSeq(DOMAIN v.members, LAMBDA a, b : NameRank(a) < NameRank(b))
                     IN  InLines("{",
                                 [k \in DOMAIN names |->
                                    WriteWithIndent(NameText(style, names[k])) \o Put(style.colon)
                                        \o calls[v.members[names[k]]]],
                                 "}")
    IN  calls[value]

-----------------------------------------------------------------------------
(* The classes carry them out *)

\* The first lines of write.
Fresh == [document |-> <<>>, indentString |-> <<>>, indented |-> TRUE]

\* writeIndent of StyledWriter, which looks at what it has written.
StyledIndent(w) ==
    CASE w.document = <<>> -> w.indentString
      [] w.document # <<>> /\ Last(w.document) = " " -> <<>>
      [] w.document # <<>> /\ Last(w.document) = "\n" -> w.indentString
      [] w.document # <<>> /\ Last(w.document) \notin {" ", "\n"} -> <<"\n">> \o w.indentString

\* writeIndent of the stream writers where they are not indented_ already;
\* without an indentation there are no lines.
StreamIndent(style, w) ==
    IF w.indented \/ (style.class = "BuiltStyledStreamWriter" /\ style.indentation = <<>>)
    THEN <<>> ELSE <<"\n">> \o w.indentString

\* One call.  Only the stream writers use indented_: it is set before the value
\* of an element, and cleared by all that writes a line.
Perform(style, w, c) ==
    LET indent == IF style.class = "StyledWriter" THEN StyledIndent(w) ELSE StreamIndent(style, w)
    IN  CASE c.call = "put" -> [w EXCEPT !.document = @ \o c.chars]
          [] c.call = "line" -> [w EXCEPT !.document = @ \o indent \o c.chars, !.indented = FALSE]
          [] c.call = "writeIndent" -> [w EXCEPT !.document = @ \o indent, !.indented = TRUE]
          [] c.call = "written" -> [w EXCEPT !.indented = FALSE]
          [] c.call = "indent" -> [w EXCEPT !.indentString = @ \o style.indentation]
          [] c.call = "unindent" ->
                 [w EXCEPT !.indentString = SubSeq(@, 1, Len(@) - Len(style.indentation))]

WriteStyled(style, v) ==
    FoldLeft(LAMBDA w, c : Perform(style, w, c), Fresh, WriteValueCalls(style, v)).document

StyledText(v) == Append(WriteStyled(StyledWriter, v), "\n")

StreamText(v) == Append(WriteStyled(StyledStreamWriter, v), "\n")

\* writeString, and toStyledString but for the line end behind it.
BuiltText(indentation, commentStyle, v) ==
    WriteStyled(BuiltWriter(indentation, commentStyle), v)
=============================================================================
