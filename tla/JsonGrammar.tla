---------------------------- MODULE JsonGrammar -----------------------------
(***************************************************************************)
(* What a JSON text means, as a grammar over its tokens and without a      *)
(* reader, and what the reader and the logger owe it.                      *)
(*                                                                         *)
(* The grammar is that of JSON with what CharReaderBuilder's defaults      *)
(* allow besides: a comma behind the last member or element, comments, any *)
(* value as the document, and anything behind it; and a minus sign alone,  *)
(* which decodeNumber takes for zero.                                      *)
(***************************************************************************)
EXTENDS JsonDispatch, JsonStyled

CONSTANTS
    LaidOut,        \* the values of Value that are also written in lines
    DataItems,      \* lists of data ids to request
    MessageItems,   \* items: chars, the observations they give, whether they throw
    Texts           \* further texts, of any kind

-----------------------------------------------------------------------------
(* The texts to read *)

\* What a request is to say.
Array(s) == ArrayValue([k \in 0 .. Len(s) - 1 |-> s[k + 1]])

DataReq(items) ==
    ObjectValue(<<"DataReq">> :>
        Array([k \in DOMAIN items |->
                  ObjectValue(<<"id">> :> IntValue(items[k]) @@ <<"repeat">> :> BooleanValue(TRUE)
                                  @@ <<"inst">> :> IntValue(0))]))

DataInfoReq(items) ==
    ObjectValue(<<"DataInfoReq">> :> Array([k \in DOMAIN items |-> IntValue(items[k])]))

\* A value and what each writer makes of it; the requests, which are put
\* together by hand.
WrittenValues ==
    {<<Written(v), v>> : v \in Value}
    \cup {<<RequestDataValues(items), DataReq(items)>> : items \in DataItems}
    \cup {<<RequestDataInfo(items), DataInfoReq(items)>> : items \in DataItems}
    \cup UNION {{<<StyledText(v), v>>, <<StreamText(v), v>>} : v \in LaidOut}
    \cup {<<BuiltText(s[1], s[2], v), v>> :
          s \in {<< <<"\t">>, "All">>, << <<"\t">>, "None">>, << <<>>, "None">>}, v \in LaidOut}

\* A list of items and what is to come of it.
Chars(items) == <<"[">> \o Commas([k \in DOMAIN items |-> items[k].chars]) \o <<"]">>

Handled(items) ==
    LET bad == SelectInSeq(items, LAMBDA i : i.throws)
        given == IF bad = 0 THEN items ELSE SubSeq(items, 1, bad - 1)
    IN  [observations |-> FlattenSeq([k \in DOMAIN given |-> given[k].observations]), throws |-> bad # 0]

Field(name, chars) == <<"\"", name, "\"", ":">> \o chars
Object(fields) == <<"{">> \o Commas(fields) \o <<"}">>

\* Messages with "Data", alone or beside a member the program has no handler for.
\* (What comes of "Many", whose elements are messages, is not said here.)
Messages ==
    LET other == Field("DataInfo", <<"[", "]">>)
        data(items) == Field("Data", Chars(items))
    IN  {<<Object(<<data(items)>>), Handled(items)>> : items \in BoundedSeq(MessageItems, 2)}
        \cup UNION {{<<Object(<<other, data(<<a>>)>>), Handled(<<a>>)>>,
                     <<Object(<<data(<<a>>), other>>), Handled(<<a>>)>>} : a \in MessageItems}

Inputs == Texts \cup {m[1] : m \in Messages} \cup {w[1] : w \in WrittenValues}

Spec == Init(Inputs) /\ [][Next]_vars

-----------------------------------------------------------------------------
(* The meaning of a text *)

AllTokens(t) ==
    LET from[p \in 1 .. Len(t) + 1] ==
            LET token == ReadToken(t, p)
            IN  IF token.type = "end" THEN <<>> ELSE <<token>> \o from[token.end]
    IN  from[SkipBom(t)]

IsComment(token) == token.type = "comment"

\* No comment stands where the reader is more, or less, tolerant of it than of
\* a space: before a colon, before the end of an array without a value before
\* it, or behind a value with neither comma nor closing mark following.
PlainComments(tokens) ==
    \A k \in DOMAIN tokens \ {1} :
        IsComment(tokens[k - 1]) /\ ~IsComment(tokens[k]) =>
            LET before == {j \in 1 .. k - 1 : ~IsComment(tokens[j])}
                opens == before = {} \/ tokens[Max(before)].type \in {"[", "{", ",", ":"}
            IN  IF opens THEN tokens[k].type \notin {":", "]"} ELSE tokens[k].type \in {",", "}", "]"}

\* The intervals of a .. b between the positions in cuts; the last is left out
\* when it is empty.
Parts(a, b, cuts) ==
    LET cut == <<a - 1>> \o SetToSortSeq(cuts, <) \o <<b + 1>>
        all == [k \in 1 .. Len(cut) - 1 |-> <<cut[k] + 1, cut[k + 1] - 1>>]
    IN  IF Last(all)[1] > Last(all)[2] THEN Front(all) ELSE all

\* A number of decimal digits denotes that integer, if a type is wide enough.
NumberMeant(chars) ==
    LET digits == IF chars[1] = "-" THEN Tail(chars) ELSE chars
        n == IF chars[1] = "-" THEN -Decimal(digits) ELSE Decimal(digits)
    IN  IF ~(ToSet(digits) \subseteq Digit) THEN DecodeDouble(chars)
        ELSE {CASE n \in minLargestInt .. maxLargestInt -> IntValue(n)
                [] n \in maxLargestInt + 1 .. maxLargestUInt -> UIntValue(n)
                [] n \notin minLargestInt .. maxLargestUInt -> RealValue(Rounded(2 * n))}

\* The values the tokens denote up to one of them: none or one.
Meaning(t, tokens) ==
    LET is(k, type) == tokens[k].type = type
        opened(k) == Cardinality({j \in 1 .. k : tokens[j].type \in {"[", "{"}})
                     - Cardinality({j \in 1 .. k : tokens[j].type \in {"]", "}"}})
        scalar(k) == IF is(k, "number")
                     THEN NumberMeant(SubSeq(t, tokens[k].start, tokens[k].end - 1))
                     ELSE Scalar(t, tokens[k])
        \* What lies between the brackets a and b, at the commas of their level.
        inside(a, b) ==
            Parts(a + 1, b - 1, {k \in a + 1 .. b - 1 : is(k, ",") /\ opened(k) = opened(a)})
        means[i \in (1 .. Len(tokens)) \X (0 .. Len(tokens))] ==
            LET a == i[1]
                b == i[2]
            IN  CASE a = b -> scalar(a)
                  [] a < b /\ is(a, "[") /\ is(b, "]") ->
                         {ArrayValue([k \in 0 .. Len(s) - 1 |-> s[k + 1]]) :
                          s \in FoldLeft(LAMBDA all, part : {Append(s, v) : s \in all, v \in means[part]},
                                         {<<>>}, inside(a, b))}
                  [] a < b /\ is(a, "{") /\ is(b, "}") ->
                         \* The last member of a name counts.
                         {ObjectValue(m) :
                          m \in FoldLeft(LAMBDA all, part :
                                            IF part[1] + 1 < part[2] /\ is(part[1], "string") /\ is(part[1] + 1, ":")
                                            THEN {(n.str :> v) @@ m : m \in all, n \in scalar(part[1]),
                                                                     v \in means[<<part[1] + 2, part[2]>>]}
                                            ELSE {},
                                         {Empty}, inside(a, b))}
                  [] OTHER -> {}
    IN  UNION {means[<<1, b>>] : b \in {k \in DOMAIN tokens : opened(k) = 0}}

Documents(t) ==
    UNION {Meaning(t, tokens) : tokens \in {SelectSeq(AllTokens(t), LAMBDA token : ~IsComment(token))}}

-----------------------------------------------------------------------------
(* Properties *)

\* parse accepts the texts that begin with a JSON value and no others, and
\* gives their value: numbers the integers they denote as far as the types
\* reach, the last of members of one name, commas allowed to trail.
ReadsDocument ==
    expects = "done" /\ thread = "parsing" =>
        \A tokens \in {AllTokens(text)} : PlainComments(tokens) =>
            \A documents \in {Documents(text)} :
                IF successful THEN documents = {root} ELSE documents = {}

\* What a writer makes of a value, on one line or many, the reader takes back as
\* that value: every escape, surrogate pair and number, every array that is
\* tried on one line and then laid out in lines, at every depth.  So it does the
\* requests of RequestDataValues and RequestDataInfo, which are put together
\* character by character: they ask for all items in their order and no others.
WrittenIsRead ==
    expects = "done" /\ thread = "parsing" =>
        \A w \in WrittenValues : text = w[1] => successful /\ root = w[2]

\* The elements of an array that was read.
Parsed == IF root.type = "array" THEN Range(Elements(root)) ELSE {}

\* What the tests of a number promise, its conversions keep, at the limits of the
\* types and of a double's precision too.
ConvertsAsPromised ==
    expects = "done" /\ thread = "parsing" /\ successful => \A v \in Parsed : PromisesKept(v)

\* A "Data" message is handled as the server meant it: its valid items become
\* observations in their order, each with the members it has; an item with a
\* member of another type, or a number that does not fit, ends the process, and
\* only behind the items before it.
HandledAsSent ==
    thread \in {"waiting", "terminated"} =>
        \A m \in Messages : text = m[1] =>
            /\ observed = m[2].observations
            /\ (thread = "terminated") = m[2].throws
=============================================================================
