------------------------------- MODULE MCJson -------------------------------
(***************************************************************************)
(* Texts for TLC.  The wide integers are of 8 bits, `int' of 5 and the     *)
(* significand of a double of 6; a name of the protocol is one character.  *)
(***************************************************************************)
EXTENDS JsonGrammar

-----------------------------------------------------------------------------
(* Texts of lexemes: every short one, and longer ones with one replaced,    *)
(* left out or inserted                                                     *)

Quote(c) == <<"\"", c, "\"">>
Comment == <<"/", "*", "*", "/">>
NameA == Quote("A") \o <<":">>

Lexemes == {<<"[">>, <<"]">>, <<"{">>, <<"}">>, <<",">>, NameA, <<"1">>, Comment}

ShortTexts == UNION {{FlattenSeq(s) : s \in [1 .. n -> Lexemes]} : n \in 0 .. 4}

\* A member twice, nesting and trailing commas; scalars of every kind.
Templates ==
    {<< <<"{">>, NameA, <<"[">>, <<"1">>, <<",">>, <<"{">>, <<"}">>, <<"]">>, <<",">>,
        NameA, <<"2">>, <<"}">> >>,
     << <<"[">>, <<"[">>, <<"t", "r", "u", "e">>, <<",">>, <<"]">>, <<",">>, Quote("A"), <<",">>,
        <<"{">>, NameA, <<"n", "u", "l", "l">>, <<",">>, <<"}">>, <<"]">> >>,
     << <<"{">>, Quote("A"), <<":">>, <<"f", "a", "l", "s", "e">>, <<",">>,
        Quote("D"), <<":">>, <<"1", ".", "5">>, <<"}">> >>}

Odd == {Quote("A"), <<":">>, <<"-">>, <<"\"">>, <<"/">>, <<"n", "u">>, <<" ">>, <<"\"", "\\", "\"">>,
        <<"/", "/", "\n">>, <<NUL>>}

Replaced(s, x) == {[s EXCEPT ![k] = x] : k \in DOMAIN s}
Inserted(s, x) == {InsertAt(s, k, x) : k \in DOMAIN s}
Removed(s) == {RemoveAt(s, k) : k \in DOMAIN s}

ChangedTexts ==
    {FlattenSeq(s) : s \in UNION {
        {t} \cup Removed(t) \cup UNION {Replaced(t, x) \cup Inserted(t, x) : x \in Lexemes \cup Odd} :
        t \in Templates}}

\* Numbers at the limits of the types, and strings that are not ones.
NumberTexts ==
    {<<"[">> \o n \o <<"]">> :
     n \in UNION {{<<a>>, <<a, b>>, <<"-", a>>, <<"-", a, b>>, <<a, ".", b>>, <<a, "e", b>>} :
                  a \in {"0", "1", "3"}, b \in {"0", "1", "2", "5", "6"}}}
    \cup {<<"[">> \o s \o <<c, a, b>> \o f \o <<"]">> :
          s \in {<<>>, <<"-">>}, c \in {"1", "2"}, a \in {"2", "5"},
          b \in {"4", "5", "6", "7", "8", "9"}, f \in {<<>>, <<".", "0">>, <<".", "5">>}}
    \cup {<<"[">> \o s \o <<"0", "1", a>> \o f \o <<"]">> :
          s \in {<<>>, <<"-">>}, a \in {"5", "6"}, f \in {<<>>, <<".", "0">>, <<".", "5">>}}
    \cup {<<"2", "5", "5", "0">>, <<"-", "1", "2", "8", "0">>}
    \cup {<<"-">>, <<"-", "-", "1">>, <<"+", "1">>, <<"1", ".">>, <<".", "5">>, <<"1", "e">>, <<BOM, "1">>}

-----------------------------------------------------------------------------
(* Texts of values *)

MCByteName == [n \in 0 .. 255 |-> "x" \o ToString(n)]

MCNameOrder == << <<>>, <<"A">>, <<"D">> >>

Strings ==
    {<<Byte(n)>> : n \in {0, 8, 9, 10, 12, 13, 31, 32, 34, 47, 65, 92, 127}}
    \cup {CodePointToUTF8(cp) : cp \in {128, 2047, 2048, 65535, 65536, 69905, 1114111}}
    \cup {<<>>, <<"A", "\"">>, <<"\\", "\"">>}

Scalars ==
    {IntValue(n) : n \in {-128, -1, 0, 9, 127}} \cup {UIntValue(n) : n \in {128, 255}}
    \cup {RealValue(n) : n \in {-1, 0, 7, 128}} \cup {StringValue(s) : s \in Strings}
    \cup {BooleanValue(b) : b \in BOOLEAN} \cup {NullValue}

Values ==
    LET few == {IntValue(9), StringValue(<<"\"">>), Array(<<>>), ObjectValue(Empty)}
        objects == UNION {{ObjectValue(m) : m \in [names -> few]} : names \in SUBSET ToSet(MCNameOrder)}
        arrays == {Array(s) : s \in BoundedSeq(few, 2)}
        mixed == few \cup arrays \cup {UIntValue(128), RealValue(7), NullValue, BooleanValue(TRUE), StringValue(<<>>),
                        StringValue(<<"\"", "A">>), ObjectValue(<<"A">> :> IntValue(9)),
                        ObjectValue(<<"A">> :> NullValue), ObjectValue(<<"D">> :> NullValue)}
    IN  Scalars \cup mixed \cup objects \cup arrays
        \cup {Array(<<a, b>>) : a \in Scalars, b \in {NullValue, ObjectValue(<<"A">> :> IntValue(9))}}
        \cup {Array(<<a, b>>) : a, b \in mixed} \cup {Array(<<a, b, c>>) : a, b, c \in few}
        \cup {ObjectValue(<<"D">> :> a) : a \in arrays}
        \cup {Array(<<NullValue>>), Array(<<Array(<<NullValue>>)>>)}

\* Arrays on one line and in lines, one within the other and behind it, with a
\* margin of 12.
MCLaidOut ==
    LET nine == IntValue(9)
        wide == StringValue(<<"\"">>)
        arrays == {Array(s) : s \in {<<>>, <<nine>>, <<nine, wide>>, <<wide, wide>>,
                                    <<nine, nine, nine, nine>>}}
        nested == {Array(<<a, b>>) : a \in arrays \cup {nine}, b \in arrays}
    IN  arrays \cup nested
        \cup {ObjectValue(m) : m \in [{<<"A">>, <<"D">>} -> arrays \cup {nine, ObjectValue(Empty)}]}
        \cup {ObjectValue(<<"A">> :> a) : a \in nested}
        \cup UNION {{ObjectValue(<<"A">> :> a), Array(<<ObjectValue(<<"A">> :> a), a>>)} : a \in arrays}

MCValue == Values \cup MCLaidOut

-----------------------------------------------------------------------------
(* Messages *)

True == <<"t", "r", "u", "e">>
False == <<"f", "a", "l", "s", "e">>

Observation(id) ==
    [id |-> id, valid |-> TRUE, val |-> 0, sysVal |-> 0, dampedVal |-> 0,
     valStr |-> <<>>, inst |-> 0, damped |-> FALSE]

\* An item as text, the observations it gives, and whether it ends the process.
Item(chars, observations, throws) ==
    [chars |-> chars, observations |-> observations, throws |-> throws]

MCMessageItems == {
    Item(Object(<<Field("id", <<"7">>), Field("valid", True), Field("val", <<"1", ".", "5">>)>>),
         <<[Observation(7) EXCEPT !.val = 3]>>, FALSE),
    Item(Object(<<Field("damped", True), Field("inst", <<"2">>), Field("valStr", Quote("A")),
                  Field("dampedVal", <<"4">>), Field("sysVal", <<"-", "3">>),
                  Field("id", <<"9">>), Field("valid", True)>>),
         <<[id |-> 9, valid |-> TRUE, val |-> 0, sysVal |-> -6, dampedVal |-> 8,
            valStr |-> <<"A">>, inst |-> 2, damped |-> TRUE]>>, FALSE),
    Item(Object(<<Field("id", <<"7">>), Field("valid", False), Field("val", <<"1">>)>>), <<>>, FALSE),
    Item(Object(<<Field("id", <<"7">>)>>), <<>>, FALSE),
    Item(Object(<<Field("id", <<"1", "6">>), Field("valid", True)>>), <<>>, TRUE),
    Item(Object(<<Field("id", <<"7">>), Field("valid", True), Field("val", Quote("A"))>>), <<>>, TRUE),
    Item(<<"7">>, <<>>, TRUE)}

\* Messages of which one character was lost or garbled.
GarbledTexts ==
    UNION {Removed(t) \cup UNION {Replaced(t, c) : c \in {"}", ",", "\"", "1"}} :
           t \in {Object(<<Field("Data", Chars(<<a>>))>>) : a \in MCMessageItems}}

\* Messages of messages, alone and beside "Data".
ManyTexts ==
    UNION {{Object(<<Field("Many", <<"[">> \o data \o <<"]">>)>>),
            Object(<<Field("Many", <<"[">> \o data \o <<"]">>), Field("Data", Chars(<<a>>))>>)} :
           a \in MCMessageItems, data \in {Object(<<Field("Data", Chars(<<b>>))>>) : b \in MCMessageItems}}

\* Ids of one to three digits, once and repeated.
MCDataItems == {<<1>>, <<42, 7>>, <<118, 41, 127>>, <<9, 9>>}

MCTexts == ShortTexts \cup ChangedTexts \cup NumberTexts \cup GarbledTexts \cup ManyTexts
=============================================================================
