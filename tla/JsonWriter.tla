----------------------------- MODULE JsonWriter -----------------------------
(***************************************************************************)
(* FastWriter of the vendored jsoncpp (src/json/jsoncpp.cpp): the text of  *)
(* a value.  The logger itself sends texts it puts together by hand; what  *)
(* a writer makes of a value is what the reader must take back.            *)
(***************************************************************************)
EXTENDS JsonReader

CONSTANT Value       \* the values to write, with all they are made of

\* The texts with commas between them.
Commas(parts) ==
    FlattenSeq([k \in DOMAIN parts |-> IF k = 1 THEN parts[k] ELSE <<",">> \o parts[k]])

\* writeValue; the members in the order of their names, a hole as null.
WriteValue[v \in Value] ==
    CASE v.type = "null" -> <<"n", "u", "l", "l">>
      [] v.type \in {"int", "uint"} -> IntToString(v.num)
      [] v.type = "real" -> RealToString(v.num)
      [] v.type = "string" -> QuotedString(v.str)
      [] v.type = "boolean" -> Word(v.bool)
      [] v.type = "array" ->
             LET texts == [k \in 1 .. Size(v) |->
                             WriteValue[CHOOSE x \in Element(v, k - 1) : TRUE]]
             IN  <<"[">> \o Commas(texts) \o <<"]">>
      [] v.type = "object" ->
             LET names == SetToSortSeq(DOMAIN v.members, LAMBDA a, b : NameRank(a) < NameRank(b))
                 texts == [k \in DOMAIN names |->
                             QuotedString(names[k]) \o <<":">> \o WriteValue[v.members[names[k]]]]
             IN  <<"{">> \o Commas(texts) \o <<"}">>

\* write
Written(v) == Append(WriteValue[v], "\n")
=============================================================================
