----------------------------- MODULE JsonValue ------------------------------
(***************************************************************************)
(* Json::Value of the vendored jsoncpp (src/json/jsoncpp.cpp) as far as    *)
(* the logger and the JSON reader use it: the eight types, the conversions *)
(* by which observations and data definitions are taken out of a document, *)
(* members of objects and elements of arrays.                              *)
(*                                                                         *)
(* A value is a record of its type and payload.  An array holds a function *)
(* from indices, as the code holds a map, which need not be contiguous.    *)
(* What may throw gives the set of its results, {} when it throws.         *)
(***************************************************************************)
EXTENDS JsonScalars

CONSTANTS
    maxInt,     \* 2^31 - 1
    maxUInt,    \* 2^32 - 1
    NameOrder   \* the member names, in the order of their bytes

ASSUME NarrowAssumption ==
    maxInt \in Nat /\ maxUInt = 2 * maxInt + 1 /\ maxUInt <= maxLargestInt

minInt == -maxInt - 1

\* ValueType, in the order of the enumeration.
ValueType == <<"null", "int", "uint", "real", "string", "boolean", "array", "object">>

NullValue == [type |-> "null"]
BooleanValue(b) == [type |-> "boolean", bool |-> b]
ArrayValue(items) == [type |-> "array", items |-> items]
ObjectValue(members) == [type |-> "object", members |-> members]

Empty == [k \in {} |-> NullValue]

NameRank(name) == CHOOSE k \in DOMAIN NameOrder : NameOrder[k] = name

\* Value(ValueType): the value a type begins with.
Default(type) ==
    CASE type = "null" -> NullValue
      [] type = "int" -> IntValue(0)
      [] type = "uint" -> UIntValue(0)
      [] type = "real" -> RealValue(0)
      [] type = "string" -> StringValue(<<>>)
      [] type = "boolean" -> BooleanValue(FALSE)
      [] type = "array" -> ArrayValue(Empty)
      [] type = "object" -> ObjectValue(Empty)

-----------------------------------------------------------------------------
(* Numbers: is* and as* *)

IsNumeric(v) == v.type \in {"int", "uint", "real"}

\* The value in halves, whatever the numeric type.
Halves(v) == IF v.type = "real" THEN v.num ELSE 2 * v.num

ToDouble(n) == Rounded(2 * n)

\* The compiler's conversion of a double to an integer drops the fraction.
Truncated(halves) == IF halves < 0 THEN -((-halves) \div 2) ELSE halves \div 2

IsWhole(halves) == halves % 2 = 0

\* InRange compares doubles; a bound that has no double is rounded.
InRange(v, low, high) == v.num >= ToDouble(low) /\ v.num <= ToDouble(high)

\* isInt, isUInt
IsInteger(v, low, high) ==
    CASE v.type \in {"int", "uint"} -> v.num \in low .. high
      [] v.type = "real" -> InRange(v, low, high) /\ IsWhole(v.num)
      [] OTHER -> FALSE

IsInt(v) == IsInteger(v, minInt, maxInt)
IsUInt(v) == IsInteger(v, 0, maxUInt)

\* Mutant of IsWide: a double may equal the bound's.
IsWideInclusive(v, low, high) ==
    CASE v.type \in {"int", "uint"} -> v.num \in low .. high
      [] v.type = "real" -> InRange(v, low, high) /\ IsWhole(v.num)
      [] OTHER -> FALSE

\* isInt64, isUInt64: a double must be less than the bound's.
IsWide(v, low, high) ==
    CASE v.type \in {"int", "uint"} -> v.num \in low .. high
      [] v.type = "real" -> v.num >= ToDouble(low) /\ v.num < ToDouble(high) /\ IsWhole(v.num)
      [] OTHER -> FALSE

IsInt64(v) == IsWide(v, minLargestInt, maxLargestInt)
IsUInt64(v) == IsWide(v, 0, maxLargestUInt)

\* asInt, asUInt, asInt64 and asUInt64.  A double that InRange lets through
\* although it exceeds the bound is cast to any integer: undefined behaviour.
AsInteger(v, low, high) ==
    CASE v.type \in {"int", "uint"} -> IF v.num \in low .. high THEN {v.num} ELSE {}
      [] v.type = "real" -> IF ~InRange(v, low, high) THEN {}
                            ELSE IF Truncated(v.num) \in low .. high THEN {Truncated(v.num)}
                            ELSE low .. high
      [] v.type = "null" -> {0}
      [] v.type = "boolean" -> {IF v.bool THEN 1 ELSE 0}
      [] OTHER -> {}

AsInt(v) == AsInteger(v, minInt, maxInt)
AsUInt(v) == AsInteger(v, 0, maxUInt)
AsInt64(v) == AsInteger(v, minLargestInt, maxLargestInt)
AsUInt64(v) == AsInteger(v, 0, maxLargestUInt)

\* asDouble, in halves.
AsDouble(v) ==
    CASE v.type \in {"int", "uint"} -> {ToDouble(v.num)}
      [] v.type = "real" -> {v.num}
      [] v.type = "null" -> {0}
      [] v.type = "boolean" -> {IF v.bool THEN 2 ELSE 0}
      [] OTHER -> {}

AsBool(v) ==
    CASE v.type = "boolean" -> {v.bool}
      [] v.type = "null" -> {FALSE}
      [] IsNumeric(v) -> {v.num # 0}
      [] OTHER -> {}

Word(w) == CASE w = TRUE -> <<"t", "r", "u", "e">> [] w = FALSE -> <<"f", "a", "l", "s", "e">>

\* valueToString of a double: with ".0" or ".5" here.
RealToString(halves) ==
    (IF halves < 0 THEN <<"-">> ELSE <<>>) \o UIntToString(Magnitude(halves) \div 2)
        \o <<".", IF halves % 2 = 1 THEN "5" ELSE "0">>

AsString(v) ==
    CASE v.type = "null" -> {<<>>}
      [] v.type = "string" -> {v.str}
      [] v.type = "boolean" -> {Word(v.bool)}
      [] v.type \in {"int", "uint"} -> {IntToString(v.num)}
      [] v.type = "real" -> {RealToString(v.num)}
      [] OTHER -> {}

\* size: the highest index and one, of an array.
Size(v) ==
    CASE v.type = "array" -> IF v.items = Empty THEN 0 ELSE Max(DOMAIN v.items) + 1
      [] v.type = "object" -> Cardinality(DOMAIN v.members)
      [] OTHER -> 0

IsConvertibleTo(v, type) ==
    CASE type = "null" -> \/ v.type = "null"
                          \/ IsNumeric(v) /\ v.num = 0
                          \/ v.type = "boolean" /\ ~v.bool
                          \/ v.type = "string" /\ v.str = <<>>
                          \/ v.type \in {"array", "object"} /\ Size(v) = 0
      [] type = "int" -> IsInt(v) \/ (v.type = "real" /\ InRange(v, minInt, maxInt))
                         \/ v.type \in {"boolean", "null"}
      [] type = "uint" -> IsUInt(v) \/ (v.type = "real" /\ InRange(v, 0, maxUInt))
                          \/ v.type \in {"boolean", "null"}
      [] type \in {"real", "boolean"} -> IsNumeric(v) \/ v.type \in {"boolean", "null"}
      [] type = "string" -> IsNumeric(v) \/ v.type \in {"boolean", "string", "null"}
      [] type \in {"array", "object"} -> v.type \in {type, "null"}

-----------------------------------------------------------------------------
(* Members and elements *)

\* find, isMember
IsMember(v, name) ==
    CASE v.type = "object" -> {name \in DOMAIN v.members}
      [] v.type = "null" -> {FALSE}
      [] OTHER -> {}

\* operator[](name) without the insertion, which nothing sees: a missing
\* member is null.
Member(v, name) ==
    CASE v.type = "object" -> {IF name \in DOMAIN v.members THEN v.members[name] ELSE NullValue}
      [] v.type = "null" -> {NullValue}
      [] OTHER -> {}

\* operator[](index) const
Element(v, index) ==
    CASE v.type = "array" -> {IF index \in DOMAIN v.items THEN v.items[index] ELSE NullValue}
      [] v.type = "null" -> {NullValue}
      [] OTHER -> {}

\* resolveReference and operator[](index) as the reader uses them: the entry is
\* there, null if it is new.
Resolve(map, key) == [k \in DOMAIN map \cup {key} |-> IF k \in DOMAIN map THEN map[k] ELSE NullValue]

-----------------------------------------------------------------------------
(* What the tests promise *)

\* Integers of the narrow types have a double of their own, and no bound of the
\* wide ones is rounded beyond its successor: so it is with 32, 64 and 53 bits.
ASSUME RoundingAssumption ==
    /\ \A n \in minInt .. maxUInt : ToDouble(n) = 2 * n
    /\ ToDouble(minLargestInt) = 2 * minLargestInt
    /\ ToDouble(maxLargestInt) \in Int /\ ToDouble(maxLargestInt) <= 2 * (maxLargestInt + 1)
    /\ ToDouble(maxLargestUInt) \in Int /\ ToDouble(maxLargestUInt) <= 2 * (maxLargestUInt + 1)

Converted(v, type) ==
    CASE type = "int" -> AsInt(v)
      [] type = "uint" -> AsUInt(v)
      [] type = "real" -> AsDouble(v)
      [] type = "boolean" -> AsBool(v)
      [] type = "string" -> AsString(v)

\* isInt and the others hold of a value only if asInt gives that very number, and
\* one that isConvertibleTo a type is converted without an exception and to one
\* result.
PromisesKept(v) ==
    /\ IsInt(v) => {2 * n : n \in AsInt(v)} = {Halves(v)}
    /\ IsUInt(v) => {2 * n : n \in AsUInt(v)} = {Halves(v)}
    /\ IsInt64(v) => {2 * n : n \in AsInt64(v)} = {Halves(v)}
    /\ IsUInt64(v) => {2 * n : n \in AsUInt64(v)} = {Halves(v)}
    /\ \A type \in {"int", "uint", "real", "boolean", "string"} :
           IsConvertibleTo(v, type) => Cardinality(Converted(v, type)) = 1
=============================================================================
