---------------------------- MODULE JsonScalars -----------------------------
(***************************************************************************)
(* The numbers and strings of a JSON text (src/json/jsoncpp.cpp): what     *)
(* OurReader decodes a token into, and what the writers make of a value.   *)
(*                                                                         *)
(* Characters and bytes are strings, Byte(n) the byte of value n.  Integer *)
(* widths are parameters; a double is a multiple of one half with Mantissa *)
(* significant bits, in the unit of a half, so that the wide integers do   *)
(* not all have a double, as with 64 and 53 bits.                          *)
(*                                                                         *)
(* A decoding that may fail gives the set of its results, {} if it fails.  *)
(***************************************************************************)
EXTENDS JsonText

CONSTANTS
    maxLargestInt,      \* 2^63 - 1
    maxLargestUInt,     \* 2^64 - 1
    Mantissa,           \* the significant bits of a double, 53
    ByteName            \* names for the bytes that have none of their own

ASSUME WidthAssumption ==
    /\ maxLargestInt \in Nat /\ maxLargestUInt = 2 * maxLargestInt + 1
    /\ maxLargestInt > 10 /\ Mantissa \in Nat \ {0}

minLargestInt == -maxLargestInt - 1

IntValue(n) == [type |-> "int", num |-> n]
UIntValue(n) == [type |-> "uint", num |-> n]
RealValue(halves) == [type |-> "real", num |-> halves]
StringValue(s) == [type |-> "string", str |-> s]

-----------------------------------------------------------------------------
(* Numbers *)

Magnitude(n) == IF n < 0 THEN -n ELSE n

Power(base, n) ==
    LET power[k \in 0 .. n] == IF k = 0 THEN 1 ELSE base * power[k - 1]
    IN  power[n]

\* The double nearest to so many halves, the even one of two.
Rounded(halves) ==
    LET unit[m \in 0 .. Magnitude(halves)] ==
            IF m < Power(2, Mantissa) THEN 1 ELSE 2 * unit[m \div 2]
        u == unit[Magnitude(halves)]
        below == (halves \div u) * u
        rest == 2 * (halves - below)
    IN  IF rest < u \/ (rest = u /\ (below \div u) % 2 = 0) THEN below ELSE below + u

HexDigit == <<"0", "1", "2", "3", "4", "5", "6", "7", "8", "9", "a", "b", "c", "d", "e", "f">>
DigitValue(c) == CHOOSE n \in 0 .. 9 : HexDigit[n + 1] = c

\* The numbers the first of some decimal digits denote.
Decimals(digits) ==
    LET value[k \in 0 .. Len(digits)] ==
            IF k = 0 THEN 0 ELSE 10 * value[k - 1] + DigitValue(digits[k])
    IN  value

Decimal(digits) == Decimals(digits)[Len(digits)]

\* The digits from a position on.
DigitsAt(chars, p) == SubSeq(chars, p, Behind(chars, p, Digit) - 1)

\* istream >> double: digits on one side of the point at least, and behind an
\* exponent's mark.  The fractions are .0 and .5, the exponents not negative.  The
\* model's doubles have no largest one: that the stream refuses a number beyond it,
\* which decodeDouble reports as not a number, is left out.
StreamDouble(chars) ==
    LET body == IF chars[1] \in {"-", "+"} THEN Tail(chars) ELSE chars
        whole == DigitsAt(body, 1)
        point == Len(whole) + 1
        fraction == IF CharAt(body, point) = "." THEN DigitsAt(body, point + 1) ELSE <<>>
        mark == IF CharAt(body, point) = "." THEN point + 1 + Len(fraction) ELSE point
        exponent == DigitsAt(body, IF CharAt(body, mark + 1) \in {"+", "-"} THEN mark + 2 ELSE mark + 1)
        halves == 2 * Decimal(whole) + (IF fraction # <<>> /\ fraction[1] = "5" THEN 1 ELSE 0)
    IN  IF whole \o fraction = <<>> \/ (mark <= Len(body) /\ exponent = <<>>)
        THEN {}
        ELSE {Rounded((IF chars[1] = "-" THEN -1 ELSE 1) * halves * Power(10, Decimal(exponent)))}

DecodeDouble(chars) == {RealValue(halves) : halves \in StreamDouble(chars)}

\* Another digit behind value would go beyond the limit, by the limit divided
\* by ten and its last digit.
Exceeds(value, digit, last, limit) ==
    /\ value >= limit \div 10
    /\ value > limit \div 10 \/ ~last \/ digit > limit % 10

\* decodeNumber: an integer as long as digits and width allow, else a double.
DecodeNumber(chars) ==
    LET negative == chars[1] = "-"
        digits == IF negative THEN Tail(chars) ELSE chars
        limit == IF negative THEN -minLargestInt ELSE maxLargestUInt
        value == Decimals(digits)
    IN  IF \E k \in DOMAIN digits :
               \/ digits[k] \notin Digit
               \/ /\ \A j \in 1 .. k : digits[j] \in Digit
                  /\ Exceeds(value[k - 1], DigitValue(digits[k]), k = Len(digits), limit)
        THEN DecodeDouble(chars)
        ELSE LET n == value[Len(digits)]
             IN  {CASE negative -> IntValue(-n)
                    [] ~negative /\ n <= maxLargestInt -> IntValue(n)
                    [] ~negative /\ n > maxLargestInt -> UIntValue(n)}

\* uintToString: the digits of a number, least first into the buffer's end.
UIntToString(n) ==
    LET digits[m \in 0 .. n] ==
            IF m < 10 THEN <<HexDigit[m + 1]>> ELSE Append(digits[m \div 10], HexDigit[(m % 10) + 1])
    IN  digits[n]

\* valueToString of the integers.
IntToString(n) == IF n < 0 THEN <<"-">> \o UIntToString(-n) ELSE UIntToString(n)

-----------------------------------------------------------------------------
(* Bytes and code points *)

HexValue(c) ==
    CASE c \in ToSet(HexDigit) -> {n \in 0 .. 15 : HexDigit[n + 1] = c}
      [] c = "A" -> {10}
      [] c = "D" -> {13}
      [] OTHER -> {}

\* The escapes of one letter, and the bytes they stand for.
Escape == [c \in {"\"", "/", "\\", "b", "f", "n", "r", "t"} |->
             CASE c = "b" -> 8 [] c = "t" -> 9 [] c = "n" -> 10 [] c = "f" -> 12 [] c = "r" -> 13
               [] c = "\"" -> 34 [] c = "/" -> 47 [] c = "\\" -> 92]

\* The bytes that are characters of their own, and the others.
Ascii == [n \in {9, 10, 12, 13, 34, 47, 65, 68, 92} |->
             CASE n = 9 -> "\t" [] n = 10 -> "\n" [] n = 12 -> "\f" [] n = 13 -> "\r" [] n = 34 -> "\""
               [] n = 47 -> "/" [] n = 65 -> "A" [] n = 68 -> "D" [] n = 92 -> "\\"]

Byte(n) == IF n \in DOMAIN Ascii THEN Ascii[n] ELSE ByteName[n]

ASSUME ByteAssumption == \A m, n \in 0 .. 255 : Byte(m) = Byte(n) => m = n

ByteValue(c) == CHOOSE n \in 0 .. 255 : Byte(n) = c

\* codePointToUTF8
CodePointToUTF8(cp) ==
    LET trail(shift) == 128 + ((cp \div shift) % 64)
        bytes == CASE cp <= 127 -> <<cp>>
                   [] cp > 127 /\ cp <= 2047 -> <<192 + cp \div 64, trail(1)>>
                   [] cp > 2047 /\ cp <= 65535 -> <<224 + cp \div 4096, trail(64), trail(1)>>
                   [] cp > 65535 -> <<240 + cp \div 262144, trail(4096), trail(64), trail(1)>>
    IN  [k \in DOMAIN bytes |-> Byte(bytes[k])]

-----------------------------------------------------------------------------
(* decodeString *)

\* decodeUnicodeEscapeSequence: four hexadecimal digits.
HexEscape(chars, p) ==
    IF p + 3 > Len(chars) THEN {}
    ELSE {4096 * a + 256 * b + 16 * c + d :
          a \in HexValue(chars[p]), b \in HexValue(chars[p + 1]),
          c \in HexValue(chars[p + 2]), d \in HexValue(chars[p + 3])}

\* Mutant of Paired: the offset of the supplementary planes is forgotten.
PairedUnshifted(high, low) == (high % 1024) * 1024 + (low % 1024)

Paired(high, low) == 65536 + (high % 1024) * 1024 + (low % 1024)

\* decodeUnicodeCodePoint behind "\u", and the position behind it.  The second
\* of a pair is not tested for being one.
CodePoint(chars, p) ==
    UNION {IF 55296 <= u /\ u <= 56319
           THEN IF Match(chars, p + 4, <<"\\", "u">>)
                THEN {<<Paired(u, low), p + 10>> : low \in HexEscape(chars, p + 6)}
                ELSE {}
           ELSE {<<u, p + 4>>} :
           u \in HexEscape(chars, p)}

\* decodeString: the bytes of the characters between the quotes.
DecodeString(chars) ==
    LET bytes[p \in 1 .. Len(chars) + 1] ==
            IF p > Len(chars) THEN {<<>>}
            ELSE IF chars[p] # "\\" THEN {<<chars[p]>> \o rest : rest \in bytes[p + 1]}
            ELSE IF CharAt(chars, p + 1) = "u"
                 THEN UNION {{CodePointToUTF8(cp[1]) \o rest : rest \in bytes[cp[2]]} :
                             cp \in CodePoint(chars, p + 2)}
            ELSE IF CharAt(chars, p + 1) \in DOMAIN Escape
                 THEN {<<Byte(Escape[chars[p + 1]])>> \o rest : rest \in bytes[p + 2]}
            ELSE {}
    IN  bytes[1]

-----------------------------------------------------------------------------
(* valueToQuotedStringN *)

\* utf8ToCodepoint of a well-formed string: the code point at p, and its length.
Utf8ToCodePoint(bytes, p) ==
    LET b(k) == ByteValue(bytes[p + k]) % 64
        first == ByteValue(bytes[p])
    IN  CASE first < 128 -> <<first, 1>>
          [] first >= 128 /\ first < 224 -> <<(first % 32) * 64 + b(1), 2>>
          [] first >= 224 /\ first < 240 -> <<(first % 16) * 4096 + b(1) * 64 + b(2), 3>>
          [] first >= 240 -> <<(first % 8) * 262144 + b(1) * 4096 + b(2) * 64 + b(3), 4>>

\* toHex16Bit behind "\u".
AppendHex(n) ==
    <<"\\", "u", HexDigit[n \div 4096 + 1], HexDigit[((n \div 256) % 16) + 1],
      HexDigit[((n \div 16) % 16) + 1], HexDigit[(n % 16) + 1]>>

\* One code point in a quoted string.  A slash stays as it is.
Quoted(cp) ==
    CASE cp \in {8, 9, 10, 12, 13, 34, 92} ->
             <<"\\", CHOOSE c \in DOMAIN Escape : Escape[c] = cp>>
      [] cp \notin {8, 9, 10, 12, 13, 34, 92} /\ cp >= 32 /\ cp < 128 -> <<Byte(cp)>>
      [] cp \notin {8, 9, 10, 12, 13} /\ (cp < 32 \/ (128 <= cp /\ cp <= 65535)) -> AppendHex(cp)
      [] cp > 65535 -> AppendHex(55296 + (((cp - 65536) \div 1024) % 1024))
                       \o AppendHex(56320 + ((cp - 65536) % 1024))

QuotedString(bytes) ==
    LET quoted[p \in 1 .. Len(bytes) + 4] ==
            IF p > Len(bytes) THEN <<"\"">>
            ELSE LET cp == Utf8ToCodePoint(bytes, p) IN Quoted(cp[1]) \o quoted[p + cp[2]]
    IN  <<"\"">> \o quoted[1]
=============================================================================
