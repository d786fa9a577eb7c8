------------------------------ MODULE AsciiText ------------------------------
(***************************************************************************)
(* The conversions of names and of string literals that the checks of a    *)
(* descriptor and the text and JSON formats rest on.  Text is a sequence   *)
(* of bytes, by their numbers.                                             *)
(***************************************************************************)
EXTENDS Integers, Sequences, SequencesExt

Underscore == 95
Dot == 46
Backslash == 92
Quote == 34

IsUpper(c) == c \in 65..90
IsLower(c) == c \in 97..122
Upcase(c) == IF IsLower(c) THEN c - 32 ELSE c
Downcase(c) == IF IsUpper(c) THEN c + 32 ELSE c

-----------------------------------------------------------------------------
(* Names.                                                                  *)

\* to_json_name
ToJsonName(name) ==
  FoldLeft(LAMBDA s, c : IF c = Underscore THEN [s EXCEPT !.upper = TRUE]
                         ELSE [out |-> Append(s.out, IF s.upper THEN Upcase(c) ELSE c),
                               upper |-> FALSE],
           [out |-> << >>, upper |-> FALSE], name).out

\* to_lower_without_underscores
ToLowerWithoutUnderscores(name) ==
  LET letters == SelectSeq(name, LAMBDA c : c # Underscore)
  IN [i \in DOMAIN letters |-> Downcase(letters[i])]

NoName == [is |-> "error"]
Name(text) == [is |-> "text", text |-> text]

\* snake_case_to_camel_case
SnakeToCamel(src) ==
  LET end == FoldLeft(
        LAMBDA s, c :
          IF IsUpper(c) THEN [s EXCEPT !.ok = FALSE]
          ELSE IF s.upper THEN [out |-> Append(s.out, Upcase(c)), upper |-> FALSE,
                                ok |-> s.ok /\ Upcase(c) # c]
          ELSE IF c = Underscore THEN [s EXCEPT !.upper = TRUE]
          ELSE [s EXCEPT !.out = Append(@, c)],
        [out |-> << >>, upper |-> FALSE, ok |-> TRUE], src)
  IN IF end.ok THEN Name(end.out) ELSE NoName

\* camel_case_to_snake_case
CamelToSnake(part) ==
  IF Underscore \in Range(part) THEN NoName
  ELSE Name(FlattenSeq([i \in DOMAIN part |-> IF IsUpper(part[i]) THEN <<Underscore, Downcase(part[i])>>
                                              ELSE <<part[i]>>]))

-----------------------------------------------------------------------------
(* Literals.                                                               *)

\* What follows a backslash for one byte, in both readers.
Escape ==
  [c \in {97, 98, 102, 110, 114, 116, 118, 63, 92, 39, 34} |->
     CASE c = 97 -> 7 [] c = 98 -> 8 [] c = 102 -> 12 [] c = 110 -> 10 [] c = 114 -> 13
       [] c = 116 -> 9 [] c = 118 -> 11 [] OTHER -> c]

Digits(base) == IF base = 8 THEN 48..55 ELSE (48..57) \cup (65..70) \cup (97..102)
Digit(c) == IF c <= 57 THEN c - 48 ELSE Upcase(c) - 55
Value(digits, base) == FoldLeft(LAMBDA v, c : base * v + Digit(c), 0, digits)

\* The longest run of digits from a position, of at most "most".
DigitsAt(text, p, base, most) ==
  LET runs == { k \in 0..most : p + k <= Len(text) + 1 /\ \A i \in p..(p + k - 1) : text[i] \in Digits(base) }
      longest == CHOOSE k \in runs : \A j \in runs : j <= k
  IN SubSeq(text, p, p + longest - 1)

\* fmt_string, between its quotes.
Octal(b) == <<Backslash, 48 + (b \div 64), 48 + ((b \div 8) % 8), 48 + (b % 8)>>

\* Fault: as many digits as the number needs.
EscapedByteShort(b) ==
  CASE b = 9 -> <<Backslash, 116>> [] b = 13 -> <<Backslash, 114>> [] b = 10 -> <<Backslash, 110>>
    [] b \in {Backslash, 39, Quote} -> <<Backslash, b>>
    [] b \in (32..126) \ {Backslash, 39, Quote} -> <<b>>
    [] OTHER -> IF b < 8 THEN <<Backslash, 48 + b>> ELSE Octal(b)

EscapedByte(b) ==
  CASE b = 9 -> <<Backslash, 116>> [] b = 13 -> <<Backslash, 114>> [] b = 10 -> <<Backslash, 110>>
    [] b \in {Backslash, 39, Quote} -> <<Backslash, b>>
    [] b \in (32..126) \ {Backslash, 39, Quote} -> <<b>>
    [] OTHER -> Octal(b)

Escaped(data) == FlattenSeq([i \in DOMAIN data |-> EscapedByte(data[i])])

Read(data) == [is |-> "bytes", data |-> data]
Refused == [is |-> "error"]
Panics == [is |-> "panic"]
Push(b, rest) == IF rest.is = "bytes" THEN Read(<<b>> \o rest.data) ELSE rest

\* Fault: at most two octal digits.
OctalDigitsTwo(text, p) == DigitsAt(text, p, 8, 2)
OctalDigits(text, p) == DigitsAt(text, p, 8, 3)

\* A position inside a character of more bytes than one.
InsideChar(text, p) == p <= Len(text) /\ text[p] \in 128..191

\* unescape_c_escape_string, from one position; "from" is what later positions give.
\* An octal number is summed in a u8: with "checked" arithmetic a sum above 255 panics,
\* otherwise it wraps.  Hexadecimal digits are a slice of a str, whose ends must be ends
\* of characters.
Unescaped(text, checked, from, p) ==
  LET hex == SubSeq(text, p + 2, p + 3)
      octal == OctalDigits(text, p + 1)
  IN CASE p = Len(text) + 1 -> Read(<< >>)
       [] p <= Len(text) /\ text[p] # Backslash -> Push(text[p], from[p + 1])
       [] p = Len(text) /\ text[p] = Backslash -> Refused
       [] p < Len(text) /\ text[p] = Backslash ->
            CASE text[p + 1] \in DOMAIN Escape -> Push(Escape[text[p + 1]], from[p + 2])
              [] text[p + 1] \in Digits(8) ->
                   IF Value(octal, 8) > 255 /\ checked THEN Panics
                   ELSE Push(Value(octal, 8) % 256, from[p + 1 + Len(octal)])
              [] text[p + 1] \in {88, 120} ->
                   IF p + 3 > Len(text) THEN Refused
                   ELSE IF InsideChar(text, p + 2) \/ InsideChar(text, p + 4) THEN Panics
                   ELSE IF hex[2] \in Digits(16) /\ hex[1] \in Digits(16) \cup {43}
                   THEN Push(Value(IF hex[1] = 43 THEN <<hex[2]>> ELSE hex, 16), from[p + 4])
                   ELSE Refused
              [] OTHER -> Refused

UnescapeC(text, checked) ==
  LET from[p \in 1..(Len(text) + 1)] == Unescaped(text, checked, from, p)
  IN from[1]

\* A numeric escape of the text format takes the digits there are, and must fit a byte.
LexNumber(text, from, at, base, most) ==
  LET digits == DigitsAt(text, at, base, most)
  IN IF digits = << >> \/ Value(digits, base) > 255 THEN Refused
     ELSE Push(Value(digits, base), from[at + Len(digits)])

\* The string of the text format's lexer, from one position (\u and \U, which the writer
\* does not use, left out).
Lexed(text, quote, from, p) ==
  CASE p = Len(text) + 1 -> Refused
    [] p <= Len(text) /\ text[p] \in {0, 10} -> Refused
    [] p <= Len(text) /\ text[p] = quote -> IF p = Len(text) THEN Read(<< >>) ELSE Refused
    [] p <= Len(text) /\ text[p] \notin {0, 10, quote, Backslash} -> Push(text[p], from[p + 1])
    [] p = Len(text) /\ text[p] = Backslash -> Refused
    [] p < Len(text) /\ text[p] = Backslash ->
         CASE text[p + 1] \in DOMAIN Escape -> Push(Escape[text[p + 1]], from[p + 2])
           [] text[p + 1] \in Digits(8) -> LexNumber(text, from, p + 1, 8, 3)
           [] text[p + 1] \in {88, 120} -> LexNumber(text, from, p + 2, 16, 2)
           [] OTHER -> Refused

\* The string after its opening quote.
LexString(text, quote) ==
  LET from[p \in 1..(Len(text) + 1)] == Lexed(text, quote, from, p)
  IN from[1]
=============================================================================
