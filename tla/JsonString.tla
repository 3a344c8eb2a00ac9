----------------------------- MODULE JsonString -----------------------------
(***************************************************************************)
(* The strings of json/cJSON.c, byte for byte: parse_string undoes the     *)
(* escapes of a JSON string, print_string_ptr puts them in.  Both measure  *)
(* first, allocate, and then write without looking at the room again.      *)
(*                                                                         *)
(* A run takes a C string, prints it and parses the print, or a JSON       *)
(* string, and parses it.  The JSON string is made of whole escapes, or it *)
(* is cut anywhere, in the middle of an escape too, by the end of the text *)
(* or by a quote, and something lies behind.                               *)
(***************************************************************************)
EXTENDS Integers, Sequences, SequencesExt

CONSTANTS
  CStrings,    \* the strings to print: sequences of bytes without a NUL
  Escapes,     \* the JSON strings: sequences of UTF-16 units, each written as a
               \* \u escape, and of bytes that are not, given as negative numbers
  Behind       \* what lies in the memory behind a text that is cut

quote == 34
backslash == 92
Bytes == 1 .. 255
Plain(u) == u < 0

ASSUME JsonStringAssumption ==
  /\ \A s \in CStrings : s \in Seq(Bytes)
  /\ \A s \in Escapes : s \in Seq(-127 .. 65535)
  /\ \A s \in Behind : s \in Seq(Bytes)

VARIABLES
  js_pc,        \* "c_string", "json", "printed", "parsed" or "reparsed"
  js_in,        \* the C string, or the memory from behind the opening quote on
  js_units,     \* history: what the JSON text was made of
  js_missing,   \* history: how many bytes of the last of them were cut off
  js_out,       \* what the last step wrote
  js_measured,  \* the bytes that it had allocated
  js_stop       \* where parse_string has stopped reading

jsonStringVars == <<js_pc, js_in, js_units, js_missing, js_out, js_measured, js_stop>>

-----------------------------------------------------------------------------
(* The bytes of a text; behind what is given they are 0.                   *)
ByteAt(text, i) == IF i <= Len(text) THEN text[i] ELSE 0
EndsAt(text, i) == ByteAt(text, i) \in {0, quote}

hex == <<48, 49, 50, 51, 52, 53, 54, 55, 56, 57, 97, 98, 99, 100, 101, 102>>
HexDigits(u) == <<hex[u \div 4096 + 1], hex[((u \div 256) % 16) + 1], hex[((u \div 16) % 16) + 1], hex[(u % 16) + 1]>>

HexValue(c) ==
  CASE c \in 48 .. 57 -> c - 48
    [] c \in 65 .. 70 -> c - 65 + 10
    [] c \in 97 .. 102 -> c - 97 + 10
    [] OTHER -> 16

(* 0 for anything that is not four hexadecimal digits                      *)
parse_hex4(s) ==
  IF \E k \in 1 .. 4 : HexValue(s[k]) = 16 THEN 0
  ELSE FoldLeft(LAMBDA h, c : 16 * h + HexValue(c), 0, s)

(* UTF-8: the first byte has firstByteMark, each other one six bits.       *)
Continuation(uc, shift) == 128 + ((uc \div shift) % 64)

(* a code point of two bytes is given one *)
Utf8TooEarly(uc) ==
  CASE uc < 2048 -> <<uc % 256>>
    [] uc \in 2048 .. 65535 ->
         <<224 + (uc \div 4096), Continuation(uc, 64), Continuation(uc, 1)>>
    [] OTHER ->
         <<240 + (uc \div 262144), Continuation(uc, 4096), Continuation(uc, 64), Continuation(uc, 1)>>

Utf8(uc) ==
  CASE uc < 128 -> <<uc>>
    [] uc \in 128 .. 2047 -> <<192 + (uc \div 64), Continuation(uc, 1)>>
    [] uc \in 2048 .. 65535 ->
         <<224 + (uc \div 4096), Continuation(uc, 64), Continuation(uc, 1)>>
    [] OTHER ->
         <<240 + (uc \div 262144), Continuation(uc, 4096), Continuation(uc, 64), Continuation(uc, 1)>>

High(u) == u \in 55296 .. 56319
Low(u) == u \in 56320 .. 57343
Pair(high, low) == 65536 + 1024 * (high % 1024) + (low % 1024)

(* Plain escapes: the letter and the byte it stands for.                   *)
Letters == <<<<98, 8>>, <<102, 12>>, <<110, 10>>, <<114, 13>>, <<116, 9>>>>
Unescaped(c) ==
  IF \E k \in DOMAIN Letters : Letters[k][1] = c
  THEN Letters[CHOOSE k \in DOMAIN Letters : Letters[k][1] = c][2] ELSE c

(* What the escape at the backslash text[i] writes, and the first position *)
(* behind it.  A unit that is 0 or a low surrogate writes nothing; neither *)
(* does a high one without its second half, which is read even if it is    *)
(* wrong.  Four digits are passed over, whether they are there or not.     *)
Escape(text, i) ==
  LET Here(k) == parse_hex4([d \in 1 .. 4 |-> ByteAt(text, k + d - 1)])
      uc == Here(i + 2)
      follows == ByteAt(text, i + 6) = backslash /\ ByteAt(text, i + 7) = 117
      second == Here(i + 8)
  IN  IF ByteAt(text, i + 1) # 117 THEN [out |-> <<Unescaped(ByteAt(text, i + 1))>>, next |-> i + 2]
      ELSE IF uc = 0 \/ Low(uc) THEN [out |-> <<>>, next |-> i + 6]
      ELSE IF ~ High(uc) THEN [out |-> Utf8(uc), next |-> i + 6]
      ELSE IF ~ follows THEN [out |-> <<>>, next |-> i + 6]
      ELSE IF ~ Low(second) THEN [out |-> <<>>, next |-> i + 12]
      ELSE [out |-> Utf8(Pair(uc, second)), next |-> i + 12]

RECURSIVE Unescape(_, _), Measure(_, _)

(* the loop that writes: what it writes, and where it stops                *)
Unescape(text, i) ==
  IF EndsAt(text, i) THEN [out |-> <<>>, stop |-> i]
  ELSE LET this == IF text[i] = backslash THEN Escape(text, i)
                   ELSE [out |-> <<text[i]>>, next |-> i + 1]
           others == Unescape(text, this.next)
       IN  [others EXCEPT !.out = this.out \o @]

(* the loop that measures: an escape counts once, its digits as they are   *)
Measure(text, i) ==
  IF EndsAt(text, i) THEN 0
  ELSE 1 + Measure(text, IF text[i] = backslash THEN i + 2 ELSE i + 1)

-----------------------------------------------------------------------------
(* print_string_ptr: a string without anything to escape is copied.        *)
Special == {Letters[k][2] : k \in DOMAIN Letters} \cup {quote, backslash}
Control(c) == c < 32

Escaped(c) ==
  IF c \in {quote, backslash} THEN <<backslash, c>>
  ELSE IF c \in Special
       THEN <<backslash, Letters[CHOOSE k \in DOMAIN Letters : Letters[k][2] = c][1]>>
  ELSE IF Control(c) THEN <<backslash, 117>> \o HexDigits(c)
  ELSE <<c>>

(* a control character is counted like the escapes of two characters *)
CostOfTwo(c) == IF c \in Special \/ Control(c) THEN 2 ELSE 1

Cost(c) == IF c \in Special THEN 2 ELSE IF Control(c) THEN 6 ELSE 1

Written(s) == <<quote>> \o FlattenSeq([k \in DOMAIN s |-> Escaped(s[k])]) \o <<quote>>
MeasuredPrint(s) == FoldLeft(LAMBDA n, c : n + Cost(c), 3, s)

(* A unit as it stands in a JSON text.                                     *)
CodeOf(u) == IF Plain(u) THEN Escaped(-u) ELSE <<backslash, 117>> \o HexDigits(u)
TextOf(units) == FlattenSeq([k \in DOMAIN units |-> CodeOf(units[k])])

JsonStringInit ==
  /\ js_out = <<>> /\ js_measured = 1 /\ js_stop = 0
  /\ \/ js_pc = "c_string" /\ js_in \in CStrings /\ js_units = <<>> /\ js_missing = 0
     \/ /\ js_pc = "json" /\ js_units \in Escapes
        /\ \/ js_missing = 0 /\ js_in = TextOf(js_units) \o <<quote>>
           \/ /\ js_units # <<>>
              /\ js_missing \in 1 .. Len(CodeOf(Last(js_units)))
              /\ \E end \in {0, quote}, behind \in Behind :
                   js_in = SubSeq(TextOf(js_units), 1, Len(TextOf(js_units)) - js_missing)
                             \o <<end>> \o behind

print_string_ptr ==
  /\ js_pc = "c_string"
  /\ js_pc' = "printed"
  /\ js_out' = Written(js_in)
  /\ js_measured' = MeasuredPrint(js_in)
  /\ UNCHANGED <<js_in, js_units, js_missing, js_stop>>

parse_string ==
  /\ js_pc \in {"json", "printed"}
  /\ js_pc' = IF js_pc = "json" THEN "parsed" ELSE "reparsed"
  /\ LET text == IF js_pc = "json" THEN js_in ELSE Tail(js_out)
     IN  /\ js_out' = Unescape(text, 1).out
         /\ js_stop' = Unescape(text, 1).stop
         /\ js_measured' = Measure(text, 1) + 1
  /\ UNCHANGED <<js_in, js_units, js_missing>>

JsonStringNext == print_string_ptr \/ parse_string
JsonStringSpec == JsonStringInit /\ [][JsonStringNext]_jsonStringVars

-----------------------------------------------------------------------------
(* Whatever is in a C string, quotes, backslashes and control characters,  *)
(* comes back when its print is parsed.                                    *)
StringComesBack == js_pc = "reparsed" => js_out = js_in

(* How the last escape was cut: after its \u, or after its backslash.      *)
DigitsMissing == js_missing \in 1 .. 4 /\ ~ Plain(Last(js_units))
LoneBackslash == js_missing # 0 /\ js_missing = Len(CodeOf(Last(js_units))) - 1

(* What is written, with its NUL, has the room that was measured, and the  *)
(* reading stops where the text ends, unless it ends within an escape: a   *)
(* backslash takes the end for its second character, in both loops, and a  *)
(* \u takes it for a digit, in the loop that writes alone, which has no    *)
(* room for what it goes on with.                                          *)
StringFits ==
  /\ Len(js_out) < js_measured \/ (js_pc = "parsed" /\ DigitsMissing)
  /\ js_pc = "parsed" =>
       (js_stop = Len(TextOf(js_units)) - js_missing + 1 <=> ~ DigitsMissing /\ ~ LoneBackslash)

(* The code points of a JSON string: a pair of surrogates is one, a unit   *)
(* without its half none.                                                  *)
RECURSIVE CodePoints(_)
CodePoints(units) ==
  IF units = <<>> THEN <<>>
  ELSE IF Plain(units[1]) THEN <<-units[1]>> \o CodePoints(Tail(units))
  ELSE LET u == units[1]
           v == IF Len(units) > 1 THEN units[2] ELSE -1
       IN  IF High(u) /\ ~ Plain(v)
           THEN (IF Low(v) THEN <<Pair(u, v)>> ELSE <<>>) \o CodePoints(Tail(Tail(units)))
           ELSE (IF u = 0 \/ High(u) \/ Low(u) THEN <<>> ELSE <<u>>) \o CodePoints(Tail(units))

(* UTF-8 as it is defined: how many bytes follow, and the bits of each.    *)
RECURSIVE Decoded(_)
Decoded(s) ==
  IF s = <<>> THEN <<>>
  ELSE LET n == CASE s[1] < 128 -> 0 [] s[1] \in 192 .. 223 -> 1
                  [] s[1] \in 224 .. 239 -> 2 [] s[1] \in 240 .. 247 -> 3
                  [] OTHER -> Len(s)
           lead == CASE n = 0 -> s[1] [] n = 1 -> s[1] - 192
                     [] n = 2 -> s[1] - 224 [] n = 3 -> s[1] - 240 [] OTHER -> 0
       IN  IF n >= Len(s) \/ \E k \in 2 .. n + 1 : s[k] \notin 128 .. 191 THEN <<-1>>
           ELSE <<FoldLeft(LAMBDA p, c : 64 * p + c - 128, lead, SubSeq(s, 2, n + 1))>>
                \o Decoded(SubSeq(s, n + 2, Len(s)))

(* The \u escapes become the UTF-8 of their code points, at the edges of   *)
(* every length.                                                           *)
UnitsBecomeUtf8 == js_pc = "parsed" /\ js_missing = 0 => Decoded(js_out) = CodePoints(js_units)
=============================================================================
