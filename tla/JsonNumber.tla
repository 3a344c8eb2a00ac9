----------------------------- MODULE JsonNumber -----------------------------
(***************************************************************************)
(* The numbers of json/cJSON.c: parse_number reads one, print_number       *)
(* writes it with one of four formats.                                     *)
(*                                                                         *)
(* A number is a decimal: a sign, digits of which neither the first nor    *)
(* the last is 0, and a power of ten; 0 has no digits.  The numbers that   *)
(* are read have at most fifteen digits, so that a double tells them       *)
(* apart; what its arithmetic does to the sixteenth digit is left out.     *)
(***************************************************************************)
EXTENDS Integers, Sequences, FiniteSets, SequencesExt

CONSTANT Numbers   \* the texts: characters, digits as 0 .. 9

point == 10
e == 11
minus == 12
plus == 13

Digit == 0 .. 9

ASSUME JsonNumberAssumption == \A text \in Numbers : text \in Seq(Digit \cup {point, e, minus, plus})

VARIABLES
  jn_pc,     \* "text", "parsed", "printed" or "reparsed"
  jn_text,   \* the text
  jn_item,   \* valuedouble
  jn_left,   \* how much parse_number has left of the text
  jn_room,   \* what print_number has asked for
  jn_printed, jn_again   \* history: what was printed, and whether it came from a print

jsonNumberVars == <<jn_pc, jn_text, jn_item, jn_left, jn_room, jn_printed, jn_again>>

Zero == [neg |-> FALSE, digits |-> <<>>, power |-> 0]

JsonNumberInit ==
  /\ jn_pc = "text" /\ jn_text \in Numbers
  /\ jn_item = Zero /\ jn_printed = Zero
  /\ jn_left = 0 /\ jn_room = 64 /\ jn_again = FALSE

-----------------------------------------------------------------------------
Decimal(neg, digits, power) ==
  LET some == {k \in DOMAIN digits : digits[k] # 0}
      first == CHOOSE k \in some : \A j \in some : k <= j
      last == CHOOSE k \in some : \A j \in some : k >= j
  IN  IF some = {} THEN Zero
      ELSE [neg |-> neg, digits |-> SubSeq(digits, first, last), power |-> power + Len(digits) - last]

(* The digits of a text from position i on.                                *)
CharAt(text, i) == IF i <= Len(text) THEN text[i] ELSE -1
EndOfDigits(text, i) ==
  CHOOSE j \in i .. Len(text) + 1 :
    CharAt(text, j) \notin Digit /\ \A k \in i .. j - 1 : text[k] \in Digit
Number(digits) == FoldLeft(LAMBDA n, d : 10 * n + d, 0, digits)

(* A zero in front is passed over, and digits behind it only from 1 on.    *)
ParsedNumber(text) ==
  LET sign == IF CharAt(text, 1) = minus THEN 2 ELSE 1
      int == IF CharAt(text, sign) = 0 THEN sign + 1 ELSE sign
      dot == IF CharAt(text, int) \in 1 .. 9 THEN EndOfDigits(text, int) ELSE int
      fraction == CharAt(text, dot) = point /\ CharAt(text, dot + 1) \in Digit
      exp == IF fraction THEN EndOfDigits(text, dot + 1) ELSE dot
      subscale == IF CharAt(text, exp + 1) \in {plus, minus} THEN exp + 2 ELSE exp + 1
      end == IF CharAt(text, exp) = e THEN EndOfDigits(text, subscale) ELSE exp
      signsubscale == IF CharAt(text, exp + 1) = minus THEN -1 ELSE 1
      digits == SelectSeq(SubSeq(text, int, exp - 1), LAMBDA c : c # point)
      scale == IF fraction THEN exp - dot - 1 ELSE 0
  IN  [number |-> Decimal(sign = 2, digits,
                          (IF CharAt(text, exp) = e
                           THEN signsubscale * Number(SubSeq(text, subscale, end - 1)) ELSE 0) - scale),
       left |-> Len(text) + 1 - end]

parse_number ==
  /\ jn_pc \in {"text", "printed"}
  /\ jn_pc' = IF jn_pc = "text" THEN "parsed" ELSE "reparsed"
  /\ jn_item' = ParsedNumber(jn_text).number
  /\ jn_left' = ParsedNumber(jn_text).left
  /\ UNCHANGED <<jn_text, jn_room, jn_printed, jn_again>>

-----------------------------------------------------------------------------
(* How many digits are left of the point; the order of two numbers without *)
(* their signs.                                                            *)
Magnitude(x) == Len(x.digits) + x.power

AtMost(x, y) ==
  IF Magnitude(x) # Magnitude(y) THEN Magnitude(x) < Magnitude(y)
  ELSE LET differ == {k \in DOMAIN x.digits \cap DOMAIN y.digits : x.digits[k] # y.digits[k]}
           k == CHOOSE j \in differ : \A i \in differ : j <= i
       IN  IF differ = {} THEN Len(x.digits) <= Len(y.digits) ELSE x.digits[k] < y.digits[k]

PowerOfTen(n) == Decimal(FALSE, <<1>>, n)
DBL_EPSILON == Decimal(FALSE, <<2, 2, 2, 0, 4, 4, 6, 0, 4, 9, 2, 5, 0, 3, 1>>, -30)
INT_MAX == Decimal(FALSE, <<2, 1, 4, 7, 4, 8, 3, 6, 4, 7>>, 0)
INT_MIN == Decimal(TRUE, <<2, 1, 4, 7, 4, 8, 3, 6, 4, 8>>, 0)

Integral(x) == x.power >= 0

(* valueint is 0 for what is so small that it passes for an integer.       *)
Tiny(x) == AtMost(x, DBL_EPSILON)
IsInt(x) == Tiny(x) \/ (Integral(x) /\ AtMost(x, IF x.neg THEN INT_MIN ELSE INT_MAX))

Zeros(n) == [k \in 1 .. n |-> 0]
Sign(x) == IF x.neg THEN <<minus>> ELSE <<>>

(* One more in the last place.                                             *)
AddOne(digits) ==
  LET carried == {k \in DOMAIN digits : \A j \in k .. Len(digits) : digits[j] = 9}
      at == Len(digits) - Cardinality(carried)
  IN  IF at = 0 THEN <<1>> \o Zeros(Len(digits))
      ELSE [k \in DOMAIN digits |-> IF k < at THEN digits[k] ELSE IF k = at THEN digits[k] + 1 ELSE 0]

(* The digits before the last n, rounded up or not: a half may go either   *)
(* way, as the double lies beside it.                                      *)
Roundings(digits, n) ==
  LET dropped == SubSeq(digits, Len(digits) - n + 1, Len(digits))
  IN  IF dropped = <<5>> THEN BOOLEAN ELSE {n > 0 /\ dropped[1] >= 5}

RoundedTo(digits, n) ==
  LET kept == SubSeq(digits, 1, Len(digits) - n)
  IN  {IF up THEN AddOne(kept) ELSE kept : up \in Roundings(digits, n)}

(* %f: six digits behind the point.                                        *)
PrintF(x) ==
  LET digits == Zeros(1 - Magnitude(x)) \o x.digits \o Zeros(x.power + 6)
      Text(s) ==
        Sign(x) \o SubSeq(s, 1, Len(s) - 6) \o <<point>> \o SubSeq(s, Len(s) - 5, Len(s))
  IN  {Text(s) : s \in RoundedTo(digits, IF x.power < -6 THEN -6 - x.power ELSE 0)}

(* %e: seven digits and the power of ten, of two digits or three.          *)
PrintE(x) ==
  LET digits == x.digits \o Zeros(7 - Len(x.digits))
      Text(s) ==
        LET power == Magnitude(x) - 1 + Len(s) - 7
            size == IF power < 0 THEN -power ELSE power
        IN  Sign(x) \o <<s[1], point>> \o SubSeq(s, 2, 7)
            \o <<e, IF power < 0 THEN minus ELSE plus>>
            \o SelectSeq(<<size \div 100>>, LAMBDA d : d # 0)
            \o <<(size \div 10) % 10, size % 10>>
  IN  {Text(s) : s \in RoundedTo(digits, Len(digits) - 7)}

PrintInteger(x) == Sign(x) \o x.digits \o Zeros(x.power)

(* What is too small for the one format, or too large, gets the other.     *)
PrintFraction(x) ==
  IF ~ AtMost(PowerOfTen(-6), x) \/ ~ AtMost(x, PowerOfTen(9)) THEN PrintE(x) ELSE PrintF(x)

print_number ==
  /\ jn_pc \in {"parsed", "reparsed"} /\ jn_left = 0
  /\ jn_pc' = "printed"
  /\ jn_again' = (jn_pc = "reparsed")
  /\ jn_printed' = jn_item
  /\ LET d == jn_item
     IN  \/ d.digits = <<>> /\ jn_room' = 2 /\ jn_text' = <<0>>
         \/ /\ d.digits # <<>> /\ IsInt(d)
            /\ jn_room' = 21
            /\ jn_text' = IF Tiny(d) THEN <<0>> ELSE PrintInteger(d)
         \/ /\ d.digits # <<>> /\ ~ IsInt(d)
            /\ jn_room' = 64
            /\ jn_text' \in IF Integral(d) /\ ~ AtMost(PowerOfTen(60), d)
                            THEN {PrintInteger(d)} ELSE PrintFraction(d)
  /\ UNCHANGED <<jn_item, jn_left>>

JsonNumberNext == parse_number \/ print_number

JsonNumberSpec == JsonNumberInit /\ [][JsonNumberNext]_jsonNumberVars

-----------------------------------------------------------------------------
(* How far two numbers are apart in units of 10^n, as far as it is little. *)
Place(x, n) == IF Magnitude(x) - n \in DOMAIN x.digits THEN x.digits[Magnitude(x) - n] ELSE 0

Apart(x, y, n) ==
  LET top == IF Magnitude(x) > Magnitude(y) THEN Magnitude(x) ELSE Magnitude(y)
      Next(d, k) == IF d \in -99 .. 99 THEN 10 * d + Place(x, top - k) - Place(y, top - k) ELSE d
  IN  FoldLeftDomain(Next, 0, Zeros(top - n))

(* A number that is printed is read to its end.  It comes back as it was   *)
(* if it is an integer below 10^60, if it has at most six digits behind    *)
(* the point and is not above 10^9, or if it was printed before: a value   *)
(* changes the first time only.  Then it changes by half of 10^-6 at most  *)
(* between 10^-6 and 10^9, and by half of the seventh digit elsewhere; but *)
(* what is not above DBL_EPSILON becomes 0.                                *)
NumberComesBack ==
  jn_pc = "reparsed" =>
    LET x == jn_printed
        exact == \/ jn_again
                 \/ Integral(x) /\ Magnitude(x) <= 60
                 \/ x.power >= -6 /\ AtMost(x, PowerOfTen(9))
        unit == IF AtMost(PowerOfTen(-6), x) /\ AtMost(x, PowerOfTen(9))
                THEN -7 ELSE Magnitude(x) - 8
    IN  /\ jn_left = 0
        /\ exact => jn_item = x
        /\ ~ exact /\ ~ Tiny(x) => jn_item.neg = x.neg /\ Apart(x, jn_item, unit) \in -5 .. 5
        /\ Tiny(x) => jn_item.digits = <<>>

(* What is printed has, with its NUL, the room that was asked for.         *)
NumberFits == jn_pc = "printed" => Len(jn_text) < jn_room
=============================================================================
