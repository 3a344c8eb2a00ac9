------------------------------- MODULE Base64 -------------------------------
(***************************************************************************)
(* cutil/base64.c: bytes to letters and back.  A letter is the number of   *)
(* its place in basis_64, 0 .. 63; anything else in a text ("=", the NUL,  *)
(* a blank) is Other, where decoding stops.                                *)
(*                                                                         *)
(* A run encodes a sequence of bytes and decodes what it got, or decodes a *)
(* text from elsewhere.                                                    *)
(***************************************************************************)
EXTENDS Integers, Sequences, SequencesExt

CONSTANTS Plains, Coded    \* the sequences of bytes and the texts

Other == 64

ASSUME Base64Assumption ==
  /\ \A s \in Plains : s \in Seq(0 .. 255)
  /\ \A t \in Coded : t \in Seq(0 .. 64)

VARIABLES
  b6_pc,       \* "plain", "coded", "encoded", "decoded" or "returned"
  b6_plain,    \* the bytes
  b6_coded,    \* the text
  b6_written,  \* the bytes that the last step wrote, with the NUL
  b6_room,     \* what it had allocated for them
  b6_result    \* the length it returned

base64Vars == <<b6_pc, b6_plain, b6_coded, b6_written, b6_room, b6_result>>

Base64Init ==
  /\ \/ b6_pc = "plain" /\ b6_plain \in Plains /\ b6_coded = <<>>
     \/ b6_pc = "coded" /\ b6_plain = <<>> /\ b6_coded \in Coded
  /\ b6_written = 0 /\ b6_room = 0 /\ b6_result = 0

-----------------------------------------------------------------------------
apr_base64_encode_len(n) == ((n + 2) \div 3) * 4 + 1

(* Three bytes are four letters; one or two at the end are filled up with  *)
(* zero bits and "=".                                                      *)
Group(s, i) ==
  LET a == s[i]
      b == IF i + 1 <= Len(s) THEN s[i + 1] ELSE 0
      c == IF i + 2 <= Len(s) THEN s[i + 2] ELSE 0
  IN  <<a \div 4,
        16 * (a % 4) + (b \div 16),
        IF i + 1 <= Len(s) THEN 4 * (b % 16) + (c \div 64) ELSE Other,
        IF i + 2 <= Len(s) THEN c % 64 ELSE Other>>

apr_base64_encode_binary(s) ==
  FlattenSeq([k \in 1 .. (Len(s) + 2) \div 3 |-> Group(s, 3 * k - 2)])

(* How many letters stand at the beginning of a text.                      *)
nprbytes(text) == Len(SelectSeq([k \in DOMAIN text |-> \A j \in 1 .. k : text[j] <= 63], LAMBDA x : x))

apr_base64_decode_len(text) == ((nprbytes(text) + 3) \div 4) * 3 + 1

(* The j-th letter of four gives the rest of its bits to the next byte; a  *)
(* letter alone at the end gives none.                                     *)
Byte(text, k) ==
  LET i == 4 * ((k - 1) \div 3) + ((k - 1) % 3) + 1
  IN  CASE (k - 1) % 3 = 0 -> 4 * text[i] + (text[i + 1] \div 16)
        [] (k - 1) % 3 = 1 -> 16 * (text[i] % 16) + (text[i + 1] \div 4)
        [] (k - 1) % 3 = 2 -> 64 * (text[i] % 4) + text[i + 1]

(* the last four letters are one of the groups before the end *)
BytesWritten(text) ==
  LET n == nprbytes(text)
      full == IF n = 0 THEN 0 ELSE (n - 1) \div 4
      left == n - 4 * full
  IN  3 * full + (IF left > 1 THEN left - 1 ELSE 0)

apr_base64_decode_binary(text) == [k \in 1 .. BytesWritten(text) |-> Byte(text, k)]

(* nbytesdecoded *)
Decoded64(text) ==
  LET n == nprbytes(text)
      left == IF n = 0 THEN 0 ELSE ((n - 1) % 4) + 1
  IN  ((n + 3) \div 4) * 3 - ((4 - left) % 4)

b64_encode ==
  /\ b6_pc = "plain"
  /\ b6_pc' = "encoded"
  /\ b6_coded' = apr_base64_encode_binary(b6_plain)
  /\ b6_written' = Len(b6_coded') + 1
  /\ b6_result' = b6_written'
  /\ b6_room' = apr_base64_encode_len(Len(b6_plain)) + 1
  /\ UNCHANGED b6_plain

(* The NUL is put at the length that is returned.                          *)
b64_decode ==
  /\ b6_pc \in {"coded", "encoded"}
  /\ b6_pc' = IF b6_pc = "encoded" THEN "returned" ELSE "decoded"
  /\ b6_result' = Decoded64(b6_coded)
  /\ b6_written' = BytesWritten(b6_coded) + 1
  /\ b6_room' = apr_base64_decode_len(b6_coded) + 1
  /\ UNCHANGED <<b6_plain, b6_coded>>

Base64Next == b64_encode \/ b64_decode
Base64Spec == Base64Init /\ [][Base64Next]_base64Vars

-----------------------------------------------------------------------------
(* The bytes come back, whatever remains of a group at the end; the C      *)
(* string that b64_decode returns ends at the first NUL among them.        *)
DecodesTheSame ==
  b6_pc = "returned" =>
    /\ apr_base64_decode_binary(b6_coded) = b6_plain
    /\ b6_result = Len(b6_plain)

(* For a text of any length and with anything in it, what is written stays *)
(* within the room and the length returned is the number of bytes written: *)
(* the NUL goes where the bytes end.                                       *)
DecodeFits ==
  /\ b6_written < b6_room \/ b6_room = 0
  /\ b6_pc \in {"decoded", "returned"} => b6_result = b6_written - 1
=============================================================================
