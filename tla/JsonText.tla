------------------------------ MODULE JsonText ------------------------------
(***************************************************************************)
(* The parser and the printers of json/cJSON.c, on texts of tokens: the    *)
(* brackets, ",", ":", a string, an atom (a number, true, false or null)   *)
(* and white space.  Any allocation may fail: jt_budget is the number of   *)
(* those that succeed.                                                     *)
(*                                                                         *)
(* A run is one text that is parsed, printed and parsed again.  An item    *)
(* has its type, its key (string) if it is in an object, and its children; *)
(* it is allocated, and so are its key and its string value.               *)
(***************************************************************************)
EXTENDS Integers, Sequences, SequencesExt

CONSTANTS
  JsonTexts,     \* the texts
  MaxBudget,     \* bound: allocations before one fails
  TokenLength    \* the characters of each token

Tokens == {"[", "]", "{", "}", ",", ":", "string", "atom", " "}

ASSUME JsonTextAssumption ==
  /\ \A text \in JsonTexts : text \in Seq(Tokens)
  /\ MaxBudget \in Nat
  /\ TokenLength \in [Tokens -> Nat \ {0}] /\ \A t \in Tokens \ {"string", "atom"} : TokenLength[t] = 1

VARIABLES
  jt_pc,       \* "text", "parsed", "refused", "printed", "not_printed"
  jt_text,     \* the text
  jt_budget,
  jt_item,     \* the item that was parsed
  jt_live,     \* how much is allocated, beside what the caller had
  jt_room      \* history: was the room that the printer asked for enough?

jsonTextVars == <<jt_pc, jt_text, jt_budget, jt_item, jt_live, jt_room>>

NoItem == [type |-> "none", key |-> FALSE, children |-> <<>>]

JsonTextInit ==
  /\ jt_pc = "text"
  /\ jt_text \in JsonTexts
  /\ jt_budget \in 0 .. MaxBudget
  /\ jt_item = NoItem /\ jt_live = 0 /\ jt_room = TRUE

-----------------------------------------------------------------------------
At(text, i) == IF i <= Len(text) THEN text[i] ELSE "nul"

RECURSIVE skip(_, _)
skip(text, i) == IF i # 0 /\ At(text, i) = " " THEN skip(text, i + 1) ELSE i

(* A parsing function returns where it has come to (0 for a failure), the  *)
(* item as far as it was filled in, and the allocations made so far.       *)
Result(end, item, made) == [end |-> end, item |-> item, made |-> made]
Failure(item, made) == Result(0, item, made)

Blank == [type |-> "blank", key |-> FALSE, children |-> <<>>]

parse_string_token(text, i, item, made, budget) ==
  IF At(text, i) # "string" \/ made = budget
  THEN Failure(item, made)
  ELSE Result(i + 1, [item EXCEPT !.type = "string"], made + 1)

RECURSIVE parse_value(_, _, _, _, _), Elements(_, _, _, _, _)

(* The children of an array or an object from position i on: one at least, *)
(* and another after each comma.  A child hangs in its list before it is   *)
(* filled in.                                                              *)
Elements(text, i, made, budget, closing) ==
  LET object == closing = "}"
      name == parse_string_token(text, skip(text, i), Blank, made + 1, budget)
      colon == skip(text, name.end)
      named == [Blank EXCEPT !.key = object]
      value == IF object
               THEN parse_value(text, skip(text, colon + 1), named, name.made, budget)
               ELSE parse_value(text, skip(text, i), named, made + 1, budget)
      after == skip(text, value.end)
      rest == Elements(text, after + 1, value.made, budget, closing)
  IN  IF made = budget THEN Failure(<<>>, made)
      ELSE IF object /\ name.end = 0 THEN Failure(<<name.item>>, name.made)
      ELSE IF object /\ At(text, colon) # ":" THEN Failure(<<named>>, name.made)
      ELSE IF value.end = 0 THEN Failure(<<value.item>>, value.made)
      ELSE IF At(text, after) = "," THEN [rest EXCEPT !.item = <<value.item>> \o @]
      ELSE IF At(text, after) = closing THEN Result(after + 1, <<value.item>>, value.made)
      ELSE Failure(<<value.item>>, value.made)

(* parse_value with parse_array and parse_object                           *)
parse_value(text, i, item, made, budget) ==
  LET Fill(type, closing) ==
        LET opened == [item EXCEPT !.type = type]
            first == skip(text, i + 1)
            list == Elements(text, first, made, budget, closing)
        IN  IF At(text, first) = closing THEN Result(first + 1, opened, made)
            ELSE [list EXCEPT !.item = [opened EXCEPT !.children = @ \o list.item]]
  IN  IF i = 0 THEN Failure(item, made)
      ELSE CASE At(text, i) = "string" -> parse_string_token(text, i, item, made, budget)
             [] At(text, i) = "atom" -> Result(i + 1, [item EXCEPT !.type = "atom"], made)
             [] At(text, i) = "[" -> Fill("array", "]")
             [] At(text, i) = "{" -> Fill("object", "}")
             [] OTHER -> Failure(item, made)

(* What cJSON_Delete frees.                                                *)
RECURSIVE Allocated(_)
Allocated(item) ==
  1 + (IF item.key THEN 1 ELSE 0) + (IF item.type = "string" THEN 1 ELSE 0)
    + FoldLeft(LAMBDA n, child : n + Allocated(child), 0, item.children)

(* cJSON_ParseWithOpts(value, 0, terminated)                               *)
Parsed(text, budget, terminated) ==
  LET root == parse_value(text, skip(text, 1), Blank, 1, budget)
      ended == At(text, skip(text, root.end)) = "nul"
  IN  IF budget = 0 THEN [ok |-> FALSE, item |-> NoItem, live |-> 0]
      ELSE IF root.end = 0 \/ (terminated /\ ~ ended)
           THEN [ok |-> FALSE, item |-> NoItem, live |-> root.made - Allocated(root.item)]
           ELSE [ok |-> TRUE, item |-> root.item, live |-> root.made]

cJSON_Parse ==
  /\ jt_pc = "text"
  /\ \E terminated \in BOOLEAN :
       LET parsed == Parsed(jt_text, jt_budget, terminated)
       IN  /\ jt_pc' = IF parsed.ok THEN "parsed" ELSE "refused"
           /\ jt_item' = parsed.item
           /\ jt_live' = parsed.live
  /\ UNCHANGED <<jt_text, jt_budget, jt_room>>

-----------------------------------------------------------------------------
Characters(text) == FoldLeft(LAMBDA n, token : n + TokenLength[token], 0, text)
Blanks(n) == [k \in 1 .. n |-> " "]
Only(condition, tokens) == IF condition THEN tokens ELSE <<>>
Line(fmt) == Only(fmt, <<" ">>)

(* A printer asks ensure for room and writes; most writes end with a NUL,  *)
(* which the next one goes over.                                           *)
Piece(asked, tokens, nul) == <<[asked |-> asked, tokens |-> tokens, nul |-> nul]>>
Scalar(type) == Piece(TokenLength[type] + 1, <<type>>, 1)

(* The pieces of an item: fmt puts a blank behind a comma of an array and  *)
(* each member of an object on a line of its own, behind depth tabs.       *)
RECURSIVE print_value(_, _, _)
print_value(item, depth, fmt) ==
  LET n == Len(item.children)
      blanks == IF fmt THEN 1 ELSE 0
      Element(k) ==
        print_value(item.children[k], depth + 1, fmt)
        \o Only(k < n, Piece(blanks + 2, <<",">> \o Line(fmt), 1))
      Member(k) ==
        Only(fmt, Piece(depth + 1, Blanks(depth + 1), 0))
        \o Scalar("string") \o Piece(blanks + 1, <<":">> \o Line(fmt), 0)
        \o print_value(item.children[k], depth + 1, fmt)
        \o Piece(blanks + (IF k < n THEN 2 ELSE 1), Only(k < n, <<",">>) \o Line(fmt), 1)
  IN  CASE item.type \in {"string", "atom"} -> Scalar(item.type)
        [] item.type = "array" /\ n = 0 -> Piece(3, <<"[", "]">>, 1)
        [] item.type = "array" /\ n > 0 ->
             Piece(1, <<"[">>, 0) \o FlattenSeq([k \in 1 .. n |-> Element(k)]) \o Piece(2, <<"]">>, 1)
        [] item.type = "object" /\ n = 0 ->
             Piece(IF fmt THEN depth + 4 ELSE 3,
                   <<"{">> \o Line(fmt) \o Only(fmt /\ depth > 0, Blanks(depth - 1)) \o <<"}">>, 1)
        [] item.type = "object" /\ n > 0 ->
             Piece(blanks + 2, <<"{">> \o Line(fmt), 1)
             \o FlattenSeq([k \in 1 .. n |-> Member(k)])
             \o Piece(IF fmt THEN depth + 2 ELSE 2, Only(fmt, Blanks(depth)) \o <<"}">>, 1)

Rendered(item, depth, fmt) ==
  FlattenSeq([k \in DOMAIN print_value(item, depth, fmt) |-> print_value(item, depth, fmt)[k].tokens])

(* What print_array and print_object ask malloc for without a buffer, from *)
(* the lengths of what they put together.                                  *)
RoomFor(item, depth, fmt) ==
  LET blanks == IF fmt THEN 1 ELSE 0
      sizes == [k \in DOMAIN item.children |-> Characters(Rendered(item.children[k], depth + 1, fmt))]
      Total(each) == FoldLeft(LAMBDA a, size : a + size + each, 0, sizes)
  IN  CASE item.children = <<>> -> IF fmt /\ item.type = "object" THEN depth + 4 ELSE 3
        [] item.children # <<>> /\ item.type = "array" -> 5 + Total(2 + blanks)
        [] item.children # <<>> /\ item.type = "object" ->
             7 + blanks * (depth + 1)
               + Total(TokenLength["string"] + 2 + blanks * (2 + depth + 1))

RECURSIVE RoomIsEnough(_, _, _)
RoomIsEnough(item, depth, fmt) ==
  /\ item.type \in {"array", "object"} =>
       Characters(Rendered(item, depth, fmt)) < RoomFor(item, depth, fmt)
  /\ \A k \in DOMAIN item.children : RoomIsEnough(item.children[k], depth + 1, fmt)

PiecesFit(item, fmt) ==
  \A k \in DOMAIN print_value(item, 0, fmt) :
    LET piece == print_value(item, 0, fmt)[k]
    IN  Characters(piece.tokens) + piece.nul <= piece.asked

(* If an allocation fails, what was put together so far is freed; else the *)
(* text remains.                                                           *)
PrintItem(buffered) ==
  /\ jt_pc = "parsed"
  /\ \E fmt \in BOOLEAN, ok \in BOOLEAN :
       /\ jt_pc' = IF ok THEN "printed" ELSE "not_printed"
       /\ jt_text' = IF ok THEN Rendered(jt_item, 0, fmt) ELSE jt_text
       /\ jt_live' = jt_live + (IF ok THEN 1 ELSE 0)
       /\ jt_room' = IF buffered THEN PiecesFit(jt_item, fmt) ELSE RoomIsEnough(jt_item, 0, fmt)
  /\ UNCHANGED <<jt_budget, jt_item>>

cJSON_Print == PrintItem(FALSE)
cJSON_PrintBuffered == PrintItem(TRUE)

(* In place; what is in a string stays.                                    *)
cJSON_Minify ==
  /\ jt_pc = "printed"
  /\ jt_text' = SelectSeq(jt_text, LAMBDA token : token # " ")
  /\ UNCHANGED <<jt_pc, jt_budget, jt_item, jt_live, jt_room>>

JsonTextNext == cJSON_Parse \/ cJSON_Print \/ cJSON_PrintBuffered \/ cJSON_Minify

JsonTextSpec == JsonTextInit /\ [][JsonTextNext]_jsonTextVars

-----------------------------------------------------------------------------
(* A text that is refused, in the middle of whatever it had opened or for  *)
(* want of memory, leaves nothing allocated, and one that is taken has all *)
(* that was allocated in the tree that cJSON_Delete walks.                 *)
FailureFreesAll ==
  /\ jt_pc = "refused" => jt_live = 0
  /\ jt_pc \in {"parsed", "not_printed"} => jt_live = Allocated(jt_item)

(* What is printed, with either layout and from either printer, is parsed  *)
(* as the item that was printed, to the end of the text; so is what        *)
(* cJSON_Minify leaves of it.                                              *)
PrintParsesBack ==
  jt_pc = "printed" =>
    LET again == Parsed(jt_text, 100, TRUE) IN again.ok /\ again.item = jt_item

(* No printer writes more than it has asked for, at any depth.             *)
PrintFits == jt_room
=============================================================================
