----------------------------- MODULE MCHandlers -----------------------------
(* What a request goes through, for TLC: the subject of a behaviour is one *)
(* of the components that a handler is made of, or one of the texts that   *)
(* are read and written, JSON, base64 and the log.                         *)
EXTENDS Handlers, JsonText, JsonString, JsonItems, Base64, JsonNumber, Log

\* two scores of one scene, a score without points, one without a text;
\* scenes with a credit and a name each, and one without either
MCScoreRows ==
  {[scene |-> 1, points |-> 40, json |-> TRUE], [scene |-> 1, points |-> 95, json |-> TRUE],
   [scene |-> 2, points |-> Null, json |-> TRUE], [scene |-> 2, points |-> 95, json |-> FALSE]}
MCSceneTables ==
  {[scene \in 1 .. 3 |-> [credit |-> 4 - scene, name |-> TRUE]],
   <<[credit |-> 0, name |-> TRUE], [credit |-> Null, name |-> FALSE], [credit |-> 2, name |-> TRUE]>>}
MCStack == {[fscore |-> 300, credit |-> 7, wild |-> w] : w \in BOOLEAN}

MCObjects ==
  {<<>>, [orderno |-> "1"], [orderdate |-> "1"], [username |-> "w"], [username |-> "NULL"],
   [orderno |-> "1", username |-> "2"]}
MCRows == <<[orderno |-> "1", username |-> "1"], [orderno |-> "1", username |-> "2"]>>

MCCardRows == <<[cardid |-> "1", cardsn |-> "7"], [cardid |-> "1", cardsn |-> "x"]>>

MCTexts ==
  {[k \in 1 .. n |-> IF k < n THEN "text" ELSE last] :
     n \in {2, 5}, last \in {"text", "comma", "close"}}
  \cup {<<"text">>}

\* JSON of tokens: nested to a depth of two, with blanks, and cut in the middle
MCTokens == {"[", "]", "{", "}", ",", ":", "string", "atom", " "}
MCTokenLength == [t \in MCTokens |-> IF t = "string" THEN 3 ELSE IF t = "atom" THEN 4 ELSE 1]
Leaf == {<<"atom">>, <<"string">>, <<"{", "}">>}
Member(v) == <<"string", ":">> \o v
Nest(S) ==
  S \cup {<<"[">> \o a \o <<"]">> : a \in S}
    \cup {<<"[">> \o a \o <<",", " ">> \o b \o <<"]">> : a \in S, b \in Leaf}
    \cup {<<"{">> \o Member(a) \o <<",">> \o Member(b) \o <<"}">> : a \in Leaf, b \in S}
Cut(S) == UNION {{SubSeq(t, 1, n) \o SubSeq(t, n + 2, Len(t)) : n \in 0 .. Len(t) - 1} : t \in S}
MCJsonTexts == {<<>>} \cup Nest(Nest(Leaf)) \cup Cut(Nest(Leaf))

\* bytes of every kind: controls, with an escape of their own or not, the
\* quote, the backslash and others; units at the limits of the UTF-8 lengths
\* and of the surrogates
MCCStrings == UNION {[1 .. n -> {1, 8, 31, 34, 92, 97}] : n \in 0 .. 3}
MCUnits == {0, 65, 127, 128, 2047, 2048, 55295, 55296, 56319, 56320, 57343, 57344, 65535}
MCEscapes == UNION {[1 .. n -> {-10, -98} \cup MCUnits] : n \in 0 .. 2}
             \cup {<<u, 56320, v>> : u, v \in MCUnits}
\* nothing; the next strings of the text; an escape
MCBehind == {<<>>, <<44, 34, 97, 98, 99, 100, 101, 102, 103, 104, 34>>,
             <<97, 98, 99, 92, 110, 92, 117, 48, 48, 101, 57, 97>>}

MCPlains == UNION {[1 .. n -> {0, 170, 255}] : n \in 1 .. 5}
MCCoded == UNION {[1 .. n -> {0, 37, 64}] : n \in 0 .. 6}

\* numbers at the limits of an int and of the six digits behind a point, with
\* powers of ten at the limits of the formats
MCIntegers ==
  {<<0>>, <<7>>, <<1>> \o [k \in 1 .. 8 |-> IF k = 8 THEN 5 ELSE 0], [k \in 1 .. 8 |-> 9],
   <<1>> \o [k \in 1 .. 9 |-> 0]}
  \cup {<<2, 1, 4, 7, 4, 8, 3, 6, 4, d>> : d \in {7, 8, 9}}
MCFractions ==
  {<<>>, <<point, 5>>, <<point, 0, 0, 0, 0, 0, 1>>, <<point, 0, 0, 0, 0, 0, 0, 5>>}
  \cup {<<point>> \o [k \in 1 .. 7 |-> 9]}
MCExponents ==
  {<<>>, <<e, 9>>, <<e, 5, 9>>, <<e, plus, 6, 0>>, <<e, minus, 7>>, <<e, minus, 1, 6>>,
   <<e, minus, 1, 0, 7>>}
MCNumbers ==
  {s \o i \o f \o x : s \in {<<>>, <<minus>>}, i \in MCIntegers, f \in MCFractions, x \in MCExponents}

VARIABLE subject   \* the component that is looked at

vars == <<subject, scoresVars, ordersVars, cardsVars, repliesVars,
          sceneListsVars, jsonTextVars, jsonStringVars, jsonItemsVars,
          base64Vars, jsonNumberVars, scoreRangesVars, sceneStatisticsVars,
          logVars>>

(* A component that is not looked at stays in one of its initial states.    *)
Init ==
  /\ subject \in {"Scores", "Orders", "Cards", "Replies", "SceneLists",
                  "JsonText", "JsonString", "JsonItems", "Base64",
                  "JsonNumber", "ScoreRanges", "SceneStatistics", "Log"}
  /\ IF subject = "Scores" THEN TRUE
     ELSE /\ sc_rows = <<>> /\ sc_scenes = CHOOSE scenes \in SceneTables : TRUE
          /\ sc_stack = CHOOSE stack \in Stack : TRUE
  /\ ScoresInit
  /\ OrdersInit
  /\ CardsInit
  /\ IF subject = "Replies" THEN TRUE
     ELSE /\ mb_cap = 1 /\ file = CHOOSE f \in DOMAIN Handlers_in : TRUE
          /\ handler = CHOOSE h \in Handlers_in[file] : TRUE
          /\ script = CHOOSE s \in Scripts[handler] : TRUE
  /\ RepliesInit
  /\ IF subject = "SceneLists" THEN TRUE
     ELSE sl_kind = "status" /\ sl_rows = <<>>
  /\ SceneListsInit
  /\ IF subject = "JsonText" THEN TRUE
     ELSE jt_text = <<>> /\ jt_budget = 0
  /\ JsonTextInit
  /\ IF subject = "JsonString" THEN TRUE
     ELSE js_pc = "c_string" /\ js_in = <<>>
  /\ JsonStringInit
  /\ JsonItemsInit
  /\ IF subject = "Base64" THEN TRUE
     ELSE b6_pc = "plain" /\ b6_plain = <<0>>
  /\ Base64Init
  /\ IF subject = "JsonNumber" THEN TRUE
     ELSE jn_text = <<0>>
  /\ JsonNumberInit
  /\ IF subject = "ScoreRanges" THEN TRUE
     ELSE sr_rows = <<>>
  /\ ScoreRangesInit
  /\ IF subject = "SceneStatistics" THEN TRUE
     ELSE sg_pc = "done" /\ sg_rows = [kind \in Kinds |-> <<>>]
  /\ SceneStatisticsInit
  /\ LogInit

Next ==
  \/ /\ subject = "Scores" /\ ScoresNext
     /\ UNCHANGED <<subject, ordersVars, cardsVars, repliesVars,
                  sceneListsVars, jsonTextVars, jsonStringVars,
                  jsonItemsVars, base64Vars, jsonNumberVars,
                  scoreRangesVars, sceneStatisticsVars, logVars>>
  \/ /\ subject = "Orders" /\ OrdersNext
     /\ UNCHANGED <<subject, scoresVars, cardsVars, repliesVars,
                  sceneListsVars, jsonTextVars, jsonStringVars,
                  jsonItemsVars, base64Vars, jsonNumberVars,
                  scoreRangesVars, sceneStatisticsVars, logVars>>
  \/ /\ subject = "Cards" /\ CardsNext
     /\ UNCHANGED <<subject, scoresVars, ordersVars, repliesVars,
                  sceneListsVars, jsonTextVars, jsonStringVars,
                  jsonItemsVars, base64Vars, jsonNumberVars,
                  scoreRangesVars, sceneStatisticsVars, logVars>>
  \/ /\ subject = "Replies" /\ RepliesNext
     /\ UNCHANGED <<subject, scoresVars, ordersVars, cardsVars,
                  sceneListsVars, jsonTextVars, jsonStringVars,
                  jsonItemsVars, base64Vars, jsonNumberVars,
                  scoreRangesVars, sceneStatisticsVars, logVars>>
  \/ /\ subject = "SceneLists" /\ SceneListsNext
     /\ UNCHANGED <<subject, scoresVars, ordersVars, cardsVars, repliesVars,
                  jsonTextVars, jsonStringVars, jsonItemsVars, base64Vars,
                  jsonNumberVars, scoreRangesVars, sceneStatisticsVars,
                  logVars>>
  \/ /\ subject = "JsonText" /\ JsonTextNext
     /\ UNCHANGED <<subject, scoresVars, ordersVars, cardsVars, repliesVars,
                  sceneListsVars, jsonStringVars, jsonItemsVars, base64Vars,
                  jsonNumberVars, scoreRangesVars, sceneStatisticsVars,
                  logVars>>
  \/ /\ subject = "JsonString" /\ JsonStringNext
     /\ UNCHANGED <<subject, scoresVars, ordersVars, cardsVars, repliesVars,
                  sceneListsVars, jsonTextVars, jsonItemsVars, base64Vars,
                  jsonNumberVars, scoreRangesVars, sceneStatisticsVars,
                  logVars>>
  \/ /\ subject = "JsonItems" /\ JsonItemsNext
     /\ UNCHANGED <<subject, scoresVars, ordersVars, cardsVars, repliesVars,
                  sceneListsVars, jsonTextVars, jsonStringVars, base64Vars,
                  jsonNumberVars, scoreRangesVars, sceneStatisticsVars,
                  logVars>>
  \/ /\ subject = "Base64" /\ Base64Next
     /\ UNCHANGED <<subject, scoresVars, ordersVars, cardsVars, repliesVars,
                  sceneListsVars, jsonTextVars, jsonStringVars,
                  jsonItemsVars, jsonNumberVars, scoreRangesVars,
                  sceneStatisticsVars, logVars>>
  \/ /\ subject = "JsonNumber" /\ JsonNumberNext
     /\ UNCHANGED <<subject, scoresVars, ordersVars, cardsVars, repliesVars,
                  sceneListsVars, jsonTextVars, jsonStringVars,
                  jsonItemsVars, base64Vars, scoreRangesVars,
                  sceneStatisticsVars, logVars>>
  \/ /\ subject = "ScoreRanges" /\ ScoreRangesNext
     /\ UNCHANGED <<subject, scoresVars, ordersVars, cardsVars, repliesVars,
                  sceneListsVars, jsonTextVars, jsonStringVars,
                  jsonItemsVars, base64Vars, jsonNumberVars,
                  sceneStatisticsVars, logVars>>
  \/ /\ subject = "SceneStatistics" /\ SceneStatisticsNext
     /\ UNCHANGED <<subject, scoresVars, ordersVars, cardsVars, repliesVars,
                  sceneListsVars, jsonTextVars, jsonStringVars,
                  jsonItemsVars, base64Vars, jsonNumberVars,
                  scoreRangesVars, logVars>>
  \/ /\ subject = "Log" /\ LogNext
     /\ UNCHANGED <<subject, scoresVars, ordersVars, cardsVars, repliesVars,
                  sceneListsVars, jsonTextVars, jsonStringVars,
                  jsonItemsVars, base64Vars, jsonNumberVars,
                  scoreRangesVars, sceneStatisticsVars>>

Spec == Init /\ [][Next]_vars

(* The score query and no other component.                                 *)
ScoresAlone == Init /\ subject = "Scores" /\ [][Next]_vars

-----------------------------------------------------------------------------
(* Whatever is parsed, printed, detached, replaced, duplicated or refused  *)
(* for want of memory, a JSON item has one owner and its children are the  *)
(* ones that the calls gave it, in their order (cJSON.c).                  *)
JsonKept == ChildrenInOrder /\ ItemsOwnedOnce /\ FailureFreesAll

(* What was written is read back as it was: strings and their escapes,     *)
(* numbers as far as their format has room, JSON texts, base64 (cJSON.c,   *)
(* base64.c).                                                              *)
WrittenIsReadBack ==
  StringComesBack /\ UnitsBecomeUtf8 /\ PrintParsesBack /\ DecodesTheSame
  /\ NumberComesBack

(* The first pass of each conversion measures at least what the second one *)
(* writes, but for a string that ends within a \u; the fixed room of a     *)
(* number is enough, and that of a log record is left by none but a cut    *)
(* one for the system log (cJSON.c, base64.c, log.c).                      *)
MeasuredIsEnough ==
  StringFits /\ PrintFits /\ DecodeFits /\ NumberFits /\ RecordsAreWhole
=============================================================================
