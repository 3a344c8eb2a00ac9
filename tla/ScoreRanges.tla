---------------------------- MODULE ScoreRanges ----------------------------
(***************************************************************************)
(* The ranges of points of the scenes, each with a class and a suggestion: *)
(* db_load_scores_scs reads them from tbScene (dbaccess.c),                *)
(* replace_score_suggest puts those of a score in the place of what the    *)
(* score came with, and scores_scs_free frees them (scorerslt.c).  No      *)
(* handler calls them at present; a caller loads the ranges, uses them and *)
(* frees them before it loads again.                                       *)
(***************************************************************************)
EXTENDS Integers, Sequences, FiniteSets, SequencesExt

CONSTANTS
  RangeScenes,        \* the scenes
  RangeMarks,         \* the points of the ranges and of the scores
  MaxRangeRows,       \* bound: rows of tbScene
  MaxRanges,          \* bound: ranges in one of them
  _maxscore_scs_num   \* how many ranges there is room for

ASSUME ScoreRangesAssumption ==
  /\ RangeMarks \subseteq 0 .. 100
  /\ MaxRangeRows \in Nat /\ MaxRanges \in Nat /\ _maxscore_scs_num \in Nat

Ranges == {r \in [s1 : RangeMarks, s2 : RangeMarks] : r.s1 <= r.s2}

(* What is in the column scorerange: the ranges in their order, with all   *)
(* four members; a text that is no JSON; or NULL.                          *)
Columns_scorerange ==
  {<<"ranges", rs>> : rs \in BoundedSeq(Ranges, MaxRanges)} \cup {<<"bad", <<>>>>, <<"NULL", <<>>>>}

VARIABLES
  sr_rows,    \* the rows of tbScene: [scene, column], each scene in one of them
  sr_pc,      \* "empty", "loading", "loaded"; "down" when the program has crashed
  sr_next,    \* how many rows have been fetched
  sr_json,    \* the text that the pointer json is at: its row, or 0 where it is not set
  sr_list,    \* scores->score: [scene, s1, s2, from], the last being the row and the
              \* element that class and suggestion were copied from
  sr_live,    \* the elements whose two strings are allocated
  sr_lost,    \* history: those that there was no room for
  sr_texts,   \* the rows of whose column a copy is allocated
  sr_comment  \* the last score that was given a comment, and where that came from

scoreRangesVars == <<sr_rows, sr_pc, sr_next, sr_json, sr_list, sr_live, sr_lost, sr_texts, sr_comment>>

NoComment == [scene |-> 0, fscore |-> 0, from |-> <<>>]

ScoreRangesInit ==
  /\ \E n \in 0 .. MaxRangeRows :
       /\ sr_rows \in [1 .. n -> [scene : RangeScenes, column : Columns_scorerange]]
       /\ \A k, l \in 1 .. n : sr_rows[k].scene = sr_rows[l].scene => k = l
  /\ sr_pc = "empty" /\ sr_next = 0 /\ sr_json = 0
  /\ sr_list = <<>> /\ sr_live = {} /\ sr_lost = {} /\ sr_texts = {}
  /\ sr_comment = NoComment

-----------------------------------------------------------------------------
(* memset and the query, which may fail: then the list stays empty.        *)
LoadBegins ==
  /\ sr_pc = "empty"
  /\ sr_list' = <<>>
  /\ sr_next' = 0 /\ sr_json' = 0
  /\ sr_pc' \in {"loading", "loaded"}
  /\ UNCHANGED <<sr_rows, sr_live, sr_lost, sr_texts, sr_comment>>

RangesIn(row, scene) ==
  [k \in DOMAIN sr_rows[row].column[2] |->
     [scene |-> scene, s1 |-> sr_rows[row].column[2][k].s1,
      s2 |-> sr_rows[row].column[2][k].s2, from |-> <<row, k>>]]

(* A NULL column leaves json where it was, at the text of an earlier row.  *)
With_column == {row \in DOMAIN sr_rows : sr_rows[row].column[1] # "NULL"}

JsonAt(row) == IF row \in With_column THEN row ELSE sr_json

ElementsOf(row) == IF JsonAt(row) = 0 THEN <<>> ELSE RangesIn(JsonAt(row), sr_rows[row].scene)

(* If no row before had a column, json is whatever was on the stack, which *)
(* is not JSON or ends the program.  Nobody frees the copy of a column.    *)
(* The strings of a range without room are copied as well, and lost.       *)
FetchRange ==
  /\ sr_pc = "loading" /\ sr_next < Len(sr_rows)
  /\ LET row == sr_next + 1
         elements == ElementsOf(row)
         room == _maxscore_scs_num - Len(sr_list)
     IN  /\ sr_json' = JsonAt(row)
         /\ sr_pc' \in (IF JsonAt(row) = 0 THEN {"loading", "down"} ELSE {"loading"})
         /\ sr_list' = sr_list \o SubSeq(elements, 1, IF Len(elements) < room THEN Len(elements) ELSE room)
         /\ sr_live' = sr_live \cup {<<row, elements[k].from>> : k \in DOMAIN elements}
         /\ sr_lost' = sr_lost \cup {<<row, elements[k].from>> : k \in room + 1 .. Len(elements)}
  /\ sr_texts' = sr_texts \cup ({sr_next + 1} \cap With_column)
  /\ sr_next' = sr_next + 1
  /\ UNCHANGED <<sr_rows, sr_comment>>

RangesEnd ==
  /\ sr_pc = "loading" /\ sr_next = Len(sr_rows)
  /\ sr_pc' = "loaded"
  /\ UNCHANGED <<sr_rows, sr_next, sr_json, sr_list, sr_live, sr_lost, sr_texts, sr_comment>>

(* The first range of the scene that holds the score, both ends included.  *)
Holding(scene, fscore) ==
  {k \in DOMAIN sr_list :
     sr_list[k].scene = scene /\ sr_list[k].s1 <= fscore /\ fscore <= sr_list[k].s2}

(* Without a range class and suggestion become the word for "none".        *)
replace_score_suggest(scene, fscore) ==
  /\ sr_pc = "loaded"
  /\ LET hits == Holding(scene, fscore)
     IN  sr_comment' = [scene |-> scene, fscore |-> fscore,
                        from |-> IF hits = {} THEN <<>>
                                 ELSE sr_list[CHOOSE k \in hits : \A j \in hits : k <= j].from]
  /\ UNCHANGED <<sr_rows, sr_pc, sr_next, sr_json, sr_list, sr_live, sr_lost, sr_texts>>

scores_scs_free ==
  /\ sr_pc = "loaded"
  /\ sr_live' = {l \in sr_live : ~ \E k \in DOMAIN sr_list :
                   sr_list[k].from = l[2] /\ sr_list[k].scene = sr_rows[l[1]].scene}
  /\ sr_pc' = "empty"
  /\ sr_comment' = NoComment
  /\ UNCHANGED <<sr_rows, sr_next, sr_json, sr_list, sr_lost, sr_texts>>

ScoreRangesNext ==
  \/ LoadBegins \/ FetchRange \/ RangesEnd \/ scores_scs_free
  \/ \E scene \in RangeScenes, fscore \in RangeMarks : replace_score_suggest(scene, fscore)

ScoreRangesSpec == ScoreRangesInit /\ [][ScoreRangesNext]_scoreRangesVars

-----------------------------------------------------------------------------
(* The row whose ranges are those of a scene: its own, or if its column is *)
(* NULL the last one before it that is not.                                *)
RowOf(scene) ==
  LET rows == {k \in DOMAIN sr_rows : sr_rows[k].scene = scene}
      own == CHOOSE k \in rows : TRUE
      set == {k \in 1 .. own : sr_rows[k].column[1] # "NULL"}
  IN  IF rows = {} \/ set = {} THEN 0 ELSE CHOOSE k \in set : \A j \in set : j <= k

(* A score gets the suggestion of a range that holds it, of the first one  *)
(* in the column of its scene; and none only if that column has no such    *)
(* range, if the ranges could not be loaded, or if there was no room for   *)
(* all of them.  A scene without a column gets those of the scene before.  *)
SuggestionHoldsTheScore ==
  LET scene == sr_comment.scene
      row == RowOf(scene)
      holds == {k \in DOMAIN sr_rows[row].column[2] :
                  /\ sr_rows[row].column[2][k].s1 <= sr_comment.fscore
                  /\ sr_comment.fscore <= sr_rows[row].column[2][k].s2}
  IN  sr_comment # NoComment =>
        IF sr_comment.from # <<>>
        THEN sr_comment.from[1] = row /\ sr_comment.from[2] \in holds
             /\ \A k \in holds : sr_comment.from[2] <= k
        ELSE row = 0 \/ holds = {} \/ sr_list = <<>> \/ Len(sr_list) = _maxscore_scs_num

(* Once the ranges are freed nothing is left of them but the strings of    *)
(* those that there was no room for, and none of these is in the list; and *)
(* the copy of every column that was read is left.                         *)
RangesLeft ==
  /\ sr_pc = "empty" => sr_live \subseteq sr_lost
  /\ sr_pc = "loaded" =>
       \A k \in DOMAIN sr_list : \E l \in sr_live \ sr_lost :
         l[2] = sr_list[k].from /\ sr_rows[l[1]].scene = sr_list[k].scene
  /\ With_column \cap 1 .. sr_next \subseteq sr_texts
=============================================================================
