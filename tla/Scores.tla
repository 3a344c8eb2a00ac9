------------------------------- MODULE Scores -------------------------------
(***************************************************************************)
(* What /user/score makes of the score rows of a card: db_load_scores      *)
(* fills a list that holds _maxscore_num scores, scores_shrink sorts it    *)
(* and leaves one score of each scene, db_query_remains names the other    *)
(* scenes, get_finalscore weighs what is left, scores_freeitems gives the  *)
(* strings back (userquery.c, scorerslt.c, dbaccess.c).                    *)
(*                                                                         *)
(* Module BackCard has the steps of the same request on the databases; a   *)
(* request here is one reading of the rows and what is computed from it.   *)
(***************************************************************************)
EXTENDS Integers, Sequences, SequencesExt

Null == -1   \* a column that is NULL

CONSTANTS
  TotalScenes,      \* tbScene holds the scenes 1 .. TotalScenes
  Points,           \* the values of _score
  ScoreRows,        \* the rows that tbVisitorScore may hold: [scene, points, json]
  SceneTables,      \* what tbScene may hold: functions from scene to [credit, name]
  Stack,            \* what may be on the stack where a row is read into: numbers,
                    \* and pointers that are NULL or wild
  MaxScoreRows,     \* bound: rows of tbVisitorScore for one card
  _maxscore_num,    \* capacity of the list of scores, 128
  SelectionSort,    \* external: up to so many elements qsort sorts by selection, 8
  CreditTenths,     \* g_conf.credit_proportion in tenths
  GradeTenths       \* g_conf.grade_proportion in tenths

(* json and name say whether the text is there or NULL.                    *)
ASSUME ScoresAssumption ==
  /\ TotalScenes \in Nat \ {0}
  /\ Points \subseteq 0 .. 100
  /\ ScoreRows \subseteq [scene : 1 .. TotalScenes, points : Points \cup {Null}, json : BOOLEAN]
  /\ SceneTables \subseteq [1 .. TotalScenes -> [credit : Nat \cup {Null}, name : BOOLEAN]]
  /\ Stack \subseteq [fscore : Int, credit : Int, wild : BOOLEAN]
  /\ MaxScoreRows \in Nat /\ SelectionSort \in Nat
  /\ _maxscore_num \in Nat \ {0}
  /\ CreditTenths \in 0 .. 10 /\ GradeTenths = 10 - CreditTenths

VARIABLES
  sc_rows,     \* the rows that the query brings
  sc_scenes,   \* tbScene
  sc_stack,    \* what the struct score holds before the first row
  sc_pc,       \* where user_score stands; "twice" when it has freed what is not
               \* allocated, "unknown" when its list was never filled, "down" when it
               \* has crashed
  sc_list,     \* scores.score[0 .. scorenum - 1]; id is the row it was read from,
               \* scenename and json are the texts that the pointers are at
  sc_i,        \* the index of the loop in scores_shrink, from 1
  sc_live,     \* the texts that are allocated
  sc_class     \* finalscore.scoreclass

scoresVars == <<sc_rows, sc_scenes, sc_stack, sc_pc, sc_list, sc_i, sc_live, sc_class>>

ScoresInit ==
  /\ \E n \in 0 .. MaxScoreRows : sc_rows \in [1 .. n -> ScoreRows]
  /\ sc_scenes \in SceneTables
  /\ sc_stack \in Stack
  /\ sc_pc = "load"
  /\ sc_list = <<>>
  /\ sc_i = 1
  /\ sc_live = {}
  /\ sc_class = ""

-----------------------------------------------------------------------------
(* The rows that find room in the list.                                    *)
Loaded == {n \in DOMAIN sc_rows : n <= _maxscore_num}

(* The rows whose column has a value.                                      *)
With_name == {n \in DOMAIN sc_rows : sc_scenes[sc_rows[n].scene].name}
With_score == {n \in DOMAIN sc_rows : sc_rows[n].points # Null}
With_json == {n \in DOMAIN sc_rows : sc_rows[n].json}
With_credit == {n \in DOMAIN sc_rows : sc_scenes[sc_rows[n].scene].credit # Null}

(* One struct takes the columns of all rows, and a column that is NULL     *)
(* leaves it as it is: there is the value of the last row that has one, or *)
(* what was on the stack.                                                  *)
From(rows, n) ==
  IF \E m \in rows : m <= n
  THEN CHOOSE m \in rows : m <= n /\ \A k \in rows : k <= n => k <= m
  ELSE 0

Entry(n) ==
  [id |-> n, scene |-> sc_rows[n].scene,
   fscore |-> LET m == From(With_score, n) IN IF m = 0 THEN sc_stack.fscore ELSE sc_rows[m].points,
   credit |-> LET m == From(With_credit, n)
              IN  IF m = 0 THEN sc_stack.credit ELSE sc_scenes[sc_rows[m].scene].credit,
   scenename |-> <<"scenename", From(With_name, n)>>,
   json |-> <<"json", From(With_json, n)>>]

(* The result set is walked row by row into a list that scores_clear has   *)
(* emptied; scores_add drops what the list cannot hold, whose texts nobody *)
(* frees then.                                                             *)
db_load_scores ==
  /\ sc_pc = "load"
  /\ sc_list' = [n \in Loaded |-> Entry(n)]
  /\ sc_live' = {<<"scenename", n>> : n \in With_name} \cup {<<"json", n>> : n \in With_json}
  /\ sc_pc' = "sort"
  /\ UNCHANGED <<sc_rows, sc_scenes, sc_stack, sc_i, sc_class>>

(* user_score does not look at the result.  A query that fails brings no   *)
(* row, and the list is empty; without a connection, or for a negative     *)
(* card, the list is not even cleared, and nothing is known of what        *)
(* scores_shrink makes of it.                                              *)
NothingLoaded ==
  /\ sc_pc = "load"
  /\ \/ sc_pc' = "sort" /\ sc_rows' = <<>>
     \/ sc_pc' = "unknown" /\ UNCHANGED sc_rows
  /\ UNCHANGED <<sc_scenes, sc_stack, sc_list, sc_i, sc_live, sc_class>>

(* the comparison of pointers, say: equal scenes may lie apart *)
SortNothing(list) == {list}

(* compare_score says 1 or 0 and never "smaller".  Sorting by selection    *)
(* qsort only asks whether one element is greater than another, so the     *)
(* list comes out with the scenes descending; scores of the same scene     *)
(* come in any order.  For a longer list it divides the list and asks      *)
(* where a part ends whether the comparison is 0, which it is for every    *)
(* element that is not greater: it takes the part for equal and never      *)
(* sorts it.                                                               *)
SortOutcomes(list) ==
  {sorted \in {[k \in DOMAIN list |-> list[p[k]]] : p \in Bijection(DOMAIN list, DOMAIN list)} :
     Len(list) <= SelectionSort =>
       \A k \in 1 .. Len(list) - 1 : sorted[k].scene >= sorted[k + 1].scene}

SortScores ==
  /\ sc_pc = "sort"
  /\ sc_list' \in SortOutcomes(sc_list)
  /\ sc_i' = 1
  /\ sc_pc' = "shrink"
  /\ UNCHANGED <<sc_rows, sc_scenes, sc_stack, sc_live, sc_class>>

-----------------------------------------------------------------------------
NoText == IF sc_stack.wild THEN {} ELSE {<<"scenename", 0>>, <<"json", 0>>}
Texts_of(k) == {sc_list[k].scenename, sc_list[k].json} \ NoText

(* free() of the two texts of each of these scores, one after the other.   *)
FreesAllocated(ks) ==
  /\ \A k \in ks : Texts_of(k) \subseteq sc_live
  /\ \A k, l \in ks : k # l => Texts_of(k) \cap Texts_of(l) = {}

(* Of two neighbours of one scene the one with fewer points goes, the left *)
(* one of equals; the index stays to compare the next neighbour.           *)
Loser(i) == IF sc_list[i].fscore <= sc_list[i + 1].fscore THEN i ELSE i + 1

SameScene(i) == sc_list[i].scene = sc_list[i + 1].scene

RemoveScore(k) ==
  IF FreesAllocated({k})
  THEN /\ sc_list' = RemoveAt(sc_list, k)
       /\ sc_live' = sc_live \ Texts_of(k)
       /\ UNCHANGED sc_pc
  ELSE sc_pc' = "twice" /\ UNCHANGED <<sc_list, sc_live>>

(* i-- forgotten: after a removal the next pair is left out *)
scores_shrink_moves_on ==
  /\ sc_pc = "shrink" /\ sc_i < Len(sc_list)
  /\ IF SameScene(sc_i) THEN RemoveScore(Loser(sc_i)) ELSE UNCHANGED <<sc_list, sc_live, sc_pc>>
  /\ sc_i' = sc_i + 1
  /\ UNCHANGED <<sc_rows, sc_scenes, sc_stack, sc_class>>

scores_shrink ==
  /\ sc_pc = "shrink" /\ sc_i < Len(sc_list)
  /\ IF SameScene(sc_i)
     THEN RemoveScore(Loser(sc_i)) /\ sc_i' = sc_i
     ELSE sc_i' = sc_i + 1 /\ UNCHANGED <<sc_list, sc_live, sc_pc>>
  /\ UNCHANGED <<sc_rows, sc_scenes, sc_stack, sc_class>>

ShrinkEnds ==
  /\ sc_pc = "shrink" /\ sc_i >= Len(sc_list)
  /\ sc_pc' = "credits"
  /\ UNCHANGED <<sc_rows, sc_scenes, sc_stack, sc_list, sc_i, sc_live, sc_class>>

(* The three queries that follow may end the request with -1, which frees  *)
(* nothing; so does a venue without credits, or without a scene that       *)
(* remains.                                                                *)
RunningSums(f) == LET sum[n \in 0 .. Len(f)] == IF n = 0 THEN 0 ELSE sum[n - 1] + f[n] IN sum
Sum(f) == RunningSums(f)[Len(f)]
Credit_of(scene) == IF sc_scenes[scene].credit = Null THEN 0 ELSE sc_scenes[scene].credit
totalcredit == Sum([scene \in 1 .. TotalScenes |-> Credit_of(scene)])

GiveUp ==
  /\ sc_pc \in {"credits", "remains"}
  /\ sc_pc' = "gave_up"
  /\ UNCHANGED <<sc_rows, sc_scenes, sc_stack, sc_list, sc_i, sc_live, sc_class>>

(* The names of the scenes that are not in the list are copied, and the    *)
(* copies forgotten.  A scene without a name gets the one before it; the   *)
(* first of them has none, and takes the program down.                     *)
Remaining == (1 .. TotalScenes) \ {sc_list[k].scene : k \in DOMAIN sc_list}

db_query_remains ==
  /\ sc_pc = "credits" /\ totalcredit # 0 /\ Remaining # {}
  /\ LET named == {scene \in Remaining : sc_scenes[scene].name}
     IN  /\ sc_pc' \in (IF named = {} THEN {} ELSE {"remains"})
                       \cup (IF named = Remaining THEN {} ELSE {"down"})
         /\ sc_live' = sc_live \cup {<<"remaining", scene>> : scene \in named}
  /\ UNCHANGED <<sc_rows, sc_scenes, sc_stack, sc_list, sc_i, sc_class>>

(* obtained_credits and obtaind_fscore; the final score is                 *)
(*   (obtained / total * 100) * credit_proportion                          *)
(*   + (weighted / obtained) * grade_proportion,                           *)
(* here as a fraction.  Without a credit it is 0 / 0, which compares with  *)
(* nothing.                                                                *)
obtained_credits == Sum([k \in DOMAIN sc_list |-> sc_list[k].credit])
obtained_fscore == Sum([k \in DOMAIN sc_list |-> sc_list[k].fscore * sc_list[k].credit])
Numerator ==
  CreditTenths * 100 * obtained_credits * obtained_credits
  + GradeTenths * obtained_fscore * totalcredit
Denominator == 10 * totalcredit * obtained_credits

ClassOfFraction(n, d) ==
  LET over(limit) == IF d > 0 THEN n > limit * d ELSE n < limit * d
  IN  IF d = 0 THEN ""
      ELSE IF over(90) /\ ~ over(100) THEN "A"
      ELSE IF over(70) /\ ~ over(90) THEN "B"
      ELSE IF over(0) THEN "C" ELSE ""

get_finalscore ==
  /\ sc_pc = "remains"
  /\ sc_class' = ClassOfFraction(Numerator, Denominator)
  /\ sc_pc' = "reply"
  /\ UNCHANGED <<sc_rows, sc_scenes, sc_stack, sc_list, sc_i, sc_live>>

scores_freeitems ==
  /\ sc_pc = "reply"
  /\ IF FreesAllocated(DOMAIN sc_list)
     THEN /\ sc_live' = sc_live \ UNION {Texts_of(k) : k \in DOMAIN sc_list}
          /\ sc_pc' = "answered"
     ELSE sc_pc' = "twice" /\ UNCHANGED sc_live
  /\ UNCHANGED <<sc_rows, sc_scenes, sc_stack, sc_list, sc_i, sc_class>>

ScoresNext ==
  \/ db_load_scores \/ NothingLoaded \/ SortScores \/ scores_shrink \/ ShrinkEnds
  \/ db_query_remains \/ get_finalscore \/ GiveUp \/ scores_freeitems

ScoresSpec == ScoresInit /\ [][ScoresNext]_scoresVars

-----------------------------------------------------------------------------
Shrunk == sc_pc \in {"credits", "remains", "reply", "answered", "gave_up"}

(* "One score for each scene, the greatest", says the comment at the call  *)
(* of scores_shrink (userquery.c:170).  It is not so when the list is      *)
(* longer than what qsort sorts by selection.                              *)
OneOfEachScene ==
  Shrunk => \A k, l \in DOMAIN sc_list : sc_list[k].scene = sc_list[l].scene => k = l

(* Whatever the order of the rows and of the sort: of each scene among the *)
(* rows a score with as many points as any is left, all that is left has   *)
(* been read from a row, and no two neighbours are of one scene.  Each     *)
(* scene is left once if there are no more rows than qsort sorts by        *)
(* selection.  The points of a row without any are those that the row      *)
(* before it counts with.                                                  *)
BestOfEachScene ==
  Shrunk =>
    /\ \A n \in Loaded : \E k \in DOMAIN sc_list :
         sc_list[k].scene = sc_rows[n].scene /\ sc_list[k].fscore >= Entry(n).fscore
    /\ \A k \in DOMAIN sc_list : \E n \in Loaded : sc_list[k] = Entry(n)
    /\ \A k \in 1 .. Len(sc_list) - 1 : ~ SameScene(k)
    /\ Len(sc_rows) <= SelectionSort => OneOfEachScene

(* The formula in the comment of get_finalscore gives a mark from 0 to 100 *)
(* only if no credit is counted twice and each is that of its scene: if    *)
(* the list was sorted, the first row has points and no scene lacks its    *)
(* credit.  Then every visitor with a credit and a point has a class, and  *)
(* the number of the scenes that remain is not negative.                   *)
FinalScoreInRange ==
  /\ sc_pc = "reply" /\ Len(sc_rows) <= SelectionSort
  /\ Loaded \subseteq With_credit
  /\ 1 \in Loaded => 1 \in With_score
  => /\ obtained_credits <= totalcredit
     /\ Numerator <= 100 * Denominator
     /\ obtained_fscore > 0 => sc_class # ""
     /\ Len(sc_list) <= TotalScenes

(* What a request leaves behind when it has been answered: the texts of    *)
(* the rows that the list had no room for, and the names of the scenes     *)
(* that remain.                                                            *)
LeftBehind ==
  {<<"scenename", n>> : n \in With_name \ Loaded} \cup {<<"json", n>> : n \in With_json \ Loaded}
  \cup {<<"remaining", scene>> : scene \in {s \in Remaining : sc_scenes[s].name}}

(* The texts of a row are freed once, by scores_shrink or at the end: only *)
(* with a name or a json that is NULL does the request free one twice, or  *)
(* what was never allocated.  One that is answered has freed all but       *)
(* LeftBehind.                                                             *)
StringsFreedOnce ==
  /\ sc_pc = "twice" => ~ Loaded \subseteq With_name \cap With_json
  /\ sc_pc = "answered" => sc_live = LeftBehind
=============================================================================
