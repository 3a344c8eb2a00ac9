------------------------------ MODULE Handlers ------------------------------
(* What a handler is made of: the rows it reads, the list and the buffer   *)
(* it makes of them, its statement and its reply.  The components have no  *)
(* state in common; what is said here is said of all of them.              *)
EXTENDS Scores, Orders, Cards, Replies, SceneLists, ScoreRanges, SceneStatistics

(* What is left of a request when it is over: a score request leaves the   *)
(* names of the scenes that remain and the texts of the rows without room, *)
(* a list without sceneid its list and one of scenes its array, the ranges *)
(* the copies of their columns, orders what Orders names.  All else that a *)
(* handler allocates it has freed, and freed once, unless a text of a      *)
(* score row is NULL.                                                      *)
OnlyThisIsLeft == StringsFreedOnce /\ HandlersFree /\ ListsLeft /\ RangesLeft

(* A reply has what the rows of its query say, of every row that there is  *)
(* room for and of no other scene: the lists of scenes and statuses, the   *)
(* suggestions for a score, the statistics of a scene (scenerslt.c,        *)
(* statusrslt.c, scorerslt.c, userquery.c).                                *)
RowsAreUsed == RepliesWithEveryRow /\ SuggestionHoldsTheScore /\ StatisticsAreWhole
=============================================================================
