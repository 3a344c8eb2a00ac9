--------------------------- MODULE SceneStatistics ---------------------------
(***************************************************************************)
(* /user/analyscene: two texts for a scene, that of its scores and that of *)
(* its visitors, are read from two tables by                               *)
(* db_load_statistic_scene_scores and db_load_statistic_scene_visitors     *)
(* into buffers of the handler, and put into the reply as they are.        *)
(***************************************************************************)
EXTENDS Integers, Sequences, SequencesExt

CONSTANTS
  TextLengths,    \* the lengths of the texts in the tables
  BufferSize,     \* sizeof(out->buffer), 1024
  StatementRoom,  \* sizeof(sql) - printn - 1, the size that is named for the visitors
  MaxTexts        \* bound: rows of a scene in a table

ASSUME SceneStatisticsAssumption ==
  /\ \A n \in TextLengths : n \in Nat
  /\ BufferSize \in Nat /\ StatementRoom \in 1 .. BufferSize
  /\ MaxTexts \in Nat

Kinds == {"scores", "visitors"}

VARIABLES
  sg_pc,       \* what is loaded next: "scores", "visitors" or "reply"; "done"; "down"
               \* when the program has crashed
  sg_rows,     \* the texts that each query finds: their length, or -1 for NULL
  sg_next,     \* how many of the rows of a query have been fetched
  sg_buffer,   \* what is in each buffer: the row it came from and the characters it has
  sg_failed,   \* the queries that failed
  sg_reply     \* the two texts of the reply

sceneStatisticsVars == <<sg_pc, sg_rows, sg_next, sg_buffer, sg_failed, sg_reply>>

Empty == [row |-> 0, chars |-> 0]

SceneStatisticsInit ==
  /\ sg_pc \in {"scores", "done"}   \* "done": no sceneid, it is left to the help
  /\ sg_rows \in [Kinds -> BoundedSeq(TextLengths \cup {-1}, MaxTexts)]
  /\ sg_next = 0
  /\ sg_buffer = [kind \in Kinds |-> Empty]
  /\ sg_failed = {} /\ sg_reply = <<>>

-----------------------------------------------------------------------------
(* strncpy_s(dest, destsz, src, count), external: at most count characters *)
(* and a NUL; without a source, or without room for all of it, it ends the *)
(* program.                                                                *)
Characters_copied(length, count) == IF length < count THEN length ELSE count
Copies(length, destsz, count) == length # -1 /\ Characters_copied(length, count) < destsz

Room(kind) == IF kind = "scores" THEN BufferSize ELSE StatementRoom

(* What the buffer holds afterwards: {} if the program has ended.          *)
Copy(kind, length) ==
  IF Copies(length, Room(kind), BufferSize) THEN {Characters_copied(length, BufferSize)} ELSE {}

After(kind) == IF kind = "scores" THEN "visitors" ELSE "reply"

(* The session is missing or the query fails: the buffer stays empty, and  *)
(* nobody asks for the result.                                             *)
StatisticFails(kind) ==
  /\ sg_pc = kind /\ sg_next = 0
  /\ sg_failed' = sg_failed \cup {kind}
  /\ sg_pc' = After(kind)
  /\ UNCHANGED <<sg_rows, sg_next, sg_buffer, sg_reply>>

FetchStatistic(kind) ==
  /\ sg_pc = kind /\ sg_next < Len(sg_rows[kind])
  /\ LET row == sg_next + 1
     IN  IF Copy(kind, sg_rows[kind][row]) = {}
         THEN sg_pc' = "down" /\ UNCHANGED <<sg_next, sg_buffer>>
         ELSE /\ \E chars \in Copy(kind, sg_rows[kind][row]) :
                   sg_buffer' = [sg_buffer EXCEPT ![kind] = [row |-> row, chars |-> chars]]
              /\ sg_next' = row
              /\ UNCHANGED sg_pc
  /\ UNCHANGED <<sg_rows, sg_failed, sg_reply>>

StatisticEnds(kind) ==
  /\ sg_pc = kind /\ sg_next = Len(sg_rows[kind])
  /\ sg_pc' = After(kind)
  /\ sg_next' = 0
  /\ UNCHANGED <<sg_rows, sg_buffer, sg_failed, sg_reply>>

user_analyscene_reply ==
  /\ sg_pc = "reply"
  /\ sg_reply' = <<sg_buffer["scores"], sg_buffer["visitors"]>>
  /\ sg_pc' = "done"
  /\ UNCHANGED <<sg_rows, sg_next, sg_buffer, sg_failed>>

SceneStatisticsNext ==
  \/ \E kind \in Kinds : StatisticFails(kind) \/ FetchStatistic(kind) \/ StatisticEnds(kind)
  \/ user_analyscene_reply

SceneStatisticsSpec == SceneStatisticsInit /\ [][SceneStatisticsNext]_sceneStatisticsVars

-----------------------------------------------------------------------------
(* Each text of the reply is that of the last row of its query, and all of *)
(* it: it is part of a JSON text, which may not be cut.  It is empty only  *)
(* if there is no row or the query has failed.  A text without room, whose *)
(* buffer is twice as large as the size named for it, ends the program.    *)
StatisticsAreWhole ==
  /\ sg_reply # <<>> =>
       \A k \in 1 .. 2 :
         LET kind == <<"scores", "visitors">>[k]
             rows == sg_rows[kind]
         IN  IF rows = <<>> \/ kind \in sg_failed THEN sg_reply[k] = Empty
             ELSE sg_reply[k] = [row |-> Len(rows), chars |-> Last(rows)]
  /\ sg_pc = "down" =>
       \E kind \in Kinds, k \in 1 .. MaxTexts :
         k \in DOMAIN sg_rows[kind] /\ (sg_rows[kind][k] = -1 \/ sg_rows[kind][k] >= Room(kind))
=============================================================================
