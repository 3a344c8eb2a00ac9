----------------------------- MODULE SceneLists -----------------------------
(***************************************************************************)
(* /user/scenestatus and /user/scenes: the growing arrays of statusrslt.c  *)
(* and scenerslt.c, filled row by row by db_load_scenestatus and           *)
(* db_load_scenes, printed by the handler and freed.  An entry of the      *)
(* first is a copy of a struct, an entry of the second points to an        *)
(* allocated one with two strings.                                         *)
(***************************************************************************)
EXTENDS Integers, Sequences, SequencesExt

CONSTANTS
  _init_capacity,   \* 128 for statuses, 256 for scenes
  MaxListRows       \* bound: rows of a result

(* With a capacity of 1 the growth by half would be none.                  *)
ASSUME SceneListsAssumption ==
  _init_capacity \in Nat /\ _init_capacity >= 2 /\ MaxListRows \in Nat

VARIABLES
  sl_kind,     \* "status" or "scenes"
  sl_pc,       \* where the handler stands
  sl_rows,     \* the rows that the query finds: their number, and whether their
               \* columns are NULL, which leaves what the struct had there
  sl_next,     \* how many of them have been fetched
  sl_list,     \* the entries: the number of the row their columns came from, 0 for none
  sl_cap,      \* capcity
  sl_live,     \* what is allocated of the list: "con", "array"
  sl_infos,    \* the entries of scenes that are allocated
  sl_outside,  \* has an entry been written behind the array?
  sl_reply     \* the entries printed

sceneListsVars ==
  <<sl_kind, sl_pc, sl_rows, sl_next, sl_list, sl_cap, sl_live, sl_infos, sl_outside, sl_reply>>

SceneListsInit ==
  /\ sl_kind \in {"status", "scenes"}
  /\ \E n \in 0 .. MaxListRows : \E null \in [1 .. n -> BOOLEAN] :
       sl_rows = [k \in 1 .. n |-> [n |-> k, null |-> null[k]]]
  /\ sl_pc = "new"
  /\ sl_next = 0 /\ sl_list = <<>> /\ sl_cap = 0 /\ sl_live = {} /\ sl_infos = {}
  /\ sl_outside = FALSE /\ sl_reply = <<>>

-----------------------------------------------------------------------------
(* scenestatuses_new or sceneinfos_new, the first thing a handler does; a  *)
(* request without sceneid is left to the help text, and the list is left  *)
(* behind with it.                                                         *)
NewList ==
  /\ sl_pc = "new"
  /\ sl_cap' = _init_capacity
  /\ sl_live' = {"con", "array"}
  /\ sl_pc' \in {"load", "refused"}
  /\ UNCHANGED <<sl_kind, sl_rows, sl_next, sl_list, sl_infos, sl_outside, sl_reply>>

(* There is no session, or the query fails: the list stays empty, and the  *)
(* handler goes on with it.                                                *)
LoadFails ==
  /\ sl_pc = "load" /\ sl_next = 0
  /\ sl_pc' = "print"
  /\ UNCHANGED <<sl_kind, sl_rows, sl_next, sl_list, sl_cap, sl_live, sl_infos, sl_outside, sl_reply>>

(* half of it, not half more *)
_assure_capacity_half ==
  IF Len(sl_list) = sl_cap THEN Len(sl_list) \div 2 ELSE sl_cap

(* _assure_capacity: half as much again when the array is full.            *)
_assure_capacity ==
  IF Len(sl_list) = sl_cap THEN Len(sl_list) + Len(sl_list) \div 2 ELSE sl_cap

(* The columns of a status are read into one struct for all the rows,      *)
(* those of a scene into a new one.                                        *)
ListRow ==
  LET row == sl_rows[sl_next + 1]
  IN  IF ~ row.null THEN row.n
      ELSE IF sl_kind = "scenes" \/ sl_list = <<>> THEN 0 ELSE Last(sl_list)

FetchRow ==
  /\ sl_pc = "load" /\ sl_next < Len(sl_rows)
  /\ sl_cap' = _assure_capacity
  /\ sl_list' = Append(sl_list, ListRow)
  /\ sl_outside' = (sl_outside \/ Len(sl_list) >= sl_cap')
  /\ sl_infos' = sl_infos \cup (IF sl_kind = "scenes" THEN {sl_next + 1} ELSE {})
  /\ sl_next' = sl_next + 1
  /\ UNCHANGED <<sl_kind, sl_pc, sl_rows, sl_live, sl_reply>>

RowsEnd ==
  /\ sl_pc = "load" /\ sl_next = Len(sl_rows)
  /\ sl_pc' = "print"
  /\ UNCHANGED <<sl_kind, sl_rows, sl_next, sl_list, sl_cap, sl_live, sl_infos, sl_outside, sl_reply>>

PrintList ==
  /\ sl_pc = "print"
  /\ sl_reply' = sl_list
  /\ sl_pc' = "free"
  /\ UNCHANGED <<sl_kind, sl_rows, sl_next, sl_list, sl_cap, sl_live, sl_infos, sl_outside>>

(* scenestatuses_free; sceneinfos_free frees the entries and the list, and *)
(* forgets the array.                                                      *)
FreeList ==
  /\ sl_pc = "free"
  /\ sl_live' = sl_live \ (IF sl_kind = "status" THEN {"con", "array"} ELSE {"con"})
  /\ sl_infos' = sl_infos \ DOMAIN sl_list
  /\ sl_pc' = "answered"
  /\ UNCHANGED <<sl_kind, sl_rows, sl_next, sl_list, sl_cap, sl_outside, sl_reply>>

SceneListsNext ==
  \/ NewList \/ LoadFails \/ FetchRow \/ RowsEnd \/ PrintList \/ FreeList

SceneListsSpec == SceneListsInit /\ [][SceneListsNext]_sceneListsVars

-----------------------------------------------------------------------------
(* However many rows there are, each is written inside the array, and the  *)
(* reply has one entry for each row, in the order of the rows; where the   *)
(* columns have values they are those of the row.                          *)
RepliesWithEveryRow ==
  /\ ~ sl_outside
  /\ sl_pc \in {"free", "answered"} /\ sl_next = Len(sl_rows) =>
       /\ Len(sl_reply) = Len(sl_rows)
       /\ \A k \in DOMAIN sl_reply : ~ sl_rows[k].null => sl_reply[k] = k

(* What a request leaves allocated: one for statuses nothing, one for      *)
(* scenes the array of the list; one without sceneid, which is answered    *)
(* with the help text, the list and its array.                             *)
ListsLeft ==
  /\ sl_pc = "answered" => sl_infos = {} /\ sl_live = (IF sl_kind = "status" THEN {} ELSE {"array"})
  /\ sl_pc = "refused" => sl_infos = {} /\ sl_live = {"con", "array"}
=============================================================================
