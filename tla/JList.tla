------------------------------- MODULE JList -------------------------------
(***************************************************************************)
(* The list of cutil/jlist.c: nodes with two links behind a head that      *)
(* holds no data, and a freelist of the nodes that were taken out, linked  *)
(* by next and used again before a new node is made.                       *)
(*                                                                         *)
(* jlist_walk calls back for each node; the callback may change the list,  *)
(* so a walk is several steps here.  It must not take out the node it is   *)
(* called for: that one's next is then a node of the freelist.             *)
(***************************************************************************)
EXTENDS Integers, Sequences, FiniteSets, SequencesExt

CONSTANTS
  Items,       \* what pdata may point to
  MaxListNodes \* bound: nodes made with pmalloco

ASSUME JListAssumption == MaxListNodes \in Nat

HeadNode == 0     \* the node head
Nil == -1

VARIABLES
  jl_next, jl_prev, jl_data,   \* of the nodes; node 0 is the head
  jl_tail, jl_free, jl_size,
  jl_made,                     \* how many nodes there are but the head
  jl_at,                       \* the node that a walk has called back for, or Nil
  jl_stayed, jl_seen,          \* history: the nodes in the list ever since the walk
                               \* began, and those of them that it has been at
  jl_again                     \* has it come to one of those a second time?

jlistVars == <<jl_next, jl_prev, jl_data, jl_tail, jl_free, jl_size, jl_made,
               jl_at, jl_stayed, jl_seen, jl_again>>

Made == 1 .. jl_made

JListInit ==
  /\ jl_next = [n \in 0 .. MaxListNodes |-> Nil]
  /\ jl_prev = [n \in 0 .. MaxListNodes |-> Nil]
  /\ jl_data = [n \in 1 .. MaxListNodes |-> Nil]
  /\ jl_tail = HeadNode /\ jl_free = Nil /\ jl_size = 0
  /\ jl_made = 0
  /\ jl_at = Nil /\ jl_stayed = {} /\ jl_seen = {} /\ jl_again = FALSE

-----------------------------------------------------------------------------
Follow(n) ==
  LET At[k \in 1 .. MaxListNodes + 1] ==
        IF k = 1 THEN n ELSE IF At[k - 1] = Nil THEN Nil ELSE jl_next[At[k - 1]]
  IN  [k \in {j \in 1 .. MaxListNodes + 1 : At[j] # Nil} |-> At[k]]

Chain == Follow(jl_next[HeadNode])
CachedNodes == Follow(jl_free)

(* A node of the freelist, or a new one.                                   *)
Taken == IF jl_free # Nil THEN jl_free ELSE jl_made + 1

jlist_push(x) ==
  /\ Taken <= MaxListNodes
  /\ jl_free' = IF jl_free # Nil THEN jl_next[jl_free] ELSE Nil
  /\ jl_made' = IF jl_free # Nil THEN jl_made ELSE jl_made + 1
  /\ jl_next' = [jl_next EXCEPT ![Taken] = Nil, ![jl_tail] = Taken]
  /\ jl_prev' = [jl_prev EXCEPT ![Taken] = jl_tail]
  /\ jl_data' = [jl_data EXCEPT ![Taken] = x]
  /\ jl_tail' = Taken
  /\ jl_size' = jl_size + 1
  /\ UNCHANGED <<jl_at, jl_stayed, jl_seen, jl_again>>

(* For the history: n is not among those that stay.                        *)
Leaves(n) ==
  /\ jl_stayed' = jl_stayed \ {n}
  /\ jl_seen' = jl_seen \ {n}
  /\ UNCHANGED <<jl_at, jl_again>>

(* jlist_pull takes out the first node, jlist_remove_first_if the first    *)
(* one whose data the predicate holds for.                                 *)
jlist_pull ==
  LET node2pick == jl_next[HeadNode]
      second == jl_next[node2pick]
  IN  /\ jl_size # 0
      /\ node2pick # jl_at
      /\ jl_prev' = IF second # Nil THEN [jl_prev EXCEPT ![second] = HeadNode] ELSE jl_prev
      /\ jl_next' = [jl_next EXCEPT ![HeadNode] = second, ![node2pick] = jl_free]
      /\ jl_tail' = IF node2pick = jl_tail THEN HeadNode ELSE jl_tail
      /\ jl_free' = node2pick
      /\ jl_size' = jl_size - 1
      /\ Leaves(node2pick)
      /\ UNCHANGED <<jl_data, jl_made>>

(* the last node is taken out and remains the tail *)
jlist_remove_first_if_keeps_tail(S) ==
  \E k \in DOMAIN Chain : LET item == Chain[k]
                               after == jl_next[item]
  IN  /\ jl_data[item] \in S /\ \A j \in 1 .. k - 1 : jl_data[Chain[j]] \notin S
      /\ jl_size # 0 /\ item # jl_at
      /\ jl_next' = [jl_next EXCEPT ![jl_prev[item]] = after, ![item] = jl_free]
      /\ jl_prev' = IF after # Nil THEN [jl_prev EXCEPT ![after] = jl_prev[item]] ELSE jl_prev
      /\ jl_free' = item
      /\ jl_size' = jl_size - 1
      /\ Leaves(item)
      /\ UNCHANGED <<jl_tail, jl_data, jl_made>>

jlist_remove_first_if(S) ==
  \E k \in DOMAIN Chain : LET item == Chain[k]
                               after == jl_next[item]
  IN  /\ jl_data[item] \in S /\ \A j \in 1 .. k - 1 : jl_data[Chain[j]] \notin S
      /\ jl_size # 0 /\ item # jl_at
      /\ jl_next' = [jl_next EXCEPT ![jl_prev[item]] = after, ![item] = jl_free]
      /\ jl_prev' = IF after # Nil THEN [jl_prev EXCEPT ![after] = jl_prev[item]] ELSE jl_prev
      /\ jl_tail' = IF after # Nil THEN jl_tail ELSE jl_prev[item]
      /\ jl_free' = item
      /\ jl_size' = jl_size - 1
      /\ Leaves(item)
      /\ UNCHANGED <<jl_data, jl_made>>

CallBackFor(n) ==
  /\ jl_at' = n
  /\ UNCHANGED <<jl_next, jl_prev, jl_data, jl_tail, jl_free, jl_size, jl_made>>

WalkBegins ==
  /\ jl_at = Nil /\ jl_size # 0
  /\ CallBackFor(jl_next[HeadNode])
  /\ jl_stayed' = ToSet(Chain)
  /\ jl_seen' = {jl_next[HeadNode]}
  /\ jl_again' = FALSE

(* The callback returns; the next node is the one that now comes next.     *)
GoOnTo(n) ==
  /\ CallBackFor(n)
  /\ jl_seen' = jl_seen \cup (jl_stayed \cap {n})
  /\ jl_again' = (jl_again \/ n \in jl_seen)
  /\ UNCHANGED jl_stayed

WalkGoesOn == jl_at # Nil /\ GoOnTo(jl_next[jl_at])

JListNext ==
  \/ \E x \in Items : jlist_push(x)
  \/ jlist_pull
  \/ \E S \in SUBSET Items : jlist_remove_first_if(S)
  \/ WalkBegins \/ WalkGoesOn

JListSpec == JListInit /\ [][JListNext]_jlistVars

-----------------------------------------------------------------------------
(* Each node is in the list or in the freelist and in one of them once;    *)
(* the list has size nodes, read from the head to the tail or back.        *)
NodesInOneList ==
  /\ IsInjective(Chain \o CachedNodes)
  /\ ToSet(Chain \o CachedNodes) = Made
  /\ Len(Chain) = jl_size
  /\ jl_tail = Last(<<HeadNode>> \o Chain)
  /\ \A k \in DOMAIN Chain : jl_prev[Chain[k]] = (<<HeadNode>> \o Chain)[k]

(* A walk that ends has been at each node that was in the list from its    *)
(* beginning to its end, whatever its callbacks have put in or taken out,  *)
(* and at none of them twice.                                              *)
WalkSeesThoseThatStay ==
  /\ ~ jl_again
  /\ jl_at = Nil => jl_seen = jl_stayed

(* The list is one whose items are taken from the front or by a predicate, *)
(* whatever nodes are used again: an item that is pushed is in it.         *)
ListItems == [k \in DOMAIN Chain |-> jl_data[Chain[k]]]

Promise == INSTANCE ItemList WITH Item <- Items, items <- ListItems, size <- jl_size

ImplementsItemList == Promise!Spec
=============================================================================
