------------------------------ MODULE AvlCopy ------------------------------
(***************************************************************************)
(* avl_copy and avl_destroy of cutil/avl.c, step by step: both go through  *)
(* the tree without recursion, and the first may run out of memory, or be  *)
(* refused an item, at any node; then what there is of the new tree is     *)
(* destroyed.                                                              *)
(*                                                                         *)
(* A node is named by the sides that lead to it from the root; the nodes   *)
(* of the new tree have the names of those they are copies of.  This state *)
(* has nothing in common with that of Avl.                                 *)
(***************************************************************************)
EXTENDS Avl

CONSTANT MaxHeight    \* bound on the tree that is copied

ASSUME AvlCopyAssumption == MaxHeight \in Nat

TreeNodes == BoundedSeq({0, 1}, MaxHeight - 1)
Top == <<2>>       \* the struct avl_table, whose side 0 is the root
NoNode == <<3>>
Unset == <<4>>     \* what malloc leaves there

(* The heights of the subtrees of a tree.                                  *)
HeightsOf(tree) ==
  LET height[n \in BoundedSeq({0, 1}, MaxHeight)] ==
        IF n \notin tree THEN 0
        ELSE LET l == height[Append(n, 0)]
                 r == height[Append(n, 1)]
             IN  1 + (IF l < r THEN r ELSE l)
  IN  height

(* The trees that are closed upwards and balanced.                         *)
Trees ==
  {tree \in SUBSET TreeNodes :
     \A n \in tree :
       /\ n # <<>> => Front(n) \in tree
       /\ HeightsOf(tree)[Append(n, 1)] - HeightsOf(tree)[Append(n, 0)] \in {-1, 0, 1}}

VARIABLES
  cp_org,      \* the nodes of the tree that is copied
  cp_link,     \* the links of the new one
  cp_data,     \* for each node of the new tree "item", "null" or "unset"
  cp_live,     \* the nodes of the new tree that are allocated
  cp_pc,
  cp_x,        \* x and y, or p of avl_clear
  cp_stack,    \* the pairs of the stack
  cp_destroyed,\* history: for how many items destroy was called
  cp_strays,   \* history: the nodes for which destroy was given what malloc had left
  cp_wild      \* history: was a link followed that nobody had set, or a node freed twice?

copyVars == <<cp_org, cp_link, cp_data, cp_live, cp_pc, cp_x, cp_stack, cp_destroyed, cp_strays, cp_wild>>

CopyInit ==
  /\ cp_org \in Trees
  /\ cp_link = [n \in TreeNodes \cup {Top} |-> IF n = Top THEN <<NoNode>> ELSE <<Unset, Unset>>]
  /\ cp_data = [n \in TreeNodes |-> "unset"]
  /\ cp_live = {}
  /\ cp_pc = IF cp_org = {} THEN "copied" ELSE "left"
  /\ cp_x = Top /\ cp_stack = <<>>
  /\ cp_destroyed = 0 /\ cp_strays = {} /\ cp_wild = FALSE

-----------------------------------------------------------------------------
Child(n, d) == IF n = Top THEN <<>> ELSE Append(n, d)
HasChild(n, d) == (n = Top => d = 0) /\ Child(n, d) \in cp_org

Link(n, d) == cp_link[n][d + 1]
SetLink(n, d, m) == cp_link' = [cp_link EXCEPT ![n][d + 1] = m]

(* The loop to the left.                                                   *)
NewLeft ==
  /\ cp_pc = "left" /\ HasChild(cp_x, 0)
  /\ SetLink(cp_x, 0, Child(cp_x, 0))
  /\ cp_live' = cp_live \cup {Child(cp_x, 0)}
  /\ cp_stack' = Append(cp_stack, cp_x)
  /\ cp_x' = Child(cp_x, 0)
  /\ UNCHANGED <<cp_org, cp_data, cp_pc, cp_destroyed, cp_strays, cp_wild>>

NoMemoryLeft ==
  /\ cp_pc = "left" /\ HasChild(cp_x, 0)
  /\ cp_link' = [cp_link EXCEPT ![cp_x] = IF cp_x = Top THEN <<NoNode>> ELSE <<NoNode, NoNode>>]
  /\ cp_data' = IF cp_x = Top THEN cp_data ELSE [cp_data EXCEPT ![cp_x] = "null"]
  /\ cp_pc' = "recover"
  /\ UNCHANGED <<cp_org, cp_live, cp_x, cp_stack, cp_destroyed, cp_strays, cp_wild>>

LeftEnds ==
  /\ cp_pc = "left" /\ ~ HasChild(cp_x, 0)
  /\ SetLink(cp_x, 0, NoNode)
  /\ cp_pc' = "item"
  /\ UNCHANGED <<cp_org, cp_data, cp_live, cp_x, cp_stack, cp_destroyed, cp_strays, cp_wild>>

(* The item is copied; then the node to the right is made, or the node     *)
(* above is next.                                                          *)
CopyItem ==
  /\ cp_pc = "item"
  /\ cp_data' = [cp_data EXCEPT ![cp_x] = "item"]
  /\ cp_pc' = "right"
  /\ UNCHANGED <<cp_org, cp_link, cp_live, cp_x, cp_stack, cp_destroyed, cp_strays, cp_wild>>

ItemRefused ==
  /\ cp_pc = "item"
  /\ cp_data' = [cp_data EXCEPT ![cp_x] = "null"]
  /\ SetLink(cp_x, 1, NoNode)
  /\ cp_pc' = "recover"
  /\ UNCHANGED <<cp_org, cp_live, cp_x, cp_stack, cp_destroyed, cp_strays, cp_wild>>

NewRight ==
  /\ cp_pc = "right" /\ HasChild(cp_x, 1)
  /\ SetLink(cp_x, 1, Child(cp_x, 1))
  /\ cp_live' = cp_live \cup {Child(cp_x, 1)}
  /\ cp_x' = Child(cp_x, 1)
  /\ cp_pc' = "left"
  /\ UNCHANGED <<cp_org, cp_data, cp_stack, cp_destroyed, cp_strays, cp_wild>>

NoMemoryRight ==
  /\ cp_pc = "right" /\ HasChild(cp_x, 1)
  /\ SetLink(cp_x, 1, NoNode)
  /\ cp_pc' = "recover"
  /\ UNCHANGED <<cp_org, cp_data, cp_live, cp_x, cp_stack, cp_destroyed, cp_strays, cp_wild>>

Pop ==
  /\ cp_pc = "right" /\ ~ HasChild(cp_x, 1)
  /\ SetLink(cp_x, 1, NoNode)
  /\ IF Len(cp_stack) <= 1
     THEN cp_pc' = "copied" /\ UNCHANGED <<cp_x, cp_stack>>
     ELSE /\ cp_x' = Last(cp_stack)
          /\ cp_stack' = Front(cp_stack)
          /\ cp_pc' = "item"
  /\ UNCHANGED <<cp_org, cp_data, cp_live, cp_destroyed, cp_strays, cp_wild>>

(* copy_error_recovery: the nodes that wait in the stack have nothing to   *)
(* the right.                                                              *)
Waiting == {cp_stack[k] : k \in 2 .. Len(cp_stack)}

copy_error_recovery ==
  /\ cp_pc = "recover"
  /\ cp_link' = [n \in DOMAIN cp_link |->
                   IF n \in Waiting THEN <<cp_link[n][1], NoNode>> ELSE cp_link[n]]
  /\ cp_pc' = "clear"
  /\ cp_x' = Link(Top, 0)
  /\ UNCHANGED <<cp_org, cp_data, cp_live, cp_stack, cp_destroyed, cp_strays, cp_wild>>

(* The owner of the copy destroys it in the end.                           *)
avl_destroy ==
  /\ cp_pc = "copied"
  /\ cp_pc' = "clear"
  /\ cp_x' = Link(Top, 0)
  /\ UNCHANGED <<cp_org, cp_link, cp_data, cp_live, cp_stack, cp_destroyed, cp_strays, cp_wild>>

(* avl_clear: a node without a left subtree is freed, another is hung to   *)
(* the right of the left one.  destroy is called for an avl_data that is   *)
(* not NULL: for what malloc has left there, if it is not zero by chance.  *)
ClearNode ==
  /\ cp_pc = "clear" /\ cp_x # NoNode /\ cp_x \in cp_live
  /\ Link(cp_x, 0) = NoNode
  /\ cp_live' = cp_live \ {cp_x}
  /\ cp_destroyed' = cp_destroyed + (IF cp_data[cp_x] = "item" THEN 1 ELSE 0)
  /\ \/ cp_strays' = cp_strays
     \/ cp_data[cp_x] = "unset" /\ cp_strays' = cp_strays \cup {cp_x}
  /\ cp_wild' = (cp_wild \/ Link(cp_x, 1) = Unset)
  /\ cp_x' = Link(cp_x, 1)
  /\ UNCHANGED <<cp_org, cp_link, cp_data, cp_pc, cp_stack>>

RotateRight ==
  /\ cp_pc = "clear" /\ cp_x # NoNode /\ cp_x \in cp_live
  /\ Link(cp_x, 0) \in cp_live
  /\ LET q == Link(cp_x, 0)
     IN  /\ cp_link' = [cp_link EXCEPT ![cp_x][1] = Link(q, 1), ![q][2] = cp_x]
         /\ cp_wild' = (cp_wild \/ Link(q, 1) = Unset)
         /\ cp_x' = q
  /\ UNCHANGED <<cp_org, cp_data, cp_live, cp_pc, cp_stack, cp_destroyed, cp_strays>>

ClearEnds ==
  /\ cp_pc = "clear" /\ cp_x = NoNode
  /\ cp_pc' = "gone"
  /\ UNCHANGED <<cp_org, cp_link, cp_data, cp_live, cp_x, cp_stack, cp_destroyed, cp_strays, cp_wild>>

CopyNext ==
  \/ NewLeft \/ NoMemoryLeft \/ LeftEnds \/ CopyItem \/ ItemRefused
  \/ NewRight \/ NoMemoryRight \/ Pop
  \/ copy_error_recovery \/ avl_destroy
  \/ ClearNode \/ RotateRight \/ ClearEnds

CopySpec == CopyInit /\ [][CopyNext]_copyVars

-----------------------------------------------------------------------------
(* A copy that ends well has the nodes of the original at their places,    *)
(* each with an item.                                                      *)
CopyIsWhole ==
  cp_pc = "copied" =>
    /\ cp_live = cp_org
    /\ \A n \in cp_org :
         /\ cp_data[n] = "item"
         /\ \A d \in {0, 1} : Link(n, d) = IF HasChild(n, d) THEN Child(n, d) ELSE NoNode

(* Wherever the copy stops, destroying the new tree frees each of its      *)
(* nodes once and follows no link that was not set, and destroy is called  *)
(* for each item that was copied.  Where it is called for anything else,   *)
(* the copy has failed in the left subtree of that node.                   *)
DestroyFindsAll ==
  /\ ~ cp_wild
  /\ cp_strays \subseteq Waiting
  /\ cp_pc = "copied" => Waiting = {}
  /\ cp_pc = "clear" /\ cp_x # NoNode =>
       cp_x \in cp_live /\ Link(cp_x, 0) \in cp_live \cup {NoNode}
  /\ cp_pc = "gone" =>
       cp_live = {} /\ cp_destroyed = Cardinality({n \in TreeNodes : cp_data[n] = "item"})

(* "applying |destroy|, if non-null, to each item in the new tree so far": *)
(* to the items, and to nothing else.                                      *)
OnlyItemsAreDestroyed == cp_strays = {}

(* The AVL tree is balanced and ordered after every operation, a copy of   *)
(* it is the same tree, and of a copy that fails all nodes are freed and   *)
(* all items destroyed; what else destroy is given are waiting nodes' data.*)
TreesAreWhole == TreeIsBalanced /\ CopyIsWhole /\ DestroyFindsAll
=============================================================================
