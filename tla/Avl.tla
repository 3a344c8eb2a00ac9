-------------------------------- MODULE Avl --------------------------------
(***************************************************************************)
(* The balanced tree of cutil/avl.c and its traversers, which keep the     *)
(* nodes above their own in a stack.  An insertion that rotates and every  *)
(* deletion raise avl_generation, by which a traverser knows that its      *)
(* stack is to be made anew.                                               *)
(*                                                                         *)
(* The cases of the code come in pairs that differ in the side; side d of  *)
(* a node is avl_link[d] here, and the pair is one definition.  An item is *)
(* its key, so that avl_replace and avl_t_replace change nothing, and the  *)
(* node that is allocated for a key is named by it.                        *)
(***************************************************************************)
EXTENDS Integers, Sequences, FiniteSets, SequencesExt

CONSTANTS
  AvlKeys,
  Traversers,
  MaxGeneration   \* bound on avl_generation

ASSUME AvlAssumption == AvlKeys \subseteq Nat \ {0} /\ IsFiniteSet(AvlKeys) /\ MaxGeneration \in Nat

(* The root is side 0 of the anchor.                                       *)
AvlNodes == AvlKeys
NULLNODE == 0
Anchor == -1
Lost == -2     \* a traverser whose node was deleted

VARIABLES
  av_link, av_balance,            \* of the nodes
  av_nodes,                       \* those that are allocated
  av_count, av_generation,
  tv_node, tv_stack, tv_generation \* of the traversers

avlVars == <<av_link, av_balance, av_nodes, av_count, av_generation,
             tv_node, tv_stack, tv_generation>>
treeVars == <<av_link, av_balance, av_nodes, av_count, av_generation>>
travVars == <<tv_node, tv_stack, tv_generation>>

Sides == {0, 1}
Sign(d) == IF d = 1 THEN 1 ELSE -1

AvlInit ==
  /\ av_link = [n \in AvlNodes \cup {Anchor} |-> [d \in Sides |-> NULLNODE]]
  /\ av_balance = [n \in AvlNodes |-> 0]
  /\ av_nodes = {}
  /\ av_count = 0 /\ av_generation = 0
  /\ tv_node = [t \in Traversers |-> NULLNODE]
  /\ tv_stack = [t \in Traversers |-> <<>>]
  /\ tv_generation = [t \in Traversers |-> 0]

-----------------------------------------------------------------------------
(* A way goes down by steps, each a node and the side that is taken at it. *)
Step(n, d) == [node |-> n, side |-> d]
Below(step) == av_link[step.node][step.side]
Hung(link, step, n) == [link EXCEPT ![step.node][step.side] = n]

(* From a step on the way takes at each node n the side turn[n]; it ends   *)
(* where there is no node, or one to stay at.  There are not more steps    *)
(* than nodes.                                                             *)
Here == 2

Down(from, turn) ==
  LET way[i \in Nat] ==
        IF i = 0 THEN <<from>>
        ELSE LET above == way[i - 1]
                 n == Below(Last(above))
             IN  IF n = NULLNODE \/ turn[n] = Here THEN above
                 ELSE Append(above, Step(n, turn[n]))
  IN  way[Cardinality(AvlKeys)]

(* The way to the node with the key, or to the link it would have.         *)
TopStep == Step(Anchor, 0)
Toward(key) == [n \in AvlNodes |-> IF n = key THEN Here ELSE IF key > n THEN 1 ELSE 0]
Way(key) == Down(TopStep, Toward(key))

(* The way through a step to the last node on side d.                      *)
Outward(from, d) == Down(from, [n \in AvlNodes |-> d])

avl_find(key) == Below(Last(Way(key)))

(* The subtree of y is too high on side d: what the rotation makes of the  *)
(* links and the balances, and the new root of the subtree.                *)
TurnedOnce(link, x, y, d) ==
  Hung(Hung(link, Step(y, d), link[x][1 - d]), Step(x, 1 - d), y)

SingleRotation(link, balance, y, d) ==
  LET x == link[y][d]
      even == balance[x] = 0
  IN  [link |-> TurnedOnce(link, x, y, d),
       balance |-> [balance EXCEPT ![x] = IF even THEN -Sign(d) ELSE 0,
                                   ![y] = IF even THEN Sign(d) ELSE 0],
       top |-> x, even |-> even]

TurnedTwice(link, w, x, y, d) ==
  LET inner == Hung(Hung(link, Step(x, 1 - d), link[w][d]), Step(w, d), x)
  IN  Hung(Hung(inner, Step(y, d), link[w][1 - d]), Step(w, 1 - d), y)

(* the balances of x and y exchanged *)
DoubleRotationSwapped(link, balance, y, d) ==
  LET x == link[y][d]
      w == link[x][1 - d]
  IN  [link |-> TurnedTwice(link, w, x, y, d),
       balance |-> [balance EXCEPT ![x] = IF balance[w] = Sign(d) THEN Sign(d) ELSE 0,
                                   ![y] = IF balance[w] = -Sign(d) THEN -Sign(d) ELSE 0,
                                   ![w] = 0],
       top |-> w, even |-> FALSE]

DoubleRotation(link, balance, y, d) ==
  LET x == link[y][d]
      w == link[x][1 - d]
  IN  [link |-> TurnedTwice(link, w, x, y, d),
       balance |-> [balance EXCEPT ![x] = IF balance[w] = -Sign(d) THEN Sign(d) ELSE 0,
                                   ![y] = IF balance[w] = Sign(d) THEN -Sign(d) ELSE 0,
                                   ![w] = 0],
       top |-> w, even |-> FALSE]

Rotation(link, balance, y, d) ==
  IF balance[link[y][d]] = -Sign(d)
  THEN DoubleRotation(link, balance, y, d)
  ELSE SingleRotation(link, balance, y, d)

-----------------------------------------------------------------------------
(* avl_probe puts the key at the end of its way.  The balances change from *)
(* the last node that was not even, or from the root; that node is the one *)
(* to be rotated.                                                          *)
Insert(way, n) ==
  LET uneven == {i \in 2 .. Len(way) : av_balance[way[i].node] # 0}
      top == IF uneven = {} THEN 2 ELSE Max(uneven)
      y == way[top].node
      Passed(m) == \E i \in top .. Len(way) : way[i].node = m
      SideAt(m) == way[CHOOSE i \in top .. Len(way) : way[i].node = m].side
      link == Hung([av_link EXCEPT ![n] = [d \in Sides |-> NULLNODE]], Last(way), n)
      balance == [m \in AvlNodes |->
                    IF m = n THEN 0
                    ELSE IF Passed(m) THEN av_balance[m] + Sign(SideAt(m)) ELSE av_balance[m]]
      rotated == Rotation(link, balance, y, IF balance[y] > 0 THEN 1 ELSE 0)
  IN  /\ av_nodes' = av_nodes \cup {n}
      /\ av_count' = av_count + 1
      /\ IF Len(way) >= 2 /\ balance[y] \in {-2, 2}
         THEN /\ av_link' = Hung(rotated.link, way[top - 1], rotated.top)
              /\ av_balance' = rotated.balance
              /\ av_generation' = av_generation + 1
         ELSE av_link' = link /\ av_balance' = balance /\ UNCHANGED av_generation

avl_probe(key) ==
  IF avl_find(key) = NULLNODE THEN \E way \in {Way(key)} : Insert(way, key) ELSE UNCHANGED treeVars

(* avl_delete: p goes; in its place comes its left subtree, its right      *)
(* child if that has nothing to the left, or the next node in order.       *)
(* stack is the way along which the tree may have become lower.            *)
Unlinked(p, way) ==
  LET r == av_link[p][1]
      right == Outward(Step(p, 1), 0)
      s == Last(right).node
      above == Last(way)
  IN  CASE r = NULLNODE ->
             [link |-> Hung(av_link, above, av_link[p][0]), balance |-> av_balance, stack |-> way]
        [] r # NULLNODE /\ s = r ->
             [link |-> Hung([av_link EXCEPT ![r][0] = av_link[p][0]], above, r),
              balance |-> [av_balance EXCEPT ![r] = av_balance[p]],
              stack |-> Append(way, Step(r, 1))]
        [] OTHER ->
             [link |-> Hung([av_link EXCEPT ![s] = av_link[p],
                                            ![right[Len(right) - 1].node][0] = av_link[s][1]],
                            above, s),
              balance |-> [av_balance EXCEPT ![s] = av_balance[p]],
              stack |-> way \o <<Step(s, 1)>> \o SubSeq(right, 2, Len(right) - 1)]

(* The subtree of entry k of the stack has become lower on its side.       *)
Rebalanced(tree, stack, k) ==
  LET y == stack[k].node
      high == 1 - stack[k].side
      now == [tree.balance EXCEPT ![y] = @ + Sign(high)]
      rotated == Rotation(tree.link, now, y, high)
  IN  CASE now[y] = Sign(high) -> [link |-> tree.link, balance |-> now, lower |-> FALSE]
        [] now[y] = 2 * Sign(high) ->
             [link |-> Hung(rotated.link, stack[k - 1], rotated.top),
              balance |-> rotated.balance, lower |-> ~ rotated.even]
        [] OTHER -> [link |-> tree.link, balance |-> now, lower |-> TRUE]

(* Upwards from the end of the stack, until a subtree keeps its height.    *)
AllRebalanced(link, balance, stack) ==
  LET tree[i \in 0 .. Len(stack) - 1] ==
        IF i = 0 THEN [link |-> link, balance |-> balance, lower |-> TRUE]
        ELSE LET before == tree[i - 1]
             IN  IF before.lower THEN Rebalanced(before, stack, Len(stack) + 1 - i) ELSE before
  IN  tree[Len(stack) - 1]

(* A traverser whose node is freed may only be placed anew.                *)
Leave(nodes) ==
  /\ tv_node' = [t \in Traversers |-> IF tv_node[t] \in nodes THEN Lost ELSE tv_node[t]]
  /\ tv_stack' = [t \in Traversers |-> IF tv_node[t] \in nodes THEN <<>> ELSE tv_stack[t]]
  /\ tv_generation' = [t \in Traversers |-> IF tv_node[t] \in nodes THEN 0 ELSE tv_generation[t]]

Free(nodes, link, balance) ==
  /\ av_link' = [n \in DOMAIN link |-> IF n \in nodes THEN [d \in Sides |-> NULLNODE] ELSE link[n]]
  /\ av_balance' = [n \in AvlNodes |-> IF n \in nodes THEN 0 ELSE balance[n]]
  /\ av_nodes' = av_nodes \ nodes

avl_delete(key) ==
  LET p == avl_find(key)
      out == Unlinked(p, Way(key))
      done == AllRebalanced(out.link, out.balance, out.stack)
  IN  /\ p # NULLNODE
      /\ Free({p}, done.link, done.balance)
      /\ av_count' = av_count - 1
      /\ av_generation' = av_generation + 1
      /\ Leave({p})

(* avl_clear; the generation starts again.                                 *)
avl_clear ==
  /\ Free(AvlNodes, [av_link EXCEPT ![Anchor] = [d \in Sides |-> NULLNODE]], av_balance)
  /\ av_count' = 0
  /\ av_generation' = 0
  /\ Leave(AvlNodes)

-----------------------------------------------------------------------------
(* The traversers.                                                         *)
StandAt(t, n, stack, generation) ==
  /\ tv_node' = [tv_node EXCEPT ![t] = n]
  /\ tv_stack' = [tv_stack EXCEPT ![t] = stack]
  /\ tv_generation' = [tv_generation EXCEPT ![t] = generation]

(* The nodes of a way, without the first, and without the last.            *)
NodesOf(way) == [i \in 1 .. Len(way) - 1 |-> way[i + 1].node]
NodesAbove(way) == [i \in 1 .. Len(way) - 1 |-> way[i].node]

(* avl_t_first for side 0, avl_t_last for side 1.                          *)
avl_t_end(t, d) ==
  LET way == Outward(TopStep, d)
  IN  IF Len(way) = 1 THEN StandAt(t, NULLNODE, <<>>, av_generation)
      ELSE StandAt(t, Last(way).node, Tail(NodesAbove(way)), av_generation)

avl_t_find(t, key) ==
  IF avl_find(key) = NULLNODE THEN StandAt(t, NULLNODE, <<>>, av_generation)
  ELSE StandAt(t, avl_find(key), NodesOf(Way(key)), av_generation)

(* Its stack is left as it was, and it is told that it is old.             *)
avl_t_insert(t, key) ==
  /\ avl_probe(key)
  /\ StandAt(t, key, tv_stack[t], av_generation' - 1)

(* the stack is never made anew *)
StackAsItWas(t) == tv_stack[t]

(* trav_refresh                                                            *)
Stack(t) ==
  IF tv_generation[t] # av_generation THEN NodesOf(Way(tv_node[t])) ELSE tv_stack[t]

(* Back over the nodes of which one comes from side d.                     *)
Climb(x, stack, d) ==
  LET Lower(i) == IF i = Len(stack) THEN x ELSE stack[i + 1]
      other == {i \in 1 .. Len(stack) : av_link[stack[i]][d] # Lower(i)}
  IN  IF other = {} THEN [node |-> NULLNODE, stack |-> <<>>]
      ELSE [node |-> stack[Max(other)], stack |-> SubSeq(stack, 1, Max(other) - 1)]

(* avl_t_next for side 1, avl_t_prev for side 0.                           *)
avl_t_step(t, d) ==
  /\ tv_node[t] # Lost
  /\ LET x == tv_node[t]
     IN  IF x = NULLNODE THEN avl_t_end(t, 1 - d)
         ELSE LET down == Outward(Step(x, d), 1 - d)
                  up == Climb(x, Stack(t), d)
              IN  IF Len(down) > 1
                  THEN StandAt(t, Last(down).node, Stack(t) \o NodesAbove(down), av_generation)
                  ELSE StandAt(t, up.node, up.stack, av_generation)

(* A traverser is copied to one that was never used, which goes on in its  *)
(* place.  The stack is copied only if it is not old; otherwise that of    *)
(* the copy is whatever it is, and is made anew before it is used.         *)
avl_t_copy(t) ==
  /\ tv_node[t] # Lost
  /\ StandAt(t, tv_node[t],
             IF tv_generation[t] = av_generation THEN tv_stack[t] ELSE <<Anchor>>,
             tv_generation[t])

AvlNext ==
  \/ /\ \/ \E key \in AvlKeys : avl_probe(key) /\ UNCHANGED travVars
        \/ \E key \in AvlKeys : avl_delete(key)
        \/ avl_clear
     /\ av_generation' <= MaxGeneration
  \/ \E t \in Traversers, key \in AvlKeys :
       /\ avl_t_insert(t, key)
       /\ av_generation' <= MaxGeneration
  \/ \E t \in Traversers :
       /\ \/ \E d \in Sides : avl_t_end(t, d)
          \/ \E key \in AvlKeys : avl_t_find(t, key)
          \/ avl_t_step(t, 1)
          \/ avl_t_step(t, 0)
          \/ avl_t_copy(t)
       /\ UNCHANGED treeVars

AvlSpec == AvlInit /\ [][AvlNext]_avlVars

-----------------------------------------------------------------------------
(* The keys of the subtree of a node, and its height.                      *)
Subtree ==
  LET keys[n \in AvlNodes \cup {NULLNODE}] ==
        IF n = NULLNODE THEN {} ELSE {n} \cup keys[av_link[n][0]] \cup keys[av_link[n][1]]
  IN  keys

Height ==
  LET high[n \in AvlNodes \cup {NULLNODE}] ==
        IF n = NULLNODE THEN 0
        ELSE LET l == high[av_link[n][0]]
                 r == high[av_link[n][1]]
             IN  1 + (IF l < r THEN r ELSE l)
  IN  high

Root == av_link[Anchor][0]

(* After any insertions and deletions the tree has each key once, between  *)
(* the smaller and the greater ones, no node is lost, each balance is the  *)
(* difference of the heights below it and none is more than one.           *)
TreeIsBalanced ==
  /\ Subtree[Root] = av_nodes
  /\ av_count = Cardinality(av_nodes)
  /\ \A n \in av_nodes :
       LET l == av_link[n][0]
           r == av_link[n][1]
       IN  /\ \A k \in Subtree[l] : k < n
           /\ \A k \in Subtree[r] : n < k
           /\ av_balance[n] = Height[r] - Height[l]
           /\ av_balance[n] \in {-1, 0, 1}

(* Whatever was put in and taken out since the traverser came to its node, *)
(* it goes from there to the next greater key that is in the tree now, or  *)
(* back to the next smaller one.                                           *)
Beyond(key, d) == {k \in av_nodes : IF d = 1 THEN k > key ELSE k < key}

TraversersKeepOrder ==
  [][\A t \in Traversers, d \in Sides :
       /\ tv_node[t] \in AvlNodes
       /\ UNCHANGED treeVars /\ avl_t_step(t, d)
       => LET now == tv_node'[t]
              beyond == Beyond(tv_node[t], d)
          IN  IF now = NULLNODE THEN beyond = {}
              ELSE /\ now \in beyond
                   /\ \A k \in beyond : IF d = 1 THEN now <= k ELSE k <= now]_avlVars
=============================================================================
