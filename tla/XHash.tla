------------------------------- MODULE XHash -------------------------------
(***************************************************************************)
(* The hash table of cutil/xhash.c: an array of buckets, each a node with  *)
(* a chain of nodes behind it.  A node whose key is NULL is empty and is   *)
(* used again.  One iteration at a time runs over the table (iter_bucket,  *)
(* iter_node), and keys may be put and zapped while it does.               *)
(***************************************************************************)
EXTENDS Integers, Sequences, FiniteSets, SequencesExt

CONSTANTS
  Keys,
  Vals,       \* the values, NULL among them
  NULL,
  prime,      \* the number of buckets
  _xhasher,   \* the hash of each key
  MaxNodes    \* bound: nodes, those of the array included

ASSUME XHashAssumption ==
  /\ prime \in Nat \ {0}
  /\ _xhasher \in [Keys -> Nat]
  /\ NULL \notin Keys /\ NULL \notin 1 .. MaxNodes
  /\ MaxNodes \in Nat /\ MaxNodes >= prime

(* The nodes 1 .. prime are those of the array zen; node i is the first of *)
(* bucket i.                                                               *)
Nodes == 1 .. MaxNodes
Buckets == 1 .. prime

VARIABLES
  xh_chain,        \* for each bucket its nodes in order
  xh_key, xh_val,  \* of each node
  xh_count,        \* count
  xh_dirty,        \* dirty, as far as it is 0 or not
  iter_node,       \* the node of the iteration, or NULL
  xh_visited,      \* history: the keys that the iteration has stopped at
  xh_stayed        \* history: the keys that have had a value since it began

xhashVars ==
  <<xh_chain, xh_key, xh_val, xh_count, xh_dirty, iter_node, xh_visited, xh_stayed>>

XHashInit ==
  /\ xh_chain = [b \in Buckets |-> <<b>>]
  /\ xh_key = [n \in Nodes |-> NULL]
  /\ xh_val = [n \in Nodes |-> NULL]
  /\ xh_count = 0 /\ xh_dirty = FALSE
  /\ iter_node = NULL
  /\ xh_visited = <<>> /\ xh_stayed = {}

-----------------------------------------------------------------------------
Bucket(k) == (_xhasher[k] % prime) + 1

Used == UNION {ToSet(xh_chain[b]) : b \in Buckets}

FirstIn(seq, nodes) ==
  LET hits == {i \in DOMAIN seq : seq[i] \in nodes}
  IN  IF hits = {} THEN NULL ELSE seq[CHOOSE i \in hits : \A j \in hits : i <= j]

_xhash_node_get(k) == FirstIn(xh_chain[Bucket(k)], {n \in Nodes : xh_key[n] = k})

(* An empty node of the bucket; or a new one, behind the first.            *)
EmptyNode(b) == FirstIn(xh_chain[b], {n \in Nodes : xh_key[n] = NULL})

NewNode == CHOOSE n \in Nodes \ Used : \A m \in Nodes \ Used : n <= m

(* the first empty node is taken before the key is looked for *)
xhash_put_blind(k, v) ==
  LET b == Bucket(k)
      new == IF EmptyNode(b) # NULL THEN EmptyNode(b) ELSE NewNode
  IN  /\ EmptyNode(b) # NULL \/ Used # Nodes
      /\ xh_chain' = IF EmptyNode(b) # NULL THEN xh_chain
                     ELSE [xh_chain EXCEPT ![b] = InsertAt(@, 2, new)]
      /\ xh_key' = [xh_key EXCEPT ![new] = k]
      /\ xh_val' = [xh_val EXCEPT ![new] = v]
      /\ xh_count' = xh_count + 1
      /\ xh_dirty' = TRUE
      /\ xh_stayed' = IF v = NULL THEN xh_stayed \ {k} ELSE xh_stayed
      /\ UNCHANGED <<iter_node, xh_visited>>

xhash_put(k, v) ==
  LET b == Bucket(k)
      old == _xhash_node_get(k)
  IN  /\ \/ /\ old # NULL
            /\ xh_val' = [xh_val EXCEPT ![old] = v]
            /\ UNCHANGED <<xh_chain, xh_key, xh_count>>
         \/ /\ old = NULL /\ EmptyNode(b) # NULL
            /\ xh_key' = [xh_key EXCEPT ![EmptyNode(b)] = k]
            /\ xh_val' = [xh_val EXCEPT ![EmptyNode(b)] = v]
            /\ xh_count' = xh_count + 1
            /\ UNCHANGED xh_chain
         \/ /\ old = NULL /\ EmptyNode(b) = NULL /\ Used # Nodes
            /\ xh_chain' = [xh_chain EXCEPT ![b] = InsertAt(@, 2, NewNode)]
            /\ xh_key' = [xh_key EXCEPT ![NewNode] = k]
            /\ xh_val' = [xh_val EXCEPT ![NewNode] = v]
            /\ xh_count' = xh_count + 1
      /\ xh_dirty' = TRUE
      /\ xh_stayed' = IF v = NULL THEN xh_stayed \ {k} ELSE xh_stayed
      /\ UNCHANGED <<iter_node, xh_visited>>

(* The order in which the nodes are gone through: bucket by bucket, and    *)
(* along the chain of each.                                                *)
Before(n, m) ==
  \E b, c \in Buckets : \E i \in DOMAIN xh_chain[b], j \in DOMAIN xh_chain[c] :
    /\ xh_chain[b][i] = n /\ xh_chain[c][j] = m
    /\ b < c \/ (b = c /\ i < j)

(* at the end of a chain the iteration ends *)
AfterInChain(n) ==
  IF n = NULL THEN Used
  ELSE {m \in Used : Before(n, m) /\ \E b \in Buckets : {n, m} \subseteq ToSet(xh_chain[b])}

After(n) == IF n = NULL THEN Used ELSE {m \in Used : Before(n, m)}

(* xhash_iter_next goes to the next node with a key and a value, given the *)
(* keys and values that are now in the nodes.                              *)
NextNode(n, key, val) ==
  LET hits == {m \in After(n) : key[m] # NULL /\ val[m] # NULL}
  IN  IF hits = {} THEN NULL
      ELSE CHOOSE m \in hits : \A other \in hits : other = m \/ Before(m, other)

StopAt(n, visited, key) ==
  /\ iter_node' = n
  /\ xh_visited' = IF n = NULL THEN visited ELSE Append(visited, key[n])

xhash_iter_first ==
  /\ StopAt(NextNode(NULL, xh_key, xh_val), <<>>, xh_key)
  /\ xh_stayed' = {xh_key[n] : n \in {m \in Used : xh_key[m] # NULL /\ xh_val[m] # NULL}}
  /\ UNCHANGED <<xh_chain, xh_key, xh_val, xh_count, xh_dirty>>

xhash_iter_next ==
  /\ iter_node # NULL
  /\ StopAt(NextNode(iter_node, xh_key, xh_val), xh_visited, xh_key)
  /\ UNCHANGED <<xh_chain, xh_key, xh_val, xh_count, xh_dirty, xh_stayed>>

(* A zapped node loses its key; if the iteration is there it moves on.     *)
Kill(n) ==
  /\ xh_key' = [xh_key EXCEPT ![n] = NULL]
  /\ xh_val' = [xh_val EXCEPT ![n] = NULL]
  /\ xh_count' = xh_count - 1
  /\ xh_dirty' = TRUE
  /\ xh_stayed' = xh_stayed \ {xh_key[n]}
  /\ IF iter_node = n
     THEN StopAt(NextNode(n, xh_key', xh_val'), xh_visited, xh_key)
     ELSE UNCHANGED <<iter_node, xh_visited>>
  /\ UNCHANGED xh_chain

xhash_zap(k) == _xhash_node_get(k) # NULL /\ Kill(_xhash_node_get(k))

xhash_iter_zap == iter_node # NULL /\ Kill(iter_node)

(* The answer is whether the table was changed since the last time.        *)
xhash_dirty ==
  /\ xh_dirty' = FALSE
  /\ UNCHANGED <<xh_chain, xh_key, xh_val, xh_count, iter_node, xh_visited, xh_stayed>>

XHashNext ==
  \/ \E k \in Keys, v \in Vals : xhash_put(k, v)
  \/ \E k \in Keys : xhash_zap(k)
  \/ xhash_iter_first \/ xhash_iter_next \/ xhash_iter_zap
  \/ xhash_dirty

XHashSpec == XHashInit /\ [][XHashNext]_xhashVars

-----------------------------------------------------------------------------
(* What the functions that change nothing return.                          *)
Live == {n \in Used : xh_key[n] # NULL}

xhash_get(k) == IF _xhash_node_get(k) = NULL THEN NULL ELSE xh_val[_xhash_node_get(k)]

xhash_iter_get == IF iter_node = NULL THEN <<NULL, NULL>> ELSE <<xh_key[iter_node], xh_val[iter_node]>>

(* The keys that xhash_walk calls its function with, each by the place,    *)
(* bucket and number, of its node.                                         *)
xhash_walk ==
  LET node(place) == xh_chain[place[1]][place[2]]
      places == UNION {{<<b, i>> : i \in DOMAIN xh_chain[b]} : b \in Buckets}
  IN  [place \in {q \in places : xh_key[node(q)] # NULL /\ xh_val[node(q)] # NULL}
         |-> xh_key[node(place)]]

-----------------------------------------------------------------------------

(* Each key is in one node, in the bucket of its hash, no node is lost or  *)
(* in two chains, and count is the number of the keys, those with the      *)
(* value NULL among them.                                                  *)
TableAgrees ==
  /\ \A n, m \in Live : xh_key[n] = xh_key[m] => n = m
  /\ \A n \in Live : n \in ToSet(xh_chain[Bucket(xh_key[n])])
  /\ \A b, c \in Buckets : \A i \in DOMAIN xh_chain[b], j \in DOMAIN xh_chain[c] :
       xh_chain[b][i] = xh_chain[c][j] => b = c /\ i = j
  /\ xh_count = Cardinality(Live)

(* When an iteration has come to its end every key that had a value from   *)
(* its beginning was visited, and once, whatever was put and zapped in the *)
(* meantime, the key it stood at included; on the way none comes twice,    *)
(* and the key and the value that it stands at are in the table.  The walk *)
(* comes to each key with a value once.                                    *)
Times(k) == Cardinality({i \in DOMAIN xh_visited : xh_visited[i] = k})

IterationVisitsOnce ==
  /\ \A k \in xh_stayed : Times(k) <= 1
  /\ iter_node = NULL => \A k \in xh_stayed : Times(k) = 1
  /\ iter_node # NULL => xhash_get(xhash_iter_get[1]) = xhash_iter_get[2]
  /\ IsInjective(xhash_walk)
  /\ ToSet(xhash_walk) = {k \in Keys : xhash_get(k) # NULL}

(* The table is a dictionary: xhash_get finds the value of a key, and      *)
(* xhash_count tells their number: a put that is lost is no step of one.   *)
(* And whoever asks for changes hears of each one.                         *)
Dict ==
  INSTANCE Dictionary WITH
    Key <- Keys, Value <- Vals,
    dict <- [k \in {xh_key[n] : n \in Live} |-> xhash_get(k)],
    count <- xh_count

ImplementsDictionary ==
  Dict!Spec /\ [][xh_key' # xh_key \/ xh_val' # xh_val => xh_dirty']_xhashVars
=============================================================================
