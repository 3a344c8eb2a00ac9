--------------------------- MODULE LibraryProofs ---------------------------
(***************************************************************************)
(* The containers and allocators of cutil, for every size and every        *)
(* sequence of calls: the queue of jqueue.c is a priority queue, the list  *)
(* of jlist.c a list and the table of xhash.c a dictionary, the nodes of   *)
(* all three are linked as they should be, who walks a list or a table     *)
(* sees what stays in it, and the pools of pool.c and the blocks of        *)
(* mempool.c have one owner each.                                          *)
(***************************************************************************)
EXTENDS Libraries, BasicFacts, FiniteSetTheorems

(* The nodes of the queue from front to back, with the links in both       *)
(* directions and the ends.                                                *)
QueueIsLinked ==
  LET len == jq_size
  IN  /\ jq_order \in [1 .. len -> 1 .. jq_allocated]
      /\ \A i \in 1 .. len, j \in 1 .. len : jq_order[i] = jq_order[j] => i = j
      /\ jq_front = IF len = 0 THEN QNull ELSE jq_order[1]
      /\ jq_back = IF len = 0 THEN QNull ELSE jq_order[len]
      /\ \A i \in 1 .. len : /\ jq_next[jq_order[i]] = IF i = 1 THEN QNull ELSE jq_order[i - 1]
                             /\ jq_prev[jq_order[i]] = IF i = len THEN QNull ELSE jq_order[i + 1]

(* Who was pushed with a greater number is nearer to the back.             *)
QueueIsSorted ==
  \A i \in 1 .. jq_size, j \in 1 .. jq_size :
    i <= j => jq_priority[jq_order[i]] <= jq_priority[jq_order[j]]

(* c is the cache from its top: the nodes that are not in the queue.       *)
IsCache(c) ==
  LET m == jq_allocated - jq_size
  IN  /\ \A i \in 1 .. m, j \in 1 .. m : c[i] = c[j] => i = j
      /\ jq_cache = IF m = 0 THEN QNull ELSE c[1]
      /\ \A i \in 1 .. m : jq_next[c[i]] = IF i = m THEN QNull ELSE c[i + 1]
      /\ \A i \in 1 .. m, j \in 1 .. jq_size : c[i] # jq_order[j]
      /\ \A n \in 1 .. jq_allocated : \/ \E i \in 1 .. m : c[i] = n
                                      \/ \E j \in 1 .. jq_size : jq_order[j] = n

(* The inductive invariant of jqueue.c: the queue is the chain of the      *)
(* nodes in jq_order, and the cache that of all others.                    *)
JQueueInv ==
  /\ JQueueTypeOK /\ jq_size <= jq_allocated
  /\ QueueIsLinked /\ QueueIsSorted
  /\ \E c \in [1 .. jq_allocated - jq_size -> 1 .. jq_allocated] : IsCache(c)

(* w follows next from start on and stays at QNull: what QWalk and Cached  *)
(* are the only example of.                                                *)
IsWalk(w, start, next) ==
  w = [i \in Nat |-> IF i = 0 THEN start ELSE IF w[i - 1] = QNull THEN QNull ELSE next[w[i - 1]]]

(* The elements of f hang together by next, from start on, and the last    *)
(* one has no next.                                                        *)
IsChain(f, len, start, next) ==
  /\ len \in Nat
  /\ start = IF len = 0 THEN QNull ELSE f[1]
  /\ \A i \in 1 .. len : f[i] # QNull /\ next[f[i]] = IF i = len THEN QNull ELSE f[i + 1]

(* Who walks along a chain comes by its elements and then stays at QNull.  *)
LEMMA WalkAlong ==
  ASSUME NEW start, NEW next, NEW len, NEW f, IsChain(f, len, start, next), NEW w
  PROVE  /\ \E v : IsWalk(v, start, next)
         /\ IsWalk(w, start, next) => \A i \in Nat : w[i] = IF i < len THEN f[i + 1] ELSE QNull
<1> USE DEF IsChain
<1> DEFINE v == [i \in Nat |-> IF i < len THEN f[i + 1] ELSE QNull]
<1>1. IsWalk(v, start, next)
  <2>1. ASSUME NEW i \in Nat
        PROVE  v[i] = IF i = 0 THEN start ELSE IF v[i - 1] = QNull THEN QNull ELSE next[v[i - 1]]
    <3>1. CASE i = 0
      BY <3>1
    <3>2. CASE i # 0 /\ i <= len
      <4>1. i \in 1 .. len /\ i - 1 \in Nat /\ i - 1 < len /\ (i - 1) + 1 = i
        BY <3>2
      <4>2. v[i - 1] = f[i]
        BY <4>1
      <4>3. f[i] # QNull /\ next[f[i]] = IF i = len THEN QNull ELSE f[i + 1]
        BY <4>1
      <4>4. v[i] = IF i = len THEN QNull ELSE f[i + 1]
        BY <3>2
      <4> HIDE DEF v
      <4> QED  BY <3>2, <4>2, <4>3, <4>4
    <3>3. CASE i > len
      <4>1. v[i - 1] = QNull /\ v[i] = QNull /\ i # 0
        BY <3>3
      <4> HIDE DEF v
      <4> QED  BY <4>1
    <3> QED  BY <3>1, <3>2, <3>3
  <2> QED  BY <2>1 DEF IsWalk
<1> HIDE DEF v
<1> SUFFICES ASSUME IsWalk(w, start, next)
             PROVE  \A i \in Nat : w[i] = IF i < len THEN f[i + 1] ELSE QNull
  BY <1>1
<1>2. IsWalk(w, start, next)
  OBVIOUS
<1>3. ASSUME NEW m \in Nat PROVE w[m] = v[m]
  <2> DEFINE S == {i \in Nat : w[i] = v[i]}
  <2>1. 0 \in S
    BY <1>1, <1>2 DEF IsWalk
  <2>2. ASSUME NEW i \in 1 .. m, i - 1 \in S PROVE i \in S
    <3>1. i \in Nat /\ i # 0 /\ w[i - 1] = v[i - 1]
      BY <2>2
    <3>2. w[i] = IF w[i - 1] = QNull THEN QNull ELSE next[w[i - 1]]
      BY <1>2, <3>1 DEF IsWalk
    <3>3. v[i] = IF v[i - 1] = QNull THEN QNull ELSE next[v[i - 1]]
      BY <1>1, <3>1 DEF IsWalk
    <3> QED  BY <3>1, <3>2, <3>3
  <2> HIDE DEF S
  <2>3. \A i \in 1 .. m : i - 1 \in S => i \in S
    BY <2>2
  <2>4. m \in S
    BY <2>1, <2>3, UpTo
  <2> QED  BY <2>4 DEF S
<1> QED  BY <1>3 DEF v

(* The nodes of the queue and their priorities.                            *)
LEMMA OrderFacts ==
  ASSUME JQueueInv
  PROVE  /\ jq_size \in 0 .. MaxQueued /\ jq_allocated \in jq_size .. MaxQueued
         /\ Len(jq_order) = jq_size /\ jq_size \in Nat
         /\ \A i \in 1 .. jq_size : jq_order[i] \in QNodes /\ jq_order[i] # QNull
         /\ \A i \in 1 .. jq_size : jq_priority[jq_order[i]] \in Nat
<1>1. jq_size \in 0 .. MaxQueued /\ jq_allocated \in jq_size .. MaxQueued /\ jq_size \in Nat
  BY JQueueAssumption DEF JQueueInv, JQueueTypeOK
<1>2. Len(jq_order) = jq_size
  BY <1>1, LenOf DEF JQueueInv, QueueIsLinked
<1>3. ASSUME NEW i \in 1 .. jq_size PROVE jq_order[i] \in QNodes /\ jq_order[i] # QNull
  BY <1>1, JQueueAssumption DEF JQueueInv, QueueIsLinked, QNodes, QNull
<1>4. \A n \in QNodes : jq_priority[n] \in Nat
  BY JQueueAssumption DEF JQueueInv, JQueueTypeOK
<1> QED  BY <1>1, <1>2, <1>3, <1>4

(* A walk from the back comes by the queue, the last node first.           *)
LEMMA QWalkIs ==
  ASSUME JQueueInv, NEW i \in Nat
  PROVE  QWalk[i] = IF i < jq_size THEN jq_order[jq_size - i] ELSE QNull
<1> DEFINE f == [k \in 1 .. jq_size |-> jq_order[(jq_size + 1) - k]]
<1>1. QWalk = CHOOSE v : IsWalk(v, jq_back, jq_next)
  BY DEF QWalk, IsWalk
<1>2. jq_back = IF jq_size = 0 THEN QNull ELSE f[1]
  BY OrderFacts DEF JQueueInv, QueueIsLinked
<1>3. ASSUME NEW k \in 1 .. jq_size
      PROVE  f[k] # QNull /\ jq_next[f[k]] = IF k = jq_size THEN QNull ELSE f[k + 1]
  <2>1. (jq_size + 1) - k \in 1 .. jq_size
    BY OrderFacts
  <2>2. jq_next[jq_order[(jq_size + 1) - k]]
          = IF (jq_size + 1) - k = 1 THEN QNull ELSE jq_order[((jq_size + 1) - k) - 1]
    BY <2>1 DEF JQueueInv, QueueIsLinked
  <2>3. (jq_size + 1) - k = 1 <=> k = jq_size
    BY OrderFacts
  <2>4. k # jq_size => f[k + 1] = jq_order[((jq_size + 1) - k) - 1]
    <3>1. k # jq_size => k + 1 \in 1 .. jq_size /\ (jq_size + 1) - (k + 1) = ((jq_size + 1) - k) - 1
      BY OrderFacts
    <3> QED  BY <3>1
  <2> QED  BY <2>1, <2>2, <2>3, <2>4, OrderFacts
<1> HIDE DEF f
<1>a. jq_size \in Nat
  BY OrderFacts
<1>0. IsChain(f, jq_size, jq_back, jq_next)
  BY <1>2, <1>3, <1>a DEF IsChain
<1>b. \E v : IsWalk(v, jq_back, jq_next)
  BY <1>0, WalkAlong
<1>c. IsWalk(QWalk, jq_back, jq_next)
  BY <1>1, <1>b
<1>4. QWalk[i] = IF i < jq_size THEN f[i + 1] ELSE QNull
  BY <1>0, <1>c, WalkAlong
<1>5. i < jq_size => f[i + 1] = jq_order[jq_size - i]
  <2>1. i < jq_size => i + 1 \in 1 .. jq_size /\ (jq_size + 1) - (i + 1) = jq_size - i
    BY OrderFacts
  <2> QED  BY <2>1 DEF f
<1> QED  BY <1>4, <1>5

(* A walk along the cache comes by its nodes.                              *)
LEMMA CachedIs ==
  ASSUME JQueueInv, NEW c, IsCache(c),
         c \in [1 .. jq_allocated - jq_size -> 1 .. jq_allocated], NEW i \in Nat
  PROVE  Cached[i] = IF i < jq_allocated - jq_size THEN c[i + 1] ELSE QNull
<1>1. Cached = CHOOSE v : IsWalk(v, jq_cache, jq_next)
  BY DEF Cached, IsWalk
<1>2. jq_allocated - jq_size \in Nat
  BY OrderFacts
<1>3. \A k \in 1 .. jq_allocated - jq_size :
        c[k] # QNull /\ jq_next[c[k]] = IF k = jq_allocated - jq_size THEN QNull ELSE c[k + 1]
  BY OrderFacts DEF IsCache, QNull
<1> DEFINE m == jq_allocated - jq_size
<1>4. jq_cache = IF m = 0 THEN QNull ELSE c[1]
  BY DEF IsCache
<1> HIDE DEF m
<1>a. IsChain(c, m, jq_cache, jq_next)
  BY <1>2, <1>3, <1>4 DEF m, IsChain
<1>5. \E v : IsWalk(v, jq_cache, jq_next)
  BY <1>a, WalkAlong
<1>6. IsWalk(Cached, jq_cache, jq_next)
  BY <1>1, <1>5
<1> QED  BY <1>a, <1>6, WalkAlong DEF m

(* p is in Nat.                                                           *)
LEMMA ScanFinds ==
  ASSUME JQueueInv, NEW p \in Priorities
  PROVE  \E a \in 0 .. jq_size :
           /\ \A i \in 1 .. a : jq_priority[jq_order[i]] <= p
           /\ \A i \in a + 1 .. jq_size : jq_priority[jq_order[i]] > p
           /\ QScan(p) = IF a = 0 THEN QNull ELSE jq_order[a]
<1> DEFINE Stops(i) == QWalk[i] = QNull \/ jq_priority[QWalk[i]] <= p
           Is(i) == Stops(i) /\ \A j \in 0 .. i - 1 : QWalk[j] # QNull /\ jq_priority[QWalk[j]] > p
           stop == CHOOSE i \in 0 .. MaxQueued : Is(i)
           a == jq_size - stop
<1>1. p \in Nat /\ MaxQueued \in Nat
  BY JQueueAssumption
<1>2. ASSUME NEW i \in 0 .. jq_size - 1
      PROVE  QWalk[i] = jq_order[jq_size - i] /\ jq_size - i \in 1 .. jq_size /\ QWalk[i] # QNull
  BY QWalkIs, OrderFacts
<1>3. QWalk[jq_size] = QNull
  BY QWalkIs, OrderFacts
<1>4. PICK k \in 0 .. jq_size : Stops(k) /\ \A l \in 0 .. jq_size : Stops(l) => k <= l
  <2> DEFINE S == {l \in 0 .. jq_size : Stops(l)}
  <2>1. S \subseteq Nat /\ jq_size \in S
    BY <1>3, OrderFacts
  <2>2. PICK k \in S : \A l \in S : k <= l
    <3> HIDE DEF S
    <3> QED  BY <2>1, SmallestOf
  <2> QED  BY <2>2
<1>5. Is(k) /\ k \in 0 .. MaxQueued
  <2>1. k \in 0 .. MaxQueued
    BY OrderFacts, <1>1
  <2>2. ASSUME NEW j \in 0 .. k - 1 PROVE QWalk[j] # QNull /\ jq_priority[QWalk[j]] > p
    <3>1. j \in 0 .. jq_size - 1 /\ ~ Stops(j)
      BY <1>4, OrderFacts
    <3>2. jq_priority[QWalk[j]] \in Nat
      BY <1>2, <3>1, OrderFacts
    <3> QED  BY <1>1, <3>1, <3>2
  <2> QED  BY <1>4, <2>1, <2>2
<1>6. stop \in 0 .. MaxQueued /\ Is(stop)
  <2> HIDE DEF Is
  <2> QED  BY <1>5
<1>7. QScan(p) = QWalk[stop]
  BY DEF QScan
<1> HIDE DEF stop
<1>8. stop \in 0 .. jq_size
  <2> SUFFICES ASSUME stop > jq_size PROVE FALSE
    BY <1>6, OrderFacts
  <2>1. jq_size \in 0 .. stop - 1
    BY <1>6, OrderFacts
  <2> QED  BY <1>3, <1>6, <2>1
<1>9. a \in 0 .. jq_size
  BY <1>8, OrderFacts
<1>10. \A i \in a + 1 .. jq_size : jq_priority[jq_order[i]] > p
  <2> SUFFICES ASSUME NEW i \in a + 1 .. jq_size PROVE jq_priority[jq_order[i]] > p
    OBVIOUS
  <2>1. jq_size - i \in 0 .. stop - 1 /\ jq_size - i \in 0 .. jq_size - 1 /\ jq_size - (jq_size - i) = i
    BY <1>8, OrderFacts
  <2> QED  BY <1>2, <1>6, <2>1
<1>11. QWalk[stop] = IF a = 0 THEN QNull ELSE jq_order[a]
  <2>1. CASE a = 0
    <3>1. stop = jq_size
      BY <1>8, <2>1, OrderFacts
    <3> QED  BY <1>3, <2>1, <3>1
  <2>2. CASE a # 0
    <3>1. stop \in 0 .. jq_size - 1
      BY <1>8, <2>2, OrderFacts
    <3> QED  BY <1>2, <2>2, <3>1
  <2> QED  BY <2>1, <2>2
<1>12. \A i \in 1 .. a : jq_priority[jq_order[i]] <= p
  <2> SUFFICES ASSUME NEW i \in 1 .. a PROVE jq_priority[jq_order[i]] <= p
    OBVIOUS
  <2>1. a \in 1 .. jq_size /\ i \in 1 .. jq_size /\ i <= a
    BY <1>9, OrderFacts
  <2>2. jq_priority[jq_order[i]] <= jq_priority[jq_order[a]]
    BY <2>1 DEF JQueueInv, QueueIsSorted
  <2>3. jq_priority[jq_order[a]] <= p
    BY <1>6, <1>11, <2>1, OrderFacts
  <2>4. jq_priority[jq_order[i]] \in Nat /\ jq_priority[jq_order[a]] \in Nat
    BY <2>1, OrderFacts
  <2> QED  BY <2>2, <2>3, <2>4, <1>1
<1> QED  BY <1>7, <1>9, <1>10, <1>11, <1>12

(* n is put behind a items.                                                *)
PutBehind(a, n) ==
  /\ jq_size' = jq_size + 1
  /\ jq_order' = Inserted(jq_order, a, n)
  /\ jq_front' = IF a = 0 THEN n ELSE jq_front
  /\ jq_back' = IF a = jq_size THEN n ELSE jq_back
  /\ jq_next' = [m \in QNodes |-> IF m = n THEN IF a = 0 THEN QNull ELSE jq_order[a]
                                  ELSE IF a < jq_size /\ m = jq_order[a + 1] THEN n
                                  ELSE jq_next[m]]
  /\ jq_prev' = [m \in QNodes |-> IF m = n THEN IF a = jq_size THEN QNull ELSE jq_order[a + 1]
                                  ELSE IF a > 0 /\ m = jq_order[a] THEN n
                                  ELSE jq_prev[m]]

(* The three ways to link a new node.                                      *)
LEMMA PushPuts ==
  ASSUME JQueueInv, NEW d \in QData, NEW p \in Priorities, jqueue_push(d, p),
         NEW a \in 0 .. jq_size, QScan(p) = IF a = 0 THEN QNull ELSE jq_order[a],
         FreshNode \in QNodes, \A i \in 1 .. jq_size : jq_order[i] # FreshNode
  PROVE  PutBehind(a, FreshNode)
<1> DEFINE n == FreshNode
           scan == QScan(p)
<1> HIDE DEF n, scan
<1>0. /\ n \in QNodes /\ n # QNull /\ \A i \in 1 .. jq_size : jq_order[i] # n
      /\ scan = IF a = 0 THEN QNull ELSE jq_order[a]
      /\ jq_size' = jq_size + 1
  BY DEF n, scan, jqueue_push, QNodes, QNull
<1>1. /\ jq_next \in [QNodes -> QPointers] /\ jq_prev \in [QNodes -> QPointers]
      /\ jq_order \in Seq(QNodes)
      /\ \A i \in 1 .. jq_size, j \in 1 .. jq_size : jq_order[i] = jq_order[j] => i = j
      /\ jq_front = IF jq_size = 0 THEN QNull ELSE jq_order[1]
      /\ jq_back = IF jq_size = 0 THEN QNull ELSE jq_order[jq_size]
  BY DEF JQueueInv, JQueueTypeOK, QueueIsLinked
<1>l. Len(jq_order) = jq_size /\ jq_size \in Nat
  BY OrderFacts
<1>o. \A i \in 1 .. jq_size : jq_order[i] \in QNodes /\ jq_order[i] # QNull
  BY OrderFacts
<1>f. jq_back = QNull /\ jq_front = QNull <=> jq_size = 0
  BY <1>1, <1>l, <1>o
<1>2. CASE jq_size = 0 /\ LinkAlone(n)
  <2>1. a = 0 /\ jq_front' = n /\ jq_back' = n
    BY <1>2 DEF LinkAlone
  <2>2. jq_next' = [m \in QNodes |-> IF m = n THEN QNull ELSE jq_next[m]]
        /\ jq_prev' = [m \in QNodes |-> IF m = n THEN QNull ELSE jq_prev[m]]
    BY <1>0, <1>1, <1>2 DEF LinkAlone
  <2>3. jq_order' = [i \in 1 .. 1 |-> n]
    BY <1>2 DEF LinkAlone
  <2>4. jq_order' = Inserted(jq_order, a, n)
    BY <2>1, <2>3, <1>2, <1>l DEF Inserted
  <2> QED  BY <1>0, <1>2, <2>1, <2>2, <2>4 DEF PutBehind, n
<1>3. CASE jq_size # 0 /\ scan = QNull /\ LinkInFront(n)
  <2>1. a = 0 /\ 1 \in 1 .. jq_size /\ jq_front = jq_order[1] /\ a < jq_size /\ jq_front \in QNodes /\ jq_front # n
    BY <1>0, <1>1, <1>3, <1>o, <1>l
  <2>2. jq_front' = n /\ jq_back' = jq_back
    BY <1>3 DEF LinkInFront
  <2>3. jq_next' = [m \in QNodes |-> IF m = n THEN QNull ELSE IF m = jq_front THEN n ELSE jq_next[m]]
        /\ jq_prev' = [m \in QNodes |-> IF m = n THEN jq_front ELSE jq_prev[m]]
    BY <1>0, <1>1, <1>3, <2>1 DEF LinkInFront
  <2>4. jq_order' = <<n>> \o jq_order
    BY <1>3 DEF LinkInFront
  <2>5. SubSeq(jq_order, 1, 0) = <<>> /\ SubSeq(jq_order, 1, Len(jq_order)) = jq_order
    BY <1>1, SubSeqProperties
  <2>6. <<>> \o <<n>> = <<n>>
    OBVIOUS
  <2>7. jq_order' = Inserted(jq_order, a, n)
    <3>1. 0 \in 0 .. Len(jq_order)
      BY <1>l
    <3>2. SubSeq(jq_order, 1, 0) \o <<n>> \o SubSeq(jq_order, 0 + 1, Len(jq_order))
            = Inserted(jq_order, 0, n)
      BY <3>1, <1>0, <1>1, InsertedIs
    <3>3. 0 + 1 = 1 /\ a = 0
      BY <2>1
    <3> QED  BY <3>2, <3>3, <2>4, <2>5, <2>6
  <2> QED  BY <1>0, <1>3, <2>1, <2>2, <2>3, <2>7 DEF PutBehind, n
<1>4. CASE jq_size # 0 /\ scan # QNull /\ LinkBehind(n, scan)
  <2>1. a \in 1 .. jq_size /\ scan = jq_order[a] /\ scan \in QNodes /\ scan # n
    BY <1>0, <1>1, <1>4, <1>o, <1>l
  <2>2. jq_prev[scan] = IF a = jq_size THEN QNull ELSE jq_order[a + 1]
    BY <2>1 DEF JQueueInv, QueueIsLinked
  <2>a. a < jq_size => a + 1 \in 1 .. jq_size
    BY <2>1, <1>l
  <2>3. jq_front' = jq_front /\ jq_back' = IF a = jq_size THEN n ELSE jq_back
    BY <1>4, <2>1, <2>2, <2>a, <1>o, <1>l DEF LinkBehind
  <2>4. jq_prev' = [m \in QNodes |-> IF m = n THEN jq_prev[scan] ELSE IF m = scan THEN n ELSE jq_prev[m]]
    BY <1>0, <1>1, <1>4, <2>1 DEF LinkBehind
  <2>5. \A m \in QNodes : m = jq_prev[scan] <=> a < jq_size /\ m = jq_order[a + 1]
    BY <2>1, <2>2, <2>a, <1>l DEF QNodes, QNull
  <2>6. jq_next' = [m \in QNodes |-> IF m = n THEN scan
                              ELSE IF m = jq_prev[scan] THEN n ELSE jq_next[m]]
    BY <1>4 DEF LinkBehind
  <2> DEFINE at == CHOOSE i \in 1 .. Len(jq_order) : jq_order[i] = scan
  <2>7. at \in 1 .. jq_size /\ jq_order[at] = scan
    BY <2>1, <1>l
  <2>8. jq_order' = SubSeq(jq_order, 1, at) \o <<n>> \o SubSeq(jq_order, at + 1, Len(jq_order))
    BY <1>4 DEF LinkBehind
  <2> HIDE DEF at
  <2>9. at = a
    BY <1>1, <2>1, <2>7
  <2>10. jq_order' = Inserted(jq_order, a, n)
    <3>1. a \in 0 .. Len(jq_order)
      BY <2>1, <1>l
    <3>2. SubSeq(jq_order, 1, a) \o <<n>> \o SubSeq(jq_order, a + 1, Len(jq_order))
            = Inserted(jq_order, a, n)
      BY <3>1, <1>0, <1>1, InsertedIs
    <3>3. jq_order' = SubSeq(jq_order, 1, a) \o <<n>> \o SubSeq(jq_order, a + 1, Len(jq_order))
      BY ONLY <2>8, <2>9
    <3> QED  BY <3>2, <3>3, <1>l
  <2>11. jq_next' = [m \in QNodes |-> IF m = n THEN IF a = 0 THEN QNull ELSE jq_order[a]
                                  ELSE IF a < jq_size /\ m = jq_order[a + 1] THEN n
                                  ELSE jq_next[m]]
    BY <2>1, <2>5, <2>6
  <2>12. jq_prev' = [m \in QNodes |-> IF m = n THEN IF a = jq_size THEN QNull ELSE jq_order[a + 1]
                                  ELSE IF a > 0 /\ m = jq_order[a] THEN n
                                  ELSE jq_prev[m]]
    BY <2>1, <2>2, <2>4
  <2>13. a # 0
    BY <2>1
  <2> QED  BY <1>0, <2>3, <2>10, <2>11, <2>12, <2>13 DEF PutBehind, n
<1> QED  BY <1>2, <1>3, <1>4, <1>f DEF jqueue_push, n, scan

(* c, of m nodes from top, is the cache that is left when n is taken; all  *)
(* nodes up to last are n, in c or in the queue.                           *)
IsRest(c, m, top, n, last) ==
  /\ \A i \in 1 .. m, j \in 1 .. m : c[i] = c[j] => i = j
  /\ top = IF m = 0 THEN QNull ELSE c[1]
  /\ \A i \in 1 .. m : jq_next[c[i]] = IF i = m THEN QNull ELSE c[i + 1]
  /\ \A i \in 1 .. m : c[i] # n /\ \A j \in 1 .. jq_size : c[i] # jq_order[j]
  /\ \A k \in 1 .. last : \/ k = n
                          \/ \E i \in 1 .. m : c[i] = k
                          \/ \E j \in 1 .. jq_size : jq_order[j] = k

(* The node of a push is the top of the cache or a new one of the pool; it *)
(* is not in the queue, and what is left is the cache.                     *)
LEMMA FreshIs ==
  ASSUME JQueueInv, jq_size < MaxQueued, TakeNode, jq_size' = jq_size + 1
  PROVE  /\ FreshNode \in 1 .. jq_allocated' /\ jq_allocated' \in jq_size + 1 .. MaxQueued
         /\ jq_allocated <= jq_allocated'
         /\ \A i \in 1 .. jq_size : jq_order[i] # FreshNode
         /\ \E c \in [1 .. jq_allocated' - jq_size' -> 1 .. jq_allocated'] :
              IsRest(c, jq_allocated' - jq_size', jq_cache', FreshNode, jq_allocated')
<1> DEFINE m == jq_allocated - jq_size
           n == FreshNode
<1>0. jq_size \in Nat /\ jq_allocated \in Nat /\ m \in Nat /\ jq_allocated <= MaxQueued
      /\ jq_allocated = jq_size + m /\ MaxQueued \in Nat /\ jq_size < MaxQueued
  BY OrderFacts, JQueueAssumption
<1>1. PICK c \in [1 .. m -> 1 .. jq_allocated] : IsCache(c)
  BY DEF JQueueInv
<1>2. /\ \A i \in 1 .. m, j \in 1 .. m : c[i] = c[j] => i = j
      /\ jq_cache = IF m = 0 THEN QNull ELSE c[1]
      /\ \A i \in 1 .. m : jq_next[c[i]] = IF i = m THEN QNull ELSE c[i + 1]
      /\ \A i \in 1 .. m, j \in 1 .. jq_size : c[i] # jq_order[j]
      /\ \A k \in 1 .. jq_allocated : \/ \E i \in 1 .. m : c[i] = k
                                      \/ \E j \in 1 .. jq_size : jq_order[j] = k
  BY <1>1 DEF IsCache
<1>3. \A i \in 1 .. jq_size : jq_order[i] \in 1 .. jq_allocated
  BY DEF JQueueInv, QueueIsLinked
<1>4. \A i \in 1 .. m : c[i] \in 1 .. jq_allocated /\ c[i] # QNull
  BY <1>0, <1>1 DEF QNull
<1> HIDE DEF m
<1>5. CASE m = 0
  <2>1. n = jq_allocated + 1 /\ jq_allocated' = jq_allocated + 1 /\ jq_cache' = QNull
    BY <1>2, <1>5 DEF TakeNode, FreshNode
  <2>2. jq_allocated' - jq_size' = 0 /\ jq_allocated = jq_size
    BY <2>1, <1>0, <1>5
  <2> DEFINE e == [i \in 1 .. jq_allocated' - jq_size' |-> 1]
  <2>3. e \in [1 .. jq_allocated' - jq_size' -> 1 .. jq_allocated']
    BY <2>2
  <2>4. \A i \in 1 .. jq_size : jq_order[i] # n
    BY <1>0, <1>3, <2>1
  <2>5. \A k \in 1 .. jq_allocated' : k = n \/ \E j \in 1 .. jq_size : jq_order[j] = k
    <3> SUFFICES ASSUME NEW k \in 1 .. jq_allocated', k # n PROVE \E j \in 1 .. jq_size : jq_order[j] = k
      OBVIOUS
    <3>1. k \in 1 .. jq_allocated
      BY <1>0, <2>1
    <3> QED  BY <1>2, <1>5, <3>1
  <2>6. n \in 1 .. jq_allocated' /\ jq_allocated' \in jq_size + 1 .. MaxQueued /\ jq_allocated <= jq_allocated'
    BY <1>0, <2>1, <2>2
  <2> HIDE DEF e
  <2>7. IsRest(e, 0, jq_cache', n, jq_allocated')
    BY <2>1, <2>5 DEF IsRest
  <2> HIDE DEF n
  <2> QED  BY <2>2, <2>3, <2>4, <2>6, <2>7 DEF n
<1>6. CASE m # 0
  <2>0. 1 \in 1 .. m
    BY <1>0, <1>6
  <2>1. n = c[1] /\ jq_allocated' = jq_allocated /\ jq_cache' = jq_next[c[1]]
    BY <1>2, <1>4, <1>6, <2>0 DEF TakeNode, FreshNode
  <2>2. jq_allocated' - jq_size' = m - 1
    BY <2>1, <1>0
  <2> DEFINE e == [i \in 1 .. m - 1 |-> c[i + 1]]
  <2>3. \A i \in 1 .. m - 1 : i + 1 \in 1 .. m /\ i \in 1 .. m /\ e[i] = c[i + 1] /\ (i = m - 1 <=> i + 1 = m)
    BY <1>0, <1>6
  <2>4. e \in [1 .. m - 1 -> 1 .. jq_allocated]
    BY <1>4, <2>3
  <2>5. jq_cache' = IF m - 1 = 0 THEN QNull ELSE e[1]
    <3>1. m - 1 # 0 => 1 \in 1 .. m - 1 /\ 1 # m /\ e[1] = c[2]
      BY <1>0, <1>6
    <3>2. m - 1 = 0 => m = 1
      BY <1>0
    <3>3. jq_cache' = IF 1 = m THEN QNull ELSE c[1 + 1]
      BY <1>2, <2>0, <2>1
    <3> HIDE DEF e
    <3> QED  BY <3>1, <3>2, <3>3
  <2>6. \A i \in 1 .. m - 1 : jq_next[e[i]] = IF i = m - 1 THEN QNull ELSE e[i + 1]
    <3> SUFFICES ASSUME NEW i \in 1 .. m - 1 PROVE jq_next[e[i]] = IF i = m - 1 THEN QNull ELSE e[i + 1]
      OBVIOUS
    <3>1. i # m - 1 => i + 1 \in 1 .. m - 1
      BY <1>0
    <3>2. i # m - 1 => e[i + 1] = c[(i + 1) + 1]
      BY <3>1
    <3>3. jq_next[c[i + 1]] = IF i + 1 = m THEN QNull ELSE c[(i + 1) + 1]
      BY <1>2, <2>3
    <3> QED  BY <2>3, <3>2, <3>3
  <2>7. \A i \in 1 .. m - 1 : e[i] # n /\ \A j \in 1 .. jq_size : e[i] # jq_order[j]
    <3> SUFFICES ASSUME NEW i \in 1 .. m - 1 PROVE e[i] # n /\ \A j \in 1 .. jq_size : e[i] # jq_order[j]
      OBVIOUS
    <3>1. i + 1 \in 1 .. m /\ e[i] = c[i + 1] /\ i + 1 # 1
      BY <2>3, <1>0
    <3> QED  BY <1>2, <2>0, <2>1, <3>1
  <2>8. \A k \in 1 .. jq_allocated : \/ k = n
                                     \/ \E i \in 1 .. m - 1 : e[i] = k
                                     \/ \E j \in 1 .. jq_size : jq_order[j] = k
    <3> SUFFICES ASSUME NEW i \in 1 .. m, c[i] # n PROVE \E l \in 1 .. m - 1 : e[l] = c[i]
      BY <1>2
    <3>1. i - 1 \in 1 .. m - 1 /\ (i - 1) + 1 = i
      BY <1>0, <2>1
    <3> QED  BY <3>1
  <2>9. \A i \in 1 .. m - 1, j \in 1 .. m - 1 : e[i] = e[j] => i = j
    <3> SUFFICES ASSUME NEW i \in 1 .. m - 1, NEW j \in 1 .. m - 1, e[i] = e[j] PROVE i = j
      OBVIOUS
    <3>1. i + 1 = j + 1
      BY <1>2, <2>3
    <3> QED  BY <3>1
  <2>10. n \in 1 .. jq_allocated /\ \A i \in 1 .. jq_size : jq_order[i] # n
    BY <1>2, <1>4, <2>0, <2>1
  <2>11. jq_allocated \in jq_size + 1 .. MaxQueued
    BY <1>0, <1>6
  <2> HIDE DEF e, n
  <2>12. IsRest(e, m - 1, jq_cache', n, jq_allocated)
    BY <2>5, <2>6, <2>7, <2>8, <2>9 DEF IsRest
  <2> QED  BY <2>1, <2>2, <2>4, <2>10, <2>11, <2>12, <1>0 DEF n
<1> QED  BY <1>5, <1>6

(* A node behind all items that are not after it leaves a queue that is    *)
(* linked and sorted.                                                      *)
LEMMA PushKeepsQueue ==
  ASSUME JQueueInv, NEW n \in QNodes, n \in 1 .. jq_allocated', jq_allocated' \in jq_size + 1 .. MaxQueued,
         jq_allocated <= jq_allocated', \A i \in 1 .. jq_size : jq_order[i] # n,
         NEW p \in Priorities, jq_priority' = [jq_priority EXCEPT ![n] = p],
         NEW a \in 0 .. jq_size, PutBehind(a, n),
         \A i \in 1 .. a : jq_priority[jq_order[i]] <= p,
         \A i \in a + 1 .. jq_size : jq_priority[jq_order[i]] > p
  PROVE  /\ QueueIsLinked' /\ QueueIsSorted'
         /\ jq_size' = jq_size + 1 /\ jq_order' \in Seq(QNodes)
         /\ jq_front' \in QPointers /\ jq_back' \in QPointers
         /\ jq_next' \in [QNodes -> QPointers] /\ jq_prev' \in [QNodes -> QPointers]
         /\ \A m \in QNodes : /\ m # n
                              /\ \A j \in 1 .. jq_size : m # jq_order[j]
                              => jq_next'[m] = jq_next[m]
<1> DEFINE len == jq_size
           o == jq_order
           q == jq_order'
<1>0. len \in Nat /\ Len(o) = len /\ a \in Nat /\ a <= len /\ MaxQueued \in Nat /\ p \in Nat
      /\ \A i \in 1 .. len : o[i] \in QNodes /\ o[i] # QNull
  BY OrderFacts, JQueueAssumption
<1>1. /\ \A i \in 1 .. len, j \in 1 .. len : o[i] = o[j] => i = j
      /\ \A i \in 1 .. len : /\ jq_next[o[i]] = IF i = 1 THEN QNull ELSE o[i - 1]
                             /\ jq_prev[o[i]] = IF i = len THEN QNull ELSE o[i + 1]
      /\ \A i \in 1 .. len : o[i] \in 1 .. jq_allocated
      /\ jq_front = IF len = 0 THEN QNull ELSE o[1]
      /\ jq_back = IF len = 0 THEN QNull ELSE o[len]
  BY DEF JQueueInv, QueueIsLinked
<1>t. /\ jq_next \in [QNodes -> QPointers] /\ jq_prev \in [QNodes -> QPointers]
      /\ jq_front \in QPointers /\ jq_back \in QPointers
      /\ jq_priority \in [QNodes -> Priorities]
  BY DEF JQueueInv, JQueueTypeOK
<1>2. /\ jq_size' = len + 1
      /\ q = [i \in 1 .. len + 1 |-> IF i <= a THEN o[i] ELSE IF i = a + 1 THEN n ELSE o[i - 1]]
      /\ jq_front' = IF a = 0 THEN n ELSE jq_front
      /\ jq_back' = IF a = len THEN n ELSE jq_back
  BY <1>0 DEF PutBehind, Inserted
<1>3. \A m \in QNodes :
        /\ jq_next'[m] = IF m = n THEN IF a = 0 THEN QNull ELSE o[a]
                         ELSE IF a < len /\ m = o[a + 1] THEN n ELSE jq_next[m]
        /\ jq_prev'[m] = IF m = n THEN IF a = len THEN QNull ELSE o[a + 1]
                         ELSE IF a > 0 /\ m = o[a] THEN n ELSE jq_prev[m]
  BY DEF PutBehind
<1>4. /\ \A i \in 1 .. a : i \in 1 .. len /\ q[i] = o[i]
      /\ q[a + 1] = n
      /\ \A i \in a + 2 .. len + 1 : i - 1 \in 1 .. len /\ q[i] = o[i - 1]
  BY <1>0, <1>2
<1>5. jq_next' \in [QNodes -> QPointers] /\ jq_prev' \in [QNodes -> QPointers]
  <2>1. \A m \in QNodes : jq_next'[m] \in QPointers /\ jq_prev'[m] \in QPointers
    <3>1. a # 0 => a \in 1 .. len
      BY <1>0
    <3>2. a < len => a + 1 \in 1 .. len
      BY <1>0
    <3>3. a # len => a < len
      BY <1>0
    <3> QED  BY <1>0, <1>3, <1>t, <3>1, <3>2, <3>3 DEF QPointers
  <2>2. jq_next' = [m \in QNodes |-> jq_next'[m]] /\ jq_prev' = [m \in QNodes |-> jq_prev'[m]]
    BY DEF PutBehind
  <2> QED  BY <2>1, <2>2
<1>6. q \in [1 .. len + 1 -> 1 .. jq_allocated'] /\ q \in Seq(QNodes)
  <2>1. \A i \in 1 .. len + 1 : q[i] \in 1 .. jq_allocated' /\ q[i] \in QNodes
    <3> SUFFICES ASSUME NEW i \in 1 .. len + 1 PROVE q[i] \in 1 .. jq_allocated' /\ q[i] \in QNodes
      OBVIOUS
    <3>1. \A k \in 1 .. len : o[k] \in 1 .. jq_allocated'
      <4>1. jq_allocated \in Nat
        BY OrderFacts
      <4> QED  BY <1>1, <4>1
    <3>2. i \in 1 .. a \/ i = a + 1 \/ i \in a + 2 .. len + 1
      BY <1>0
    <3> QED  BY <1>0, <1>4, <3>1, <3>2
  <2>2. q \in [1 .. len + 1 -> 1 .. jq_allocated'] /\ q \in [1 .. len + 1 -> QNodes]
    BY <1>2, <2>1
  <2>3. len + 1 \in Nat
    BY <1>0
  <2> HIDE DEF q
  <2> QED  BY <2>2, <2>3, LenOf
<1>7. \A i \in 1 .. len + 1, j \in 1 .. len + 1 : q[i] = q[j] => i = j
  <2> SUFFICES ASSUME NEW i \in 1 .. len + 1, NEW j \in 1 .. len + 1, q[i] = q[j] PROVE i = j
    OBVIOUS
  <2>3. \A k \in 1 .. len : o[k] # n
    OBVIOUS
  <2> DEFINE Old(k) == IF k <= a THEN k ELSE k - 1
  <2>1. \A k \in 1 .. len + 1 : k # a + 1 => Old(k) \in 1 .. len /\ q[k] = o[Old(k)] /\ q[k] # n
    BY <1>0, <1>2, <2>3
  <2>2. \A k, l \in 1 .. len + 1 : k # a + 1 /\ l # a + 1 /\ Old(k) = Old(l) => k = l
    BY <1>0
  <2> HIDE DEF q, o, Old
  <2>4. CASE i = a + 1 \/ j = a + 1
    BY <1>4, <2>1, <2>4
  <2>5. CASE i # a + 1 /\ j # a + 1
    BY <1>1, <2>1, <2>2, <2>5
  <2> QED  BY <2>4, <2>5
<1>8. jq_front' = q[1] /\ jq_back' = q[len + 1]
  <2>1. CASE a = 0
    BY <2>1, <1>0, <1>1, <1>2
  <2>2. CASE a # 0
    BY <2>2, <1>0, <1>1, <1>2
  <2> QED  BY <2>1, <2>2
<1>9. ASSUME NEW i \in 1 .. len + 1
      PROVE  /\ jq_next'[q[i]] = IF i = 1 THEN QNull ELSE q[i - 1]
             /\ jq_prev'[q[i]] = IF i = len + 1 THEN QNull ELSE q[i + 1]
  <2>2. \A k \in 1 .. len : o[k] # n
    OBVIOUS
  <2> HIDE DEF q, o
  <2>1. i \in 1 .. a \/ i = a + 1 \/ i = a + 2 \/ i \in a + 3 .. len + 1
    BY <1>0
  <2>3. CASE i \in 1 .. a
    <3>1. i \in 1 .. len /\ q[i] = o[i] /\ o[i] # n /\ o[i] \in QNodes /\ i # len + 1 /\ a > 0 /\ a \in 1 .. len
      BY <1>0, <1>4, <2>2, <2>3
    <3>2. ~ (a < len /\ o[i] = o[a + 1])
      <4>1. a < len => a + 1 \in 1 .. len /\ i # a + 1
        BY <1>0, <2>3
      <4> QED  BY <1>1, <3>1, <4>1
    <3>3. jq_next'[q[i]] = IF i = 1 THEN QNull ELSE o[i - 1]
      BY <1>1, <1>3, <3>1, <3>2
    <3>4. i # 1 => i - 1 \in 1 .. a
      BY <1>0, <2>3
    <3>5. o[i] = o[a] <=> i = a
      BY <1>1, <3>1
    <3>6. jq_prev'[q[i]] = IF i = a THEN n ELSE IF i = len THEN QNull ELSE o[i + 1]
      BY <1>1, <1>3, <3>1, <3>5
    <3>7. i # a => i # len /\ i + 1 \in 1 .. a
      BY <1>0, <2>3
    <3> QED  BY <1>4, <3>1, <3>3, <3>4, <3>6, <3>7
  <2>4. CASE i = a + 1
    <3>1. q[i] = n /\ i - 1 = a
      BY <1>0, <1>4, <2>4
    <3>2. a # 0 => a \in 1 .. a /\ i # 1
      BY <1>0, <2>4
    <3>3. a = 0 => i = 1
      BY <2>4
    <3>4. i = len + 1 <=> a = len
      BY <1>0, <2>4
    <3>5. a # len => i + 1 \in a + 2 .. len + 1 /\ (i + 1) - 1 = a + 1
      BY <1>0, <2>4
    <3> QED  BY <1>3, <1>4, <3>1, <3>2, <3>3, <3>4, <3>5
  <2>5. CASE i = a + 2
    <3>1. i \in a + 2 .. len + 1 /\ i - 1 = a + 1 /\ a + 1 \in 1 .. len /\ a < len /\ i # 1
      BY <1>0, <2>5
    <3>2. q[i] = o[a + 1] /\ o[a + 1] \in QNodes /\ o[a + 1] # n
      BY <1>0, <1>4, <2>2, <3>1
    <3>3. jq_next'[q[i]] = q[i - 1]
      BY <1>3, <1>4, <3>1, <3>2
    <3>4. ~ (a > 0 /\ o[a + 1] = o[a])
      <4>1. a > 0 => a \in 1 .. len /\ a # a + 1
        BY <1>0
      <4> QED  BY <1>1, <3>1, <4>1
    <3>5. jq_prev'[q[i]] = IF a + 1 = len THEN QNull ELSE o[(a + 1) + 1]
      BY <1>1, <1>3, <3>1, <3>2, <3>4
    <3>6. i = len + 1 <=> a + 1 = len
      BY <1>0, <2>5
    <3>7. a + 1 # len => i + 1 \in a + 2 .. len + 1 /\ (i + 1) - 1 = (a + 1) + 1
      BY <1>0, <3>1, <2>5
    <3> QED  BY <1>4, <3>1, <3>3, <3>5, <3>6, <3>7
  <2>6. CASE i \in a + 3 .. len + 1
    <3> DEFINE k == i - 1
    <3>1. i \in a + 2 .. len + 1 /\ k \in 1 .. len /\ i # 1 /\ k # 1 /\ k # a + 1 /\ k # a
          /\ k \in a + 2 .. len + 1
      BY <1>0, <2>6
    <3>2. q[i] = o[k] /\ o[k] \in QNodes /\ o[k] # n
      BY <1>0, <1>4, <2>2, <3>1
    <3>3. ~ (a < len /\ o[k] = o[a + 1])
      <4>1. a < len => a + 1 \in 1 .. len
        BY <1>0
      <4> QED  BY <1>1, <3>1, <4>1
    <3>4. ~ (a > 0 /\ o[k] = o[a])
      <4>1. a > 0 => a \in 1 .. len
        BY <1>0
      <4> QED  BY <1>1, <3>1, <4>1
    <3>5. jq_next'[q[i]] = o[k - 1] /\ jq_prev'[q[i]] = IF k = len THEN QNull ELSE o[k + 1]
      BY <1>1, <1>3, <3>1, <3>2, <3>3, <3>4
    <3>6. i = len + 1 <=> k = len
      BY <1>0, <2>6
    <3>7. i # len + 1 => i + 1 \in a + 2 .. len + 1 /\ (i + 1) - 1 = k + 1
      BY <1>0, <2>6
    <3>8. q[i - 1] = o[k - 1]
      BY <1>4, <3>1
    <3>9. i # len + 1 => q[i + 1] = o[k + 1]
      BY <1>4, <3>7
    <3> QED  BY <3>1, <3>5, <3>6, <3>8, <3>9
  <2> QED  BY <2>1, <2>3, <2>4, <2>5, <2>6
<1>10. QueueIsLinked'
  <2>1. /\ jq_order' \in [1 .. jq_size' -> 1 .. jq_allocated']
        /\ \A i \in 1 .. jq_size', j \in 1 .. jq_size' : jq_order'[i] = jq_order'[j] => i = j
        /\ jq_size' # 0
        /\ jq_front' = jq_order'[1] /\ jq_back' = jq_order'[jq_size']
    BY <1>0, <1>2, <1>6, <1>7, <1>8
  <2>2. \A i \in 1 .. jq_size' :
          /\ jq_next'[jq_order'[i]] = IF i = 1 THEN QNull ELSE jq_order'[i - 1]
          /\ jq_prev'[jq_order'[i]] = IF i = jq_size' THEN QNull ELSE jq_order'[i + 1]
    BY <1>2, <1>9
  <2> QED  BY <2>1, <2>2 DEF QueueIsLinked
<1>11. QueueIsSorted'
  <2>1. ASSUME NEW i \in 1 .. len + 1, NEW j \in 1 .. len + 1, i <= j
        PROVE  jq_priority'[q[i]] <= jq_priority'[q[j]]
    <3>1. jq_priority'[n] = p /\ \A k \in 1 .. len : jq_priority'[o[k]] = jq_priority[o[k]]
      BY <1>0, <1>t
    <3>2. \A k \in 1 .. len, l \in 1 .. len : k <= l => jq_priority[o[k]] <= jq_priority[o[l]]
      BY DEF JQueueInv, QueueIsSorted
    <3>3. \A k \in 1 .. len : jq_priority[o[k]] \in Nat
      BY OrderFacts
    <3>4. \A k \in 1 .. a : jq_priority[o[k]] <= p
      OBVIOUS
    <3>5. \A k \in 1 .. len : k > a => jq_priority[o[k]] > p
      BY <1>0
    <3> HIDE DEF q, o
    <3>6. i \in 1 .. a \/ i = a + 1 \/ i \in a + 2 .. len + 1
      BY <1>0
    <3>7. j \in 1 .. a \/ j = a + 1 \/ j \in a + 2 .. len + 1
      BY <1>0
    <3>8. CASE i \in 1 .. a
      <4>1. q[i] = o[i] /\ i \in 1 .. len /\ jq_priority[o[i]] <= p /\ jq_priority'[q[i]] = jq_priority[o[i]]
        BY <1>4, <3>1, <3>4, <3>8
      <4>2. CASE j \in 1 .. a
        BY <1>4, <2>1, <3>1, <3>2, <4>1, <4>2
      <4>3. CASE j = a + 1
        BY <1>4, <3>1, <4>1, <4>3
      <4>4. CASE j \in a + 2 .. len + 1
        <5>1. j - 1 \in 1 .. len /\ i <= j - 1 /\ jq_priority'[q[j]] = jq_priority[o[j - 1]]
          BY <1>0, <1>4, <3>1, <3>8, <4>4
        <5> QED  BY <3>2, <4>1, <5>1
      <4> QED  BY <3>7, <4>2, <4>3, <4>4
    <3>9. CASE i = a + 1
      <4>1. jq_priority'[q[i]] = p
        BY <1>4, <3>1, <3>9
      <4>2. CASE j = a + 1
        BY <4>1, <4>2, <3>9, <1>0
      <4>3. CASE j \in a + 2 .. len + 1
        <5>1. j - 1 \in 1 .. len /\ j - 1 > a /\ jq_priority'[q[j]] = jq_priority[o[j - 1]]
          BY <1>0, <1>4, <3>1, <4>3
        <5> QED  BY <1>0, <3>3, <3>5, <4>1, <5>1
      <4>4. j \notin 1 .. a
        BY <1>0, <2>1, <3>9
      <4> QED  BY <3>7, <4>2, <4>3, <4>4
    <3>10. CASE i \in a + 2 .. len + 1
      <4>1. j \in a + 2 .. len + 1
        BY <1>0, <2>1, <3>7, <3>10
      <4>2. i - 1 \in 1 .. len /\ j - 1 \in 1 .. len /\ i - 1 <= j - 1
        BY <1>0, <2>1, <3>10, <4>1
      <4>3. jq_priority'[q[i]] = jq_priority[o[i - 1]] /\ jq_priority'[q[j]] = jq_priority[o[j - 1]]
        BY <1>4, <3>1, <3>10, <4>1
      <4> QED  BY <3>2, <4>2, <4>3
    <3> QED  BY <3>6, <3>8, <3>9, <3>10
  <2> QED  BY <1>2, <2>1 DEF QueueIsSorted
<1>12. jq_front' \in QPointers /\ jq_back' \in QPointers
  BY <1>2, <1>t DEF QPointers
<1>13. \A m \in QNodes : /\ m # n
                         /\ \A j \in 1 .. jq_size : m # jq_order[j]
                         => jq_next'[m] = jq_next[m]
  <2>1. a < len => a + 1 \in 1 .. len
    BY <1>0
  <2> QED  BY <1>3, <2>1
<1> QED  BY <1>2, <1>5, <1>6, <1>10, <1>11, <1>12, <1>13

(* Where a push puts its node.                                             *)
LEMMA PushGoes ==
  ASSUME JQueueInv, NEW d \in QData, NEW p \in Priorities, jqueue_push(d, p)
  PROVE  /\ FreshNode \in QNodes /\ \A i \in 1 .. jq_size : jq_order[i] # FreshNode
         /\ \E a \in 0 .. jq_size :
              /\ PutBehind(a, FreshNode)
              /\ \A i \in 1 .. a : jq_priority[jq_order[i]] <= p
              /\ \A i \in a + 1 .. jq_size : jq_priority[jq_order[i]] > p
<1>1. jq_size < MaxQueued /\ jq_size' = jq_size + 1 /\ TakeNode
  BY DEF jqueue_push
<1>2. FreshNode \in QNodes /\ \A i \in 1 .. jq_size : jq_order[i] # FreshNode
  <2>1. /\ FreshNode \in 1 .. jq_allocated' /\ jq_allocated' \in jq_size + 1 .. MaxQueued
        /\ \A i \in 1 .. jq_size : jq_order[i] # FreshNode
    BY <1>1, FreshIs
  <2>2. jq_size \in Nat /\ MaxQueued \in Nat
    BY OrderFacts, JQueueAssumption
  <2> QED  BY <2>1, <2>2 DEF QNodes
<1>3. PICK a \in 0 .. jq_size :
           /\ \A i \in 1 .. a : jq_priority[jq_order[i]] <= p
           /\ \A i \in a + 1 .. jq_size : jq_priority[jq_order[i]] > p
           /\ QScan(p) = IF a = 0 THEN QNull ELSE jq_order[a]
  BY ScanFinds
<1>4. PutBehind(a, FreshNode)
  BY <1>2, <1>3, PushPuts
<1> QED  BY <1>2, <1>3, <1>4

(* A push.                                                                 *)
LEMMA PushKeeps ==
  ASSUME JQueueInv, NEW d \in QData, NEW p \in Priorities, jqueue_push(d, p)
  PROVE  JQueueInv'
<1> DEFINE n == FreshNode
<1>1. /\ jq_size < MaxQueued /\ jq_size' = jq_size + 1 /\ TakeNode
      /\ jq_data' = [jq_data EXCEPT ![n] = d] /\ jq_priority' = [jq_priority EXCEPT ![n] = p]
      /\ jq_pulled' = jq_pulled
  BY DEF jqueue_push
<1>2. n \in QNodes /\ \A i \in 1 .. jq_size : jq_order[i] # n
  BY PushGoes
<1>3. PICK a \in 0 .. jq_size :
              /\ PutBehind(a, n)
              /\ \A i \in 1 .. a : jq_priority[jq_order[i]] <= p
              /\ \A i \in a + 1 .. jq_size : jq_priority[jq_order[i]] > p
  BY PushGoes
<1>4. /\ n \in 1 .. jq_allocated' /\ jq_allocated' \in jq_size + 1 .. MaxQueued
      /\ jq_allocated <= jq_allocated'
  BY <1>1, FreshIs
<1>5. PICK c \in [1 .. jq_allocated' - jq_size' -> 1 .. jq_allocated'] :
              IsRest(c, jq_allocated' - jq_size', jq_cache', n, jq_allocated')
  BY <1>1, FreshIs
<1> HIDE DEF n
<1>6. /\ QueueIsLinked' /\ QueueIsSorted'
      /\ jq_order' \in Seq(QNodes)
      /\ jq_front' \in QPointers /\ jq_back' \in QPointers
      /\ jq_next' \in [QNodes -> QPointers] /\ jq_prev' \in [QNodes -> QPointers]
      /\ \A m \in QNodes : /\ m # n
                           /\ \A j \in 1 .. jq_size : m # jq_order[j]
                           => jq_next'[m] = jq_next[m]
  BY <1>1, <1>2, <1>3, <1>4, PushKeepsQueue
<1> DEFINE m == jq_allocated' - jq_size'
<1>7. jq_size \in Nat /\ MaxQueued \in Nat /\ jq_size' \in 0 .. MaxQueued /\ jq_size' <= jq_allocated'
      /\ jq_allocated' \in 0 .. MaxQueued /\ jq_size' \in Nat /\ m \in Nat /\ jq_allocated' \in Nat
  BY <1>1, <1>4, OrderFacts, JQueueAssumption
<1>8. \A i \in 1 .. m : c[i] \in QNodes /\ c[i] # QNull
  <2>1. \A i \in 1 .. m : c[i] \in 1 .. jq_allocated'
    BY <1>5
  <2>2. \A k \in 1 .. jq_allocated' : k \in QNodes /\ k # QNull
    BY <1>7 DEF QNodes, QNull
  <2> QED  BY <2>1, <2>2
<1> HIDE DEF m
<1>9. jq_cache' \in QPointers
  <2>1. jq_cache' = IF m = 0 THEN QNull ELSE c[1]
    BY <1>5 DEF IsRest, m
  <2>2. m # 0 => 1 \in 1 .. m
    BY <1>7
  <2> QED  BY <1>8, <2>1, <2>2 DEF QPointers
<1>10. JQueueTypeOK'
  <2>1. jq_data' \in [QNodes -> QData] /\ jq_priority' \in [QNodes -> Priorities] /\ jq_pulled' \in Seq(QData)
    BY <1>1, <1>2 DEF JQueueInv, JQueueTypeOK
  <2> QED  BY <1>6, <1>7, <1>9, <2>1 DEF JQueueTypeOK
<1>11. \A i \in 1 .. jq_size + 1 :
         IF i <= a THEN jq_order'[i] = jq_order[i]
         ELSE IF i = a + 1 THEN jq_order'[i] = n ELSE jq_order'[i] = jq_order[i - 1]
  BY <1>3, OrderFacts DEF PutBehind, Inserted
<1>12. \A j \in 1 .. jq_size' : jq_order'[j] = n \/ \E i \in 1 .. jq_size : jq_order'[j] = jq_order[i]
  <2> SUFFICES ASSUME NEW j \in 1 .. jq_size'
               PROVE jq_order'[j] = n \/ \E i \in 1 .. jq_size : jq_order'[j] = jq_order[i]
    OBVIOUS
  <2>1. CASE j <= a
    BY <1>1, <1>7, <1>11, <2>1
  <2>2. CASE j = a + 1
    BY <1>1, <1>7, <1>11, <2>2
  <2>3. CASE j > a + 1
    <3>1. j - 1 \in 1 .. jq_size /\ j \in 1 .. jq_size + 1 /\ ~ (j <= a) /\ j # a + 1
      BY <1>1, <1>7, <2>3
    <3> QED  BY <1>11, <3>1
  <2> QED  BY <1>7, <2>1, <2>2, <2>3
<1>13. /\ \E j \in 1 .. jq_size' : jq_order'[j] = n
       /\ \A i \in 1 .. jq_size : \E j \in 1 .. jq_size' : jq_order'[j] = jq_order[i]
  <2>1. a + 1 \in 1 .. jq_size' /\ jq_order'[a + 1] = n
    BY <1>1, <1>7, <1>11
  <2>2. ASSUME NEW i \in 1 .. jq_size PROVE \E j \in 1 .. jq_size' : jq_order'[j] = jq_order[i]
    <3>1. CASE i <= a
      BY <1>1, <1>7, <1>11, <3>1
    <3>2. CASE i > a
      <4>1. i + 1 \in 1 .. jq_size' /\ i + 1 \in 1 .. jq_size + 1 /\ (i + 1) - 1 = i /\ ~ (i + 1 <= a) /\ i + 1 # a + 1
        BY <1>1, <1>7, <3>2
      <4> QED  BY <1>11, <4>1
    <3> QED  BY <1>7, <3>1, <3>2
  <2> QED  BY <2>1, <2>2
<1>14. IsCache(c)'
  <2>1. \A i \in 1 .. m : jq_next'[c[i]] = IF i = m THEN QNull ELSE c[i + 1]
    BY <1>5, <1>6, <1>8 DEF IsRest, m
  <2>2. \A i \in 1 .. m, j \in 1 .. jq_size' : c[i] # jq_order'[j]
    BY <1>5, <1>12 DEF IsRest, m
  <2>3. \A k \in 1 .. jq_allocated' : \/ \E i \in 1 .. m : c[i] = k
                                      \/ \E j \in 1 .. jq_size' : jq_order'[j] = k
    BY <1>5, <1>13 DEF IsRest, m
  <2>4. /\ \A i \in 1 .. m, j \in 1 .. m : c[i] = c[j] => i = j
        /\ jq_cache' = IF m = 0 THEN QNull ELSE c[1]
    BY <1>5 DEF IsRest, m
  <2> QED  BY <2>1, <2>2, <2>3, <2>4 DEF IsCache, m
<1> QED  BY <1>5, <1>6, <1>7, <1>10, <1>14 DEF JQueueInv

(* A pull: the front goes to the top of the cache.                         *)
LEMMA PullKeeps ==
  ASSUME JQueueInv, PullFront
  PROVE  JQueueInv'
<1> DEFINE n == jq_front
           len == jq_size
           o == jq_order
           q == jq_order'
           m == jq_allocated - jq_size
<1>1. /\ n # QNull /\ jq_pulled' = <<jq_data[n]>>
      /\ jq_next' = [k \in QNodes |-> IF k = n THEN jq_cache ELSE IF k = jq_prev[n] THEN QNull ELSE jq_next[k]]
      /\ jq_cache' = n /\ jq_back' = IF jq_prev[n] = QNull THEN QNull ELSE jq_back
      /\ jq_front' = jq_prev[n] /\ jq_size' = len - 1 /\ q = Tail(o)
      /\ jq_data' = jq_data /\ jq_priority' = jq_priority /\ jq_prev' = jq_prev /\ jq_allocated' = jq_allocated
  BY DEF PullFront, QCut, ToCache, NewBack
<1>2. /\ len \in Nat /\ Len(o) = len /\ jq_allocated \in Nat /\ MaxQueued \in Nat
      /\ m \in Nat /\ jq_allocated = len + m /\ jq_allocated <= MaxQueued
      /\ \A i \in 1 .. len : o[i] \in QNodes /\ o[i] # QNull
  BY OrderFacts, JQueueAssumption
<1>3. /\ \A i \in 1 .. len, j \in 1 .. len : o[i] = o[j] => i = j
      /\ \A i \in 1 .. len : /\ jq_next[o[i]] = IF i = 1 THEN QNull ELSE o[i - 1]
                             /\ jq_prev[o[i]] = IF i = len THEN QNull ELSE o[i + 1]
      /\ \A i \in 1 .. len : o[i] \in 1 .. jq_allocated
      /\ jq_front = IF len = 0 THEN QNull ELSE o[1]
      /\ jq_back = IF len = 0 THEN QNull ELSE o[len]
  BY DEF JQueueInv, QueueIsLinked
<1>t. /\ jq_next \in [QNodes -> QPointers] /\ jq_prev \in [QNodes -> QPointers]
      /\ jq_front \in QPointers /\ jq_back \in QPointers /\ jq_cache \in QPointers
      /\ jq_priority \in [QNodes -> Priorities] /\ jq_data \in [QNodes -> QData]
      /\ o \in Seq(QNodes)
  BY DEF JQueueInv, JQueueTypeOK
<1>4. len # 0 /\ n = o[1] /\ 1 \in 1 .. len /\ n \in QNodes /\ n \in 1 .. jq_allocated
  BY <1>1, <1>2, <1>3
<1>5. jq_prev[n] = IF len = 1 THEN QNull ELSE o[2]
  BY <1>2, <1>3, <1>4
<1>6. q = [i \in 1 .. len - 1 |-> o[i + 1]] /\ q \in Seq(QNodes)
  <2>1. o # <<>>
    BY <1>2, <1>4
  <2> DEFINE u == Tail(o)
  <2>2. u \in Seq(QNodes) /\ Len(u) = len - 1 /\ \A i \in 1 .. len - 1 : u[i] = o[i + 1]
    BY <1>2, <1>t, <2>1, HeadTailProperties
  <2> HIDE DEF u
  <2>3. u = [i \in 1 .. Len(u) |-> u[i]]
    BY <2>2
  <2>4. u = [i \in 1 .. len - 1 |-> o[i + 1]]
    BY <2>2, <2>3
  <2> QED  BY <1>1, <2>2, <2>4 DEF u
<1>7. \A i \in 1 .. len - 1 : i + 1 \in 1 .. len /\ i \in 1 .. len /\ q[i] = o[i + 1] /\ q[i] # n
  BY <1>2, <1>3, <1>4, <1>6
<1>8. \A k \in QNodes : jq_next'[k] = IF k = n THEN jq_cache ELSE IF k = jq_prev[n] THEN QNull ELSE jq_next[k]
  BY <1>1
<1>9. QueueIsLinked'
  <2>1. q \in [1 .. len - 1 -> 1 .. jq_allocated]
    BY <1>3, <1>6, <1>7
  <2>2. \A i \in 1 .. len - 1, j \in 1 .. len - 1 : q[i] = q[j] => i = j
    <3> SUFFICES ASSUME NEW i \in 1 .. len - 1, NEW j \in 1 .. len - 1, q[i] = q[j] PROVE i = j
      OBVIOUS
    <3>1. i + 1 = j + 1
      BY <1>3, <1>7
    <3> QED  BY <3>1
  <2>3. jq_front' = IF len - 1 = 0 THEN QNull ELSE q[1]
    <3>1. len # 1 => 1 \in 1 .. len - 1 /\ 1 + 1 = 2
      BY <1>2, <1>4
    <3>2. len - 1 = 0 <=> len = 1
      BY <1>2
    <3>3. len # 1 => q[1] = o[2]
      BY <1>7, <3>1
    <3> HIDE DEF q, o
    <3> QED  BY <1>1, <1>5, <3>2, <3>3
  <2>4. jq_back' = IF len - 1 = 0 THEN QNull ELSE q[len - 1]
    <3>1. len # 1 => len - 1 \in 1 .. len - 1 /\ (len - 1) + 1 = len /\ 2 \in 1 .. len
      BY <1>2, <1>4
    <3>2. len - 1 = 0 <=> len = 1
      BY <1>2
    <3>3. len # 1 => q[len - 1] = o[len] /\ jq_prev[n] # QNull
      BY <1>2, <1>5, <1>7, <3>1
    <3> QED  BY <1>1, <1>3, <1>4, <1>5, <3>2, <3>3
  <2>5. ASSUME NEW i \in 1 .. len - 1
        PROVE  /\ jq_next'[q[i]] = IF i = 1 THEN QNull ELSE q[i - 1]
               /\ jq_prev[q[i]] = IF i = len - 1 THEN QNull ELSE q[i + 1]
    <3>1. i + 1 \in 1 .. len /\ q[i] = o[i + 1] /\ q[i] # n /\ q[i] \in QNodes
      BY <1>2, <1>7
    <3>2. len # 1 /\ 2 \in 1 .. len /\ jq_prev[n] = o[2]
      BY <1>2, <1>5
    <3>3. ASSUME i = 1 PROVE jq_next'[q[i]] = IF i = 1 THEN QNull ELSE q[i - 1]
      <4>1. i + 1 = 2
        BY <3>3
      <4>2. q[i] = jq_prev[n]
        BY <3>1, <3>2, <4>1
      <4> QED  BY <1>8, <3>1, <3>3, <4>2
    <3>4. ASSUME i # 1 PROVE jq_next'[q[i]] = IF i = 1 THEN QNull ELSE q[i - 1]
      <4>1. i + 1 # 2 /\ i + 1 # 1 /\ i - 1 \in 1 .. len - 1 /\ (i - 1) + 1 = (i + 1) - 1
        BY <1>2, <3>4
      <4>2. q[i] # o[2]
        BY <1>3, <3>1, <3>2, <4>1
      <4>3. jq_next'[q[i]] = o[(i + 1) - 1]
        BY <1>3, <1>8, <3>1, <3>2, <4>1, <4>2
      <4>4. q[i - 1] = o[(i + 1) - 1]
        BY <1>7, <4>1
      <4> QED  BY <3>4, <4>3, <4>4
    <3>5. jq_prev[q[i]] = IF i + 1 = len THEN QNull ELSE o[(i + 1) + 1]
      BY <1>3, <3>1
    <3>6. i + 1 = len <=> i = len - 1
      BY <1>2
    <3>7. i # len - 1 => i + 1 \in 1 .. len - 1
      BY <1>2
    <3>8. i # len - 1 => q[i + 1] = o[(i + 1) + 1]
      BY <1>7, <3>7
    <3>9. jq_next'[q[i]] = IF i = 1 THEN QNull ELSE q[i - 1]
      BY <3>3, <3>4
    <3> QED  BY <3>5, <3>6, <3>8, <3>9
  <2> HIDE DEF q, o
  <2> QED  BY <1>1, <2>1, <2>2, <2>3, <2>4, <2>5 DEF QueueIsLinked, q
<1>10. QueueIsSorted'
  <2>1. ASSUME NEW i \in 1 .. len - 1, NEW j \in 1 .. len - 1, i <= j
        PROVE  jq_priority[q[i]] <= jq_priority[q[j]]
    <3>1. i + 1 \in 1 .. len /\ j + 1 \in 1 .. len /\ i + 1 <= j + 1
      BY <1>2, <2>1
    <3>2. q[i] = o[i + 1] /\ q[j] = o[j + 1]
      BY <1>7
    <3> QED  BY <3>1, <3>2 DEF JQueueInv, QueueIsSorted
  <2> QED  BY <1>1, <2>1 DEF QueueIsSorted
<1>11. PICK c \in [1 .. m -> 1 .. jq_allocated] : IsCache(c)
  BY DEF JQueueInv
<1>12. /\ \A i \in 1 .. m, j \in 1 .. m : c[i] = c[j] => i = j
       /\ jq_cache = IF m = 0 THEN QNull ELSE c[1]
       /\ \A i \in 1 .. m : jq_next[c[i]] = IF i = m THEN QNull ELSE c[i + 1]
       /\ \A i \in 1 .. m, j \in 1 .. len : c[i] # o[j]
       /\ \A k \in 1 .. jq_allocated : \/ \E i \in 1 .. m : c[i] = k
                                       \/ \E j \in 1 .. len : o[j] = k
  BY <1>11 DEF IsCache
<1>13. \A i \in 1 .. m : c[i] \in QNodes /\ c[i] \in 1 .. jq_allocated /\ c[i] # n
  <2>1. \A i \in 1 .. m : c[i] \in 1 .. jq_allocated
    BY <1>11
  <2>2. \A k \in 1 .. jq_allocated : k \in QNodes
    BY <1>2 DEF QNodes
  <2> QED  BY <1>4, <1>12, <2>1, <2>2
<1> HIDE DEF m
<1>14. /\ \A i \in 2 .. m + 1 : i - 1 \in 1 .. m /\ i \in 1 .. m + 1
       /\ \A i \in 1 .. m + 1 : i = 1 \/ i \in 2 .. m + 1
       /\ 1 \in 1 .. m + 1
  BY <1>2
<1>15. PICK e \in [1 .. m + 1 -> 1 .. jq_allocated] :
         e[1] = n /\ \A i \in 2 .. m + 1 : e[i] = c[i - 1]
  <2> DEFINE f == [i \in 1 .. m + 1 |-> IF i = 1 THEN n ELSE c[i - 1]]
  <2>1. f \in [1 .. m + 1 -> 1 .. jq_allocated]
    BY <1>4, <1>13, <1>14
  <2>2. f[1] = n /\ \A i \in 2 .. m + 1 : f[i] = c[i - 1]
    BY <1>14
  <2> HIDE DEF f
  <2> QED  BY <2>1, <2>2
<1>16. IsCache(e)'
  <2>1. jq_allocated' - jq_size' = m + 1
    BY <1>1, <1>2 DEF m
  <2>2. ASSUME NEW i \in 1 .. m + 1, NEW j \in 1 .. m + 1, e[i] = e[j] PROVE i = j
    <3>1. CASE i = 1
      BY <1>13, <1>14, <1>15, <2>2, <3>1
    <3>2. CASE j = 1
      BY <1>13, <1>14, <1>15, <2>2, <3>2
    <3>3. CASE i # 1 /\ j # 1
      <4>1. i - 1 = j - 1
        BY <1>12, <1>13, <1>14, <1>15, <2>2, <3>3
      <4> QED  BY <4>1
    <3> QED  BY <3>1, <3>2, <3>3
  <2>3. m + 1 # 0
    BY <1>2
  <2>4. ASSUME NEW i \in 1 .. m + 1 PROVE jq_next'[e[i]] = IF i = m + 1 THEN QNull ELSE e[i + 1]
    <3>1. CASE i = 1
      <4>1. m # 0 => 2 \in 2 .. m + 1 /\ 2 - 1 = 1
        BY <1>2
      <4>2. m # 0 => e[2] = c[1]
        BY <1>13, <1>14, <1>15, <4>1
      <4>3. jq_next'[e[i]] = jq_cache
        BY <1>4, <1>8, <1>13, <1>14, <1>15, <3>1
      <4>4. i = m + 1 <=> m = 0
        BY <1>2, <3>1
      <4> QED  BY <1>12, <3>1, <4>2, <4>3, <4>4
    <3>2. CASE i # 1
      <4> DEFINE k == i - 1
      <4>1. k \in 1 .. m /\ e[i] = c[k] /\ c[k] # n /\ c[k] \in QNodes
        BY <1>13, <1>14, <1>15, <3>2
      <4>2. c[k] # jq_prev[n]
        <5>1. jq_prev[n] # QNull => 2 \in 1 .. len /\ jq_prev[n] = o[2]
          BY <1>2, <1>4, <1>5
        <5>2. c[k] # QNull
          BY <4>1 DEF QNodes, QNull
        <5> QED  BY <1>12, <4>1, <5>1, <5>2
      <4>3. jq_next'[e[i]] = IF k = m THEN QNull ELSE c[k + 1]
        BY <1>8, <1>12, <4>1, <4>2
      <4>4. k = m <=> i = m + 1
        BY <1>2
      <4>5. k # m => i + 1 \in 2 .. m + 1 /\ (i + 1) - 1 = k + 1
        BY <1>2, <4>1
      <4>6. k # m => e[i + 1] = c[k + 1]
        BY <1>13, <1>14, <1>15, <4>5
      <4> QED  BY <4>3, <4>4, <4>6
    <3> QED  BY <3>1, <3>2
  <2>5. ASSUME NEW i \in 1 .. m + 1, NEW j \in 1 .. len - 1 PROVE e[i] # q[j]
    <3>1. CASE i = 1
      BY <1>7, <1>14, <1>15, <3>1
    <3>2. CASE i # 1
      BY <1>7, <1>12, <1>14, <1>15, <3>2
    <3> QED  BY <3>1, <3>2
  <2>6. ASSUME NEW k \in 1 .. jq_allocated
        PROVE  \/ \E i \in 1 .. m + 1 : e[i] = k
               \/ \E j \in 1 .. len - 1 : q[j] = k
    <3>1. ASSUME NEW i \in 1 .. m, c[i] = k PROVE \E l \in 1 .. m + 1 : e[l] = k
      <4>1. i + 1 \in 2 .. m + 1 /\ (i + 1) - 1 = i
        BY <1>2
      <4> QED  BY <1>13, <1>14, <1>15, <3>1, <4>1
    <3>2. ASSUME NEW j \in 1 .. len, o[j] = k
          PROVE  \/ \E i \in 1 .. m + 1 : e[i] = k
                 \/ \E l \in 1 .. len - 1 : q[l] = k
      <4>1. CASE j = 1
        BY <1>4, <1>13, <1>14, <1>15, <3>2, <4>1
      <4>2. CASE j # 1
        <5>1. j - 1 \in 1 .. len - 1 /\ (j - 1) + 1 = j
          BY <1>2, <4>2
        <5> QED  BY <1>7, <3>2, <5>1
      <4> QED  BY <4>1, <4>2
    <3> QED  BY <1>12, <3>1, <3>2
  <2>7. jq_cache' = IF m + 1 = 0 THEN QNull ELSE e[1]
    BY <1>1, <1>13, <1>14, <1>15, <2>3
  <2>8. jq_size' = len - 1 /\ jq_allocated' = jq_allocated
    BY <1>1
  <2>9. /\ \A i \in 1 .. jq_allocated' - jq_size', j \in 1 .. jq_allocated' - jq_size' : e[i] = e[j] => i = j
        /\ jq_cache' = IF jq_allocated' - jq_size' = 0 THEN QNull ELSE e[1]
        /\ \A i \in 1 .. jq_allocated' - jq_size' :
             jq_next'[e[i]] = IF i = jq_allocated' - jq_size' THEN QNull ELSE e[i + 1]
    BY <2>1, <2>2, <2>4, <2>7
  <2>10. /\ \A i \in 1 .. jq_allocated' - jq_size', j \in 1 .. jq_size' : e[i] # jq_order'[j]
         /\ \A k \in 1 .. jq_allocated' : \/ \E i \in 1 .. jq_allocated' - jq_size' : e[i] = k
                                          \/ \E j \in 1 .. jq_size' : jq_order'[j] = k
    BY <2>1, <2>5, <2>6, <2>8
  <2> QED  BY <2>9, <2>10 DEF IsCache
<1>17. JQueueTypeOK'
  <2>1. jq_next' \in [QNodes -> QPointers]
    BY <1>1, <1>t DEF QPointers
  <2>2. jq_size' \in 0 .. MaxQueued /\ jq_allocated' \in 0 .. MaxQueued
    BY <1>1, <1>2, <1>4
  <2>3. jq_cache' \in QPointers /\ jq_front' \in QPointers /\ jq_back' \in QPointers
    BY <1>1, <1>4, <1>t DEF QPointers
  <2>4. jq_pulled' \in Seq(QData)
    BY <1>1, <1>4, <1>t
  <2> QED  BY <1>1, <1>6, <1>t, <2>1, <2>2, <2>3, <2>4 DEF JQueueTypeOK
<1>18. jq_size' <= jq_allocated'
  BY <1>1, <1>2
<1>19. e \in [1 .. jq_allocated' - jq_size' -> 1 .. jq_allocated']
  BY <1>1, <1>2, <1>15 DEF m
<1> QED  BY <1>9, <1>10, <1>16, <1>17, <1>18, <1>19 DEF JQueueInv

(* A new queue.                                                            *)
LEMMA JQueueInvInit ==
  ASSUME JQueueInit PROVE JQueueInv
<1> USE DEF JQueueInit
<1>a. 0 \in 0 .. MaxQueued
  BY JQueueAssumption
<1>1. jq_order = <<>> /\ jq_size = 0 /\ jq_allocated = 0
  OBVIOUS
<1>2. jq_data \in [QNodes -> QData] /\ jq_priority \in [QNodes -> Priorities]
  <2>1. (CHOOSE d \in QData : TRUE) \in QData /\ (CHOOSE p \in Priorities : TRUE) \in Priorities
    BY JQueueAssumption
  <2> DEFINE d == CHOOSE x \in QData : TRUE
             p == CHOOSE x \in Priorities : TRUE
  <2>2. d \in QData /\ p \in Priorities
    BY <2>1
  <2>3. jq_data \in [QNodes -> {d}] /\ jq_priority \in [QNodes -> {p}]
    OBVIOUS
  <2> HIDE DEF d, p
  <2> QED  BY <2>2, <2>3
<1>3. JQueueTypeOK
  BY <1>a, <1>1, <1>2 DEF JQueueTypeOK, QPointers
<1>4. jq_order \in [1 .. 0 -> 1 .. 0]
  BY <1>1
<1>5. QueueIsLinked /\ QueueIsSorted
  BY <1>1, <1>4 DEF QueueIsLinked, QueueIsSorted
<1>6. \E c \in [1 .. jq_allocated - jq_size -> 1 .. jq_allocated] : IsCache(c)
  <2>1. jq_order \in [1 .. jq_allocated - jq_size -> 1 .. jq_allocated]
    BY <1>1, <1>4
  <2>2. IsCache(jq_order)
    BY <1>1 DEF IsCache
  <2> QED  BY <2>1, <2>2
<1>7. jq_size <= jq_allocated
  BY <1>1
<1> QED  BY <1>3, <1>5, <1>6, <1>7 DEF JQueueInv

(* The invariant is about these variables only.                            *)
LEMMA JQueueInvStays ==
  ASSUME JQueueInv, UNCHANGED <<jq_size, jq_cache, jq_front, jq_back, jqueueNodeVars, jq_allocated, jq_order>>,
         jq_pulled' \in Seq(QData)
  PROVE  JQueueInv'
<1> USE DEF jqueueNodeVars
<1>1. JQueueTypeOK'
  BY DEF JQueueInv, JQueueTypeOK
<1>2. QueueIsLinked' /\ QueueIsSorted'
  BY DEF JQueueInv, QueueIsLinked, QueueIsSorted
<1>3. PICK c \in [1 .. jq_allocated - jq_size -> 1 .. jq_allocated] : IsCache(c)
  BY DEF JQueueInv
<1>4. IsCache(c)' /\ c \in [1 .. jq_allocated' - jq_size' -> 1 .. jq_allocated']
  BY <1>3 DEF IsCache
<1>5. jq_size' <= jq_allocated'
  BY DEF JQueueInv
<1> QED  BY <1>1, <1>2, <1>4, <1>5 DEF JQueueInv

(* Each call.                                                              *)
LEMMA JQueueInvNext ==
  ASSUME JQueueInv, [JQueueNext]_jqueueVars PROVE JQueueInv'
<1>1. CASE PullEmpty
  <2>1. jq_pulled' \in Seq(QData)
    BY <1>1 DEF PullEmpty
  <2> QED  BY <1>1, <2>1, JQueueInvStays DEF PullEmpty
<1>2. CASE PullFront
  BY <1>2, PullKeeps
<1>3. ASSUME NEW d \in QData, NEW p \in Priorities, jqueue_push(d, p) PROVE JQueueInv'
  BY <1>3, PushKeeps
<1>4. CASE UNCHANGED jqueueVars
  <2>1. jq_pulled' \in Seq(QData)
    BY <1>4 DEF JQueueInv, JQueueTypeOK, jqueueVars
  <2> QED  BY <1>4, <2>1, JQueueInvStays DEF jqueueVars
<1> QED  BY <1>1, <1>2, <1>3, <1>4 DEF JQueueNext

(* The invariant holds throughout.                                         *)
LEMMA JQueueInvAlways == JQueueSpec => []JQueueInv
BY JQueueInvInit, JQueueInvNext, PTL DEF JQueueSpec

(* Along a chain there are as many nodes as the count says, in both        *)
(* directions.                                                             *)
LEMMA InvGivesChains ==
  ASSUME JQueueInv PROVE ChainsAgree
<1> DEFINE len == jq_size
<1>1. /\ jq_front = IF len = 0 THEN QNull ELSE jq_order[1]
      /\ jq_back = IF len = 0 THEN QNull ELSE jq_order[len]
      /\ \A i \in 1 .. len : /\ jq_next[jq_order[i]] = IF i = 1 THEN QNull ELSE jq_order[i - 1]
                             /\ jq_prev[jq_order[i]] = IF i = len THEN QNull ELSE jq_order[i + 1]
  BY DEF JQueueInv, QueueIsLinked
<1>2. len \in Nat /\ Len(jq_order) = len
  BY OrderFacts
<1>3. len # 0 => 1 \in 1 .. len /\ len \in 1 .. len
  BY <1>2
<1>4. ASSUME NEW i \in 1 .. len - 1
      PROVE  jq_prev[jq_order[i]] = jq_order[i + 1] /\ jq_next[jq_order[i + 1]] = jq_order[i]
  <2>1. i \in 1 .. len /\ i + 1 \in 1 .. len /\ i # len /\ i + 1 # 1 /\ (i + 1) - 1 = i
    BY <1>2
  <2> QED  BY <1>1, <2>1
<1> QED  BY <1>1, <1>2, <1>3, <1>4 DEF ChainsAgree

(* No node of the pool is lost: each is in the queue or in the cache, and  *)
(* in one of them.                                                         *)
LEMMA InvKeepsNodes ==
  ASSUME JQueueInv PROVE NodesAreKept
<1> DEFINE m == jq_allocated - jq_size
<1>1. PICK c \in [1 .. m -> 1 .. jq_allocated] : IsCache(c)
  BY DEF JQueueInv
<1>2. /\ \A i \in 1 .. m, j \in 1 .. jq_size : c[i] # jq_order[j]
      /\ \A k \in 1 .. jq_allocated : \/ \E i \in 1 .. m : c[i] = k
                                      \/ \E j \in 1 .. jq_size : jq_order[j] = k
  BY <1>1 DEF IsCache
<1>3. m \in Nat /\ m <= MaxQueued /\ MaxQueued \in Nat /\ jq_allocated \in Nat
  BY OrderFacts, JQueueAssumption
<1>4. \A i \in Nat : Cached[i] = IF i < m THEN c[i + 1] ELSE QNull
  BY <1>1, CachedIs
<1>5. \A i \in 1 .. jq_size : jq_order[i] \in 1 .. jq_allocated
  BY DEF JQueueInv, QueueIsLinked
<1>6. CacheNodes = {c[i] : i \in 1 .. m}
  <2> HIDE DEF m
  <2>1. ASSUME NEW x \in CacheNodes PROVE x \in {c[i] : i \in 1 .. m}
    <3>1. PICK i \in 0 .. MaxQueued : x = Cached[i] /\ x # QNull
      BY DEF CacheNodes
    <3>2. i < m /\ i \in Nat /\ x = c[i + 1]
      BY <1>4, <3>1
    <3>3. i + 1 \in 1 .. m
      BY <1>3, <3>2
    <3> QED  BY <3>2, <3>3
  <2>2. ASSUME NEW k \in 1 .. m PROVE c[k] \in CacheNodes
    <3>1. k - 1 \in 0 .. MaxQueued /\ k - 1 < m /\ (k - 1) + 1 = k /\ k - 1 \in Nat
      BY <1>3
    <3>2. Cached[k - 1] = c[k]
      BY <1>4, <3>1
    <3>3. c[k] # QNull
      BY <1>1 DEF m, QNull
    <3> QED  BY <3>1, <3>2, <3>3 DEF CacheNodes
  <2> QED  BY <2>1, <2>2
<1>7. QueueNodes = {jq_order[i] : i \in 1 .. jq_size}
  BY OrderFacts DEF QueueNodes
<1>8. QueueNodes \cap CacheNodes = {}
  BY <1>2, <1>6, <1>7
<1>9. QueueNodes \cup CacheNodes = 1 .. jq_allocated
  <2>1. \A i \in 1 .. m : c[i] \in 1 .. jq_allocated
    BY <1>1
  <2> HIDE DEF m
  <2> QED  BY <1>2, <1>5, <1>6, <1>7, <2>1
<1> QED  BY <1>8, <1>9 DEF NodesAreKept

(* The links from back to front, those from front to back, the two ends    *)
(* and the count of a jqueue say the same, whatever is pushed and pulled   *)
(* (jqueue.c).                                                             *)
THEOREM ChainsAlwaysAgree == JQueueSpec => []ChainsAgree
BY JQueueInvAlways, InvGivesChains, PTL

(* Every node that the pool gave out is in the queue or in the cache,      *)
(* never in both (jqueue_push, jqueue_pull).                               *)
THEOREM NodesAlwaysKept == JQueueSpec => []NodesAreKept
BY JQueueInvAlways, InvKeepsNodes, PTL

(* The types of the fields of a jqueue.                                    *)
THEOREM JQueueTypeCorrect == JQueueSpec => []JQueueTypeOK
<1>1. JQueueInv => JQueueTypeOK
  BY DEF JQueueInv
<1> QED  BY <1>1, JQueueInvAlways, PTL

(* A push of jqueue.c is a push of the priority queue.                     *)
LEMMA PushIsPush ==
  ASSUME JQueueInv, NEW d \in QData, NEW p \in Priorities, jqueue_push(d, p)
  PROVE  JQueuePromise!Push(d, p)
<1> DEFINE n == FreshNode
           len == jq_size
           o == jq_order
<1>0. len \in Nat /\ Len(o) = len /\ \A i \in 1 .. len : o[i] \in QNodes
  BY OrderFacts
<1>1. n \in QNodes /\ \A i \in 1 .. len : o[i] # n
  BY PushGoes
<1>2. PICK a \in 0 .. len :
              /\ PutBehind(a, n)
              /\ \A i \in 1 .. a : jq_priority[o[i]] <= p
              /\ \A i \in a + 1 .. len : jq_priority[o[i]] > p
  BY PushGoes
<1>3. /\ jq_data' = [jq_data EXCEPT ![n] = d] /\ jq_priority' = [jq_priority EXCEPT ![n] = p]
      /\ jq_pulled' = jq_pulled
  BY DEF jqueue_push
<1>4. jq_data \in [QNodes -> QData] /\ jq_priority \in [QNodes -> Priorities]
  BY DEF JQueueInv, JQueueTypeOK
<1> HIDE DEF n
<1> DEFINE It(k) == [data |-> jq_data[k], priority |-> jq_priority[k]]
           New(k) == [data |-> jq_data'[k], priority |-> jq_priority'[k]]
           q == jq_order'
<1>5. Len(Queued) = len /\ Queued = [i \in 1 .. len |-> It(o[i])]
  <2>1. Queued = [i \in 1 .. len |-> It(o[i])]
    BY <1>0 DEF Queued
  <2>2. \A i \in 1 .. len : It(o[i]) \in {It(k) : k \in QNodes}
    BY <1>0
  <2>3. Queued \in [1 .. len -> {It(k) : k \in QNodes}]
    BY <2>1, <2>2
  <2> HIDE DEF It, o
  <2> QED  BY <1>0, <2>1, <2>3, LenOf
<1>6. /\ q = [i \in 1 .. len + 1 |-> IF i <= a THEN o[i] ELSE IF i = a + 1 THEN n ELSE o[i - 1]]
      /\ Len(q) = len + 1
  <2>1. JQueueInv'
    BY PushKeeps
  <2>2. Len(q) = jq_size'
    BY <2>1 DEF JQueueInv, QueueIsLinked, JQueueTypeOK
  <2> QED  BY <1>0, <1>2, <2>2 DEF PutBehind, Inserted
<1>7. Queued' = [i \in 1 .. len + 1 |-> New(q[i])]
  BY <1>6 DEF Queued
<1>8. \A i \in 1 .. len : New(o[i]) = It(o[i])
  BY <1>0, <1>1, <1>3, <1>4
<1>9. New(n) = [data |-> d, priority |-> p]
  BY <1>1, <1>3, <1>4
<1>10. Queued' = [i \in 1 .. len + 1 |->
                   IF i <= a THEN Queued[i]
                   ELSE IF i = a + 1 THEN [data |-> d, priority |-> p]
                   ELSE Queued[i - 1]]
  <2> DEFINE r == [data |-> d, priority |-> p]
  <2> HIDE DEF New, It, r
  <2>1. ASSUME NEW i \in 1 .. len + 1
        PROVE  New(q[i]) = IF i <= a THEN Queued[i] ELSE IF i = a + 1 THEN r ELSE Queued[i - 1]
    <3>1. CASE i <= a
      <4>1. i \in 1 .. len
        BY <1>0, <3>1
      <4> QED  BY <1>5, <1>6, <1>8, <3>1, <4>1
    <3>2. CASE i = a + 1
      BY <1>0, <1>6, <1>9, <3>2 DEF r
    <3>3. CASE i > a + 1
      <4>1. i - 1 \in 1 .. len /\ ~ (i <= a) /\ i # a + 1
        BY <1>0, <3>3
      <4> QED  BY <1>5, <1>6, <1>8, <4>1
    <3> QED  BY <1>0, <3>1, <3>2, <3>3
  <2> HIDE DEF q
  <2> QED  BY <1>7, <2>1 DEF r
<1>11. /\ \A i \in 1 .. a : Queued[i].priority <= p
       /\ \A i \in a + 1 .. len : Queued[i].priority > p
  <2>1. \A i \in 1 .. len : Queued[i].priority = jq_priority[o[i]]
    BY <1>5
  <2>2. \A i \in 1 .. a : i \in 1 .. len
    BY <1>0
  <2>3. \A i \in a + 1 .. len : i \in 1 .. len
    BY <1>0
  <2> QED  BY <1>2, <2>1, <2>2, <2>3
<1> HIDE DEF o
<1> QED  BY <1>3, <1>5, <1>10, <1>11 DEF JQueuePromise!Push

(* A pull is a pull of the first of the smallest priority.                 *)
LEMMA PullIsPull ==
  ASSUME JQueueInv, PullEmpty \/ PullFront PROVE JQueuePromise!Pull
<1>0. jq_size \in Nat /\ Len(jq_order) = jq_size /\ jq_order \in Seq(QNodes)
      /\ \A i \in 1 .. jq_size : jq_order[i] \in QNodes /\ jq_order[i] # QNull
  BY OrderFacts DEF JQueueInv, JQueueTypeOK
<1>1. jq_front = IF jq_size = 0 THEN QNull ELSE jq_order[1]
  BY DEF JQueueInv, QueueIsLinked
<1> DEFINE It(k) == [data |-> jq_data[k], priority |-> jq_priority[k]]
<1>2. Len(Queued) = jq_size /\ Queued = [i \in 1 .. jq_size |-> It(jq_order[i])]
      /\ Queued \in Seq({It(k) : k \in QNodes})
  <2>1. Queued = [i \in 1 .. jq_size |-> It(jq_order[i])]
    BY <1>0 DEF Queued
  <2>2. \A i \in 1 .. jq_size : It(jq_order[i]) \in {It(k) : k \in QNodes}
    BY <1>0
  <2>3. Queued \in [1 .. jq_size -> {It(k) : k \in QNodes}]
    BY <2>1, <2>2
  <2> HIDE DEF It
  <2> QED  BY <1>0, <2>1, <2>3, LenOf
<1>3. CASE PullEmpty
  <2>1. jq_size = 0
    BY <1>0, <1>1, <1>3 DEF PullEmpty
  <2>2. Queued = <<>>
    BY <1>2, <2>1
  <2>3. Queued' = Queued /\ jq_pulled' = <<>>
    BY <1>3 DEF PullEmpty, Queued, jqueueNodeVars
  <2> QED  BY <2>2, <2>3 DEF JQueuePromise!Pull
<1>4. CASE PullFront
  <2>1. /\ jq_front # QNull /\ jq_pulled' = <<jq_data[jq_front]>>
        /\ jq_size' = jq_size - 1 /\ jq_order' = Tail(jq_order)
        /\ jq_data' = jq_data /\ jq_priority' = jq_priority
    BY <1>4 DEF PullFront
  <2>2. jq_size # 0 /\ jq_front = jq_order[1] /\ 1 \in 1 .. jq_size
    BY <1>0, <1>1, <2>1
  <2>3. Queued # <<>> /\ jq_order # <<>>
    BY <1>0, <1>2, <2>2
  <2>4. Head(Queued).data = jq_data[jq_front]
    <3>1. Head(Queued) = Queued[1]
      BY <1>2, <2>3, HeadTailProperties
    <3> QED  BY <1>2, <2>2, <3>1
  <2> DEFINE t == Tail(jq_order)
             u == Tail(Queued)
  <2>5. t \in Seq(QNodes) /\ Len(t) = jq_size - 1 /\ \A i \in 1 .. jq_size - 1 : t[i] = jq_order[i + 1]
    BY <1>0, <2>3, HeadTailProperties
  <2>6. Len(u) = jq_size - 1 /\ u \in Seq({It(k) : k \in QNodes})
        /\ \A i \in 1 .. jq_size - 1 : u[i] = Queued[i + 1]
    BY <1>2, <2>3, HeadTailProperties
  <2> HIDE DEF t, u
  <2>7. Queued' = [i \in 1 .. jq_size - 1 |-> It(t[i])]
    BY <2>1, <2>5 DEF Queued, t
  <2>8. \A i \in 1 .. jq_size - 1 : u[i] = It(t[i])
    <3>1. \A i \in 1 .. jq_size - 1 : i + 1 \in 1 .. jq_size
      BY <1>0
    <3> HIDE DEF It
    <3> QED  BY <1>2, <2>5, <2>6, <3>1
  <2> HIDE DEF It
  <2>9. u = [i \in 1 .. Len(u) |-> u[i]]
    BY <2>6
  <2>10. Queued' = u
    BY <2>6, <2>7, <2>8, <2>9
  <2> QED  BY <2>1, <2>3, <2>4, <2>10 DEF JQueuePromise!Pull, u
<1> QED  BY <1>3, <1>4

(* jqueue.c is a priority queue, first come first served within a          *)
(* priority, for any data, priorities and number of items (jqueue.h).      *)
THEOREM JQueueKeepsItsPromise == JQueueSpec => ImplementsPriorityQueue
<1>1. JQueueInit => JQueuePromise!Init
  <2> SUFFICES ASSUME JQueueInit PROVE JQueuePromise!Init
    OBVIOUS
  <2>1. jq_order = <<>> /\ jq_pulled = <<>>
    BY DEF JQueueInit
  <2>2. Queued = <<>>
    BY <2>1 DEF Queued
  <2> QED  BY <2>1, <2>2 DEF JQueuePromise!Init
<1>2. JQueueInv /\ [JQueueNext]_jqueueVars => [JQueuePromise!Next]_(JQueuePromise!queueVars)
  <2> SUFFICES ASSUME JQueueInv, [JQueueNext]_jqueueVars
               PROVE  [JQueuePromise!Next]_(JQueuePromise!queueVars)
    OBVIOUS
  <2>1. CASE PullEmpty \/ PullFront
    BY <2>1, PullIsPull DEF JQueuePromise!Next
  <2>2. ASSUME NEW d \in QData, NEW p \in Priorities, jqueue_push(d, p)
        PROVE  JQueuePromise!Next
    BY <2>2, PushIsPush DEF JQueuePromise!Next
  <2>3. CASE UNCHANGED jqueueVars
    <3>1. Queued' = Queued /\ jq_pulled' = jq_pulled
      BY <2>3 DEF Queued, jqueueVars, jqueueNodeVars
    <3> QED  BY <3>1 DEF JQueuePromise!queueVars
  <2> QED  BY <2>1, <2>2, <2>3 DEF JQueueNext
<1> QED  BY <1>1, <1>2, JQueueInvAlways, PTL DEF JQueueSpec, ImplementsPriorityQueue, JQueuePromise!Spec

-----------------------------------------------------------------------------
(* Sizes are rounded up to a multiple of align, which stays as it is when  *)
(* it is rounded again; the small ones have a freelist.                    *)
LEMMA RoundedUp ==
  ASSUME NEW n \in Nat
  PROVE  /\ _round_up(n) \in Nat /\ n <= _round_up(n)
         /\ _round_up(_round_up(n)) = _round_up(n)
         /\ n <= max_bytes => _round_up(n) <= max_bytes
         /\ n # 0 /\ n <= max_bytes => _FREELIST_INDEX(_round_up(n)) \in Lists
<1> DEFINE a == align
           q == (n + a - 1) \div a
           k == _MEMPOOL_NFREELISTS
<1>1. a \in Nat /\ a >= 1 /\ k \in Nat /\ k >= 1
  BY MempoolAssumption
<1>2. n + a - 1 \in Nat
  BY <1>1
<1>3. q \in Nat /\ q * a <= n + a - 1 /\ n + a - 1 < q * a + a
  BY <1>1, <1>2
<1>4. _round_up(n) = q * a
  BY DEF _round_up
<1>5. _round_up(q * a) = ((q * a + a - 1) \div a) * a
  BY DEF _round_up
<1>6. max_bytes = a * k
  BY DEF max_bytes
<1>7. _FREELIST_INDEX(q * a) = (q * a - 1) \div a
  BY DEF _FREELIST_INDEX
<1> HIDE DEF a, q, k
<1>8. q * a \in Nat /\ n <= q * a
  BY <1>1, <1>3
<1>9. (q * a + a - 1) \div a = q
  <2> DEFINE r == q * a + a - 1
  <2>1. r \in Nat /\ q * a <= r /\ r < q * a + a
    BY <1>1, <1>8
  <2> HIDE DEF r
  <2>2. r \div a = q
    BY <1>1, <1>3, <2>1
  <2> QED  BY <2>2 DEF r
<1>10. ASSUME n <= a * k PROVE q <= k
  <2>1. q * a < (k + 1) * a
    BY <1>1, <1>3, <1>10
  <2>2. ~ (k + 1 <= q)
    <3> SUFFICES ASSUME k + 1 <= q PROVE FALSE
      OBVIOUS
    <3>1. (k + 1) * a <= q * a
      BY <1>1, <1>3
    <3> QED  BY <1>1, <1>3, <1>8, <2>1, <3>1
  <2> QED  BY <1>1, <1>3, <2>2
<1>11. ASSUME n <= a * k PROVE q * a <= a * k
  BY <1>1, <1>3, <1>10, <1>11
<1>12. ASSUME n # 0, n <= a * k PROVE (q * a - 1) \div a \in 0 .. k - 1
  <2>1. q >= 1
    <3>1. q # 0
      BY <1>1, <1>8, <1>12
    <3> QED  BY <1>3, <3>1
  <2> DEFINE r == q * a - 1
             p == q - 1
  <2>2. r \in Nat /\ p \in Nat /\ p * a <= r /\ r < p * a + a
    BY <1>1, <1>3, <2>1
  <2>3. p \in 0 .. k - 1
    BY <1>1, <1>3, <1>10, <1>12, <2>1
  <2> HIDE DEF r, p
  <2>4. r \div a = p
    BY <1>1, <2>2
  <2> QED  BY <2>3, <2>4 DEF r
<1>13. Lists = 0 .. k - 1
  BY DEF Lists, k
<1> QED
  BY <1>4, <1>5, <1>6, <1>7, <1>8, <1>9, <1>11, <1>12, <1>13

(* What the freelists are made of: free has the blocks that may be in each *)
(* list, none of them in two.  A head and a link point to nothing or to a  *)
(* block of their list, and to different ones.                             *)
LinksSound(free, head, link) ==
  /\ free \in [Lists -> SUBSET Blocks]
  /\ head \in [Lists -> Blocks \cup {None}] /\ link \in [Blocks -> Blocks \cup {None}]
  /\ \A i, j \in Lists : i # j => free[i] \cap free[j] = {}
  /\ \A i \in Lists :
       /\ head[i] # None => head[i] \in free[i]
       /\ \A b \in free[i] : link[b] # None => link[b] \in free[i] /\ link[b] # head[i]
       /\ \A b, c \in free[i] : b # c => link[b] = None \/ link[b] # link[c]

(* The first block of a list is taken.                                     *)
LEMMA Popped ==
  ASSUME NEW free, NEW head, NEW link, LinksSound(free, head, link),
         NEW j \in Lists, NEW p, p = head[j], p # None
  PROVE  LinksSound([free EXCEPT ![j] = @ \ {p}], [head EXCEPT ![j] = link[p]],
                    [link EXCEPT ![p] = None])
<1> DEFINE f == [free EXCEPT ![j] = @ \ {p}]
           h == [head EXCEPT ![j] = link[p]]
           l == [link EXCEPT ![p] = None]
<1> USE DEF LinksSound
<1>1. p \in free[j] /\ p \in Blocks
  OBVIOUS
<1>2. /\ f \in [Lists -> SUBSET Blocks] /\ h \in [Lists -> Blocks \cup {None}]
      /\ l \in [Blocks -> Blocks \cup {None}]
  BY <1>1
<1>3. \A i \in Lists : /\ f[i] = (IF i = j THEN free[j] \ {p} ELSE free[i])
                       /\ h[i] = (IF i = j THEN link[p] ELSE head[i])
  OBVIOUS
<1>4. \A i \in Lists : \A b \in f[i] : b \in free[i] /\ b # p /\ b \in Blocks /\ l[b] = link[b]
  BY <1>1, <1>3
<1> HIDE DEF f, h, l
<1>5. \A i, k \in Lists : i # k => f[i] \cap f[k] = {}
  BY <1>4
<1>6. ASSUME NEW i \in Lists
      PROVE  /\ h[i] # None => h[i] \in f[i]
             /\ \A b \in f[i] : l[b] # None => l[b] \in f[i] /\ l[b] # h[i]
             /\ \A b, c \in f[i] : b # c => l[b] = None \/ l[b] # l[c]
  <2>1. CASE i = j
    <3>1. h[i] = link[p] /\ f[i] = free[i] \ {p}
      BY <1>3, <2>1
    <3>2. link[p] # None => link[p] \in free[i] /\ link[p] # p
      BY <1>1, <2>1
    <3>3. \A b \in f[i] : link[b] # None => link[b] \in free[i] /\ link[b] # p /\ link[b] # link[p]
      BY <1>1, <1>4, <2>1
    <3> QED  BY <1>4, <3>1, <3>2, <3>3
  <2>2. CASE i # j
    BY <1>3, <1>4, <2>2
  <2> QED  BY <2>1, <2>2
<1>7. LinksSound(f, h, l)
  BY <1>2, <1>5, <1>6
<1> QED  BY <1>7 DEF f, h, l

(* A block that is in no list is put before the first of one.              *)
LEMMA Pushed ==
  ASSUME NEW free, NEW head, NEW link, LinksSound(free, head, link),
         NEW j \in Lists, NEW p \in Blocks, \A i \in Lists : p \notin free[i]
  PROVE  LinksSound([free EXCEPT ![j] = @ \cup {p}], [head EXCEPT ![j] = p],
                    [link EXCEPT ![p] = head[j]])
<1> DEFINE f == [free EXCEPT ![j] = @ \cup {p}]
           h == [head EXCEPT ![j] = p]
           l == [link EXCEPT ![p] = head[j]]
<1> USE DEF LinksSound
<1>1. p # None
  BY DEF Blocks, None
<1>2. /\ f \in [Lists -> SUBSET Blocks] /\ h \in [Lists -> Blocks \cup {None}]
      /\ l \in [Blocks -> Blocks \cup {None}]
  OBVIOUS
<1>3. \A i \in Lists : /\ f[i] = (IF i = j THEN free[j] \cup {p} ELSE free[i])
                       /\ h[i] = (IF i = j THEN p ELSE head[i])
  OBVIOUS
<1>4. \A i \in Lists : \A b \in free[i] : b # p /\ b \in Blocks /\ l[b] = link[b]
  OBVIOUS
<1>5. l[p] = head[j]
  OBVIOUS
<1> HIDE DEF f, h, l
<1>6. \A i, k \in Lists : i # k => f[i] \cap f[k] = {}
  BY <1>3
<1>7. ASSUME NEW i \in Lists
      PROVE  /\ h[i] # None => h[i] \in f[i]
             /\ \A b \in f[i] : l[b] # None => l[b] \in f[i] /\ l[b] # h[i]
             /\ \A b, c \in f[i] : b # c => l[b] = None \/ l[b] # l[c]
  <2>1. CASE i = j
    <3>1. h[i] = p /\ f[i] = free[i] \cup {p}
      BY <1>3, <2>1
    <3>2. head[i] # None => head[i] \in free[i] /\ head[i] # p
      BY <1>4
    <3>3. \A b \in free[i] : link[b] # None => link[b] \in free[i] /\ link[b] # p /\ link[b] # head[i]
      BY <1>4
    <3> QED  BY <1>4, <1>5, <2>1, <3>1, <3>2, <3>3
  <2>2. CASE i # j
    BY <1>3, <1>4, <2>2
  <2> QED  BY <2>1, <2>2
<1>8. LinksSound(f, h, l)
  BY <1>2, <1>6, <1>7
<1> QED  BY <1>8 DEF f, h, l

(* A walk from the head of a list: where it is after k steps.              *)
IsListWalk(w, head, link, m) ==
  w = [k \in 0 .. m |-> IF k = 0 THEN head ELSE IF w[k - 1] = None THEN None ELSE link[w[k - 1]]]

(* There is one, of any length.                                            *)
LEMMA ListWalkExists ==
  ASSUME NEW head, NEW link, NEW m \in Nat
  PROVE  \E w : IsListWalk(w, head, link, m)
<1> DEFINE S == {n \in Nat : \E w : IsListWalk(w, head, link, n)}
<1>1. 0 \in S
  <2> DEFINE z == [j \in 0 .. 0 |-> head]
  <2>1. IsListWalk(z, head, link, 0)
    BY DEF IsListWalk
  <2> HIDE DEF z
  <2> QED  BY <2>1
<1>2. ASSUME NEW n \in 1 .. m, n - 1 \in S PROVE n \in S
  <2> PICK g : IsListWalk(g, head, link, n - 1)
    BY <1>2
  <2> DEFINE h == [j \in 0 .. n |-> IF j < n THEN g[j] ELSE IF g[n - 1] = None THEN None ELSE link[g[n - 1]]]
  <2>1. ASSUME NEW j \in 0 .. n
        PROVE  h[j] = IF j = 0 THEN head ELSE IF h[j - 1] = None THEN None ELSE link[h[j - 1]]
    <3>1. CASE j = n
      BY <3>1
    <3>2. CASE j < n
      <4>1. j \in 0 .. n - 1 /\ h[j] = g[j] /\ (j # 0 => h[j - 1] = g[j - 1])
        BY <3>2
      <4>2. g[j] = IF j = 0 THEN head ELSE IF g[j - 1] = None THEN None ELSE link[g[j - 1]]
        BY <4>1 DEF IsListWalk
      <4> QED  BY <4>1, <4>2
    <3> QED  BY <3>1, <3>2
  <2>2. h = [j \in 0 .. n |-> IF j = 0 THEN head ELSE IF h[j - 1] = None THEN None ELSE link[h[j - 1]]]
    BY <2>1
  <2>3. IsListWalk(h, head, link, n)
    BY <2>2 DEF IsListWalk
  <2> HIDE DEF h
  <2> QED  BY <2>3
<1> HIDE DEF S
<1>3. m \in S
  <2>1. \A n \in 1 .. m : n - 1 \in S => n \in S
    BY <1>2
  <2>2. 0 .. m \subseteq S
    BY <1>1, <2>1, UpTo
  <2> QED  BY <2>2
<1> QED  BY <1>3 DEF S

(* A list has blocks of its own only: the first, and those that a block of *)
(* the list links to.                                                      *)
LEMMA ListOfIs ==
  ASSUME NEW i \in Lists, NEW free, LinksSound(free, mp_head, mp_link)
  PROVE  /\ ListOf(i) \subseteq free[i]
         /\ \A b \in ListOf(i) : b = mp_head[i] \/ \E c \in ListOf(i) : mp_link[c] = b
<1> DEFINE head == mp_head[i]
           W == CHOOSE w : IsListWalk(w, head, mp_link, MaxBlocks)
<1>0. MaxBlocks \in Nat
  BY MempoolAssumption
<1>1. IsListWalk(W, head, mp_link, MaxBlocks)
  BY <1>0, ListWalkExists
<1>2. ListOf(i) = {W[k] : k \in 0 .. MaxBlocks} \ {None}
  BY DEF ListOf, IsListWalk
<1> HIDE DEF W
<1>3. \A k \in 0 .. MaxBlocks :
        W[k] = IF k = 0 THEN head ELSE IF W[k - 1] = None THEN None ELSE mp_link[W[k - 1]]
  BY <1>1 DEF IsListWalk
<1> DEFINE S == {k \in Nat : k > MaxBlocks \/ W[k] = None \/ W[k] \in free[i]}
<1>4. 0 \in S
  BY <1>0, <1>3 DEF LinksSound
<1>5. ASSUME NEW n \in 1 .. MaxBlocks, n - 1 \in S PROVE n \in S
  <2>1. n \in 0 .. MaxBlocks /\ n \in Nat /\ n # 0 /\ ~ (n - 1 > MaxBlocks)
    BY <1>0
  <2>2. W[n] = IF W[n - 1] = None THEN None ELSE mp_link[W[n - 1]]
    BY <1>3, <2>1
  <2>3. W[n - 1] = None \/ W[n - 1] \in free[i]
    BY <1>5, <2>1
  <2>4. W[n] = None \/ W[n] \in free[i]
    BY <2>2, <2>3 DEF LinksSound
  <2> QED  BY <2>1, <2>4
<1> HIDE DEF S
<1>6. 0 .. MaxBlocks \subseteq S
  <2>1. \A n \in 1 .. MaxBlocks : n - 1 \in S => n \in S
    BY <1>5
  <2> QED  BY <1>0, <1>4, <2>1, UpTo
<1>7. \A k \in 0 .. MaxBlocks : W[k] = None \/ W[k] \in free[i]
  BY <1>0, <1>6 DEF S
<1>8. ASSUME NEW k \in 0 .. MaxBlocks, W[k] # None
      PROVE  W[k] = head \/ \E c \in ListOf(i) : mp_link[c] = W[k]
  <2>1. CASE k = 0
    BY <1>3, <2>1
  <2>2. CASE k # 0
    <3>1. k - 1 \in 0 .. MaxBlocks
      BY <1>0, <2>2
    <3>2. W[k - 1] # None /\ W[k] = mp_link[W[k - 1]]
      BY <1>3, <1>8, <2>2
    <3>3. W[k - 1] \in ListOf(i)
      BY <1>2, <3>1, <3>2
    <3> QED  BY <3>2, <3>3
  <2> QED  BY <2>1, <2>2
<1> QED  BY <1>2, <1>7, <1>8

(* All lists are given back at once.                                       *)
LEMMA Shrunk ==
  ASSUME NEW free, LinksSound(free, mp_head, mp_link)
  PROVE  /\ OnLists \subseteq UNION {free[i] : i \in Lists}
         /\ LinksSound([i \in Lists |-> free[i] \ OnLists], [i \in Lists |-> None],
                       [b \in Blocks |-> IF b \in OnLists THEN None ELSE mp_link[b]])
<1> DEFINE f == [i \in Lists |-> free[i] \ OnLists]
           h == [i \in Lists |-> None]
           l == [b \in Blocks |-> IF b \in OnLists THEN None ELSE mp_link[b]]
<1>1. ASSUME NEW i \in Lists
      PROVE  /\ ListOf(i) \subseteq free[i]
             /\ \A b \in ListOf(i) : b = mp_head[i] \/ \E c \in ListOf(i) : mp_link[c] = b
  BY <1>1, ListOfIs
<1>2. \A b : b \in OnLists <=> \E i \in Lists : b \in ListOf(i)
  BY DEF OnLists
<1>3. ASSUME NEW i \in Lists, NEW b \in free[i], b \in OnLists PROVE b \in ListOf(i)
  <2>1. PICK j \in Lists : b \in ListOf(j)
    BY <1>2, <1>3
  <2>2. b \in free[j]
    BY <1>1, <2>1
  <2>3. j = i
    BY <1>3, <2>2 DEF LinksSound
  <2> QED  BY <2>1, <2>3
<1>4. \A i \in Lists : \A b \in f[i] : b \in free[i] /\ b \notin OnLists /\ b \in Blocks /\ l[b] = mp_link[b]
  BY DEF LinksSound
<1>5. ASSUME NEW i \in Lists, NEW b \in free[i], b \notin OnLists, mp_link[b] # None
      PROVE  mp_link[b] \in free[i] /\ mp_link[b] \notin OnLists
  <2>1. mp_link[b] \in free[i] /\ mp_link[b] # mp_head[i]
    BY <1>5 DEF LinksSound
  <2>2. ASSUME mp_link[b] \in OnLists PROVE FALSE
    <3>1. mp_link[b] \in ListOf(i)
      BY <1>3, <2>1, <2>2
    <3>2. PICK c \in ListOf(i) : mp_link[c] = mp_link[b]
      BY <1>1, <2>1, <3>1
    <3>3. c \in free[i] /\ c # b
      BY <1>1, <1>2, <1>5
    <3> QED  BY <1>5, <3>2, <3>3 DEF LinksSound
  <2> QED  BY <2>1, <2>2
<1>6. /\ f \in [Lists -> SUBSET Blocks] /\ h \in [Lists -> Blocks \cup {None}]
      /\ l \in [Blocks -> Blocks \cup {None}]
      /\ \A i \in Lists : h[i] = None
      /\ \A i \in Lists : \A b : b \in f[i] <=> b \in free[i] /\ b \notin OnLists
  BY DEF LinksSound
<1> HIDE DEF f, h, l
<1>7. \A i, k \in Lists : i # k => f[i] \cap f[k] = {}
  BY <1>6 DEF LinksSound
<1>8. ASSUME NEW i \in Lists
      PROVE  /\ h[i] # None => h[i] \in f[i]
             /\ \A b \in f[i] : l[b] # None => l[b] \in f[i] /\ l[b] # h[i]
             /\ \A b, c \in f[i] : b # c => l[b] = None \/ l[b] # l[c]
  <2>1. \A b \in f[i] : l[b] # None => l[b] \in f[i]
    BY <1>4, <1>5, <1>6
  <2>2. \A b, c \in f[i] : b # c => l[b] = None \/ l[b] # l[c]
    BY <1>4 DEF LinksSound
  <2> QED  BY <1>6, <2>1, <2>2
<1>9. LinksSound(f, h, l)
  BY <1>6, <1>7, <1>8 DEF LinksSound
<1> QED  BY <1>1, <1>2, <1>9 DEF f, h, l

(* A block is with a client, or on its way back, or else it is free.       *)
IsHeld(b) == \E t \in Threads : \E h \in mp_held[t] : h[1] = b
OnItsWay(b) == \E t \in Threads : mp_pc[t] = "deallocate" /\ mp_block[t] = b
IsFree(b) == mp_size[b] \in 1 .. max_bytes /\ ~ IsHeld(b) /\ ~ OnItsWay(b)

(* The free blocks of each list, whatever the links say.                   *)
FreeBlocks == [i \in Lists |-> {b \in Blocks : IsFree(b) /\ _FREELIST_INDEX(mp_size[b]) = i}]

(* What the variables of the pool hold.                                    *)
MempoolType ==
  /\ mp_bmt \in BOOLEAN
  /\ mp_size \in [Blocks -> Nat]
  /\ mp_lock \subseteq Threads
  /\ mp_pc \in [Threads -> {"idle", "allocate", "new", "deallocate"}]
  /\ mp_pobj \in [Threads -> Blocks \cup {None}]
  /\ mp_n \in [Threads -> Nat]
  /\ mp_block \in [Threads -> Blocks \cup {None}]
  /\ mp_held \in [Threads -> SUBSET (Blocks \X Nat)]

(* Who reads and writes a freelist has the mutex, or is alone.             *)
Taking == {"allocate", "deallocate"}

OneTakes ==
  /\ \A t \in Threads : mp_pc[t] \in Taking => IF mp_bmt THEN t \in mp_lock ELSE t = User
  /\ mp_bmt => \A t, u \in mp_lock : t = u

(* What a thread has read is still so.                                     *)
FirstOf(n) == mp_head[_FREELIST_INDEX(_round_up(n))]

ThreadsRight ==
  \A t \in Threads :
    /\ mp_pc[t] # "idle" => mp_n[t] \in 1 .. max_bytes
    /\ mp_pc[t] \in Taking => mp_pobj[t] = FirstOf(mp_n[t])
    /\ mp_pc[t] = "deallocate" =>
         mp_block[t] \in Blocks /\ mp_n[t] = mp_size[mp_block[t]] /\ ~ IsHeld(mp_block[t])

(* A block has one client and is large enough for what that client has     *)
(* asked for.                                                              *)
HeldOnce ==
  /\ \A t, u \in Threads : \A g \in mp_held[t], h \in mp_held[u] : g[1] = h[1] => t = u /\ g = h
  /\ \A t \in Threads : \A h \in mp_held[t] : mp_size[h[1]] > 0 /\ mp_size[h[1]] >= h[2]

(* A size that has a freelist is one that rounding leaves alone.           *)
SizesRounded == \A b \in Blocks : mp_size[b] <= max_bytes => _round_up(mp_size[b]) = mp_size[b]

(* The inductive invariant of the pool of small blocks.                    *)
MempoolInv ==
  /\ MempoolType /\ ~ mp_twice
  /\ LinksSound(FreeBlocks, mp_head, mp_link)
  /\ OneTakes /\ ThreadsRight /\ HeldOnce /\ SizesRounded

(* What it says of the blocks that are in use.                             *)
LEMMA MempoolInvOwners == MempoolInv => BlockHasOneOwner /\ BlockIsLargeEnough
<1> SUFFICES ASSUME MempoolInv PROVE BlockHasOneOwner /\ BlockIsLargeEnough
  OBVIOUS
<1>1. \A h : h \in Held <=> \E t \in Threads : h \in mp_held[t]
  BY DEF Held
<1>2. BlockIsLargeEnough
  BY <1>1 DEF BlockIsLargeEnough, MempoolInv, HeldOnce
<1>3. OnLists \subseteq UNION {FreeBlocks[i] : i \in Lists}
  BY Shrunk DEF MempoolInv
<1>4. \A i \in Lists : ListOf(i) \subseteq FreeBlocks[i]
  BY ListOfIs DEF MempoolInv
<1>5. \A i, j \in Lists : i # j => ListOf(i) \cap ListOf(j) = {}
  BY <1>4 DEF MempoolInv, LinksSound
<1>6. ASSUME NEW h \in Held PROVE mp_size[h[1]] > 0 /\ h[1] \notin OnLists
  <2>1. PICK t \in Threads : h \in mp_held[t]
    BY <1>1
  <2>2. IsHeld(h[1])
    BY <2>1 DEF IsHeld
  <2>3. \A i \in Lists : h[1] \notin FreeBlocks[i]
    BY <2>2 DEF FreeBlocks, IsFree
  <2> QED  BY <1>3, <2>1, <2>3 DEF MempoolInv, HeldOnce
<1> QED  BY <1>2, <1>5, <1>6 DEF BlockHasOneOwner, MempoolInv, HeldOnce

(* A pool that was just made has no block.                                 *)
LEMMA MempoolInvInit == MempoolInit => MempoolInv
<1> SUFFICES ASSUME MempoolInit PROVE MempoolInv
  OBVIOUS
<1> USE DEF MempoolInit
<1>1. MempoolType
  BY DEF MempoolType
<1>2. \A b \in Blocks : mp_size[b] = 0
  OBVIOUS
<1>3. FreeBlocks = [i \in Lists |-> {}]
  BY <1>2 DEF FreeBlocks, IsFree
<1>4. LinksSound(FreeBlocks, mp_head, mp_link)
  BY <1>3 DEF LinksSound
<1>5. SizesRounded
  <2>1. _round_up(0) = 0
    <3>1. align \in Nat /\ align # 0
      BY MempoolAssumption
    <3>2. (0 + align - 1) \div align = 0
      BY <3>1
    <3> QED  BY <3>1, <3>2 DEF _round_up
  <2> QED  BY <1>2, <2>1 DEF SizesRounded
<1> QED  BY <1>1, <1>4, <1>5 DEF MempoolInv, OneTakes, ThreadsRight, HeldOnce, Taking

(* A block of malloc goes to the client.                                   *)
LEMMA NewKeeps ==
  ASSUME MempoolInv, NEW t \in Threads, NEW n \in Nat, NEW asked \in Nat,
         asked <= n, n > 0, n <= max_bytes => _round_up(n) = n, _new(t, n, asked),
         UNCHANGED <<mp_bmt, mp_head, mp_link, mp_lock, mp_twice>>,
         UNCHANGED <<mp_pc, mp_pobj, mp_n, mp_block>> \/ (mp_pc[t] = "new" /\ Ends(t))
  PROVE  MempoolInv'
<1> USE DEF MempoolInv
<1> DEFINE b == CHOOSE b \in Fresh : \A c \in Fresh : b <= c
           h == <<b, asked>>
<1>1. b \in Blocks /\ mp_size[b] = 0
  <2>1. Fresh \subseteq Nat /\ Fresh # {}
    BY DEF Fresh, Blocks, _new
  <2>2. \E x \in Fresh : \A c \in Fresh : x <= c
    BY <2>1, SmallestOf
  <2>3. b \in Fresh
    BY <2>2
  <2> HIDE DEF b
  <2> QED  BY <2>3 DEF Fresh
<1>2. mp_size' = [mp_size EXCEPT ![b] = n] /\ mp_held' = [mp_held EXCEPT ![t] = @ \cup {h}]
  BY DEF _new
<1> HIDE DEF b
<1>3. h \in Blocks \X Nat /\ h[1] = b /\ h[2] = asked
  BY <1>1
<1> HIDE DEF h
<1>4. /\ mp_size' \in [Blocks -> Nat] /\ mp_size'[b] = n
      /\ \A c \in Blocks : c # b => mp_size'[c] = mp_size[c]
  BY <1>1, <1>2 DEF MempoolType
<1>5. /\ mp_held' \in [Threads -> SUBSET (Blocks \X Nat)]
      /\ mp_held'[t] = mp_held[t] \cup {h}
      /\ \A u \in Threads : u # t => mp_held'[u] = mp_held[u]
  BY <1>2, <1>3 DEF MempoolType
<1>6. \A u \in Threads : \A g \in mp_held'[u] : g \in mp_held[u] \/ (u = t /\ g = h)
  BY <1>5
<1>7. ASSUME NEW u \in Threads, NEW g \in mp_held[u] PROVE g[1] \in Blocks /\ g[1] # b
  <2>1. g \in Blocks \X Nat
    BY <1>7 DEF MempoolType
  <2>2. mp_size[g[1]] > 0
    BY <1>7 DEF HeldOnce
  <2> QED  BY <1>1, <2>1, <2>2
<1>8. HeldOnce'
  <2>1. ASSUME NEW u \in Threads, NEW g \in mp_held'[u] PROVE mp_size'[g[1]] > 0 /\ mp_size'[g[1]] >= g[2]
    <3>1. CASE g \in mp_held[u]
      <4>1. mp_size'[g[1]] = mp_size[g[1]]
        BY <1>4, <1>7, <3>1
      <4> QED  BY <3>1, <4>1 DEF HeldOnce
    <3>2. CASE g = h
      BY <1>3, <1>4, <3>2
    <3> QED  BY <1>6, <2>1, <3>1, <3>2
  <2>2. ASSUME NEW u \in Threads, NEW v \in Threads, NEW g \in mp_held'[u], NEW k \in mp_held'[v], g[1] = k[1]
        PROVE  u = v /\ g = k
    <3>1. CASE g \in mp_held[u] /\ k \in mp_held[v]
      BY <2>2, <3>1 DEF HeldOnce
    <3>2. CASE g \in mp_held[u] /\ v = t /\ k = h
      BY <1>3, <1>7, <2>2, <3>2
    <3>3. CASE u = t /\ g = h /\ k \in mp_held[v]
      BY <1>3, <1>7, <2>2, <3>3
    <3>4. CASE u = t /\ g = h /\ v = t /\ k = h
      BY <3>4
    <3> QED  BY <1>6, <2>2, <3>1, <3>2, <3>3, <3>4
  <2> QED  BY <2>1, <2>2 DEF HeldOnce
<1>9. ASSUME NEW c \in Blocks PROVE IsHeld(c)' <=> IsHeld(c) \/ c = b
  BY <1>3, <1>5, <1>6 DEF IsHeld
<1>10. /\ mp_pc' \in [Threads -> {"idle", "allocate", "new", "deallocate"}]
       /\ mp_pobj' \in [Threads -> Blocks \cup {None}] /\ mp_n' \in [Threads -> Nat]
       /\ mp_block' \in [Threads -> Blocks \cup {None}]
       /\ \A u \in Threads :
            \/ mp_pc'[u] = mp_pc[u] /\ mp_pobj'[u] = mp_pobj[u] /\ mp_n'[u] = mp_n[u] /\ mp_block'[u] = mp_block[u]
            \/ mp_pc[u] = "new" /\ mp_pc'[u] = "idle"
  BY DEF MempoolType, Ends
<1>11. ASSUME NEW c \in Blocks PROVE OnItsWay(c)' <=> OnItsWay(c)
  BY <1>10 DEF OnItsWay
<1>12. FreeBlocks' = FreeBlocks
  <2>1. ASSUME NEW c \in Blocks
        PROVE  /\ IsFree(c)' <=> IsFree(c)
               /\ IsFree(c) => mp_size'[c] = mp_size[c]
    <3>1. CASE c = b
      <4>1. ~ IsFree(c) /\ ~ IsFree(c)'
        BY <1>1, <1>9, <3>1 DEF IsFree
      <4> QED  BY <4>1
    <3>2. CASE c # b
      BY <1>4, <1>9, <1>11, <3>2 DEF IsFree
    <3> QED  BY <3>1, <3>2
  <2> QED  BY <2>1 DEF FreeBlocks
<1>13. LinksSound(FreeBlocks, mp_head, mp_link)'
  BY <1>12
<1>14. ThreadsRight'
  <2>1. \A u \in Threads : mp_pc'[u] # "idle" => mp_n'[u] \in 1 .. max_bytes
    BY <1>10 DEF ThreadsRight
  <2>2. \A u \in Threads : mp_pc'[u] \in Taking => mp_pobj'[u] = FirstOf(mp_n[u])'
    BY <1>10 DEF ThreadsRight, FirstOf, Taking
  <2>3. ASSUME NEW u \in Threads, mp_pc'[u] = "deallocate"
        PROVE  mp_block'[u] \in Blocks /\ mp_n'[u] = mp_size'[mp_block'[u]] /\ (~ IsHeld(mp_block[u]))'
    <3>1. mp_pc[u] = "deallocate" /\ mp_n'[u] = mp_n[u] /\ mp_block'[u] = mp_block[u]
      BY <1>10, <2>3
    <3>2. /\ mp_block[u] \in Blocks /\ mp_n[u] = mp_size[mp_block[u]] /\ ~ IsHeld(mp_block[u])
          /\ mp_n[u] \in 1 .. max_bytes
      BY <3>1 DEF ThreadsRight
    <3>3. mp_block[u] # b
      BY <1>1, <3>2
    <3> QED  BY <1>4, <1>9, <3>1, <3>2, <3>3
  <2> QED  BY <2>1, <2>2, <2>3 DEF ThreadsRight
<1>15. OneTakes'
  BY <1>10 DEF OneTakes, Taking
<1>16. SizesRounded'
  BY <1>1, <1>4 DEF SizesRounded
<1>17. MempoolType'
  BY <1>4, <1>5, <1>10 DEF MempoolType
<1> QED  BY <1>8, <1>13, <1>14, <1>15, <1>16, <1>17

(* Nothing is rounded to nothing, and sizes of one freelist are the same.  *)
LEMMA RoundedAlike ==
  /\ _round_up(0) = 0
  /\ \A m, n \in Nat \ {0} :
       _round_up(m) = m /\ _round_up(n) = n /\ _FREELIST_INDEX(m) = _FREELIST_INDEX(n) => m = n
<1>1. align \in Nat /\ align >= 1
  BY MempoolAssumption
<1>2. _round_up(0) = 0
  <2>1. (0 + align - 1) \div align = 0
    BY <1>1
  <2> QED  BY <1>1, <2>1 DEF _round_up
<1>3. ASSUME NEW n \in Nat \ {0}, _round_up(n) = n
      PROVE  \E q \in Nat : n = q * align /\ _FREELIST_INDEX(n) = q - 1
  <2> DEFINE a == align
             q == (n + a - 1) \div a
             p == q - 1
             r == n - 1
  <2>1. a \in Nat /\ a >= 1 /\ n + a - 1 \in Nat
    BY <1>1
  <2>2. q \in Nat
    BY <2>1
  <2>3. n = q * a
    BY <1>3 DEF _round_up
  <2>4. _FREELIST_INDEX(n) = r \div a
    BY DEF _FREELIST_INDEX
  <2> HIDE DEF a, q
  <2>5. q >= 1
    BY <2>1, <2>2, <2>3
  <2>6. r \in Nat /\ p \in Nat /\ p * a <= r /\ r < p * a + a
    BY <2>1, <2>2, <2>3, <2>5
  <2> HIDE DEF r, p
  <2>7. r \div a = p
    BY <2>1, <2>6
  <2> QED  BY <2>2, <2>3, <2>4, <2>7 DEF a, p
<1>4. ASSUME NEW m \in Nat \ {0}, NEW n \in Nat \ {0}, _round_up(m) = m, _round_up(n) = n,
             _FREELIST_INDEX(m) = _FREELIST_INDEX(n)
      PROVE  m = n
  <2>1. PICK p \in Nat : m = p * align /\ _FREELIST_INDEX(m) = p - 1
    BY <1>3, <1>4
  <2>2. PICK q \in Nat : n = q * align /\ _FREELIST_INDEX(n) = q - 1
    BY <1>3, <1>4
  <2>3. p = q
    BY <1>4, <2>1, <2>2
  <2> QED  BY <2>1, <2>2, <2>3
<1> QED  BY <1>2, <1>4

(* Who gets the mutex, or needs none, is the only one at the freelists.    *)
LEMMA Alone ==
  ASSUME MempoolInv, NEW t \in Threads, Idle(t), mp_bmt => mp_lock = {}
  PROVE  /\ \A u \in Threads : mp_pc[u] \notin Taking
         /\ ~ mp_bmt => t = User
<1>1. ~ mp_bmt => t = User
  BY DEF Idle, Users
<1> QED  BY <1>1 DEF MempoolInv, OneTakes, Idle, Taking

(* And so is who is there.                                                 *)
LEMMA AloneThere ==
  ASSUME MempoolInv, NEW t \in Threads, mp_pc[t] \in Taking
  PROVE  \A u \in Threads : u # t => mp_pc[u] \notin Taking
  BY DEF MempoolInv, OneTakes

(* Each step of the pool keeps its invariant: a client asks for a block    *)
(* and reads the head of the freelist.                                     *)
LEMMA AllocateBeginsKeeps ==
  ASSUME MempoolInv, NEW t \in Threads, NEW n \in Asked, AllocateBegins(t, n)
  PROVE  MempoolInv'
<1> USE DEF MempoolInv
<1>1. n \in Nat \ {0} /\ n <= max_bytes /\ n \in 1 .. max_bytes
  <2>1. max_bytes \in Nat
    BY MempoolAssumption DEF max_bytes
  <2> QED  BY <2>1, MempoolAssumption DEF AllocateBegins
<1>2. (\A u \in Threads : mp_pc[u] \notin Taking) /\ (~ mp_bmt => t = User)
  BY Alone DEF AllocateBegins, pthread_mutex_lock
<1>3. /\ mp_pc' = [mp_pc EXCEPT ![t] = "allocate"] /\ mp_n' = [mp_n EXCEPT ![t] = n]
      /\ mp_pobj' = [mp_pobj EXCEPT ![t] = FirstOf(n)]
      /\ mp_lock' = mp_lock \cup {t} /\ (mp_bmt => mp_lock = {})
      /\ UNCHANGED <<mp_bmt, mp_head, mp_link, mp_size, mp_block, mp_held, mp_twice>>
  BY DEF AllocateBegins, pthread_mutex_lock, Goto, FirstOf
<1>4. FirstOf(n) \in Blocks \cup {None}
  <2>1. _FREELIST_INDEX(_round_up(n)) \in Lists
    BY <1>1, RoundedUp
  <2> QED  BY <2>1 DEF FirstOf, LinksSound
<1>5. MempoolType'
  BY <1>1, <1>3, <1>4 DEF MempoolType
<1>6. \A u \in Threads : mp_pc'[u] = IF u = t THEN "allocate" ELSE mp_pc[u]
  BY <1>3 DEF MempoolType
<1>7. \A c \in Blocks : OnItsWay(c)' <=> OnItsWay(c)
  BY <1>2, <1>3, <1>6 DEF OnItsWay, Taking
<1>8. \A c : IsHeld(c)' <=> IsHeld(c)
  BY <1>3 DEF IsHeld
<1>9. FreeBlocks' = FreeBlocks
  BY <1>3, <1>7, <1>8 DEF FreeBlocks, IsFree
<1>10. LinksSound(FreeBlocks, mp_head, mp_link)'
  BY <1>3, <1>9
<1>11. OneTakes'
  BY <1>2, <1>3, <1>6 DEF OneTakes
<1>12. ThreadsRight'
  <2>1. ASSUME NEW u \in Threads
        PROVE  /\ mp_pc'[u] # "idle" => mp_n'[u] \in 1 .. max_bytes
               /\ mp_pc'[u] \in Taking => mp_pobj'[u] = FirstOf(mp_n[u])'
               /\ mp_pc'[u] # "deallocate"
    <3>1. CASE u = t
      <4>1. mp_pc'[u] = "allocate" /\ mp_n'[u] = n /\ mp_pobj'[u] = FirstOf(n)
        BY <1>3, <1>6, <3>1 DEF MempoolType
      <4>2. FirstOf(mp_n[u])' = FirstOf(n)
        BY <1>3, <4>1 DEF FirstOf
      <4> QED  BY <1>1, <4>1, <4>2
    <3>2. CASE u # t
      <4>1. mp_pc'[u] = mp_pc[u] /\ mp_n'[u] = mp_n[u]
        BY <1>3, <3>2 DEF MempoolType
      <4> QED  BY <1>2, <4>1 DEF ThreadsRight, Taking
    <3> QED  BY <3>1, <3>2
  <2> QED  BY <2>1 DEF ThreadsRight
<1>13. HeldOnce' /\ SizesRounded'
  BY <1>3 DEF HeldOnce, SizesRounded
<1> QED  BY <1>3, <1>5, <1>10, <1>11, <1>12, <1>13

(* The freelist is empty, and malloc is to be called.                      *)
LEMMA AllocateNewKeeps ==
  ASSUME MempoolInv, NEW t \in Threads, AllocateNew(t)
  PROVE  MempoolInv'
<1> USE DEF MempoolInv
<1>1. /\ mp_pc[t] = "allocate" /\ mp_pc' = [mp_pc EXCEPT ![t] = "new"] /\ mp_lock' = mp_lock \ {t}
      /\ UNCHANGED <<mp_bmt, mp_head, mp_link, mp_size, mp_pobj, mp_n, mp_block, mp_held, mp_twice>>
  BY DEF AllocateNew, pthread_mutex_unlock, Goto
<1>2. \A u \in Threads : u # t => mp_pc[u] \notin Taking
  BY <1>1, AloneThere DEF Taking
<1>3. \A u \in Threads : mp_pc'[u] = IF u = t THEN "new" ELSE mp_pc[u]
  BY <1>1 DEF MempoolType
<1>4. \A u \in Threads : mp_pc'[u] \notin Taking
  BY <1>2, <1>3 DEF Taking
<1>5. \A c \in Blocks : OnItsWay(c)' <=> OnItsWay(c)
  BY <1>1, <1>2, <1>4, <1>3 DEF OnItsWay, Taking
<1>6. FreeBlocks' = FreeBlocks
  BY <1>1, <1>5 DEF FreeBlocks, IsFree, IsHeld
<1>7. LinksSound(FreeBlocks, mp_head, mp_link)'
  BY <1>1, <1>6
<1>8. OneTakes'
  BY <1>1, <1>4 DEF OneTakes
<1>9. ThreadsRight'
  BY <1>1, <1>3, <1>4 DEF ThreadsRight, Taking
<1>10. HeldOnce' /\ SizesRounded' /\ MempoolType'
  BY <1>1 DEF HeldOnce, SizesRounded, MempoolType
<1> QED  BY <1>1, <1>7, <1>8, <1>9, <1>10

(* The first block of the freelist goes to the client.                     *)
LEMMA AllocateFromListKeeps ==
  ASSUME MempoolInv, NEW t \in Threads, AllocateFromList(t)
  PROVE  MempoolInv'
<1> USE DEF MempoolInv
<1> DEFINE p == mp_pobj[t]
           n == mp_n[t]
           j == _FREELIST_INDEX(_round_up(n))
           h == <<p, n>>
<1>1. /\ mp_pc[t] = "allocate" /\ p # None
      /\ mp_head' = [mp_head EXCEPT ![j] = mp_link[p]]
      /\ mp_held' = [mp_held EXCEPT ![t] = @ \cup {h}]
      /\ mp_link' = [mp_link EXCEPT ![p] = None]
      /\ mp_lock' = mp_lock \ {t}
      /\ Ends(t)
      /\ UNCHANGED <<mp_bmt, mp_size, mp_twice>>
  BY DEF AllocateFromList, pthread_mutex_unlock
<1>2. n \in 1 .. max_bytes /\ p = mp_head[j]
  BY <1>1 DEF ThreadsRight, FirstOf, Taking
<1>3. n \in Nat /\ n # 0 /\ n <= max_bytes
  <2>1. max_bytes \in Nat
    BY MempoolAssumption DEF max_bytes
  <2> QED  BY <1>2, <2>1
<1>4. /\ _round_up(n) \in Nat /\ n <= _round_up(n) /\ _round_up(_round_up(n)) = _round_up(n)
      /\ j \in Lists
  BY <1>3, RoundedUp
<1>5. p \in Blocks /\ IsFree(p) /\ _FREELIST_INDEX(mp_size[p]) = j /\ p \in FreeBlocks[j]
  <2>1. p \in FreeBlocks[j]
    BY <1>1, <1>2, <1>4 DEF LinksSound
  <2> QED  BY <1>4, <2>1 DEF FreeBlocks
<1>6. mp_size[p] \in Nat \ {0} /\ mp_size[p] <= max_bytes /\ ~ IsHeld(p)
  <2>1. max_bytes \in Nat
    BY MempoolAssumption DEF max_bytes
  <2> QED  BY <1>5, <2>1 DEF IsFree
<1>7. mp_size[p] >= n /\ mp_size[p] > 0
  <2>1. _round_up(mp_size[p]) = mp_size[p]
    BY <1>5, <1>6 DEF SizesRounded
  <2>2. _round_up(n) \in Nat \ {0}
    BY <1>3, <1>4
  <2>3. mp_size[p] = _round_up(n)
    BY <1>4, <1>5, <1>6, <2>1, <2>2, RoundedAlike
  <2> QED  BY <1>4, <1>6, <2>3
<1>8. h \in Blocks \X Nat /\ h[1] = p /\ h[2] = n
  BY <1>3, <1>5
<1>9. \A u \in Threads : u # t => mp_pc[u] \notin Taking
  BY <1>1, AloneThere DEF Taking
<1>10. /\ mp_pc' \in [Threads -> {"idle", "allocate", "new", "deallocate"}]
       /\ mp_pobj' \in [Threads -> Blocks \cup {None}] /\ mp_n' \in [Threads -> Nat]
       /\ mp_block' \in [Threads -> Blocks \cup {None}]
       /\ mp_pc'[t] = "idle"
       /\ \A u \in Threads : u # t => mp_pc'[u] = mp_pc[u] /\ mp_n'[u] = mp_n[u] /\ mp_block'[u] = mp_block[u]
  BY <1>1 DEF MempoolType, Ends
<1>11. \A u \in Threads : mp_pc'[u] \notin Taking
  BY <1>9, <1>10 DEF Taking
<1> HIDE DEF h, p, n, j
<1>12. /\ mp_held' \in [Threads -> SUBSET (Blocks \X Nat)]
       /\ mp_held'[t] = mp_held[t] \cup {h}
       /\ \A u \in Threads : u # t => mp_held'[u] = mp_held[u]
  BY <1>1, <1>8 DEF MempoolType
<1>13. \A u \in Threads : \A g \in mp_held'[u] : g \in mp_held[u] \/ (u = t /\ g = h)
  BY <1>12
<1>14. ASSUME NEW c \in Blocks PROVE IsHeld(c)' <=> IsHeld(c) \/ c = p
  BY <1>8, <1>12, <1>13 DEF IsHeld
<1>15. \A c \in Blocks : ~ OnItsWay(c) /\ ~ OnItsWay(c)'
  BY <1>1, <1>9, <1>11 DEF OnItsWay, Taking
<1>16. FreeBlocks' = [FreeBlocks EXCEPT ![j] = @ \ {p}]
  <2>1. \A c \in Blocks : IsFree(c)' <=> IsFree(c) /\ c # p
    BY <1>1, <1>14, <1>15 DEF IsFree
  <2>2. ASSUME NEW i \in Lists
        PROVE  {c \in Blocks : IsFree(c)' /\ _FREELIST_INDEX(mp_size'[c]) = i}
                 = IF i = j THEN FreeBlocks[i] \ {p} ELSE FreeBlocks[i]
    <3>1. \A c \in Blocks : c \in FreeBlocks[i] <=> IsFree(c) /\ _FREELIST_INDEX(mp_size[c]) = i
      BY DEF FreeBlocks
    <3>2. FreeBlocks[i] \subseteq Blocks
      BY DEF FreeBlocks
    <3> QED  BY <1>1, <1>5, <2>1, <3>1, <3>2
  <2> QED  BY <1>4, <2>2 DEF FreeBlocks
<1>17. LinksSound(FreeBlocks, mp_head, mp_link)'
  <2>1. LinksSound([FreeBlocks EXCEPT ![j] = @ \ {p}], [mp_head EXCEPT ![j] = mp_link[p]],
                   [mp_link EXCEPT ![p] = None])
    BY <1>1, <1>2, <1>4, Popped
  <2> QED  BY <1>1, <1>16, <2>1
<1>18. HeldOnce'
  <2>0. ASSUME NEW u \in Threads, NEW g \in mp_held[u] PROVE g[1] # p
    <3>1. g[1] # p
      BY <1>6, <2>0 DEF IsHeld
    <3> QED  BY <3>1
  <2>1. ASSUME NEW u \in Threads, NEW g \in mp_held'[u] PROVE mp_size'[g[1]] > 0 /\ mp_size'[g[1]] >= g[2]
    <3>1. CASE g \in mp_held[u]
      BY <1>1, <3>1 DEF HeldOnce
    <3>2. CASE g = h
      BY <1>1, <1>7, <1>8, <3>2
    <3> QED  BY <1>13, <2>1, <3>1, <3>2
  <2>2. ASSUME NEW u \in Threads, NEW v \in Threads, NEW g \in mp_held'[u], NEW k \in mp_held'[v], g[1] = k[1]
        PROVE  u = v /\ g = k
    <3>1. CASE g \in mp_held[u] /\ k \in mp_held[v]
      BY <2>2, <3>1 DEF HeldOnce
    <3>2. CASE g \in mp_held[u] /\ v = t /\ k = h
      BY <1>8, <2>0, <2>2, <3>2
    <3>3. CASE u = t /\ g = h /\ k \in mp_held[v]
      BY <1>8, <2>0, <2>2, <3>3
    <3>4. CASE u = t /\ g = h /\ v = t /\ k = h
      BY <3>4
    <3> QED  BY <1>13, <2>2, <3>1, <3>2, <3>3, <3>4
  <2> QED  BY <2>1, <2>2 DEF HeldOnce
<1>19. ThreadsRight'
  BY <1>10, <1>11 DEF ThreadsRight, Taking
<1>20. OneTakes'
  BY <1>1, <1>11 DEF OneTakes
<1>21. SizesRounded' /\ MempoolType'
  BY <1>1, <1>10, <1>12 DEF SizesRounded, MempoolType
<1> QED  BY <1>1, <1>17, <1>18, <1>19, <1>20, <1>21

(* What is taken out of a client's blocks is no client's any more.         *)
LEMMA HeldWithout ==
  ASSUME MempoolInv, NEW t \in Threads, NEW h \in mp_held[t],
         mp_held' = [mp_held EXCEPT ![t] = @ \ {h}]
  PROVE  /\ mp_held' \in [Threads -> SUBSET (Blocks \X Nat)]
         /\ h[1] \in Blocks /\ mp_size[h[1]] > 0
         /\ \A u \in Threads : mp_held'[u] \subseteq mp_held[u]
         /\ \A c : IsHeld(c)' <=> IsHeld(c) /\ c # h[1]
<1> USE DEF MempoolInv
<1>1. mp_held \in [Threads -> SUBSET (Blocks \X Nat)]
  BY DEF MempoolType
<1>2. /\ mp_held' \in [Threads -> SUBSET (Blocks \X Nat)]
      /\ mp_held'[t] = mp_held[t] \ {h}
      /\ \A u \in Threads : u # t => mp_held'[u] = mp_held[u]
  BY <1>1
<1>3. h[1] \in Blocks /\ mp_size[h[1]] > 0
  <2>1. h \in Blocks \X Nat
    BY <1>1
  <2> QED  BY <2>1 DEF HeldOnce
<1>4. \A u \in Threads : mp_held'[u] \subseteq mp_held[u]
  BY <1>2
<1>5. ASSUME NEW c, IsHeld(c)' PROVE IsHeld(c) /\ c # h[1]
  <2>1. PICK u \in Threads : \E g \in mp_held'[u] : g[1] = c
    BY <1>5 DEF IsHeld
  <2>2. PICK g \in mp_held'[u] : g[1] = c
    BY <2>1
  <2>3. g \in mp_held[u]
    BY <1>4, <2>2
  <2>4. ASSUME c = h[1] PROVE FALSE
    <3>1. u = t /\ g = h
      BY <2>2, <2>3, <2>4 DEF HeldOnce
    <3> QED  BY <1>2, <2>2, <3>1
  <2> QED  BY <2>2, <2>3, <2>4 DEF IsHeld
<1>6. ASSUME NEW c, IsHeld(c), c # h[1] PROVE IsHeld(c)'
  <2>1. PICK u \in Threads : \E g \in mp_held[u] : g[1] = c
    BY <1>6 DEF IsHeld
  <2>2. PICK g \in mp_held[u] : g[1] = c
    BY <2>1
  <2>3. g \in mp_held'[u]
    BY <1>2, <1>6, <2>2
  <2> QED  BY <2>2, <2>3 DEF IsHeld
<1> QED  BY <1>2, <1>3, <1>4, <1>5, <1>6

(* A block that is too large for the freelists goes back to malloc.        *)
LEMMA DeallocateLargeKeeps ==
  ASSUME MempoolInv, NEW t \in Threads, DeallocateLarge(t)
  PROVE  MempoolInv'
<1> USE DEF MempoolInv
<1>1. PICK h \in mp_held[t] :
        /\ mp_size[h[1]] > max_bytes /\ mp_size' = [mp_size EXCEPT ![h[1]] = 0]
        /\ mp_held' = [mp_held EXCEPT ![t] = @ \ {h}]
  BY DEF DeallocateLarge
<1>2. UNCHANGED <<mp_bmt, mp_head, mp_link, mp_lock, mp_pc, mp_pobj, mp_n, mp_block, mp_twice>>
  BY DEF DeallocateLarge
<1> DEFINE b == h[1]
<1>3. /\ mp_held' \in [Threads -> SUBSET (Blocks \X Nat)] /\ b \in Blocks /\ mp_size[b] > 0
      /\ \A u \in Threads : mp_held'[u] \subseteq mp_held[u]
      /\ \A c : IsHeld(c)' <=> IsHeld(c) /\ c # b
  BY <1>1, HeldWithout
<1>4. IsHeld(b)
  BY DEF IsHeld
<1>5. /\ mp_size' \in [Blocks -> Nat] /\ mp_size'[b] = 0
      /\ \A c \in Blocks : c # b => mp_size'[c] = mp_size[c]
  BY <1>1, <1>3 DEF MempoolType
<1>6. mp_size[b] > max_bytes
  BY <1>1
<1> HIDE DEF b
<1>7. max_bytes \in Nat
  BY MempoolAssumption DEF max_bytes
<1>8. FreeBlocks' = FreeBlocks
  <2>1. \A c \in Blocks : OnItsWay(c)' <=> OnItsWay(c)
    BY <1>2 DEF OnItsWay
  <2>2. ~ IsFree(b) /\ ~ IsFree(b)'
    BY <1>4, <1>5 DEF IsFree
  <2>3. \A c \in Blocks : c # b => (IsFree(c)' <=> IsFree(c)) /\ mp_size'[c] = mp_size[c]
    BY <1>3, <1>5, <2>1 DEF IsFree
  <2> QED  BY <2>2, <2>3 DEF FreeBlocks
<1>9. LinksSound(FreeBlocks, mp_head, mp_link)'
  BY <1>2, <1>8
<1>10. HeldOnce'
  <2>1. ASSUME NEW u \in Threads, NEW g \in mp_held'[u] PROVE mp_size'[g[1]] = mp_size[g[1]]
    <3>1. g \in Blocks \X Nat
      BY <1>3, <2>1
    <3>2. IsHeld(g[1])'
      BY <2>1 DEF IsHeld
    <3> QED  BY <1>3, <1>5, <3>1, <3>2
  <2>2. \A u \in Threads : \A g \in mp_held'[u] : mp_size'[g[1]] > 0 /\ mp_size'[g[1]] >= g[2]
    BY <1>3, <2>1 DEF HeldOnce
  <2> QED  BY <1>3, <2>2 DEF HeldOnce
<1>11. ThreadsRight'
  <2>1. ASSUME NEW u \in Threads, mp_pc[u] = "deallocate"
        PROVE  /\ mp_block[u] \in Blocks /\ mp_n[u] = mp_size'[mp_block[u]] /\ ~ IsHeld(mp_block[u])'
    BY <1>2, <1>3, <1>4, <1>5, <2>1 DEF ThreadsRight
  <2> QED  BY <1>2, <2>1 DEF ThreadsRight, FirstOf
<1>12. SizesRounded'
  BY <1>5, RoundedAlike DEF SizesRounded
<1> QED  BY <1>2, <1>3, <1>5, <1>9, <1>10, <1>11, <1>12 DEF MempoolType, OneTakes

(* A client gives a block back, and the head of the freelist is read.      *)
LEMMA DeallocateBeginsKeeps ==
  ASSUME MempoolInv, NEW t \in Threads, DeallocateBegins(t)
  PROVE  MempoolInv'
<1> USE DEF MempoolInv
<1>1. PICK h \in mp_held[t] :
        /\ mp_size[h[1]] <= max_bytes
        /\ mp_held' = [mp_held EXCEPT ![t] = @ \ {h}]
        /\ mp_block' = [mp_block EXCEPT ![t] = h[1]]
        /\ mp_n' = [mp_n EXCEPT ![t] = mp_size[h[1]]]
        /\ mp_pobj' = [mp_pobj EXCEPT ![t] = FirstOf(mp_size[h[1]])]
  BY DEF DeallocateBegins, FirstOf
<1>2. /\ mp_lock' = mp_lock \cup {t} /\ (mp_bmt => mp_lock = {})
      /\ mp_pc' = [mp_pc EXCEPT ![t] = "deallocate"]
      /\ UNCHANGED <<mp_bmt, mp_head, mp_link, mp_size, mp_twice>>
  BY DEF DeallocateBegins, pthread_mutex_lock, Goto
<1> DEFINE b == h[1]
           n == mp_size[b]
<1>3. (\A u \in Threads : mp_pc[u] \notin Taking) /\ (~ mp_bmt => t = User)
  BY <1>2, Alone DEF DeallocateBegins
<1>4. /\ mp_held' \in [Threads -> SUBSET (Blocks \X Nat)] /\ b \in Blocks /\ n > 0
      /\ \A u \in Threads : mp_held'[u] \subseteq mp_held[u]
      /\ \A c : IsHeld(c)' <=> IsHeld(c) /\ c # b
  BY <1>1, HeldWithout
<1>5. IsHeld(b)
  BY DEF IsHeld
<1>6. n \in Nat /\ n # 0 /\ n <= max_bytes /\ n \in 1 .. max_bytes
  <2>1. max_bytes \in Nat
    BY MempoolAssumption DEF max_bytes
  <2> QED  BY <1>1, <1>4, <2>1 DEF MempoolType
<1>7. FirstOf(n) \in Blocks \cup {None}
  <2>1. _FREELIST_INDEX(_round_up(n)) \in Lists
    BY <1>6, RoundedUp
  <2> QED  BY <2>1 DEF FirstOf, LinksSound
<1>8. /\ mp_block' = [mp_block EXCEPT ![t] = b] /\ mp_n' = [mp_n EXCEPT ![t] = n]
      /\ mp_pobj' = [mp_pobj EXCEPT ![t] = FirstOf(n)]
  BY <1>1
<1>9. n = mp_size[b]
  OBVIOUS
<1> HIDE DEF b, n
<1>10. MempoolType'
  BY <1>2, <1>4, <1>6, <1>7, <1>8 DEF MempoolType
<1>11. \A u \in Threads : /\ mp_pc'[u] = (IF u = t THEN "deallocate" ELSE mp_pc[u])
                          /\ mp_block'[u] = (IF u = t THEN b ELSE mp_block[u])
                          /\ mp_n'[u] = (IF u = t THEN n ELSE mp_n[u])
                          /\ mp_pobj'[u] = (IF u = t THEN FirstOf(n) ELSE mp_pobj[u])
  BY <1>2, <1>8 DEF MempoolType
<1>12. \A c \in Blocks : ~ OnItsWay(c) /\ (OnItsWay(c)' <=> c = b)
  BY <1>3, <1>11 DEF OnItsWay, Taking
<1>13. FreeBlocks' = FreeBlocks
  <2>1. \A c \in Blocks : IsFree(c)' <=> IsFree(c)
    BY <1>2, <1>4, <1>5, <1>12 DEF IsFree
  <2> QED  BY <1>2, <2>1 DEF FreeBlocks
<1>14. LinksSound(FreeBlocks, mp_head, mp_link)'
  BY <1>2, <1>13
<1>15. OneTakes'
  BY <1>2, <1>3, <1>11 DEF OneTakes
<1>16. ThreadsRight'
  <2>1. ASSUME NEW u \in Threads
        PROVE  /\ mp_pc'[u] # "idle" => mp_n'[u] \in 1 .. max_bytes
               /\ mp_pc'[u] \in Taking => mp_pobj'[u] = FirstOf(mp_n[u])'
               /\ mp_pc'[u] = "deallocate" =>
                    mp_block'[u] \in Blocks /\ mp_n'[u] = mp_size'[mp_block'[u]] /\ (~ IsHeld(mp_block[u]))'
    <3>1. CASE u = t
      <4>1. mp_n'[u] = n /\ mp_pobj'[u] = FirstOf(n) /\ mp_block'[u] = b
        BY <1>11, <3>1
      <4>2. FirstOf(mp_n[u])' = FirstOf(n)
        BY <1>2, <4>1 DEF FirstOf
      <4>3. ~ IsHeld(b)'
        BY <1>4
      <4>4. (~ IsHeld(mp_block[u]))'
        BY <4>1, <4>3 DEF IsHeld
      <4> QED  BY <1>2, <1>4, <1>6, <1>9, <4>1, <4>2, <4>4
    <3>2. CASE u # t
      <4>1. mp_pc'[u] = mp_pc[u] /\ mp_n'[u] = mp_n[u]
        BY <1>11, <3>2
      <4> QED  BY <1>3, <4>1 DEF ThreadsRight, Taking
    <3> QED  BY <3>1, <3>2
  <2> QED  BY <2>1 DEF ThreadsRight
<1>17. HeldOnce'
  BY <1>2, <1>4 DEF HeldOnce
<1> QED  BY <1>2, <1>10, <1>14, <1>15, <1>16, <1>17 DEF SizesRounded

(* The block is the first of the freelist now.                             *)
LEMMA DeallocateEndsKeeps ==
  ASSUME MempoolInv, NEW t \in Threads, DeallocateEnds(t)
  PROVE  MempoolInv'
<1> USE DEF MempoolInv
<1> DEFINE b == mp_block[t]
           n == mp_n[t]
           j == _FREELIST_INDEX(_round_up(n))
<1>1. /\ mp_pc[t] = "deallocate"
      /\ mp_head' = [mp_head EXCEPT ![j] = b]
      /\ mp_link' = [mp_link EXCEPT ![b] = mp_pobj[t]]
      /\ mp_lock' = mp_lock \ {t} /\ Ends(t)
      /\ UNCHANGED <<mp_bmt, mp_size, mp_held, mp_twice>>
  BY DEF DeallocateEnds, pthread_mutex_unlock
<1>2. /\ n \in 1 .. max_bytes /\ mp_pobj[t] = mp_head[j]
      /\ b \in Blocks /\ n = mp_size[b] /\ ~ IsHeld(b)
  BY <1>1 DEF ThreadsRight, FirstOf, Taking
<1>3. n \in Nat /\ n # 0 /\ n <= max_bytes
  <2>1. max_bytes \in Nat
    BY MempoolAssumption DEF max_bytes
  <2> QED  BY <1>2, <2>1
<1>4. j \in Lists /\ _FREELIST_INDEX(mp_size[b]) = j
  <2>1. _round_up(mp_size[b]) = mp_size[b]
    BY <1>2, <1>3 DEF SizesRounded
  <2> QED  BY <1>2, <1>3, <2>1, RoundedUp
<1>5. \A u \in Threads : u # t => mp_pc[u] \notin Taking
  BY <1>1, AloneThere DEF Taking
<1>6. /\ mp_pc' \in [Threads -> {"idle", "allocate", "new", "deallocate"}]
      /\ mp_pobj' \in [Threads -> Blocks \cup {None}] /\ mp_n' \in [Threads -> Nat]
      /\ mp_block' \in [Threads -> Blocks \cup {None}]
      /\ mp_pc'[t] = "idle"
      /\ \A u \in Threads : u # t => mp_pc'[u] = mp_pc[u] /\ mp_n'[u] = mp_n[u] /\ mp_block'[u] = mp_block[u]
  BY <1>1 DEF MempoolType, Ends
<1>7. \A u \in Threads : mp_pc'[u] \notin Taking
  BY <1>5, <1>6 DEF Taking
<1>8. OnItsWay(b)
  BY <1>1 DEF OnItsWay
<1>9. \A c \in Blocks : (OnItsWay(c) <=> c = b) /\ ~ OnItsWay(c)'
  BY <1>1, <1>5, <1>7, <1>8 DEF OnItsWay, Taking
<1>10. mp_size[b] \in 1 .. max_bytes
  BY <1>2
<1> HIDE DEF b, n, j
<1>11. FreeBlocks' = [FreeBlocks EXCEPT ![j] = @ \cup {b}]
  <2>1. \A c : IsHeld(c)' <=> IsHeld(c)
    BY <1>1 DEF IsHeld
  <2>2. \A c \in Blocks : IsFree(c)' <=> IsFree(c) \/ c = b
    BY <1>1, <1>2, <1>9, <1>10, <2>1 DEF IsFree
  <2>3. ASSUME NEW i \in Lists
        PROVE  {c \in Blocks : IsFree(c)' /\ _FREELIST_INDEX(mp_size'[c]) = i}
                 = IF i = j THEN FreeBlocks[i] \cup {b} ELSE FreeBlocks[i]
    <3>1. \A c \in Blocks : c \in FreeBlocks[i] <=> IsFree(c) /\ _FREELIST_INDEX(mp_size[c]) = i
      BY DEF FreeBlocks
    <3>2. FreeBlocks[i] \subseteq Blocks
      BY DEF FreeBlocks
    <3> QED  BY <1>1, <1>2, <1>4, <2>2, <3>1, <3>2
  <2> QED  BY <1>4, <2>3 DEF FreeBlocks
<1>12. LinksSound(FreeBlocks, mp_head, mp_link)'
  <2>1. \A i \in Lists : b \notin FreeBlocks[i]
    BY <1>8 DEF FreeBlocks, IsFree
  <2>2. LinksSound([FreeBlocks EXCEPT ![j] = @ \cup {b}], [mp_head EXCEPT ![j] = b],
                   [mp_link EXCEPT ![b] = mp_head[j]])
    BY <1>2, <1>4, <2>1, Pushed
  <2> QED  BY <1>1, <1>2, <1>11, <2>2
<1>13. ThreadsRight'
  BY <1>6, <1>7 DEF ThreadsRight, Taking
<1>14. OneTakes'
  BY <1>1, <1>7 DEF OneTakes
<1>15. HeldOnce' /\ SizesRounded' /\ MempoolType'
  BY <1>1, <1>6 DEF HeldOnce, SizesRounded, MempoolType
<1> QED  BY <1>1, <1>12, <1>13, <1>14, <1>15

(* All that is in the freelists goes back to malloc.                       *)
LEMMA ShrinkKeepsPool ==
  ASSUME MempoolInv, NEW t \in Threads, shrink(t)
  PROVE  MempoolInv'
<1> USE DEF MempoolInv
<1>1. /\ mp_bmt => mp_lock = {}
      /\ mp_twice' = (mp_twice \/ \E b \in OnLists : mp_size[b] = 0)
      /\ mp_size' = [b \in Blocks |-> IF b \in OnLists THEN 0 ELSE mp_size[b]]
      /\ mp_link' = [b \in Blocks |-> IF b \in OnLists THEN None ELSE mp_link[b]]
      /\ mp_head' = [i \in Lists |-> None]
      /\ UNCHANGED <<mp_bmt, mp_lock, mp_pc, mp_pobj, mp_n, mp_block, mp_held>>
  BY DEF shrink
<1>2. \A u \in Threads : mp_pc[u] \notin Taking
  BY <1>1, Alone DEF shrink
<1>3. /\ OnLists \subseteq UNION {FreeBlocks[i] : i \in Lists}
      /\ LinksSound([i \in Lists |-> FreeBlocks[i] \ OnLists], mp_head', mp_link')
  BY <1>1, Shrunk
<1>4. \A b \in OnLists : b \in Blocks /\ IsFree(b)
  BY <1>3 DEF FreeBlocks
<1>5. ~ mp_twice'
  <2>1. \A b \in OnLists : mp_size[b] \in 1 .. max_bytes
    BY <1>4 DEF IsFree
  <2>2. 0 \notin 1 .. max_bytes
    OBVIOUS
  <2>3. ~ mp_twice
    OBVIOUS
  <2> QED  BY <1>1, <2>1, <2>2, <2>3
<1>6. /\ mp_size' \in [Blocks -> Nat]
      /\ \A b \in Blocks : mp_size'[b] = IF b \in OnLists THEN 0 ELSE mp_size[b]
  BY <1>1 DEF MempoolType
<1>7. \A c : (IsHeld(c)' <=> IsHeld(c)) /\ (OnItsWay(c)' <=> OnItsWay(c))
  BY <1>1 DEF IsHeld, OnItsWay
<1>8. FreeBlocks' = [i \in Lists |-> FreeBlocks[i] \ OnLists]
  <2>1. \A c \in Blocks : IsFree(c)' <=> IsFree(c) /\ c \notin OnLists
    <3>1. 0 \notin 1 .. max_bytes
      OBVIOUS
    <3> QED  BY <1>6, <1>7, <3>1 DEF IsFree
  <2>2. ASSUME NEW i \in Lists
        PROVE  {c \in Blocks : IsFree(c)' /\ _FREELIST_INDEX(mp_size'[c]) = i} = FreeBlocks[i] \ OnLists
    <3>1. \A c \in Blocks : c \in FreeBlocks[i] <=> IsFree(c) /\ _FREELIST_INDEX(mp_size[c]) = i
      BY DEF FreeBlocks
    <3>2. FreeBlocks[i] \subseteq Blocks
      BY DEF FreeBlocks
    <3> QED  BY <1>6, <2>1, <3>1, <3>2
  <2> QED  BY <2>2 DEF FreeBlocks
<1>9. LinksSound(FreeBlocks, mp_head, mp_link)'
  BY <1>3, <1>8
<1>10. HeldOnce'
  <2>1. ASSUME NEW u \in Threads, NEW g \in mp_held[u] PROVE mp_size'[g[1]] = mp_size[g[1]]
    <3>1. g \in Blocks \X Nat
      BY <2>1 DEF MempoolType
    <3>2. IsHeld(g[1])
      BY <2>1 DEF IsHeld
    <3>3. g[1] \notin OnLists
      BY <1>4, <3>2 DEF IsFree
    <3> QED  BY <1>6, <3>1, <3>3
  <2> QED  BY <1>1, <2>1 DEF HeldOnce
<1>11. ThreadsRight'
  BY <1>1, <1>2 DEF ThreadsRight, Taking
<1>12. OneTakes' /\ MempoolType'
  BY <1>1, <1>6 DEF OneTakes, MempoolType
<1>13. SizesRounded'
  BY <1>6, RoundedAlike DEF SizesRounded
<1> QED  BY <1>5, <1>9, <1>10, <1>11, <1>12, <1>13

(* The invariant of the pool is inductive.                                 *)
LEMMA MempoolInvNext == MempoolInv /\ [MempoolNext]_mempoolVars => MempoolInv'
<1> SUFFICES ASSUME MempoolInv, [MempoolNext]_mempoolVars PROVE MempoolInv'
  OBVIOUS
<1>1. ASSUME NEW t \in Threads, NEW n \in Asked, AllocateLarge(t, n) PROVE MempoolInv'
  <2>1. n \in Nat /\ n > 0 /\ ~ (n <= max_bytes)
    <3>1. max_bytes \in Nat
      BY MempoolAssumption DEF max_bytes
    <3> QED  BY <1>1, <3>1, MempoolAssumption DEF AllocateLarge
  <2>2. _new(t, n, n) /\ UNCHANGED <<mp_bmt, mp_head, mp_link, mp_lock, mp_twice>>
        /\ UNCHANGED <<mp_pc, mp_pobj, mp_n, mp_block>>
    BY <1>1 DEF AllocateLarge
  <2> QED  BY <2>1, <2>2, NewKeeps
<1>2. ASSUME NEW t \in Threads, NewEnds(t) PROVE MempoolInv'
  <2> DEFINE a == mp_n[t]
             n == _round_up(a)
  <2>1. mp_pc[t] = "new" /\ _new(t, n, a) /\ Ends(t)
        /\ UNCHANGED <<mp_bmt, mp_head, mp_link, mp_lock, mp_twice>>
    BY <1>2 DEF NewEnds
  <2>2. a \in 1 .. max_bytes
    BY <2>1 DEF MempoolInv, ThreadsRight
  <2>3. a \in Nat /\ a > 0
    <3>1. max_bytes \in Nat
      BY MempoolAssumption DEF max_bytes
    <3> QED  BY <2>2, <3>1
  <2>4. n \in Nat /\ a <= n /\ _round_up(n) = n
    BY <2>3, RoundedUp
  <2> HIDE DEF a, n
  <2>5. n > 0
    BY <2>3, <2>4
  <2> QED  BY <2>1, <2>3, <2>4, <2>5, NewKeeps
<1>3. ASSUME UNCHANGED mempoolVars PROVE MempoolInv'
  <2>1. FreeBlocks' = FreeBlocks
    BY <1>3 DEF mempoolVars, FreeBlocks, IsFree, IsHeld, OnItsWay
  <2>2. \A b : IsHeld(b)' <=> IsHeld(b)
    BY <1>3 DEF mempoolVars, IsHeld
  <2>3. ThreadsRight'
    <3>1. ASSUME NEW u \in Threads, mp_pc[u] = "deallocate" PROVE (~ IsHeld(mp_block[u]))'
      BY <1>3, <3>1 DEF mempoolVars, IsHeld, MempoolInv, ThreadsRight
    <3> QED  BY <1>3, <3>1 DEF mempoolVars, MempoolInv, ThreadsRight, FirstOf
  <2>4. LinksSound(FreeBlocks, mp_head, mp_link)'
    BY <1>3, <2>1 DEF mempoolVars, MempoolInv
  <2> QED  BY <1>3, <2>3, <2>4 DEF mempoolVars, MempoolInv, MempoolType, OneTakes, HeldOnce, SizesRounded
<1> QED
  BY <1>1, <1>2, <1>3, AllocateBeginsKeeps, AllocateNewKeeps, AllocateFromListKeeps,
     DeallocateLargeKeeps, DeallocateBeginsKeeps, DeallocateEndsKeeps, ShrinkKeepsPool
  DEF MempoolNext

(* Whatever any number of threads allocate, give back and shrink at once,  *)
(* or one alone without a mutex: no block is with two clients, freed while *)
(* one has it, or smaller than was asked for.                              *)
THEOREM BlocksHaveOneOwner == MempoolSpec => [](BlockHasOneOwner /\ BlockIsLargeEnough)
  BY MempoolInvInit, MempoolInvNext, MempoolInvOwners, PTL DEF MempoolSpec

-----------------------------------------------------------------------------
(* What the variables of a pool hold.                                      *)
PoolType ==
  /\ pl_pc \in {"none", "open", "freeing", "freed", "wild"}
  /\ pl_blocks \in Seq([size : Nat \ {0}, live : BOOLEAN])
  /\ pl_heap \in 0 .. Len(pl_blocks) /\ pl_used \in Nat
  /\ pl_list \in Seq({"free", "user"} \X Nat)
  /\ pl_parts \in Seq([block : Nat, start : Nat, size : Nat \ {0}])

(* A part lies in its block, and one of the heap before what is used.      *)
PartLies(p) ==
  /\ p.block \in 1 .. Len(pl_blocks) /\ p.start + p.size <= pl_blocks[p.block].size
  /\ p.block = pl_heap => p.start + p.size <= pl_used
  /\ p.size >= 4 => p.start % 8 = 0

(* Two parts of one block have no byte in common.                          *)
Apart(p, q) == p.block = q.block => p.start + p.size <= q.start \/ q.start + q.size <= p.start

(* All parts of the pool lie so.                                           *)
PartsLie ==
  /\ \A k \in 1 .. Len(pl_parts) : PartLies(pl_parts[k])
  /\ \A k, l \in 1 .. Len(pl_parts) : k # l => Apart(pl_parts[k], pl_parts[l])

(* Each live block has one tracker in the list, no other block has one,    *)
(* and the callbacks come before all of them, with every block alive.      *)
IsUser(i) == pl_list[i][1] = "user"

TrackersRight ==
  /\ \A i \in 1 .. Len(pl_list) : IsUser(i) \/ \E b \in 1 .. Len(pl_blocks) :
       pl_list[i] = Tracker(b) /\ pl_blocks[b].live
  /\ \A i, j \in 1 .. Len(pl_list) : pl_list[i] = pl_list[j] => i = j \/ IsUser(i)
  /\ \A i, j \in 1 .. Len(pl_list) : i < j /\ IsUser(j) => IsUser(i)

(* No block of the pool was freed yet.                                     *)
AllLive == \A b \in 1 .. Len(pl_blocks) : pl_blocks[b].live

(* No live block is forgotten, and none is freed while callbacks are left. *)
LiveTracked ==
  /\ pl_pc # "wild" => \A b \in 1 .. Len(pl_blocks) : pl_blocks[b].live =>
                         \E i \in 1 .. Len(pl_list) : pl_list[i] = Tracker(b)
  /\ pl_pc \in {"none", "open", "wild"} => AllLive
  /\ (\E i \in 1 .. Len(pl_list) : IsUser(i)) => AllLive
  /\ pl_pc = "freed" => pl_list = <<>>

(* The inductive invariant of a pool.                                      *)
PoolInv == PoolType /\ PartsLie /\ TrackersRight /\ LiveTracked /\ ~ pl_wrong

(* What it says of the parts and of the freeing.                           *)
LEMMA PoolInvSays == PoolInv => PartsLieApart /\ PoolFreesAll
<1> SUFFICES ASSUME PoolInv PROVE PartsLieApart /\ PoolFreesAll
  OBVIOUS
<1> USE DEF PoolInv
<1>1. DOMAIN pl_parts = 1 .. Len(pl_parts) /\ DOMAIN pl_blocks = 1 .. Len(pl_blocks)
  BY LenProperties DEF PoolType
<1>2. PartsLieApart
  BY <1>1 DEF PartsLie, PartLies, Apart, PartsLieApart
<1>3. PoolFreesAll
  BY <1>1, EmptySeq DEF PoolFreesAll, LiveTracked
<1> QED  BY <1>2, <1>3

(* A pool that was not made yet.                                           *)
LEMMA PoolInvInit == PoolInit => PoolInv
  BY EmptySeq DEF PoolInit, PoolInv, PoolType, PartsLie, TrackersRight, LiveTracked, AllLive

(* A new block has its tracker, or the pool is of no use any more.         *)
LEMMA AllocateTracks ==
  ASSUME PoolInv, pl_pc \in {"none", "open"}, NEW size \in Nat \ {0}, Allocate(size)
  PROVE  /\ TrackersRight' /\ LiveTracked'
         /\ pl_pc' \in {"open", "wild"} /\ pl_list' \in Seq({"free", "user"} \X Nat)
         /\ pl_blocks' \in Seq([size : Nat \ {0}, live : BOOLEAN])
         /\ Len(pl_blocks') = Len(pl_blocks) + 1
         /\ \A b \in 1 .. Len(pl_blocks) : pl_blocks'[b] = pl_blocks[b]
         /\ pl_blocks'[Len(pl_blocks) + 1] = [size |-> size, live |-> TRUE]
<1> USE DEF PoolInv, PoolType
<1> DEFINE block == [size |-> size, live |-> TRUE]
           n == Len(pl_blocks)
           m == Len(pl_list)
<1>1. /\ pl_blocks' = Append(pl_blocks, block)
      /\ \/ pl_pc' = "wild" /\ pl_list' = pl_list
         \/ pl_pc' = "open" /\ pl_list' = Append(pl_list, Tracker(n + 1))
  BY DEF Allocate, NewBlock
<1>2. n \in Nat /\ m \in Nat
  BY LenProperties
<1>3. block \in [size : Nat \ {0}, live : BOOLEAN] /\ block.live
  OBVIOUS
<1>4. /\ pl_blocks' \in Seq([size : Nat \ {0}, live : BOOLEAN])
      /\ Len(pl_blocks') = n + 1
      /\ \A b \in 1 .. n : pl_blocks'[b] = pl_blocks[b]
      /\ pl_blocks'[n + 1] = block
  BY <1>1, <1>3, AppendProperties
<1>5. Tracker(n + 1) \in {"free", "user"} \X Nat
  BY <1>2 DEF Tracker
<1> HIDE DEF block, n, m
<1>6. AllLive'
  <2>1. AllLive
    BY DEF LiveTracked
  <2>2. \A b \in 1 .. n + 1 : b \in 1 .. n \/ b = n + 1
    BY <1>2
  <2> QED  BY <1>3, <1>4, <2>1, <2>2 DEF AllLive, n
<1>7. CASE pl_pc' = "wild" /\ pl_list' = pl_list
  <2>1. TrackersRight'
    <3>1. \A b \in 1 .. n : b \in 1 .. n + 1
      BY <1>2
    <3> QED  BY <1>4, <1>7, <3>1 DEF TrackersRight, IsUser, n
  <2>2. LiveTracked'
    BY <1>6, <1>7 DEF LiveTracked
  <2> QED  BY <1>4, <1>7, <2>1, <2>2 DEF n, block
<1>8. CASE pl_pc' = "open" /\ pl_list' = Append(pl_list, Tracker(n + 1))
  <2>1. /\ pl_list' \in Seq({"free", "user"} \X Nat) /\ Len(pl_list') = m + 1
        /\ \A i \in 1 .. m : pl_list'[i] = pl_list[i]
        /\ pl_list'[m + 1] = Tracker(n + 1)
    BY <1>5, <1>8, AppendProperties DEF m
  <2>2. \A i \in 1 .. m + 1 : i \in 1 .. m \/ i = m + 1
    BY <1>2
  <2>3. \A b \in 1 .. n : b \in 1 .. n + 1 /\ Tracker(b) # Tracker(n + 1)
    BY <1>2 DEF Tracker
  <2> DEFINE Calls(i) == pl_list'[i][1] = "user"
  <2>4. ~ Calls(m + 1)
    BY <2>1 DEF Tracker
  <2>5. \A i \in 1 .. m : Calls(i) <=> IsUser(i)
    BY <2>1 DEF IsUser
  <2> HIDE DEF Calls
  <2>6. \A i \in 1 .. m : pl_list[i] # Tracker(n + 1)
    <3>1. \A i \in 1 .. m : IsUser(i) \/ \E b \in 1 .. n : pl_list[i] = Tracker(b)
      BY DEF TrackersRight, m, n
    <3>2. \A i \in 1 .. m : IsUser(i) => pl_list[i] # Tracker(n + 1)
      BY DEF IsUser, Tracker
    <3> QED  BY <2>3, <3>1, <3>2
  <2>7. \A i \in 1 .. m + 1 : Calls(i) \/ \E b \in 1 .. n + 1 :
          pl_list'[i] = Tracker(b) /\ pl_blocks'[b].live
    <3>1. \A i \in 1 .. m : IsUser(i) \/ \E b \in 1 .. n : pl_list[i] = Tracker(b) /\ pl_blocks[b].live
      BY DEF TrackersRight, m, n
    <3>2. pl_blocks'[n + 1].live /\ n + 1 \in 1 .. n + 1
      BY <1>2, <1>3, <1>4
    <3>3. ASSUME NEW i \in 1 .. m
          PROVE  Calls(i) \/ \E b \in 1 .. n + 1 : pl_list'[i] = Tracker(b) /\ pl_blocks'[b].live
      <4>1. CASE IsUser(i)
        BY <2>5, <4>1
      <4>2. CASE \E b \in 1 .. n : pl_list[i] = Tracker(b) /\ pl_blocks[b].live
        BY <1>4, <2>1, <2>3, <4>2
      <4> QED  BY <3>1, <4>1, <4>2
    <3>4. \E b \in 1 .. n + 1 : pl_list'[m + 1] = Tracker(b) /\ pl_blocks'[b].live
      BY <2>1, <3>2
    <3> QED  BY <2>2, <3>3, <3>4
  <2>8. \A i, j \in 1 .. m + 1 : pl_list'[i] = pl_list'[j] => i = j \/ Calls(i)
    <3>1. \A i, j \in 1 .. m : pl_list[i] = pl_list[j] => i = j \/ IsUser(i)
      BY DEF TrackersRight, m
    <3> QED  BY <2>1, <2>2, <2>5, <2>6, <3>1
  <2>9. \A i, j \in 1 .. m + 1 : i < j /\ Calls(j) => Calls(i)
    <3>1. \A i, j \in 1 .. m : i < j /\ IsUser(j) => IsUser(i)
      BY DEF TrackersRight, m
    <3>2. \A j \in 1 .. m : ~ (m + 1 < j)
      BY <1>2
    <3> QED  BY <2>2, <2>4, <2>5, <3>1, <3>2
  <2>10. TrackersRight'
    BY <1>4, <2>1, <2>7, <2>8, <2>9 DEF TrackersRight, IsUser, Calls
  <2>11. \A b \in 1 .. n + 1 : \E i \in 1 .. m + 1 : pl_list'[i] = Tracker(b)
    <3>1. \A b \in 1 .. n : \E i \in 1 .. m : pl_list[i] = Tracker(b)
      BY DEF LiveTracked, AllLive, m, n
    <3>2. m + 1 \in 1 .. m + 1 /\ \A i \in 1 .. m : i \in 1 .. m + 1
      BY <1>2
    <3>3. \A b \in 1 .. n + 1 : b \in 1 .. n \/ b = n + 1
      BY <1>2
    <3> QED  BY <2>1, <3>1, <3>2, <3>3
  <2>12. LiveTracked'
    BY <1>4, <1>6, <1>8, <2>1, <2>11 DEF LiveTracked
  <2> QED  BY <1>4, <1>8, <2>1, <2>10, <2>12 DEF n, block
<1> QED  BY <1>1, <1>7, <1>8 DEF n, block

(* A part is added that lies apart from all others.                        *)
LEMMA PartAdded ==
  ASSUME PoolInv, NEW b \in Nat, NEW start \in Nat, NEW size \in Nat \ {0}, Part(b, start, size),
         NEW p, p = [block |-> b, start |-> start, size |-> size], PartLies(p)',
         \A q : (\E k \in 1 .. Len(pl_parts) : q = pl_parts[k]) => PartLies(q)',
         \A k \in 1 .. Len(pl_parts) : Apart(pl_parts[k], p)
  PROVE  PartsLie' /\ pl_parts' \in Seq([block : Nat, start : Nat, size : Nat \ {0}])
<1> DEFINE n == Len(pl_parts)
<1>1. n \in Nat
  BY LenProperties DEF PoolInv, PoolType
<1>2. /\ pl_parts' \in Seq([block : Nat, start : Nat, size : Nat \ {0}]) /\ Len(pl_parts') = n + 1
      /\ \A k \in 1 .. n : pl_parts'[k] = pl_parts[k]
      /\ pl_parts'[n + 1] = p
  BY AppendProperties DEF PoolInv, PoolType, Part
<1>3. \A k \in 1 .. n : Apart(p, pl_parts[k]) /\ Apart(pl_parts[k], p)
  <2> SUFFICES ASSUME NEW k \in 1 .. n PROVE Apart(p, pl_parts[k])
    OBVIOUS
  <2> QED  BY DEF Apart
<1>4. \A k \in 1 .. n + 1 : k \in 1 .. n \/ k = n + 1
  BY <1>1
<1>5. \A k, l \in 1 .. n : k # l => Apart(pl_parts[k], pl_parts[l])
  BY DEF PoolInv, PartsLie
<1> HIDE DEF n
<1>6. \A k \in 1 .. n + 1 : PartLies(pl_parts[k])'
  <2> SUFFICES ASSUME NEW k \in 1 .. n + 1 PROVE PartLies(pl_parts[k])'
    OBVIOUS
  <2>1. CASE k \in 1 .. n
    BY <1>2, <2>1 DEF n, PartLies
  <2>2. CASE k = n + 1
    BY <1>2, <2>2 DEF PartLies
  <2> QED  BY <1>4, <2>1, <2>2
<1>7. \A k, l \in 1 .. n + 1 : k # l => Apart(pl_parts'[k], pl_parts'[l])
  BY <1>2, <1>3, <1>4, <1>5
<1>8. Len(pl_parts') = n + 1
  BY <1>2
<1>9. \A k, l : Apart(pl_parts[k], pl_parts[l])' <=> Apart(pl_parts'[k], pl_parts'[l])
  BY DEF Apart
<1> QED  BY <1>2, <1>6, <1>7, <1>8, <1>9 DEF PartsLie

(* A part that begins a new block.                                         *)
LEMMA PartOfNewBlock ==
  ASSUME PoolInv, pl_pc \in {"none", "open"}, NEW size \in Nat \ {0}, NEW room \in Nat \ {0},
         size <= room, Allocate(room), Part(NewBlock, 0, size), UNCHANGED pl_wrong,
         \/ UNCHANGED <<pl_heap, pl_used>>
         \/ pl_heap' = NewBlock /\ pl_used' = size
  PROVE  PoolInv'
<1> DEFINE n == Len(pl_blocks)
<1>1. n \in Nat
  BY LenProperties DEF PoolInv, PoolType
<1>2. /\ TrackersRight' /\ LiveTracked'
      /\ pl_pc' \in {"open", "wild"} /\ pl_list' \in Seq({"free", "user"} \X Nat)
      /\ pl_blocks' \in Seq([size : Nat \ {0}, live : BOOLEAN])
      /\ Len(pl_blocks') = n + 1
      /\ \A b \in 1 .. n : pl_blocks'[b] = pl_blocks[b]
      /\ pl_blocks'[n + 1].size = room
  <2>1. pl_blocks'[Len(pl_blocks) + 1] = [size |-> room, live |-> TRUE]
    BY AllocateTracks
  <2> QED  BY AllocateTracks, <2>1
<1>3. pl_heap \in 0 .. n /\ pl_used \in Nat
  BY DEF PoolInv, PoolType
<1>4. PICK p : p = [block |-> NewBlock, start |-> 0, size |-> size]
  OBVIOUS
<1>5. p.block = n + 1 /\ p.start = 0 /\ p.size = size
  BY <1>4 DEF NewBlock
<1>6. PICK b : b = NewBlock
  OBVIOUS
<1>7. b = n + 1 /\ b \in Nat
  BY <1>1, <1>6 DEF NewBlock
<1>8. ASSUME NEW q, \E k \in 1 .. Len(pl_parts) : q = pl_parts[k]
      PROVE  PartLies(q) /\ q \in [block : Nat, start : Nat, size : Nat \ {0}]
  <2>1. PICK k \in 1 .. Len(pl_parts) : q = pl_parts[k]
    BY <1>8
  <2>2. pl_parts \in Seq([block : Nat, start : Nat, size : Nat \ {0}])
    BY DEF PoolInv, PoolType
  <2>3. pl_parts[k] \in [block : Nat, start : Nat, size : Nat \ {0}]
    BY <2>2, ElementOfSeq
  <2> QED  BY <2>1, <2>3 DEF PoolInv, PartsLie
<1> HIDE DEF n
<1>9. PartLies(p)'
  <2>1. p.block # pl_heap' \/ p.size <= pl_used'
    BY <1>1, <1>3, <1>5 DEF NewBlock, n
  <2>2. p.size <= pl_blocks'[p.block].size /\ p.block \in 1 .. n + 1
    BY <1>1, <1>2, <1>5
  <2>3. p.block \in 1 .. Len(pl_blocks')
    BY <1>2, <2>2
  <2>4. p.start + p.size = p.size /\ p.start % 8 = 0
    BY <1>5
  <2> QED  BY <2>1, <2>2, <2>3, <2>4 DEF PartLies
<1>10. ASSUME NEW q, \E k \in 1 .. Len(pl_parts) : q = pl_parts[k]
       PROVE  PartLies(q)' /\ Apart(q, p)
  <2>1. PartLies(q) /\ q.block \in 1 .. n
    BY <1>8, <1>10 DEF PartLies, n
  <2>2. q.block \in 1 .. n + 1 /\ q.block # n + 1
    BY <1>1, <2>1
  <2>3. q.block = pl_heap' => pl_heap' = pl_heap /\ pl_used' = pl_used
    BY <2>2 DEF NewBlock, n
  <2> QED  BY <1>2, <1>5, <2>1, <2>2, <2>3 DEF PartLies, Apart
<1>11. PartsLie' /\ pl_parts' \in Seq([block : Nat, start : Nat, size : Nat \ {0}])
  <2>1. Part(b, 0, size) /\ p = [block |-> b, start |-> 0, size |-> size]
    BY <1>4, <1>6
  <2>2. \A q : (\E k \in 1 .. Len(pl_parts) : q = pl_parts[k]) => PartLies(q)'
    BY <1>10
  <2>3. \A k \in 1 .. Len(pl_parts) : Apart(pl_parts[k], p)
    BY <1>10
  <2> QED  BY <1>7, <1>9, <2>1, <2>2, <2>3, PartAdded
<1>12. pl_heap' \in 0 .. n + 1 /\ pl_used' \in Nat
  BY <1>1, <1>3 DEF NewBlock, n
<1> QED  BY <1>2, <1>11, <1>12 DEF PoolInv, PoolType

(* pmalloc with a block of its own, with a new heap, and in the heap.      *)
LEMMA PmallocKeeps ==
  ASSUME PoolInv, NEW size \in Nat \ {0}, pmalloc(size)
  PROVE  PoolInv'
<1> DEFINE a == Aligned(size)
<1>1. pl_pc = "open" /\ UNCHANGED pl_wrong
  BY DEF pmalloc
<1>2. CASE Raw(size) /\ Allocate(size) /\ Part(NewBlock, 0, size) /\ UNCHANGED <<pl_heap, pl_used>>
  BY <1>1, <1>2, PartOfNewBlock
<1>3. ASSUME pl_heap # 0 PROVE HeapSize \in Nat \ {0}
  <2>1. pl_heap \in 1 .. Len(pl_blocks) /\ pl_blocks \in Seq([size : Nat \ {0}, live : BOOLEAN])
    BY <1>3 DEF PoolInv, PoolType
  <2>2. pl_blocks[pl_heap] \in [size : Nat \ {0}, live : BOOLEAN]
    BY <2>1, ElementOfSeq
  <2> QED  BY <2>2 DEF HeapSize
<1>4. CASE /\ ~ Raw(size) /\ Allocate(HeapSize) /\ Part(NewBlock, 0, size)
           /\ pl_heap' = NewBlock /\ pl_used' = size
  <2>1. pl_heap # 0 /\ size <= HeapSize \div 2
    BY <1>4, <1>3 DEF Raw
  <2>2. HeapSize \in Nat \ {0}
    BY <1>3, <2>1
  <2>3. size <= HeapSize
    BY <2>1, <2>2
  <2> QED  BY <1>1, <1>4, <2>2, <2>3, PartOfNewBlock
<1>5. CASE /\ ~ Raw(size) /\ FitsAt(a, size) /\ Part(pl_heap, a, size) /\ pl_used' = a + size
           /\ UNCHANGED <<pl_pc, pl_blocks, pl_heap, pl_size, pl_list, pl_tail>>
  <2>1. pl_heap # 0
    BY <1>5 DEF Raw
  <2>2. HeapSize \in Nat \ {0} /\ pl_used \in Nat /\ pl_heap \in 1 .. Len(pl_blocks)
    BY <1>3, <2>1 DEF PoolInv, PoolType
  <2>3. a \in Nat /\ pl_used <= a /\ (size >= 4 => a % 8 = 0)
    BY <2>2 DEF Aligned
  <2> HIDE DEF a
  <2>4. a + size <= HeapSize
    BY <1>5, <2>2, <2>3 DEF FitsAt
  <2>5. PICK p : p = [block |-> pl_heap, start |-> a, size |-> size]
    OBVIOUS
  <2>6. PartLies(p)'
    BY <1>5, <2>2, <2>3, <2>4, <2>5 DEF PartLies, HeapSize
  <2>7. ASSUME NEW q, \E k \in 1 .. Len(pl_parts) : q = pl_parts[k]
        PROVE  PartLies(q)' /\ Apart(q, p)
    <3>1. PICK k \in 1 .. Len(pl_parts) : q = pl_parts[k]
      BY <2>7
    <3>2. pl_parts \in Seq([block : Nat, start : Nat, size : Nat \ {0}])
      BY DEF PoolInv, PoolType
    <3>3. pl_parts[k] \in [block : Nat, start : Nat, size : Nat \ {0}]
      BY <3>2, ElementOfSeq
    <3>4. PartLies(q) /\ q.start \in Nat /\ q.size \in Nat
      BY <3>1, <3>3 DEF PoolInv, PartsLie
    <3>5. q.block = pl_heap => q.start + q.size <= a /\ q.start + q.size <= pl_used'
      BY <1>5, <2>2, <2>3, <3>4 DEF PartLies
    <3>6. p.block = pl_heap /\ p.start = a
      BY <2>5
    <3> QED  BY <1>5, <3>4, <3>5, <3>6 DEF PartLies, Apart
  <2>8. PartsLie' /\ pl_parts' \in Seq([block : Nat, start : Nat, size : Nat \ {0}])
    <3>1. \A q : (\E k \in 1 .. Len(pl_parts) : q = pl_parts[k]) => PartLies(q)'
      BY <2>7
    <3>2. \A k \in 1 .. Len(pl_parts) : Apart(pl_parts[k], p)
      BY <2>7
    <3>3. PICK b : b = pl_heap
      OBVIOUS
    <3>4. PICK start : start = a
      OBVIOUS
    <3>5. b \in Nat /\ start \in Nat /\ Part(b, start, size) /\ p = [block |-> b, start |-> start, size |-> size]
      BY <1>5, <2>2, <2>3, <2>5, <3>3, <3>4
    <3> QED  BY <2>6, <3>1, <3>2, <3>5, PartAdded
  <2>9. TrackersRight' /\ LiveTracked'
    BY <1>5 DEF PoolInv, TrackersRight, LiveTracked, AllLive, IsUser
  <2> QED  BY <1>1, <1>5, <2>2, <2>3, <2>8, <2>9 DEF PoolInv, PoolType
<1> QED  BY <1>1, <1>2, <1>4, <1>5 DEF pmalloc

(* A heap is the first block of its pool.                                  *)
LEMMA PoolNewHeapKeeps ==
  ASSUME PoolInv, NEW size \in Nat \ {0}, _pool_new_heap(size)
  PROVE  PoolInv'
<1> DEFINE n == Len(pl_blocks)
<1>1. /\ pl_pc = "none" /\ Allocate(size)
      /\ pl_heap' = n + 1 /\ pl_used' = 0 /\ UNCHANGED <<pl_parts, pl_wrong>>
  BY DEF _pool_new_heap, NewBlock
<1>2. /\ TrackersRight' /\ LiveTracked'
      /\ pl_pc' \in {"open", "wild"} /\ pl_list' \in Seq({"free", "user"} \X Nat)
      /\ pl_blocks' \in Seq([size : Nat \ {0}, live : BOOLEAN])
      /\ Len(pl_blocks') = n + 1
      /\ \A b \in 1 .. n : pl_blocks'[b] = pl_blocks[b]
  BY <1>1, AllocateTracks
<1>3. n \in Nat
  BY LenProperties DEF PoolInv, PoolType
<1> HIDE DEF n
<1>4. PartsLie'
  <2>1. ASSUME NEW k \in 1 .. Len(pl_parts) PROVE PartLies(pl_parts[k])'
    <3>1. PartLies(pl_parts[k])
      BY DEF PoolInv, PartsLie
    <3>2. pl_parts[k].block \in 1 .. n + 1 /\ pl_parts[k].block # n + 1 /\ pl_parts[k].block \in 1 .. n
      BY <1>3, <3>1 DEF PartLies, n
    <3> QED  BY <1>1, <1>2, <3>1, <3>2 DEF PartLies
  <2> QED  BY <1>1, <2>1 DEF PoolInv, PartsLie, Apart
<1> QED  BY <1>1, <1>2, <1>3, <1>4 DEF PoolInv, PoolType

(* A callback goes to the front of the list.                               *)
LEMMA PoolCleanupKeeps ==
  ASSUME PoolInv, pool_cleanup
  PROVE  PoolInv'
<1> USE DEF PoolInv, PoolType
<1> DEFINE m == Len(pl_list)
           c == <<"user", m>>
<1>1. /\ pl_pc = "open" /\ pl_list' = <<c>> \o pl_list
      /\ UNCHANGED <<pl_pc, pl_blocks, pl_heap, pl_used, pl_size, pl_tail, pl_parts, pl_wrong>>
  BY DEF pool_cleanup
<1>2. m \in Nat
  BY LenProperties
<1>3. c \in {"free", "user"} \X Nat /\ c[1] = "user"
  BY <1>2
<1> HIDE DEF c
<1>4. <<c>> \in Seq({"free", "user"} \X Nat) /\ Len(<<c>>) = 1 /\ <<c>>[1] = c
  BY <1>3
<1>5. /\ pl_list' \in Seq({"free", "user"} \X Nat) /\ Len(pl_list') = m + 1
      /\ pl_list'[1] = c
      /\ \A i \in 2 .. m + 1 : pl_list'[i] = pl_list[i - 1]
  <2>1. /\ pl_list' \in Seq({"free", "user"} \X Nat) /\ Len(pl_list') = 1 + m
        /\ \A i \in 1 .. 1 + m : pl_list'[i] = IF i <= 1 THEN <<c>>[i] ELSE pl_list[i - 1]
    BY <1>1, <1>4, ConcatProperties
  <2> HIDE DEF m
  <2> QED  BY <1>2, <1>4, <2>1
<1> HIDE DEF m
<1>6. \A i \in 1 .. m + 1 : i = 1 \/ (i \in 2 .. m + 1 /\ i - 1 \in 1 .. m)
  BY <1>2
<1>7. \A i \in 1 .. m : i + 1 \in 2 .. m + 1 /\ (i + 1) - 1 = i
  BY <1>2
<1>8. AllLive
  BY <1>1 DEF LiveTracked
<1> DEFINE Calls(i) == pl_list'[i][1] = "user"
<1>9. Calls(1) /\ \A i \in 2 .. m + 1 : Calls(i) <=> IsUser(i - 1)
  BY <1>3, <1>5 DEF IsUser
<1> HIDE DEF Calls
<1>10. \A i \in 1 .. m + 1 : Calls(i) \/ \E b \in 1 .. Len(pl_blocks) :
         pl_list'[i] = Tracker(b) /\ pl_blocks[b].live
  <2>1. \A i \in 1 .. m : IsUser(i) \/ \E b \in 1 .. Len(pl_blocks) :
          pl_list[i] = Tracker(b) /\ pl_blocks[b].live
    BY DEF TrackersRight, m
  <2>2. ASSUME NEW i \in 2 .. m + 1, i - 1 \in 1 .. m
        PROVE  Calls(i) \/ \E b \in 1 .. Len(pl_blocks) : pl_list'[i] = Tracker(b) /\ pl_blocks[b].live
    <3>1. pl_list'[i] = pl_list[i - 1] /\ (Calls(i) <=> IsUser(i - 1))
      BY <1>5, <1>9
    <3> QED  BY <2>1, <2>2, <3>1
  <2> QED  BY <1>6, <1>9, <2>2
<1>11. \A i, j \in 1 .. m + 1 : pl_list'[i] = pl_list'[j] => i = j \/ Calls(i)
  <2>1. \A i, j \in 1 .. m : pl_list[i] = pl_list[j] => i = j \/ IsUser(i)
    BY DEF TrackersRight, m
  <2>2. \A i, j \in 2 .. m + 1 : i - 1 = j - 1 => i = j
    BY <1>2
  <2>3. ASSUME NEW i \in 1 .. m + 1, NEW j \in 1 .. m + 1, pl_list'[i] = pl_list'[j], ~ Calls(i)
        PROVE  i = j
    <3>1. i # 1 /\ i \in 2 .. m + 1 /\ i - 1 \in 1 .. m /\ ~ IsUser(i - 1)
      BY <1>6, <1>9, <2>3
    <3>2. j # 1 /\ j \in 2 .. m + 1 /\ j - 1 \in 1 .. m
      BY <1>6, <1>9, <2>3 DEF Calls
    <3> QED  BY <1>5, <2>1, <2>2, <2>3, <3>1, <3>2
  <2> QED  BY <2>3
<1>12. \A i, j \in 1 .. m + 1 : i < j /\ Calls(j) => Calls(i)
  <2>1. \A i, j \in 1 .. m : i < j /\ IsUser(j) => IsUser(i)
    BY DEF TrackersRight, m
  <2>2. ASSUME NEW i \in 1 .. m + 1, NEW j \in 1 .. m + 1, i < j, Calls(j), i # 1
        PROVE  Calls(i)
    <3>1. i \in 2 .. m + 1 /\ j \in 2 .. m + 1 /\ i - 1 \in 1 .. m /\ j - 1 \in 1 .. m /\ i - 1 < j - 1
      BY <1>2, <2>2
    <3> QED  BY <1>9, <2>1, <2>2, <3>1
  <2> QED  BY <1>9, <2>2
<1>13. TrackersRight'
  <2>1. Len(pl_list') = m + 1 /\ pl_blocks' = pl_blocks
    BY <1>1, <1>5
  <2> QED  BY <2>1, <1>10, <1>11, <1>12 DEF TrackersRight, IsUser, Calls
<1>14. LiveTracked'
  <2>1. \A b \in 1 .. Len(pl_blocks) : \E i \in 1 .. m : pl_list[i] = Tracker(b)
    BY <1>1, <1>8 DEF LiveTracked, AllLive, m
  <2>2. \A b \in 1 .. Len(pl_blocks) : \E i \in 1 .. m + 1 : pl_list'[i] = Tracker(b)
    <3>1. \A i \in 1 .. m : i + 1 \in 1 .. m + 1 /\ pl_list'[i + 1] = pl_list[i]
      BY <1>2, <1>5, <1>7
    <3> QED  BY <2>1, <3>1
  <2> QED  BY <1>1, <1>5, <1>8, <2>2 DEF LiveTracked, AllLive
<1>15. PartsLie'
  BY <1>1 DEF PartsLie, PartLies, Apart
<1> QED  BY <1>1, <1>5, <1>13, <1>14, <1>15

(* pool_free calls the first tracker of the list.                          *)
LEMMA PoolFreeKeeps ==
  ASSUME PoolInv, pool_free
  PROVE  PoolInv'
<1> USE DEF PoolInv
<1> DEFINE m == Len(pl_list)
           n == Len(pl_blocks)
<1>1. /\ pl_pc \in {"open", "freeing"}
      /\ UNCHANGED <<pl_heap, pl_used, pl_size, pl_tail, pl_parts>>
  BY DEF pool_free
<1>2. CASE pl_list = <<>> /\ pl_pc' = "freed" /\ UNCHANGED <<pl_list, pl_blocks, pl_wrong>>
  <2>0. PoolType' /\ PartsLie'
    BY <1>1, <1>2 DEF PoolType, PartsLie, PartLies, Apart
  <2>1. TrackersRight'
    BY <1>1, <1>2 DEF TrackersRight, IsUser
  <2>2. LiveTracked'
    <3>1. \A i \in 1 .. Len(pl_list) : FALSE
      BY <1>2, EmptySeq
    <3> QED  BY <1>1, <1>2, <3>1 DEF LiveTracked
  <2> QED  BY <1>2, <2>0, <2>1, <2>2
<1>3. ASSUME pl_list # <<>> PROVE PoolInv'
  <2>1. pl_list \in Seq({"free", "user"} \X Nat) /\ m \in Nat /\ n \in Nat
        /\ pl_blocks \in Seq([size : Nat \ {0}, live : BOOLEAN])
    BY LenProperties DEF PoolType
  <2>2. /\ pl_pc' = "freeing" /\ pl_list' = Tail(pl_list)
        /\ Head(pl_list)[1] = "free" =>
             /\ pl_blocks' = [pl_blocks EXCEPT ![Head(pl_list)[2]].live = FALSE]
             /\ pl_wrong' = (pl_wrong \/ ~ pl_blocks[Head(pl_list)[2]].live)
        /\ Head(pl_list)[1] # "free" =>
             /\ pl_wrong' = (pl_wrong \/ \E b \in DOMAIN pl_blocks : ~ pl_blocks[b].live)
             /\ UNCHANGED pl_blocks
    BY <1>3 DEF pool_free
  <2>3. /\ m >= 1 /\ Head(pl_list) = pl_list[1]
        /\ pl_list' \in Seq({"free", "user"} \X Nat) /\ Len(pl_list') = m - 1
        /\ \A i \in 1 .. m - 1 : pl_list'[i] = pl_list[i + 1]
    BY <1>3, <2>1, <2>2, HeadTailProperties, EmptySeq
  <2> HIDE DEF m
  <2>4. 1 \in 1 .. m /\ \A i \in 1 .. m - 1 : i + 1 \in 1 .. m /\ 1 < i + 1 /\ i + 1 # 1
    BY <2>1, <2>3
  <2>5. \A i \in 2 .. m : i - 1 \in 1 .. m - 1 /\ (i - 1) + 1 = i
    BY <2>1
  <2>tail. ASSUME NEW i \in 1 .. m, i # 1 PROVE i - 1 \in 1 .. m - 1 /\ pl_list'[i - 1] = pl_list[i]
    <3>1. i \in 2 .. m
      BY <2>1, <2>tail
    <3> QED  BY <2>3, <2>5, <3>1
  <2> DEFINE Calls(i) == pl_list'[i][1] = "user"
  <2>6. \A i \in 1 .. m - 1 : Calls(i) <=> IsUser(i + 1)
    BY <2>3 DEF IsUser
  <2> HIDE DEF Calls
  <2>7. \A i, j \in 1 .. m - 1 : pl_list'[i] = pl_list'[j] => i = j \/ Calls(i)
    <3>1. \A i, j \in 1 .. m : pl_list[i] = pl_list[j] => i = j \/ IsUser(i)
      BY DEF TrackersRight, m
    <3>2. \A i, j \in 1 .. m - 1 : i + 1 = j + 1 => i = j
      OBVIOUS
    <3> QED  BY <2>3, <2>4, <2>6, <3>1, <3>2
  <2>8. \A i, j \in 1 .. m - 1 : i < j /\ Calls(j) => Calls(i)
    <3>1. \A i, j \in 1 .. m : i < j /\ IsUser(j) => IsUser(i)
      BY DEF TrackersRight, m
    <3>2. \A i, j \in 1 .. m - 1 : i < j => i + 1 < j + 1
      OBVIOUS
    <3> QED  BY <2>4, <2>6, <3>1, <3>2
  <2>9. \A i \in 1 .. m : IsUser(i) \/ \E b \in 1 .. n : pl_list[i] = Tracker(b) /\ pl_blocks[b].live
    BY DEF TrackersRight, m
  <2>10. CASE IsUser(1)
    <3>1. AllLive
      BY <2>4, <2>10 DEF LiveTracked, m
    <3>2. pl_list[1][1] # "free"
      BY <2>10 DEF IsUser
    <3>3. UNCHANGED pl_blocks /\ ~ pl_wrong'
      <4>1. DOMAIN pl_blocks = 1 .. n
        BY <2>1, LenProperties
      <4> QED  BY <2>2, <2>3, <3>1, <3>2, <4>1 DEF AllLive
    <3>4. \A i \in 1 .. m - 1 : Calls(i) \/ \E b \in 1 .. n : pl_list'[i] = Tracker(b) /\ pl_blocks[b].live
      BY <2>3, <2>4, <2>6, <2>9
    <3>5. TrackersRight'
      <4>1. Len(pl_list') = m - 1 /\ pl_blocks' = pl_blocks
        BY <2>3, <3>3
      <4> QED  BY <4>1, <3>4, <2>7, <2>8 DEF TrackersRight, IsUser, Calls
    <3>6. LiveTracked'
      <4>1. \A b \in 1 .. n : \E i \in 1 .. m - 1 : pl_list'[i] = Tracker(b)
        <5>1. \A b \in 1 .. n : \E i \in 1 .. m : pl_list[i] = Tracker(b)
          BY <1>1, <3>1 DEF LiveTracked, AllLive, m
        <5>2. \A b \in 1 .. n : pl_list[1] # Tracker(b)
          BY <3>2 DEF Tracker
        <5>3. \A i \in 1 .. m : i = 1 \/ (i - 1 \in 1 .. m - 1 /\ pl_list'[i - 1] = pl_list[i])
          BY <2>tail
        <5> QED  BY <5>1, <5>2, <5>3
      <4>2. Len(pl_list') = m - 1 /\ pl_blocks' = pl_blocks
        BY <2>3, <3>3
      <4> QED  BY <2>2, <3>1, <4>1, <4>2 DEF LiveTracked, AllLive
    <3>7. PartsLie' /\ PoolType'
      BY <1>1, <2>2, <2>3, <3>3 DEF PartsLie, PartLies, Apart, PoolType
    <3> QED  BY <3>3, <3>5, <3>6, <3>7
  <2>11. CASE ~ IsUser(1)
    <3>1. PICK b \in 1 .. n : pl_list[1] = Tracker(b) /\ pl_blocks[b].live
      BY <2>4, <2>9, <2>11
    <3>2. Head(pl_list)[1] = "free" /\ Head(pl_list)[2] = b
      BY <2>3, <3>1 DEF Tracker
    <3>3. /\ pl_blocks' = [pl_blocks EXCEPT ![b].live = FALSE]
          /\ ~ pl_wrong'
      BY <2>2, <3>1, <3>2
    <3>4. \A c \in 1 .. n : pl_blocks[c] \in [size : Nat \ {0}, live : BOOLEAN]
      BY <2>1, ElementOfSeq
    <3>5. /\ pl_blocks' \in Seq([size : Nat \ {0}, live : BOOLEAN]) /\ Len(pl_blocks') = n
          /\ \A c \in 1 .. n : /\ pl_blocks'[c].size = pl_blocks[c].size
                               /\ pl_blocks'[c].live <=> pl_blocks[c].live /\ c # b
      <4>1. DOMAIN pl_blocks = 1 .. n /\ pl_blocks \in [1 .. n -> [size : Nat \ {0}, live : BOOLEAN]]
        BY <2>1, LenProperties
      <4> HIDE DEF n
      <4>2. pl_blocks' \in [1 .. n -> [size : Nat \ {0}, live : BOOLEAN]]
        BY <3>1, <3>3, <3>4, <4>1
      <4>3. \A c \in 1 .. n : /\ pl_blocks'[c].size = pl_blocks[c].size
                              /\ pl_blocks'[c].live <=> pl_blocks[c].live /\ c # b
        BY <3>1, <3>3, <3>4, <4>1
      <4> QED  BY <2>1, <4>2, <4>3, LenOf
    <3>6. \A i \in 1 .. m - 1 : pl_list'[i] # Tracker(b)
      <4>1. \A i \in 1 .. m : i = 1 \/ pl_list[i] # pl_list[1]
        BY <2>4, <2>11 DEF TrackersRight, m
      <4> QED  BY <2>3, <2>4, <3>1, <4>1
    <3>7. \A i \in 1 .. m - 1 : ~ Calls(i)
      <4>1. \A i \in 1 .. m : 1 < i /\ IsUser(i) => IsUser(1)
        BY <2>4 DEF TrackersRight, m
      <4> QED  BY <2>4, <2>6, <2>11, <4>1
    <3>8. \A i \in 1 .. m - 1 : \E c \in 1 .. n : pl_list'[i] = Tracker(c) /\ pl_blocks'[c].live
      <4>1. \A i \in 1 .. m - 1 : \E c \in 1 .. n : pl_list'[i] = Tracker(c) /\ pl_blocks[c].live
        <5> TAKE i \in 1 .. m - 1
        <5>1. i + 1 \in 1 .. m /\ ~ IsUser(i + 1) /\ pl_list'[i] = pl_list[i + 1]
          BY <2>3, <2>4, <2>6, <3>7
        <5> QED  BY <2>9, <5>1
      <4> QED  BY <3>5, <3>6, <4>1
    <3>9. Len(pl_list') = m - 1 /\ Len(pl_blocks') = n
      BY <2>3, <3>5
    <3>10. TrackersRight'
      BY <2>7, <2>8, <3>8, <3>9 DEF TrackersRight, IsUser, Calls
    <3>11. \A c \in 1 .. n : pl_blocks'[c].live => \E i \in 1 .. m - 1 : pl_list'[i] = Tracker(c)
      <4>1. \A c \in 1 .. n : pl_blocks[c].live => \E i \in 1 .. m : pl_list[i] = Tracker(c)
        BY <1>1 DEF LiveTracked, m
      <4>3. \A i \in 1 .. m : i = 1 \/ (i - 1 \in 1 .. m - 1 /\ pl_list'[i - 1] = pl_list[i])
        BY <2>tail
      <4>2. ASSUME NEW c \in 1 .. n, pl_blocks[c].live, c # b
            PROVE  \E i \in 1 .. m - 1 : pl_list'[i] = Tracker(c)
        <5>1. PICK i \in 1 .. m : pl_list[i] = Tracker(c)
          BY <4>1, <4>2
        <5>2. i # 1
          BY <3>1, <4>2, <5>1 DEF Tracker
        <5> QED  BY <4>3, <5>1, <5>2
      <4> QED  BY <3>5, <4>2
    <3>12. LiveTracked'
      BY <2>2, <3>7, <3>9, <3>11 DEF LiveTracked, IsUser, Calls
    <3>13. PartsLie' /\ PoolType'
      BY <1>1, <2>2, <2>3, <3>5 DEF PartsLie, PartLies, Apart, PoolType
    <3> QED  BY <3>3, <3>10, <3>12, <3>13
  <2> QED  BY <2>10, <2>11
<1> QED  BY <1>1, <1>2, <1>3 DEF pool_free

(* The invariant of a pool is inductive.                                   *)
LEMMA PoolInvNext == PoolInv /\ [PoolNext]_poolVars => PoolInv'
<1> SUFFICES ASSUME PoolInv, [PoolNext]_poolVars PROVE PoolInv'
  OBVIOUS
<1>1. CASE _pool_new
  BY <1>1 DEF _pool_new, PoolInv, PoolType, PartsLie, PartLies, Apart, TrackersRight, IsUser,
              LiveTracked, AllLive
<1>2. CASE \E n \in HeapSizes : _pool_new_heap(n)
  BY <1>2, PoolAssumption, PoolNewHeapKeeps
<1>3. CASE \E n \in Sizes : pmalloc(n)
  BY <1>3, PoolAssumption, PmallocKeeps
<1>4. CASE pool_cleanup
  BY <1>4, PoolCleanupKeeps
<1>5. CASE pool_free
  BY <1>5, PoolFreeKeeps
<1>6. CASE UNCHANGED poolVars
  BY <1>6 DEF poolVars, PoolInv, PoolType, PartsLie, PartLies, Apart, TrackersRight, IsUser,
              LiveTracked, AllLive
<1> QED  BY <1>1, <1>2, <1>3, <1>4, <1>5, <1>6 DEF PoolNext

(* Whatever is asked of a pool and however large its heap is: no two parts *)
(* overlap, and when the pool is freed its callbacks run before any of its *)
(* blocks is freed, and each of these is freed once (pool.c).              *)
THEOREM PoolsAreSound == PoolSpec => [](PartsLieApart /\ PoolFreesAll)
  BY PoolInvInit, PoolInvNext, PoolInvSays, PTL DEF PoolSpec

(* Both allocators at once, as the run of the libraries checks them.       *)
THEOREM MemoryAlwaysOwned == MempoolSpec /\ PoolSpec => []MemoryHasOneOwner
  BY BlocksHaveOneOwner, PoolsAreSound, PTL DEF MemoryHasOneOwner

-----------------------------------------------------------------------------
(* The nodes of the list in order, behind the head, and the links in both  *)
(* directions.                                                             *)
ListIs(g) ==
  LET len == jl_size
  IN  /\ g \in [0 .. len -> 0 .. jl_made] /\ g[0] = HeadNode
      /\ \A i \in 0 .. len, j \in 0 .. len : g[i] = g[j] => i = j
      /\ \A i \in 0 .. len : jl_next[g[i]] = IF i = len THEN Nil ELSE g[i + 1]
      /\ \A i \in 1 .. len : jl_prev[g[i]] = g[i - 1] /\ jl_data[g[i]] \in Items
      /\ jl_tail = g[len]

(* c is the freelist: the nodes that are not in the list.                  *)
CacheIs(g, c) ==
  LET m == jl_made - jl_size
  IN  /\ c \in [1 .. m -> Made]
      /\ \A i \in 1 .. m, j \in 1 .. m : c[i] = c[j] => i = j
      /\ jl_free = IF m = 0 THEN Nil ELSE c[1]
      /\ \A i \in 1 .. m : jl_next[c[i]] = IF i = m THEN Nil ELSE c[i + 1]
      /\ \A i \in 1 .. m, j \in 0 .. jl_size : c[i] # g[j]
      /\ \A n \in Made : (\E i \in 1 .. m : c[i] = n) \/ (\E j \in 1 .. jl_size : g[j] = n)

(* A walk has been at those that stay and are not behind its place.        *)
WalkIs(g) ==
  /\ ~ jl_again /\ jl_seen \subseteq jl_stayed
  /\ \A n \in jl_stayed : \E i \in 1 .. jl_size : g[i] = n
  /\ jl_at = Nil => jl_seen = jl_stayed
  /\ jl_at # Nil => \E p \in 1 .. jl_size :
       /\ jl_at = g[p]
       /\ \A i \in 1 .. jl_size : g[i] \in jl_stayed => (g[i] \in jl_seen <=> i <= p)

(* The types of the list, its links and its walk.                          *)
JListType ==
  /\ jl_next \in [0 .. MaxListNodes -> -1 .. MaxListNodes]
  /\ jl_prev \in [0 .. MaxListNodes -> -1 .. MaxListNodes]
  /\ jl_data \in [1 .. MaxListNodes -> Items \cup {Nil}]
  /\ jl_made \in 0 .. MaxListNodes /\ jl_size \in 0 .. jl_made

(* The inductive invariant of jlist.c.                                     *)
JListInv ==
  /\ JListType
  /\ \E g \in [0 .. jl_size -> 0 .. jl_made] :
       /\ ListIs(g) /\ WalkIs(g)
       /\ \E c \in [1 .. jl_made - jl_size -> Made] : CacheIs(g, c)

(* What Follow walks.                                                      *)
IsFollow(w, n) ==
  w = [k \in 1 .. MaxListNodes + 1 |->
         IF k = 1 THEN n ELSE IF w[k - 1] = Nil THEN Nil ELSE jl_next[w[k - 1]]]

(* Follow comes by the nodes of f if they hang together from n on.         *)
LEMMA FollowIs ==
  ASSUME NEW n, NEW len \in 0 .. MaxListNodes, NEW f \in [1 .. len -> Nat],
         n = IF len = 0 THEN Nil ELSE f[1],
         \A i \in 1 .. len : jl_next[f[i]] = IF i = len THEN Nil ELSE f[i + 1]
  PROVE  Follow(n) = f
<1> DEFINE max == MaxListNodes + 1
           v == [k \in 1 .. max |-> IF k <= len THEN f[k] ELSE Nil]
           At == CHOOSE w : IsFollow(w, n)
<1>1. max \in Nat /\ len \in Nat /\ len < max
  BY JListAssumption
<1> HIDE DEF max
<1>2. \A k \in 1 .. len : k \in 1 .. max /\ f[k] # Nil
  BY <1>1 DEF Nil
<1>3. IsFollow(v, n)
  <2>1. ASSUME NEW k \in 1 .. max
        PROVE  v[k] = IF k = 1 THEN n ELSE IF v[k - 1] = Nil THEN Nil ELSE jl_next[v[k - 1]]
    <3>1. CASE k = 1
      BY <1>1, <3>1
    <3>2. CASE k # 1 /\ k <= len
      <4>1. k - 1 \in 1 .. len /\ (k - 1) + 1 = k /\ k - 1 # len /\ k - 1 \in 1 .. max
        BY <1>1, <3>2
      <4>2. v[k - 1] = f[k - 1] /\ v[k - 1] # Nil /\ v[k] = f[k]
        BY <1>2, <3>2, <4>1
      <4> QED  BY <3>2, <4>1, <4>2
    <3>3. CASE k # 1 /\ k = len + 1
      <4>1. k - 1 \in 1 .. len /\ k - 1 = len /\ k - 1 \in 1 .. max
        BY <1>1, <3>3
      <4>2. v[k - 1] = f[k - 1] /\ v[k - 1] # Nil /\ v[k] = Nil
        BY <1>1, <1>2, <3>3, <4>1
      <4> QED  BY <3>3, <4>1, <4>2
    <3>4. CASE k # 1 /\ k > len + 1
      <4>1. k - 1 \in 1 .. max /\ ~ (k - 1 <= len)
        BY <1>1, <3>4
      <4> QED  BY <1>1, <3>4, <4>1
    <3> QED  BY <1>1, <3>1, <3>2, <3>3, <3>4
  <2>2. v = [k \in 1 .. max |->
               IF k = 1 THEN n ELSE IF v[k - 1] = Nil THEN Nil ELSE jl_next[v[k - 1]]]
    BY <2>1
  <2> QED  BY <2>2 DEF IsFollow, max
<1>4. IsFollow(At, n)
  BY <1>3
<1>5. Follow(n) = [k \in {j \in 1 .. max : At[j] # Nil} |-> At[k]]
  BY DEF Follow, IsFollow, max
<1> HIDE DEF At, v
<1>6. ASSUME NEW k \in 1 .. max PROVE At[k] = v[k]
  <2> DEFINE S == {j \in Nat : j + 1 \in 1 .. max => At[j + 1] = v[j + 1]}
  <2>1. 0 \in S
    BY <1>1, <1>3, <1>4 DEF IsFollow, max
  <2>2. ASSUME NEW j \in 1 .. max, j - 1 \in S PROVE j \in S
    <3> SUFFICES ASSUME j + 1 \in 1 .. max PROVE At[j + 1] = v[j + 1]
      BY <2>2
    <3>1. At[j] = v[j] /\ j + 1 # 1 /\ (j + 1) - 1 = j
      BY <2>2
    <3>2. At[j + 1] = IF At[(j + 1) - 1] = Nil THEN Nil ELSE jl_next[At[(j + 1) - 1]]
      BY <1>4, <3>1 DEF IsFollow, max
    <3>3. v[j + 1] = IF v[(j + 1) - 1] = Nil THEN Nil ELSE jl_next[v[(j + 1) - 1]]
      BY <1>3, <3>1 DEF IsFollow, max
    <3> QED  BY <3>1, <3>2, <3>3
  <2> HIDE DEF S
  <2>3. \A j \in 1 .. max : j - 1 \in S => j \in S
    BY <2>2
  <2>4. k - 1 \in S
    <3>1. 0 .. max \subseteq S
      BY <1>1, <2>1, <2>3, UpTo
    <3>2. k - 1 \in 0 .. max
      BY <1>1
    <3> QED  BY <3>1, <3>2
  <2>5. (k - 1) + 1 = k
    BY <1>1
  <2> QED  BY <2>4, <2>5 DEF S
<1>7. {j \in 1 .. max : At[j] # Nil} = 1 .. len
  BY <1>1, <1>2, <1>6 DEF v
<1>8. \A k \in 1 .. len : At[k] = f[k]
  BY <1>2, <1>6 DEF v
<1>9. f = [k \in 1 .. len |-> f[k]]
  OBVIOUS
<1> QED  BY <1>5, <1>7, <1>8, <1>9

(* The nodes of the list without the head.                                 *)
Behind(g) == [i \in 1 .. jl_size |-> g[i]]

(* The walk along next from the head comes by the nodes of the list.       *)
LEMMA ChainIs ==
  ASSUME JListType, NEW g, ListIs(g)
  PROVE  /\ Chain = Behind(g) /\ Behind(g) \in [1 .. jl_size -> Made]
         /\ Len(Chain) = jl_size /\ Chain \in Seq(Made)
<1>1. jl_size \in 0 .. MaxListNodes /\ jl_size \in Nat /\ jl_made \in 0 .. MaxListNodes
      /\ jl_size <= jl_made
  BY JListAssumption DEF JListType
<1>2. ASSUME NEW i \in 1 .. jl_size PROVE g[i] \in Made /\ i \in 0 .. jl_size
  <2>1. i \in 0 .. jl_size /\ 0 \in 0 .. jl_size /\ i # 0
    BY <1>1
  <2>2. g[i] \in 0 .. jl_made /\ g[i] # 0
    BY <2>1 DEF ListIs, HeadNode
  <2> QED  BY <1>1, <2>1, <2>2 DEF Made
<1>3. Behind(g) \in [1 .. jl_size -> Made]
  BY <1>2 DEF Behind
<1>4. Behind(g) \in [1 .. jl_size -> Nat]
  BY <1>1, <1>3 DEF Made
<1>5. jl_next[HeadNode] = IF jl_size = 0 THEN Nil ELSE Behind(g)[1]
  <2>1. 0 \in 0 .. jl_size /\ (jl_size # 0 => 1 \in 1 .. jl_size)
    BY <1>1
  <2> QED  BY <2>1 DEF ListIs, Behind
<1>6. ASSUME NEW i \in 1 .. jl_size
      PROVE  jl_next[Behind(g)[i]] = IF i = jl_size THEN Nil ELSE Behind(g)[i + 1]
  <2>1. i # jl_size => i + 1 \in 1 .. jl_size
    BY <1>1
  <2> QED  BY <1>2, <2>1 DEF ListIs, Behind
<1>7. Chain = Behind(g)
  BY <1>1, <1>4, <1>5, <1>6, FollowIs DEF Chain
<1> QED  BY <1>1, <1>3, <1>7, LenOf

(* The walk from jl_free comes by the nodes of the freelist.               *)
LEMMA CachedNodesIs ==
  ASSUME JListType, NEW g, NEW c, CacheIs(g, c)
  PROVE  /\ CachedNodes = c /\ c \in [1 .. jl_made - jl_size -> Made]
         /\ Len(c) = jl_made - jl_size /\ c \in Seq(Made)
<1> DEFINE m == jl_made - jl_size
<1>1. m \in 0 .. MaxListNodes /\ m \in Nat /\ jl_made \in Nat
  BY JListAssumption DEF JListType
<1>2. c \in [1 .. m -> Made]
  BY DEF CacheIs
<1>3. c \in [1 .. m -> Nat]
  BY <1>1, <1>2 DEF Made
<1>4. jl_free = IF m = 0 THEN Nil ELSE c[1]
  BY DEF CacheIs
<1>5. \A i \in 1 .. m : jl_next[c[i]] = IF i = m THEN Nil ELSE c[i + 1]
  BY DEF CacheIs
<1> HIDE DEF m
<1>6. CachedNodes = c
  BY <1>1, <1>3, <1>4, <1>5, FollowIs DEF CachedNodes
<1>7. Len(c) = m /\ c \in Seq(Made)
  BY <1>1, <1>2, LenOf
<1> QED  BY <1>2, <1>6, <1>7 DEF m

(* What the invariant says of the list and of its walks.                   *)
LEMMA JListInvSays == JListInv => NodesInOneList /\ WalkSeesThoseThatStay
<1> SUFFICES ASSUME JListInv PROVE NodesInOneList /\ WalkSeesThoseThatStay
  OBVIOUS
<1>1. PICK g : ListIs(g) /\ WalkIs(g) /\ \E c \in [1 .. jl_made - jl_size -> Made] : CacheIs(g, c)
  BY DEF JListInv
<1>2. PICK c : CacheIs(g, c)
  BY <1>1
<1> DEFINE n == jl_size
           m == jl_made - jl_size
           s == Chain \o CachedNodes
<1>3. JListType /\ n \in Nat /\ m \in Nat
  BY JListAssumption DEF JListInv, JListType
<1>4. /\ Chain = Behind(g) /\ Behind(g) \in [1 .. n -> Made]
      /\ Len(Chain) = n /\ Chain \in Seq(Made)
  BY <1>1, <1>3, ChainIs
<1>5. CachedNodes = c /\ Len(c) = m /\ c \in Seq(Made) /\ c \in [1 .. m -> Made]
  BY <1>2, <1>3, CachedNodesIs
<1>6. /\ s \in Seq(Made) /\ Len(s) = n + m
      /\ \A i \in 1 .. n + m : s[i] = IF i <= n THEN Chain[i] ELSE c[i - n]
  BY <1>4, <1>5, ConcatProperties
<1>7. \A i \in 1 .. n : Chain[i] = g[i] /\ i \in 0 .. n
  BY <1>3, <1>4 DEF Behind
<1>8. DOMAIN s = 1 .. n + m /\ DOMAIN Chain = 1 .. n
  BY <1>4, <1>6, LenProperties
<1>9. /\ \A i \in 0 .. n, j \in 0 .. n : g[i] = g[j] => i = j
      /\ \A i \in 1 .. m, j \in 1 .. m : c[i] = c[j] => i = j
      /\ \A i \in 1 .. m, j \in 0 .. n : c[i] # g[j]
      /\ \A k \in Made : (\E i \in 1 .. m : c[i] = k) \/ (\E j \in 1 .. n : g[j] = k)
      /\ \A i \in 1 .. n : jl_prev[g[i]] = g[i - 1]
      /\ jl_tail = g[n] /\ g[0] = HeadNode
  BY <1>1, <1>2 DEF ListIs, CacheIs
<1>10. Len(Chain) = jl_size
  BY <1>4
<1> HIDE DEF n, m, s
<1>11. \A i \in 1 .. n + m : IF i <= n THEN i \in 1 .. n ELSE i - n \in 1 .. m
  BY <1>3
<1>12. IsInjective(s)
  <2>1. ASSUME NEW i \in 1 .. n + m, NEW j \in 1 .. n + m, s[i] = s[j] PROVE i = j
    <3>1. CASE i <= n /\ j <= n
      <4>1. g[i] = g[j] /\ i \in 0 .. n /\ j \in 0 .. n
        BY <1>6, <1>7, <1>11, <2>1, <3>1
      <4> QED  BY <1>9, <4>1
    <3>2. CASE ~ (i <= n) /\ ~ (j <= n)
      <4>1. c[i - n] = c[j - n] /\ i - n \in 1 .. m /\ j - n \in 1 .. m
        BY <1>6, <1>11, <2>1, <3>2
      <4>2. i - n = j - n
        BY <1>9, <4>1
      <4> QED  BY <1>3, <4>2
    <3>3. CASE i <= n /\ ~ (j <= n)
      BY <1>6, <1>7, <1>9, <1>11, <2>1, <3>3
    <3>4. CASE ~ (i <= n) /\ j <= n
      BY <1>6, <1>7, <1>9, <1>11, <2>1, <3>4
    <3> QED  BY <3>1, <3>2, <3>3, <3>4
  <2> QED  BY <1>8, <2>1 DEF IsInjective
<1>13. ToSet(s) = Made
  <2>1. \A i \in 1 .. n + m : s[i] \in Made
    BY <1>6, ElementOfSeq
  <2>2. ASSUME NEW k \in Made PROVE \E i \in 1 .. n + m : s[i] = k
    <3>1. CASE \E i \in 1 .. m : c[i] = k
      <4>1. PICK i \in 1 .. m : c[i] = k
        BY <3>1
      <4>2. i + n \in 1 .. n + m /\ ~ (i + n <= n) /\ (i + n) - n = i
        BY <1>3
      <4> QED  BY <1>6, <4>1, <4>2
    <3>2. CASE \E j \in 1 .. n : g[j] = k
      <4>1. PICK j \in 1 .. n : g[j] = k
        BY <3>2
      <4>2. j \in 1 .. n + m /\ j <= n
        BY <1>3
      <4> QED  BY <1>6, <1>7, <4>1, <4>2
    <3> QED  BY <1>9, <3>1, <3>2
  <2> QED  BY <1>8, <2>1, <2>2 DEF ToSet
<1> DEFINE h == <<HeadNode>> \o Chain
<1>14. /\ Len(h) = n + 1
       /\ \A i \in 1 .. n + 1 : h[i] = IF i <= 1 THEN HeadNode ELSE Chain[i - 1]
  <2>1. <<HeadNode>> \in Seq(Nat) /\ Len(<<HeadNode>>) = 1 /\ <<HeadNode>>[1] = HeadNode
    BY DEF HeadNode
  <2>2. Chain \in Seq(Nat)
    <3>1. Made \subseteq Nat
      BY DEF Made
    <3>2. Chain \in [1 .. n -> Nat]
      BY <1>4, <3>1 DEF n
    <3> QED  BY <1>3, <3>2, LenOf
  <2>3. Len(Chain) = n
    BY <1>4
  <2>4. /\ Len(h) = 1 + n
        /\ \A i \in 1 .. 1 + n : h[i] = IF i <= 1 THEN <<HeadNode>>[i] ELSE Chain[i - 1]
    BY <2>1, <2>2, <2>3, ConcatProperties
  <2> HIDE DEF h
  <2> QED  BY <1>3, <2>1, <2>4
<1> HIDE DEF h
<1>15. \A i \in 0 .. n : h[i + 1] = g[i]
  <2>1. ASSUME NEW i \in 0 .. n PROVE h[i + 1] = g[i]
    <3>1. i + 1 \in 1 .. n + 1 /\ (i + 1) - 1 = i /\ (i # 0 => i \in 1 .. n /\ ~ (i + 1 <= 1))
      BY <1>3
    <3> QED  BY <1>7, <1>9, <1>14, <3>1
  <2> QED  BY <2>1
<1>16. jl_tail = Last(h)
  <2>1. n \in 0 .. n
    BY <1>3
  <2> QED  BY <1>9, <1>14, <1>15, <2>1 DEF Last
<1>17. \A k \in DOMAIN Chain : jl_prev[Chain[k]] = h[k]
  <2>1. \A k \in 1 .. n : k - 1 \in 0 .. n /\ (k - 1) + 1 = k
    BY <1>3
  <2> QED  BY <1>7, <1>8, <1>9, <1>15, <2>1
<1> QED  BY <1>1, <1>10, <1>12, <1>13, <1>16, <1>17
         DEF NodesInOneList, WalkSeesThoseThatStay, WalkIs, s, h

(* A new list.                                                             *)
LEMMA JListInvInit == JListInit => JListInv
<1> SUFFICES ASSUME JListInit PROVE JListInv
  OBVIOUS
<1> DEFINE g == [i \in 0 .. 0 |-> 0]
           c == [i \in 1 .. 0 |-> 0]
<1>1. JListType
  BY JListAssumption DEF JListInit, JListType, Nil, HeadNode
<1>2. ListIs(g) /\ WalkIs(g) /\ g \in [0 .. jl_size -> 0 .. jl_made]
  BY JListAssumption DEF JListInit, ListIs, WalkIs, HeadNode, Nil
<1>3. CacheIs(g, c) /\ c \in [1 .. jl_made - jl_size -> Made]
  BY DEF JListInit, CacheIs, Made
<1> QED  BY <1>1, <1>2, <1>3 DEF JListInv

(* The numbers of the nodes of the list and of the freelist.               *)
LEMMA ListFacts ==
  ASSUME JListType, NEW g, ListIs(g), NEW c, CacheIs(g, c)
  PROVE  /\ jl_size \in Nat /\ jl_made \in Nat /\ jl_made <= MaxListNodes /\ MaxListNodes \in Nat
         /\ jl_made - jl_size \in Nat
         /\ \A i \in 0 .. jl_size : g[i] \in 0 .. jl_made /\ g[i] \in 0 .. MaxListNodes
         /\ \A i \in 1 .. jl_size : g[i] \in 1 .. jl_made /\ g[i] \in 1 .. MaxListNodes /\ i \in 0 .. jl_size
         /\ \A i \in 1 .. jl_made - jl_size : c[i] \in 1 .. jl_made /\ c[i] \in 1 .. MaxListNodes
<1>1. /\ jl_size \in Nat /\ jl_made \in Nat /\ jl_made <= MaxListNodes /\ MaxListNodes \in Nat
      /\ jl_made - jl_size \in Nat
  BY JListAssumption DEF JListType
<1>2. ASSUME NEW i \in 0 .. jl_size PROVE g[i] \in 0 .. jl_made /\ g[i] \in 0 .. MaxListNodes
  <2>1. g[i] \in 0 .. jl_made
    BY DEF ListIs
  <2> QED  BY <1>1, <2>1
<1>3. ASSUME NEW i \in 1 .. jl_size
      PROVE  g[i] \in 1 .. jl_made /\ g[i] \in 1 .. MaxListNodes /\ i \in 0 .. jl_size
  <2>1. i \in 0 .. jl_size /\ i # 0 /\ 0 \in 0 .. jl_size
    BY <1>1
  <2>2. g[i] \in 0 .. jl_made /\ g[i] # 0
    BY <1>2, <2>1 DEF ListIs, HeadNode
  <2> QED  BY <1>1, <2>1, <2>2
<1>4. ASSUME NEW i \in 1 .. jl_made - jl_size PROVE c[i] \in 1 .. jl_made /\ c[i] \in 1 .. MaxListNodes
  <2>1. c[i] \in Made
    BY DEF CacheIs
  <2> QED  BY <1>1, <2>1 DEF Made
<1> QED  BY <1>1, <1>2, <1>3, <1>4

(* A node is put behind the last one.                                      *)
With(g) == [i \in 0 .. jl_size + 1 |-> IF i <= jl_size THEN g[i] ELSE Taken]

(* jlist_push puts its node there, and the list stays whole.               *)
LEMMA ListPushKeeps ==
  ASSUME JListInv, NEW g \in [0 .. jl_size -> 0 .. jl_made], ListIs(g), WalkIs(g),
         \E c \in [1 .. jl_made - jl_size -> Made] : CacheIs(g, c),
         NEW x \in Items, jlist_push(x)
  PROVE  /\ JListInv'
         /\ \A h : h = With(g) => ListIs(h)'
         /\ Taken \in 1 .. MaxListNodes /\ \A i \in 1 .. jl_size : g[i] # Taken
<1>1. ListIs(g) /\ WalkIs(g)
  OBVIOUS
<1>2. PICK c \in [1 .. jl_made - jl_size -> Made] : CacheIs(g, c)
  OBVIOUS
<1>3. JListType
  BY DEF JListInv
<1> DEFINE len == jl_size
           m == jl_made - jl_size
           n == Taken
<1>4. /\ len \in Nat /\ jl_made \in Nat /\ jl_made <= MaxListNodes /\ m \in Nat
      /\ \A i \in 0 .. len : g[i] \in 0 .. jl_made /\ g[i] \in 0 .. MaxListNodes
      /\ \A i \in 1 .. len : g[i] \in 1 .. jl_made /\ g[i] \in 1 .. MaxListNodes /\ i \in 0 .. len
      /\ \A i \in 1 .. m : c[i] \in 1 .. jl_made /\ c[i] \in 1 .. MaxListNodes
  BY <1>1, <1>2, <1>3, ListFacts
<1>5. /\ jl_next' = [jl_next EXCEPT ![n] = Nil, ![jl_tail] = n]
      /\ jl_prev' = [jl_prev EXCEPT ![n] = jl_tail]
      /\ jl_data' = [jl_data EXCEPT ![n] = x]
      /\ jl_tail' = n /\ jl_size' = len + 1 /\ n <= MaxListNodes
      /\ UNCHANGED <<jl_at, jl_stayed, jl_seen, jl_again>>
  BY DEF jlist_push
<1>0. PICK h : h = With(g)
  OBVIOUS
<1>6. h = [i \in 0 .. len + 1 |-> IF i <= len THEN g[i] ELSE n]
  BY <1>0 DEF With
<1>7. PICK d : d = [i \in 1 .. m - 1 |-> c[i + 1]]
  OBVIOUS
<1>8. /\ n \in 1 .. MaxListNodes /\ jl_made' \in Nat /\ n <= jl_made' /\ jl_made <= jl_made'
      /\ jl_made' <= MaxListNodes
      /\ \A i \in 0 .. len : g[i] # n
      /\ \A k \in 1 .. jl_made' : k \in 1 .. jl_made \/ k = n
      /\ \A i \in 1 .. m - 1 : i + 1 \in 1 .. m /\ c[i + 1] # n
      /\ jl_made' - (len + 1) = IF m = 0 THEN 0 ELSE m - 1
      /\ m # 0 => c[1] = n
      /\ jl_free' = IF m <= 1 THEN Nil ELSE c[2]
  <2>1. CASE m = 0
    <3>1. jl_free = Nil /\ n = jl_made + 1 /\ jl_made' = jl_made + 1 /\ jl_free' = Nil
      BY <1>2, <2>1 DEF CacheIs, Taken, jlist_push
    <3>2. \A i \in 0 .. len : g[i] # n
      BY <1>4, <3>1
    <3> QED  BY <1>4, <1>5, <2>1, <3>1, <3>2
  <2>2. CASE m # 0
    <3>1. 1 \in 1 .. m /\ jl_free = c[1]
      BY <1>2, <1>4, <2>2 DEF CacheIs
    <3>2. c[1] # Nil
      BY <1>4, <3>1 DEF Nil
    <3>3. n = c[1] /\ jl_made' = jl_made /\ jl_free' = jl_next[c[1]]
      BY <3>1, <3>2 DEF Taken, jlist_push
    <3>4. jl_next[c[1]] = IF m = 1 THEN Nil ELSE c[2]
      BY <1>2, <3>1 DEF CacheIs
    <3>5. \A i \in 0 .. len : g[i] # n
      BY <1>2, <3>1, <3>3 DEF CacheIs
    <3>6. \A i \in 1 .. m - 1 : i + 1 \in 1 .. m /\ i + 1 # 1
      BY <1>4
    <3>7. \A i \in 1 .. m - 1 : c[i + 1] # n
      BY <1>2, <3>1, <3>3, <3>6 DEF CacheIs
    <3> HIDE DEF n
    <3> QED  BY <1>4, <1>5, <2>2, <3>1, <3>3, <3>4, <3>5, <3>6, <3>7
  <2> QED  BY <2>1, <2>2
<1> HIDE DEF n
<1>9. /\ \A i \in 0 .. len : h[i] = g[i] /\ i \in 0 .. len + 1
      /\ h[len + 1] = n /\ \A i \in 0 .. len + 1 : i \in 0 .. len \/ i = len + 1
      /\ ~ (len + 1 \in 0 .. len)
  BY <1>4, <1>6
<1>10. jl_tail = g[len] /\ len \in 0 .. len
  BY <1>1, <1>4 DEF ListIs
<1>11. /\ \A k \in 0 .. MaxListNodes : jl_next'[k] = IF k = jl_tail THEN n ELSE IF k = n THEN Nil ELSE jl_next[k]
       /\ \A k \in 0 .. MaxListNodes : jl_prev'[k] = IF k = n THEN jl_tail ELSE jl_prev[k]
       /\ \A k \in 1 .. MaxListNodes : jl_data'[k] = IF k = n THEN x ELSE jl_data[k]
  BY <1>3, <1>5 DEF JListType
<1>12. JListType'
  <2>1. n \in 0 .. MaxListNodes /\ n \in -1 .. MaxListNodes /\ Nil \in -1 .. MaxListNodes
    BY <1>4, <1>8, JListAssumption DEF Nil
  <2>2. jl_tail \in -1 .. MaxListNodes
    BY <1>4, <1>10, JListAssumption
  <2>3. jl_size' \in 0 .. jl_made' /\ jl_made' \in 0 .. MaxListNodes
    <3>1. (IF m = 0 THEN 0 ELSE m - 1) >= 0
      BY <1>4
    <3>2. len \in Nat /\ jl_made' \in Nat /\ jl_size' = len + 1 /\ jl_made' <= MaxListNodes
      BY <1>4, <1>5, <1>8
    <3>3. jl_made' - (len + 1) >= 0
      BY <1>8, <3>1
    <3>4. ASSUME NEW a \in Nat, NEW b \in Nat, b - (a + 1) >= 0, b <= MaxListNodes
          PROVE  a + 1 \in 0 .. b /\ b \in 0 .. MaxListNodes
      BY <3>4, JListAssumption
    <3> HIDE DEF len
    <3> QED  BY <3>2, <3>3, <3>4
  <2>4. /\ jl_next' \in [0 .. MaxListNodes -> -1 .. MaxListNodes]
        /\ jl_prev' \in [0 .. MaxListNodes -> -1 .. MaxListNodes]
    BY <1>3, <1>5, <2>1, <2>2 DEF JListType
  <2>5. jl_data' \in [1 .. MaxListNodes -> Items \cup {Nil}]
    BY <1>3, <1>5 DEF JListType
  <2> QED  BY <2>3, <2>4, <2>5 DEF JListType
<1> HIDE DEF len
<1>13. ListIs(h)'
  <2>1. h \in [0 .. len + 1 -> 0 .. jl_made']
    <3>1. \A i \in 0 .. len : g[i] \in 0 .. jl_made'
      BY <1>4, <1>8
    <3>2. n \in 0 .. jl_made'
      BY <1>8
    <3> QED  BY <1>6, <3>1, <3>2
  <2>2. h[0] = HeadNode
    <3>1. 0 \in 0 .. len /\ g[0] = HeadNode
      BY <1>1, <1>4 DEF ListIs
    <3> QED  BY <1>9, <3>1
  <2>3. \A i \in 0 .. len + 1, j \in 0 .. len + 1 : h[i] = h[j] => i = j
    <3>1. \A i \in 0 .. len, j \in 0 .. len : g[i] = g[j] => i = j
      BY <1>1 DEF ListIs, len
    <3> QED  BY <1>8, <1>9, <3>1
  <2>4. \A i \in 0 .. len + 1 : jl_next'[h[i]] = IF i = len + 1 THEN Nil ELSE h[i + 1]
    <3>1. ASSUME NEW i \in 0 .. len, i # len PROVE jl_next'[h[i]] = h[i + 1]
      <4>1. i + 1 \in 0 .. len
        BY <1>4, <3>1
      <4>2. jl_next[g[i]] = g[i + 1] /\ g[i] # g[len]
        BY <1>1, <1>10, <3>1 DEF ListIs, len
      <4>3. g[i] \in 0 .. MaxListNodes /\ g[i] # n
        BY <1>4, <1>8
      <4> QED  BY <1>9, <1>10, <1>11, <4>1, <4>2, <4>3
    <3>2. jl_next'[h[len]] = h[len + 1]
      BY <1>4, <1>9, <1>10, <1>11
    <3>3. jl_next'[h[len + 1]] = Nil
      <4>1. n # jl_tail /\ n \in 0 .. MaxListNodes
        BY <1>8, <1>10
      <4> QED  BY <1>9, <1>11, <4>1
    <3> QED  BY <1>9, <3>1, <3>2, <3>3
  <2>5. \A i \in 1 .. len + 1 : jl_prev'[h[i]] = h[i - 1] /\ jl_data'[h[i]] \in Items
    <3>1. ASSUME NEW i \in 1 .. len PROVE jl_prev'[h[i]] = h[i - 1] /\ jl_data'[h[i]] \in Items
      <4>1. i - 1 \in 0 .. len /\ i \in 0 .. len
        BY <1>4
      <4>2. jl_prev[g[i]] = g[i - 1] /\ jl_data[g[i]] \in Items
        BY <1>1 DEF ListIs, len
      <4>3. g[i] \in 1 .. MaxListNodes /\ g[i] \in 0 .. MaxListNodes /\ g[i] # n
        BY <1>4, <1>8, <4>1
      <4> QED  BY <1>9, <1>11, <4>1, <4>2, <4>3
    <3>2. jl_prev'[h[len + 1]] = h[(len + 1) - 1] /\ jl_data'[h[len + 1]] \in Items
      <4>1. n \in 0 .. MaxListNodes /\ (len + 1) - 1 = len
        BY <1>4, <1>8
      <4> QED  BY <1>8, <1>9, <1>10, <1>11, <4>1
    <3>3. \A i \in 1 .. len + 1 : i \in 1 .. len \/ i = len + 1
      BY <1>4
    <3> QED  BY <3>1, <3>2, <3>3
  <2>6. jl_tail' = h[len + 1]
    BY <1>5, <1>9
  <2> QED  BY <1>5, <2>1, <2>2, <2>3, <2>4, <2>5, <2>6 DEF ListIs
<1>14. WalkIs(h)'
  <2>1. \A i \in 1 .. len : i \in 1 .. len + 1 /\ h[i] = g[i]
    BY <1>4, <1>9
  <2>2. n \notin jl_stayed
    <3>1. \A i \in 1 .. len : g[i] # n
      BY <1>4, <1>8
    <3> QED  BY <1>1, <3>1 DEF WalkIs, len
  <2>3. \A i \in 1 .. len + 1 : i \in 1 .. len \/ h[i] = n
    BY <1>4, <1>9
  <2>4. jl_at # Nil => \E p \in 1 .. len + 1 :
          /\ jl_at = h[p]
          /\ \A i \in 1 .. len + 1 : h[i] \in jl_stayed => (h[i] \in jl_seen <=> i <= p)
    <3>1. jl_at # Nil => \E p \in 1 .. len :
            /\ jl_at = g[p]
            /\ \A i \in 1 .. len : g[i] \in jl_stayed => (g[i] \in jl_seen <=> i <= p)
      BY <1>1 DEF WalkIs, len
    <3> QED  BY <2>1, <2>2, <2>3, <3>1
  <2>5. \A k \in jl_stayed : \E i \in 1 .. len + 1 : h[i] = k
    <3>1. \A k \in jl_stayed : \E i \in 1 .. len : g[i] = k
      BY <1>1 DEF WalkIs, len
    <3> QED  BY <2>1, <3>1
  <2> QED  BY <1>1, <1>5, <2>4, <2>5 DEF WalkIs
<1>15. PICK e : e = IF m = 0 THEN c ELSE d
  OBVIOUS
<1> DEFINE q == IF m = 0 THEN 0 ELSE m - 1
<1>16. CacheIs(h, e)'
  <2>1. jl_made' - jl_size' = q
    BY <1>5, <1>8
  <2>2. /\ q \in Nat
        /\ \A i \in 1 .. q : i \in 1 .. m /\ i + 1 \in 1 .. m /\ e[i] = c[i + 1] /\ i \in 1 .. m - 1
    BY <1>4, <1>7, <1>15
  <2> HIDE DEF q
  <2>3. \A i \in 1 .. q, j \in 1 .. q : e[i] = e[j] => i = j
    <3>1. \A i \in 1 .. m, j \in 1 .. m : c[i] = c[j] => i = j
      BY <1>2 DEF CacheIs
    <3>2. \A i \in 1 .. q, j \in 1 .. q : i + 1 = j + 1 => i = j
      OBVIOUS
    <3> QED  BY <2>2, <3>1, <3>2
  <2>4. \A i \in 1 .. q, j \in 0 .. len + 1 : e[i] # h[j]
    <3>1. \A i \in 1 .. m, j \in 0 .. len : c[i] # g[j]
      BY <1>2 DEF CacheIs, len
    <3>2. \A i \in 1 .. q : e[i] # n
      BY <1>8, <2>2
    <3>3. \A i \in 1 .. q, j \in 0 .. len : e[i] # h[j]
      BY <1>9, <2>2, <3>1
    <3> QED  BY <1>9, <3>2, <3>3
  <2>5. e \in [1 .. q -> 1 .. jl_made']
    <3>1. \A i \in 1 .. q : e[i] \in 1 .. jl_made'
      BY <1>4, <1>8, <2>2
    <3>2. CASE m = 0
      BY <1>2, <1>15, <3>1, <3>2 DEF q, len
    <3>3. CASE m # 0
      BY <1>7, <1>15, <3>1, <3>3 DEF q
    <3> QED  BY <3>2, <3>3
  <2>6. jl_free' = IF q = 0 THEN Nil ELSE e[1]
    <3>1. q # 0 => 1 \in 1 .. q /\ ~ (m <= 1)
      BY <1>4 DEF q
    <3>2. q = 0 => m <= 1
      BY <1>4 DEF q
    <3> QED  BY <1>8, <2>2, <3>1, <3>2
  <2>7. \A i \in 1 .. q : jl_next'[e[i]] = IF i = q THEN Nil ELSE e[i + 1]
    <3>1. ASSUME NEW i \in 1 .. q PROVE jl_next'[e[i]] = IF i = q THEN Nil ELSE e[i + 1]
      <4>1. jl_next[c[i + 1]] = IF i + 1 = m THEN Nil ELSE c[(i + 1) + 1]
        BY <1>2, <2>2 DEF CacheIs
      <4>2. i + 1 = m <=> i = q
        BY <1>4 DEF q
      <4>3. i # q => i + 1 \in 1 .. q
        BY <2>2
      <4>4. c[i + 1] \in 0 .. MaxListNodes /\ c[i + 1] # n
        <5>1. c[i + 1] \in 1 .. MaxListNodes
          BY <1>4, <2>2
        <5>2. c[i + 1] # n
          BY <1>8, <2>2
        <5> QED  BY <5>1, <5>2, JListAssumption
      <4>5. c[i + 1] # jl_tail
        BY <1>2, <1>10, <2>2 DEF CacheIs, len
      <4> QED  BY <1>11, <2>2, <4>1, <4>2, <4>3, <4>4, <4>5
    <3> QED  BY <3>1
  <2>8. \A k \in 1 .. jl_made' : (\E i \in 1 .. q : e[i] = k) \/ (\E j \in 1 .. len + 1 : h[j] = k)
    <3>1. \A k \in 1 .. jl_made : (\E i \in 1 .. m : c[i] = k) \/ (\E j \in 1 .. len : g[j] = k)
      BY <1>2 DEF CacheIs, Made, len
    <3>2. \A j \in 1 .. len : j \in 1 .. len + 1 /\ h[j] = g[j]
      BY <1>4, <1>9
    <3>3. len + 1 \in 1 .. len + 1
      BY <1>4
    <3>4. ASSUME NEW i \in 1 .. m PROVE c[i] = n \/ \E j \in 1 .. q : e[j] = c[i]
      <4>1. CASE i = 1
        BY <1>8, <4>1
      <4>2. CASE i # 1
        <5>1. i - 1 \in 1 .. q /\ (i - 1) + 1 = i
          BY <1>4, <4>2 DEF q
        <5> QED  BY <2>2, <5>1
      <4> QED  BY <4>1, <4>2
    <3>5. ASSUME NEW k \in 1 .. jl_made
          PROVE  (\E i \in 1 .. q : e[i] = k) \/ (\E j \in 1 .. len + 1 : h[j] = k)
      <4>1. CASE \E j \in 1 .. len : g[j] = k
        BY <3>2, <4>1
      <4>2. CASE \E i \in 1 .. m : c[i] = k
        BY <1>9, <3>3, <3>4, <4>2
      <4> QED  BY <3>1, <4>1, <4>2
    <3>6. \E j \in 1 .. len + 1 : h[j] = n
      BY <1>9, <3>3
    <3> QED  BY <1>8, <3>5, <3>6
  <2> QED  BY <1>5, <2>1, <2>3, <2>4, <2>5, <2>6, <2>7, <2>8 DEF CacheIs, Made
<1>17. /\ (h \in [0 .. jl_size -> 0 .. jl_made])'
       /\ (e \in [1 .. jl_made - jl_size -> Made])'
  BY <1>13, <1>16 DEF ListIs, CacheIs
<1>18. JListInv'
  BY <1>12, <1>13, <1>14, <1>16, <1>17 DEF JListInv
<1>19. n \in 1 .. MaxListNodes /\ \A i \in 1 .. len : g[i] # n
  BY <1>4, <1>8
<1> QED  BY <1>0, <1>13, <1>18, <1>19 DEF n, len

(* The node at k is taken out of the list: what both of its actions do.    *)
TakesOut(g, k) ==
  LET item == g[k]
      after == jl_next[item]
  IN  /\ item # jl_at
      /\ jl_next' = [jl_next EXCEPT ![g[k - 1]] = after, ![item] = jl_free]
      /\ jl_prev' = IF after # Nil THEN [jl_prev EXCEPT ![after] = g[k - 1]] ELSE jl_prev
      /\ jl_tail' = IF after # Nil THEN jl_tail ELSE g[k - 1]
      /\ jl_free' = item
      /\ jl_size' = jl_size - 1
      /\ Leaves(item)
      /\ UNCHANGED <<jl_data, jl_made>>

(* The nodes without the one at k.                                         *)
Without(g, k) == [i \in 0 .. jl_size - 1 |-> IF i < k THEN g[i] ELSE g[i + 1]]

(* Without a node the list is whole, and so is a walk that is not at it.   *)
LEMMA TakenOutKeeps ==
  ASSUME JListInv, NEW g \in [0 .. jl_size -> 0 .. jl_made], ListIs(g), WalkIs(g),
         \E c \in [1 .. jl_made - jl_size -> Made] : CacheIs(g, c),
         NEW k \in 1 .. jl_size, TakesOut(g, k)
  PROVE  /\ JListInv'
         /\ \A h : h = Without(g, k) => ListIs(h)'
<1>1. PICK c \in [1 .. jl_made - jl_size -> Made] : CacheIs(g, c)
  OBVIOUS
<1>2. JListType
  BY DEF JListInv
<1> DEFINE len == jl_size
           m == jl_made - jl_size
           item == g[k]
           before == g[k - 1]
           after == jl_next[item]
<1>3. /\ len \in Nat /\ jl_made \in Nat /\ jl_made <= MaxListNodes /\ m \in Nat
      /\ \A i \in 0 .. len : g[i] \in 0 .. jl_made /\ g[i] \in 0 .. MaxListNodes
      /\ \A i \in 1 .. len : g[i] \in 1 .. jl_made /\ g[i] \in 1 .. MaxListNodes /\ i \in 0 .. len
      /\ \A i \in 1 .. m : c[i] \in 1 .. jl_made /\ c[i] \in 1 .. MaxListNodes
  BY <1>1, <1>2, ListFacts
<1>4. /\ item # jl_at /\ jl_next' = [jl_next EXCEPT ![before] = after, ![item] = jl_free]
      /\ jl_prev' = IF after # Nil THEN [jl_prev EXCEPT ![after] = before] ELSE jl_prev
      /\ jl_tail' = IF after # Nil THEN jl_tail ELSE before
      /\ jl_free' = item /\ jl_size' = len - 1
      /\ jl_stayed' = jl_stayed \ {item} /\ jl_seen' = jl_seen \ {item}
      /\ UNCHANGED <<jl_at, jl_again, jl_data, jl_made>>
  BY DEF TakesOut, Leaves
<1>5. /\ \A i \in 0 .. len, j \in 0 .. len : g[i] = g[j] => i = j
      /\ \A i \in 0 .. len : jl_next[g[i]] = IF i = len THEN Nil ELSE g[i + 1]
      /\ \A i \in 1 .. len : jl_prev[g[i]] = g[i - 1] /\ jl_data[g[i]] \in Items
      /\ jl_tail = g[len] /\ g[0] = HeadNode
  BY DEF ListIs
<1>6. /\ \A i \in 1 .. m, j \in 1 .. m : c[i] = c[j] => i = j
      /\ jl_free = IF m = 0 THEN Nil ELSE c[1]
      /\ \A i \in 1 .. m : jl_next[c[i]] = IF i = m THEN Nil ELSE c[i + 1]
      /\ \A i \in 1 .. m, j \in 0 .. len : c[i] # g[j]
      /\ \A n \in 1 .. jl_made : (\E i \in 1 .. m : c[i] = n) \/ (\E j \in 1 .. len : g[j] = n)
  BY <1>1 DEF CacheIs, Made
<1>7. /\ k \in 0 .. len /\ k - 1 \in 0 .. len /\ k - 1 # k /\ (k - 1) + 1 = k /\ k \in Nat
      /\ k <= len /\ len - 1 \in Nat /\ k >= 1
  BY <1>3
<1>8. /\ item \in 1 .. jl_made /\ item \in 1 .. MaxListNodes /\ before \in 0 .. MaxListNodes
      /\ item # before
      /\ after = IF k = len THEN Nil ELSE g[k + 1]
      /\ item \in 0 .. MaxListNodes
  BY <1>3, <1>5, <1>7
<1>9. k # len => k + 1 \in 1 .. len /\ k + 1 \in 0 .. len
  BY <1>3, <1>7
<1>10. after # Nil <=> k # len
  <2>1. k # len => g[k + 1] \in 1 .. jl_made
    BY <1>3, <1>9
  <2> QED  BY <1>3, <1>8, <2>1 DEF Nil
<1>11. \A n \in 0 .. MaxListNodes : jl_next'[n] = IF n = item THEN jl_free
                                                  ELSE IF n = before THEN after ELSE jl_next[n]
  BY <1>2, <1>4 DEF JListType
<1>12. \A n \in 0 .. MaxListNodes : jl_prev'[n] = IF k # len /\ n = g[k + 1] THEN before ELSE jl_prev[n]
  BY <1>2, <1>4, <1>8, <1>10 DEF JListType
<1> HIDE DEF after, before
<1>13. JListType'
  <2>1. jl_free \in -1 .. MaxListNodes
    <3>1. m # 0 => 1 \in 1 .. m
      BY <1>3
    <3> QED  BY <1>3, <1>6, <3>1, JListAssumption DEF Nil
  <2>2. after \in -1 .. MaxListNodes /\ before \in -1 .. MaxListNodes
    <3>1. k # len => g[k + 1] \in 1 .. MaxListNodes
      BY <1>3, <1>9
    <3> QED  BY <1>8, <3>1, JListAssumption DEF Nil
  <2>3. jl_next' \in [0 .. MaxListNodes -> -1 .. MaxListNodes]
    BY <1>2, <1>4, <2>1, <2>2 DEF JListType
  <2>4. jl_prev' \in [0 .. MaxListNodes -> -1 .. MaxListNodes]
    BY <1>2, <1>4, <2>2 DEF JListType
  <2>5. jl_size' \in 0 .. jl_made'
    BY <1>2, <1>4, <1>7 DEF JListType
  <2> QED  BY <1>2, <1>4, <2>3, <2>4, <2>5 DEF JListType
<1>14. PICK h : h = Without(g, k)
  OBVIOUS
<1>15. h = [i \in 0 .. len - 1 |-> IF i < k THEN g[i] ELSE g[i + 1]]
  BY <1>14 DEF Without
<1> HIDE DEF item, len, m
<1>16. \A i \in 0 .. len - 1 : /\ i \in 0 .. len /\ i + 1 \in 0 .. len /\ i + 1 \in 1 .. len
                               /\ h[i] = IF i < k THEN g[i] ELSE g[i + 1]
  BY <1>3, <1>7, <1>15
<1>17. ListIs(h)'
  <2>1. h \in [0 .. len - 1 -> 0 .. jl_made]
    BY <1>3, <1>15, <1>16
  <2>2. h[0] = HeadNode
    <3>1. 0 \in 0 .. len - 1 /\ 0 < k
      BY <1>7
    <3> QED  BY <1>5, <1>16, <3>1
  <2>3. \A i \in 0 .. len - 1, j \in 0 .. len - 1 : h[i] = h[j] => i = j
    <3>1. ASSUME NEW i \in 0 .. len - 1, NEW j \in 0 .. len - 1, h[i] = h[j] PROVE i = j
      <4>1. (IF i < k THEN i ELSE i + 1) = (IF j < k THEN j ELSE j + 1)
        BY <1>5, <1>16, <3>1
      <4> QED  BY <1>7, <4>1
    <3> QED  BY <3>1
  <2>4. ASSUME NEW i \in 0 .. len - 1
        PROVE  jl_next'[h[i]] = IF i = len - 1 THEN Nil ELSE h[i + 1]
    <3>1. i # len - 1 => i + 1 \in 0 .. len - 1
      BY <1>3, <1>7
    <3>2. CASE i + 1 < k
      <4>1. i < k /\ i # k /\ i # k - 1 /\ i # len /\ i # len - 1 /\ i \in 0 .. len
        BY <1>3, <1>7, <3>2
      <4>2. h[i] = g[i] /\ g[i] \in 0 .. MaxListNodes /\ g[i] # item /\ g[i] # before
        BY <1>3, <1>5, <1>7, <1>16, <4>1 DEF item, before
      <4>3. h[i + 1] = g[i + 1]
        BY <1>16, <3>1, <3>2, <4>1
      <4> QED  BY <1>5, <1>11, <4>1, <4>2, <4>3
    <3>3. CASE i = k - 1
      <4>1. h[i] = before /\ (i = len - 1 <=> k = len) /\ i + 1 = k
        BY <1>3, <1>7, <1>16, <3>3 DEF before
      <4>2. k # len => h[k] = g[k + 1]
        BY <1>16, <3>1, <4>1
      <4> QED  BY <1>8, <1>11, <4>1, <4>2
    <3>4. CASE i >= k
      <4>1. i + 1 # k /\ i + 1 # k - 1 /\ i + 1 \in 0 .. len /\ ~ (i < k) /\ (i = len - 1 <=> i + 1 = len)
            /\ ~ (i + 1 < k)
        BY <1>3, <1>7, <1>16, <3>4
      <4>2. h[i] = g[i + 1] /\ g[i + 1] \in 0 .. MaxListNodes /\ g[i + 1] # item /\ g[i + 1] # before
        BY <1>3, <1>5, <1>7, <1>16, <4>1 DEF item, before
      <4>3. i # len - 1 => h[i + 1] = g[(i + 1) + 1]
        BY <1>16, <3>1, <4>1
      <4> QED  BY <1>5, <1>11, <4>1, <4>2, <4>3
    <3> QED  BY <1>7, <3>2, <3>3, <3>4
  <2>5. ASSUME NEW i \in 1 .. len - 1
        PROVE  jl_prev'[h[i]] = h[i - 1] /\ jl_data'[h[i]] \in Items
    <3>1. i - 1 \in 0 .. len - 1 /\ i \in 0 .. len - 1 /\ i \in 1 .. len
      BY <1>3, <1>7
    <3>2. CASE i < k
      <4>1. h[i] = g[i] /\ h[i - 1] = g[i - 1] /\ i \in 0 .. len
        BY <1>7, <1>16, <3>1, <3>2
      <4>2. k # len => g[i] # g[k + 1]
        <5>1. i # k + 1
          BY <1>7, <3>2
        <5> QED  BY <1>5, <1>9, <4>1, <5>1
      <4>3. g[i] \in 0 .. MaxListNodes
        BY <1>3, <4>1
      <4> QED  BY <1>4, <1>5, <1>12, <3>1, <4>1, <4>2, <4>3
    <3>3. CASE i = k
      <4>1. k # len /\ h[i] = g[k + 1] /\ h[i - 1] = before
        BY <1>7, <1>16, <3>1, <3>3 DEF before
      <4>2. g[k + 1] \in 0 .. MaxListNodes /\ jl_data[g[k + 1]] \in Items
        BY <1>3, <1>5, <1>9, <4>1
      <4> QED  BY <1>4, <1>12, <4>1, <4>2
    <3>4. CASE i > k
      <4>1. h[i] = g[i + 1] /\ h[i - 1] = g[i] /\ i + 1 \in 1 .. len /\ i + 1 \in 0 .. len /\ (i + 1) - 1 = i
        <5>1. ~ (i < k) /\ ~ (i - 1 < k) /\ (i - 1) + 1 = i
          BY <1>7, <3>4
        <5> QED  BY <1>16, <3>1, <5>1
      <4>2. k # len => g[i + 1] # g[k + 1]
        <5>1. i + 1 # k + 1
          BY <1>7, <3>4
        <5> QED  BY <1>5, <1>9, <4>1, <5>1
      <4>3. g[i + 1] \in 0 .. MaxListNodes
        BY <1>3, <4>1
      <4> QED  BY <1>4, <1>5, <1>12, <4>1, <4>2, <4>3
    <3> QED  BY <1>7, <3>2, <3>3, <3>4
  <2>6. jl_tail' = h[len - 1]
    <3>1. len - 1 \in 0 .. len - 1 /\ (len - 1) + 1 = len /\ (len - 1 < k <=> k = len)
      BY <1>3, <1>7
    <3> QED  BY <1>4, <1>5, <1>10, <1>16, <3>1 DEF before
  <2> QED  BY <1>4, <2>1, <2>2, <2>3, <2>4, <2>5, <2>6 DEF ListIs
<1>18. \A i \in 1 .. len : i # k => \E j \in 1 .. len - 1 : h[j] = g[i] /\ j = IF i < k THEN i ELSE i - 1
  <2>1. ASSUME NEW i \in 1 .. len, i < k PROVE i \in 1 .. len - 1 /\ h[i] = g[i]
    <3>1. i \in 0 .. len - 1 /\ i \in 1 .. len - 1
      BY <1>3, <1>7, <2>1
    <3> QED  BY <1>16, <2>1, <3>1
  <2>2. ASSUME NEW i \in 1 .. len, i > k PROVE i - 1 \in 1 .. len - 1 /\ h[i - 1] = g[i] /\ ~ (i < k)
    <3>1. i - 1 \in 0 .. len - 1 /\ i - 1 \in 1 .. len - 1 /\ ~ (i - 1 < k) /\ (i - 1) + 1 = i /\ ~ (i < k)
      BY <1>3, <1>7, <2>2
    <3> QED  BY <1>16, <3>1
  <2>3. \A i \in 1 .. len : i # k => i < k \/ i > k
    BY <1>7
  <2> QED  BY <2>1, <2>2, <2>3
<1>19. WalkIs(h)'
  <2>1. \A n \in jl_stayed : \E i \in 1 .. len : g[i] = n
    BY DEF WalkIs, len
  <2>2. \A n \in jl_stayed' : \E i \in 1 .. len - 1 : h[i] = n
    BY <1>4, <1>18, <2>1 DEF item
  <2>3. ASSUME jl_at # Nil
        PROVE  \E p \in 1 .. len - 1 :
                 /\ jl_at = h[p]
                 /\ \A i \in 1 .. len - 1 : h[i] \in jl_stayed' => (h[i] \in jl_seen' <=> i <= p)
    <3>1. PICK p \in 1 .. len :
            /\ jl_at = g[p]
            /\ \A i \in 1 .. len : g[i] \in jl_stayed => (g[i] \in jl_seen <=> i <= p)
      BY <2>3 DEF WalkIs, len
    <3>2. p # k
      BY <1>4, <3>1 DEF item
    <3>3. PICK r \in 1 .. len - 1 : h[r] = g[p] /\ r = IF p < k THEN p ELSE p - 1
      BY <1>18, <3>2
    <3>4. ASSUME NEW i \in 1 .. len - 1, h[i] \in jl_stayed' PROVE h[i] \in jl_seen' <=> i <= r
      <4> DEFINE j == IF i < k THEN i ELSE i + 1
      <4>1. j \in 1 .. len /\ h[i] = g[j]
        BY <1>7, <1>16
      <4>2. j <= p <=> i <= r
        BY <1>7, <3>2, <3>3
      <4>3. g[j] \in jl_stayed /\ g[j] # item
        BY <1>4, <3>4, <4>1
      <4> HIDE DEF j
      <4> QED  BY <1>4, <3>1, <4>1, <4>2, <4>3
    <3> QED  BY <3>1, <3>3, <3>4
  <2>4. ~ jl_again' /\ jl_seen' \subseteq jl_stayed' /\ (jl_at = Nil => jl_seen' = jl_stayed')
    BY <1>4 DEF WalkIs
  <2> QED  BY <1>4, <2>2, <2>3, <2>4 DEF WalkIs
<1>20. PICK d : d = [i \in 1 .. m + 1 |-> IF i = 1 THEN item ELSE c[i - 1]]
  OBVIOUS
<1>21. CacheIs(h, d)'
  <2>1. jl_made' - jl_size' = m + 1
    BY <1>3, <1>4 DEF m, len
  <2>2. /\ \A i \in 1 .. m : i + 1 \in 1 .. m + 1 /\ d[i + 1] = c[i] /\ i \in 1 .. m + 1
        /\ d[1] = item /\ 1 \in 1 .. m + 1
        /\ \A i \in 1 .. m + 1 : i = 1 \/ (i - 1 \in 1 .. m /\ (i - 1) + 1 = i)
    <3>1. \A i \in 1 .. m : i + 1 \in 1 .. m + 1 /\ i + 1 # 1 /\ (i + 1) - 1 = i /\ i \in 1 .. m + 1
      BY <1>3
    <3>2. 1 \in 1 .. m + 1 /\ \A i \in 1 .. m + 1 : i = 1 \/ (i - 1 \in 1 .. m /\ (i - 1) + 1 = i)
      BY <1>3
    <3> QED  BY <1>20, <3>1, <3>2
  <2>3. \A i \in 1 .. m : c[i] # item
    BY <1>6, <1>7 DEF item
  <2>4. \A i \in 1 .. m + 1, j \in 1 .. m + 1 : d[i] = d[j] => i = j
    <3>1. ASSUME NEW i \in 1 .. m + 1, NEW j \in 1 .. m + 1, d[i] = d[j], i # 1 PROVE i = j
      <4>1. i - 1 \in 1 .. m /\ d[i] = c[i - 1] /\ (i - 1) + 1 = i
        BY <2>2, <3>1
      <4>2. j # 1
        BY <2>2, <2>3, <3>1, <4>1
      <4>3. j - 1 \in 1 .. m /\ d[j] = c[j - 1] /\ (j - 1) + 1 = j
        BY <2>2, <4>2
      <4>4. i - 1 = j - 1
        BY <1>6, <3>1, <4>1, <4>3
      <4> QED  BY <4>1, <4>3, <4>4
    <3>2. ASSUME NEW j \in 1 .. m + 1, d[1] = d[j] PROVE j = 1
      BY <2>2, <2>3, <3>2
    <3> QED  BY <3>1, <3>2
  <2>5. d \in [1 .. m + 1 -> 1 .. jl_made]
    BY <1>3, <1>8, <1>20, <2>2
  <2>6. m + 1 # 0 /\ jl_free' = d[1]
    BY <1>3, <1>4, <2>2
  <2>7. ASSUME NEW i \in 1 .. m + 1 PROVE jl_next'[d[i]] = IF i = m + 1 THEN Nil ELSE d[i + 1]
    <3>1. CASE i = 1
      <4>1. jl_next'[d[1]] = jl_free
        BY <1>8, <1>11, <2>2
      <4>2. m = 0 <=> 1 = m + 1
        BY <1>3
      <4>3. m # 0 => d[1 + 1] = c[1]
        <5>1. m # 0 => 1 \in 1 .. m
          BY <1>3
        <5> QED  BY <2>2, <5>1
      <4> QED  BY <1>6, <3>1, <4>1, <4>2, <4>3
    <3>2. CASE i # 1
      <4>1. i - 1 \in 1 .. m /\ d[i] = c[i - 1] /\ (i - 1) + 1 = i /\ (i - 1 = m <=> i = m + 1)
        BY <1>3, <2>2, <3>2
      <4>2. i # m + 1 => i \in 1 .. m
        BY <1>3
      <4>3. c[i - 1] # before /\ c[i - 1] # item /\ c[i - 1] \in 0 .. MaxListNodes
        <5>1. c[i - 1] \in 1 .. MaxListNodes
          BY <1>3, <4>1
        <5> QED  BY <1>6, <1>7, <2>3, <4>1, <5>1, JListAssumption DEF before
      <4>4. jl_next[c[i - 1]] = IF i - 1 = m THEN Nil ELSE c[i]
        BY <1>6, <4>1
      <4> QED  BY <1>11, <2>2, <4>1, <4>2, <4>3, <4>4
    <3> QED  BY <3>1, <3>2
  <2>8. \A i \in 1 .. m + 1, j \in 0 .. len - 1 : d[i] # h[j]
    <3>1. ASSUME NEW j \in 0 .. len - 1 PROVE item # h[j] /\ \A i \in 1 .. m : c[i] # h[j]
      <4> DEFINE a == IF j < k THEN j ELSE j + 1
      <4>1. a \in 0 .. len /\ h[j] = g[a] /\ a # k
        BY <1>7, <1>16
      <4> HIDE DEF a
      <4> QED  BY <1>5, <1>6, <1>7, <4>1 DEF item
    <3> QED  BY <2>2, <3>1
  <2>9. \A n \in 1 .. jl_made : (\E i \in 1 .. m + 1 : d[i] = n) \/ (\E j \in 1 .. len - 1 : h[j] = n)
    <3>1. ASSUME NEW n \in 1 .. jl_made
          PROVE  (\E i \in 1 .. m + 1 : d[i] = n) \/ (\E j \in 1 .. len - 1 : h[j] = n)
      <4>1. CASE \E i \in 1 .. m : c[i] = n
        BY <2>2, <4>1
      <4>2. CASE n = item
        BY <2>2, <4>2
      <4>3. CASE n # item /\ \E j \in 1 .. len : g[j] = n
        BY <1>18, <4>3 DEF item
      <4> QED  BY <1>6, <4>1, <4>2, <4>3
    <3> QED  BY <3>1
  <2>10. jl_made' = jl_made /\ jl_size' = len - 1
    BY <1>4 DEF len
  <2>11. \A i \in 1 .. m + 1 : jl_next'[d[i]] = IF i = m + 1 THEN Nil ELSE d[i + 1]
    BY <2>7
  <2> QED  BY <2>1, <2>4, <2>5, <2>6, <2>8, <2>9, <2>10, <2>11 DEF CacheIs, Made
<1>22. /\ (h \in [0 .. jl_size -> 0 .. jl_made])'
       /\ (d \in [1 .. jl_made - jl_size -> Made])'
  BY <1>17, <1>21 DEF ListIs, CacheIs
<1>23. JListInv'
  BY <1>13, <1>17, <1>19, <1>21, <1>22 DEF JListInv
<1> QED  BY <1>14, <1>17, <1>23

(* Both ways to take a node out take it out of its place.                  *)
LEMMA PullTakesOut ==
  ASSUME JListInv, NEW g \in [0 .. jl_size -> 0 .. jl_made], ListIs(g), jlist_pull
  PROVE  1 \in 1 .. jl_size /\ TakesOut(g, 1)
<1>1. jl_size \in Nat /\ jl_size # 0
  BY JListAssumption DEF JListInv, JListType, jlist_pull
<1>2. 1 \in 1 .. jl_size /\ 0 \in 0 .. jl_size /\ 1 \in 0 .. jl_size /\ jl_size \in 0 .. jl_size
  BY <1>1
<1>3. /\ g[1 - 1] = HeadNode /\ jl_next[HeadNode] = g[1] /\ jl_tail = g[jl_size]
      /\ jl_next[g[1]] = IF jl_size = 1 THEN Nil ELSE g[1 + 1]
      /\ \A i \in 0 .. jl_size, j \in 0 .. jl_size : g[i] = g[j] => i = j
  BY <1>1, <1>2 DEF ListIs
<1>4. jl_next[g[1]] = Nil <=> g[1] = jl_tail
  <2>1. jl_size # 1 => 1 + 1 \in 0 .. jl_size
    BY <1>1
  <2>2. jl_size # 1 => g[1 + 1] # Nil
    <3>1. \A i \in 0 .. jl_size : g[i] \in 0 .. jl_made
      OBVIOUS
    <3>2. jl_made \in Nat
      BY JListAssumption DEF JListInv, JListType
    <3> QED  BY <2>1, <3>1, <3>2 DEF Nil
  <2>3. g[1] = g[jl_size] <=> jl_size = 1
    BY <1>2, <1>3
  <2> QED  BY <1>3, <2>2, <2>3
<1> QED  BY <1>2, <1>3, <1>4 DEF jlist_pull, TakesOut

(* jlist_remove_first_if takes out the first node that the predicate holds *)
(* for.                                                                    *)
LEMMA RemoveTakesOut ==
  ASSUME JListInv, NEW g \in [0 .. jl_size -> 0 .. jl_made], ListIs(g), NEW S, jlist_remove_first_if(S)
  PROVE  \E k \in 1 .. jl_size :
           /\ TakesOut(g, k) /\ jl_data[g[k]] \in S
           /\ \A j \in 1 .. k - 1 : jl_data[g[j]] \notin S
<1>1. JListType
  BY DEF JListInv
<1>2. Chain = Behind(g) /\ DOMAIN Chain = 1 .. jl_size
  BY <1>1, ChainIs DEF Behind
<1>3. PICK k \in 1 .. jl_size : LET item == Chain[k]
                                    after == jl_next[item]
        IN  /\ jl_data[item] \in S /\ \A j \in 1 .. k - 1 : jl_data[Chain[j]] \notin S
            /\ jl_size # 0 /\ item # jl_at
            /\ jl_next' = [jl_next EXCEPT ![jl_prev[item]] = after, ![item] = jl_free]
            /\ jl_prev' = IF after # Nil THEN [jl_prev EXCEPT ![after] = jl_prev[item]] ELSE jl_prev
            /\ jl_tail' = IF after # Nil THEN jl_tail ELSE jl_prev[item]
            /\ jl_free' = item
            /\ jl_size' = jl_size - 1
            /\ Leaves(item)
            /\ UNCHANGED <<jl_data, jl_made>>
  BY <1>2 DEF jlist_remove_first_if
<1>4. Chain[k] = g[k] /\ jl_prev[g[k]] = g[k - 1]
  BY <1>2 DEF Behind, ListIs
<1>5. \A j \in 1 .. k - 1 : Chain[j] = g[j]
  <2>1. jl_size \in Nat
    BY JListAssumption DEF JListInv, JListType
  <2>2. \A j \in 1 .. k - 1 : j \in 1 .. jl_size
    BY <2>1
  <2> QED  BY <1>2, <2>2 DEF Behind
<1>6. TakesOut(g, k)
  BY <1>3, <1>4 DEF TakesOut
<1> QED  BY <1>3, <1>4, <1>5, <1>6

(* A walk leaves the list as it is.                                        *)
LEMMA OnlyWalked ==
  ASSUME JListInv, NEW g \in [0 .. jl_size -> 0 .. jl_made], ListIs(g), WalkIs(g)',
         \E c \in [1 .. jl_made - jl_size -> Made] : CacheIs(g, c),
         UNCHANGED <<jl_next, jl_prev, jl_data, jl_tail, jl_free, jl_size, jl_made>>
  PROVE  JListInv'
<1>1. PICK c \in [1 .. jl_made - jl_size -> Made] : CacheIs(g, c)
  OBVIOUS
<1>2. ListIs(g)'
  BY DEF ListIs
<1>3. CacheIs(g, c)'
  BY <1>1 DEF CacheIs, Made
<1>4. JListType'
  BY DEF JListInv, JListType
<1>5. (g \in [0 .. jl_size -> 0 .. jl_made])' /\ (c \in [1 .. jl_made - jl_size -> Made])'
  BY DEF Made
<1> QED  BY <1>2, <1>3, <1>4, <1>5 DEF JListInv

(* A walk begins with the first node and goes on to the next.              *)
LEMMA WalkKeeps ==
  ASSUME JListInv, WalkBegins \/ WalkGoesOn
  PROVE  JListInv'
<1>1. PICK g \in [0 .. jl_size -> 0 .. jl_made] : ListIs(g) /\ WalkIs(g)
                  /\ \E c \in [1 .. jl_made - jl_size -> Made] : CacheIs(g, c)
  BY DEF JListInv
<1>2. UNCHANGED <<jl_next, jl_prev, jl_data, jl_tail, jl_free, jl_size, jl_made>>
  BY DEF WalkBegins, WalkGoesOn, GoOnTo, CallBackFor
<1>3. JListType /\ jl_size \in Nat /\ jl_made \in Nat
  BY JListAssumption DEF JListInv, JListType
<1>4. /\ \A i \in 0 .. jl_size, j \in 0 .. jl_size : g[i] = g[j] => i = j
      /\ \A i \in 0 .. jl_size : jl_next[g[i]] = IF i = jl_size THEN Nil ELSE g[i + 1]
      /\ g[0] = HeadNode
  BY <1>1 DEF ListIs
<1>5. \A i \in 0 .. jl_size : g[i] # Nil
  <2>1. \A i \in 0 .. jl_size : g[i] \in 0 .. jl_made
    OBVIOUS
  <2> QED  BY <1>3, <2>1 DEF Nil
<1>6. \A i \in 1 .. jl_size : i \in 0 .. jl_size
  BY <1>3
<1>7. WalkIs(g)'
  <2>1. CASE WalkBegins
    <3>1. jl_size # 0 /\ jl_at' = jl_next[HeadNode] /\ jl_stayed' = ToSet(Chain)
          /\ jl_seen' = {jl_next[HeadNode]} /\ ~ jl_again'
      BY <2>1 DEF WalkBegins, CallBackFor
    <3>2. 0 \in 0 .. jl_size /\ 1 \in 1 .. jl_size /\ 0 # jl_size
      BY <1>3, <3>1
    <3>3. jl_next[HeadNode] = g[1]
      BY <1>4, <3>2
    <3>4. jl_stayed' = {g[i] : i \in 1 .. jl_size}
      <4>1. Chain = Behind(g)
        BY <1>1, <1>3, ChainIs
      <4>2. ToSet(Behind(g)) = {g[i] : i \in 1 .. jl_size}
        BY DEF ToSet, Behind
      <4> QED  BY <3>1, <4>1, <4>2
    <3>5. \A i \in 1 .. jl_size : g[i] \in jl_seen' <=> i <= 1
      <4>1. \A i \in 1 .. jl_size : g[i] = g[1] <=> i = 1
        BY <1>4, <1>6, <3>2
      <4>2. \A i \in 1 .. jl_size : i <= 1 <=> i = 1
        BY <1>3
      <4> QED  BY <3>1, <3>3, <4>1, <4>2
    <3>6. jl_at' = g[1] /\ g[1] # Nil
      BY <1>5, <1>6, <3>1, <3>2, <3>3
    <3>7. jl_seen' \subseteq jl_stayed'
      BY <3>1, <3>2, <3>3, <3>4
    <3> QED  BY <1>2, <3>1, <3>2, <3>4, <3>5, <3>6, <3>7 DEF WalkIs
  <2>2. CASE WalkGoesOn
    <3>1. /\ jl_at # Nil /\ jl_at' = jl_next[jl_at] /\ jl_stayed' = jl_stayed
          /\ jl_seen' = jl_seen \cup (jl_stayed \cap {jl_next[jl_at]})
          /\ jl_again' = (jl_again \/ jl_next[jl_at] \in jl_seen)
      BY <2>2 DEF WalkGoesOn, GoOnTo, CallBackFor
    <3>2. PICK p \in 1 .. jl_size :
            /\ jl_at = g[p]
            /\ \A i \in 1 .. jl_size : g[i] \in jl_stayed => (g[i] \in jl_seen <=> i <= p)
      BY <1>1, <3>1 DEF WalkIs
    <3>3. /\ ~ jl_again /\ jl_seen \subseteq jl_stayed
          /\ \A n \in jl_stayed : \E i \in 1 .. jl_size : g[i] = n
      BY <1>1 DEF WalkIs
    <3>4. CASE p = jl_size
      <4>1. jl_next[jl_at] = Nil
        BY <1>4, <1>6, <3>2, <3>4
      <4>2. Nil \notin jl_stayed
        BY <1>5, <1>6, <3>3
      <4>3. jl_seen' = jl_stayed'
        <5>1. \A i \in 1 .. jl_size : i <= p
          BY <1>3, <3>4
        <5>2. jl_stayed \subseteq jl_seen
          BY <3>2, <3>3, <5>1
        <5> QED  BY <3>1, <3>3, <4>1, <5>2
      <4> QED  BY <1>2, <3>1, <3>3, <4>1, <4>2, <4>3 DEF WalkIs
    <3>5. CASE p # jl_size
      <4>1. p + 1 \in 1 .. jl_size
        BY <1>3, <3>5
      <4>2. jl_next[jl_at] = g[p + 1]
        BY <1>4, <1>6, <3>2, <3>5
      <4>3. g[p + 1] \notin jl_seen
        <5>1. ~ (p + 1 <= p)
          OBVIOUS
        <5> QED  BY <3>2, <3>3, <4>1, <5>1
      <4>4. ASSUME NEW i \in 1 .. jl_size, g[i] \in jl_stayed
            PROVE  g[i] \in jl_seen' <=> i <= p + 1
        <5>1. g[i] = g[p + 1] <=> i = p + 1
          BY <1>4, <1>6, <4>1
        <5>2. i <= p + 1 <=> i <= p \/ i = p + 1
          OBVIOUS
        <5> QED  BY <3>1, <3>2, <4>2, <4>4, <5>1, <5>2
      <4>5. jl_at' = g[p + 1] /\ jl_at' # Nil /\ ~ jl_again' /\ jl_seen' \subseteq jl_stayed'
        BY <1>5, <1>6, <3>1, <3>3, <4>1, <4>2, <4>3
      <4> QED  BY <1>2, <3>1, <3>3, <4>1, <4>4, <4>5 DEF WalkIs
    <3> QED  BY <3>4, <3>5
  <2> QED  BY <2>1, <2>2
<1> QED  BY <1>1, <1>2, <1>7, OnlyWalked

(* The invariant of the list is inductive.                                 *)
LEMMA JListInvNext == JListInv /\ [JListNext]_jlistVars => JListInv'
<1> SUFFICES ASSUME JListInv, [JListNext]_jlistVars PROVE JListInv'
  OBVIOUS
<1>2. PICK g \in [0 .. jl_size -> 0 .. jl_made] : ListIs(g) /\ WalkIs(g)
                  /\ \E c \in [1 .. jl_made - jl_size -> Made] : CacheIs(g, c)
  BY DEF JListInv
<1>1. CASE \E x \in Items : jlist_push(x)
  BY <1>1, <1>2, ListPushKeeps
<1>3. CASE jlist_pull
  <2>1. 1 \in 1 .. jl_size /\ TakesOut(g, 1)
    BY <1>2, <1>3, PullTakesOut
  <2> QED  BY <1>2, <2>1, TakenOutKeeps
<1>4. CASE \E S \in SUBSET Items : jlist_remove_first_if(S)
  <2>1. PICK k \in 1 .. jl_size : TakesOut(g, k)
    BY <1>2, <1>4, RemoveTakesOut
  <2> QED  BY <1>2, <2>1, TakenOutKeeps
<1>5. CASE WalkBegins \/ WalkGoesOn
  BY <1>5, WalkKeeps
<1>6. CASE UNCHANGED jlistVars
  <2>1. WalkIs(g)'
    BY <1>2, <1>6 DEF jlistVars, WalkIs
  <2> QED  BY <1>2, <1>6, <2>1, OnlyWalked DEF jlistVars
<1> QED  BY <1>1, <1>3, <1>4, <1>5, <1>6 DEF JListNext

(* Whatever is pushed, pulled and taken out, also by the callbacks of a    *)
(* walk: each node is in the list or in the freelist and once, the links   *)
(* and the ends agree with size, and a walk comes to each node that stays, *)
(* and once (jlist.c).                                                     *)
THEOREM ListsAreLinked == JListSpec => [](NodesInOneList /\ WalkSeesThoseThatStay)
  BY JListInvInit, JListInvNext, JListInvSays, PTL DEF JListSpec

(* The items of the list, along its nodes.                                 *)
Along(g) == [k \in 1 .. jl_size |-> jl_data[g[k]]]

(* The same items are those of the abstract list.                          *)
ItemsAlong ==
  \A f : ListIs(f) => /\ ListItems = Along(f) /\ Along(f) \in Seq(Items)
                      /\ Len(Along(f)) = jl_size /\ jl_size \in Nat

(* The abstract list is read along the nodes.                              *)
LEMMA ListItemsAre == JListType => ItemsAlong
<1> SUFFICES ASSUME JListType, NEW g, ListIs(g)
             PROVE  /\ ListItems = Along(g) /\ Along(g) \in Seq(Items)
                    /\ Len(Along(g)) = jl_size /\ jl_size \in Nat
  BY DEF ItemsAlong
<1>1. jl_size \in Nat
  BY JListAssumption DEF JListType
<1>2. ListItems = Along(g)
  BY ChainIs DEF ListItems, Along, Behind
<1>3. Along(g) \in [1 .. jl_size -> Items]
  BY DEF ListIs, Along
<1> QED  BY <1>1, <1>2, <1>3, LenOf

(* A sequence without one of its elements.                                 *)
LEMMA RemovedIs ==
  ASSUME NEW S, NEW s \in Seq(S), NEW k \in 1 .. Len(s)
  PROVE  /\ RemoveAt(s, k) \in Seq(S) /\ Len(RemoveAt(s, k)) = Len(s) - 1
         /\ \A i \in 1 .. Len(s) - 1 : RemoveAt(s, k)[i] = IF i < k THEN s[i] ELSE s[i + 1]
<1> DEFINE n == Len(s)
           a == SubSeq(s, 1, k - 1)
           b == SubSeq(s, k + 1, n)
<1>1. n \in Nat /\ k - 1 \in 0 .. n /\ k + 1 \in Int /\ k \in 1 .. n
  BY LenProperties
<1>2. a \in Seq(S) /\ Len(a) = k - 1 /\ \A i \in 1 .. k - 1 : a[i] = s[i]
  BY <1>1, PrefixIs
<1>3. /\ b \in Seq(S) /\ Len(b) = IF k + 1 <= n THEN n - (k + 1) + 1 ELSE 0
      /\ \A i \in 1 .. n - (k + 1) + 1 : b[i] = s[k + 1 + i - 1]
  <2>1. \A i \in k + 1 .. n : i \in 1 .. n
    BY <1>1
  <2>2. \A i \in k + 1 .. n : s[i] \in S
    BY <2>1, ElementOfSeq
  <2> QED  BY <1>1, <2>2, SubSeqProperties
<1> HIDE DEF a, b, n
<1>4. Len(b) = n - k /\ \A i \in 1 .. n - k : b[i] = s[k + i]
  BY <1>1, <1>3
<1>5. /\ a \o b \in Seq(S) /\ Len(a \o b) = (k - 1) + (n - k)
      /\ \A i \in 1 .. (k - 1) + (n - k) : (a \o b)[i] = IF i <= k - 1 THEN a[i] ELSE b[i - (k - 1)]
  <2>1. /\ a \o b \in Seq(S) /\ Len(a \o b) = Len(a) + Len(b)
        /\ \A i \in 1 .. Len(a) + Len(b) : (a \o b)[i] = IF i <= Len(a) THEN a[i] ELSE b[i - Len(a)]
    BY <1>2, <1>3, ConcatProperties
  <2> QED  BY <1>2, <1>4, <2>1
<1>6. RemoveAt(s, k) = a \o b
  BY DEF RemoveAt, a, b, n
<1> DEFINE r == a \o b
<1> HIDE DEF r
<1>7. r \in Seq(S) /\ Len(r) = n - 1
  BY <1>1, <1>5 DEF r
<1>8. ASSUME NEW i \in 1 .. n - 1 PROVE r[i] = IF i < k THEN s[i] ELSE s[i + 1]
  <2>1. r[i] = IF i <= k - 1 THEN a[i] ELSE b[i - (k - 1)]
    BY <1>1, <1>5 DEF r
  <2>2. CASE i < k
    <3>1. i <= k - 1 /\ i \in 1 .. k - 1
      BY <1>1, <2>2
    <3> QED  BY <1>2, <2>1, <2>2, <3>1
  <2>3. CASE ~ (i < k)
    <3>1. ~ (i <= k - 1) /\ i - (k - 1) \in 1 .. n - k /\ k + (i - (k - 1)) = i + 1
      BY <1>1, <2>3
    <3> QED  BY <1>4, <2>1, <2>3, <3>1
  <2> QED  BY <2>2, <2>3
<1> QED  BY <1>6, <1>7, <1>8 DEF r, n

(* A push adds its item at the end.                                        *)
LEMMA ListPushIsPush ==
  ASSUME JListInv, NEW x \in Items, jlist_push(x)
  PROVE  Promise!Push(x)
<1>1. PICK g \in [0 .. jl_size -> 0 .. jl_made] : ListIs(g) /\ WalkIs(g)
                  /\ \E c \in [1 .. jl_made - jl_size -> Made] : CacheIs(g, c)
  BY DEF JListInv
<1>2. /\ JListInv' /\ \A h : h = With(g) => ListIs(h)'
      /\ Taken \in 1 .. MaxListNodes /\ \A i \in 1 .. jl_size : g[i] # Taken
  BY <1>1, ListPushKeeps
<1>3. PICK h : h = With(g)
  OBVIOUS
<1> DEFINE len == jl_size
           s == Along(g)
           t == Along(h)'
<1>4. ListItems = s /\ s \in Seq(Items) /\ Len(s) = len /\ len \in Nat
  BY <1>1, ListItemsAre DEF JListInv, ItemsAlong
<1>5. (ListItems = Along(h) /\ Along(h) \in Seq(Items) /\ Len(Along(h)) = jl_size)'
  <2>1. JListType' => ItemsAlong'
    BY ListItemsAre, PTL
  <2> QED  BY <1>2, <1>3, <2>1 DEF JListInv, ItemsAlong
<1>6. jl_size' = len + 1 /\ jl_data' = [jl_data EXCEPT ![Taken] = x]
  BY DEF jlist_push
<1>7. /\ Append(s, x) \in Seq(Items) /\ Len(Append(s, x)) = len + 1
      /\ \A i \in 1 .. len : Append(s, x)[i] = s[i]
      /\ Append(s, x)[len + 1] = x
  BY <1>4, AppendProperties
<1>8. ASSUME NEW i \in 1 .. len + 1 PROVE t[i] = Append(s, x)[i]
  <2>1. t[i] = jl_data'[h[i]]
    BY <1>6 DEF Along
  <2>2. h[i] = IF i <= len THEN g[i] ELSE Taken
    BY <1>3, <1>4 DEF With
  <2>3. jl_data \in [1 .. MaxListNodes -> Items \cup {Nil}]
    BY DEF JListInv, JListType
  <2>4. CASE i <= len
    <3>1. i \in 1 .. len
      BY <1>4, <2>4
    <3>2. jl_data'[g[i]] = jl_data[g[i]]
      BY <1>2, <1>6, <2>3, <3>1
    <3>3. s[i] = jl_data[g[i]]
      BY <3>1 DEF Along
    <3> HIDE DEF s, t
    <3> QED  BY <1>7, <2>1, <2>2, <2>4, <3>1, <3>2, <3>3
  <2>5. CASE ~ (i <= len)
    <3>1. i = len + 1
      BY <1>4, <2>5
    <3>2. jl_data'[Taken] = x
      BY <1>2, <1>6, <2>3
    <3> HIDE DEF s, t
    <3> QED  BY <1>7, <2>1, <2>2, <2>5, <3>1, <3>2
  <2> QED  BY <2>4, <2>5
<1>9. t = Append(s, x)
  <2>1. t \in Seq(Items) /\ Len(t) = len + 1
    BY <1>5, <1>6
  <2> HIDE DEF s, t, len
  <2> QED  BY <1>7, <1>8, <2>1, SeqEqual
<1> QED  BY <1>4, <1>5, <1>6, <1>9 DEF Promise!Push

(* What is taken out of the list is taken out of its items.                *)
LEMMA TakenOutOfItems ==
  ASSUME JListInv, NEW g \in [0 .. jl_size -> 0 .. jl_made], ListIs(g), WalkIs(g),
         \E c \in [1 .. jl_made - jl_size -> Made] : CacheIs(g, c),
         NEW k \in 1 .. jl_size, TakesOut(g, k)
  PROVE  /\ ListItems = Along(g) /\ Along(g) \in Seq(Items) /\ Len(Along(g)) = jl_size
         /\ ListItems' = RemoveAt(Along(g), k)
         /\ jl_size' = jl_size - 1 /\ jl_size \in Nat
<1>1. JListInv' /\ \A h : h = Without(g, k) => ListIs(h)'
  BY TakenOutKeeps
<1>2. PICK h : h = Without(g, k)
  OBVIOUS
<1> DEFINE len == jl_size
           s == Along(g)
           t == Along(h)'
<1>3. ListItems = s /\ s \in Seq(Items) /\ Len(s) = len /\ len \in Nat
  BY ListItemsAre DEF JListInv, ItemsAlong
<1>4. (ListItems = Along(h) /\ Along(h) \in Seq(Items) /\ Len(Along(h)) = jl_size)'
  <2>1. JListType' => ItemsAlong'
    BY ListItemsAre, PTL
  <2> QED  BY <1>1, <1>2, <2>1 DEF JListInv, ItemsAlong
<1>5. jl_size' = len - 1 /\ jl_data' = jl_data
  BY DEF TakesOut
<1>6. /\ RemoveAt(s, k) \in Seq(Items) /\ Len(RemoveAt(s, k)) = len - 1
      /\ \A i \in 1 .. len - 1 : RemoveAt(s, k)[i] = IF i < k THEN s[i] ELSE s[i + 1]
  BY <1>3, RemovedIs
<1>7. ASSUME NEW i \in 1 .. len - 1 PROVE t[i] = RemoveAt(s, k)[i]
  <2>1. i \in 1 .. len /\ i + 1 \in 1 .. len /\ i \in 0 .. len - 1
    BY <1>3
  <2>2. t[i] = jl_data[h[i]]
    BY <1>5 DEF Along
  <2>3. h[i] = IF i < k THEN g[i] ELSE g[i + 1]
    BY <1>2, <2>1 DEF Without
  <2>4. s[i] = jl_data[g[i]] /\ s[i + 1] = jl_data[g[i + 1]]
    BY <2>1 DEF Along
  <2> HIDE DEF s, t
  <2> QED  BY <1>6, <2>2, <2>3, <2>4
<1>8. t = RemoveAt(s, k)
  <2>1. t \in Seq(Items) /\ Len(t) = len - 1
    BY <1>4, <1>5
  <2> HIDE DEF s, t, len
  <2> QED  BY <1>6, <1>7, <2>1, SeqEqual
<1> QED  BY <1>3, <1>4, <1>5, <1>8

(* jlist.c is a list of items: pushed at the end, pulled from the front,   *)
(* and the first that a predicate holds for can be taken out, whatever     *)
(* nodes are used again and whatever walks go on (jlist.h).                *)
THEOREM ListKeepsItsPromise == JListSpec => ImplementsItemList
<1>1. JListInit => Promise!Init
  <2> SUFFICES ASSUME JListInit PROVE Promise!Init
    OBVIOUS
  <2>1. PICK g \in [0 .. jl_size -> 0 .. jl_made] : ListIs(g)
    BY JListInvInit DEF JListInv
  <2>2. ListItems = Along(g) /\ Len(ListItems) = jl_size /\ ListItems \in Seq(Items)
    BY <2>1, JListInvInit, ListItemsAre DEF JListInv, ItemsAlong
  <2>3. jl_size = 0
    BY DEF JListInit
  <2> QED  BY <2>2, <2>3, EmptySeq DEF Promise!Init
<1>2. JListInv /\ [JListNext]_jlistVars => [Promise!Next]_(Promise!itemListVars)
  <2> SUFFICES ASSUME JListInv, [JListNext]_jlistVars
               PROVE  [Promise!Next]_(Promise!itemListVars)
    OBVIOUS
  <2>1. PICK g \in [0 .. jl_size -> 0 .. jl_made] : ListIs(g) /\ WalkIs(g)
                  /\ \E c \in [1 .. jl_made - jl_size -> Made] : CacheIs(g, c)
    BY DEF JListInv
  <2>2. ASSUME NEW x \in Items, jlist_push(x) PROVE Promise!Next
    BY <2>2, ListPushIsPush DEF Promise!Next
  <2>3. CASE jlist_pull
    <3>1. 1 \in 1 .. jl_size /\ TakesOut(g, 1)
      BY <2>1, <2>3, PullTakesOut
    <3> DEFINE s == Along(g)
    <3>2. /\ ListItems = s /\ s \in Seq(Items) /\ Len(s) = jl_size
          /\ ListItems' = RemoveAt(s, 1)
          /\ jl_size' = jl_size - 1 /\ jl_size \in Nat
      BY <2>1, <3>1, TakenOutOfItems
    <3> HIDE DEF s
    <3>3. s # <<>> /\ 1 \in 1 .. Len(s)
      BY <3>1, <3>2, EmptySeq
    <3>4. /\ Tail(s) \in Seq(Items) /\ Len(Tail(s)) = Len(s) - 1
          /\ \A i \in 1 .. Len(s) - 1 : Tail(s)[i] = s[i + 1]
      BY <3>2, <3>3, HeadTailProperties
    <3>5. /\ RemoveAt(s, 1) \in Seq(Items) /\ Len(RemoveAt(s, 1)) = Len(s) - 1
          /\ \A i \in 1 .. Len(s) - 1 : RemoveAt(s, 1)[i] = s[i + 1]
      <4>1. \A i \in 1 .. Len(s) - 1 : ~ (i < 1)
        BY <3>2
      <4> QED  BY <3>2, <3>3, <4>1, RemovedIs
    <3>6. Tail(s) = RemoveAt(s, 1)
      BY <3>4, <3>5, SeqEqual
    <3> QED  BY <3>2, <3>3, <3>6 DEF Promise!Next, Promise!Pull
  <2>4. ASSUME NEW S \in SUBSET Items, jlist_remove_first_if(S) PROVE Promise!Next
    <3>1. PICK k \in 1 .. jl_size : /\ TakesOut(g, k) /\ jl_data[g[k]] \in S
                                    /\ \A j \in 1 .. k - 1 : jl_data[g[j]] \notin S
      BY <2>1, <2>4, RemoveTakesOut
    <3> DEFINE s == Along(g)
    <3>2. /\ ListItems = s /\ s \in Seq(Items) /\ Len(s) = jl_size
          /\ ListItems' = RemoveAt(s, k)
          /\ jl_size' = jl_size - 1 /\ jl_size \in Nat
      BY <2>1, <3>1, TakenOutOfItems
    <3>3. \A j \in 1 .. jl_size : s[j] = jl_data[g[j]]
      BY DEF Along
    <3> HIDE DEF s
    <3>4. \A j \in 1 .. k - 1 : j \in 1 .. jl_size
      BY <3>2
    <3>5. DOMAIN s = 1 .. jl_size
      BY <3>2, LenProperties
    <3>6. Promise!TakeFirst(S)
      <4>1. k \in DOMAIN s /\ s[k] \in S /\ \A j \in 1 .. k - 1 : s[j] \notin S
        BY <3>1, <3>3, <3>4, <3>5
      <4> QED  BY <3>2, <4>1 DEF Promise!TakeFirst
    <3> QED  BY <3>6 DEF Promise!Next
  <2>5. CASE WalkBegins \/ WalkGoesOn \/ UNCHANGED jlistVars
    <3>1. UNCHANGED <<jl_next, jl_data, jl_size>>
      BY <2>5 DEF WalkBegins, WalkGoesOn, GoOnTo, CallBackFor, jlistVars
    <3>2. \A n : Follow(n)' = Follow(n)
      BY <3>1 DEF Follow
    <3>3. ListItems' = ListItems
      BY <3>1 DEF ListItems, Chain, Follow
    <3> QED  BY <3>1, <3>3 DEF Promise!itemListVars
  <2> QED  BY <2>2, <2>3, <2>4, <2>5 DEF JListNext
<1> QED  BY <1>1, <1>2, JListInvInit, JListInvNext, PTL DEF JListSpec, ImplementsItemList, Promise!Spec

(* Of both lists at once.                                                  *)
THEOREM ListsAlwaysSound == JQueueSpec /\ JListSpec => []ListsAreSound
<1>1. JQueueInv => JQueueTypeOK
  BY DEF JQueueInv
<1> QED  BY <1>1, JQueueInvAlways, ChainsAlwaysAgree, NodesAlwaysKept, ListsAreLinked, PTL
         DEF ListsAreSound

-----------------------------------------------------------------------------
(* The types of the table.                                                 *)
XHashType ==
  /\ xh_chain \in [Buckets -> Seq(Nodes)]
  /\ xh_key \in [Nodes -> Keys \cup {NULL}]
  /\ xh_val \in [Nodes -> Vals \cup {NULL}]
  /\ xh_count \in Int /\ xh_dirty \in BOOLEAN
  /\ iter_node \in Nodes \cup {NULL}
  /\ xh_visited \in Seq(Keys) /\ xh_stayed \subseteq Keys

(* n is the i-th node of bucket b.                                         *)
Place(n, b, i) == b \in Buckets /\ i \in DOMAIN xh_chain[b] /\ xh_chain[b][i] = n

(* A node has one place.                                                   *)
ChainsApart ==
  \A n, b, c, i, j : Place(n, b, i) /\ Place(n, c, j) => b = c /\ i = j

(* The keys of the table are in the buckets of their hashes, and in one    *)
(* node each.                                                              *)
KeysInPlace ==
  /\ \A n, m \in Live : xh_key[n] = xh_key[m] => n = m
  /\ \A n \in Live : \E i : Place(n, Bucket(xh_key[n]), i)

(* The places of the table.                                                *)
LEMMA PlacesOf ==
  XHashType => /\ \A n : n \in Used <=> \E b, i : Place(n, b, i)
               /\ \A n, b, i : Place(n, b, i) => n \in Nodes /\ b \in Nat /\ i \in Nat /\ i >= 1
               /\ Used \subseteq Nodes
               /\ \A b \in Buckets : DOMAIN xh_chain[b] = 1 .. Len(xh_chain[b])
                                     /\ Len(xh_chain[b]) \in Nat
<1> SUFFICES ASSUME XHashType
             PROVE  /\ \A n : n \in Used <=> \E b, i : Place(n, b, i)
                    /\ \A n, b, i : Place(n, b, i) => n \in Nodes /\ b \in Nat /\ i \in Nat /\ i >= 1
                    /\ Used \subseteq Nodes
                    /\ \A b \in Buckets : DOMAIN xh_chain[b] = 1 .. Len(xh_chain[b])
                                          /\ Len(xh_chain[b]) \in Nat
  OBVIOUS
<1>1. \A b \in Buckets : xh_chain[b] \in Seq(Nodes)
  BY DEF XHashType
<1>2. \A b \in Buckets : DOMAIN xh_chain[b] = 1 .. Len(xh_chain[b]) /\ Len(xh_chain[b]) \in Nat
  BY <1>1, LenProperties
<1>3. \A n : n \in Used <=> \E b, i : Place(n, b, i)
  <2>1. ASSUME NEW n PROVE n \in Used <=> \E b \in Buckets : n \in ToSet(xh_chain[b])
    BY DEF Used
  <2> QED  BY <2>1 DEF Place, ToSet
<1>4. ASSUME NEW n, NEW b, NEW i, Place(n, b, i)
      PROVE  n \in Nodes /\ b \in Nat /\ i \in Nat /\ i >= 1
  <2>1. b \in Buckets /\ i \in 1 .. Len(xh_chain[b]) /\ xh_chain[b][i] = n
    BY <1>2, <1>4 DEF Place
  <2>2. n \in Nodes
    BY <1>1, <2>1, ElementOfSeq
  <2> QED  BY <1>2, <2>1, <2>2 DEF Buckets
<1> QED  BY <1>2, <1>3, <1>4

(* The order of the nodes is that of their places.                         *)
LEMMA BeforeIs ==
  ASSUME NEW n, NEW m
  PROVE  Before(n, m) <=> \E b, c, i, j : /\ Place(n, b, i) /\ Place(m, c, j)
                                          /\ b < c \/ (b = c /\ i < j)
  BY DEF Before, Place

(* It is a strict order, and it is total.                                  *)
LEMMA NodesInOrder ==
  ASSUME XHashType, ChainsApart
  PROVE  /\ \A n, m \in Used : n = m \/ Before(n, m) \/ Before(m, n)
         /\ \A n, m : Before(n, m) => n # m /\ ~ Before(m, n) /\ n \in Used /\ m \in Used
         /\ \A n, m, l : Before(n, m) /\ Before(m, l) => Before(n, l)
<1>1. ASSUME NEW n \in Used, NEW m \in Used PROVE n = m \/ Before(n, m) \/ Before(m, n)
  <2>1. PICK b, i : Place(n, b, i)
    BY PlacesOf
  <2>2. PICK c, j : Place(m, c, j)
    BY PlacesOf
  <2>3. b \in Nat /\ i \in Nat /\ c \in Nat /\ j \in Nat
    BY <2>1, <2>2, PlacesOf
  <2>4. CASE b = c /\ i = j
    BY <2>1, <2>2, <2>4 DEF Place
  <2>5. CASE b < c \/ (b = c /\ i < j)
    BY <2>1, <2>2, <2>5, BeforeIs
  <2>6. CASE c < b \/ (c = b /\ j < i)
    BY <2>1, <2>2, <2>6, BeforeIs
  <2> QED  BY <2>3, <2>4, <2>5, <2>6
<1>2. ASSUME NEW n, NEW m, Before(n, m)
      PROVE  n # m /\ ~ Before(m, n) /\ n \in Used /\ m \in Used
  <2>1. PICK b, c, i, j : /\ Place(n, b, i) /\ Place(m, c, j)
                          /\ b < c \/ (b = c /\ i < j)
    BY <1>2, BeforeIs
  <2>2. b \in Nat /\ i \in Nat /\ c \in Nat /\ j \in Nat /\ n \in Used /\ m \in Used
    BY <2>1, PlacesOf
  <2>3. n # m
    <3>1. n = m => b = c /\ i = j
      BY <2>1 DEF ChainsApart
    <3> QED  BY <2>1, <2>2, <3>1
  <2>4. ~ Before(m, n)
    <3> SUFFICES ASSUME Before(m, n) PROVE FALSE
      OBVIOUS
    <3>1. PICK d, e, k, l : /\ Place(m, d, k) /\ Place(n, e, l)
                            /\ d < e \/ (d = e /\ k < l)
      BY BeforeIs
    <3>2. d = c /\ k = j /\ e = b /\ l = i
      BY <2>1, <3>1 DEF ChainsApart
    <3> QED  BY <2>1, <2>2, <3>1, <3>2
  <2> QED  BY <2>2, <2>3, <2>4
<1>3. ASSUME NEW n, NEW m, NEW l, Before(n, m), Before(m, l) PROVE Before(n, l)
  <2>1. PICK b, c, i, j : /\ Place(n, b, i) /\ Place(m, c, j)
                          /\ b < c \/ (b = c /\ i < j)
    BY <1>3, BeforeIs
  <2>2. PICK d, e, k, o : /\ Place(m, d, k) /\ Place(l, e, o)
                          /\ d < e \/ (d = e /\ k < o)
    BY <1>3, BeforeIs
  <2>3. d = c /\ k = j
    BY <2>1, <2>2 DEF ChainsApart
  <2>4. b \in Nat /\ i \in Nat /\ c \in Nat /\ j \in Nat /\ e \in Nat /\ o \in Nat
    BY <2>1, <2>2, PlacesOf
  <2>5. b < e \/ (b = e /\ i < o)
    BY <2>1, <2>2, <2>3, <2>4
  <2> QED  BY <2>1, <2>2, <2>5, BeforeIs
<1> QED  BY <1>1, <1>2, <1>3

(* Among some nodes one comes first.                                       *)
LEMMA FirstNode ==
  ASSUME XHashType, NEW H, H \subseteq Used, H # {}
  PROVE  \E m \in H : \A other \in H : other = m \/ Before(m, other)
<1> DEFINE bs == {b \in Buckets : \E i \in DOMAIN xh_chain[b] : xh_chain[b][i] \in H}
<1>1. \A n \in H : \E b, i : Place(n, b, i)
  BY PlacesOf
<1>2. bs \subseteq Nat /\ bs # {}
  BY <1>1 DEF Place, Buckets
<1>3. PICK b \in bs : \A c \in bs : b <= c
  <2> HIDE DEF bs
  <2> QED  BY <1>2, SmallestOf
<1> DEFINE is == {i \in DOMAIN xh_chain[b] : xh_chain[b][i] \in H}
<1>4. is \subseteq Nat /\ is # {}
  <2>1. \A i \in is : Place(xh_chain[b][i], b, i)
    BY DEF Place
  <2> QED  BY <2>1, PlacesOf
<1>5. PICK i \in is : \A j \in is : i <= j
  <2> HIDE DEF is
  <2> QED  BY <1>4, SmallestOf
<1> DEFINE m == xh_chain[b][i]
<1>6. m \in H /\ Place(m, b, i)
  BY DEF Place
<1>7. ASSUME NEW other \in H PROVE other = m \/ Before(m, other)
  <2>1. PICK c, j : Place(other, c, j)
    BY <1>1
  <2>2. c \in bs /\ (c = b => j \in is)
    BY <2>1 DEF Place
  <2>3. b \in Nat /\ i \in Nat /\ c \in Nat /\ j \in Nat
    BY <1>6, <2>1, PlacesOf
  <2>4. b <= c /\ (c = b => i <= j)
    BY <1>3, <1>5, <2>2
  <2>5. CASE c = b /\ j = i
    BY <2>1, <2>5 DEF Place
  <2>6. CASE b < c \/ (b = c /\ i < j)
    BY <1>6, <2>1, <2>6, BeforeIs
  <2> QED  BY <2>3, <2>4, <2>5, <2>6
<1> QED  BY <1>6, <1>7

(* The first of a chain that is among some nodes.                          *)
LEMMA FirstInIs ==
  ASSUME NEW S, NEW seq \in Seq(S), NEW nodes, NEW n, n = FirstIn(seq, nodes)
  PROVE  \/ n = NULL /\ \A i \in DOMAIN seq : seq[i] \notin nodes
         \/ n \in nodes /\ \E i \in DOMAIN seq : seq[i] = n
<1> DEFINE hits == {i \in DOMAIN seq : seq[i] \in nodes}
<1>1. CASE hits = {}
  BY <1>1 DEF FirstIn
<1>2. CASE hits # {}
  <2>1. hits \subseteq Nat
    BY LenProperties
  <2>2. PICK i \in hits : \A j \in hits : i <= j
    <3> HIDE DEF hits
    <3> QED  BY <1>2, <2>1, SmallestOf
  <2> DEFINE at == CHOOSE k \in hits : \A j \in hits : k <= j
  <2>3. at \in hits
    BY <2>2
  <2>4. n = seq[at]
    BY <1>2 DEF FirstIn
  <2> QED  BY <2>3, <2>4
<1> QED  BY <1>1, <1>2

(* What a look for a key finds.                                            *)
LEMMA NodeGetIs ==
  ASSUME XHashType, KeysInPlace, NEW k \in Keys, NEW n, n = _xhash_node_get(k)
  PROVE  /\ n = NULL => \A m \in Live : xh_key[m] # k
         /\ n # NULL => n \in Live /\ xh_key[n] = k
<1> DEFINE b == Bucket(k)
           nodes == {m \in Nodes : xh_key[m] = k}
<1>1. b \in Buckets
  <2>1. _xhasher[k] \in Nat /\ prime \in Nat \ {0}
    BY XHashAssumption
  <2> QED  BY <2>1 DEF Bucket, Buckets
<1>2. xh_chain[b] \in Seq(Nodes)
  BY <1>1 DEF XHashType
<1>3. \/ n = NULL /\ \A i \in DOMAIN xh_chain[b] : xh_chain[b][i] \notin nodes
      \/ n \in nodes /\ \E i \in DOMAIN xh_chain[b] : xh_chain[b][i] = n
  <2>1. n = FirstIn(xh_chain[b], nodes)
    BY DEF _xhash_node_get
  <2> HIDE DEF b, nodes
  <2> QED  BY <1>2, <2>1, FirstInIs
<1>4. k # NULL /\ NULL \notin Nodes
  BY XHashAssumption DEF Nodes
<1>5. ASSUME n = NULL, NEW m \in Live, xh_key[m] = k PROVE FALSE
  <2>1. PICK i : Place(m, b, i)
    BY <1>5 DEF KeysInPlace
  <2>2. m \in nodes
    BY <1>5, <2>1, PlacesOf
  <2>3. i \in DOMAIN xh_chain[b] /\ xh_chain[b][i] = m
    BY <2>1 DEF Place
  <2> QED  BY <1>3, <1>4, <1>5, <2>2, <2>3
<1>6. ASSUME n # NULL PROVE n \in Live /\ xh_key[n] = k
  <2>1. n \in nodes /\ \E i : Place(n, b, i)
    BY <1>1, <1>3, <1>6 DEF Place
  <2> QED  BY <1>4, <2>1, PlacesOf DEF Live
<1> QED  BY <1>5, <1>6

(* xhash_get finds the value behind each key that is in.                   *)
LEMMA GetIs ==
  ASSUME XHashType, KeysInPlace
  PROVE  /\ \A n \in Live : xh_key[n] \in Keys /\ xhash_get(xh_key[n]) = xh_val[n]
         /\ \A k \in Keys : (\A n \in Live : xh_key[n] # k) => xhash_get(k) = NULL
<1>1. ASSUME NEW n \in Live PROVE xh_key[n] \in Keys /\ xhash_get(xh_key[n]) = xh_val[n]
  <2>1. n \in Nodes /\ xh_key[n] \in Keys
    BY PlacesOf DEF Live, XHashType
  <2>2. PICK m : m = _xhash_node_get(xh_key[n])
    OBVIOUS
  <2>3. /\ m = NULL => \A l \in Live : xh_key[l] # xh_key[n]
        /\ m # NULL => m \in Live /\ xh_key[m] = xh_key[n]
    BY <2>1, <2>2, NodeGetIs
  <2>4. m # NULL /\ m = n
    BY <2>3 DEF KeysInPlace
  <2> QED  BY <2>1, <2>2, <2>4 DEF xhash_get
<1>2. ASSUME NEW k \in Keys, \A n \in Live : xh_key[n] # k PROVE xhash_get(k) = NULL
  <2>1. PICK m : m = _xhash_node_get(k)
    OBVIOUS
  <2>2. m = NULL
    BY <1>2, <2>1, NodeGetIs
  <2> QED  BY <2>1, <2>2 DEF xhash_get
<1> QED  BY <1>1, <1>2

-----------------------------------------------------------------------------
(* An iteration at n, or at its beginning, goes to the first node behind   *)
(* with a key and a value.                                                 *)
LEMMA NextNodeIs ==
  ASSUME XHashType, NEW n, NEW key, NEW val, NEW m, m = NextNode(n, key, val)
  PROVE  \/ m = NULL /\ \A l \in After(n) : key[l] = NULL \/ val[l] = NULL
         \/ /\ m \in After(n) /\ key[m] # NULL /\ val[m] # NULL /\ m # NULL
            /\ \A l \in After(n) : key[l] # NULL /\ val[l] # NULL => l = m \/ Before(m, l)
<1> DEFINE hits == {l \in After(n) : key[l] # NULL /\ val[l] # NULL}
<1>1. CASE hits = {}
  BY <1>1 DEF NextNode
<1>2. CASE hits # {}
  <2>1. hits \subseteq Used
    BY DEF After
  <2>2. \E l \in hits : \A other \in hits : other = l \/ Before(l, other)
    <3> HIDE DEF hits
    <3> QED  BY <1>2, <2>1, FirstNode
  <2>3. m = CHOOSE l \in hits : \A other \in hits : other = l \/ Before(l, other)
    BY <1>2 DEF NextNode
  <2>4. m \in hits /\ \A other \in hits : other = m \/ Before(m, other)
    <3> HIDE DEF hits
    <3> QED  BY <2>2, <2>3
  <2>5. m # NULL
    BY <2>1, <2>4, PlacesOf, XHashAssumption DEF Nodes
  <2> QED  BY <2>4, <2>5
<1> QED  BY <1>1, <1>2

(* How often a key was visited.                                            *)
Once(k, visited) ==
  \E i \in DOMAIN visited : \A j \in DOMAIN visited : visited[j] = k <=> j = i

Never(k, visited) == \A i \in DOMAIN visited : visited[i] # k

(* The nodes that an iteration at n has behind it, n included.             *)
Passed(n) == {m \in Used : m = n \/ Before(m, n)}

(* Of the keys that stay those in the nodes passed were visited, and once. *)
VisitedSoFar(passed, key, visited, stayed) ==
  \A n \in Used : key[n] \in stayed =>
    IF n \in passed THEN Once(key[n], visited) ELSE Never(key[n], visited)

(* The keys that stay have a node and a value, and no key two nodes.       *)
HaveValues(key, val, stayed) ==
  /\ stayed \subseteq Keys
  /\ \A k \in stayed : \E n \in Used : key[n] = k
  /\ \A n \in Used : key[n] \in stayed => val[n] # NULL
  /\ \A n, m \in Used : key[n] # NULL /\ key[n] = key[m] => n = m

(* A key is visited: it once more, and the others as often as before.      *)
LEMMA AppendOne ==
  ASSUME NEW visited \in Seq(Keys), NEW k \in Keys, NEW v, v = Append(visited, k)
  PROVE  /\ v \in Seq(Keys)
         /\ Never(k, visited) => Once(k, v)
         /\ \A l : l # k /\ Once(l, visited) => Once(l, v)
         /\ \A l : l # k /\ Never(l, visited) => Never(l, v)
<1> DEFINE n == Len(visited)
<1>1. n \in Nat /\ DOMAIN visited = 1 .. n
  BY LenProperties
<1>2. /\ v \in Seq(Keys) /\ Len(v) = n + 1 /\ v[n + 1] = k
      /\ \A i \in 1 .. n : v[i] = visited[i]
  BY AppendProperties
<1>3. DOMAIN v = 1 .. n + 1
  BY <1>2, LenProperties
<1> HIDE DEF n
<1>4. \A i \in 1 .. n + 1 : i \in 1 .. n \/ i = n + 1
  BY <1>1
<1>5. n + 1 \in 1 .. n + 1 /\ \A i \in 1 .. n : i \in 1 .. n + 1 /\ i # n + 1
  BY <1>1
<1>6. ASSUME Never(k, visited) PROVE Once(k, v)
  <2>1. \A j \in 1 .. n + 1 : v[j] = k <=> j = n + 1
    BY <1>1, <1>2, <1>4, <1>5, <1>6 DEF Never
  <2> QED  BY <1>3, <1>5, <2>1 DEF Once
<1>7. ASSUME NEW l, l # k, Once(l, visited) PROVE Once(l, v)
  <2>1. \E i \in DOMAIN visited : \A j \in DOMAIN visited : visited[j] = l <=> j = i
    BY <1>7 DEF Once
  <2>2. PICK i \in DOMAIN visited : \A j \in DOMAIN visited : visited[j] = l <=> j = i
    BY <2>1
  <2>3. \A j \in 1 .. n + 1 : v[j] = l <=> j = i
    BY <1>1, <1>2, <1>4, <1>5, <1>7, <2>2
  <2> QED  BY <1>1, <1>3, <1>5, <2>2, <2>3 DEF Once
<1>8. ASSUME NEW l, l # k, Never(l, visited) PROVE Never(l, v)
  BY <1>1, <1>2, <1>3, <1>4, <1>8 DEF Never
<1> QED  BY <1>2, <1>6, <1>7, <1>8

(* The iteration moves on from n, or begins, and stops at m or ends.       *)
LEMMA IterationMoves ==
  ASSUME XHashType, ChainsApart,
         NEW n \in Used \cup {NULL}, NEW key \in [Nodes -> Keys \cup {NULL}], NEW val,
         NEW visited \in Seq(Keys), NEW stayed,
         HaveValues(key, val, stayed),
         VisitedSoFar(IF n = NULL THEN {} ELSE Passed(n), key, visited, stayed),
         NEW m, m = NextNode(n, key, val),
         NEW v, v = IF m = NULL THEN visited ELSE Append(visited, key[m])
  PROVE  /\ v \in Seq(Keys)
         /\ m # NULL => m \in Used /\ key[m] # NULL
         /\ VisitedSoFar(IF m = NULL THEN Used ELSE Passed(m), key, v, stayed)
<1> DEFINE before == IF n = NULL THEN {} ELSE Passed(n)
<1>1. NULL \notin Used /\ NULL \notin Keys /\ Used \subseteq Nodes
  BY PlacesOf, XHashAssumption DEF Nodes
<1>2. After(n) = Used \ before
  BY <1>1, NodesInOrder DEF After, Passed
<1>3. \/ m = NULL /\ \A l \in After(n) : key[l] = NULL \/ val[l] = NULL
      \/ /\ m \in After(n) /\ key[m] # NULL /\ val[m] # NULL /\ m # NULL
         /\ \A l \in After(n) : key[l] # NULL /\ val[l] # NULL => l = m \/ Before(m, l)
  BY NextNodeIs
<1>4. \A l \in Used : key[l] \in stayed => key[l] # NULL /\ val[l] # NULL /\ key[l] \in Keys
  BY <1>1 DEF HaveValues
<1>5. VisitedSoFar(before, key, visited, stayed)
  OBVIOUS
<1> HIDE DEF before
<1>6. CASE m = NULL
  <2>1. \A l \in Used : key[l] \in stayed => l \in before
    BY <1>2, <1>3, <1>4, <1>6
  <2> QED  BY <1>5, <1>6, <2>1 DEF VisitedSoFar
<1>7. CASE m # NULL
  <2>1. m \in Used /\ m \notin before /\ key[m] # NULL /\ key[m] \in Keys /\ m \in Nodes
    BY <1>1, <1>2, <1>3, <1>7
  <2>2. /\ v \in Seq(Keys)
        /\ Never(key[m], visited) => Once(key[m], v)
        /\ \A l : l # key[m] /\ Once(l, visited) => Once(l, v)
        /\ \A l : l # key[m] /\ Never(l, visited) => Never(l, v)
    BY <1>7, <2>1, AppendOne
  <2>3. ASSUME NEW l \in Used, key[l] \in stayed
        PROVE  IF l \in Passed(m) THEN Once(key[l], v) ELSE Never(key[l], v)
    <3>1. CASE l = m
      <4>1. Once(key[l], v)
        BY <1>5, <2>1, <2>2, <2>3, <3>1 DEF VisitedSoFar
      <4> QED  BY <3>1, <4>1 DEF Passed
    <3>2. CASE l # m
      <4>1. key[l] # key[m]
        BY <2>1, <3>2 DEF HaveValues
      <4>2. l \in before <=> l \in Passed(m)
        <5>1. CASE l \in before
          <6>1. n # NULL /\ (l = n \/ Before(l, n))
            BY <5>1 DEF before, Passed
          <6>2. Before(n, m)
            BY <1>3, <1>7, <6>1 DEF After
          <6>3. Before(l, m)
            BY <6>1, <6>2, NodesInOrder
          <6> QED  BY <5>1, <6>3 DEF Passed
        <5>2. CASE l \notin before
          <6>1. l \in After(n)
            BY <1>2, <5>2
          <6>2. Before(m, l)
            BY <1>3, <1>4, <1>7, <2>3, <3>2, <6>1
          <6>3. ~ Before(l, m)
            BY <6>2, NodesInOrder
          <6> QED  BY <3>2, <5>2, <6>3 DEF Passed
        <5> QED  BY <5>1, <5>2
      <4>3. IF l \in before THEN Once(key[l], visited) ELSE Never(key[l], visited)
        BY <1>5, <2>3 DEF VisitedSoFar
      <4> QED  BY <2>2, <4>1, <4>2, <4>3
    <3> QED  BY <3>1, <3>2
  <2> QED  BY <1>7, <2>1, <2>2, <2>3 DEF VisitedSoFar
<1> QED  BY <1>6, <1>7

(* Where the iteration is: at its end it has passed all nodes.             *)
PassedByIt == IF iter_node = NULL THEN Used ELSE Passed(iter_node)

(* The inductive invariant of xhash.c.                                     *)
XHashInv ==
  /\ XHashType /\ ChainsApart /\ KeysInPlace
  /\ \A b \in Buckets : Len(xh_chain[b]) >= 1
  /\ xh_count = Cardinality(Live)
  /\ iter_node # NULL => iter_node \in Used /\ xh_key[iter_node] # NULL
  /\ HaveValues(xh_key, xh_val, xh_stayed)
  /\ VisitedSoFar(PassedByIt, xh_key, xh_visited, xh_stayed)

(* The table has finitely many keys.                                       *)
LEMMA LiveIsFinite == XHashType => IsFiniteSet(Live) /\ Cardinality(Live) \in Nat
<1> SUFFICES ASSUME XHashType PROVE IsFiniteSet(Live) /\ Cardinality(Live) \in Nat
  OBVIOUS
<1>1. IsFiniteSet(Nodes)
  BY XHashAssumption, FS_Interval DEF Nodes
<1>2. Live \in SUBSET Nodes
  BY PlacesOf DEF Live
<1> QED  BY <1>1, <1>2, FS_Subset, FS_CardinalityType

(* A new table is empty.                                                   *)
LEMMA XHashInvInit == XHashInit => XHashInv
<1> SUFFICES ASSUME XHashInit PROVE XHashInv
  OBVIOUS
<1>1. Buckets \subseteq Nodes
  BY XHashAssumption DEF Buckets, Nodes
<1>2. \A b \in Buckets : xh_chain[b] \in Seq(Nodes) /\ Len(xh_chain[b]) = 1
                         /\ DOMAIN xh_chain[b] = {1} /\ xh_chain[b][1] = b
  BY <1>1 DEF XHashInit
<1>3. XHashType
  <2>1. xh_chain \in [Buckets -> Seq(Nodes)]
    BY <1>1, <1>2 DEF XHashInit
  <2>2. xh_visited \in Seq(Keys)
    BY EmptySeq DEF XHashInit
  <2>3. xh_key \in [Nodes -> Keys \cup {NULL}] /\ xh_val \in [Nodes -> Vals \cup {NULL}]
    BY DEF XHashInit
  <2>5. xh_count \in Int /\ xh_dirty \in BOOLEAN
    <3>1. xh_count \in Int
      BY DEF XHashInit
    <3>2. xh_dirty \in BOOLEAN
      BY Zenon DEF XHashInit
    <3> QED  BY <3>1, <3>2
  <2>4. iter_node \in Nodes \cup {NULL} /\ xh_stayed \subseteq Keys
    BY DEF XHashInit
  <2> QED  BY <2>1, <2>2, <2>3, <2>4, <2>5 DEF XHashType
<1>4. Used = Buckets
  BY <1>2 DEF Used, ToSet
<1>5. Live = {}
  BY <1>1, <1>4 DEF Live, XHashInit
<1>6. ChainsApart
  BY <1>2 DEF ChainsApart, Place
<1>7. KeysInPlace
  BY <1>5 DEF KeysInPlace
<1>8. xh_count = Cardinality(Live)
  BY <1>5, FS_EmptySet DEF XHashInit
<1>9. HaveValues(xh_key, xh_val, xh_stayed) /\ VisitedSoFar(PassedByIt, xh_key, xh_visited, xh_stayed)
  BY <1>1, <1>4 DEF HaveValues, VisitedSoFar, XHashInit
<1>10. iter_node = NULL /\ \A b \in Buckets : Len(xh_chain[b]) >= 1
  BY <1>2 DEF XHashInit
<1> QED  BY <1>3, <1>6, <1>7, <1>8, <1>9, <1>10 DEF XHashInv

-----------------------------------------------------------------------------
(* With the chains the places and their order stay.                        *)
LEMMA ChainsStay ==
  ASSUME xh_chain' = xh_chain
  PROVE  /\ Used' = Used
         /\ \A n, b, i : Place(n, b, i)' <=> Place(n, b, i)
         /\ \A n, m : Before(n, m)' <=> Before(n, m)
         /\ \A n : Passed(n)' = Passed(n)
         /\ ChainsApart => ChainsApart'
<1>1. Used' = Used
  BY DEF Used
<1>2. \A n, b, i : Place(n, b, i)' <=> Place(n, b, i)
  BY DEF Place
<1>3. \A n, m : Before(n, m)' <=> Before(n, m)
  BY DEF Before
<1> QED  BY <1>1, <1>2, <1>3 DEF Passed, ChainsApart

(* A key that was not in gets a node of its bucket that was free or new.   *)
LEMMA KeyAdded ==
  ASSUME XHashInv, NEW k \in Keys, NEW v \in Vals, NEW e \in Nodes,
         \A n \in Live : xh_key[n] # k, e \notin Live,
         Used' = Used \cup {e},
         \A n, m \in Used : Before(n, m)' <=> Before(n, m),
         \A n \in Used : \A b : (\E i : Place(n, b, i)) => \E i : Place(n, b, i)',
         \E i : Place(e, Bucket(k), i)',
         ChainsApart', xh_chain' \in [Buckets -> Seq(Nodes)],
         \A b \in Buckets : Len(xh_chain'[b]) >= 1,
         xh_key' = [xh_key EXCEPT ![e] = k], xh_val' = [xh_val EXCEPT ![e] = v],
         xh_count' = xh_count + 1, xh_dirty' = TRUE,
         xh_stayed' = IF v = NULL THEN xh_stayed \ {k} ELSE xh_stayed,
         UNCHANGED <<iter_node, xh_visited>>
  PROVE  XHashInv' /\ Live' = Live \cup {e}
<1> USE DEF XHashInv
<1>1. k # NULL /\ NULL \notin Nodes /\ Used \subseteq Nodes
  BY XHashAssumption, PlacesOf DEF Nodes
<1>2. k \notin xh_stayed /\ xh_stayed' = xh_stayed
  BY <1>1 DEF HaveValues, Live
<1>3. XHashType'
  BY <1>2 DEF XHashType
<1>4. xh_key'[e] = k /\ xh_val'[e] = v
      /\ \A n \in Nodes : n # e => xh_key'[n] = xh_key[n] /\ xh_val'[n] = xh_val[n]
  BY DEF XHashType
<1>5. Live' = Live \cup {e}
  BY <1>1, <1>4 DEF Live
<1>6. xh_count' = Cardinality(Live')
  BY <1>5, LiveIsFinite, FS_AddElement
<1>7. KeysInPlace'
  <2>1. \A n \in Live : n \in Used /\ n \in Nodes /\ n # e
    BY <1>1 DEF Live
  <2>2. \A n, m \in Live' : xh_key'[n] = xh_key'[m] => n = m
    BY <1>4, <1>5, <2>1 DEF KeysInPlace
  <2>3. ASSUME NEW n \in Live' PROVE (\E i : Place(n, Bucket(xh_key[n]), i))'
    <3>1. PICK b : b = Bucket(xh_key'[n])
      OBVIOUS
    <3>2. CASE n = e
      <4>1. b = Bucket(k)
        BY <1>4, <3>1, <3>2
      <4>2. \E i : Place(n, b, i)'
        BY <3>2, <4>1
      <4> QED  BY <3>1, <4>2 DEF Place, Bucket
    <3>3. CASE n # e
      <4>1. n \in Live /\ n \in Used /\ b = Bucket(xh_key[n])
        BY <1>4, <1>5, <2>1, <3>1, <3>3
      <4>2. \E i : Place(n, b, i)
        BY <4>1 DEF KeysInPlace
      <4>3. \E i : Place(n, b, i)'
        BY <4>1, <4>2
      <4> QED  BY <3>1, <4>3 DEF Place, Bucket
    <3> QED  BY <3>2, <3>3
  <2> QED  BY <2>2, <2>3 DEF KeysInPlace
<1>8. iter_node' # NULL => iter_node' \in Used' /\ xh_key'[iter_node'] # NULL
  BY <1>1, <1>4
<1>9. HaveValues(xh_key, xh_val, xh_stayed)'
  <2>1. \A l \in xh_stayed : \E n \in Used : xh_key'[n] = l
    <3>1. \A l \in xh_stayed : \E n \in Used : xh_key[n] = l /\ n # e
      BY XHashAssumption DEF HaveValues, Live
    <3> QED  BY <1>1, <1>4, <3>1
  <2>2. \A n \in Used : xh_key'[n] \in xh_stayed => xh_val'[n] # NULL
    BY <1>1, <1>2, <1>4 DEF HaveValues
  <2>3. \A n \in Used' : xh_key'[n] \in xh_stayed => xh_val'[n] # NULL
    BY <1>2, <1>4, <2>2
  <2>4. \A n, m \in Used' : xh_key'[n] # NULL /\ xh_key'[n] = xh_key'[m] => n = m
    <3>1. \A n \in Used' : xh_key'[n] # NULL => n \in Live'
      BY DEF Live
    <3> QED  BY <1>7, <3>1 DEF KeysInPlace
  <2>5. xh_stayed \subseteq Keys
    BY DEF HaveValues
  <2>6. \A l \in xh_stayed : \E n \in Used' : xh_key'[n] = l
    BY <2>1
  <2> QED  BY <1>2, <2>3, <2>4, <2>5, <2>6 DEF HaveValues
<1>10. VisitedSoFar(PassedByIt, xh_key, xh_visited, xh_stayed)'
  <2>1. \A n \in Used : n \in PassedByIt' <=> n \in PassedByIt
    BY DEF PassedByIt, Passed
  <2>2. \A n \in Used' : xh_key'[n] \in xh_stayed => n \in Used /\ n # e /\ xh_key'[n] = xh_key[n]
    BY <1>1, <1>2, <1>4
  <2> QED  BY <1>2, <2>1, <2>2 DEF VisitedSoFar
<1> QED  BY <1>3, <1>5, <1>6, <1>7, <1>8, <1>9, <1>10 DEF HaveValues

(* The sequence s with an element behind its first.                        *)
LEMMA SecondIs ==
  ASSUME NEW S, NEW s \in Seq(S), Len(s) >= 1, NEW e \in S,
         NEW r, r = InsertAt(s, 2, e)
  PROVE  /\ r \in Seq(S) /\ Len(r) = Len(s) + 1
         /\ r[1] = s[1] /\ r[2] = e /\ \A i \in 2 .. Len(s) : r[i + 1] = s[i]
<1> DEFINE n == Len(s)
           a == SubSeq(s, 1, 2 - 1)
           b == <<e>>
           c == SubSeq(s, 2, n)
<1>1. n \in Nat /\ n >= 1 /\ 2 - 1 = 1 /\ 1 \in 0 .. n /\ 1 \in 1 .. 1
  BY LenProperties
<1>2. a \in Seq(S) /\ Len(a) = 1 /\ a[1] = s[1]
  BY <1>1, PrefixIs
<1>3. b \in Seq(S) /\ Len(b) = 1 /\ b[1] = e
  OBVIOUS
<1>4. /\ c \in Seq(S) /\ Len(c) = IF 2 <= n THEN n - 2 + 1 ELSE 0
      /\ \A i \in 1 .. n - 2 + 1 : c[i] = s[2 + i - 1]
  <2>1. \A i \in 2 .. n : i \in 1 .. n
    BY <1>1
  <2>2. \A i \in 2 .. n : s[i] \in S
    BY <2>1, ElementOfSeq
  <2> QED  BY <1>1, <2>2, SubSeqProperties
<1>5. r = (a \o b) \o c
  BY DEF InsertAt
<1> HIDE DEF n, a, b, c
<1>6. Len(c) = n - 1 /\ \A i \in 1 .. n - 1 : c[i] = s[i + 1]
  BY <1>1, <1>4
<1> DEFINE d == a \o b
<1>7. d \in Seq(S) /\ Len(d) = 2 /\ d[1] = s[1] /\ d[2] = e
  <2>1. /\ d \in Seq(S) /\ Len(d) = Len(a) + Len(b)
        /\ \A i \in 1 .. Len(a) + Len(b) : d[i] = IF i <= Len(a) THEN a[i] ELSE b[i - Len(a)]
    BY <1>2, <1>3, ConcatProperties
  <2> HIDE DEF d
  <2> QED  BY <1>2, <1>3, <2>1
<1> HIDE DEF d
<1>8. /\ r \in Seq(S) /\ Len(r) = 2 + (n - 1)
      /\ \A i \in 1 .. 2 + (n - 1) : r[i] = IF i <= 2 THEN d[i] ELSE c[i - 2]
  <2>1. /\ d \o c \in Seq(S) /\ Len(d \o c) = Len(d) + Len(c)
        /\ \A i \in 1 .. Len(d) + Len(c) : (d \o c)[i] = IF i <= Len(d) THEN d[i] ELSE c[i - Len(d)]
    BY <1>4, <1>7, ConcatProperties
  <2>2. r = d \o c
    BY <1>5 DEF d
  <2> QED  BY <1>6, <1>7, <2>1, <2>2
<1>9. r[1] = s[1] /\ r[2] = e
  BY <1>1, <1>7, <1>8
<1>10. ASSUME NEW i \in 2 .. n PROVE r[i + 1] = s[i]
  <2>1. i + 1 \in 1 .. 2 + (n - 1) /\ ~ (i + 1 <= 2) /\ (i + 1) - 2 \in 1 .. n - 1
        /\ ((i + 1) - 2) + 1 = i
    BY <1>1
  <2>2. r[i + 1] = c[(i + 1) - 2]
    BY <1>8, <2>1
  <2> QED  BY <1>6, <2>1, <2>2
<1> QED  BY <1>1, <1>8, <1>9, <1>10 DEF n

(* Where the i-th node of bucket c is when bucket b got a new one.         *)
Shifted(b, c, i) == IF c = b /\ i >= 2 THEN i + 1 ELSE i

(* A new node is put behind the first of its bucket.                       *)
LEMMA NodeAdded ==
  ASSUME XHashType, ChainsApart, \A c \in Buckets : Len(xh_chain[c]) >= 1,
         NEW b \in Buckets, NEW e \in Nodes, e \notin Used,
         xh_chain' = [xh_chain EXCEPT ![b] = InsertAt(@, 2, e)]
  PROVE  /\ Used' = Used \cup {e}
         /\ \A n, m \in Used : Before(n, m)' <=> Before(n, m)
         /\ \A n \in Used : \A c : (\E i : Place(n, c, i)) => \E i : Place(n, c, i)'
         /\ \E i : Place(e, b, i)'
         /\ ChainsApart' /\ xh_chain' \in [Buckets -> Seq(Nodes)]
         /\ \A c \in Buckets : Len(xh_chain'[c]) >= 1
<1> DEFINE s == xh_chain[b]
           t == InsertAt(s, 2, e)
           len == Len(s)
<1>1. s \in Seq(Nodes) /\ len >= 1 /\ len \in Nat /\ DOMAIN s = 1 .. len
  BY LenProperties DEF XHashType
<1>2. /\ t \in Seq(Nodes) /\ Len(t) = len + 1
      /\ t[1] = s[1] /\ t[2] = e /\ \A i \in 2 .. len : t[i + 1] = s[i]
  <2>1. s \in Seq(Nodes) /\ Len(s) >= 1
    BY <1>1
  <2>2. PICK q, r : q = s /\ r = InsertAt(q, 2, e)
    OBVIOUS
  <2>3. q \in Seq(Nodes) /\ Len(q) >= 1
    BY <2>1, <2>2
  <2>4. /\ r \in Seq(Nodes) /\ Len(r) = Len(q) + 1
        /\ r[1] = q[1] /\ r[2] = e /\ \A i \in 2 .. Len(q) : r[i + 1] = q[i]
    <3> HIDE DEF s, t, len
    <3>1. r = InsertAt(q, 2, e)
      BY <2>2
    <3> QED  BY <2>3, <3>1, SecondIs
  <2> QED  BY <2>2, <2>4
<1>3. DOMAIN t = 1 .. len + 1
  BY <1>2, LenProperties
<1>4. xh_chain'[b] = t /\ \A c \in Buckets : c # b => xh_chain'[c] = xh_chain[c]
  BY DEF XHashType
<1>5. xh_chain' \in [Buckets -> Seq(Nodes)]
  BY <1>2 DEF XHashType
<1>6. \A n, c, i : Place(n, c, i) => c \in Buckets /\ i \in Nat /\ i >= 1 /\ n \in Used
  BY PlacesOf DEF Place
<1> HIDE DEF t, len
<1>7. \A c \in Buckets : Len(xh_chain'[c]) >= 1
  BY <1>1, <1>2, <1>4
<1>8. Place(e, b, 2)'
  <2>1. 2 \in 1 .. len + 1
    BY <1>1
  <2> QED  BY <1>2, <1>3, <1>4, <2>1 DEF Place
<1>9. ASSUME NEW n, NEW c, NEW i, Place(n, c, i), NEW j, j = Shifted(b, c, i)
      PROVE  Place(n, c, j)'
  <2>1. c \in Buckets /\ i \in DOMAIN xh_chain[c] /\ xh_chain[c][i] = n
    BY <1>9 DEF Place
  <2>2. CASE c # b
    BY <1>4, <1>9, <2>1, <2>2 DEF Place, Shifted
  <2>3. CASE c = b
    <3>1. i \in 1 .. len /\ s[i] = n
      BY <1>1, <2>1, <2>3
    <3>2. CASE i >= 2
      <4>1. j = i + 1 /\ i + 1 \in 1 .. len + 1 /\ i \in 2 .. len
        BY <1>1, <1>9, <2>3, <3>1, <3>2 DEF Shifted
      <4>2. t[j] = n
        BY <1>2, <3>1, <4>1
      <4> QED  BY <1>3, <1>4, <2>1, <2>3, <4>1, <4>2 DEF Place
    <3>3. CASE ~ (i >= 2)
      <4>1. j = 1 /\ i = 1 /\ 1 \in 1 .. len + 1
        BY <1>1, <1>9, <3>1, <3>3 DEF Shifted
      <4>2. t[j] = n
        BY <1>2, <3>1, <4>1
      <4> QED  BY <1>3, <1>4, <2>1, <2>3, <4>1, <4>2 DEF Place
    <3> QED  BY <3>2, <3>3
  <2> QED  BY <2>2, <2>3
<1>10. ASSUME NEW n, NEW c, NEW j, Place(n, c, j)'
       PROVE  \/ n = e /\ c = b /\ j = 2
              \/ \E i : Place(n, c, i) /\ j = Shifted(b, c, i)
  <2>1. c \in Buckets /\ j \in DOMAIN xh_chain'[c] /\ xh_chain'[c][j] = n
    BY <1>10 DEF Place
  <2>2. CASE c # b
    <3>1. Place(n, c, j) /\ j = Shifted(b, c, j)
      BY <1>4, <2>1, <2>2 DEF Place, Shifted
    <3> QED  BY <3>1
  <2>3. CASE c = b
    <3>1. j \in 1 .. len + 1 /\ t[j] = n
      BY <1>3, <1>4, <2>1, <2>3
    <3>2. CASE j = 2
      BY <1>2, <2>3, <3>1, <3>2
    <3>3. CASE j = 1
      <4>1. s[1] = n /\ 1 \in 1 .. len
        BY <1>1, <1>2, <3>1, <3>3
      <4>2. Place(n, c, 1) /\ j = Shifted(b, c, 1)
        BY <1>1, <2>1, <2>3, <3>3, <4>1 DEF Place, Shifted
      <4> QED  BY <4>2
    <3>4. CASE j # 1 /\ j # 2
      <4>1. j - 1 \in 1 .. len /\ j - 1 >= 2 /\ (j - 1) + 1 = j /\ j - 1 \in 2 .. len
        BY <1>1, <3>1, <3>4
      <4>2. s[j - 1] = n
        BY <1>2, <3>1, <4>1
      <4>3. Place(n, c, j - 1) /\ j = Shifted(b, c, j - 1)
        BY <1>1, <2>1, <2>3, <4>1, <4>2 DEF Place, Shifted
      <4> QED  BY <4>3
    <3> QED  BY <3>2, <3>3, <3>4
  <2> QED  BY <2>2, <2>3
<1>11. \A n : n \in Used <=> \E c, i : Place(n, c, i)
  BY PlacesOf
<1>12. \A n : n \in Used' <=> \E c, i : Place(n, c, i)'
  <2>1. \A n : n \in Used' <=> \E c \in Buckets : n \in ToSet(xh_chain'[c])
    BY DEF Used
  <2> QED  BY <2>1 DEF Place, ToSet
<1>13. Used' = Used \cup {e}
  <2>1. \A n : n \in Used => n \in Used'
    BY <1>9, <1>11, <1>12
  <2>2. \A n : n \in Used' => n \in Used \/ n = e
    BY <1>10, <1>11, <1>12
  <2>3. e \in Used'
    BY <1>8, <1>12
  <2> QED  BY <2>1, <2>2, <2>3
<1>14. \A n \in Used : \A c, j : Place(n, c, j)' => \E i : Place(n, c, i) /\ j = Shifted(b, c, i)
  BY <1>10
<1>15. \A c, i, j : i \in Nat /\ j \in Nat =>
         /\ i < j <=> Shifted(b, c, i) < Shifted(b, c, j)
         /\ Shifted(b, c, i) = Shifted(b, c, j) => i = j
  BY DEF Shifted
<1>16. \A n, m : Before(n, m)' <=> \E c, d, i, j : /\ Place(n, c, i)' /\ Place(m, d, j)'
                                                   /\ c < d \/ (c = d /\ i < j)
  BY DEF Before, Place
<1>17. ASSUME NEW n \in Used, NEW m \in Used PROVE Before(n, m)' <=> Before(n, m)
  <2>1. ASSUME Before(n, m) PROVE Before(n, m)'
    <3>1. PICK c, d, i, j : /\ Place(n, c, i) /\ Place(m, d, j)
                            /\ c < d \/ (c = d /\ i < j)
      BY <2>1, BeforeIs
    <3>2. PICK k, l : k = Shifted(b, c, i) /\ l = Shifted(b, d, j)
      OBVIOUS
    <3>3. Place(n, c, k)' /\ Place(m, d, l)'
      BY <1>9, <3>1, <3>2
    <3>4. c < d \/ (c = d /\ k < l)
      BY <1>6, <1>15, <3>1, <3>2
    <3> QED  BY <1>16, <3>3, <3>4
  <2>2. ASSUME Before(n, m)' PROVE Before(n, m)
    <3>1. PICK c, d, k, l : /\ Place(n, c, k)' /\ Place(m, d, l)'
                            /\ c < d \/ (c = d /\ k < l)
      BY <1>16, <2>2
    <3>2. PICK i : Place(n, c, i) /\ k = Shifted(b, c, i)
      BY <1>14, <3>1
    <3>3. PICK j : Place(m, d, j) /\ l = Shifted(b, d, j)
      BY <1>14, <3>1
    <3>4. c < d \/ (c = d /\ i < j)
      BY <1>6, <1>15, <3>1, <3>2, <3>3
    <3> QED  BY <3>2, <3>3, <3>4, BeforeIs
  <2> QED  BY <2>1, <2>2
<1>18. ChainsApart'
  <2>1. ASSUME NEW n, NEW c, NEW d, NEW k, NEW l, Place(n, c, k)', Place(n, d, l)'
        PROVE  c = d /\ k = l
    <3>1. CASE n = e
      <4>1. ~ \E i : Place(n, c, i)
        BY <1>11, <3>1
      <4>2. ~ \E i : Place(n, d, i)
        BY <1>11, <3>1
      <4> QED  BY <1>10, <2>1, <4>1, <4>2
    <3>2. CASE n # e
      <4>1. PICK i : Place(n, c, i) /\ k = Shifted(b, c, i)
        BY <1>10, <2>1, <3>2
      <4>2. PICK j : Place(n, d, j) /\ l = Shifted(b, d, j)
        BY <1>10, <2>1, <3>2
      <4>3. c = d /\ i = j
        BY <4>1, <4>2 DEF ChainsApart
      <4> QED  BY <4>1, <4>2, <4>3
    <3> QED  BY <3>1, <3>2
  <2> QED  BY <2>1 DEF ChainsApart
<1>19. \A n \in Used : \A c : (\E i : Place(n, c, i)) => \E i : Place(n, c, i)'
  BY <1>9
<1> QED  BY <1>5, <1>7, <1>8, <1>13, <1>17, <1>18, <1>19

(* Bucket numbers, and the nodes that a put may take.                      *)
LEMMA NodesToTake ==
  ASSUME XHashInv, NEW k \in Keys, NEW b, b = Bucket(k), NEW e, e = EmptyNode(b)
  PROVE  /\ b \in Buckets
         /\ e = NULL \/ (e \in Used /\ e \in Nodes /\ xh_key[e] = NULL /\ \E i : Place(e, b, i))
<1> DEFINE nodes == {n \in Nodes : xh_key[n] = NULL}
<1>1. b \in Buckets
  <2>1. _xhasher[k] \in Nat /\ prime \in Nat \ {0}
    BY XHashAssumption
  <2> QED  BY <2>1 DEF Bucket, Buckets
<1>2. xh_chain[b] \in Seq(Nodes) /\ XHashType
  BY <1>1 DEF XHashInv, XHashType
<1>3. e = FirstIn(xh_chain[b], nodes)
  BY DEF EmptyNode
<1>4. \/ e = NULL /\ \A i \in DOMAIN xh_chain[b] : xh_chain[b][i] \notin nodes
      \/ e \in nodes /\ \E i \in DOMAIN xh_chain[b] : xh_chain[b][i] = e
  <2> HIDE DEF nodes
  <2> QED  BY <1>2, <1>3, FirstInIs
<1>5. CASE e = NULL
  BY <1>1, <1>5
<1>6. CASE e # NULL
  <2>1. e \in nodes /\ \E i : Place(e, b, i)
    BY <1>1, <1>4, <1>6 DEF Place
  <2>2. e \in Used
    BY <1>2, <2>1, PlacesOf
  <2> QED  BY <1>1, <2>1, <2>2
<1> QED  BY <1>5, <1>6

(* A key that is in gets a new value, in its node.                         *)
LEMMA PutOverKeeps ==
  ASSUME XHashInv, NEW k \in Keys, NEW v \in Vals, xhash_put(k, v),
         NEW old, old = _xhash_node_get(k), old # NULL
  PROVE  /\ XHashInv' /\ Live' = Live /\ old \in Live /\ xh_key[old] = k
         /\ xh_val' = [xh_val EXCEPT ![old] = v] /\ UNCHANGED <<xh_chain, xh_key, xh_count>>
<1> USE DEF XHashInv
<1>1. old \in Live /\ xh_key[old] = k
  BY NodeGetIs
<1>2. /\ xh_val' = [xh_val EXCEPT ![old] = v] /\ UNCHANGED <<xh_chain, xh_key, xh_count>>
      /\ xh_dirty' = TRUE /\ UNCHANGED <<iter_node, xh_visited>>
      /\ xh_stayed' = IF v = NULL THEN xh_stayed \ {k} ELSE xh_stayed
  BY DEF xhash_put
<1>3. /\ Used' = Used
      /\ \A n, b, i : Place(n, b, i)' <=> Place(n, b, i)
      /\ \A n, m : Before(n, m)' <=> Before(n, m)
      /\ \A n : Passed(n)' = Passed(n)
      /\ ChainsApart'
  BY <1>2, ChainsStay
<1>4. Live' = Live
  BY <1>2, <1>3 DEF Live
<1>5. Used \subseteq Nodes /\ NULL \notin Keys
  BY PlacesOf, XHashAssumption
<1>6. XHashType'
  BY <1>2 DEF XHashType
<1>7. KeysInPlace'
  BY <1>2, <1>3, <1>4 DEF KeysInPlace, Bucket
<1>8. HaveValues(xh_key, xh_val, xh_stayed)'
  <2>1. \A n \in Used : xh_key[n] \in xh_stayed' => xh_val'[n] # NULL
    <3>1. \A n \in Used : xh_val'[n] = IF n = old THEN v ELSE xh_val[n]
      BY <1>2, <1>5 DEF XHashType
    <3> QED  BY <1>1, <1>2, <3>1 DEF HaveValues
  <2> QED  BY <1>2, <1>3, <2>1 DEF HaveValues
<1>9. PassedByIt' = PassedByIt
  BY <1>2, <1>3 DEF PassedByIt
<1>10. VisitedSoFar(PassedByIt, xh_key, xh_visited, xh_stayed)'
  BY <1>2, <1>3, <1>9 DEF VisitedSoFar
<1> QED  BY <1>1, <1>2, <1>3, <1>4, <1>6, <1>7, <1>8, <1>10

(* Any other key gets a node.                                              *)
LEMMA PutNewKeeps ==
  ASSUME XHashInv, NEW k \in Keys, NEW v \in Vals, xhash_put(k, v),
         _xhash_node_get(k) = NULL
  PROVE  \E e \in Nodes : /\ XHashInv' /\ e \notin Live /\ Live' = Live \cup {e}
                          /\ xh_key' = [xh_key EXCEPT ![e] = k]
                          /\ xh_val' = [xh_val EXCEPT ![e] = v]
                          /\ xh_count' = xh_count + 1
<1> USE DEF XHashInv
<1>1. \A n \in Live : xh_key[n] # k
  BY NodeGetIs
<1>2. PICK b : b = Bucket(k)
  OBVIOUS
<1>3. PICK e : e = EmptyNode(b)
  OBVIOUS
<1>4. /\ b \in Buckets
      /\ e = NULL \/ (e \in Used /\ e \in Nodes /\ xh_key[e] = NULL /\ \E i : Place(e, b, i))
  BY <1>2, <1>3, NodesToTake
<1>5. /\ xh_dirty' = TRUE /\ UNCHANGED <<iter_node, xh_visited>>
      /\ xh_stayed' = IF v = NULL THEN xh_stayed \ {k} ELSE xh_stayed
  BY DEF xhash_put
<1>6. CASE e # NULL
  <2>1. /\ xh_key' = [xh_key EXCEPT ![e] = k] /\ xh_val' = [xh_val EXCEPT ![e] = v]
        /\ xh_count' = xh_count + 1 /\ xh_chain' = xh_chain
    BY <1>2, <1>3, <1>6 DEF xhash_put
  <2>2. e \notin Live /\ e \in Used /\ e \in Nodes
    BY <1>4, <1>6 DEF Live
  <2>3. /\ Used' = Used
        /\ \A n, c, i : Place(n, c, i)' <=> Place(n, c, i)
        /\ \A n, m : Before(n, m)' <=> Before(n, m)
        /\ ChainsApart'
    BY <2>1, ChainsStay
  <2>4. /\ Used' = Used \cup {e}
        /\ \A n, m \in Used : Before(n, m)' <=> Before(n, m)
        /\ \A n \in Used : \A c : (\E i : Place(n, c, i)) => \E i : Place(n, c, i)'
        /\ \E i : Place(e, Bucket(k), i)'
    BY <1>2, <1>4, <1>6, <2>2, <2>3
  <2>5. xh_chain' \in [Buckets -> Seq(Nodes)] /\ \A c \in Buckets : Len(xh_chain'[c]) >= 1
    BY <2>1 DEF XHashType
  <2>6. XHashInv' /\ Live' = Live \cup {e}
    <3> HIDE DEF XHashInv
    <3> QED  BY <1>1, <1>5, <2>1, <2>2, <2>3, <2>4, <2>5, KeyAdded
  <2> QED  BY <2>1, <2>2, <2>6
<1>7. CASE e = NULL
  <2>1. PICK n : n = NewNode
    OBVIOUS
  <2>2. /\ Used # Nodes /\ xh_chain' = [xh_chain EXCEPT ![b] = InsertAt(@, 2, n)]
        /\ xh_key' = [xh_key EXCEPT ![n] = k] /\ xh_val' = [xh_val EXCEPT ![n] = v]
        /\ xh_count' = xh_count + 1
    BY <1>2, <1>3, <1>7, <2>1 DEF xhash_put
  <2>3. n \in Nodes /\ n \notin Used
    <3> DEFINE Unused == Nodes \ Used
    <3>1. Used \subseteq Nodes
      BY PlacesOf
    <3>2. Unused \subseteq Nat /\ Unused # {}
      <4>1. Nodes \subseteq Nat
        BY DEF Nodes
      <4> QED  BY <2>2, <3>1, <4>1
    <3>3. \E m \in Unused : \A l \in Unused : m <= l
      <4> HIDE DEF Unused
      <4> QED  BY <3>2, SmallestOf
    <3> QED  BY <2>1, <3>3 DEF NewNode
  <2>4. /\ Used' = Used \cup {n}
        /\ \A l, m \in Used : Before(l, m)' <=> Before(l, m)
        /\ \A l \in Used : \A c : (\E i : Place(l, c, i)) => \E i : Place(l, c, i)'
        /\ \E i : Place(n, b, i)'
        /\ ChainsApart' /\ xh_chain' \in [Buckets -> Seq(Nodes)]
        /\ \A c \in Buckets : Len(xh_chain'[c]) >= 1
    BY <1>4, <2>2, <2>3, NodeAdded
  <2>5. \E i : Place(n, Bucket(k), i)'
    BY <1>2, <2>4
  <2>6. n \notin Live
    BY <2>3 DEF Live
  <2>7. XHashInv' /\ Live' = Live \cup {n}
    <3> HIDE DEF XHashInv
    <3> QED  BY <1>1, <1>5, <2>2, <2>3, <2>4, <2>5, <2>6, KeyAdded
  <2> QED  BY <2>2, <2>3, <2>6, <2>7
<1> QED  BY <1>6, <1>7

(* An iteration begins, or goes on.                                        *)
LEMMA IterationKeeps ==
  ASSUME XHashInv, xhash_iter_first \/ xhash_iter_next
  PROVE  XHashInv' /\ Live' = Live /\ UNCHANGED <<xh_chain, xh_key, xh_val, xh_count, xh_dirty>>
<1> USE DEF XHashInv
<1>1. UNCHANGED <<xh_chain, xh_key, xh_val, xh_count, xh_dirty>>
  BY DEF xhash_iter_first, xhash_iter_next
<1>2. /\ Used' = Used
      /\ \A n, b, i : Place(n, b, i)' <=> Place(n, b, i)
      /\ \A n, m : Before(n, m)' <=> Before(n, m)
      /\ \A n : Passed(n)' = Passed(n)
      /\ ChainsApart'
  BY <1>1, ChainsStay
<1>3. Live' = Live /\ KeysInPlace'
  BY <1>1, <1>2 DEF Live, KeysInPlace, Bucket
<1>4. Used \subseteq Nodes /\ NULL \notin Keys /\ NULL \notin Nodes
  BY PlacesOf, XHashAssumption DEF Nodes
<1> DEFINE n == IF xhash_iter_first THEN NULL ELSE iter_node
           visited == IF xhash_iter_first THEN <<>> ELSE xh_visited
           stayed == IF xhash_iter_first
                     THEN {xh_key[m] : m \in {l \in Used : xh_key[l] # NULL /\ xh_val[l] # NULL}}
                     ELSE xh_stayed
<1>5. PICK m : m = NextNode(n, xh_key, xh_val)
  OBVIOUS
<1>6. iter_node' = m /\ xh_stayed' = stayed
      /\ xh_visited' = IF m = NULL THEN visited ELSE Append(visited, xh_key[m])
  <2>1. CASE xhash_iter_first
    BY <1>5, <2>1 DEF xhash_iter_first, StopAt
  <2>2. CASE ~ xhash_iter_first
    BY <1>5, <2>2 DEF xhash_iter_next, StopAt
  <2> QED  BY <2>1, <2>2
<1>7. /\ n \in Used \cup {NULL} /\ visited \in Seq(Keys)
      /\ HaveValues(xh_key, xh_val, stayed)
      /\ VisitedSoFar(IF n = NULL THEN {} ELSE Passed(n), xh_key, visited, stayed)
  <2>1. CASE xhash_iter_first
    <3>1. n = NULL /\ visited = <<>> /\ visited \in Seq(Keys) /\ DOMAIN visited = {}
      BY <2>1, EmptySeq
    <3>2. stayed = {xh_key[l] : l \in {m2 \in Used : xh_key[m2] # NULL /\ xh_val[m2] # NULL}}
      BY <2>1
    <3>3. \A l \in Used : xh_key[l] \in Keys \cup {NULL}
      BY <1>4 DEF XHashType
    <3>4. \A l, o \in Used : xh_key[l] # NULL /\ xh_key[l] = xh_key[o] => l = o
      BY DEF KeysInPlace, Live
    <3> HIDE DEF n, visited, stayed
    <3>5. \A k \in stayed : \E l \in Used : xh_key[l] = k /\ k # NULL /\ xh_val[l] # NULL
      BY <3>2
    <3>6. HaveValues(xh_key, xh_val, stayed)
      BY <3>3, <3>4, <3>5 DEF HaveValues
    <3>7. VisitedSoFar({}, xh_key, visited, stayed)
      BY <3>1 DEF VisitedSoFar, Never
    <3> QED  BY <3>1, <3>6, <3>7
  <2>2. CASE ~ xhash_iter_first
    <3>1. n = iter_node /\ visited = xh_visited /\ stayed = xh_stayed /\ n # NULL
      BY <2>2 DEF xhash_iter_next
    <3>2. PassedByIt = Passed(n)
      BY <3>1 DEF PassedByIt
    <3> HIDE DEF n, visited, stayed
    <3> QED  BY <3>1, <3>2 DEF XHashType
  <2> QED  BY <2>1, <2>2
<1> HIDE DEF n, visited, stayed
<1>8. xh_key \in [Nodes -> Keys \cup {NULL}]
  BY DEF XHashType
<1>9. PICK v : v = IF m = NULL THEN visited ELSE Append(visited, xh_key[m])
  OBVIOUS
<1>10. /\ v \in Seq(Keys)
       /\ m # NULL => m \in Used /\ xh_key[m] # NULL
       /\ VisitedSoFar(IF m = NULL THEN Used ELSE Passed(m), xh_key, v, stayed)
  BY <1>5, <1>7, <1>8, <1>9, IterationMoves
<1>11. xh_visited' = v
  BY <1>6, <1>9
<1>12. PassedByIt' = IF m = NULL THEN Used ELSE Passed(m)
  BY <1>2, <1>6 DEF PassedByIt
<1>13. VisitedSoFar(PassedByIt, xh_key, xh_visited, xh_stayed)'
  BY <1>1, <1>2, <1>6, <1>10, <1>11, <1>12 DEF VisitedSoFar
<1>14. HaveValues(xh_key, xh_val, xh_stayed)'
  BY <1>1, <1>2, <1>6, <1>7 DEF HaveValues
<1>15. XHashType'
  BY <1>1, <1>4, <1>6, <1>10, <1>11, <1>14 DEF XHashType, HaveValues
<1>16. iter_node' # NULL => iter_node' \in Used' /\ xh_key'[iter_node'] # NULL
  BY <1>1, <1>2, <1>6, <1>10
<1> QED  BY <1>1, <1>2, <1>3, <1>13, <1>14, <1>15, <1>16

(* A node that is zapped is empty, and an iteration that is at it goes on. *)
LEMMA KillKeeps ==
  ASSUME XHashInv, NEW n \in Live, Kill(n)
  PROVE  /\ XHashInv' /\ Live' = Live \ {n} /\ UNCHANGED xh_chain
         /\ xh_key' = [xh_key EXCEPT ![n] = NULL] /\ xh_val' = [xh_val EXCEPT ![n] = NULL]
         /\ xh_count' = xh_count - 1 /\ xh_dirty' = TRUE
<1> USE DEF XHashInv
<1>1. /\ xh_key' = [xh_key EXCEPT ![n] = NULL] /\ xh_val' = [xh_val EXCEPT ![n] = NULL]
      /\ xh_count' = xh_count - 1 /\ xh_dirty' = TRUE
      /\ xh_stayed' = xh_stayed \ {xh_key[n]} /\ xh_chain' = xh_chain
  BY DEF Kill
<1>2. /\ Used' = Used
      /\ \A m, b, i : Place(m, b, i)' <=> Place(m, b, i)
      /\ \A m, l : Before(m, l)' <=> Before(m, l)
      /\ \A m : Passed(m)' = Passed(m)
      /\ ChainsApart'
  BY <1>1, ChainsStay
<1>3. Used \subseteq Nodes /\ NULL \notin Keys /\ NULL \notin Nodes
  BY PlacesOf, XHashAssumption DEF Nodes
<1>4. n \in Used /\ n \in Nodes /\ xh_key[n] # NULL
  BY <1>3 DEF Live
<1>5. /\ xh_key'[n] = NULL /\ \A m \in Nodes : m # n => xh_key'[m] = xh_key[m] /\ xh_val'[m] = xh_val[m]
      /\ xh_key' \in [Nodes -> Keys \cup {NULL}] /\ xh_val' \in [Nodes -> Vals \cup {NULL}]
  BY <1>1, <1>4 DEF XHashType
<1>6. Live' = Live \ {n}
  BY <1>2, <1>3, <1>4, <1>5 DEF Live
<1>7. xh_count' = Cardinality(Live')
  BY <1>1, <1>6, LiveIsFinite, FS_RemoveElement
<1>8. KeysInPlace'
  <2>1. \A m \in Live' : m \in Live /\ m # n /\ m \in Nodes /\ xh_key'[m] = xh_key[m]
    BY <1>3, <1>5, <1>6 DEF Live
  <2>2. \A m, l \in Live' : xh_key'[m] = xh_key'[l] => m = l
    BY <2>1 DEF KeysInPlace
  <2>3. ASSUME NEW m \in Live' PROVE (\E i : Place(m, Bucket(xh_key[m]), i))'
    <3>1. PICK b : b = Bucket(xh_key[m])
      OBVIOUS
    <3>2. \E i : Place(m, b, i)'
      BY <1>2, <2>1, <3>1 DEF KeysInPlace
    <3> QED  BY <2>1, <3>1, <3>2 DEF Place, Bucket
  <2> QED  BY <2>2, <2>3 DEF KeysInPlace
<1>9. \A m \in Used : m # n => xh_key'[m] = xh_key[m] /\ xh_val'[m] = xh_val[m]
  BY <1>3, <1>5
<1>10. HaveValues(xh_key', xh_val', xh_stayed')
  <2>1. \A k \in xh_stayed' : \E m \in Used : xh_key'[m] = k
    <3>1. \A k \in xh_stayed' : \E m \in Used : xh_key[m] = k /\ m # n
      BY <1>1 DEF HaveValues
    <3> QED  BY <1>9, <3>1
  <2>2. \A m \in Used : xh_key'[m] \in xh_stayed' => xh_val'[m] # NULL
    <3>1. NULL \notin xh_stayed'
      BY <1>1, <1>3 DEF HaveValues
    <3> QED  BY <1>1, <1>5, <1>9, <3>1 DEF HaveValues
  <2>3. \A m, l \in Used : xh_key'[m] # NULL /\ xh_key'[m] = xh_key'[l] => m = l
    <3>1. \A m \in Used : xh_key'[m] # NULL => m # n /\ xh_key'[m] = xh_key[m]
      BY <1>5, <1>9
    <3> QED  BY <3>1 DEF HaveValues
  <2> QED  BY <1>1, <2>1, <2>2, <2>3 DEF HaveValues
<1>11. HaveValues(xh_key, xh_val, xh_stayed)'
  BY <1>2, <1>10 DEF HaveValues
<1>12. VisitedSoFar(PassedByIt, xh_key', xh_visited, xh_stayed')
  <2>1. \A m \in Used : xh_key'[m] \in xh_stayed' => xh_key'[m] = xh_key[m] /\ xh_key[m] \in xh_stayed
    BY <1>1, <1>3, <1>5, <1>9 DEF HaveValues
  <2> QED  BY <2>1 DEF VisitedSoFar
<1>13. CASE iter_node # n
  <2>1. UNCHANGED <<iter_node, xh_visited>>
    BY <1>13 DEF Kill
  <2>2. PassedByIt' = PassedByIt
    BY <1>2, <2>1 DEF PassedByIt
  <2>3. VisitedSoFar(PassedByIt, xh_key, xh_visited, xh_stayed)'
    BY <1>2, <1>12, <2>1, <2>2 DEF VisitedSoFar
  <2>4. iter_node' # NULL => iter_node' \in Used' /\ xh_key'[iter_node'] # NULL
    BY <1>2, <1>9, <1>13, <2>1
  <2>5. XHashType'
    BY <1>1, <1>5, <2>1 DEF XHashType
  <2> QED  BY <1>1, <1>2, <1>6, <1>7, <1>8, <1>11, <2>3, <2>4, <2>5
<1>14. CASE iter_node = n
  <2>1. PICK key, val, stayed, m : /\ key = xh_key' /\ val = xh_val' /\ stayed = xh_stayed'
                                   /\ m = NextNode(n, key, val)
    OBVIOUS
  <2>2. iter_node' = m /\ xh_visited' = IF m = NULL THEN xh_visited ELSE Append(xh_visited, xh_key[m])
    BY <1>14, <2>1 DEF Kill, StopAt
  <2>3. PICK v : v = IF m = NULL THEN xh_visited ELSE Append(xh_visited, key[m])
    OBVIOUS
  <2>4. PassedByIt = Passed(n) /\ n # NULL
    BY <1>3, <1>4, <1>14 DEF PassedByIt
  <2>5. /\ n \in Used \cup {NULL} /\ xh_visited \in Seq(Keys)
        /\ key \in [Nodes -> Keys \cup {NULL}] /\ HaveValues(key, val, stayed)
        /\ VisitedSoFar(IF n = NULL THEN {} ELSE Passed(n), key, xh_visited, stayed)
    BY <1>4, <1>5, <1>10, <1>12, <2>1, <2>4 DEF XHashType
  <2>6. /\ v \in Seq(Keys)
        /\ m # NULL => m \in Used /\ key[m] # NULL
        /\ VisitedSoFar(IF m = NULL THEN Used ELSE Passed(m), key, v, stayed)
    <3> HIDE DEF XHashInv
    <3>1. XHashType /\ ChainsApart
      BY DEF XHashInv
    <3> QED  BY <2>1, <2>3, <2>5, <3>1, IterationMoves
  <2>7. xh_visited' = v
    <3>1. m # NULL => key[m] = xh_key[m]
      BY <1>5, <1>9, <2>1, <2>6
    <3> QED  BY <2>2, <2>3, <3>1
  <2>8. PassedByIt' = IF m = NULL THEN Used ELSE Passed(m)
    BY <1>2, <2>2 DEF PassedByIt
  <2>9. VisitedSoFar(PassedByIt, xh_key, xh_visited, xh_stayed)'
    BY <1>2, <2>1, <2>6, <2>7, <2>8 DEF VisitedSoFar
  <2>10. iter_node' # NULL => iter_node' \in Used' /\ xh_key'[iter_node'] # NULL
    BY <1>2, <2>1, <2>2, <2>6
  <2>11. iter_node' \in Nodes \cup {NULL}
    BY <1>3, <2>2, <2>6
  <2>12. XHashType'
    BY <1>1, <1>5, <2>6, <2>7, <2>11 DEF XHashType
  <2> QED  BY <1>1, <1>2, <1>6, <1>7, <1>8, <1>11, <2>9, <2>10, <2>12
<1> QED  BY <1>13, <1>14

(* The invariant of the table is inductive.                                *)
LEMMA XHashInvNext == XHashInv /\ [XHashNext]_xhashVars => XHashInv'
<1> SUFFICES ASSUME XHashInv, [XHashNext]_xhashVars PROVE XHashInv'
  OBVIOUS
<1>1. ASSUME NEW k \in Keys, NEW v \in Vals, xhash_put(k, v) PROVE XHashInv'
  <2>1. CASE _xhash_node_get(k) = NULL
    BY <1>1, <2>1, PutNewKeeps
  <2>2. CASE _xhash_node_get(k) # NULL
    BY <1>1, <2>2, PutOverKeeps
  <2> QED  BY <2>1, <2>2
<1>2. ASSUME NEW k \in Keys, xhash_zap(k) PROVE XHashInv'
  <2>1. PICK n : n = _xhash_node_get(k)
    OBVIOUS
  <2>2. n # NULL /\ Kill(n)
    BY <1>2, <2>1 DEF xhash_zap
  <2>3. n \in Live
    BY <2>1, <2>2, NodeGetIs DEF XHashInv
  <2> QED  BY <2>2, <2>3, KillKeeps
<1>3. CASE xhash_iter_first \/ xhash_iter_next
  BY <1>3, IterationKeeps
<1>4. CASE xhash_iter_zap
  <2>1. iter_node \in Live /\ Kill(iter_node)
    BY <1>4 DEF xhash_iter_zap, XHashInv, Live
  <2> QED  BY <2>1, KillKeeps
<1>5. CASE xhash_dirty \/ UNCHANGED xhashVars
  <2>1. UNCHANGED <<xh_chain, xh_key, xh_val, xh_count, iter_node, xh_visited, xh_stayed>>
        /\ (xh_dirty' = FALSE \/ xh_dirty' = xh_dirty)
    BY <1>5 DEF xhash_dirty, xhashVars
  <2>2. /\ Used' = Used
        /\ \A m, b, i : Place(m, b, i)' <=> Place(m, b, i)
        /\ \A m, l : Before(m, l)' <=> Before(m, l)
        /\ \A m : Passed(m)' = Passed(m)
        /\ ChainsApart'
    BY <2>1, ChainsStay DEF XHashInv
  <2>3. Live' = Live /\ PassedByIt' = PassedByIt
    BY <2>1, <2>2 DEF Live, PassedByIt
  <2>4. KeysInPlace'
    BY <2>1, <2>2, <2>3 DEF XHashInv, KeysInPlace, Bucket
  <2>5. HaveValues(xh_key, xh_val, xh_stayed)' /\ VisitedSoFar(PassedByIt, xh_key, xh_visited, xh_stayed)'
    BY <2>1, <2>2, <2>3 DEF XHashInv, HaveValues, VisitedSoFar
  <2>6. XHashType'
    <3>1. xh_dirty' \in BOOLEAN
      BY <2>1 DEF XHashInv, XHashType
    <3> QED  BY <2>1, <3>1 DEF XHashInv, XHashType
  <2> QED  BY <2>1, <2>2, <2>3, <2>4, <2>5, <2>6 DEF XHashInv
<1> QED  BY <1>1, <1>2, <1>3, <1>4, <1>5 DEF XHashNext

(* The count of the visits that the property speaks of.                    *)
LEMMA TimesIs ==
  ASSUME XHashType, NEW k
  PROVE  /\ Never(k, xh_visited) => Times(k) = 0
         /\ Once(k, xh_visited) => Times(k) = 1
<1> DEFINE at == {i \in DOMAIN xh_visited : xh_visited[i] = k}
<1>1. ASSUME Never(k, xh_visited) PROVE Times(k) = 0
  <2>1. at = {}
    BY <1>1 DEF Never
  <2> QED  BY <2>1, FS_EmptySet DEF Times
<1>2. ASSUME Once(k, xh_visited) PROVE Times(k) = 1
  <2>1. PICK i \in DOMAIN xh_visited : \A j \in DOMAIN xh_visited : xh_visited[j] = k <=> j = i
    BY <1>2 DEF Once
  <2>2. at = {i}
    BY <2>1
  <2> QED  BY <2>2, FS_Singleton DEF Times
<1> QED  BY <1>1, <1>2

(* The walk over the table comes to each key with a value, and once.       *)
LEMMA WalkIsOnce ==
  ASSUME XHashInv
  PROVE  IsInjective(xhash_walk) /\ ToSet(xhash_walk) = {k \in Keys : xhash_get(k) # NULL}
<1> USE DEF XHashInv
<1> DEFINE node(p) == xh_chain[p[1]][p[2]]
           places == UNION {{<<b, i>> : i \in DOMAIN xh_chain[b]} : b \in Buckets}
           called == {p \in places : xh_key[node(p)] # NULL /\ xh_val[node(p)] # NULL}
           w == xhash_walk
<1>1. DOMAIN w = called /\ \A p \in called : w[p] = xh_key[node(p)]
  BY DEF xhash_walk
<1>2. \A p \in places : \E b \in Buckets : \E i \in DOMAIN xh_chain[b] : p = <<b, i>>
  OBVIOUS
<1>3. ASSUME NEW p \in called
      PROVE  \E b, i : p = <<b, i>> /\ Place(node(p), b, i)
  <2>1. PICK b \in Buckets : \E i \in DOMAIN xh_chain[b] : p = <<b, i>>
    BY <1>2
  <2>2. PICK i \in DOMAIN xh_chain[b] : p = <<b, i>>
    BY <2>1
  <2> QED  BY <2>2 DEF Place
<1>4. ASSUME NEW p \in called PROVE node(p) \in Live
  BY <1>3, PlacesOf DEF Live
<1> HIDE DEF w
<1>5. IsInjective(w)
  <2>1. ASSUME NEW p \in called, NEW q \in called, w[p] = w[q] PROVE p = q
    <3>1. node(p) = node(q)
      <4>1. PICK n, m : n = node(p) /\ m = node(q)
        OBVIOUS
      <4>2. n \in Live /\ m \in Live
        BY <1>4, <4>1
      <4>3. xh_key[n] = xh_key[m]
        <5> HIDE DEF node, called
        <5> QED  BY <1>1, <2>1, <4>1
      <4>4. n = m
        BY <4>2, <4>3 DEF KeysInPlace
      <4> QED  BY <4>1, <4>4
    <3>2. PICK b, i : p = <<b, i>> /\ Place(node(p), b, i)
      BY <1>3
    <3>3. PICK c, j : q = <<c, j>> /\ Place(node(q), c, j)
      BY <1>3
    <3>4. b = c /\ i = j
      <4> HIDE DEF node, called
      <4> QED  BY <3>1, <3>2, <3>3 DEF ChainsApart
    <3> QED  BY <3>2, <3>3, <3>4
  <2> HIDE DEF called
  <2> QED  BY <1>1, <2>1 DEF IsInjective
<1>6. /\ \A n \in Live : xh_key[n] \in Keys /\ xhash_get(xh_key[n]) = xh_val[n]
      /\ \A k \in Keys : (\A n \in Live : xh_key[n] # k) => xhash_get(k) = NULL
  BY GetIs
<1>7. ASSUME NEW p \in called PROVE w[p] \in Keys /\ xhash_get(w[p]) # NULL
  BY <1>1, <1>4, <1>6
<1>8. ASSUME NEW k \in Keys, xhash_get(k) # NULL PROVE \E p \in called : w[p] = k
  <2>1. PICK n \in Live : xh_key[n] = k
    BY <1>6, <1>8
  <2>2. PICK b, i : Place(n, b, i)
    BY <2>1, PlacesOf DEF Live
  <2>3. <<b, i>> \in places /\ node(<<b, i>>) = n
    BY <2>2 DEF Place
  <2>4. <<b, i>> \in called
    BY <1>6, <1>8, <2>1, <2>3 DEF Live
  <2> QED  BY <1>1, <2>1, <2>3, <2>4
<1>9. ToSet(w) = {k \in Keys : xhash_get(k) # NULL}
  <2> HIDE DEF called
  <2>1. ToSet(w) = {w[p] : p \in called}
    BY <1>1 DEF ToSet
  <2> QED  BY <1>7, <1>8, <2>1
<1> QED  BY <1>5, <1>9 DEF w

(* What the invariant says.                                                *)
LEMMA XHashInvSays == XHashInv => TableAgrees /\ IterationVisitsOnce
<1> SUFFICES ASSUME XHashInv PROVE TableAgrees /\ IterationVisitsOnce
  OBVIOUS
<1> USE DEF XHashInv
<1>1. TableAgrees
  <2>1. \A n \in Live : n \in ToSet(xh_chain[Bucket(xh_key[n])])
    BY DEF KeysInPlace, Place, ToSet
  <2>2. \A b, c \in Buckets : \A i \in DOMAIN xh_chain[b], j \in DOMAIN xh_chain[c] :
          xh_chain[b][i] = xh_chain[c][j] => b = c /\ i = j
    BY DEF ChainsApart, Place
  <2> QED  BY <2>1, <2>2 DEF TableAgrees, KeysInPlace
<1>2. \A k \in xh_stayed : \/ Times(k) = 1
                           \/ iter_node # NULL /\ Times(k) = 0
  <2>1. ASSUME NEW k \in xh_stayed PROVE Times(k) = 1 \/ (iter_node # NULL /\ Times(k) = 0)
    <3>1. PICK n \in Used : xh_key[n] = k
      BY DEF HaveValues
    <3>2. IF n \in PassedByIt THEN Once(k, xh_visited) ELSE Never(k, xh_visited)
      BY <3>1 DEF VisitedSoFar
    <3>3. n \notin PassedByIt => iter_node # NULL
      BY DEF PassedByIt
    <3> QED  BY <3>2, <3>3, TimesIs
  <2> QED  BY <2>1
<1>3. iter_node # NULL => xhash_get(xhash_iter_get[1]) = xhash_iter_get[2]
  <2> SUFFICES ASSUME iter_node # NULL PROVE xhash_get(xhash_iter_get[1]) = xhash_iter_get[2]
    OBVIOUS
  <2>1. iter_node \in Live
    BY DEF Live
  <2>2. xhash_get(xh_key[iter_node]) = xh_val[iter_node]
    BY <2>1, GetIs
  <2>3. xhash_iter_get[1] = xh_key[iter_node] /\ xhash_iter_get[2] = xh_val[iter_node]
    BY DEF xhash_iter_get
  <2> QED  BY <2>2, <2>3
<1>4. \A k \in xh_stayed : Times(k) <= 1
  BY <1>2
<1>5. iter_node = NULL => \A k \in xh_stayed : Times(k) = 1
  BY <1>2
<1> QED  BY <1>1, <1>3, <1>4, <1>5, WalkIsOnce DEF IterationVisitsOnce

(* Whatever is put and zapped, also while an iteration goes on: each key   *)
(* is in one node of the bucket of its hash, count is their number, and an *)
(* iteration and a walk come to each key that stays, and once (xhash.c).   *)
THEOREM TablesAreWhole == XHashSpec => [](TableAgrees /\ IterationVisitsOnce)
BY XHashInvInit, XHashInvNext, XHashInvSays, PTL DEF XHashSpec

(* The keys of the table are those of the dictionary.                      *)
LiveKeys == {xh_key[n] : n \in Live}

(* What the table is as a dictionary.                                      *)
TheDict == [k \in LiveKeys |-> xhash_get(k)]

(* The dictionary has the values of the nodes.                             *)
DictAgrees ==
  /\ TheDict = [k \in LiveKeys |-> TheDict[k]] /\ LiveKeys \subseteq Keys
  /\ \A n \in Live : n \in Nodes /\ TheDict[xh_key[n]] = xh_val[n]

(* The nodes agree with it.                                                *)
LEMMA DictIs == XHashInv => DictAgrees
<1> SUFFICES ASSUME XHashInv PROVE DictAgrees
  OBVIOUS
<1>1. \A n \in Live : n \in Nodes /\ xh_key[n] \in Keys /\ xhash_get(xh_key[n]) = xh_val[n]
  BY PlacesOf, GetIs DEF Live, XHashInv
<1>2. \A n \in Live : xh_key[n] \in LiveKeys
  BY DEF LiveKeys
<1>3. LiveKeys \subseteq Keys
  BY <1>1 DEF LiveKeys
<1> QED  BY <1>1, <1>2, <1>3 DEF DictAgrees, TheDict

(* A put is one of the dictionary.                                         *)
LEMMA PutIsPut ==
  ASSUME XHashInv, NEW k \in Keys, NEW v \in Vals, xhash_put(k, v)
  PROVE  Dict!Put(k, v) /\ xh_dirty'
<1>1. DictAgrees /\ KeysInPlace /\ XHashType
  BY DictIs DEF XHashInv
<1>2. PICK old : old = _xhash_node_get(k)
  OBVIOUS
<1>3. \E e \in Nodes : /\ XHashInv' /\ Live' = Live \cup {e}
                       /\ xh_key' = [xh_key EXCEPT ![e] = k]
                       /\ xh_val' = [xh_val EXCEPT ![e] = v]
                       /\ k \in LiveKeys => e \in Live /\ xh_key[e] = k
                       /\ k \notin LiveKeys => e \notin Live
                       /\ xh_count' = IF k \in LiveKeys THEN xh_count ELSE xh_count + 1
  <2>1. CASE old = NULL
    <3>1. k \notin LiveKeys
      BY <1>1, <1>2, <2>1, NodeGetIs DEF LiveKeys
    <3>2. PICK e \in Nodes : /\ XHashInv' /\ e \notin Live /\ Live' = Live \cup {e}
                             /\ xh_key' = [xh_key EXCEPT ![e] = k]
                             /\ xh_val' = [xh_val EXCEPT ![e] = v]
                             /\ xh_count' = xh_count + 1
      BY <1>2, <2>1, PutNewKeeps
    <3> QED  BY <3>1, <3>2
  <2>2. CASE old # NULL
    <3>1. /\ XHashInv' /\ Live' = Live /\ old \in Live /\ xh_key[old] = k
          /\ xh_val' = [xh_val EXCEPT ![old] = v] /\ UNCHANGED <<xh_chain, xh_key, xh_count>>
      BY <1>2, <2>2, PutOverKeeps
    <3>2. k \in LiveKeys /\ Live' = Live \cup {old} /\ old \in Nodes
      BY <1>1, <3>1 DEF LiveKeys, DictAgrees
    <3>3. xh_key' = [xh_key EXCEPT ![old] = k]
      BY <1>1, <3>1 DEF XHashType
    <3> QED  BY <3>1, <3>2, <3>3
  <2> QED  BY <2>1, <2>2
<1>4. PICK e \in Nodes : /\ XHashInv' /\ Live' = Live \cup {e}
                         /\ xh_key' = [xh_key EXCEPT ![e] = k]
                         /\ xh_val' = [xh_val EXCEPT ![e] = v]
                         /\ k \in LiveKeys => e \in Live /\ xh_key[e] = k
                         /\ k \notin LiveKeys => e \notin Live
                         /\ xh_count' = IF k \in LiveKeys THEN xh_count ELSE xh_count + 1
  BY <1>3
<1>5. DictAgrees'
  BY <1>4, DictIs, PTL
<1>6. /\ xh_key'[e] = k /\ xh_val'[e] = v
      /\ \A n \in Nodes : n # e => xh_key'[n] = xh_key[n] /\ xh_val'[n] = xh_val[n]
  BY <1>1, <1>4 DEF XHashType
<1>7. \A n \in Live : n \in Nodes /\ (n # e => xh_key[n] # k)
  BY <1>1, <1>4 DEF DictAgrees, KeysInPlace, LiveKeys
<1>8. LiveKeys' = LiveKeys \cup {k}
  <2>1. LiveKeys' = {xh_key'[n] : n \in Live'}
    BY DEF LiveKeys
  <2>2. \A n \in Live : xh_key'[n] \in LiveKeys \cup {k}
    BY <1>6, <1>7 DEF LiveKeys
  <2>3. \A l \in LiveKeys : \E n \in Live' : xh_key'[n] = l
    <3>1. \A l \in LiveKeys : \E n \in Live : xh_key[n] = l
      BY DEF LiveKeys
    <3>2. ASSUME NEW l \in LiveKeys PROVE \E n \in Live' : xh_key'[n] = l
      <4>1. PICK n \in Live : xh_key[n] = l
        BY <3>1
      <4>2. CASE n = e
        <5>1. l = k
          BY <1>4, <4>1, <4>2 DEF LiveKeys
        <5> QED  BY <1>4, <1>6, <5>1
      <4>3. CASE n # e
        BY <1>4, <1>6, <1>7, <4>1, <4>3
      <4> QED  BY <4>2, <4>3
    <3> QED  BY <3>2
  <2> QED  BY <1>4, <1>6, <2>1, <2>2, <2>3
<1>9. PICK d, new : d = TheDict /\ new = TheDict'
  OBVIOUS
<1>10. ASSUME NEW l \in LiveKeys \cup {k} PROVE new[l] = IF l = k THEN v ELSE d[l]
  <2>1. CASE l = k
    <3>1. new[xh_key'[e]] = xh_val'[e]
      BY <1>4, <1>5, <1>9 DEF DictAgrees
    <3> QED  BY <1>6, <2>1, <3>1
  <2>2. CASE l # k
    <3>1. PICK n \in Live : xh_key[n] = l
      BY <2>2 DEF LiveKeys
    <3>2. n # e
      BY <1>4, <2>2, <3>1 DEF LiveKeys
    <3>3. new[xh_key'[n]] = xh_val'[n]
      BY <1>4, <1>5, <1>9 DEF DictAgrees
    <3>4. d[xh_key[n]] = xh_val[n]
      BY <1>1, <1>9 DEF DictAgrees
    <3> QED  BY <1>6, <1>7, <2>2, <3>1, <3>2, <3>3, <3>4
  <2> QED  BY <2>1, <2>2
<1>11. DOMAIN d = LiveKeys /\ new = [l \in LiveKeys' |-> new[l]]
  BY <1>1, <1>5, <1>9 DEF DictAgrees
<1>12. new = [l \in LiveKeys \cup {k} |-> IF l = k THEN v ELSE d[l]]
  BY <1>8, <1>10, <1>11
<1>13. TheDict' = [l \in DOMAIN TheDict \cup {k} |-> IF l = k THEN v ELSE TheDict[l]]
  BY <1>9, <1>11, <1>12
<1>14. xh_count' = IF k \in DOMAIN TheDict THEN xh_count ELSE xh_count + 1
  BY <1>4, <1>9, <1>11
<1>15. xh_dirty'
  BY DEF xhash_put
<1> QED  BY <1>13, <1>14, <1>15 DEF Dict!Put, TheDict, LiveKeys

(* A zap too.                                                              *)
LEMMA KillIsZap ==
  ASSUME XHashInv, NEW n \in Live, Kill(n)
  PROVE  (\E k \in LiveKeys : Dict!Zap(k)) /\ xh_dirty' /\ DOMAIN TheDict = LiveKeys
<1>1. DictAgrees /\ KeysInPlace /\ XHashType
  BY DictIs DEF XHashInv
<1>2. /\ XHashInv' /\ Live' = Live \ {n}
      /\ xh_key' = [xh_key EXCEPT ![n] = NULL] /\ xh_val' = [xh_val EXCEPT ![n] = NULL]
      /\ xh_count' = xh_count - 1 /\ xh_dirty' = TRUE
  BY KillKeeps
<1>3. DictAgrees'
  BY <1>2, DictIs, PTL
<1>4. \A m \in Live' : m \in Live /\ m # n /\ xh_key'[m] = xh_key[m] /\ xh_val'[m] = xh_val[m]
  BY <1>1, <1>2 DEF XHashType, DictAgrees
<1>5. PICK k : k = xh_key[n]
  OBVIOUS
<1>6. k \in LiveKeys /\ \A m \in Live : xh_key[m] = k => m = n
  BY <1>1, <1>5 DEF LiveKeys, KeysInPlace
<1>7. LiveKeys' = LiveKeys \ {k}
  <2>1. LiveKeys' = {xh_key'[m] : m \in Live'}
    BY DEF LiveKeys
  <2>2. \A m \in Live' : xh_key'[m] \in LiveKeys \ {k}
    BY <1>4, <1>6 DEF LiveKeys
  <2>3. ASSUME NEW l \in LiveKeys \ {k} PROVE \E m \in Live' : xh_key'[m] = l
    <3>1. PICK m \in Live : xh_key[m] = l
      BY DEF LiveKeys
    <3>2. m \in Live'
      BY <1>2, <1>5, <3>1
    <3> QED  BY <1>4, <3>1, <3>2
  <2> QED  BY <2>1, <2>2, <2>3
<1>8. PICK d, new : d = TheDict /\ new = TheDict'
  OBVIOUS
<1>9. ASSUME NEW l \in LiveKeys \ {k} PROVE new[l] = d[l]
  <2>1. PICK m \in Live : xh_key[m] = l
    BY DEF LiveKeys
  <2>2. m \in Live'
    BY <1>2, <1>5, <2>1
  <2>3. new[xh_key'[m]] = xh_val'[m] /\ d[xh_key[m]] = xh_val[m]
    BY <1>1, <1>3, <1>8, <2>2 DEF DictAgrees
  <2> QED  BY <1>4, <2>1, <2>2, <2>3
<1>10. DOMAIN d = LiveKeys /\ new = [l \in LiveKeys' |-> new[l]]
  BY <1>1, <1>3, <1>8 DEF DictAgrees
<1>11. new = [l \in LiveKeys \ {k} |-> d[l]]
  BY <1>7, <1>9, <1>10
<1>12. TheDict' = [l \in DOMAIN TheDict \ {k} |-> TheDict[l]]
  BY <1>8, <1>10, <1>11
<1>13. Dict!Zap(k)
  BY <1>2, <1>12 DEF Dict!Zap, TheDict, LiveKeys
<1> QED  BY <1>2, <1>6, <1>8, <1>10, <1>13

(* xhash.c is a dictionary: a key has the value that was put last, until   *)
(* it is zapped; count is the number of the keys; and each change sets     *)
(* dirty (xhash.h).                                                        *)
THEOREM TableKeepsItsPromise == XHashSpec => ImplementsDictionary
<1>1. XHashInit => Dict!Init
  <2> SUFFICES ASSUME XHashInit PROVE Dict!Init
    OBVIOUS
  <2>1. Live = {}
    <3>1. \A n \in Used : n \in Nodes
      BY XHashInvInit, PlacesOf DEF XHashInv
    <3> QED  BY <3>1 DEF Live, XHashInit
  <2>2. LiveKeys = {}
    BY <2>1 DEF LiveKeys
  <2>3. TheDict = [k \in {} |-> k]
    BY <2>2 DEF TheDict
  <2> QED  BY <2>3 DEF Dict!Init, XHashInit, TheDict, LiveKeys
<1>2. XHashInv /\ [XHashNext]_xhashVars =>
        /\ [Dict!Next]_(Dict!dictVars)
        /\ [xh_key' # xh_key \/ xh_val' # xh_val => xh_dirty']_xhashVars
  <2> SUFFICES ASSUME XHashInv, [XHashNext]_xhashVars
               PROVE  /\ [Dict!Next]_(Dict!dictVars)
                      /\ [xh_key' # xh_key \/ xh_val' # xh_val => xh_dirty']_xhashVars
    OBVIOUS
  <2>1. ASSUME NEW k \in Keys, NEW v \in Vals, xhash_put(k, v) PROVE Dict!Next /\ xh_dirty'
    BY <2>1, PutIsPut DEF Dict!Next
  <2>2. ASSUME NEW n \in Live, Kill(n) PROVE Dict!Next /\ xh_dirty'
    <3>1. PICK k \in LiveKeys : Dict!Zap(k)
      BY <2>2, KillIsZap
    <3>2. k \in DOMAIN TheDict /\ xh_dirty'
      BY <2>2, KillIsZap
    <3> QED  BY <3>1, <3>2 DEF Dict!Next, TheDict, LiveKeys
  <2>3. ASSUME NEW k \in Keys, xhash_zap(k) PROVE Dict!Next /\ xh_dirty'
    <3>1. PICK n : n = _xhash_node_get(k)
      OBVIOUS
    <3>2. n # NULL /\ Kill(n)
      BY <2>3, <3>1 DEF xhash_zap
    <3>3. n \in Live
      BY <3>1, <3>2, NodeGetIs DEF XHashInv
    <3> QED  BY <2>2, <3>2, <3>3
  <2>4. CASE xhash_iter_zap
    <3>1. iter_node \in Live /\ Kill(iter_node)
      BY <2>4 DEF xhash_iter_zap, XHashInv, Live
    <3> QED  BY <2>2, <3>1
  <2>5. CASE xhash_iter_first \/ xhash_iter_next \/ xhash_dirty \/ UNCHANGED xhashVars
    <3>1. UNCHANGED <<xh_chain, xh_key, xh_val, xh_count>>
      BY <2>5 DEF xhash_iter_first, xhash_iter_next, xhash_dirty, xhashVars
    <3>2. Live' = Live
      BY <3>1 DEF Live, Used
    <3>3. LiveKeys' = LiveKeys
      BY <3>1, <3>2 DEF LiveKeys
    <3>4. \A k : xhash_get(k)' = xhash_get(k)
      BY <3>1 DEF xhash_get, _xhash_node_get, FirstIn
    <3>5. TheDict' = TheDict
      BY <3>3, <3>4 DEF TheDict
    <3> QED  BY <3>1, <3>5 DEF Dict!dictVars, TheDict, LiveKeys
  <2> QED  BY <2>1, <2>3, <2>4, <2>5 DEF XHashNext
<1> QED  BY <1>1, <1>2, XHashInvInit, XHashInvNext, PTL
         DEF XHashSpec, ImplementsDictionary, Dict!Spec

(* Of the walks over lists and tables at once.                             *)
THEOREM WalksAlwaysSeeAll == XHashSpec /\ JListSpec => []WalksSeeAll
BY TablesAreWhole, ListsAreLinked, PTL DEF WalksSeeAll
=============================================================================
