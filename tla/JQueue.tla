------------------------------- MODULE JQueue -------------------------------
(***************************************************************************)
(* The linked list behind the work queues of a transfer: cutil/jqueue.c.   *)
(* Nodes are doubly linked from back to front by next and from front to    *)
(* back by prev; pulled nodes go to a cache, a stack linked by next, and   *)
(* are used again before the pool is asked for a new one.                  *)
(*                                                                         *)
(* The smallest priority number is pulled first.                           *)
(***************************************************************************)
EXTENDS Naturals, Sequences, FiniteSets

CONSTANTS
  QData,        \* what may be pushed
  Priorities,  \* the priorities in use; parker itself uses 0 only
  MaxQueued     \* bound: items in the queue at a time

ASSUME JQueueAssumption ==
  /\ QData # {} /\ Priorities # {} /\ Priorities \subseteq Nat
  /\ MaxQueued \in Nat \ {0}

QNull == 0
QNodes == 1 .. MaxQueued
QPointers == QNodes \cup {QNull}

VARIABLES
  \* the fields of a jqueue_st
  jq_size, jq_cache, jq_front, jq_back,
  \* the fields of each node
  jq_data, jq_priority, jq_next, jq_prev,
  jq_allocated,  \* how many nodes the pool has given out
  jq_pulled,     \* what the last jqueue_pull returned, <<>> for NULL
  jq_order       \* history: the nodes of the queue from front to back

jqueueNodeVars == <<jq_data, jq_priority, jq_next, jq_prev>>
jqueueVars == <<jq_size, jq_cache, jq_front, jq_back, jqueueNodeVars, jq_allocated, jq_pulled, jq_order>>

(* jqueue_new *)
JQueueInit ==
  /\ jq_size = 0
  /\ jq_cache = QNull /\ jq_front = QNull /\ jq_back = QNull
  /\ jq_data \in [QNodes -> {CHOOSE d \in QData : TRUE}]
  /\ jq_priority \in [QNodes -> {CHOOSE p \in Priorities : TRUE}]
  /\ jq_next = [n \in QNodes |-> QNull]
  /\ jq_prev = [n \in QNodes |-> QNull]
  /\ jq_allocated = 0
  /\ jq_pulled = <<>>
  /\ jq_order = <<>>

-----------------------------------------------------------------------------
(* The node reached from the back of the queue in i steps along next. *)
QWalk[i \in Nat] ==
  IF i = 0 THEN jq_back
  ELSE IF QWalk[i - 1] = QNull THEN QNull ELSE jq_next[QWalk[i - 1]]

-----------------------------------------------------------------------------
(* Faulty variants, none of them used by Next.                             *)

(* >= instead of >: equal priorities come out last in, first out *)
ScanPastEqual(p) ==
  LET stop == CHOOSE i \in 0 .. MaxQueued :
                /\ QWalk[i] = QNull \/ jq_priority[QWalk[i]] < p
                /\ \A j \in 0 .. i - 1 :
                     QWalk[j] # QNull /\ jq_priority[QWalk[j]] >= p
  IN  QWalk[stop]

(* the back pointer survives the last node *)
KeepBack(n) == jq_back' = jq_back

-----------------------------------------------------------------------------
(* for (scan = q->back; scan != NULL && scan->priority > priority; ...) *)
QScan(p) ==
  LET stop == CHOOSE i \in 0 .. MaxQueued :
                /\ QWalk[i] = QNull \/ jq_priority[QWalk[i]] <= p
                /\ \A j \in 0 .. i - 1 :
                     QWalk[j] # QNull /\ jq_priority[QWalk[j]] > p
  IN  QWalk[stop]

(* A node from the cache, or a new one from the pool. *)
FreshNode == IF jq_cache # QNull THEN jq_cache ELSE jq_allocated + 1

TakeNode ==
  IF jq_cache # QNull
  THEN jq_cache' = jq_next[jq_cache] /\ UNCHANGED jq_allocated
  ELSE jq_allocated' = jq_allocated + 1 /\ UNCHANGED jq_cache

(* the first item of an empty queue *)
LinkAlone(n) ==
  /\ jq_front' = n /\ jq_back' = n
  /\ jq_next' = [jq_next EXCEPT ![n] = QNull]
  /\ jq_prev' = [jq_prev EXCEPT ![n] = QNull]
  /\ jq_order' = <<n>>

(* all the others have a larger number: n becomes the front *)
LinkInFront(n) ==
  /\ jq_next' = [jq_next EXCEPT ![n] = QNull, ![jq_front] = n]
  /\ jq_prev' = [jq_prev EXCEPT ![n] = jq_front]
  /\ jq_front' = n
  /\ jq_order' = <<n>> \o jq_order
  /\ UNCHANGED jq_back

(* n goes between scan and the node behind it *)
LinkBehind(n, scan) ==
  /\ jq_next' = [m \in QNodes |-> IF m = n THEN scan
                              ELSE IF m = jq_prev[scan] THEN n ELSE jq_next[m]]
  /\ jq_prev' = [jq_prev EXCEPT ![n] = jq_prev[scan], ![scan] = n]
  /\ jq_back' = IF jq_prev[scan] = QNull THEN n ELSE jq_back
  /\ LET at == CHOOSE i \in 1 .. Len(jq_order) : jq_order[i] = scan
     IN  jq_order' = SubSeq(jq_order, 1, at) \o <<n>>
                    \o SubSeq(jq_order, at + 1, Len(jq_order))
  /\ UNCHANGED jq_front

(* jqueue_push *)
jqueue_push(d, p) ==
  LET n == FreshNode
      scan == QScan(p)
  IN  /\ jq_size < MaxQueued
      /\ jq_size' = jq_size + 1
      /\ TakeNode
      /\ jq_data' = [jq_data EXCEPT ![n] = d]
      /\ jq_priority' = [jq_priority EXCEPT ![n] = p]
      /\ \/ jq_back = QNull /\ jq_front = QNull /\ LinkAlone(n)
         \/ ~ (jq_back = QNull /\ jq_front = QNull) /\ scan = QNull /\ LinkInFront(n)
         \/ ~ (jq_back = QNull /\ jq_front = QNull) /\ scan # QNull
              /\ LinkBehind(n, scan)
      /\ UNCHANGED jq_pulled

(* the links of the pulled node n: its neighbour forgets it and it becomes *)
(* the first of the cache                                                  *)
QCut(n) ==
  jq_next' = [m \in QNodes |-> IF m = n THEN jq_cache
                           ELSE IF m = jq_prev[n] THEN QNull ELSE jq_next[m]]

ToCache(n) == jq_cache' = n

NewBack(n) == jq_back' = IF jq_prev[n] = QNull THEN QNull ELSE jq_back

(* jqueue_pull *)
PullEmpty ==
  /\ jq_front = QNull
  /\ jq_pulled' = <<>>
  /\ UNCHANGED <<jq_size, jq_cache, jq_front, jq_back, jqueueNodeVars, jq_allocated, jq_order>>

PullFront ==
  /\ jq_front # QNull
  /\ jq_pulled' = <<jq_data[jq_front]>>
  /\ QCut(jq_front) /\ ToCache(jq_front) /\ NewBack(jq_front)
  /\ jq_front' = jq_prev[jq_front]
  /\ jq_size' = jq_size - 1
  /\ jq_order' = Tail(jq_order)
  /\ UNCHANGED <<jq_data, jq_priority, jq_prev, jq_allocated>>

JQueueNext ==
  \/ PullEmpty \/ PullFront
  \/ \E d \in QData, p \in Priorities : jqueue_push(d, p)

JQueueSpec == JQueueInit /\ [][JQueueNext]_jqueueVars

-----------------------------------------------------------------------------
(* The nodes of the cache, from its top. *)
Cached[i \in Nat] ==
  IF i = 0 THEN jq_cache
  ELSE IF Cached[i - 1] = QNull THEN QNull ELSE jq_next[Cached[i - 1]]

CacheNodes == {Cached[i] : i \in 0 .. MaxQueued} \ {QNull}
QueueNodes == {jq_order[i] : i \in 1 .. Len(jq_order)}

JQueueTypeOK ==
  /\ jq_size \in 0 .. MaxQueued
  /\ jq_cache \in QPointers /\ jq_front \in QPointers /\ jq_back \in QPointers
  /\ jq_data \in [QNodes -> QData]
  /\ jq_priority \in [QNodes -> Priorities]
  /\ jq_next \in [QNodes -> QPointers]
  /\ jq_prev \in [QNodes -> QPointers]
  /\ jq_allocated \in 0 .. MaxQueued
  /\ jq_pulled \in Seq(QData)
  /\ jq_order \in Seq(QNodes)

(* The two chains and the two ends of the list describe the same sequence  *)
(* of nodes, which is as long as jqueue_size says: this is what            *)
(* jqueue_first, jqueue_last and the iteration from the back rely on.      *)
ChainsAgree ==
  LET len == Len(jq_order)
  IN  /\ jq_size = len
      /\ len = 0 => jq_front = QNull /\ jq_back = QNull
      /\ len # 0 =>
           /\ jq_front = jq_order[1] /\ jq_back = jq_order[len]
           /\ jq_next[jq_front] = QNull /\ jq_prev[jq_back] = QNull
      /\ \A i \in 1 .. len - 1 :
           jq_prev[jq_order[i]] = jq_order[i + 1] /\ jq_next[jq_order[i + 1]] = jq_order[i]

(* A node the pool has given out is either in the queue or in the cache,   *)
(* never in both, never lost: a queue grows with the number of items it    *)
(* has held at a time, not with the number that went through it.           *)
NodesAreKept ==
  /\ QueueNodes \cap CacheNodes = {}
  /\ QueueNodes \cup CacheNodes = 1 .. jq_allocated

(* jqueue.c implements the priority queue.                                 *)
Queued == [i \in 1 .. Len(jq_order) |->
            [data |-> jq_data[jq_order[i]], priority |-> jq_priority[jq_order[i]]]]

JQueuePromise == INSTANCE PriorityQueue WITH Data <- QData, items <- Queued, pulled <- jq_pulled

ImplementsPriorityQueue == JQueuePromise!Spec
=============================================================================
