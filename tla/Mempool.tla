------------------------------ MODULE Mempool ------------------------------
(***************************************************************************)
(* The pool of small blocks of cutil/mempool.c: a freelist for each of     *)
(* _MEMPOOL_NFREELISTS sizes, whose blocks are linked through their first  *)
(* word, and a mutex if the pool was made for several threads (bmt).       *)
(*                                                                         *)
(* A block remembers its size in front of what the client sees.  The       *)
(* thread keeps in pobj what it has read of the freelist between reading   *)
(* and writing it.  The unlocking of a mutex that nobody has locked, which *)
(* happens without bmt, has no effect.                                     *)
(***************************************************************************)
EXTENDS Integers, Sequences, FiniteSets

CONSTANTS
  Threads,
  Asked,    \* the sizes that are asked for
  align,    \* 2 to the align_shift of mempool_new
  _MEMPOOL_NFREELISTS,
  MaxBlocks     \* bound: blocks from malloc

ASSUME MempoolAssumption ==
  /\ align \in Nat \ {0} /\ _MEMPOOL_NFREELISTS \in Nat \ {0} /\ MaxBlocks \in Nat
  /\ \A n \in Asked : n \in Nat \ {0}

max_bytes == align * _MEMPOOL_NFREELISTS

(* mempool_new has 16 sizes, _MEMPOOL_NFREELISTS of them.                  *)
Lists == 0 .. _MEMPOOL_NFREELISTS - 1
Blocks == 1 .. MaxBlocks
None == 0

VARIABLES
  mp_bmt,      \* does the pool have a mutex?
  mp_head,     \* _free_list
  mp_link,     \* free_list_link of each block
  mp_size,     \* the size in front of each block; 0 when it is not allocated
  mp_lock,     \* the threads that hold the mutex: one at most if there is one
  mp_pc, mp_pobj, mp_n, mp_block,   \* of each thread
  mp_held,     \* history: for each thread the blocks it has been given: <<block, asked for>>
  mp_twice     \* history: was a block freed that was not allocated?

mempoolVars == <<mp_bmt, mp_head, mp_link, mp_size, mp_lock, mp_pc, mp_pobj, mp_n, mp_block,
                 mp_held, mp_twice>>

(* Without a mutex one thread uses the pool.                               *)
User == CHOOSE t \in Threads : TRUE
Users == IF mp_bmt THEN Threads ELSE {User}

MempoolInit ==
  /\ mp_bmt \in BOOLEAN
  /\ mp_head = [i \in Lists |-> None]
  /\ mp_link = [b \in Blocks |-> None]
  /\ mp_size = [b \in Blocks |-> 0]
  /\ mp_lock = {}
  /\ mp_pc = [t \in Threads |-> "idle"]
  /\ mp_pobj = [t \in Threads |-> None]
  /\ mp_n = [t \in Threads |-> 0]
  /\ mp_block = [t \in Threads |-> None]
  /\ mp_held = [t \in Threads |-> {}]
  /\ mp_twice = FALSE

-----------------------------------------------------------------------------
_round_up(n) == ((n + align - 1) \div align) * align
_FREELIST_INDEX(n) == (n - 1) \div align

(* What a thread has read is of no use once it is idle.                    *)
Ends(t) ==
  /\ mp_pc' = [mp_pc EXCEPT ![t] = "idle"]
  /\ mp_pobj' = [mp_pobj EXCEPT ![t] = None]
  /\ mp_n' = [mp_n EXCEPT ![t] = 0]
  /\ mp_block' = [mp_block EXCEPT ![t] = None]

Idle(t) == t \in Users /\ mp_pc[t] = "idle"
Goto(t, pc) == mp_pc' = [mp_pc EXCEPT ![t] = pc]

(* nobody waits *)
pthread_mutex_lock_never(t) == mp_lock' = mp_lock \cup {t}

pthread_mutex_lock(t) == (mp_bmt => mp_lock = {}) /\ mp_lock' = mp_lock \cup {t}
pthread_mutex_unlock(t) == mp_lock' = mp_lock \ {t}

Fresh == {b \in Blocks : mp_size[b] = 0}

(* _new: a block of malloc, for n bytes.                                   *)
_new(t, n, asked) ==
  /\ Fresh # {}
  /\ LET b == CHOOSE b \in Fresh : \A c \in Fresh : b <= c
     IN  /\ mp_size' = [mp_size EXCEPT ![b] = n]
         /\ mp_held' = [mp_held EXCEPT ![t] = @ \cup {<<b, asked>>}]

(* allocate, for more than the largest size.                               *)
AllocateLarge(t, n) ==
  /\ Idle(t) /\ n > max_bytes
  /\ _new(t, n, n)
  /\ UNCHANGED <<mp_bmt, mp_head, mp_link, mp_lock, mp_pc, mp_pobj, mp_n, mp_block, mp_twice>>

(* _pool_allocate                                                          *)
AllocateBegins(t, n) ==
  /\ Idle(t) /\ n <= max_bytes
  /\ pthread_mutex_lock(t)
  /\ mp_n' = [mp_n EXCEPT ![t] = n]
  /\ mp_pobj' = [mp_pobj EXCEPT ![t] = mp_head[_FREELIST_INDEX(_round_up(n))]]
  /\ Goto(t, "allocate")
  /\ UNCHANGED <<mp_bmt, mp_head, mp_link, mp_size, mp_block, mp_held, mp_twice>>

(* The mutex is given back before _new is called.                          *)
AllocateNew(t) ==
  /\ mp_pc[t] = "allocate" /\ mp_pobj[t] = None
  /\ pthread_mutex_unlock(t)
  /\ Goto(t, "new")
  /\ UNCHANGED <<mp_bmt, mp_head, mp_link, mp_size, mp_pobj, mp_n, mp_block, mp_held, mp_twice>>

NewEnds(t) ==
  /\ mp_pc[t] = "new"
  /\ _new(t, _round_up(mp_n[t]), mp_n[t])
  /\ Ends(t)
  /\ UNCHANGED <<mp_bmt, mp_head, mp_link, mp_lock, mp_twice>>

(* The client writes over the link of the block it gets.                   *)
AllocateFromList(t) ==
  LET pobj == mp_pobj[t]
  IN  /\ mp_pc[t] = "allocate" /\ pobj # None
      /\ mp_head' = [mp_head EXCEPT ![_FREELIST_INDEX(_round_up(mp_n[t]))] = mp_link[pobj]]
      /\ mp_held' = [mp_held EXCEPT ![t] = @ \cup {<<pobj, mp_n[t]>>}]
      /\ mp_link' = [mp_link EXCEPT ![pobj] = None]
      /\ pthread_mutex_unlock(t)
      /\ Ends(t)
      /\ UNCHANGED <<mp_bmt, mp_size, mp_twice>>

(* deallocate, by the size that the block remembers.                       *)
DeallocateLarge(t) ==
  /\ Idle(t)
  /\ \E h \in mp_held[t] :
       /\ mp_size[h[1]] > max_bytes
       /\ mp_size' = [mp_size EXCEPT ![h[1]] = 0]
       /\ mp_held' = [mp_held EXCEPT ![t] = @ \ {h}]
  /\ UNCHANGED <<mp_bmt, mp_head, mp_link, mp_lock, mp_pc, mp_pobj, mp_n, mp_block, mp_twice>>

(* _pool_deallocate                                                        *)
DeallocateBegins(t) ==
  /\ Idle(t)
  /\ \E h \in mp_held[t] :
       /\ mp_size[h[1]] <= max_bytes
       /\ pthread_mutex_lock(t)
       /\ mp_held' = [mp_held EXCEPT ![t] = @ \ {h}]
       /\ mp_block' = [mp_block EXCEPT ![t] = h[1]]
       /\ mp_n' = [mp_n EXCEPT ![t] = mp_size[h[1]]]
       /\ mp_pobj' = [mp_pobj EXCEPT ![t] = mp_head[_FREELIST_INDEX(_round_up(mp_size[h[1]]))]]
  /\ Goto(t, "deallocate")
  /\ UNCHANGED <<mp_bmt, mp_head, mp_link, mp_size, mp_twice>>

DeallocateEnds(t) ==
  /\ mp_pc[t] = "deallocate"
  /\ mp_head' = [mp_head EXCEPT ![_FREELIST_INDEX(_round_up(mp_n[t]))] = mp_block[t]]
  /\ mp_link' = [mp_link EXCEPT ![mp_block[t]] = mp_pobj[t]]
  /\ pthread_mutex_unlock(t)
  /\ Ends(t)
  /\ UNCHANGED <<mp_bmt, mp_size, mp_held, mp_twice>>

(* shrink frees what is in the freelists, under the mutex: what a walk     *)
(* along the links from the head of a list comes to.                       *)
ListOf(i) ==
  LET At[k \in 0 .. MaxBlocks] ==
        IF k = 0 THEN mp_head[i]
                 ELSE IF At[k - 1] = None THEN None ELSE mp_link[At[k - 1]]
  IN  {At[k] : k \in 0 .. MaxBlocks} \ {None}

OnLists == UNION {ListOf(i) : i \in Lists}

shrink(t) ==
  /\ Idle(t) /\ (mp_bmt => mp_lock = {})
  /\ mp_twice' = (mp_twice \/ \E b \in OnLists : mp_size[b] = 0)
  /\ mp_size' = [b \in Blocks |-> IF b \in OnLists THEN 0 ELSE mp_size[b]]
  /\ mp_link' = [b \in Blocks |-> IF b \in OnLists THEN None ELSE mp_link[b]]
  /\ mp_head' = [i \in Lists |-> None]
  /\ UNCHANGED <<mp_bmt, mp_lock, mp_pc, mp_pobj, mp_n, mp_block, mp_held>>

MempoolNext ==
  \E t \in Threads :
    \/ \E n \in Asked : AllocateLarge(t, n) \/ AllocateBegins(t, n)
    \/ AllocateNew(t) \/ NewEnds(t) \/ AllocateFromList(t)
    \/ DeallocateLarge(t) \/ DeallocateBegins(t) \/ DeallocateEnds(t)
    \/ shrink(t)

MempoolSpec == MempoolInit /\ [][MempoolNext]_mempoolVars

-----------------------------------------------------------------------------
Held == UNION {mp_held[t] : t \in Threads}

(* A block is with one client, or in one freelist, or with the thread that *)
(* gives it back: never with two clients, whatever the threads do at once. *)
(* None that a client holds has been freed, and none is freed twice.       *)
BlockHasOneOwner ==
  /\ ~ mp_twice
  /\ \A t, u \in Threads : \A g \in mp_held[t], h \in mp_held[u] :
       g[1] = h[1] => t = u /\ g = h
  /\ \A h \in Held : mp_size[h[1]] > 0 /\ h[1] \notin OnLists
  /\ \A i, j \in Lists : i # j => ListOf(i) \cap ListOf(j) = {}

(* A client gets a block that is large enough for what it has asked for,   *)
(* also when the block comes from a freelist and was made for another      *)
(* request.                                                                *)
BlockIsLargeEnough == \A h \in Held : mp_size[h[1]] >= h[2]
=============================================================================
