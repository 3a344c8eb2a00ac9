-------------------------------- MODULE Pool --------------------------------
(***************************************************************************)
(* A memory pool of cutil/pool.c: what is allocated from it is freed with  *)
(* it, after the callbacks of its cleanup list.  Small requests are cut    *)
(* from a heap, if the pool has one; when one does not fit a new heap of   *)
(* the same size takes its place, and the old one is freed with the pool.  *)
(***************************************************************************)
EXTENDS Integers, Sequences, FiniteSets, SequencesExt

CONSTANTS
  HeapSizes,    \* what pool_heap is called with
  Sizes,        \* what pmalloc is called with
  MaxTrackers   \* bound: entries of the cleanup list

ASSUME PoolAssumption ==
  /\ \A n \in HeapSizes : n \in Nat \ {0}
  /\ \A n \in Sizes : n \in Nat \ {0}
  /\ MaxTrackers \in Nat

VARIABLES
  pl_pc,        \* "none", "open", "freeing", "freed"; "wild" once a link was written
                \* through a tail that was never set
  pl_blocks,    \* the blocks from malloc: [size, live, heap], by number
  pl_heap,      \* p->heap: the number of its block, or 0
  pl_used,      \* p->heap->used
  pl_size,      \* p->size
  pl_list,      \* the cleanup list: <<"free", block>>, <<"user", n>>
  pl_tail,      \* is cleanup_tail set?
  pl_parts,     \* history: what pmalloc has returned: [block, from, size]
  pl_wrong      \* history: was a block freed twice, or too early for a callback?

poolVars == <<pl_pc, pl_blocks, pl_heap, pl_used, pl_size, pl_list, pl_tail, pl_parts, pl_wrong>>

PoolInit ==
  /\ pl_pc = "none" /\ pl_blocks = <<>> /\ pl_heap = 0 /\ pl_used = 0 /\ pl_size = 0
  /\ pl_list = <<>> /\ pl_tail = FALSE /\ pl_parts = <<>> /\ pl_wrong = FALSE

-----------------------------------------------------------------------------
NewBlock == Len(pl_blocks) + 1

Tracker(block) == <<"free", block>>

(* A block of malloc whose tracker goes to the end of the cleanup list.    *)
(* With callbacks alone in the list cleanup_tail was never set.            *)
Allocate(size) ==
  /\ Len(pl_list) < MaxTrackers
  /\ pl_blocks' = Append(pl_blocks, [size |-> size, live |-> TRUE])
  /\ pl_size' = pl_size + size
  /\ IF pl_list # <<>> /\ ~ pl_tail
     THEN pl_pc' = "wild" /\ UNCHANGED <<pl_list, pl_tail>>
     ELSE /\ pl_pc' = "open"
          /\ pl_list' = Append(pl_list, Tracker(NewBlock))
          /\ pl_tail' = TRUE

_pool_new ==
  /\ pl_pc = "none"
  /\ pl_pc' = "open"
  /\ UNCHANGED <<pl_blocks, pl_heap, pl_used, pl_size, pl_list, pl_tail, pl_parts, pl_wrong>>

_pool_new_heap(size) ==
  /\ pl_pc = "none"
  /\ Allocate(size)
  /\ pl_heap' = NewBlock /\ pl_used' = 0
  /\ UNCHANGED <<pl_parts, pl_wrong>>

HeapSize == pl_blocks[pl_heap].size

Raw(size) == pl_heap # 0 => size > HeapSize \div 2

(* From four bytes on a part begins at a multiple of eight.                *)
Aligned(size) == IF size >= 4 THEN ((pl_used + 7) \div 8) * 8 ELSE pl_used

FitsAt(start, size) == size <= HeapSize - start

Part(block, start, size) ==
  pl_parts' = Append(pl_parts, [block |-> block, start |-> start, size |-> size])

pmalloc(size) ==
  /\ pl_pc = "open"
  /\ \/ /\ Raw(size)
        /\ Allocate(size) /\ Part(NewBlock, 0, size)
        /\ UNCHANGED <<pl_heap, pl_used>>
     \/ /\ ~ Raw(size) /\ ~ FitsAt(Aligned(size), size)
        /\ Allocate(HeapSize) /\ Part(NewBlock, 0, size)
        /\ pl_heap' = NewBlock /\ pl_used' = size
     \/ /\ ~ Raw(size) /\ FitsAt(Aligned(size), size)
        /\ Part(pl_heap, Aligned(size), size)
        /\ pl_used' = Aligned(size) + size
        /\ UNCHANGED <<pl_pc, pl_blocks, pl_heap, pl_size, pl_list, pl_tail>>
  /\ UNCHANGED pl_wrong

pool_cleanup ==
  /\ pl_pc = "open" /\ Len(pl_list) < MaxTrackers
  /\ pl_list' = <<<<"user", Len(pl_list)>>>> \o pl_list
  /\ UNCHANGED <<pl_pc, pl_blocks, pl_heap, pl_used, pl_size, pl_tail, pl_parts, pl_wrong>>

(* pool_free calls one tracker after the other; a callback may use all     *)
(* that was allocated from the pool.                                       *)
pool_free ==
  /\ pl_pc \in {"open", "freeing"}
  /\ IF pl_list = <<>>
     THEN pl_pc' = "freed" /\ UNCHANGED <<pl_list, pl_blocks, pl_wrong>>
     ELSE LET tracker == Head(pl_list)
          IN  /\ pl_pc' = "freeing"
              /\ pl_list' = Tail(pl_list)
              /\ IF tracker[1] = "free"
                 THEN /\ pl_blocks' = [pl_blocks EXCEPT ![tracker[2]].live = FALSE]
                      /\ pl_wrong' = (pl_wrong \/ ~ pl_blocks[tracker[2]].live)
                 ELSE /\ pl_wrong' = (pl_wrong \/ \E b \in DOMAIN pl_blocks : ~ pl_blocks[b].live)
                      /\ UNCHANGED pl_blocks
  /\ UNCHANGED <<pl_heap, pl_used, pl_size, pl_tail, pl_parts>>

PoolNext ==
  \/ _pool_new \/ \E n \in HeapSizes : _pool_new_heap(n)
  \/ \E n \in Sizes : pmalloc(n) /\ Len(pl_parts) <= MaxTrackers
  \/ pool_cleanup \/ pool_free

PoolSpec == PoolInit /\ [][PoolNext]_poolVars

-----------------------------------------------------------------------------
(* No two parts that pmalloc has returned share a byte, each lies in its   *)
(* block, and one of four bytes or more begins at a multiple of eight.     *)
PartsLieApart ==
  /\ \A k \in DOMAIN pl_parts :
       LET p == pl_parts[k]
       IN  /\ p.start + p.size <= pl_blocks[p.block].size
           /\ p.size >= 4 => p.start % 8 = 0
           /\ \A l \in DOMAIN pl_parts \ {k} :
                LET q == pl_parts[l]
                IN  p.block = q.block => p.start + p.size <= q.start \/ q.start + q.size <= p.start

(* Freeing the pool frees each block once, the heaps that were replaced    *)
(* among them, and runs the callbacks while all of them are still there.   *)
(* That is so unless memory was first asked for after a callback had been  *)
(* put into the empty list.                                                *)
PoolFreesAll ==
  /\ ~ pl_wrong
  /\ pl_pc = "freed" => \A b \in DOMAIN pl_blocks : ~ pl_blocks[b].live
=============================================================================
