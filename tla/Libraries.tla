----------------------------- MODULE Libraries -----------------------------
(* The containers and allocators of cutil that the proofs are about.  They *)
(* have no state in common; what is said here is said of all of them.      *)
EXTENDS JQueue, JList, XHash, AvlCopy, Pool, Mempool

(* Both lists: the links in the two directions, the ends and the count say *)
(* the same, and every node that was ever made is in the list or ready to  *)
(* be used again (jqueue.c, jlist.c).                                      *)
ListsAreSound == JQueueTypeOK /\ ChainsAgree /\ NodesAreKept /\ NodesInOneList

(* Who walks a list or a table while it changes under the walk sees each   *)
(* member that stays, and sees it once (jlist.c, xhash.c).                 *)
WalksSeeAll == TableAgrees /\ IterationVisitsOnce /\ WalkSeesThoseThatStay

(* The two allocators: no two parts of a heap and no two blocks in use     *)
(* overlap, each is as large as was asked for, and all is given back once  *)
(* (pool.c, mempool.c).                                                    *)
MemoryHasOneOwner ==
  PartsLieApart /\ PoolFreesAll /\ BlockHasOneOwner /\ BlockIsLargeEnough
============================================================================
