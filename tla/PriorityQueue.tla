---------------------------- MODULE PriorityQueue ----------------------------
(***************************************************************************)
(* What a jqueue promises: the item that is pulled is one of the smallest  *)
(* priority number, and among those the one that was pushed first.  Module *)
(* JQueue, the linked list of jqueue.c, implements it.                     *)
(***************************************************************************)
EXTENDS Naturals, Sequences

CONSTANTS Data, Priorities

Item == [data : Data, priority : Priorities]

VARIABLES
  items,    \* the items in the queue, in the order in which they are pulled
  pulled    \* the data pulled last, <<>> when the queue was found empty

queueVars == <<items, pulled>>

Init == items = <<>> /\ pulled = <<>>

(* The new item goes behind the first n items, those not after it. *)
Push(d, p) ==
  \E n \in 0 .. Len(items) :
    /\ \A i \in 1 .. n : items[i].priority <= p
    /\ \A i \in n + 1 .. Len(items) : items[i].priority > p
    /\ items' = [i \in 1 .. Len(items) + 1 |->
                   IF i <= n THEN items[i]
                   ELSE IF i = n + 1 THEN [data |-> d, priority |-> p]
                   ELSE items[i - 1]]
    /\ UNCHANGED pulled

Pull ==
  IF items = <<>>
  THEN pulled' = <<>> /\ UNCHANGED items
  ELSE pulled' = <<Head(items).data>> /\ items' = Tail(items)

Next == Pull \/ \E d \in Data, p \in Priorities : Push(d, p)

Spec == Init /\ [][Next]_queueVars
=============================================================================
