------------------------------ MODULE ItemList ------------------------------
(***************************************************************************)
(* What a list of items promises: items are added at the end and taken     *)
(* from the front, the first item that a predicate holds for can be taken  *)
(* out, and the list knows how many it has.                                *)
(***************************************************************************)
EXTENDS Integers, Sequences, SequencesExt

CONSTANT Item

VARIABLES
  items,
  size     \* what the list says of their number

itemListVars == <<items, size>>

Init == items = <<>> /\ size = 0

Push(x) == items' = Append(items, x) /\ size' = size + 1

Pull == items # <<>> /\ items' = Tail(items) /\ size' = size - 1

TakeFirst(S) ==
  \E i \in DOMAIN items :
    /\ items[i] \in S /\ \A j \in 1 .. i - 1 : items[j] \notin S
    /\ items' = RemoveAt(items, i)
    /\ size' = size - 1

Next == (\E x \in Item : Push(x)) \/ Pull \/ (\E S \in SUBSET Item : TakeFirst(S))

Spec == Init /\ [][Next]_itemListVars
=============================================================================
