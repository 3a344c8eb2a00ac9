----------------------------- MODULE JsonItems -----------------------------
(***************************************************************************)
(* The trees of json/cJSON.c as their callers build and change them: items *)
(* with child, next and prev links and a key (string), which the item owns *)
(* unless it is a constant of the caller's.  A reference is an item with   *)
(* the children of another, which it does not own.                         *)
(*                                                                         *)
(* The callers keep to what the functions take for granted: an item that   *)
(* is added is in no list, and a list with references to it stays.  Two    *)
(* more calls are left out, because a key is lost by them: an item with a  *)
(* key of its own in cJSON_ReplaceItemInObject, and a constant key in      *)
(* cJSON_AddItemToObject, cJSON_Duplicate or a reference to an object's.   *)
(***************************************************************************)
EXTENDS Integers, Sequences, FiniteSets, SequencesExt, FiniteSetsExt

CONSTANT MaxNodes_    \* bound: items that malloc has memory for

null == 0
JsonNodes == 1 .. MaxNodes_

ASSUME JsonItemsAssumption == MaxNodes_ \in Nat

VARIABLES
  ji_item,   \* the items that are allocated
  ji_root,   \* history: those that the caller holds, in no list
  ji_keys,   \* how many keys are allocated
  ji_order   \* history: the children of each item, as the calls gave them

jsonItemsVars == <<ji_item, ji_root, ji_keys, ji_order>>

JsonItemsInit ==
  /\ ji_item = [i \in {} |-> 0]
  /\ ji_root = {}
  /\ ji_keys = 0
  /\ ji_order = [i \in {} |-> <<>>]

-----------------------------------------------------------------------------
RECURSIVE Siblings(_, _)
Siblings(items, c) == IF c = null THEN <<>> ELSE <<c>> \o Siblings(items, items[c].next)

Children(items, i) == Siblings(items, items[i].child)

Nth(items, array, which) ==
  IF which < Len(Children(items, array)) THEN Children(items, array)[which + 1] ELSE null

FreshItem(items) == CHOOSE i \in JsonNodes \ DOMAIN items : \A j \in JsonNodes \ DOMAIN items : i <= j

NewItem == [child |-> null, next |-> null, prev |-> null, key |-> "none", ref |-> FALSE]

With(items, i, item) == [j \in DOMAIN items \cup {i} |-> IF j = i THEN item ELSE items[j]]

(* c->field = value; nothing if c is NULL                                  *)
SetNext(items, c, value) == IF c = null THEN items ELSE [items EXCEPT ![c].next = value]
SetPrev(items, c, value) == IF c = null THEN items ELSE [items EXCEPT ![c].prev = value]

AddItemToArray(items, array, item) ==
  IF items[array].child = null
  THEN [items EXCEPT ![array].child = item]
  ELSE LET last == Last(Children(items, array))
       IN  SetPrev(SetNext(items, last, item), item, last)

DetachItemFromArray(items, array, c) ==
  LET linked == SetPrev(SetNext(items, items[c].prev, items[c].next), items[c].next, items[c].prev)
      headed == IF items[array].child = c
                THEN [linked EXCEPT ![array].child = items[c].next] ELSE linked
  IN  [headed EXCEPT ![c].next = null, ![c].prev = null]

(* What is before c goes to the new item, which becomes the first if c     *)
(* was.                                                                    *)
PutBefore(items, array, c, newitem) ==
  LET before == items[c].prev
      linked == [items EXCEPT ![newitem].next = c, ![newitem].prev = before, ![c].prev = newitem]
  IN  IF items[array].child = c
      THEN [linked EXCEPT ![array].child = newitem]
      ELSE SetNext(linked, before, newitem)

(* the item after keeps its link to the one that goes *)
PutInPlaceOfForgetful(items, array, c, newitem) ==
  LET linked == [items EXCEPT ![newitem].next = items[c].next, ![newitem].prev = items[c].prev]
      headed == IF items[array].child = c
                THEN [linked EXCEPT ![array].child = newitem]
                ELSE SetNext(linked, items[c].prev, newitem)
  IN  [headed EXCEPT ![c].next = null, ![c].prev = null]

PutInPlaceOf(items, array, c, newitem) ==
  LET next == items[c].next
      prev == items[c].prev
      linked == SetPrev([items EXCEPT ![newitem].next = next, ![newitem].prev = prev], next, newitem)
      headed == IF items[array].child = c
                THEN [linked EXCEPT ![array].child = newitem]
                ELSE SetNext(linked, prev, newitem)
  IN  [headed EXCEPT ![c].next = null, ![c].prev = null]

(* The items that cJSON_Delete frees: with its siblings behind it, and     *)
(* with the children of each but those of a reference.                     *)
RECURSIVE Freed(_, _), FreedWithReferences(_, _)
(* All that hangs below an item.                                          *)
FreedWithReferences(items, c) ==
  IF c = null THEN {}
  ELSE {c} \cup FreedWithReferences(items, items[c].next)
           \cup FreedWithReferences(items, items[c].child)

Freed(items, c) ==
  IF c = null THEN {}
  ELSE {c} \cup Freed(items, items[c].next)
           \cup (IF items[c].ref THEN {} ELSE Freed(items, items[c].child))

OwnKeys(items, S) == Cardinality({i \in S : items[i].key = "own"})

RECURSIVE CopyOf(_, _)
(* cJSON_Duplicate: the copy of a reference owns its children.             *)
CopyOf(items, i) ==
  LET id == FreshItem(items)
      bare == With(items, id, [NewItem EXCEPT !.key = items[i].key])
      Child(copy, c) == LET made == CopyOf(copy, c)
                        IN  AddItemToArray(made, id, FreshItem(copy))
  IN  FoldLeft(Child, bare, Children(items, i))

RECURSIVE Size(_, _)
Size(items, i) == 1 + FoldLeft(LAMBDA n, c : n + Size(items, c), 0, Children(items, i))

-----------------------------------------------------------------------------
Referred(i) ==
  \E j \in DOMAIN ji_item : ji_item[j].ref /\ ji_item[j].child # null
                            /\ ji_item[j].child = ji_item[i].child
OwnLists == {i \in DOMAIN ji_item : ~ ji_item[i].ref /\ ~ Referred(i)}
Removable(i) == \A j \in Freed(ji_item, i) : ~ ji_item[j].ref => ~ Referred(j)
Addable(array, item) == item \in ji_root /\ array \notin FreedWithReferences(ji_item, item)

(* The caller holds an item that is made or detached.                      *)
Create ==
  /\ DOMAIN ji_item # JsonNodes
  /\ LET id == FreshItem(ji_item)
     IN  /\ ji_item' = With(ji_item, id, NewItem)
         /\ ji_order' = With(ji_order, id, <<>>)
         /\ ji_root' = ji_root \cup {id}
  /\ UNCHANGED ji_keys

Keyed(items, item, key) == [items EXCEPT ![item].key = key]

AddItem ==
  \E array \in OwnLists, key \in {"none", "own", "const"} : \E item \in ji_root :
    /\ Addable(array, item)
    /\ key = "own" => ji_item[item].key # "const"
    /\ ji_item' = AddItemToArray(IF key = "none" THEN ji_item ELSE Keyed(ji_item, item, key), array, item)
    /\ ji_keys' = ji_keys + (CASE key = "none" -> 0
                               [] key = "own" -> IF ji_item[item].key = "own" THEN 0 ELSE 1
                               [] key = "const" -> -OwnKeys(ji_item, {item}))
    /\ ji_order' = [ji_order EXCEPT ![array] = Append(@, item)]
    /\ ji_root' = ji_root \ {item}

(* The reference of an item has no key yet.                                *)
AddReference ==
  \E array \in OwnLists, key \in {"none", "own"} : \E item \in DOMAIN ji_item :
    /\ DOMAIN ji_item # JsonNodes /\ array \notin FreedWithReferences(ji_item, item)
    /\ ji_item[item].key # "const"
    /\ LET id == FreshItem(ji_item)
           made == With(ji_item, id, [NewItem EXCEPT !.child = ji_item[item].child, !.ref = TRUE, !.key = key])
       IN  /\ ji_item' = AddItemToArray(made, array, id)
           /\ ji_order' = With([ji_order EXCEPT ![array] = Append(@, id)], id, <<>>)
    /\ ji_keys' = ji_keys + (IF key = "own" THEN 1 ELSE 0)
    /\ UNCHANGED ji_root

Detach ==
  \E array \in OwnLists : \E which \in 0 .. Len(ji_order[array]) - 1 :
    LET c == Nth(ji_item, array, which)
    IN  /\ ji_item' = DetachItemFromArray(ji_item, array, c)
        /\ ji_order' = [ji_order EXCEPT ![array] = RemoveAt(@, which + 1)]
        /\ ji_root' = ji_root \cup {c}
        /\ UNCHANGED ji_keys

(* After what is done to the others, the item is deleted.                  *)
DeleteAfter(items, order, item) ==
  LET freed == Freed(items, item)
  IN  /\ ji_item' = [i \in DOMAIN items \ freed |-> items[i]]
      /\ ji_order' = [i \in DOMAIN items \ freed |-> order[i]]
      /\ ji_keys' = ji_keys - OwnKeys(items, freed)

DeleteItem ==
  \E item \in ji_root :
    /\ Removable(item)
    /\ DeleteAfter(ji_item, ji_order, item)
    /\ ji_root' = ji_root \ {item}

InsertItem ==
  \E array \in OwnLists : \E item \in ji_root, which \in 0 .. Len(ji_order[array]) :
    /\ Addable(array, item)
    /\ LET c == Nth(ji_item, array, which)
       IN  ji_item' = IF c = null THEN AddItemToArray(ji_item, array, item)
                      ELSE PutBefore(ji_item, array, c, item)
    /\ ji_order' = [ji_order EXCEPT ![array] = InsertAt(@, which + 1, item)]
    /\ ji_root' = ji_root \ {item}
    /\ UNCHANGED ji_keys

Replace ==
  \E array \in OwnLists : \E item \in ji_root, which \in 0 .. Len(ji_order[array]) - 1 :
    LET c == Nth(ji_item, array, which)
    IN  /\ Addable(array, item) /\ Removable(c)
        /\ DeleteAfter(PutInPlaceOf(ji_item, array, c, item),
                  [ji_order EXCEPT ![array] = ReplaceAt(@, which + 1, item)], c)
        /\ ji_root' = ji_root \ {item}

(* Without memory for all of the copy what there is of it is freed.        *)
Duplicate ==
  \E item \in DOMAIN ji_item :
    /\ Cardinality(JsonNodes \ DOMAIN ji_item) >= Size(ji_item, item)
    /\ \A i \in DOMAIN ji_item : ji_item[i].key # "const"
    /\ LET id == FreshItem(ji_item)
           copied == CopyOf(ji_item, item)
           made == DOMAIN copied \ DOMAIN ji_item
       IN  /\ ji_item' = copied
           /\ ji_order' = [i \in DOMAIN copied |->
                             IF i \in made THEN Children(copied, i) ELSE ji_order[i]]
           /\ ji_root' = ji_root \cup {id}
           /\ ji_keys' = ji_keys + OwnKeys(copied, made)

JsonItemsNext ==
  \/ Create \/ AddItem \/ AddReference \/ Detach \/ DeleteItem
  \/ InsertItem \/ Replace \/ Duplicate

JsonItemsSpec == JsonItemsInit /\ [][JsonItemsNext]_jsonItemsVars

-----------------------------------------------------------------------------
(* After any calls the links of a list, forth and back, give the children  *)
(* that were put into it, in the order they were put.                      *)
ChildrenInOrder ==
  \A i \in OwnLists :
    LET list == ji_order[i]
    IN  /\ Children(ji_item, i) = list
        /\ \A k \in DOMAIN list : ji_item[list[k]].prev = IF k = 1 THEN null ELSE list[k - 1]

(* Each item can be freed, once: it hangs in one list or the caller holds  *)
(* it.  Each key that is allocated has one item that frees it: none is     *)
(* left behind, and no constant is freed.                                  *)
ItemsOwnedOnce ==
  /\ \A i \in DOMAIN ji_item :
       Cardinality({r \in ji_root : i \in Freed(ji_item, r)}) = 1
  /\ ji_keys = OwnKeys(ji_item, DOMAIN ji_item)
=============================================================================
