----------------------------- MODULE Dictionary -----------------------------
(***************************************************************************)
(* What a dictionary promises: a value for each key that was put and not   *)
(* zapped since, and the number of these keys.                             *)
(***************************************************************************)
EXTENDS Integers

CONSTANTS Key, Value

VARIABLES
  dict,    \* from the keys that are in to their values
  count    \* what the dictionary says of their number

dictVars == <<dict, count>>

Init == dict = [k \in {} |-> k] /\ count = 0

Put(k, v) ==
  /\ dict' = [l \in DOMAIN dict \cup {k} |-> IF l = k THEN v ELSE dict[l]]
  /\ count' = IF k \in DOMAIN dict THEN count ELSE count + 1

Zap(k) ==
  /\ dict' = [l \in DOMAIN dict \ {k} |-> dict[l]]
  /\ count' = count - 1

Next ==
  \/ \E k \in Key, v \in Value : Put(k, v)
  \/ \E k \in DOMAIN dict : Zap(k)

Spec == Init /\ [][Next]_dictVars
=============================================================================
