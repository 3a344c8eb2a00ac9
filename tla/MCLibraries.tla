---------------------------- MODULE MCLibraries ----------------------------
(* The containers and helpers of parker for TLC, each by itself: the       *)
(* subject of a behaviour is one of them.                                  *)
EXTENDS Libraries, Tool

\* one hash for two keys, and a third key in the other bucket
MCHash == [k \in {"a", "b", "c"} |-> IF k = "b" THEN 1 ELSE IF k = "a" THEN 0 ELSE 3]

MCDates == {<<0, 0, 0, 1, 2, 3>>, <<0, 0, 0, 5, 0, 0>>, <<2015, 3, 1, 4, 0, 0>>,
            <<2015, 2, 9, 9, 9, 9>>, <<2014, 12, 31, 1, 1, 1>>}

\* the clock at both ends of its ranges, and within a section and on its end
MCClock == {<<115, 0, 1, 0, 0, 0, 4>>, <<99, 11, 31, 23, 59, 59, 5>>,
            <<115, 2, 9, 9, 9, 9, 1>>, <<115, 2, 9, 9, 30, 0, 1>>}
MCSections == {[days |-> {1, 4, 5}, start |-> 0, end |-> 36000],
               [days |-> {1}, start |-> 33000, end |-> 34200],
               [days |-> 0 .. 6, start |-> 80000, end |-> 3600]}

VARIABLE subject   \* the component that is looked at

vars == <<subject, jqueueVars, jlistVars, xhashVars, avlVars, copyVars,
          poolVars, mempoolVars, toolVars, timeTextVars>>

(* A component that is not looked at stays in one of its initial states.    *)
Init ==
  /\ subject \in {"JQueue", "JList", "XHash", "Avl", "AvlCopy", "Pool",
                  "Mempool", "Tool", "TimeText"}
  /\ JQueueInit
  /\ JListInit
  /\ XHashInit
  /\ AvlInit
  /\ IF subject = "AvlCopy" THEN TRUE
     ELSE cp_org = {}
  /\ CopyInit
  /\ PoolInit
  /\ IF subject = "Mempool" THEN TRUE
     ELSE mp_bmt = FALSE
  /\ MempoolInit
  /\ IF subject = "Tool" THEN TRUE
     ELSE to_part = "rate"
  /\ ToolInit
  /\ IF subject = "TimeText" THEN TRUE
     ELSE tt_clock = CHOOSE t \in Clock : TRUE
  /\ TimeTextInit

Next ==
  \/ /\ subject = "JQueue" /\ JQueueNext
     /\ UNCHANGED <<subject, jlistVars, xhashVars, avlVars, copyVars,
                  poolVars, mempoolVars, toolVars, timeTextVars>>
  \/ /\ subject = "JList" /\ JListNext
     /\ UNCHANGED <<subject, jqueueVars, xhashVars, avlVars, copyVars,
                  poolVars, mempoolVars, toolVars, timeTextVars>>
  \/ /\ subject = "XHash" /\ XHashNext
     /\ UNCHANGED <<subject, jqueueVars, jlistVars, avlVars, copyVars,
                  poolVars, mempoolVars, toolVars, timeTextVars>>
  \/ /\ subject = "Avl" /\ AvlNext
     /\ UNCHANGED <<subject, jqueueVars, jlistVars, xhashVars, copyVars,
                  poolVars, mempoolVars, toolVars, timeTextVars>>
  \/ /\ subject = "AvlCopy" /\ CopyNext
     /\ UNCHANGED <<subject, jqueueVars, jlistVars, xhashVars, avlVars,
                  poolVars, mempoolVars, toolVars, timeTextVars>>
  \/ /\ subject = "Pool" /\ PoolNext
     /\ UNCHANGED <<subject, jqueueVars, jlistVars, xhashVars, avlVars,
                  copyVars, mempoolVars, toolVars, timeTextVars>>
  \/ /\ subject = "Mempool" /\ MempoolNext
     /\ UNCHANGED <<subject, jqueueVars, jlistVars, xhashVars, avlVars,
                  copyVars, poolVars, toolVars, timeTextVars>>
  \/ /\ subject = "Tool" /\ ToolNext
     /\ UNCHANGED <<subject, jqueueVars, jlistVars, xhashVars, avlVars,
                  copyVars, poolVars, mempoolVars, timeTextVars>>
  \/ /\ subject = "TimeText" /\ TimeTextNext
     /\ UNCHANGED <<subject, jqueueVars, jlistVars, xhashVars, avlVars,
                  copyVars, poolVars, mempoolVars, toolVars>>

Spec == Init /\ [][Next]_vars

\* the copies of trees alone
CopiesAlone == Init /\ subject = "AvlCopy" /\ [][Next]_vars
============================================================================
