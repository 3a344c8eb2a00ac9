--------------------------- MODULE TransferProofs ---------------------------
(***************************************************************************)
(* Machine-checked proofs about module Transfer, for every set of cards,   *)
(* every number of transfers and every number of pushes, with and without  *)
(* failing waits and a shutdown.                                           *)
(*                                                                         *)
(* TransferInv is inductive: the initial state satisfies it and each       *)
(* action preserves it.  The safety properties and the refinement of       *)
(* JobService follow from it.                                              *)
(***************************************************************************)
EXTENDS Transfer, SequenceTheorems, TLAPS

(* Appending commutes with what is put in front: the step of PostPush.     *)
LEMMA ConcatAppend ==
  ASSUME NEW S, NEW s \in Seq(S), NEW q \in Seq(S), NEW x \in S
  PROVE  s \o Append(q, x) = Append(s \o q, x)
  <1>1. s \o Append(q, x) \in Seq(S) /\ Append(s \o q, x) \in Seq(S)
    OBVIOUS
  <1>2. Len(s \o Append(q, x)) = Len(Append(s \o q, x))
    OBVIOUS
  <1>3. ASSUME NEW i \in 1 .. Len(s \o Append(q, x))
        PROVE  (s \o Append(q, x))[i] = Append(s \o q, x)[i]
    OBVIOUS
  <1> QED BY <1>1, <1>2, <1>3, SeqEqual

(* Moving the head of q to the end of s leaves s \o q as it is: the step   *)
(* of MoveJob and of PullJob.                                              *)
LEMMA MoveHead ==
  ASSUME NEW S, NEW s \in Seq(S), NEW q \in Seq(S), q # <<>>
  PROVE  /\ Head(q) \in S
         /\ Tail(q) \in Seq(S)
         /\ Append(s, Head(q)) \in Seq(S)
         /\ Append(s, Head(q)) \o Tail(q) = s \o q
  <1>1. Head(q) \in S /\ Tail(q) \in Seq(S)
    OBVIOUS
  <1>2. Append(s, Head(q)) \in Seq(S)
    BY <1>1
  <1>3. Append(s, Head(q)) \o Tail(q) \in Seq(S) /\ s \o q \in Seq(S)
    BY <1>1, <1>2
  <1>4. Len(Append(s, Head(q)) \o Tail(q)) = Len(s \o q)
    BY <1>1, <1>2
  <1>5. ASSUME NEW i \in 1 .. Len(s \o q)
        PROVE  (Append(s, Head(q)) \o Tail(q))[i] = (s \o q)[i]
    <2>1. CASE i \in 1 .. Len(s)
      BY <1>1, <1>2, <2>1
    <2>2. CASE i = Len(s) + 1
      BY <1>1, <1>2, <2>2
    <2>3. CASE i \in Len(s) + 2 .. Len(s) + Len(q)
      BY <1>1, <1>2, <2>3
    <2> QED BY <2>1, <2>2, <2>3
  <1> QED BY <1>1, <1>2, <1>3, <1>4, <1>5, SeqEqual

(* A sequence of length one is its head.                                   *)
LEMMA Singleton ==
  ASSUME NEW S, NEW s \in Seq(S), Len(s) = 1
  PROVE  s # <<>> /\ Head(s) \in S /\ s = <<Head(s)>>
  <1>1. s # <<>> /\ Head(s) \in S
    OBVIOUS
  <1>2. <<Head(s)>> \in Seq(S) /\ Len(<<Head(s)>>) = 1
    BY <1>1
  <1>3. \A i \in 1 .. 1 : s[i] = <<Head(s)>>[i]
    OBVIOUS
  <1> QED BY <1>1, <1>2, <1>3, SeqEqual


(* No step takes the state out of its type.                                *)
LEMMA TypeStep ==
  ASSUME TransferInv, [Next]_vars
  PROVE  TypeOK'
  <1> USE TransferAssumption DEF TypeOK, Goto, MainGoto, flagVars, queueVars,
        workerVars, mainVars, history, WorkerPc, MainPc
  <1> TypeOK BY DEF TransferInv
  <1>a. 1 \in Transfers /\ \A i \in 1 .. TransferCount : i \in Transfers
    BY DEF Transfers
  <1>1. ASSUME NEW t \in Transfers, TestRuning(t) PROVE TypeOK'
    BY <1>1 DEF TestRuning
  <1>2. ASSUME NEW t \in Transfers, Lock(t) PROVE TypeOK'
    BY <1>2 DEF Lock
  <1>3. ASSUME NEW t \in Transfers, BeginWait(t) PROVE TypeOK'
    BY <1>3 DEF BeginWait
  <1>4. ASSUME NEW t \in Transfers, Timeout(t) PROVE TypeOK'
    BY <1>4 DEF Timeout
  <1>5. ASSUME NEW t \in Transfers, SpuriousWakeup(t) PROVE TypeOK'
    BY <1>5 DEF SpuriousWakeup
  <1>6. ASSUME NEW t \in Transfers, WaitError(t) PROVE TypeOK'
    BY <1>6 DEF WaitError
  <1>7. ASSUME NEW t \in Transfers, Relock(t) PROVE TypeOK'
    BY <1>7 DEF Relock
  <1>8. ASSUME NEW t \in Transfers, BreakOnError(t) PROVE TypeOK'
    BY <1>8 DEF BreakOnError
  <1>9. ASSUME NEW t \in Transfers, EndWait(t) PROVE TypeOK'
    BY <1>9 DEF EndWait
  <1>10. ASSUME NEW t \in Transfers, MoveJob(t) PROVE TypeOK'
    <2>1. /\ Append(workingqueue[t], Head(workqueue[t])) \in Seq(Cards)
          /\ Tail(workqueue[t]) \in Seq(Cards)
      BY <1>10, MoveHead DEF MoveJob
    <2> QED BY <1>10, <2>1 DEF MoveJob
  <1>11. ASSUME NEW t \in Transfers, Unlock(t) PROVE TypeOK'
    BY <1>11 DEF Unlock
  <1>12. ASSUME NEW t \in Transfers, PullJob(t) PROVE TypeOK'
    <2>1. /\ <<Head(workingqueue[t])>> \in Seq(Cards)
          /\ Tail(workingqueue[t]) \in Seq(Cards)
      BY <1>12, MoveHead DEF PullJob
    <2> QED BY <1>12, <2>1 DEF PullJob
  <1>13. ASSUME NEW t \in Transfers, EndJobs(t) PROVE TypeOK'
    BY <1>13 DEF EndJobs
  <1>14. ASSUME NEW t \in Transfers, DoJob(t) PROVE TypeOK'
    <2>1. Len(job[t]) = 1
      BY <1>14 DEF DoJob, TransferInv, ControlInv, JobHeld
    <2>2. Head(job[t]) \in Cards
      BY <2>1, Singleton
    <2>3. Append(done[t], Head(job[t])) \in Seq(Cards)
      BY <1>14, <2>2
    <2>4. done' \in [Transfers -> Seq(Cards)]
      BY <1>14, <2>3 DEF DoJob
    <2>5. job' \in [Transfers -> Seq(Cards)]
      BY <1>14 DEF DoJob
    <2> QED BY <1>14, <2>4, <2>5 DEF DoJob
  <1>15. ASSUME NEW t \in Transfers, WorkerClearQueues(t) PROVE TypeOK'
    <2>1. undefined' \in BOOLEAN
      BY <1>15 DEF WorkerClearQueues, FreeQueues
    <2>2. frees' \in [Transfers -> Nat]
      BY <1>15 DEF WorkerClearQueues, FreeQueues
    <2>3. /\ workqueue' \in [Transfers -> Seq(Cards)]
          /\ workingqueue' \in [Transfers -> Seq(Cards)]
      BY <1>15 DEF WorkerClearQueues, FreeQueues
    <2> QED BY <1>15, <2>1, <2>2, <2>3 DEF WorkerClearQueues
  <1>16. ASSUME NEW t \in Transfers, WorkerClearFlags(t) PROVE TypeOK'
    BY <1>16 DEF WorkerClearFlags
  <1>17. ASSUME NEW t \in Transfers, WorkerClearMutex(t) PROVE TypeOK'
    BY <1>17 DEF WorkerClearMutex
  <1>18. ASSUME Start PROVE TypeOK'
    <2>1. scan \in Transfers
      BY <1>18 DEF Start, TransferInv, ControlInv, StartedInOrder
    <2>2. /\ scan' \in 1 .. TransferCount + 1
          /\ mpc' \in {"startup", "loop"}
      BY <1>18 DEF Start
    <2> QED BY <1>18, <2>1, <2>2 DEF Start
  <1>19. ASSUME Compare PROVE TypeOK'
    <2>1. mostidle' \in Transfers
      <3>1. scan \in Transfers
        BY <1>19, <1>a DEF Compare
      <3>2. mostidle' \in {mostidle, scan}
        BY <1>19 DEF Compare
      <3> QED BY <3>1, <3>2
    <2>2. undefined' \in BOOLEAN
      BY <1>19 DEF Compare
    <2>3. scan' \in 1 .. TransferCount + 1
      BY <1>19 DEF Compare
    <2> QED BY <1>19, <2>1, <2>2, <2>3 DEF Compare
  <1>20. ASSUME EndCompare PROVE TypeOK'
    BY <1>20 DEF EndCompare
  <1>21. ASSUME CheckRuning PROVE TypeOK'
    BY <1>21 DEF CheckRuning
  <1>22. ASSUME Miss PROVE TypeOK'
    <2>1. missed \o card \in Seq(Cards)
      OBVIOUS
    <2> QED BY <1>22, <2>1 DEF Miss
  <1>23. ASSUME PostLock PROVE TypeOK'
    BY <1>23 DEF PostLock
  <1>24. ASSUME PostPush PROVE TypeOK'
    <2>1. Len(card) = 1
      BY <1>24 DEF PostPush, TransferInv, ControlInv, CardHeld
    <2>2. Head(card) \in Cards
      BY <2>1, Singleton
    <2>3. /\ Append(workqueue[mostidle], Head(card)) \in Seq(Cards)
          /\ Append(accepted[mostidle], Head(card)) \in Seq(Cards)
      BY <2>2
    <2>4. undefined' \in BOOLEAN
      BY <1>24 DEF PostPush
    <2> QED BY <1>24, <2>3, <2>4 DEF PostPush
  <1>25. ASSUME PostSignal PROVE TypeOK'
    BY <1>25 DEF PostSignal
  <1>26. ASSUME PostUnlock PROVE TypeOK'
    BY <1>26 DEF PostUnlock
  <1>27. ASSUME ServerReturns PROVE TypeOK'
    BY <1>27, <1>a DEF ServerReturns
  <1>28. ASSUME StopTransfer PROVE TypeOK'
    BY <1>28 DEF StopTransfer
  <1>29. ASSUME Join PROVE TypeOK'
    BY <1>29 DEF Join
  <1>30. ASSUME JoinReturns PROVE TypeOK'
    BY <1>30 DEF JoinReturns
  <1>31. ASSUME MainClear PROVE TypeOK'
    <2>1. undefined' \in BOOLEAN
      BY <1>31 DEF MainClear, FreeQueues
    <2>2. frees' \in [Transfers -> Nat]
      BY <1>31 DEF MainClear, FreeQueues
    <2>3. /\ workqueue' \in [Transfers -> Seq(Cards)]
          /\ workingqueue' \in [Transfers -> Seq(Cards)]
      BY <1>31 DEF MainClear, FreeQueues
    <2> QED BY <1>31, <2>1, <2>2, <2>3 DEF MainClear
  <1>32. ASSUME NEW c \in Cards, PushAjob(c) PROVE TypeOK'
    BY <1>32, <1>a DEF PushAjob
  <1>33. CASE UNCHANGED vars
    BY <1>33 DEF vars
  <1> QED
    BY <1>1, <1>2, <1>3, <1>4, <1>5, <1>6, <1>7, <1>8, <1>9, <1>10, <1>11,
       <1>12, <1>13, <1>14, <1>15, <1>16, <1>17, <1>18, <1>19, <1>20, <1>21,
       <1>22, <1>23, <1>24, <1>25, <1>26, <1>27, <1>28, <1>29, <1>30, <1>31,
       <1>32, <1>33
    DEF Next, Main, MainStep, Worker, WorkerStep

(* No step breaks the agreement of program counters, mutexes and queues.   *)
LEMMA ControlStep ==
  ASSUME TransferInv, [Next]_vars
  PROVE  ControlInv'
  <1> USE TransferAssumption DEF TypeOK, Goto, MainGoto, flagVars, queueVars,
        workerVars, mainVars, history
  <1> TypeOK /\ ControlInv BY DEF TransferInv
  <1>1. ASSUME NEW t \in Transfers, TestRuning(t) PROVE ControlInv'
    <2>1. CardHeld'
      BY <1>1 DEF TestRuning, ControlInv, CardHeld
    <2>2. JobHeld'
      BY <1>1 DEF TestRuning, ControlInv, JobHeld
    <2>3. WorkingEmptied'
      BY <1>1 DEF TestRuning, ControlInv, WorkingEmptied
    <2>4. MutexHolders'
      BY <1>1 DEF TestRuning, ControlInv, MutexHolders
    <2>5. StartedInOrder'
      BY <1>1 DEF TestRuning, ControlInv, StartedInOrder
    <2>6. QueuesAliveInLoop'
      BY <1>1 DEF TestRuning, ControlInv, QueuesAliveInLoop, StartedInOrder
    <2>7. NoLostWakeup'
      BY <1>1 DEF TestRuning, ControlInv, NoLostWakeup
    <2> QED BY <2>1, <2>2, <2>3, <2>4, <2>5, <2>6, <2>7 DEF ControlInv
  <1>2. ASSUME NEW t \in Transfers, Lock(t) PROVE ControlInv'
    BY <1>2
    DEF Lock, ControlInv, CardHeld, JobHeld, WorkingEmptied, MutexHolders,
       StartedInOrder, QueuesAliveInLoop, NoLostWakeup
  <1>3. ASSUME NEW t \in Transfers, BeginWait(t) PROVE ControlInv'
    BY <1>3
    DEF BeginWait, ControlInv, CardHeld, JobHeld, WorkingEmptied,
       MutexHolders, StartedInOrder, QueuesAliveInLoop, NoLostWakeup
  <1>4. ASSUME NEW t \in Transfers, Timeout(t) PROVE ControlInv'
    <2>1. CardHeld'
      BY <1>4 DEF Timeout, ControlInv, CardHeld
    <2>2. JobHeld'
      BY <1>4 DEF Timeout, ControlInv, JobHeld
    <2>3. WorkingEmptied'
      BY <1>4 DEF Timeout, ControlInv, WorkingEmptied
    <2>4. MutexHolders'
      BY <1>4 DEF Timeout, ControlInv, MutexHolders
    <2>5. StartedInOrder'
      BY <1>4 DEF Timeout, ControlInv, StartedInOrder
    <2>6. QueuesAliveInLoop'
      BY <1>4 DEF Timeout, ControlInv, QueuesAliveInLoop, StartedInOrder
    <2>7. NoLostWakeup'
      BY <1>4 DEF Timeout, ControlInv, NoLostWakeup
    <2> QED BY <2>1, <2>2, <2>3, <2>4, <2>5, <2>6, <2>7 DEF ControlInv
  <1>5. ASSUME NEW t \in Transfers, SpuriousWakeup(t) PROVE ControlInv'
    BY <1>5
    DEF SpuriousWakeup, ControlInv, CardHeld, JobHeld, WorkingEmptied,
       MutexHolders, StartedInOrder, QueuesAliveInLoop, NoLostWakeup
  <1>6. ASSUME NEW t \in Transfers, WaitError(t) PROVE ControlInv'
    <2>1. CardHeld'
      BY <1>6 DEF WaitError, ControlInv, CardHeld
    <2>2. JobHeld'
      BY <1>6 DEF WaitError, ControlInv, JobHeld
    <2>3. WorkingEmptied'
      BY <1>6 DEF WaitError, ControlInv, WorkingEmptied
    <2>4. MutexHolders'
      BY <1>6 DEF WaitError, ControlInv, MutexHolders
    <2>5. StartedInOrder'
      BY <1>6 DEF WaitError, ControlInv, StartedInOrder
    <2>6. QueuesAliveInLoop'
      BY <1>6 DEF WaitError, ControlInv, QueuesAliveInLoop, StartedInOrder
    <2>7. NoLostWakeup'
      BY <1>6 DEF WaitError, ControlInv, NoLostWakeup
    <2> QED BY <2>1, <2>2, <2>3, <2>4, <2>5, <2>6, <2>7 DEF ControlInv
  <1>7. ASSUME NEW t \in Transfers, Relock(t) PROVE ControlInv'
    BY <1>7
    DEF Relock, ControlInv, CardHeld, JobHeld, WorkingEmptied, MutexHolders,
       StartedInOrder, QueuesAliveInLoop, NoLostWakeup
  <1>8. ASSUME NEW t \in Transfers, BreakOnError(t) PROVE ControlInv'
    BY <1>8
    DEF BreakOnError, ControlInv, CardHeld, JobHeld, WorkingEmptied,
       MutexHolders, StartedInOrder, QueuesAliveInLoop, NoLostWakeup
  <1>9. ASSUME NEW t \in Transfers, EndWait(t) PROVE ControlInv'
    BY <1>9
    DEF EndWait, ControlInv, CardHeld, JobHeld, WorkingEmptied, MutexHolders,
       StartedInOrder, QueuesAliveInLoop, NoLostWakeup
  <1>10. ASSUME NEW t \in Transfers, MoveJob(t) PROVE ControlInv'
    BY <1>10
    DEF MoveJob, ControlInv, CardHeld, JobHeld, WorkingEmptied, MutexHolders,
       StartedInOrder, QueuesAliveInLoop, NoLostWakeup
  <1>11. ASSUME NEW t \in Transfers, Unlock(t) PROVE ControlInv'
    <2>1. CardHeld'
      BY <1>11 DEF Unlock, ControlInv, CardHeld
    <2>2. JobHeld'
      BY <1>11 DEF Unlock, ControlInv, JobHeld
    <2>3. WorkingEmptied'
      BY <1>11 DEF Unlock, ControlInv, WorkingEmptied
    <2>4. MutexHolders'
      BY <1>11 DEF Unlock, ControlInv, MutexHolders
    <2>5. StartedInOrder'
      BY <1>11 DEF Unlock, ControlInv, StartedInOrder
    <2>6. QueuesAliveInLoop'
      BY <1>11 DEF Unlock, ControlInv, QueuesAliveInLoop, StartedInOrder
    <2>7. NoLostWakeup'
      BY <1>11 DEF Unlock, ControlInv, NoLostWakeup
    <2> QED BY <2>1, <2>2, <2>3, <2>4, <2>5, <2>6, <2>7 DEF ControlInv
  <1>12. ASSUME NEW t \in Transfers, PullJob(t) PROVE ControlInv'
    BY <1>12
    DEF PullJob, ControlInv, CardHeld, JobHeld, WorkingEmptied, MutexHolders,
       StartedInOrder, QueuesAliveInLoop, NoLostWakeup
  <1>13. ASSUME NEW t \in Transfers, EndJobs(t) PROVE ControlInv'
    <2>1. CardHeld'
      BY <1>13 DEF EndJobs, ControlInv, CardHeld
    <2>2. JobHeld'
      BY <1>13 DEF EndJobs, ControlInv, JobHeld
    <2>3. WorkingEmptied'
      BY <1>13 DEF EndJobs, ControlInv, WorkingEmptied
    <2>4. MutexHolders'
      BY <1>13 DEF EndJobs, ControlInv, MutexHolders
    <2>5. StartedInOrder'
      BY <1>13 DEF EndJobs, ControlInv, StartedInOrder
    <2>6. QueuesAliveInLoop'
      BY <1>13 DEF EndJobs, ControlInv, QueuesAliveInLoop, StartedInOrder
    <2>7. NoLostWakeup'
      BY <1>13 DEF EndJobs, ControlInv, NoLostWakeup
    <2> QED BY <2>1, <2>2, <2>3, <2>4, <2>5, <2>6, <2>7 DEF ControlInv
  <1>14. ASSUME NEW t \in Transfers, DoJob(t) PROVE ControlInv'
    <2>1. CardHeld'
      BY <1>14 DEF DoJob, ControlInv, CardHeld
    <2>2. JobHeld'
      BY <1>14 DEF DoJob, ControlInv, JobHeld
    <2>3. WorkingEmptied'
      BY <1>14 DEF DoJob, ControlInv, WorkingEmptied
    <2>4. MutexHolders'
      BY <1>14 DEF DoJob, ControlInv, MutexHolders
    <2>5. StartedInOrder'
      BY <1>14 DEF DoJob, ControlInv, StartedInOrder
    <2>6. QueuesAliveInLoop'
      BY <1>14 DEF DoJob, ControlInv, QueuesAliveInLoop, StartedInOrder
    <2>7. NoLostWakeup'
      BY <1>14 DEF DoJob, ControlInv, NoLostWakeup
    <2> QED BY <2>1, <2>2, <2>3, <2>4, <2>5, <2>6, <2>7 DEF ControlInv
  <1>15. ASSUME NEW t \in Transfers, WorkerClearQueues(t) PROVE ControlInv'
    <2>1. CardHeld'
      BY <1>15 DEF WorkerClearQueues, FreeQueues, ControlInv, CardHeld
    <2>2. JobHeld'
      BY <1>15 DEF WorkerClearQueues, FreeQueues, ControlInv, JobHeld
    <2>3. WorkingEmptied'
      BY <1>15 DEF WorkerClearQueues, FreeQueues, ControlInv, WorkingEmptied
    <2>4. MutexHolders'
      BY <1>15 DEF WorkerClearQueues, FreeQueues, ControlInv, MutexHolders
    <2>5. StartedInOrder'
      BY <1>15 DEF WorkerClearQueues, FreeQueues, ControlInv, StartedInOrder
    <2>6. QueuesAliveInLoop'
      BY <1>15
      DEF WorkerClearQueues, FreeQueues, ControlInv, QueuesAliveInLoop,
         StartedInOrder
    <2>7. NoLostWakeup'
      BY <1>15 DEF WorkerClearQueues, FreeQueues, ControlInv, NoLostWakeup
    <2> QED BY <2>1, <2>2, <2>3, <2>4, <2>5, <2>6, <2>7 DEF ControlInv
  <1>16. ASSUME NEW t \in Transfers, WorkerClearFlags(t) PROVE ControlInv'
    BY <1>16
    DEF WorkerClearFlags, ControlInv, CardHeld, JobHeld, WorkingEmptied,
       MutexHolders, StartedInOrder, QueuesAliveInLoop, NoLostWakeup
  <1>17. ASSUME NEW t \in Transfers, WorkerClearMutex(t) PROVE ControlInv'
    BY <1>17
    DEF WorkerClearMutex, ControlInv, CardHeld, JobHeld, WorkingEmptied,
       MutexHolders, StartedInOrder, QueuesAliveInLoop, NoLostWakeup
  <1>18. ASSUME Start PROVE ControlInv'
    <2>1. scan \in Transfers
      BY <1>18 DEF Start, ControlInv, StartedInOrder
    <2>2. /\ wpc' = [wpc EXCEPT ![scan] = "test"]
          /\ pth' = [pth EXCEPT ![scan] = TRUE]
          /\ mpc' \in {"startup", "loop"}
      BY <1>18 DEF Start
    <2>3. UNCHANGED <<job, workingqueue, workqueue, mutex, frees, card>>
      BY <1>18 DEF Start
    <2>4. wpc[scan] = "off" /\ mpc = "startup"
      BY <1>18, <2>1 DEF Start, ControlInv, StartedInOrder, Transfers
    <2>5. CardHeld' /\ JobHeld' /\ WorkingEmptied'
      BY <2>1, <2>2, <2>3, <2>4
      DEF ControlInv, CardHeld, JobHeld, WorkingEmptied
    <2>6. MutexHolders' /\ NoLostWakeup'
      BY <2>1, <2>2, <2>3, <2>4 DEF ControlInv, MutexHolders, NoLostWakeup
    <2>7. StartedInOrder'
      <3>1. CASE scan < TransferCount
        <4>1. scan' = scan + 1 /\ mpc' = "startup"
          BY <1>18, <3>1 DEF Start
        <4>2. scan' \in Transfers
          BY <4>1, <3>1 DEF Transfers
        <4>3. ASSUME NEW t \in Transfers
              PROVE  wpc'[t] = "off" <=> t >= scan'
          <5>1. CASE t = scan
            BY <2>1, <2>2, <4>1, <5>1 DEF Transfers
          <5>2. CASE t # scan
            <6>1. wpc'[t] = "off" <=> wpc[t] = "off"
              BY <2>2, <5>2
            <6>2. wpc[t] = "off" <=> t >= scan
              BY <2>4 DEF ControlInv, StartedInOrder
            <6>3. t >= scan <=> t >= scan + 1
              BY <2>1, <5>2 DEF Transfers
            <6> QED BY <4>1, <6>1, <6>2, <6>3
          <5> QED BY <5>1, <5>2
        <4> QED BY <4>1, <4>2, <4>3 DEF StartedInOrder
      <3>2. CASE ~ scan < TransferCount
        BY <1>18, <2>1, <2>2, <3>2
        DEF Start, ControlInv, StartedInOrder, Transfers
      <3> QED BY <3>1, <3>2
    <2>8. QueuesAliveInLoop'
      BY <2>1, <2>2, <2>3, <2>4 DEF ControlInv, QueuesAliveInLoop
    <2> QED BY <2>5, <2>6, <2>7, <2>8 DEF ControlInv
  <1>19. ASSUME Compare PROVE ControlInv'
    BY <1>19
    DEF Compare, ControlInv, CardHeld, JobHeld, WorkingEmptied, MutexHolders,
       StartedInOrder, QueuesAliveInLoop, NoLostWakeup
  <1>20. ASSUME EndCompare PROVE ControlInv'
    BY <1>20
    DEF EndCompare, ControlInv, CardHeld, JobHeld, WorkingEmptied,
       MutexHolders, StartedInOrder, QueuesAliveInLoop, NoLostWakeup
  <1>21. ASSUME CheckRuning PROVE ControlInv'
    BY <1>21
    DEF CheckRuning, ControlInv, CardHeld, JobHeld, WorkingEmptied,
       MutexHolders, StartedInOrder, QueuesAliveInLoop, NoLostWakeup
  <1>22. ASSUME Miss PROVE ControlInv'
    BY <1>22
    DEF Miss, ControlInv, CardHeld, JobHeld, WorkingEmptied, MutexHolders,
       StartedInOrder, QueuesAliveInLoop, NoLostWakeup
  <1>23. ASSUME PostLock PROVE ControlInv'
    BY <1>23
    DEF PostLock, ControlInv, CardHeld, JobHeld, WorkingEmptied, MutexHolders,
       StartedInOrder, QueuesAliveInLoop, NoLostWakeup
  <1>24. ASSUME PostPush PROVE ControlInv'
    BY <1>24
    DEF PostPush, ControlInv, CardHeld, JobHeld, WorkingEmptied, MutexHolders,
       StartedInOrder, QueuesAliveInLoop, NoLostWakeup
  <1>25. ASSUME PostSignal PROVE ControlInv'
    <2>1. CardHeld'
      BY <1>25 DEF PostSignal, ControlInv, CardHeld
    <2>2. JobHeld'
      BY <1>25 DEF PostSignal, ControlInv, JobHeld
    <2>3. WorkingEmptied'
      BY <1>25 DEF PostSignal, ControlInv, WorkingEmptied
    <2>4. MutexHolders'
      BY <1>25 DEF PostSignal, ControlInv, MutexHolders
    <2>5. StartedInOrder'
      BY <1>25 DEF PostSignal, ControlInv, StartedInOrder
    <2>6. QueuesAliveInLoop'
      BY <1>25 DEF PostSignal, ControlInv, QueuesAliveInLoop, StartedInOrder
    <2>7. NoLostWakeup'
      BY <1>25 DEF PostSignal, ControlInv, NoLostWakeup
    <2> QED BY <2>1, <2>2, <2>3, <2>4, <2>5, <2>6, <2>7 DEF ControlInv
  <1>26. ASSUME PostUnlock PROVE ControlInv'
    BY <1>26
    DEF PostUnlock, ControlInv, CardHeld, JobHeld, WorkingEmptied,
       MutexHolders, StartedInOrder, QueuesAliveInLoop, NoLostWakeup
  <1>27. ASSUME ServerReturns PROVE ControlInv'
    BY <1>27
    DEF ServerReturns, ControlInv, CardHeld, JobHeld, WorkingEmptied,
       MutexHolders, StartedInOrder, QueuesAliveInLoop, NoLostWakeup
  <1>28. ASSUME StopTransfer PROVE ControlInv'
    BY <1>28
    DEF StopTransfer, ControlInv, CardHeld, JobHeld, WorkingEmptied,
       MutexHolders, StartedInOrder, QueuesAliveInLoop, NoLostWakeup
  <1>29. ASSUME Join PROVE ControlInv'
    BY <1>29
    DEF Join, ControlInv, CardHeld, JobHeld, WorkingEmptied, MutexHolders,
       StartedInOrder, QueuesAliveInLoop, NoLostWakeup
  <1>30. ASSUME JoinReturns PROVE ControlInv'
    BY <1>30
    DEF JoinReturns, ControlInv, CardHeld, JobHeld, WorkingEmptied,
       MutexHolders, StartedInOrder, QueuesAliveInLoop, NoLostWakeup
  <1>31. ASSUME MainClear PROVE ControlInv'
    <2>1. CardHeld'
      BY <1>31 DEF MainClear, FreeQueues, ControlInv, CardHeld
    <2>2. JobHeld'
      BY <1>31 DEF MainClear, FreeQueues, ControlInv, JobHeld
    <2>3. WorkingEmptied'
      BY <1>31 DEF MainClear, FreeQueues, ControlInv, WorkingEmptied
    <2>4. MutexHolders'
      BY <1>31 DEF MainClear, FreeQueues, ControlInv, MutexHolders
    <2>5. StartedInOrder'
      BY <1>31 DEF MainClear, FreeQueues, ControlInv, StartedInOrder
    <2>6. QueuesAliveInLoop'
      BY <1>31
      DEF MainClear, FreeQueues, ControlInv, QueuesAliveInLoop, StartedInOrder
    <2>7. NoLostWakeup'
      BY <1>31 DEF MainClear, FreeQueues, ControlInv, NoLostWakeup
    <2> QED BY <2>1, <2>2, <2>3, <2>4, <2>5, <2>6, <2>7 DEF ControlInv
  <1>32. ASSUME NEW c \in Cards, PushAjob(c) PROVE ControlInv'
    BY <1>32
    DEF PushAjob, ControlInv, CardHeld, JobHeld, WorkingEmptied, MutexHolders,
       StartedInOrder, QueuesAliveInLoop, NoLostWakeup
  <1>33. CASE UNCHANGED vars
    BY <1>33
    DEF vars, ControlInv, CardHeld, JobHeld, WorkingEmptied, MutexHolders,
       StartedInOrder, QueuesAliveInLoop, NoLostWakeup
  <1> QED
    BY <1>1, <1>2, <1>3, <1>4, <1>5, <1>6, <1>7, <1>8, <1>9, <1>10, <1>11,
       <1>12, <1>13, <1>14, <1>15, <1>16, <1>17, <1>18, <1>19, <1>20, <1>21,
       <1>22, <1>23, <1>24, <1>25, <1>26, <1>27, <1>28, <1>29, <1>30, <1>31,
       <1>32, <1>33
    DEF Next, Main, MainStep, Worker, WorkerStep

(* The jobs and where they are: six actions touch them.                    *)
jobVars == <<accepted, done, job, workingqueue, workqueue, frees>>

(* A step either leaves the jobs where they are or is one of the six.      *)
LEMMA JobActions ==
  ASSUME [Next]_vars
  PROVE  \/ UNCHANGED jobVars
         \/ \E t \in Transfers :
              MoveJob(t) \/ PullJob(t) \/ DoJob(t) \/ WorkerClearQueues(t)
         \/ PostPush \/ MainClear
  <1> USE DEF jobVars, flagVars, queueVars, workerVars, mainVars, history
  <1>1. ASSUME NEW t \in Transfers, TestRuning(t) PROVE UNCHANGED jobVars
    BY <1>1 DEF TestRuning
  <1>2. ASSUME NEW t \in Transfers, Lock(t) PROVE UNCHANGED jobVars
    BY <1>2 DEF Lock
  <1>3. ASSUME NEW t \in Transfers, BeginWait(t) PROVE UNCHANGED jobVars
    BY <1>3 DEF BeginWait
  <1>4. ASSUME NEW t \in Transfers, Timeout(t) PROVE UNCHANGED jobVars
    BY <1>4 DEF Timeout
  <1>5. ASSUME NEW t \in Transfers, SpuriousWakeup(t) PROVE UNCHANGED jobVars
    BY <1>5 DEF SpuriousWakeup
  <1>6. ASSUME NEW t \in Transfers, WaitError(t) PROVE UNCHANGED jobVars
    BY <1>6 DEF WaitError
  <1>7. ASSUME NEW t \in Transfers, Relock(t) PROVE UNCHANGED jobVars
    BY <1>7 DEF Relock
  <1>8. ASSUME NEW t \in Transfers, BreakOnError(t) PROVE UNCHANGED jobVars
    BY <1>8 DEF BreakOnError
  <1>9. ASSUME NEW t \in Transfers, EndWait(t) PROVE UNCHANGED jobVars
    BY <1>9 DEF EndWait
  <1>10. ASSUME NEW t \in Transfers, Unlock(t) PROVE UNCHANGED jobVars
    BY <1>10 DEF Unlock
  <1>11. ASSUME NEW t \in Transfers, EndJobs(t) PROVE UNCHANGED jobVars
    BY <1>11 DEF EndJobs
  <1>12. ASSUME NEW t \in Transfers, WorkerClearFlags(t) PROVE UNCHANGED jobVars
    BY <1>12 DEF WorkerClearFlags
  <1>13. ASSUME NEW t \in Transfers, WorkerClearMutex(t) PROVE UNCHANGED jobVars
    BY <1>13 DEF WorkerClearMutex
  <1>14. ASSUME Start PROVE UNCHANGED jobVars
    BY <1>14 DEF Start
  <1>15. ASSUME Compare PROVE UNCHANGED jobVars
    BY <1>15 DEF Compare
  <1>16. ASSUME EndCompare PROVE UNCHANGED jobVars
    BY <1>16 DEF EndCompare
  <1>17. ASSUME CheckRuning PROVE UNCHANGED jobVars
    BY <1>17 DEF CheckRuning
  <1>18. ASSUME Miss PROVE UNCHANGED jobVars
    BY <1>18 DEF Miss
  <1>19. ASSUME PostLock PROVE UNCHANGED jobVars
    BY <1>19 DEF PostLock
  <1>20. ASSUME PostSignal PROVE UNCHANGED jobVars
    BY <1>20 DEF PostSignal
  <1>21. ASSUME PostUnlock PROVE UNCHANGED jobVars
    BY <1>21 DEF PostUnlock
  <1>22. ASSUME ServerReturns PROVE UNCHANGED jobVars
    BY <1>22 DEF ServerReturns
  <1>23. ASSUME StopTransfer PROVE UNCHANGED jobVars
    BY <1>23 DEF StopTransfer
  <1>24. ASSUME Join PROVE UNCHANGED jobVars
    BY <1>24 DEF Join
  <1>25. ASSUME JoinReturns PROVE UNCHANGED jobVars
    BY <1>25 DEF JoinReturns
  <1>26. ASSUME NEW c \in Cards, PushAjob(c) PROVE UNCHANGED jobVars
    BY <1>26 DEF PushAjob
  <1>27. ASSUME UNCHANGED vars PROVE UNCHANGED jobVars
    BY <1>27 DEF vars
  <1> QED
    BY <1>1, <1>2, <1>3, <1>4, <1>5, <1>6, <1>7, <1>8, <1>9, <1>10, <1>11,
       <1>12, <1>13, <1>14, <1>15, <1>16, <1>17, <1>18, <1>19, <1>20, <1>21,
       <1>22, <1>23, <1>24, <1>25, <1>26, <1>27
    DEF Next, Main, MainStep, Worker, WorkerStep

(* No step loses, duplicates or reorders a job.                            *)
LEMMA OrderStep ==
  ASSUME TransferInv, [Next]_vars
  PROVE  NoJobLostOrReordered'
  <1> USE DEF NoJobLostOrReordered
  <1>1. TypeOK /\ ControlInv /\ NoJobLostOrReordered
    BY DEF TransferInv
  <1>2. CASE UNCHANGED jobVars
    BY <1>1, <1>2 DEF jobVars
  <1>3. ASSUME NEW t \in Transfers, MoveJob(t)
        PROVE  NoJobLostOrReordered'
    <2> DEFINE front == done[t] \o job[t]
               w == workingqueue[t]
               q == workqueue[t]
    <2>1. front \in Seq(Cards) /\ w \in Seq(Cards) /\ q \in Seq(Cards) /\ q # <<>>
      BY <1>1, <1>3 DEF MoveJob, TypeOK
    <2>2. Head(q) \in Cards /\ Tail(q) \in Seq(Cards)
      BY <2>1, MoveHead
    <2>4. front \o w \in Seq(Cards)
      BY <2>1
    <2> HIDE DEF front, w, q
    <2>3. front \o Append(w, Head(q)) = Append(front \o w, Head(q))
      BY <2>1, <2>2, ConcatAppend
    <2>5. Append(front \o w, Head(q)) \o Tail(q) = (front \o w) \o q
      <3>1. \A s \in Seq(Cards) : Append(s, Head(q)) \o Tail(q) = s \o q
        BY <2>1, MoveHead
      <3> QED BY <2>4, <3>1
    <2>6. /\ workingqueue' = [workingqueue EXCEPT ![t] = Append(w, Head(q))]
          /\ workqueue' = [workqueue EXCEPT ![t] = Tail(q)]
          /\ UNCHANGED <<accepted, done, job, frees>>
      BY <1>3 DEF MoveJob, workerVars, history, w, q
    <2> QED BY <1>1, <2>3, <2>5, <2>6 DEF TypeOK, front, w, q
  <1>4. ASSUME NEW t \in Transfers, PullJob(t)
        PROVE  NoJobLostOrReordered'
    <2> DEFINE d == done[t]
               w == workingqueue[t]
    <2>1. d \in Seq(Cards) /\ w \in Seq(Cards) /\ w # <<>>
      BY <1>1, <1>4 DEF PullJob, TypeOK
    <2>2. Head(w) \in Cards /\ Append(d, Head(w)) \o Tail(w) = d \o w
      BY <2>1, MoveHead
    <2>3. d \o <<Head(w)>> = Append(d, Head(w))
      BY <2>1, <2>2, AppendIsConcat
    <2>4. job[t] = <<>>
      BY <1>1, <1>4 DEF PullJob, Goto, ControlInv, JobHeld
    <2>5. d \o <<>> = d
      BY <2>1, ConcatEmptySeq
    <2>6. /\ workingqueue' = [workingqueue EXCEPT ![t] = Tail(w)]
          /\ job' = [job EXCEPT ![t] = <<Head(w)>>]
          /\ UNCHANGED <<accepted, done, workqueue, frees>>
      BY <1>4 DEF PullJob, history
    <2> QED BY <1>1, <2>2, <2>3, <2>4, <2>5, <2>6 DEF TypeOK
  <1>5. ASSUME NEW t \in Transfers, DoJob(t)
        PROVE  NoJobLostOrReordered'
    <2> DEFINE d == done[t]
               c == Head(job[t])
    <2>1. d \in Seq(Cards) /\ job[t] \in Seq(Cards) /\ Len(job[t]) = 1
      BY <1>1, <1>5 DEF DoJob, Goto, TypeOK, ControlInv, JobHeld
    <2>2. c \in Cards /\ job[t] = <<c>>
      BY <2>1, Singleton
    <2>3. Append(d, c) \o <<>> = d \o <<c>>
      BY <2>1, <2>2, AppendIsConcat, ConcatEmptySeq
    <2>4. /\ done' = [done EXCEPT ![t] = Append(d, c)]
          /\ job' = [job EXCEPT ![t] = <<>>]
          /\ UNCHANGED <<accepted, workingqueue, workqueue, frees>>
      BY <1>5 DEF DoJob, queueVars
    <2> QED BY <1>1, <2>2, <2>3, <2>4 DEF TypeOK
  <1>6. ASSUME NEW t \in Transfers, WorkerClearQueues(t)
        PROVE  NoJobLostOrReordered'
    <2>1. frees' = [frees EXCEPT ![t] = frees[t] + 1] /\ frees[t] + 1 # 0
      BY <1>1, <1>6 DEF WorkerClearQueues, FreeQueues, TypeOK
    <2>2. /\ workqueue' = [workqueue EXCEPT ![t] = <<>>]
          /\ workingqueue' = [workingqueue EXCEPT ![t] = <<>>]
          /\ UNCHANGED <<accepted, done, job>>
      BY <1>6 DEF WorkerClearQueues, FreeQueues, history
    <2> QED BY <1>1, <2>1, <2>2 DEF TypeOK
  <1>7. CASE MainClear
    <2>1. /\ frees' = [frees EXCEPT ![mostidle] = frees[mostidle] + 1]
          /\ frees[mostidle] + 1 # 0
      BY <1>1, <1>7 DEF MainClear, FreeQueues, TypeOK
    <2>2. /\ workqueue' = [workqueue EXCEPT ![mostidle] = <<>>]
          /\ workingqueue' = [workingqueue EXCEPT ![mostidle] = <<>>]
          /\ UNCHANGED <<accepted, done, job>>
      BY <1>7 DEF MainClear, FreeQueues, history, workerVars
    <2> QED BY <1>1, <2>1, <2>2 DEF TypeOK
  <1>8. CASE PostPush
    <2> DEFINE m == mostidle
               c == Head(card)
               front == (done[m] \o job[m]) \o workingqueue[m]
    <2>1. card \in Seq(Cards) /\ Len(card) = 1
      BY <1>1, <1>8 DEF PostPush, MainGoto, TypeOK, ControlInv, CardHeld
    <2>2. c \in Cards
      BY <2>1, Singleton
    <2>3. front \in Seq(Cards) /\ workqueue[m] \in Seq(Cards)
      BY <1>1 DEF TypeOK
    <2> HIDE DEF front, c
    <2>4. front \o Append(workqueue[m], c) = Append(front \o workqueue[m], c)
      BY <2>2, <2>3, ConcatAppend
    <2>5. /\ workqueue' = [workqueue EXCEPT ![m] = Append(workqueue[m], c)]
          /\ accepted' = [accepted EXCEPT ![m] = Append(accepted[m], c)]
          /\ UNCHANGED <<done, job, workingqueue, frees>>
      BY <1>8 DEF PostPush, workerVars, c
    <2> QED BY <1>1, <2>4, <2>5 DEF TypeOK, front
  <1> QED BY <1>2, <1>3, <1>4, <1>5, <1>6, <1>7, <1>8, JobActions

(* Every step preserves the inductive invariant.                           *)
LEMMA Inductive ==
  ASSUME TransferInv, [Next]_vars
  PROVE  TransferInv'
  BY TypeStep, ControlStep, OrderStep DEF TransferInv

(* Nothing has started and every queue is empty.                           *)
LEMMA Initially == Init => TransferInv
  <1> SUFFICES ASSUME Init PROVE TransferInv
    OBVIOUS
  <1> USE DEF Init
  <1>1. TypeOK
    <2>1. <<>> \in Seq(Cards)
      OBVIOUS
    <2>2. 1 \in Transfers /\ 1 \in 1 .. TransferCount + 1 /\ 0 \in 0 .. MaxPushes
      BY TransferAssumption DEF Transfers
    <2> QED BY <2>1, <2>2 DEF TypeOK, WorkerPc, MainPc
  <1>2. ControlInv
    BY TransferAssumption
    DEF ControlInv, CardHeld, JobHeld, WorkingEmptied, MutexHolders,
        StartedInOrder, QueuesAliveInLoop, NoLostWakeup, Transfers
  <1>3. NoJobLostOrReordered
    BY DEF NoJobLostOrReordered
  <1> QED BY <1>1, <1>2, <1>3 DEF TransferInv

(* The inductive invariant holds in every reachable state.                 *)
THEOREM InvariantHolds == Spec => []TransferInv
  BY Initially, Inductive, PTL DEF Spec

(* The state of the transfers, of the workers and of main has its type.    *)
THEOREM TypeCorrect == Spec => []TypeOK
  <1>1. TransferInv => TypeOK
    BY DEF TransferInv
  <1> QED BY <1>1, InvariantHolds, PTL

(* While its queues are alive a transfer neither loses nor duplicates nor  *)
(* reorders a job.                                                         *)
THEOREM JobsKept == Spec => []NoJobLostOrReordered
  <1>1. TransferInv => NoJobLostOrReordered
    BY DEF TransferInv
  <1> QED BY <1>1, InvariantHolds, PTL

(* A worker sleeps over a job only until the signal that is already due.   *)
THEOREM WakeupsKept == Spec => []NoLostWakeup
  <1>1. TransferInv => NoLostWakeup
    BY DEF TransferInv, ControlInv
  <1> QED BY <1>1, InvariantHolds, PTL

(* The worker and the event loop are never both in the critical section    *)
(* (_worker, transfer_postAjob).                                           *)
THEOREM Exclusion == Spec => []MutualExclusion
  <1>1. TransferInv => MutualExclusion
    BY DEF TransferInv, ControlInv, MutexHolders, MutualExclusion
  <1> QED BY <1>1, InvariantHolds, PTL

(* The worker leaves the critical section before it executes a job, so the *)
(* event loop never waits for a database to push one.                      *)
THEOREM ExecutesUnlocked == Spec => []MutexHeldOnlyToMove
  <1>1. TransferInv => MutexHeldOnlyToMove
    BY DEF TransferInv, ControlInv, MutexHolders, MutexHeldOnlyToMove
  <1> QED BY <1>1, InvariantHolds, PTL

(* A worker that ends has executed every job it had taken over.            *)
THEOREM TakenJobsFinished == Spec => []MovedJobsAreFinished
  <1>1. TransferInv => MovedJobsAreFinished
    BY DEF TransferInv, ControlInv, JobHeld, WorkingEmptied,
           MovedJobsAreFinished
  <1> QED BY <1>1, InvariantHolds, PTL

-----------------------------------------------------------------------------
(* The detailed workers implement JobService.                              *)

(* What is pending after the head of the taken-over jobs has been pulled,  *)
(* pushed or executed.                                                     *)
LEMMA HeadOfThree ==
  ASSUME NEW S, NEW c \in S, NEW w \in Seq(S), NEW q \in Seq(S)
  PROVE  LET p == (<<c>> \o w) \o q
         IN  p # <<>> /\ Head(p) = c /\ Tail(p) = (<<>> \o w) \o q
  <1> DEFINE p == (<<c>> \o w) \o q
             r == (<<>> \o w) \o q
  <1>1. p \in Seq(S) /\ r \in Seq(S) /\ Len(p) = Len(w) + Len(q) + 1
    OBVIOUS
  <1>2. r = w \o q
    BY ConcatEmptySeq
  <1>3. p # <<>> /\ Head(p) = c
    BY <1>1
  <1>4. Tail(p) \in Seq(S) /\ Len(Tail(p)) = Len(r)
    BY <1>1, <1>2, <1>3
  <1>5. ASSUME NEW i \in 1 .. Len(r)
        PROVE  Tail(p)[i] = r[i]
    <2>1. Len(r) = Len(w) + Len(q)
      BY <1>2
    <2>2. Tail(p)[i] = p[i + 1]
      BY <1>1, <1>3, <2>1
    <2>3. CASE i <= Len(w)
      BY <1>2, <2>1, <2>2, <2>3
    <2>4. CASE i > Len(w)
      BY <1>2, <2>1, <2>2, <2>4
    <2> QED BY <2>1, <2>3, <2>4
  <1>6. Tail(p) = r
    BY <1>1, <1>4, <1>5, SeqEqual
  <1> QED BY <1>3, <1>6

(* No job is pending and no transfer closed when the workers start.        *)
LEMMA ServiceInit == Init => Service!Init
  <1> SUFFICES ASSUME Init PROVE Service!Init
    OBVIOUS
  <1>1. Service!Transfers = Transfers
    BY DEF Service!Transfers, Transfers
  <1>2. (<<>> \o <<>>) \o <<>> = <<>>
    OBVIOUS
  <1>3. Pending = [t \in Transfers |-> <<>>]
    BY <1>2 DEF Init, Pending
  <1>4. [t \in Transfers |-> frees[t] # 0] = [t \in Transfers |-> FALSE]
    BY DEF Init
  <1> QED BY <1>1, <1>3, <1>4 DEF Init, Service!Init

(* A step of the workers is Accept, Execute or Close, or changes nothing   *)
(* that JobService speaks of.                                              *)
LEMMA ServiceStep ==
  ASSUME TransferInv, [Next]_vars
  PROVE  [Service!Next]_(Service!serviceVars)
  <1> USE DEF Service!serviceVars
  <1> DEFINE shut == [t \in Transfers |-> frees[t] # 0]
  <1>0. Service!Transfers = Transfers
    BY DEF Service!Transfers, Transfers
  <1>1. TypeOK /\ ControlInv
    BY DEF TransferInv
  <1>a. \A t \in Transfers : frees[t] \in Nat
    BY <1>1 DEF TypeOK
  <1>2. CASE UNCHANGED jobVars
    BY <1>2 DEF jobVars, Pending
  <1>3. ASSUME NEW t \in Transfers, MoveJob(t)
        PROVE  UNCHANGED Service!serviceVars
    <2> DEFINE j == job[t]
               w == workingqueue[t]
               q == workqueue[t]
    <2>1. j \in Seq(Cards) /\ w \in Seq(Cards) /\ q \in Seq(Cards) /\ q # <<>>
      BY <1>1, <1>3 DEF MoveJob, TypeOK
    <2>2. Head(q) \in Cards
      BY <2>1, MoveHead
    <2>3. j \o w \in Seq(Cards)
      BY <2>1
    <2>4. /\ workingqueue' = [workingqueue EXCEPT ![t] = Append(w, Head(q))]
          /\ workqueue' = [workqueue EXCEPT ![t] = Tail(q)]
          /\ UNCHANGED <<done, job, frees>>
      BY <1>3 DEF MoveJob, workerVars, history
    <2> HIDE DEF j, w, q
    <2>5. j \o Append(w, Head(q)) = Append(j \o w, Head(q))
      BY <2>1, <2>2, ConcatAppend
    <2>6. \A s \in Seq(Cards) : Append(s, Head(q)) \o Tail(q) = s \o q
      BY <2>1, MoveHead
    <2>7. (j \o Append(w, Head(q))) \o Tail(q) = (j \o w) \o q
      BY <2>3, <2>5, <2>6
    <2>8. Pending' = Pending
      BY <1>1, <2>4, <2>7 DEF Pending, TypeOK, j, w, q
    <2> QED BY <2>4, <2>8
  <1>4. ASSUME NEW t \in Transfers, PullJob(t)
        PROVE  UNCHANGED Service!serviceVars
    <2> DEFINE w == workingqueue[t]
    <2>1. w \in Seq(Cards) /\ w # <<>>
      BY <1>1, <1>4 DEF PullJob, TypeOK
    <2>2. Head(w) \in Cards /\ Tail(w) \in Seq(Cards)
      BY <2>1, MoveHead
    <2>3. \A s \in Seq(Cards) : Append(s, Head(w)) \o Tail(w) = s \o w
      BY <2>1, MoveHead
    <2>4. <<Head(w)>> \o Tail(w) = <<>> \o w
      <3>1. <<>> \in Seq(Cards) /\ Append(<<>>, Head(w)) = <<Head(w)>>
        BY <2>2
      <3> QED BY <2>3, <3>1
    <2>5. job[t] = <<>>
      BY <1>1, <1>4 DEF PullJob, Goto, ControlInv, JobHeld
    <2>6. /\ workingqueue' = [workingqueue EXCEPT ![t] = Tail(w)]
          /\ job' = [job EXCEPT ![t] = <<Head(w)>>]
          /\ UNCHANGED <<done, workqueue, frees>>
      BY <1>4 DEF PullJob, history
    <2>7. Pending' = Pending
      BY <1>1, <2>4, <2>5, <2>6 DEF Pending, TypeOK
    <2> QED BY <2>6, <2>7
  <1>5. ASSUME NEW t \in Transfers, DoJob(t)
        PROVE  Service!Execute(t)
    <2> DEFINE c == Head(job[t])
               w == workingqueue[t]
               q == workqueue[t]
    <2>1. /\ job[t] \in Seq(Cards) /\ Len(job[t]) = 1
          /\ w \in Seq(Cards) /\ q \in Seq(Cards)
      BY <1>1, <1>5 DEF DoJob, Goto, TypeOK, ControlInv, JobHeld
    <2>2. c \in Cards /\ job[t] = <<c>>
      BY <2>1, Singleton
    <2>3. frees[t] = 0
      BY <1>1, <1>5 DEF DoJob, Goto, ControlInv, QueuesAliveInLoop
    <2>4. /\ done' = [done EXCEPT ![t] = Append(@, c)]
          /\ job' = [job EXCEPT ![t] = <<>>]
          /\ UNCHANGED <<workingqueue, workqueue, frees>>
      BY <1>5 DEF DoJob, queueVars
    <2> HIDE DEF c, w, q
    <2>5. LET p == (<<c>> \o w) \o q
          IN  p # <<>> /\ Head(p) = c /\ Tail(p) = (<<>> \o w) \o q
      BY <2>1, <2>2, HeadOfThree
    <2>6. Pending[t] = (<<c>> \o w) \o q
      BY <1>a, <2>2, <2>3 DEF Pending, w, q
    <2>7. Pending[t] # <<>> /\ Head(Pending[t]) = c
      BY <2>5, <2>6
    <2>8. Pending' = [Pending EXCEPT ![t] = (<<>> \o w) \o q]
      BY <1>1, <1>a, <2>3, <2>4 DEF Pending, TypeOK, w, q
    <2>9. (<<>> \o w) \o q = Tail(Pending[t])
      BY <2>5, <2>6
    <2>10. ~ shut[t] /\ UNCHANGED shut
      BY <2>3, <2>4
    <2> QED BY <2>4, <2>7, <2>8, <2>9, <2>10 DEF Service!Execute
  <1>6. ASSUME NEW t \in Transfers, frees[t] = 0, FreeQueues(t),
               UNCHANGED <<done, job>>
        PROVE  Service!Close(t)
    <2>0. frees[t] = 0
      BY <1>6
    <2>1. frees' = [frees EXCEPT ![t] = 1]
      BY <1>6 DEF FreeQueues
    <2>2. /\ frees'[t] # 0
          /\ \A x \in Transfers \ {t} : frees'[x] = frees[x]
      BY <1>1, <2>1 DEF TypeOK
    <2>3. ~ shut[t]
      BY <2>0
    <2>4. shut' = [shut EXCEPT ![t] = TRUE]
      <3>1. shut'[t] = TRUE
        BY <2>2
      <3>2. \A x \in Transfers \ {t} : shut'[x] = shut[x]
        BY <2>2
      <3> QED BY <3>1, <3>2
    <2>5. /\ workqueue' = [workqueue EXCEPT ![t] = <<>>]
          /\ workingqueue' = [workingqueue EXCEPT ![t] = <<>>]
          /\ job' = job /\ done' = done
      BY <1>6 DEF FreeQueues
    <2>6. Pending' = [Pending EXCEPT ![t] = <<>>]
      <3>1. Pending'[t] = <<>>
        BY <2>2 DEF Pending
      <3>2. \A x \in Transfers \ {t} : Pending'[x] = Pending[x]
        BY <1>1, <2>2, <2>5 DEF Pending, TypeOK
      <3> QED BY <3>1, <3>2 DEF Pending
    <2> QED BY <2>3, <2>4, <2>5, <2>6 DEF Service!Close
  <1>7. ASSUME NEW t \in Transfers, frees[t] # 0, FreeQueues(t),
               UNCHANGED <<done, job>>
        PROVE  UNCHANGED Service!serviceVars
    <2>1. frees' = [frees EXCEPT ![t] = frees[t] + 1]
      BY <1>7 DEF FreeQueues
    <2>2. frees[t] > 0 /\ frees[t] + 1 > 0
      BY <1>a, <1>7
    <2>3. \A x \in Transfers : frees'[x] # 0 <=> frees[x] # 0
      <3>1. frees'[t] # 0 /\ frees[t] # 0
        BY <1>1, <2>1, <2>2 DEF TypeOK
      <3>2. \A x \in Transfers \ {t} : frees'[x] = frees[x]
        BY <1>1, <2>1 DEF TypeOK
      <3> QED BY <3>1, <3>2
    <2>4. shut' = shut
      BY <2>3
    <2>5. /\ workqueue' = [workqueue EXCEPT ![t] = <<>>]
          /\ workingqueue' = [workingqueue EXCEPT ![t] = <<>>]
          /\ job' = job /\ done' = done
      BY <1>7 DEF FreeQueues
    <2>6. Pending' = Pending
      BY <1>1, <1>7, <2>3, <2>5 DEF Pending, TypeOK
    <2> QED BY <2>4, <2>5, <2>6
  <1>8. ASSUME NEW t \in Transfers, WorkerClearQueues(t)
        PROVE  [Service!Next]_(Service!serviceVars)
    <2>1. FreeQueues(t) /\ UNCHANGED <<done, job>>
      BY <1>8 DEF WorkerClearQueues, history
    <2> QED BY <1>6, <1>7, <2>1, <1>0 DEF Service!Next
  <1>9. CASE MainClear
    <2>1. FreeQueues(mostidle) /\ UNCHANGED <<done, job>> /\ mostidle \in Transfers
      BY <1>1, <1>9 DEF MainClear, history, workerVars, TypeOK
    <2> QED BY <1>6, <1>7, <2>1, <1>0 DEF Service!Next
  <1>10. CASE PostPush
    <2> DEFINE m == mostidle
               c == Head(card)
               front == job[m] \o workingqueue[m]
    <2>1. card \in Seq(Cards) /\ Len(card) = 1 /\ m \in Transfers
      BY <1>1, <1>10 DEF PostPush, MainGoto, TypeOK, ControlInv, CardHeld
    <2>2. c \in Cards
      BY <2>1, Singleton
    <2>3. front \in Seq(Cards) /\ workqueue[m] \in Seq(Cards)
      BY <1>1, <2>1 DEF TypeOK
    <2>4. /\ workqueue' = [workqueue EXCEPT ![m] = Append(workqueue[m], c)]
          /\ UNCHANGED <<done, job, workingqueue, frees>>
      BY <1>10 DEF PostPush, workerVars
    <2> HIDE DEF front, c
    <2>5. front \o Append(workqueue[m], c) = Append(front \o workqueue[m], c)
      BY <2>2, <2>3, ConcatAppend
    <2>6. CASE frees[m] = 0
      <3>1. Pending[m] = front \o workqueue[m]
        BY <2>1, <2>6 DEF Pending, front
      <3>2. Pending' = [Pending EXCEPT ![m] = front \o Append(workqueue[m], c)]
        BY <1>1, <2>1, <2>4, <2>6 DEF Pending, TypeOK, front
      <3>3. Service!Accept(m, c)
        BY <2>1, <2>4, <2>5, <2>6, <3>1, <3>2 DEF Service!Accept
      <3> QED BY <2>1, <2>2, <3>3, <1>0 DEF Service!Next
    <2>7. CASE frees[m] # 0
      <3>1. frees[m] > 0
        BY <1>1, <2>1, <2>7 DEF TypeOK
      <3>2. Pending' = Pending
        BY <1>1, <2>1, <2>4, <3>1 DEF Pending, TypeOK
      <3> QED BY <2>4, <3>2
    <2> QED BY <2>6, <2>7
  <1> QED
    BY <1>2, <1>3, <1>4, <1>5, <1>8, <1>9, <1>10, <1>0, JobActions
    DEF Service!Next

(* Every behaviour of the workers is one of JobService: jobs are executed  *)
(* once each, in order of acceptance, until the transfer closes.           *)
THEOREM ImplementsService == Spec => ServiceSpec
  BY ServiceInit, ServiceStep, InvariantHolds, PTL
  DEF Spec, ServiceSpec, Service!Spec
=============================================================================
