------------------------------ MODULE Transfer ------------------------------
(***************************************************************************)
(* The background transfer workers of parker (datatransfer.c) and the      *)
(* table of them (datatransfers.c).  The event-loop thread accepts a       *)
(* returned card, appends a job to one transfer's workqueue under the      *)
(* transfer's mutex and signals its condition variable; the worker thread  *)
(* waits at most 300 ms at a time, moves the whole workqueue to its        *)
(* private workingqueue under the mutex, releases the mutex and executes   *)
(* the jobs one by one.                                                    *)
(*                                                                         *)
(* One action per step that another thread can observe: each lock, wait,   *)
(* queue operation and write of a shared field.                            *)
(***************************************************************************)
EXTENDS Naturals, Sequences, TLC

CONSTANTS
  Cards,          \* the card numbers that may be returned
  TransferCount,  \* __transfer_count, 1 in the code
  MaxPushes,      \* bound: calls of transfers_pushAjob in a behaviour
  WaitMayFail,    \* may pthread_cond_timedwait fail other than by ETIMEDOUT?
  MayStop         \* may start_httpd return, so that main shuts down?

ASSUME TransferAssumption ==
  /\ TransferCount \in Nat \ {0}
  /\ MaxPushes \in Nat
  /\ WaitMayFail \in BOOLEAN
  /\ MayStop \in BOOLEAN

Transfers == 1 .. TransferCount

(* Jobs are compared for equality only, so cards are interchangeable in    *)
(* the runs that check safety.                                             *)
CardSymmetry == Permutations(Cards)

VARIABLES
  \* the fields of a transfer_st
  runing,         \* _runing
  pth,            \* _pth # NULL
  mutex,          \* _mt_signal: "free", its holder, or "destroyed"
  workqueue,      \* _workqueue, shared, guarded by _mt_signal
  workingqueue,   \* _workingqueue, pushed and pulled by the worker only
  frees,          \* how often transfer_clear has freed the two queues
  \* the worker thread of each transfer
  wpc,            \* where _worker stands
  wait,           \* its local wait: the last result of pthread_cond_timedwait
  job,            \* its local job, <<>> between two jobs
  \* the thread that runs main and the event loop
  mpc,            \* where it stands
  mostidle,       \* local of transfers_pushAjob; also i of the shutdown loop
  scan,           \* i of the loops over g_transfers
  card,           \* the job being pushed
  pushes,         \* calls of transfers_pushAjob so far, for the bound
  undefined,      \* a thread used freed memory: nothing is known afterwards
  \* history
  accepted,       \* jobs appended to a workqueue, in order
  done,           \* jobs executed, in order
  missed          \* jobs for which "the job is missed" was printed

queueVars  == <<mutex, workqueue, workingqueue, frees>>
workerVars == <<wpc, wait, job>>
mainVars   == <<mpc, mostidle, scan, card, pushes>>
flagVars   == <<runing, pth>>
history    == <<accepted, done, missed>>
vars == <<flagVars, queueVars, workerVars, mainVars, undefined, history>>

WorkerPc == {"off", "test", "lock", "predicate", "waiting", "relock", "move",
             "jobs", "dojob", "clear_queues", "clear_flags", "clear_mutex",
             "gone"}
MainPc == {"startup", "loop", "compare", "check_runing", "lock", "push",
           "signal", "unlock", "stop", "join", "join_wait", "clear", "end"}

TypeOK ==
  /\ runing \in [Transfers -> BOOLEAN]
  /\ pth \in [Transfers -> BOOLEAN]
  /\ mutex \in [Transfers -> {"free", "worker", "loop", "destroyed"}]
  /\ workqueue \in [Transfers -> Seq(Cards)]
  /\ workingqueue \in [Transfers -> Seq(Cards)]
  /\ frees \in [Transfers -> Nat]
  /\ wpc \in [Transfers -> WorkerPc]
  /\ wait \in [Transfers -> {"ok", "ETIMEDOUT", "error"}]
  /\ job \in [Transfers -> Seq(Cards)]
  /\ mpc \in MainPc
  /\ mostidle \in Transfers
  /\ scan \in 1 .. TransferCount + 1
  /\ card \in Seq(Cards)
  /\ pushes \in 0 .. MaxPushes
  /\ undefined \in BOOLEAN
  /\ accepted \in [Transfers -> Seq(Cards)]
  /\ done \in [Transfers -> Seq(Cards)]
  /\ missed \in Seq(Cards)

(* The state when transfers_startup has calloc'ed and initialised the      *)
(* table: nothing has started, both queues of every transfer are empty.    *)
Init ==
  /\ runing = [t \in Transfers |-> FALSE]
  /\ pth = [t \in Transfers |-> FALSE]
  /\ mutex = [t \in Transfers |-> "free"]
  /\ workqueue = [t \in Transfers |-> <<>>]
  /\ workingqueue = [t \in Transfers |-> <<>>]
  /\ frees = [t \in Transfers |-> 0]
  /\ wpc = [t \in Transfers |-> "off"]
  /\ wait = [t \in Transfers |-> "ok"]
  /\ job = [t \in Transfers |-> <<>>]
  /\ mpc = "startup"
  /\ mostidle = 1
  /\ scan = 1
  /\ card = <<>>
  /\ pushes = 0
  /\ undefined = FALSE
  /\ accepted = [t \in Transfers |-> <<>>]
  /\ done = [t \in Transfers |-> <<>>]
  /\ missed = <<>>

-----------------------------------------------------------------------------
(* Each step of a thread moves its program counter.  After an access to    *)
(* freed memory nothing can be said of the program: no step is modelled.   *)
Goto(t, from, to) ==
  ~ undefined /\ wpc[t] = from /\ wpc' = [wpc EXCEPT ![t] = to]
MainGoto(from, to) == ~ undefined /\ mpc = from /\ mpc' = to

(***************************************************************************)
(* Faulty variants of the definitions that follow.  None is used by Next:  *)
(* each is a mistake that one property of this module would reveal.        *)
(***************************************************************************)

(* the worker prepends instead of appending: last accepted, first done     *)
MoveJobToFront(t) ==
  /\ ~ undefined /\ wpc[t] = "move"
  /\ workqueue[t] # <<>>
  /\ workingqueue' = [workingqueue EXCEPT ![t] = <<Head(workqueue[t])>> \o @]
  /\ workqueue' = [workqueue EXCEPT ![t] = Tail(@)]
  /\ UNCHANGED <<flagVars, mutex, frees, workerVars, mainVars, undefined,
                 history>>

(* the wait returns without the mutex                                      *)
RelockNothing(t) ==
  /\ Goto(t, "relock", "predicate")
  /\ UNCHANGED <<flagVars, queueVars, wait, job, mainVars, undefined, history>>

(* the mutex stays locked while the jobs run                               *)
UnlockForgotten(t) ==
  /\ Goto(t, "move", "jobs")
  /\ workqueue[t] = <<>>
  /\ UNCHANGED <<flagVars, queueVars, wait, job, mainVars, undefined, history>>

(* the job loop also ends when the transfer is being stopped               *)
EndJobsOnStop(t) ==
  /\ Goto(t, "jobs", "test")
  /\ workingqueue[t] = <<>> \/ ~ runing[t]
  /\ UNCHANGED <<flagVars, queueVars, wait, job, mainVars, undefined, history>>

(* the next job is looked at, not removed                                  *)
PeekJob(t) ==
  /\ Goto(t, "jobs", "dojob")
  /\ workingqueue[t] # <<>>
  /\ job' = [job EXCEPT ![t] = <<Head(workingqueue[t])>>]
  /\ UNCHANGED <<flagVars, queueVars, wait, mainVars, undefined, history>>

(* pthread_cond_wait instead of pthread_cond_timedwait                     *)
NoTimeout(t) ==
  /\ Goto(t, "waiting", "relock")
  /\ workqueue[t] # <<>>
  /\ wait' = [wait EXCEPT ![t] = "ok"]
  /\ UNCHANGED <<flagVars, queueVars, job, mainVars, undefined, history>>

(* any result but 0 is an error                                            *)
IsNotOk(result) == result # "ok"

(* the condition variable is not signalled                                 *)
SignalForgotten ==
  /\ MainGoto("signal", "unlock")
  /\ UNCHANGED <<flagVars, queueVars, workerVars, mostidle, scan, card, pushes,
                 undefined, history>>

(* the whole local is recorded instead of the job                          *)
MissRecord ==
  /\ MainGoto("check_runing", "loop")
  /\ ~ runing[mostidle]
  /\ missed' = Append(missed, card)
  /\ card' = <<>>
  /\ UNCHANGED <<flagVars, queueVars, workerVars, mostidle, scan, pushes,
                 undefined, accepted, done>>

(* transfer_stop does not join                                             *)
JoinWithoutWaiting ==
  /\ MainGoto("join", "clear")
  /\ UNCHANGED <<flagVars, queueVars, workerVars, mostidle, scan, card, pushes,
                 undefined, history>>

-----------------------------------------------------------------------------
(* The worker thread of transfer t: _worker.                               *)

(* while (transfer->_runing), read without the mutex *)
TestRuning(t) ==
  /\ Goto(t, "test", IF runing[t] THEN "lock" ELSE "clear_queues")
  /\ UNCHANGED <<flagVars, queueVars, wait, job, mainVars, undefined, history>>

(* pthread_mutex_lock; int wait = 0 *)
Lock(t) ==
  /\ Goto(t, "lock", "predicate")
  /\ mutex[t] = "free"
  /\ mutex' = [mutex EXCEPT ![t] = "worker"]
  /\ wait' = [wait EXCEPT ![t] = "ok"]
  /\ UNCHANGED <<flagVars, workqueue, workingqueue, frees, job, mainVars,
                 undefined, history>>

(* The wait predicate holds: pthread_cond_timedwait releases the mutex and *)
(* blocks.                                                                 *)
BeginWait(t) ==
  /\ Goto(t, "predicate", "waiting")
  /\ workqueue[t] = <<>> /\ wait[t] = "ok"
  /\ mutex' = [mutex EXCEPT ![t] = "free"]
  /\ UNCHANGED <<flagVars, workqueue, workingqueue, frees, wait, job, mainVars,
                 undefined, history>>

(* The wait ends: its 300 ms have passed, ...                              *)
Timeout(t) ==
  /\ Goto(t, "waiting", "relock")
  /\ wait' = [wait EXCEPT ![t] = "ETIMEDOUT"]
  /\ UNCHANGED <<flagVars, queueVars, job, mainVars, undefined, history>>

(* ... or it wakes without a signal, as POSIX allows, ...                  *)
SpuriousWakeup(t) ==
  /\ Goto(t, "waiting", "relock")
  /\ wait' = [wait EXCEPT ![t] = "ok"]
  /\ UNCHANGED <<flagVars, queueVars, job, mainVars, undefined, history>>

(* ... or it fails.  (The fourth way out is Signal, below.)                *)
WaitError(t) ==
  /\ WaitMayFail
  /\ Goto(t, "waiting", "relock")
  /\ wait' = [wait EXCEPT ![t] = "error"]
  /\ UNCHANGED <<flagVars, queueVars, job, mainVars, undefined, history>>

(* pthread_cond_timedwait returns with the mutex held again *)
Relock(t) ==
  /\ Goto(t, "relock", "predicate")
  /\ mutex[t] = "free"
  /\ mutex' = [mutex EXCEPT ![t] = "worker"]
  /\ UNCHANGED <<flagVars, workqueue, workingqueue, frees, wait, job, mainVars,
                 undefined, history>>

IsError(result) == result \notin {"ok", "ETIMEDOUT"}

(* if (wait != 0 && wait != ETIMEDOUT): unlock and leave the loop *)
BreakOnError(t) ==
  /\ Goto(t, "predicate", "clear_queues")
  /\ IsError(wait[t])
  /\ mutex' = [mutex EXCEPT ![t] = "free"]
  /\ UNCHANGED <<flagVars, workqueue, workingqueue, frees, wait, job, mainVars,
                 undefined, history>>

(* The wait loop is left with a job or a timeout. *)
EndWait(t) ==
  /\ Goto(t, "predicate", "move")
  /\ ~ IsError(wait[t])
  /\ workqueue[t] # <<>> \/ wait[t] = "ETIMEDOUT"
  /\ UNCHANGED <<flagVars, queueVars, wait, job, mainVars, undefined, history>>

(* jqueue_push(_workingqueue, jqueue_pull(_workqueue), 0) *)
MoveJob(t) ==
  /\ ~ undefined /\ wpc[t] = "move"
  /\ workqueue[t] # <<>>
  /\ workingqueue' = [workingqueue EXCEPT ![t] = Append(@, Head(workqueue[t]))]
  /\ workqueue' = [workqueue EXCEPT ![t] = Tail(@)]
  /\ UNCHANGED <<flagVars, mutex, frees, workerVars, mainVars, undefined,
                 history>>

(* The workqueue is empty: pthread_mutex_unlock *)
Unlock(t) ==
  /\ Goto(t, "move", "jobs")
  /\ workqueue[t] = <<>>
  /\ mutex' = [mutex EXCEPT ![t] = "free"]
  /\ UNCHANGED <<flagVars, workqueue, workingqueue, frees, wait, job, mainVars,
                 undefined, history>>

(* while (jqueue_size(_workingqueue) > 0): pull the next job, or go round *)
PullJob(t) ==
  /\ Goto(t, "jobs", "dojob")
  /\ workingqueue[t] # <<>>
  /\ job' = [job EXCEPT ![t] = <<Head(workingqueue[t])>>]
  /\ workingqueue' = [workingqueue EXCEPT ![t] = Tail(@)]
  /\ UNCHANGED <<flagVars, mutex, workqueue, frees, wait, mainVars, undefined,
                 history>>

EndJobs(t) ==
  /\ Goto(t, "jobs", "test")
  /\ workingqueue[t] = <<>>
  /\ UNCHANGED <<flagVars, queueVars, wait, job, mainVars, undefined, history>>

(* dojob(job); free(job).  The deletions it does are in module BackCard.   *)
DoJob(t) ==
  /\ Goto(t, "dojob", "jobs")
  /\ done' = [done EXCEPT ![t] = Append(@, Head(job[t]))]
  /\ job' = [job EXCEPT ![t] = <<>>]
  /\ UNCHANGED <<flagVars, queueVars, wait, mainVars, undefined, accepted,
                 missed>>

-----------------------------------------------------------------------------
(* transfer_clear, called by the worker as its last act and by main.  The  *)
(* queue pointers are not reset, so a second call frees the pools again.   *)

FreeQueues(t) ==
  /\ frees' = [frees EXCEPT ![t] = @ + 1]
  /\ undefined' = (frees[t] > 0)
  /\ workqueue' = [workqueue EXCEPT ![t] = <<>>]
  /\ workingqueue' = [workingqueue EXCEPT ![t] = <<>>]

WorkerClearQueues(t) ==
  /\ Goto(t, "clear_queues", "clear_flags")
  /\ FreeQueues(t)
  /\ UNCHANGED <<flagVars, mutex, wait, job, mainVars, history>>

(* _pth = NULL; _runing = 0 *)
WorkerClearFlags(t) ==
  /\ Goto(t, "clear_flags", "clear_mutex")
  /\ pth' = [pth EXCEPT ![t] = FALSE]
  /\ runing' = [runing EXCEPT ![t] = FALSE]
  /\ UNCHANGED <<queueVars, wait, job, mainVars, undefined, history>>

(* pthread_mutex_destroy, pthread_cond_destroy, return from _worker *)
WorkerClearMutex(t) ==
  /\ Goto(t, "clear_mutex", "gone")
  /\ mutex' = [mutex EXCEPT ![t] = "destroyed"]
  /\ UNCHANGED <<flagVars, workqueue, workingqueue, frees, wait, job, mainVars,
                 undefined, history>>

-----------------------------------------------------------------------------
(* The thread of main: transfers_startup, the event loop with its calls of *)
(* transfers_pushAjob, and transfers_free once the loop has returned.      *)

(* transfer_start of the next transfer: _runing = 1; pthread_create        *)
Start ==
  /\ ~ undefined /\ mpc = "startup"
  /\ runing' = [runing EXCEPT ![scan] = TRUE]
  /\ pth' = [pth EXCEPT ![scan] = TRUE]
  /\ wpc' = [wpc EXCEPT ![scan] = "test"]
  /\ IF scan < TransferCount
     THEN scan' = scan + 1 /\ mpc' = mpc
     ELSE scan' = 1 /\ mpc' = "loop"
  /\ UNCHANGED <<queueVars, wait, job, mostidle, card, pushes, undefined,
                 history>>

(* user_backcard calls transfers_pushAjob: mostidle = &g_transfers[0]; i = 1 *)
PushAjob(c) ==
  /\ MainGoto("loop", "compare")
  /\ pushes < MaxPushes
  /\ pushes' = pushes + 1
  /\ card' = <<c>>
  /\ mostidle' = 1
  /\ scan' = 2
  /\ UNCHANGED <<flagVars, queueVars, workerVars, undefined, history>>

(* One round of the load-balancing loop.  transfer_jobs_remain_cnt reads   *)
(* the sizes of four queues while their workers change them, without the   *)
(* mutex, so the comparison may come out either way; when a queue is freed *)
(* the read is of freed memory.                                            *)
Compare ==
  /\ ~ undefined /\ mpc = "compare"
  /\ scan <= TransferCount
  /\ mostidle' \in (IF runing[mostidle] THEN {mostidle, scan} ELSE {mostidle})
  /\ undefined' = (runing[mostidle] /\ frees[mostidle] + frees[scan] > 0)
  /\ scan' = scan + 1
  /\ UNCHANGED <<flagVars, queueVars, workerVars, mpc, card, pushes, history>>

EndCompare ==
  /\ MainGoto("compare", "check_runing")
  /\ scan > TransferCount
  /\ UNCHANGED <<flagVars, queueVars, workerVars, mostidle, scan, card, pushes,
                 undefined, history>>

(* if (mostidle->_runing), read without the mutex                          *)
CheckRuning ==
  /\ MainGoto("check_runing", "lock")
  /\ runing[mostidle]
  /\ UNCHANGED <<flagVars, queueVars, workerVars, mostidle, scan, card, pushes,
                 undefined, history>>

(* "the job is missed.. please check!"                                     *)
Miss ==
  /\ MainGoto("check_runing", "loop")
  /\ ~ runing[mostidle]
  /\ missed' = missed \o card
  /\ card' = <<>>
  /\ UNCHANGED <<flagVars, queueVars, workerVars, mostidle, scan, pushes,
                 undefined, accepted, done>>

(* transfer_postAjob: pthread_mutex_lock.  On a destroyed mutex anything   *)
(* may happen.                                                             *)
PostLock ==
  /\ MainGoto("lock", "push")
  /\ mutex[mostidle] \in {"free", "destroyed"}
  /\ mutex' = [mutex EXCEPT ![mostidle] = "loop"]
  /\ undefined' = (mutex[mostidle] = "destroyed")
  /\ UNCHANGED <<flagVars, workqueue, workingqueue, frees, workerVars, mostidle,
                 scan, card, pushes, history>>

(* jqueue_push(_workqueue, job2, 0)                                        *)
PostPush ==
  /\ MainGoto("push", "signal")
  /\ workqueue' = [workqueue EXCEPT ![mostidle] = Append(@, Head(card))]
  /\ accepted' = [accepted EXCEPT ![mostidle] = Append(@, Head(card))]
  /\ card' = <<>>
  /\ undefined' = (frees[mostidle] > 0)
  /\ UNCHANGED <<flagVars, mutex, workingqueue, frees, workerVars, mostidle,
                 scan, pushes, done, missed>>

(* pthread_cond_signal: a waiting worker returns from its wait with 0      *)
PostSignal ==
  /\ MainGoto("signal", "unlock")
  /\ wpc' = [wpc EXCEPT ![mostidle] = IF @ = "waiting" THEN "relock" ELSE @]
  /\ UNCHANGED <<flagVars, queueVars, wait, job, mostidle, scan, card, pushes,
                 undefined, history>>

PostUnlock ==
  /\ MainGoto("unlock", "loop")
  /\ mutex' = [mutex EXCEPT ![mostidle] = IF @ = "loop" THEN "free" ELSE @]
  /\ UNCHANGED <<flagVars, workqueue, workingqueue, frees, workerVars, mostidle,
                 scan, card, pushes, undefined, history>>

(* start_httpd returns, because the port cannot be bound or because        *)
(* event_base_dispatch has ended; main calls transfers_free.               *)
ServerReturns ==
  /\ MayStop
  /\ MainGoto("loop", "stop")
  /\ mostidle' = 1
  /\ UNCHANGED <<flagVars, queueVars, workerVars, scan, card, pushes, undefined,
                 history>>

(* transfer_stop of transfer mostidle: returns at once when _pth == NULL,  *)
(* else _runing = 0.  The condition variable is not signalled.             *)
StopTransfer ==
  /\ ~ undefined /\ mpc = "stop"
  /\ IF pth[mostidle]
     THEN mpc' = "join" /\ runing' = [runing EXCEPT ![mostidle] = FALSE]
     ELSE mpc' = "clear" /\ runing' = runing
  /\ UNCHANGED <<pth, queueVars, workerVars, mostidle, scan, card, pushes,
                 undefined, history>>

(* The argument of pthread_join(transfer->_pth) is read again: the worker  *)
(* may have set it to NULL by now, and then the call does not wait.        *)
Join ==
  /\ MainGoto("join", IF pth[mostidle] THEN "join_wait" ELSE "clear")
  /\ UNCHANGED <<flagVars, queueVars, workerVars, mostidle, scan, card, pushes,
                 undefined, history>>

JoinReturns ==
  /\ MainGoto("join_wait", "clear")
  /\ wpc[mostidle] = "gone"
  /\ pth' = [pth EXCEPT ![mostidle] = FALSE]
  /\ UNCHANGED <<runing, queueVars, workerVars, mostidle, scan, card, pushes,
                 undefined, history>>

(* transfers_stop: transfer_clear of transfer mostidle.  Its queues have   *)
(* always been freed by the worker already, so no step after this one is   *)
(* modelled: not the other transfers, not free(g_transfers).               *)
MainClear ==
  /\ MainGoto("clear", "end")
  /\ FreeQueues(mostidle)
  /\ UNCHANGED <<flagVars, mutex, workerVars, mostidle, scan, card, pushes,
                 history>>

-----------------------------------------------------------------------------
(* What the worker thread does by itself, and what its environment may do. *)
WorkerStep(t) ==
  \/ TestRuning(t) \/ Lock(t) \/ BeginWait(t) \/ Relock(t)
  \/ BreakOnError(t) \/ EndWait(t) \/ MoveJob(t) \/ Unlock(t)
  \/ PullJob(t) \/ EndJobs(t) \/ DoJob(t)
  \/ WorkerClearQueues(t) \/ WorkerClearFlags(t) \/ WorkerClearMutex(t)

Worker(t) == WorkerStep(t) \/ Timeout(t) \/ SpuriousWakeup(t) \/ WaitError(t)

(* The steps main owes once it has begun a push or the shutdown.           *)
MainStep ==
  \/ Start \/ Compare \/ EndCompare \/ CheckRuning \/ Miss
  \/ PostLock \/ PostPush \/ PostSignal \/ PostUnlock
  \/ StopTransfer \/ Join \/ JoinReturns \/ MainClear

Main == MainStep \/ ServerReturns \/ \E c \in Cards : PushAjob(c)

Next == Main \/ \E t \in Transfers : Worker(t)

Spec == Init /\ [][Next]_vars

(* Both threads are scheduled; a wait that is begun over and over is not   *)
(* cut short by a spurious wakeup every time, as its deadline is 300 ms;   *)
(* and a mutex that the worker leaves free for up to 300 ms in every round *)
(* is granted to the event loop in one of them.                            *)
Fairness ==
  /\ WF_vars(MainStep)
  /\ SF_vars(PostLock)
  /\ \A t \in Transfers :
       /\ WF_vars(WorkerStep(t))
       /\ SF_vars(Timeout(t))

FairSpec == Spec /\ Fairness

-----------------------------------------------------------------------------
(* A job handed to a transfer is in exactly one place, and jobs keep the   *)
(* order in which the event loop accepted them: executed, being executed,  *)
(* taken over by the worker, waiting in the shared queue.  It holds as     *)
(* long as the queues have not been freed.                                 *)
NoJobLostOrReordered ==
  \A t \in Transfers : frees[t] = 0 =>
    accepted[t] = ((done[t] \o job[t]) \o workingqueue[t]) \o workqueue[t]

(* A worker that leaves its loop, on a stop or on a failed wait, has       *)
(* finished every job it had taken over; only the shared queue is given    *)
(* up.                                                                     *)
MovedJobsAreFinished ==
  \A t \in Transfers :
    wpc[t] \in {"clear_queues", "clear_flags", "clear_mutex", "gone"} =>
      job[t] = <<>> /\ workingqueue[t] = <<>>

(* A worker is never asleep over a job: when the shared queue is not empty *)
(* the worker is awake, or the event loop is about to signal it.           *)
NoLostWakeup ==
  \A t \in Transfers :
    wpc[t] = "waiting" /\ workqueue[t] # <<>> =>
      mpc = "signal" /\ mostidle = t

(* The comment at the job loop of _worker: it runs outside the mutex, so   *)
(* that the consumer does not block the producer.  A worker that holds the *)
(* mutex has no database work before it releases it.                       *)
MutexHeldOnlyToMove ==
  \A t \in Transfers :
    mutex[t] = "worker" => wpc[t] \in {"predicate", "move"}

(* Both threads are never inside the critical section of one transfer.     *)
MutualExclusion ==
  \A t \in Transfers :
    ~ /\ wpc[t] \in {"predicate", "move"}
      /\ mpc \in {"push", "signal", "unlock"}
      /\ mostidle = t

(* Until main shuts down, every accepted job is executed, provided that no *)
(* wait fails (the runs of it set WaitMayFail to FALSE).                   *)
ShuttingDown == mpc \in {"stop", "join", "join_wait", "clear", "end"}

JobsAreDone ==
  \A t \in Transfers : \A n \in 1 .. MaxPushes :
    Len(accepted[t]) >= n ~> (Len(done[t]) >= n \/ ShuttingDown)

(* transfer_stop terminates although it does not signal the worker: the    *)
(* wait of at most 300 ms is what makes the worker see _runing = 0.        *)
StopReturns == mpc = "join_wait" ~> mpc = "clear"

(* A call of transfers_pushAjob gives control back to the event loop.      *)
PushReturns == mpc = "compare" ~> (mpc = "loop" \/ undefined)

(* pool.h on pool_free: it "frees all the data on the pool, and deletes    *)
(* the pool itself" - so the pool of a queue is freed once.                *)
PoolFreedOnce == \A t \in Transfers : frees[t] <= 1

(* The workers implement JobService: what is pending is what the worker    *)
(* holds followed by the shared queue, and a transfer is closed when its   *)
(* queues are freed.                                                       *)
Pending == [t \in Transfers |->
              IF frees[t] # 0 THEN <<>>
              ELSE (job[t] \o workingqueue[t]) \o workqueue[t]]

Service == INSTANCE JobService
             WITH pending <- Pending, executed <- done,
                  closed <- [t \in Transfers |-> frees[t] # 0]

ServiceSpec == Service!Spec

-----------------------------------------------------------------------------
(* The inductive invariant behind the safety properties above; module      *)
(* TransferProofs shows that every step preserves it.                      *)

(* A push carries its card until the card is in a queue.                   *)
CardHeld ==
  mpc \in {"compare", "check_runing", "lock", "push"} => Len(card) = 1

(* The worker holds one job while it executes it and none otherwise.       *)
JobHeld ==
  \A t \in Transfers :
    /\ wpc[t] = "dojob" => Len(job[t]) = 1
    /\ wpc[t] # "dojob" => job[t] = <<>>

(* The worker's own queue is filled and emptied in one round of its loop.  *)
WorkingEmptied ==
  \A t \in Transfers :
    wpc[t] \notin {"move", "jobs", "dojob"} => workingqueue[t] = <<>>

(* Whoever is inside a critical section holds the mutex, unless the mutex  *)
(* has been destroyed under the event loop.                                *)
MutexHolders ==
  /\ \A t \in Transfers :
       wpc[t] \in {"predicate", "move"} <=> mutex[t] = "worker"
  /\ mpc \in {"push", "signal", "unlock"} =>
       mutex[mostidle] \in {"loop", "destroyed"}

(* Start reaches the transfers in order, each of them before its worker.   *)
StartedInOrder ==
  /\ mpc = "startup" => scan \in Transfers
  /\ \A t \in Transfers : wpc[t] = "off" <=> mpc = "startup" /\ t >= scan

(* A worker runs its loop only while its queues are alive, although main   *)
(* clears them too: main gets there only when the worker has given up its  *)
(* _pth.                                                                   *)
QueuesAliveInLoop ==
  /\ \A t \in Transfers :
       wpc[t] \notin {"clear_flags", "clear_mutex", "gone"} => frees[t] = 0
  /\ \A t \in Transfers :
       ~ pth[t] => wpc[t] \in {"off", "clear_mutex", "gone"}
  /\ mpc = "clear" => wpc[mostidle] \in {"clear_mutex", "gone"}

(* Where the two threads stand, against what they hold.                    *)
ControlInv ==
  /\ CardHeld
  /\ JobHeld
  /\ WorkingEmptied
  /\ MutexHolders
  /\ StartedInOrder
  /\ QueuesAliveInLoop
  /\ NoLostWakeup

TransferInv == TypeOK /\ ControlInv /\ NoJobLostOrReordered
=============================================================================
