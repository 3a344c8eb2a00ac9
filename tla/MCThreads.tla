----------------------------- MODULE MCThreads -----------------------------
(* What the threads of parker owe, for TLC, each by itself: the event loop *)
(* with the transfer worker beside it, the callbacks that take turns in    *)
(* the event loop, and the calls before and after it.                      *)
EXTENDS Transfer, EventLoop, Startup

VARIABLE subject   \* the part that is looked at

threadsVars == <<subject, vars, eventLoopVars, startupVars>>

(* A part that is not looked at stays in one of its initial states.         *)
ThreadsInit ==
  /\ subject \in {"Transfer", "EventLoop", "Startup"}
  /\ Init
  /\ IF subject = "EventLoop" THEN TRUE ELSE my_up = [d \in Databases |-> FALSE]
  /\ EventLoopInit
  /\ IF subject = "Startup" THEN TRUE
     ELSE su_file = [there |-> FALSE, garbled |-> FALSE, keys |-> {}, others |-> {}]
  /\ StartupInit

ThreadsNext ==
  \/ /\ subject = "Transfer" /\ Next
     /\ UNCHANGED <<subject, eventLoopVars, startupVars>>
  \/ /\ subject = "EventLoop" /\ EventLoopNext
     /\ UNCHANGED <<subject, vars, startupVars>>
  \/ /\ subject = "Startup" /\ StartupNext
     /\ UNCHANGED <<subject, vars, eventLoopVars>>

(* Fairness and EventLoopFairness, each of the part that is looked at.      *)
ThreadsFairness ==
  /\ WF_vars(subject = "Transfer" /\ MainStep)
  /\ SF_vars(subject = "Transfer" /\ PostLock)
  /\ \A t \in Transfers :
       /\ WF_vars(subject = "Transfer" /\ WorkerStep(t))
       /\ SF_vars(subject = "Transfer" /\ Timeout(t))
  /\ WF_eventLoopVars(subject = "EventLoop" /\ RequestGoesOn)
  /\ SF_eventLoopVars(subject = "EventLoop" /\ TimerOrStart)

ThreadsSpec == ThreadsInit /\ [][ThreadsNext]_threadsVars /\ ThreadsFairness
=============================================================================
