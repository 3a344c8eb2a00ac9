----------------------------- MODULE JobService -----------------------------
(***************************************************************************)
(* What the transfer workers promise to the event loop, without threads,   *)
(* mutexes or the pair of queues: each transfer executes the jobs it has   *)
(* accepted one at a time, in the order of acceptance, each exactly once,  *)
(* until it is closed, once and for all, abandoning what is still pending. *)
(* Module Transfer implements it.                                          *)
(***************************************************************************)
EXTENDS Naturals, Sequences

CONSTANTS Cards, TransferCount

Transfers == 1 .. TransferCount

VARIABLES
  pending,   \* jobs accepted and not yet executed, of each transfer
  executed,  \* jobs executed, in order
  closed     \* has the transfer stopped for good?

serviceVars == <<pending, executed, closed>>

Init ==
  /\ pending = [t \in Transfers |-> <<>>]
  /\ executed = [t \in Transfers |-> <<>>]
  /\ closed = [t \in Transfers |-> FALSE]

Accept(t, c) ==
  /\ ~ closed[t]
  /\ pending' = [pending EXCEPT ![t] = Append(@, c)]
  /\ UNCHANGED <<executed, closed>>

Execute(t) ==
  /\ ~ closed[t]
  /\ pending[t] # <<>>
  /\ executed' = [executed EXCEPT ![t] = Append(@, Head(pending[t]))]
  /\ pending' = [pending EXCEPT ![t] = Tail(@)]
  /\ UNCHANGED closed

Close(t) ==
  /\ ~ closed[t]
  /\ closed' = [closed EXCEPT ![t] = TRUE]
  /\ pending' = [pending EXCEPT ![t] = <<>>]
  /\ UNCHANGED executed

Next ==
  \E t \in Transfers :
    \/ \E c \in Cards : Accept(t, c)
    \/ Execute(t)
    \/ Close(t)

Spec == Init /\ [][Next]_serviceVars
=============================================================================
