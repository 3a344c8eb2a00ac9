------------------------------ MODULE EventLoop ------------------------------
(***************************************************************************)
(* The one thread that start_httpd of main.c leaves in                     *)
(* event_base_dispatch: the requests (module Route) and the one-second     *)
(* timer (module MysqlDb) take turns, each callback running to its end,    *)
(* while the two database servers go down and come up at any time.         *)
(* Requests come in only when both databases have been tried for the first *)
(* time.  What _tmain does before and after the loop is in module Startup. *)
(***************************************************************************)
EXTENDS Route, MysqlDb

eventLoopVars == <<routeVars, mysqlDbVars>>

EventLoopInit == RouteInit /\ MysqlDbInit

-----------------------------------------------------------------------------
(* httpd_callback, for a request: not inside the timer's callback. *)
RequestArrives ==
  /\ my_pc = "loop"
  /\ \E p \in Served \cup StrayPaths : Receive(p)
  /\ UNCHANGED mysqlDbVars

RequestGoesOn == RouteStep /\ UNCHANGED mysqlDbVars

(* The connects of _tmain and ontimer: not inside a request. *)
TimerOrStart ==
  /\ ro_pc = "idle"
  /\ Program
  /\ UNCHANGED routeVars

ServersChange ==
  /\ \E d \in Databases : GoDown(d) \/ ComeUp(d)
  /\ UNCHANGED routeVars

EventLoopNext == RequestArrives \/ RequestGoesOn \/ TimerOrStart \/ ServersChange

(* A callback comes to its end.  A timer that is due is run in the same    *)
(* round of the loop as the requests that have come in, however many those *)
(* are: it is often, if not always, enabled.                               *)
EventLoopFairness ==
  WF_eventLoopVars(RequestGoesOn) /\ SF_eventLoopVars(TimerOrStart)

EventLoopSpec == EventLoopInit /\ [][EventLoopNext]_eventLoopVars /\ EventLoopFairness

-----------------------------------------------------------------------------
(* A request is replied to by the handler of its path or by the help, and  *)
(* not by both, however the search over the tables goes on; a path of the  *)
(* first router is left without a reply only by a handler that gave up     *)
(* with -1.                                                                *)
RequestServedOnce == RouteTypeOK /\ OneReplyAtMost /\ OnlyItsHandler /\ UserPathsAnswered

(* The pointers that worker and event loop read without a lock never go    *)
(* back to NULL, and a database whose server stays up gets one, however    *)
(* many requests keep the loop busy.                                       *)
ConnectionsKept == []MysqlDbTypeOK /\ ObjectsStay /\ ConnectedInTheEnd

=============================================================================
