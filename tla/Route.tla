------------------------------- MODULE Route -------------------------------
(***************************************************************************)
(* How an HTTP request finds its handler: httpd_callback in main.c hands   *)
(* the path to route() in route.c, which searches the tables of the        *)
(* routers one after the other, calls the handler of the entry it finds    *)
(* and turns the handler's result into an answer, the help text or         *)
(* nothing.                                                                *)
(***************************************************************************)
EXTENDS Naturals, Sequences

CONSTANT StrayPaths   \* paths that clients ask for and no table contains

(* route_map of userquery.c and of orderquery.c, in the order of           *)
(* router_setup; each ends with an entry without a path.                   *)
NoPath == ""

ASSUME RouteAssumption == NoPath \notin StrayPaths

UserEntries == <<
  "/user/score", "/user/backcard", "/user/scenestatus", "/user/scenes",
  "/user/useract", "/user/analyscene", "/user/about", "/user/help", NoPath>>

OrderEntries == <<
  "/order/unsettled/get", "/order/unsettled/add", "/order/unsettled/del",
  "/order/unsettled/mod", "/order/settled/get", "/order/settled/add",
  "/order/settled/del", "/order/settled/mod", "/order/unsettled/help",
  "/order/settled/help", NoPath>>

Routers == <<UserEntries, OrderEntries>>

PathsOf(entries) == {entries[k] : k \in 1 .. Len(entries)} \ {NoPath}
UserPaths == PathsOf(UserEntries)
OrderPaths == PathsOf(OrderEntries)
Served == UserPaths \cup OrderPaths

(* What a handler returns.  It replies before it returns eRoute_success    *)
(* and only then; -1 is not one of the codes of route.h.                   *)
Codes == {"eRoute_null", "eRoute_success", "eRoute_failed", "-1"}

(* The order handlers and the help handlers always find something to say:  *)
(* http_response_error replies and returns eRoute_success.                 *)
Talkative == OrderPaths \cup {"/user/help", "/user/about"}

Results(p) ==
  IF p \in Talkative THEN {"eRoute_success"}
  ELSE IF p \in {"/user/score", "/user/backcard"}
       THEN {"eRoute_success", "eRoute_failed", "-1"}
       ELSE {"eRoute_success", "eRoute_failed"}

VARIABLES
  ro_pc,       \* "idle", or where route() stands
  ro_path,     \* the path of the request
  ro_router,   \* the index of the router being searched
  ro_i,        \* the index into its table
  ro_rtn,      \* the code so far
  ro_called,   \* history: the handlers called for this request, with their codes
  ro_replies   \* history: the replies sent to this request

routeVars == <<ro_pc, ro_path, ro_router, ro_i, ro_rtn, ro_called, ro_replies>>

RouteInit ==
  /\ ro_pc = "idle"
  /\ ro_path = NoPath
  /\ ro_router = 1 /\ ro_i = 1
  /\ ro_rtn = "eRoute_null"
  /\ ro_called = <<>>
  /\ ro_replies = 0

-----------------------------------------------------------------------------
(* Faulty variants, none of them used by Next.                             *)

(* the help text is not sent *)
HelpForgotten ==
  /\ ro_pc = "decide" /\ ro_rtn = "eRoute_failed"
  /\ ro_pc' = "done"
  /\ UNCHANGED <<ro_path, ro_router, ro_i, ro_rtn, ro_called, ro_replies>>

-----------------------------------------------------------------------------
(* httpd_callback: a request comes in; route() starts with the first       *)
(* table.                                                                  *)
Receive(p) ==
  /\ ro_pc = "idle"
  /\ ro_pc' = "search"
  /\ ro_path' = p
  /\ ro_router' = 1 /\ ro_i' = 1 /\ ro_rtn' = "eRoute_null"
  /\ ro_called' = <<>> /\ ro_replies' = 0

(* for (; i < router->entrycount; i++): the index goes on where the search *)
(* of the previous table has left it.                                      *)
Found == {k \in ro_i .. Len(Routers[ro_router]) : Routers[ro_router][k] = ro_path}

FirstFound(S) == CHOOSE k \in S : \A l \in S : k <= l

Differs ==
  /\ ro_pc = "search" /\ Found = {}
  /\ ro_pc' = "decide"
  /\ ro_i' = IF ro_i <= Len(Routers[ro_router]) THEN Len(Routers[ro_router]) + 1 ELSE ro_i
  /\ UNCHANGED <<ro_path, ro_router, ro_rtn, ro_called, ro_replies>>

Call ==
  /\ ro_pc = "search" /\ Found # {}
  /\ ro_pc' = "decide"
  /\ ro_i' = FirstFound(Found)
  /\ LET handler == Routers[ro_router][FirstFound(Found)]
     IN  /\ ro_rtn' \in Results(handler)
         /\ ro_called' = Append(ro_called, [handler |-> handler, code |-> ro_rtn'])
  /\ ro_replies' = ro_replies + (IF ro_rtn' = "eRoute_success" THEN 1 ELSE 0)
  /\ UNCHANGED <<ro_path, ro_router>>

(* eRoute_success ends the search; eRoute_failed ends it with router_help, *)
(* which replies.                                                          *)
Succeed ==
  /\ ro_pc = "decide" /\ ro_rtn = "eRoute_success"
  /\ ro_pc' = "done"
  /\ UNCHANGED <<ro_path, ro_router, ro_i, ro_rtn, ro_called, ro_replies>>

Help ==
  /\ ro_pc = "decide" /\ ro_rtn = "eRoute_failed"
  /\ ro_pc' = "done"
  /\ ro_rtn' = "eRoute_success"
  /\ ro_replies' = ro_replies + 1
  /\ UNCHANGED <<ro_path, ro_router, ro_i, ro_called>>

(* Any other code: the next router, and after the last one nothing.        *)
NextRouter ==
  /\ ro_pc = "decide" /\ ro_rtn \notin {"eRoute_success", "eRoute_failed"}
  /\ ro_router' = ro_router + 1
  /\ ro_pc' = IF ro_router < Len(Routers) THEN "search" ELSE "done"
  /\ UNCHANGED <<ro_path, ro_i, ro_rtn, ro_called, ro_replies>>

Return ==
  /\ ro_pc = "done" /\ ro_pc' = "idle"
  /\ UNCHANGED <<ro_path, ro_router, ro_i, ro_rtn, ro_called, ro_replies>>

RouteStep == Differs \/ Call \/ Succeed \/ Help \/ NextRouter \/ Return

RouteNext == RouteStep \/ \E p \in Served \cup StrayPaths : Receive(p)

RouteSpec == RouteInit /\ [][RouteNext]_routeVars

-----------------------------------------------------------------------------
RouteTypeOK ==
  /\ ro_pc \in {"idle", "search", "decide", "done"}
  /\ ro_path \in Served \cup StrayPaths \cup {NoPath}
  /\ ro_router \in 1 .. Len(Routers) + 1
  /\ ro_i \in 1 .. Len(OrderEntries) + 1
  /\ ro_rtn \in Codes
  /\ ro_called \in Seq([handler : Served, code : Codes])
  /\ ro_replies \in Nat

(* evhttp_send_reply ends a request: a request is never replied to twice,  *)
(* although a handler replies by itself and the help text does so too.     *)
OneReplyAtMost == ro_replies <= 1

(* No handler but the one of the path runs, and it runs once; a search     *)
(* that went on after its result would run another, or the help of the     *)
(* other router.                                                           *)
OnlyItsHandler ==
  /\ Len(ro_called) <= 1
  /\ Len(ro_called) = 1 => ro_called[1].handler = ro_path

(* A path of the first router is answered, by the handler or by the help,  *)
(* unless the handler has given up with -1.                                *)
UserPathsAnswered ==
  ro_pc = "done" /\ ro_path \in UserPaths =>
    ro_replies = 1 \/ (Len(ro_called) = 1 /\ ro_called[1].code = "-1")

(* The tables say what is served: "/order/unsettled/get" is the query of   *)
(* the unsettled orders, and so on.                                        *)
OrderPathsCalled ==
  ro_pc = "done" /\ ro_path \in OrderPaths => Len(ro_called) = 1
=============================================================================
