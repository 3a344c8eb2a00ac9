--------------------------- MODULE EventLoopProofs ---------------------------
(***************************************************************************)
(* The requests and the timer of the event loop, whatever paths clients    *)
(* ask for, however often the servers go down and whatever the period of   *)
(* the timer is: every request is served once, and the connection objects  *)
(* that the transfer worker reads beside the loop stay.                    *)
(***************************************************************************)
EXTENDS EventLoop, Startup, BasicFacts

(* What the search knows when it comes to the second router: the first one *)
(* has called the handler, which gave up with -1, or does not have it.     *)
SearchInv ==
  ro_pc = "search" =>
    /\ ro_path # NoPath
    /\ ro_router \in 1 .. 2
    /\ ro_replies = 0 /\ ro_rtn \notin {"eRoute_success", "eRoute_failed"}
    /\ ro_router = 1 => ro_i = 1 /\ ro_called = <<>>
    /\ ro_router = 2 =>
         IF ro_called = <<>> THEN ro_path \notin UserPaths ELSE ro_path \in UserPaths

(* The code of the handler is the one that is decided about.               *)
DecideInv ==
  ro_pc \in {"search", "decide"} /\ ro_called # <<>> =>
    /\ ro_called[1].code = ro_rtn
    /\ ro_rtn # "eRoute_null"
    /\ ro_pc = "search" => ro_rtn = "-1"

DecidedInv ==
  ro_pc = "decide" =>
    /\ ro_path # NoPath
    /\ ro_router \in 1 .. 2
    /\ ro_replies = (IF ro_rtn = "eRoute_success" THEN 1 ELSE 0)
    /\ ro_called = <<>> => ro_path \notin UserPaths
    /\ ro_called # <<>> /\ ro_router = 1 => ro_path \in UserPaths

RouteInv ==
  /\ RouteTypeOK /\ OneReplyAtMost /\ OnlyItsHandler /\ UserPathsAnswered
  /\ SearchInv /\ DecideInv /\ DecidedInv

(* An object is made at the start at the earliest.                         *)
ConnectInv ==
  /\ my_pc = "main_venue" => ~ my_obj["venue_db"]
  /\ my_pc \in {"main_venue", "main_userinfo"} => ~ my_obj["userinfo_db"]

ObjectInv == MysqlDbTypeOK /\ ConnectInv

-----------------------------------------------------------------------------
(* The tables.                                                             *)
LEMMA Tables ==
  /\ Len(Routers) = 2 /\ Routers[1] = UserEntries /\ Routers[2] = OrderEntries
  /\ Len(UserEntries) = 9 /\ Len(OrderEntries) = 11
  BY DEF Routers, UserEntries, OrderEntries

(* What a table has is what is served, but for the entry at its end.       *)
LEMMA UserTable ==
  \A k \in 1 .. 9 : UserEntries[k] # NoPath => UserEntries[k] \in UserPaths
  BY Tables DEF UserPaths, PathsOf

LEMMA OrderTable ==
  \A k \in 1 .. 11 : OrderEntries[k] # NoPath => OrderEntries[k] \in OrderPaths
  BY Tables DEF OrderPaths, PathsOf

(* No path is in both tables.                                              *)
LEMMA PathsApart == UserPaths \cap OrderPaths = {}
<1>1. \A k \in 1 .. 9 : UserEntries[k] \in
        {"/user/score", "/user/backcard", "/user/scenestatus", "/user/scenes",
         "/user/useract", "/user/analyscene", "/user/about", "/user/help", NoPath}
  BY DEF UserEntries
<1>2. \A k \in 1 .. 11 : OrderEntries[k] \in
        {"/order/unsettled/get", "/order/unsettled/add", "/order/unsettled/del",
         "/order/unsettled/mod", "/order/settled/get", "/order/settled/add",
         "/order/settled/del", "/order/settled/mod", "/order/unsettled/help",
         "/order/settled/help", NoPath}
  BY DEF OrderEntries
<1>3. UserPaths \subseteq
        {"/user/score", "/user/backcard", "/user/scenestatus", "/user/scenes",
         "/user/useract", "/user/analyscene", "/user/about", "/user/help"}
  BY <1>1, Tables DEF UserPaths, PathsOf
<1>4. OrderPaths \subseteq
        {"/order/unsettled/get", "/order/unsettled/add", "/order/unsettled/del",
         "/order/unsettled/mod", "/order/settled/get", "/order/settled/add",
         "/order/settled/del", "/order/settled/mod", "/order/unsettled/help",
         "/order/settled/help"}
  BY <1>2, Tables DEF OrderPaths, PathsOf
<1> QED BY <1>3, <1>4

(* Every path of a table is in it somewhere.                               *)
LEMMA UserPathFound ==
  ASSUME NEW p \in UserPaths
  PROVE  \E k \in 1 .. 9 : UserEntries[k] = p
  BY Tables DEF UserPaths, PathsOf

(* The empty path that ends a table is not asked for.                      *)
LEMMA RealPaths == \A p \in Served \cup StrayPaths : p # NoPath
  BY RouteAssumption DEF Served, UserPaths, OrderPaths, PathsOf

LEMMA ShortSequence ==
  ASSUME NEW S, NEW s \in Seq(S), Len(s) <= 1
  PROVE  Len(s) \in Nat /\ Len(s) <= 1 /\ (s # <<>> => Len(s) = 1)
<1> DEFINE n == Len(s)
<1>1. n \in Nat
  BY LenProperties
<1>2. s # <<>> => n # 0
  BY EmptySeq
<1>3. n <= 1
  OBVIOUS
<1> HIDE DEF n
<1>4. s # <<>> => n = 1
  BY <1>1, <1>2, <1>3
<1> QED BY <1>1, <1>3, <1>4 DEF n

-----------------------------------------------------------------------------
(* What a search finds is the path of the request, at an index of the      *)
(* table that is searched.                                                 *)
LEMMA FoundIsThere ==
  ASSUME RouteInv, ro_pc = "search", Found # {}
  PROVE  /\ FirstFound(Found) \in 1 .. Len(Routers[ro_router])
         /\ Routers[ro_router][FirstFound(Found)] = ro_path
         /\ ro_path \in Served
         /\ ro_router = 1 => ro_path \in UserPaths
         /\ ro_router = 2 => ro_path \in OrderPaths
<1> DEFINE n == FirstFound(Found)
<1>1. ro_router \in 1 .. 2 /\ ro_i \in Nat \ {0}
  BY DEF RouteInv, SearchInv, RouteTypeOK
<1>2. Len(Routers[ro_router]) \in Nat
  BY <1>1, Tables
<1>3. \E k \in Found : \A l \in Found : k <= l
  <2>1. Found \subseteq Nat
    BY <1>1, <1>2 DEF Found
  <2> QED BY <2>1, SmallestOf
<1>4. n \in Found
  BY <1>3 DEF FirstFound
<1>5. n \in 1 .. Len(Routers[ro_router]) /\ Routers[ro_router][n] = ro_path
  BY <1>1, <1>2, <1>4 DEF Found
<1>6. ro_path # NoPath
  BY DEF RouteInv, SearchInv
<1>7. ro_router = 1 => ro_path \in UserPaths
  BY <1>5, <1>6, Tables, UserTable
<1>8. ro_router = 2 => ro_path \in OrderPaths
  BY <1>5, <1>6, Tables, OrderTable
<1> QED BY <1>1, <1>5, <1>7, <1>8 DEF Served

(* A path of the first router is found there.                              *)
LEMMA UserPathIsFound ==
  ASSUME RouteInv, ro_pc = "search", ro_router = 1, ro_path \in UserPaths
  PROVE  Found # {}
<1>1. PICK k \in 1 .. 9 : UserEntries[k] = ro_path
  BY UserPathFound
<1> QED BY <1>1, Tables DEF Found, RouteInv, SearchInv

-----------------------------------------------------------------------------
(* The first request has not come in yet.                                  *)
LEMMA RouteStarts == RouteInit => RouteInv
<1> SUFFICES ASSUME RouteInit PROVE RouteInv
  OBVIOUS
<1>1. RouteTypeOK
  BY Tables DEF RouteInit, RouteTypeOK, Codes
<1>2. SearchInv /\ DecideInv /\ DecidedInv /\ OneReplyAtMost /\ OnlyItsHandler /\ UserPathsAnswered
  BY DEF RouteInit, SearchInv, DecideInv, DecidedInv, OneReplyAtMost, OnlyItsHandler,
         UserPathsAnswered
<1> QED BY <1>1, <1>2 DEF RouteInv

LEMMA ReceiveStep ==
  ASSUME RouteInv, NEW p \in Served \cup StrayPaths, Receive(p)
  PROVE  RouteInv'
<1>1. p # NoPath
  BY RealPaths
<1>2. RouteTypeOK'
  BY Tables DEF RouteInv, RouteTypeOK, Receive, Codes
<1>3. (SearchInv /\ DecideInv /\ DecidedInv /\ OneReplyAtMost /\ OnlyItsHandler
       /\ UserPathsAnswered)'
  BY <1>1 DEF Receive, SearchInv, DecideInv, DecidedInv, OneReplyAtMost, OnlyItsHandler,
         UserPathsAnswered
<1> QED BY <1>2, <1>3 DEF RouteInv

(* The table does not have the path: a path of the first router has been   *)
(* found there, and a handler that was called has given up.                *)
LEMMA DiffersStep ==
  ASSUME RouteInv, Differs
  PROVE  RouteInv'
<1>1. ro_pc = "search" /\ Found = {} /\ ro_router \in 1 .. 2
  BY DEF Differs, RouteInv, SearchInv
<1>2. Len(Routers[ro_router]) \in 1 .. 11
  <2>1. CASE ro_router = 1
    BY <2>1, Tables
  <2>2. CASE ro_router = 2
    BY <2>2, Tables
  <2> QED BY <1>1, <2>1, <2>2
<1>3. RouteTypeOK'
  <2>1. ro_i' \in 1 .. 12
    <3>1. ro_i \in 1 .. 12
      BY Tables DEF RouteInv, RouteTypeOK
    <3>2. ro_i' = ro_i \/ ro_i' = Len(Routers[ro_router]) + 1
      BY DEF Differs
    <3>3. CASE ro_i' = ro_i
      BY <3>1, <3>3
    <3>4. CASE ro_i' = Len(Routers[ro_router]) + 1
      <4> DEFINE last == Len(Routers[ro_router])
      <4>1. last \in 1 .. 11 /\ ro_i' = last + 1
        BY <1>2, <3>4
      <4> HIDE DEF last
      <4> QED BY <4>1
    <3> QED BY <3>2, <3>3, <3>4
  <2> QED BY <2>1, Tables DEF RouteInv, RouteTypeOK, Differs
<1>4. ro_router = 1 => ro_path \notin UserPaths
  BY <1>1, UserPathIsFound
<1>5. DecidedInv'
  BY <1>1, <1>4 DEF RouteInv, Differs, SearchInv, DecidedInv
<1>6. (SearchInv /\ DecideInv /\ OneReplyAtMost /\ OnlyItsHandler /\ UserPathsAnswered)'
  BY DEF RouteInv, Differs, SearchInv, DecideInv, OneReplyAtMost, OnlyItsHandler,
         UserPathsAnswered
<1> QED BY <1>3, <1>5, <1>6 DEF RouteInv

(* No handler gives back the code that stands for none.                    *)
LEMMA HandlerCodes ==
  ASSUME NEW p, NEW code \in Results(p)
  PROVE  code \in Codes \ {"eRoute_null"}
  BY DEF Results, Codes

(* The handler that is called is that of the path, and the first one: if   *)
(* the first router had one the second has none.                           *)
LEMMA CallStep ==
  ASSUME RouteInv, Call
  PROVE  RouteInv'
<1> DEFINE n == FirstFound(Found)
           handler == Routers[ro_router][n]
<1>1. ro_pc = "search" /\ Found # {} /\ ro_router \in 1 .. 2
  BY DEF Call, RouteInv, SearchInv
<1>2. n \in 1 .. 11 /\ handler = ro_path /\ ro_path \in Served
  BY <1>1, FoundIsThere, Tables
<1>3. ro_called = <<>>
  BY <1>1, FoundIsThere, PathsApart DEF RouteInv, SearchInv
<1>4. ro_rtn' \in Codes \ {"eRoute_null"}
  BY HandlerCodes DEF Call
<1>5. ro_called' = <<[handler |-> ro_path, code |-> ro_rtn']>>
  BY <1>2, <1>3 DEF Call
<1>6. ro_replies' = IF ro_rtn' = "eRoute_success" THEN 1 ELSE 0
  BY <1>1 DEF Call, RouteInv, SearchInv
<1>7. RouteTypeOK'
  <2>1. ro_called' \in Seq([handler : Served, code : Codes])
    BY <1>2, <1>4, <1>5
  <2>2. ro_i' \in 1 .. 12
    BY <1>2 DEF Call
  <2> QED BY <1>4, <1>6, <2>1, <2>2, Tables DEF RouteInv, RouteTypeOK, Call
<1>8. DecidedInv'
  BY <1>1, <1>5, <1>6, FoundIsThere DEF Call, DecidedInv, RouteInv, SearchInv
<1>9. OnlyItsHandler' /\ DecideInv'
  <2>1. /\ Len(ro_called') = 1 /\ ro_called'[1].handler = ro_path
        /\ ro_called'[1].code = ro_rtn' /\ ro_path' = ro_path /\ ro_pc' = "decide"
    <3>1. Len(ro_called') = 1 /\ ro_called'[1] = [handler |-> ro_path, code |-> ro_rtn']
      BY <1>5
    <3>2. ro_path' = ro_path /\ ro_pc' = "decide"
      BY DEF Call
    <3> QED BY <3>1, <3>2
  <2> QED BY <1>4, <2>1 DEF OnlyItsHandler, DecideInv
<1>10. OneReplyAtMost' /\ SearchInv' /\ UserPathsAnswered'
  BY <1>6 DEF Call, OneReplyAtMost, SearchInv, UserPathsAnswered
<1> QED BY <1>7, <1>8, <1>9, <1>10 DEF RouteInv

(* The ends of a search, and the way to the second router.                 *)
LEMMA SucceedStep ==
  ASSUME RouteInv, Succeed
  PROVE  RouteInv'
<1>1. RouteTypeOK'
  BY DEF RouteInv, RouteTypeOK, Succeed
<1>2. UserPathsAnswered'
  BY DEF RouteInv, DecidedInv, Succeed, UserPathsAnswered
<1>3. (SearchInv /\ DecideInv /\ DecidedInv /\ OneReplyAtMost /\ OnlyItsHandler)'
  BY DEF RouteInv, Succeed, SearchInv, DecideInv, DecidedInv, OneReplyAtMost, OnlyItsHandler
<1> QED BY <1>1, <1>2, <1>3 DEF RouteInv

LEMMA HelpStep ==
  ASSUME RouteInv, Help
  PROVE  RouteInv'
<1>1. ro_replies = 0
  BY DEF RouteInv, DecidedInv, Help
<1>2. RouteTypeOK'
  BY <1>1 DEF RouteInv, RouteTypeOK, Help, Codes
<1>3. UserPathsAnswered' /\ OneReplyAtMost'
  BY <1>1 DEF Help, UserPathsAnswered, OneReplyAtMost
<1>4. (SearchInv /\ DecideInv /\ DecidedInv /\ OnlyItsHandler)'
  BY DEF RouteInv, Help, SearchInv, DecideInv, DecidedInv, OnlyItsHandler
<1> QED BY <1>2, <1>3, <1>4 DEF RouteInv

LEMMA NextRouterStep ==
  ASSUME RouteInv, NextRouter
  PROVE  RouteInv'
<1>1. ro_pc = "decide" /\ ro_router \in 1 .. 2 /\ ro_replies = 0 /\ ro_path # NoPath
  BY DEF RouteInv, DecidedInv, NextRouter
<1>2. ro_called = <<>> => ro_path \notin UserPaths
  BY <1>1 DEF RouteInv, DecidedInv
<1>3. ro_called # <<>> => ro_called[1].code = ro_rtn /\ ro_rtn = "-1"
  BY <1>1 DEF RouteInv, DecideInv, NextRouter, RouteTypeOK, Codes
<1>4. RouteTypeOK'
  BY <1>1, Tables DEF RouteInv, RouteTypeOK, NextRouter
<1>5. SearchInv'
  BY <1>1, <1>2, Tables DEF RouteInv, DecidedInv, NextRouter, SearchInv
<1>6. Len(ro_called) \in Nat /\ Len(ro_called) <= 1 /\ (ro_called # <<>> => Len(ro_called) = 1)
  <2>1. ro_called \in Seq([handler : Served, code : Codes]) /\ Len(ro_called) <= 1
    BY DEF RouteInv, RouteTypeOK, OnlyItsHandler
  <2> QED BY <2>1, ShortSequence
<1>7. UserPathsAnswered'
  BY <1>2, <1>3, <1>6 DEF NextRouter, UserPathsAnswered
<1>8. (DecideInv /\ DecidedInv /\ OneReplyAtMost /\ OnlyItsHandler)'
  BY <1>3 DEF RouteInv, NextRouter, DecideInv, DecidedInv, OneReplyAtMost, OnlyItsHandler
<1> QED BY <1>4, <1>5, <1>7, <1>8 DEF RouteInv

LEMMA ReturnStep ==
  ASSUME RouteInv, Return
  PROVE  RouteInv'
  BY DEF RouteInv, RouteTypeOK, Return, SearchInv, DecideInv, DecidedInv, OneReplyAtMost,
         OnlyItsHandler, UserPathsAnswered

LEMMA RouteStays ==
  ASSUME RouteInv, UNCHANGED routeVars
  PROVE  RouteInv'
  BY DEF routeVars, RouteInv, RouteTypeOK, SearchInv, DecideInv, DecidedInv, OneReplyAtMost,
         OnlyItsHandler, UserPathsAnswered

(* Every request is served once: whatever the clients ask for and whatever *)
(* the handlers answer, the handler of its path or the help replies to it, *)
(* and not both (httpd_callback, route).                                   *)
THEOREM RequestsAreServedOnce == EventLoopSpec => []RequestServedOnce
<1>1. EventLoopInit => RouteInv
  BY RouteStarts DEF EventLoopInit
<1>2. RouteInv /\ [EventLoopNext]_eventLoopVars => RouteInv'
  <2> SUFFICES ASSUME RouteInv, [EventLoopNext]_eventLoopVars
               PROVE  RouteInv'
    OBVIOUS
  <2>1. CASE RequestArrives
    BY <2>1, ReceiveStep DEF RequestArrives
  <2>2. CASE RequestGoesOn
    BY <2>2, DiffersStep, CallStep, SucceedStep, HelpStep, NextRouterStep, ReturnStep
       DEF RequestGoesOn, RouteStep
  <2>3. CASE TimerOrStart \/ ServersChange \/ UNCHANGED eventLoopVars
    BY <2>3, RouteStays DEF TimerOrStart, ServersChange, eventLoopVars
  <2> QED BY <2>1, <2>2, <2>3 DEF EventLoopNext
<1>3. RouteInv => RequestServedOnce
  BY DEF RouteInv, RequestServedOnce
<1> QED BY <1>1, <1>2, <1>3, PTL DEF EventLoopSpec

-----------------------------------------------------------------------------
LEMMA ObjectsStart == MysqlDbInit => ObjectInv
<1>1. 1 % Period \in 0 .. Period - 1
  BY MysqlDbAssumption
<1>2. my_counter = 1 % Period /\ MysqlDbInit => MysqlDbTypeOK
  BY <1>1, MysqlDbAssumption DEF MysqlDbInit, MysqlDbTypeOK
<1>3. MysqlDbInit => ConnectInv
  BY DEF MysqlDbInit, ConnectInv, Databases
<1> QED BY <1>2, <1>3 DEF MysqlDbInit, ObjectInv

(* The servers do not touch the program's objects.                         *)
LEMMA ServerStep ==
  ASSUME ObjectInv, NEW d \in Databases, GoDown(d) \/ ComeUp(d)
  PROVE  ObjectInv' /\ my_obj' = my_obj
<1>1. CASE GoDown(d)
  <2>1. my_outages' \in 0 .. MaxOutages
    BY <1>1, MysqlDbAssumption DEF ObjectInv, MysqlDbTypeOK, GoDown
  <2> QED BY <1>1, <2>1 DEF ObjectInv, MysqlDbTypeOK, ConnectInv, GoDown
<1>2. CASE ComeUp(d)
  BY <1>2 DEF ObjectInv, MysqlDbTypeOK, ConnectInv, ComeUp
<1> QED BY <1>1, <1>2

(* A connect replaces an object only where there is none.                  *)
LEMMA ProgramStep ==
  ASSUME ObjectInv, Program
  PROVE  ObjectInv' /\ \A d \in Databases : my_obj[d] => my_obj'[d]
<1>1. CASE ConnectAtStart("venue_db", "main_venue", "main_userinfo")
  BY <1>1 DEF ObjectInv, MysqlDbTypeOK, ConnectInv, ConnectAtStart, ConnectInit, Databases
<1>2. CASE ConnectAtStart("userinfo_db", "main_userinfo", "loop")
  BY <1>2 DEF ObjectInv, MysqlDbTypeOK, ConnectInv, ConnectAtStart, ConnectInit, Databases
<1>3. CASE Tick
  <2>1. (my_counter + 1) % Period \in 0 .. Period - 1
    BY MysqlDbAssumption DEF ObjectInv, MysqlDbTypeOK
  <2> QED BY <1>3, <2>1 DEF ObjectInv, MysqlDbTypeOK, ConnectInv, Tick
<1>4. CASE LookAfter("venue_db", "timer_venue", "timer_userinfo")
  BY <1>4 DEF ObjectInv, MysqlDbTypeOK, ConnectInv, LookAfter, Ping, ConnectInit, Databases
<1>5. CASE LookAfter("userinfo_db", "timer_userinfo", "loop")
  BY <1>5 DEF ObjectInv, MysqlDbTypeOK, ConnectInv, LookAfter, Ping, ConnectInit, Databases
<1> QED BY <1>1, <1>2, <1>3, <1>4, <1>5 DEF Program, OnTimer

(* The pointers that the worker reads without a lock never go back to      *)
(* NULL, whatever the servers do and however the timer is set (_tmain,     *)
(* ontimer).                                                               *)
THEOREM ObjectsAreKept == EventLoopSpec => ObjectsStay
<1>1. EventLoopInit => ObjectInv
  BY ObjectsStart DEF EventLoopInit
<1>2. ObjectInv /\ [EventLoopNext]_eventLoopVars =>
        ObjectInv' /\ [\A d \in Databases : my_obj[d] => my_obj'[d]]_mysqlDbVars
  <2> SUFFICES ASSUME ObjectInv, [EventLoopNext]_eventLoopVars
               PROVE  ObjectInv' /\ [\A d \in Databases : my_obj[d] => my_obj'[d]]_mysqlDbVars
    OBVIOUS
  <2>1. CASE TimerOrStart
    BY <2>1, ProgramStep DEF TimerOrStart
  <2>2. CASE ServersChange
    BY <2>2, ServerStep DEF ServersChange
  <2>3. CASE RequestArrives \/ RequestGoesOn \/ UNCHANGED eventLoopVars
    BY <2>3 DEF RequestArrives, RequestGoesOn, eventLoopVars, mysqlDbVars, ObjectInv,
                MysqlDbTypeOK, ConnectInv
  <2> QED BY <2>1, <2>2, <2>3 DEF EventLoopNext
<1> QED BY <1>1, <1>2, PTL DEF EventLoopSpec, ObjectsStay

-----------------------------------------------------------------------------
(***************************************************************************)
(* _tmain, whatever keys the configuration file lacks and however far the  *)
(* start comes: what was started is given back, and a file with all keys   *)
(* leads to a program that serves.                                         *)
(***************************************************************************)
(* What stays with the process to its end, and what _tmain takes back.     *)
ForGood == {"file", "text", "conf", "log", "venue_db", "userinfo_db", "base", "httpd"}
Running == {"transfers", "worker"}
RoutersHeld == {"user_router", "order_router"}

(* What is held before each call: a call of the way back finds what the    *)
(* calls on the way there have made, and nothing that came after.          *)
HeldInv ==
  /\ su_pc = "setup_config" => su_held = {}
  /\ su_pc \in {"log_new", "connect", "transfers_startup", "ended"} => su_held \subseteq ForGood
  /\ su_pc = "router_setup" => Running \subseteq su_held /\ su_held \subseteq ForGood \cup Running
  /\ su_pc \in {"start_httpd", "serving"} => Running \cup RoutersHeld \subseteq su_held
  /\ su_pc \in {"start_httpd", "transfers_free"} =>
       su_held \subseteq ForGood \cup Running \cup RoutersHeld
  /\ su_pc = "transfer_clear" => su_held \subseteq ForGood \cup {"transfers"} \cup RoutersHeld
  /\ su_pc = "router_free" => su_held \subseteq ForGood \cup RoutersHeld

(* The queues are freed on the way back alone, when the worker has gone.   *)
FreesInv ==
  /\ su_frees = (IF su_pc = "transfer_clear" THEN 1
                 ELSE IF su_pc \in {"router_free", "ended"} \/ (su_pc = "down" /\ su_frees # 0) THEN 2
                 ELSE 0)
  /\ su_frees > 0 => "worker" \notin su_held

(* The calls that are made with a configuration that was read.             *)
Configured ==
  {"log_new", "connect", "transfers_startup", "router_setup", "start_httpd", "serving",
   "transfers_free", "transfer_clear", "router_free", "ended"}

(* g_conf is what was read at first: nothing writes it later.              *)
ConfInv ==
  /\ su_pc \in Configured \cup {"setup_config", "exit", "down"}
  /\ su_pc \in Configured => su_conf = Loaded(su_file.keys) \ su_file.others

StartupInv == HeldInv /\ FreesInv /\ ConfInv /\ StartsAndEndsInOrder

-----------------------------------------------------------------------------
(* A file with all the keys is read to its end.                            *)
LEMMA AllLoaded == Loaded(AllKeys) = AllKeys
  <1>1. DOMAIN ConfKeys = 1 .. 19
    BY DEF ConfKeys
  <1>2. \A n \in 1 .. 19 : \A j \in 1 .. n : ConfKeys[j] \in AllKeys
    BY <1>1 DEF AllKeys
  <1>3. {n \in DOMAIN ConfKeys : \A j \in 1 .. n : ConfKeys[j] \in AllKeys} = DOMAIN ConfKeys
    BY <1>1, <1>2
  <1> QED
    BY <1>3 DEF Loaded, AllKeys

(* The texts of the three classes are keys of the configuration.           *)
LEMMA ClassKeys ==
  ASSUME NEW class \in {"A", "B", "C"}
  PROVE  ClassOf(class) \subseteq AllKeys
  <1>1. \A k \in 14 .. 19 : ConfKeys[k] \in AllKeys
    <2>1. 14 .. 19 \subseteq DOMAIN ConfKeys
      BY DEF ConfKeys
    <2> QED
      BY <2>1 DEF AllKeys
  <1>2. /\ ConfKeys[14] = "score_class_A" /\ ConfKeys[17] = "score_suggestion_A"
        /\ ConfKeys[15] = "score_class_B" /\ ConfKeys[18] = "score_suggestion_B"
        /\ ConfKeys[16] = "score_class_C" /\ ConfKeys[19] = "score_suggestion_C"
    BY DEF ConfKeys
  <1>3. {"score_class_A", "score_class_B", "score_class_C", "score_suggestion_A",
         "score_suggestion_B", "score_suggestion_C"} \subseteq AllKeys
    BY <1>1, <1>2
  <1>4. CASE class = "A"
    BY <1>3, <1>4 DEF ClassOf
  <1>5. CASE class = "B"
    BY <1>3, <1>5 DEF ClassOf
  <1>6. CASE class = "C"
    BY <1>3, <1>6 DEF ClassOf
  <1> QED
    BY <1>4, <1>5, <1>6

(* The held things, call by call.                                          *)
LEMMA HeldStep == HeldInv /\ StartupNext => HeldInv'
  <1> SUFFICES ASSUME HeldInv, StartupNext PROVE HeldInv'
    OBVIOUS
  <1> USE DEF HeldInv, ForGood, Running, RoutersHeld
  <1>1. CASE setup_config
    BY <1>1 DEF setup_config
  <1>2. CASE log_new
    BY <1>2 DEF log_new
  <1>3. CASE Connect
    BY <1>3 DEF Connect
  <1>4. CASE transfers_startup
    BY <1>4 DEF transfers_startup
  <1>5. CASE router_setup
    BY <1>5 DEF router_setup, userquery_new, orderquery_new
  <1>6. CASE start_httpd
    BY <1>6 DEF start_httpd
  <1>7. CASE Score
    BY <1>7 DEF Score
  <1>8. CASE transfer_stop
    BY <1>8 DEF transfer_stop
  <1>9. CASE transfers_free
    BY <1>9 DEF transfers_free
  <1>10. CASE router_free
    BY <1>10 DEF router_free, userquery_new, orderquery_new
  <1> QED
    BY <1>1, <1>2, <1>3, <1>4, <1>5, <1>6, <1>7, <1>8, <1>9, <1>10 DEF StartupNext

(* What the way back frees, call by call.                                  *)
LEMMA FreesStep == FreesInv /\ StartupNext => FreesInv'
  <1> SUFFICES ASSUME FreesInv, StartupNext PROVE FreesInv'
    OBVIOUS
  <1>1. CASE setup_config
    BY <1>1 DEF setup_config, FreesInv
  <1>2. CASE log_new \/ Connect \/ transfers_startup \/ router_setup \/ start_httpd \/ Score
    BY <1>2 DEF log_new, Connect, transfers_startup, router_setup, start_httpd, Score, FreesInv
  <1>3. CASE transfer_stop
    BY <1>3 DEF transfer_stop, FreesInv
  <1>4. CASE transfers_free
    BY <1>4 DEF transfers_free, FreesInv
  <1>5. CASE router_free
    BY <1>5 DEF router_free, FreesInv
  <1> QED
    BY <1>1, <1>2, <1>3, <1>4, <1>5 DEF StartupNext

(* The configuration is read once.                                         *)
LEMMA ConfStep == ConfInv /\ StartupNext => ConfInv'
  BY DEF ConfInv, Configured, StartupNext, setup_config, log_new, Connect,
         transfers_startup, router_setup, start_httpd, Score, transfer_stop, transfers_free,
         router_free

(* Three calls lead down: the reading of a file that is no JSON or has no  *)
(* string for a number, a score whose text is missing, and the freeing of  *)
(* the queues that the worker has freed.                                   *)
LEMMA WholeFileStep == ConfInv /\ FreesInv /\ WholeFileServes /\ StartupNext => WholeFileServes'
  <1> SUFFICES ASSUME ConfInv, FreesInv, WholeFileServes, StartupNext PROVE WholeFileServes'
    OBVIOUS
  <1>1. CASE setup_config
    BY <1>1 DEF setup_config, WholeFileServes
  <1>2. CASE Score
    <2> SUFFICES ASSUME NEW class \in {"A", "B", "C"}, ~ (ClassOf(class) \subseteq su_conf)
                 PROVE  su_file.keys # AllKeys \/ su_file.others # {}
      BY <1>2 DEF Score, WholeFileServes
    <2>1. su_conf = Loaded(su_file.keys) \ su_file.others
      BY <1>2 DEF Score, ConfInv, Configured
    <2> QED
      BY <2>1, AllLoaded, ClassKeys
  <1>3. CASE su_pc' # "down"
    BY <1>3 DEF WholeFileServes
  <1>4. CASE transfers_free
    BY <1>4 DEF transfers_free, FreesInv, WholeFileServes
  <1> QED
    BY <1>1, <1>2, <1>3, <1>4 DEF StartupNext, log_new, Connect, transfers_startup,
       router_setup, start_httpd, transfer_stop, router_free

(* What is held and freed is in order at every call.                       *)
LEMMA InOrder == HeldInv /\ FreesInv => EndsInOrder
  BY DEF HeldInv, FreesInv, EndsInOrder, ForGood, Running, RoutersHeld, userquery_new, orderquery_new

(* However far the start comes, and whatever the file lacks: a program     *)
(* that serves has its worker and routers; the way back takes all back,    *)
(* the worker before its queues, but these twice; and but for that a file  *)
(* with a string for each key never takes the program down (_tmain,        *)
(* setup_config, transfers_stop, get_finalscore).                          *)
THEOREM StartsAndEnds == StartupSpec => []StartsAndEndsInOrder
  <1>1. StartupInit => StartupInv
    BY InOrder DEF StartupInit, StartupInv, HeldInv, FreesInv, ConfInv, Configured,
           StartsAndEndsInOrder, WholeFileServes
  <1>2. StartupInv /\ [StartupNext]_startupVars => StartupInv'
    <2>1. StartupInv /\ StartupNext => StartupInv'
      <3>1. HeldInv' /\ FreesInv' => EndsInOrder'
        BY DEF HeldInv, FreesInv, EndsInOrder, ForGood, Running, RoutersHeld, userquery_new,
               orderquery_new
      <3> QED
        BY <3>1, HeldStep, FreesStep, ConfStep, WholeFileStep DEF StartupInv, StartsAndEndsInOrder
    <2>2. StartupInv /\ UNCHANGED startupVars => StartupInv'
      BY DEF startupVars, StartupInv, HeldInv, FreesInv, ConfInv, Configured,
             StartsAndEndsInOrder, EndsInOrder, WholeFileServes
    <2> QED
      BY <2>1, <2>2
  <1>3. StartupInv => StartsAndEndsInOrder
    BY DEF StartupInv
  <1> QED
    BY <1>1, <1>2, <1>3, PTL DEF StartupSpec
=============================================================================
