------------------------------ MODULE MysqlDb ------------------------------
(***************************************************************************)
(* The two database connections over time: made at startup, and looked     *)
(* after by the one-second timer, which in every 60th call connects a      *)
(* database that has never been connected and pings the others (mysqldb.c, *)
(* ontimer and mysql_querycallback in main.c).                             *)
(*                                                                         *)
(* The servers go down and come up as they like; a session that a server   *)
(* has dropped is not made again, as mysql_ping does not reconnect and the *)
(* code of mysql_querycallback that would is commented out.                *)
(***************************************************************************)
EXTENDS Naturals

CONSTANTS
  Period,     \* the timer looks after the connections every Period calls, 60
  MaxOutages  \* bound: times that a server goes down

ASSUME MysqlDbAssumption == Period \in Nat \ {0} /\ MaxOutages \in Nat

Databases == {"venue_db", "userinfo_db"}

VARIABLES
  my_obj,      \* is sqlobj_venue_db, sqlobj_userinfo_db not NULL?
  my_session,  \* does the session of the object still work at the server?
  my_up,       \* does the server accept connections?
  my_outages,  \* outages so far, for the bound
  my_counter,  \* ontimer's counter, modulo Period
  my_pc        \* "main_...": connecting at startup; "loop"; or inside ontimer

mysqlDbVars == <<my_obj, my_session, my_up, my_outages, my_counter, my_pc>>

MysqlDbInit ==
  /\ my_obj = [d \in Databases |-> FALSE]
  /\ my_session = [d \in Databases |-> FALSE]
  /\ my_up \in [Databases -> BOOLEAN]
  /\ my_outages = 0
  /\ my_counter = 1 % Period
  /\ my_pc = "main_venue"

-----------------------------------------------------------------------------
(* The servers, at any time. *)
GoDown(d) ==
  /\ my_up[d] /\ my_outages < MaxOutages
  /\ my_up' = [my_up EXCEPT ![d] = FALSE]
  /\ my_session' = [my_session EXCEPT ![d] = FALSE]
  /\ my_outages' = my_outages + 1
  /\ UNCHANGED <<my_obj, my_counter, my_pc>>

ComeUp(d) ==
  /\ ~ my_up[d]
  /\ my_up' = [my_up EXCEPT ![d] = TRUE]
  /\ UNCHANGED <<my_obj, my_session, my_outages, my_counter, my_pc>>

-----------------------------------------------------------------------------
(* Faulty variants, none of them used by Next.                             *)

(* the timer never looks after the connections *)
NotDue == FALSE

-----------------------------------------------------------------------------
(* mysqldb_connect_init: an object when the server accepts, NULL otherwise *)
ConnectInit(d) ==
  /\ my_obj' = [my_obj EXCEPT ![d] = my_up[d]]
  /\ my_session' = [my_session EXCEPT ![d] = my_up[d]]

(* mysqldb_ping: 0 when the session works; the callback for a failed ping  *)
(* does nothing                                                            *)
Ping(d) == UNCHANGED <<my_obj, my_session>>

(* _tmain connects both databases before it starts the server. *)
ConnectAtStart(d, from, to) ==
  /\ my_pc = from /\ my_pc' = to
  /\ ConnectInit(d)
  /\ UNCHANGED <<my_up, my_outages, my_counter>>

(* ontimer, armed again at its end: if (counter++ % 60 == 0) *)
Due == my_counter = 0

Tick ==
  /\ my_pc = "loop"
  /\ my_pc' = IF Due THEN "timer_venue" ELSE "loop"
  /\ my_counter' = (my_counter + 1) % Period
  /\ UNCHANGED <<my_obj, my_session, my_up, my_outages>>

LookAfter(d, from, to) ==
  /\ my_pc = from /\ my_pc' = to
  /\ IF my_obj[d] THEN Ping(d) ELSE ConnectInit(d)
  /\ UNCHANGED <<my_up, my_outages, my_counter>>

OnTimer ==
  \/ Tick
  \/ LookAfter("venue_db", "timer_venue", "timer_userinfo")
  \/ LookAfter("userinfo_db", "timer_userinfo", "loop")

Program ==
  \/ ConnectAtStart("venue_db", "main_venue", "main_userinfo")
  \/ ConnectAtStart("userinfo_db", "main_userinfo", "loop")
  \/ OnTimer

MysqlDbNext == Program \/ \E d \in Databases : GoDown(d) \/ ComeUp(d)

MysqlDbSpec == MysqlDbInit /\ [][MysqlDbNext]_mysqlDbVars

(* The timer is armed again in every call and the event loop runs it.      *)
MysqlDbFairSpec == MysqlDbSpec /\ WF_mysqlDbVars(Program)

-----------------------------------------------------------------------------
MysqlDbTypeOK ==
  /\ my_obj \in [Databases -> BOOLEAN]
  /\ my_session \in [Databases -> BOOLEAN]
  /\ my_up \in [Databases -> BOOLEAN]
  /\ my_outages \in 0 .. MaxOutages
  /\ my_counter \in 0 .. Period - 1
  /\ my_pc \in {"main_venue", "main_userinfo", "loop", "timer_venue",
             "timer_userinfo"}

(* The event loop and the transfer worker read the two pointers without a  *)
(* lock, at any time: an object that is there stays for good.              *)
ObjectsStay ==
  [][\A d \in Databases : my_obj[d] => my_obj'[d]]_mysqlDbVars

(* A database that was down when parker started is connected once its      *)
(* server stays up.                                                        *)
ConnectedInTheEnd ==
  \A d \in Databases : <>[]my_up[d] => <>[]my_obj[d]
=============================================================================
