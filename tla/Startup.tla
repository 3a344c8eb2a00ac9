------------------------------ MODULE Startup ------------------------------
(***************************************************************************)
(* _tmain from the first line to the last: the configuration, the log, the *)
(* connections, the transfer worker, the routers, the server, and back.    *)
(* The server's loop has its timer event and never ends, so that the end   *)
(* is reached only when the server cannot be made or bound.                *)
(*                                                                         *)
(* The configuration file is the set of the keys that are in it and the    *)
(* set of those whose value is no string; setup_config asks for them in    *)
(* the order of ConfKeys.                                                  *)
(***************************************************************************)
EXTENDS Integers, Sequences, FiniteSets

CONSTANT Broken    \* bound: how many keys a file may lack or have with something else

ASSUME StartupAssumption == Broken \in Nat

ConfKeys ==
  <<"svrport",
    "venue_db_ip", "venue_db_port", "venue_db_name", "venue_db_username", "venue_db_userpwd",
    "userinfo_db_ip", "userinfo_db_port", "userinfo_db_name", "userinfo_db_username",
    "userinfo_db_userpwd", "credit_proportion", "grade_proportion",
    "score_class_A", "score_class_B", "score_class_C",
    "score_suggestion_A", "score_suggestion_B", "score_suggestion_C">>

AllKeys == {ConfKeys[k] : k \in DOMAIN ConfKeys}

(* The keys whose string is converted by atoi or atof; the others are      *)
(* copied by _strdup.                                                      *)
Numbers ==
  {"svrport", "venue_db_port", "userinfo_db_port", "credit_proportion", "grade_proportion"}

VARIABLES
  su_pc,      \* the next call of _tmain, or "serving", "down", "exit", "ended"
  su_file,    \* the file: is it there, is it no JSON, which keys has it, and
              \* which of these with a value that is no string
  su_conf,    \* the keys of g_conf that were set
  su_held,    \* what is allocated, open or running
  su_frees,   \* how often the queues of the worker have been freed
  su_log      \* "file" or "stdout"

startupVars == <<su_pc, su_file, su_conf, su_held, su_frees, su_log>>

(* At most Broken keys.                                                    *)
Few == {{f[k] : k \in 1 .. n} : n \in 0 .. Broken, f \in [1 .. Broken -> AllKeys]}

StartupInit ==
  /\ su_pc = "setup_config"
  /\ \/ \E lacking, others \in Few :
          /\ lacking \cap others = {} /\ Cardinality(lacking \cup others) <= Broken
          /\ su_file = [there |-> TRUE, garbled |-> FALSE, keys |-> AllKeys \ lacking, others |-> others]
     \/ su_file \in [there : BOOLEAN, garbled : BOOLEAN, keys : {{}}, others : {{}}]
  /\ su_conf = {} /\ su_held = {} /\ su_frees = 0 /\ su_log = "none"

-----------------------------------------------------------------------------
(* the last key is forgotten *)
LoadedButTheLast(keys) ==
  {ConfKeys[k] : k \in {n \in 1 .. Len(ConfKeys) - 1 : \A j \in 1 .. n : ConfKeys[j] \in keys}}

(* The keys up to the first that is not there: the loop is left then, and  *)
(* the configuration counts as loaded.                                     *)
Loaded(keys) == {ConfKeys[k] : k \in {n \in DOMAIN ConfKeys : \A j \in 1 .. n : ConfKeys[j] \in keys}}

(* The file is not closed and its text not freed.  A text that is no JSON  *)
(* is a NULL pointer, in which the first key is looked for.  A value that  *)
(* is no string has a NULL valuestring: of that atoi and atof cannot make  *)
(* a number, while _strdup gives the NULL back.                            *)
setup_config ==
  /\ su_pc = "setup_config"
  /\ \/ /\ ~ su_file.there
        /\ su_pc' = "exit" /\ UNCHANGED <<su_conf, su_held>>
     \/ /\ su_file.there
        /\ su_file.garbled \/ Loaded(su_file.keys) \cap su_file.others \cap Numbers # {}
        /\ su_pc' = "down" /\ su_held' = {"file", "text"}
        /\ UNCHANGED su_conf
     \/ /\ su_file.there /\ ~ su_file.garbled
        /\ Loaded(su_file.keys) \cap su_file.others \cap Numbers = {}
        /\ su_conf' = Loaded(su_file.keys) \ su_file.others
        /\ su_held' = {"file", "text", "conf"}
        /\ su_pc' = "log_new"
  /\ UNCHANGED <<su_file, su_frees, su_log>>

(* A log file that cannot be opened is the standard output.                *)
log_new ==
  /\ su_pc = "log_new"
  /\ su_log' \in {"file", "stdout"}
  /\ su_held' = su_held \cup {"log"}
  /\ su_pc' = "connect"
  /\ UNCHANGED <<su_file, su_conf, su_frees>>

(* mysqldb_connect_init for both; what is not configured is NULL or 0, and *)
(* the client library has its own defaults for that.                       *)
Connect ==
  /\ su_pc = "connect"
  /\ \E connected \in SUBSET {"venue_db", "userinfo_db"} :
       su_held' = su_held \cup connected
  /\ su_pc' = "transfers_startup"
  /\ UNCHANGED <<su_file, su_conf, su_frees, su_log>>

transfers_startup ==
  /\ su_pc = "transfers_startup"
  /\ su_held' = su_held \cup {"transfers", "worker"}
  /\ su_pc' = "router_setup"
  /\ UNCHANGED <<su_file, su_conf, su_frees, su_log>>

(* What the constructors of the routers allocate and their free functions  *)
(* give back.                                                              *)
userquery_new == {"user_router"}
orderquery_new == {"order_router"}

router_setup ==
  /\ su_pc = "router_setup"
  /\ su_held' = su_held \cup userquery_new \cup orderquery_new
  /\ su_pc' = "start_httpd"
  /\ UNCHANGED <<su_file, su_conf, su_frees, su_log>>

(* No evhttp, an address that is taken (the base, and the server if it was *)
(* made, stay allocated), or the loop.                                     *)
start_httpd ==
  /\ su_pc = "start_httpd"
  /\ \/ su_pc' = "transfers_free" /\ su_held' = su_held \cup {"base"}
     \/ su_pc' = "transfers_free" /\ su_held' = su_held \cup {"base", "httpd"}
     \/ su_pc' = "serving" /\ su_held' = su_held \cup {"base", "httpd", "timer"}
  /\ UNCHANGED <<su_file, su_conf, su_frees, su_log>>

(* A request for a final score looks up its class: a text that was not     *)
(* configured is a NULL pointer.                                           *)
ClassOf(class) ==
  CASE class = "A" -> {"score_class_A", "score_suggestion_A"}
    [] class = "B" -> {"score_class_B", "score_suggestion_B"}
    [] class = "C" -> {"score_class_C", "score_suggestion_C"}

Score ==
  /\ su_pc = "serving"
  /\ \E class \in {"A", "B", "C"} :
       su_pc' = IF ClassOf(class) \subseteq su_conf THEN "serving" ELSE "down"
  /\ UNCHANGED <<su_file, su_conf, su_held, su_frees, su_log>>

(* transfers_stop joins the worker, whose last act is transfer_clear, and  *)
(* clears the same queues again: jqueue_free follows their freed pointers, *)
(* and comes back or not.  (The two threads are in module Transfer.)       *)
transfer_stop ==
  /\ su_pc = "transfers_free"
  /\ su_frees' = su_frees + 1
  /\ su_held' = su_held \ {"worker"}
  /\ su_pc' = "transfer_clear"
  /\ UNCHANGED <<su_file, su_conf, su_log>>

transfers_free ==
  /\ su_pc = "transfer_clear"
  /\ su_frees' = su_frees + 1
  /\ \/ su_pc' = "router_free" /\ su_held' = su_held \ {"transfers"}
     \/ su_pc' = "down" /\ UNCHANGED su_held
  /\ UNCHANGED <<su_file, su_conf, su_log>>

router_free ==
  /\ su_pc = "router_free"
  /\ su_held' = su_held \ (userquery_new \cup orderquery_new)
  /\ su_pc' = "ended"
  /\ UNCHANGED <<su_file, su_conf, su_frees, su_log>>

StartupNext ==
  \/ setup_config \/ log_new \/ Connect \/ transfers_startup \/ router_setup
  \/ start_httpd \/ Score \/ transfer_stop \/ transfers_free \/ router_free

StartupSpec == StartupInit /\ [][StartupNext]_startupVars

-----------------------------------------------------------------------------
(* What a request uses is there while the program serves: the routers, the *)
(* worker, and its queues, which are freed only when the worker runs no    *)
(* more.  However far the start came, no end leaves more than the process  *)
(* holds for good, but every end frees the queues twice.                   *)
EndsInOrder ==
  /\ su_pc = "serving" =>
       {"transfers", "worker"} \cup userquery_new \cup orderquery_new \subseteq su_held
  /\ su_frees > 0 => "worker" \notin su_held
  /\ su_pc = "ended" =>
       /\ su_frees = 2
       /\ su_held \subseteq {"file", "text", "conf", "log", "venue_db", "userinfo_db", "base", "httpd"}

(* With strings for all the keys in the file the program goes down only at *)
(* its end, by the second freeing of the queues.  A text that is missing   *)
(* takes it down when a score of that class is asked for, a number that is *)
(* no string at once, and so does a file that is no JSON.                  *)
WholeFileServes ==
  su_pc = "down" =>
    su_file.garbled \/ su_file.keys # AllKeys \/ su_file.others # {} \/ su_frees = 2

(* The two together: a start leads to a program that serves, or back to    *)
(* where it came from.                                                     *)
StartsAndEndsInOrder == EndsInOrder /\ WholeFileServes
=============================================================================
