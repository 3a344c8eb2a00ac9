------------------------------ MODULE BackCard ------------------------------
(***************************************************************************)
(* The life of a visitor's card: the requests /user/score, /user/useract   *)
(* and /user/backcard that the event loop serves (userquery.c), and the    *)
(* job of five DELETEs by which the transfer worker takes the card back    *)
(* (stage_one_dojob in datatransfer.c).                                    *)
(*                                                                         *)
(* Both threads use the same two MySQL connections, without a lock         *)
(* (dbaccess.c); a call of theirs is a step into the connection and a step *)
(* out of it, and two calls that meet on a connection may come to nothing. *)
(* The jobs wait in the service that module Transfer implements.           *)
(*                                                                         *)
(* The reception desk, the scenes and the positioning system write the     *)
(* tables from outside.  parker shows what they write by what it deletes.  *)
(***************************************************************************)
EXTENDS Naturals, Sequences

CONSTANTS
  Cards,          \* the numbers of the cards
  SceneCount,     \* tbScene holds the scenes 1 .. SceneCount
  MaxVisits,      \* bound: visitors registered in a behaviour
  MaxRequests,    \* bound: HTTP requests in a behaviour
  CallMayFail,    \* may a call fail although no other call met it?
  WorkerMayStop,  \* may the worker end after a failed wait?
  PatientDesk     \* does the desk wait for a card to be clean, and return it once?

ASSUME BackCardAssumption ==
  /\ SceneCount \in Nat \ {0}
  /\ MaxVisits \in Nat
  /\ MaxRequests \in Nat
  /\ CallMayFail \in BOOLEAN
  /\ WorkerMayStop \in BOOLEAN
  /\ PatientDesk \in BOOLEAN

Visits == 1 .. MaxVisits
Scenes == 1 .. SceneCount

UserinfoTables == {"tbtagmapping", "tbtraveler", "tbtagpos"}
VenueTables == {"tbVisitorActivity", "tbVisitorScore"}
Tables == UserinfoTables \cup VenueTables

(* A row of a card belongs to the visit during which it was written; scene *)
(* 0 is the registration.                                                  *)
Rows == Visits \X (0 .. SceneCount)
VisitOf(row) == row[1]
SceneOf(row) == row[2]

Threads == {"loop", "worker"}
Connections == {"sqlobj_userinfo_db", "sqlobj_venue_db"}
Other(thread) == IF thread = "loop" THEN "worker" ELSE "loop"

VARIABLES
  rows,      \* the databases: the rows of each table about each card
  visits,    \* visitors registered so far
  credited,  \* do the scenes of tbScene bear credits, or is their sum 0?
  \* the two connections
  call,      \* the connection a thread is inside of, or "none"
  met,       \* did another call meet the thread's call on the connection?
  \* the event loop
  lpc,       \* where the handler of the request stands
  requests,  \* requests so far, for the bound
  cardid,    \* the card of the request
  queryonly, \* was queryonly=true given?
  loaded,    \* the rows loaded for the reply
  named,     \* the visit whose name was found, 0 before
  present,   \* history: the scores of the card when the request came
  troubled,  \* history: did a call of the request meet another or fail?
  \* the transfer worker
  step,      \* the next deletion of the current job
  pending, executed, closed,   \* the service of the worker, see JobService
  \* history
  answered,  \* visits whose return was answered with "ok"
  spoilt,    \* visits that a job with a troubled call, or none, was left to return
  early      \* visits that were given a card before its last return was over

databaseVars == <<rows, visits, credited, early>>
connectionVars == <<call, met>>
localVars == <<queryonly, loaded, named, present, troubled>>
requestVars == <<requests, cardid, localVars>>
serviceVars == <<pending, executed, closed>>
vars == <<databaseVars, connectionVars, lpc, requestVars, step, serviceVars,
          answered, spoilt>>

(* A job carries the card; its visit is history.                           *)
Job == [card : Cards, visit : Visits]

Jobs == INSTANCE JobService WITH Cards <- Job, TransferCount <- 1

LoopPc == {"idle", "load_scores", "query_credits", "query_remains",
           "query_name", "score_reply", "back_name", "back_reply", "push",
           "load_activity", "useract_reply", "clear_activity"}

Init ==
  /\ rows = [table \in Tables |-> [c \in Cards |-> {}]]
  /\ visits = 0
  /\ credited \in BOOLEAN
  /\ early = {}
  /\ call = [thread \in Threads |-> "none"]
  /\ met = [thread \in Threads |-> FALSE]
  /\ lpc = "idle"
  /\ requests = 0
  /\ cardid \in Cards
  /\ queryonly = FALSE
  /\ loaded = {}
  /\ named = 0
  /\ present = {}
  /\ troubled = FALSE
  /\ step = 1
  /\ Jobs!Init
  /\ answered = {}
  /\ spoilt = {}

-----------------------------------------------------------------------------
(* The world outside parker.                                               *)

Untouched(c) ==
  /\ \A table \in Tables : rows[table][c] = {}
  /\ \A n \in 1 .. Len(pending[1]) : pending[1][n].card # c

(* The card was returned, and the handler has not pushed the job yet.      *)
BeingReturned(c) == lpc \in {"back_reply", "push"} /\ cardid = c

(* The reception desk gives card c to a new visitor.  It goes by the tag   *)
(* mapping; a patient desk looks at every table and waits for the jobs.    *)
Register(c) ==
  /\ visits \in 0 .. MaxVisits - 1
  /\ rows["tbtagmapping"][c] = {}
  /\ PatientDesk => Untouched(c)
  /\ visits' = visits + 1
  /\ rows' = [table \in Tables |->
                IF table \in {"tbtagmapping", "tbtraveler"}
                THEN [rows[table] EXCEPT ![c] = @ \cup {<<visits + 1, 0>>}]
                ELSE rows[table]]
  /\ early' = IF Untouched(c) /\ ~ BeingReturned(c) THEN early
                                                   ELSE early \cup {visits + 1}
  /\ UNCHANGED <<credited, connectionVars, lpc, requestVars, step, serviceVars,
                 answered, spoilt>>

(* The visitor of card c plays scene s: the scene resolves the card by the *)
(* tag mapping and records the activity, the score and the position.       *)
Play(c, s) ==
  /\ \E row \in rows["tbtagmapping"][c] :
       rows' = [table \in Tables |->
                  IF table \in VenueTables \cup {"tbtagpos"}
                  THEN [rows[table] EXCEPT ![c] = @ \cup {<<VisitOf(row), s>>}]
                  ELSE rows[table]]
  /\ UNCHANGED <<visits, credited, early, connectionVars, lpc, requestVars,
                 step, serviceVars, answered, spoilt>>

-----------------------------------------------------------------------------
(* The connections.  mysql_real_query .. mysql_free_result of one thread   *)
(* is one stay inside the connection.  When the other thread is inside the *)
(* same connection, commands or answers get mixed: both calls may fail.    *)

Enter(thread, connection) ==
  /\ call[thread] = "none"
  /\ call' = [call EXCEPT ![thread] = connection]
  /\ met' = IF call[Other(thread)] = connection
            THEN [each \in Threads |-> TRUE]
            ELSE met

(* The call comes back; fine says that it did what it was called for.      *)
Leave(thread, fine) ==
  /\ call[thread] # "none"
  /\ fine \/ met[thread] \/ CallMayFail
  /\ call' = [call EXCEPT ![thread] = "none"]
  /\ met' = [met EXCEPT ![thread] = FALSE]

Trouble(thread, fine) == met[thread] \/ ~ fine

(* DELETE FROM table WHERE the card column = card *)
Deleted(table, card) == [rows EXCEPT ![table][card] = {}]

(* A handler returns, with or without a reply, and its locals are gone.    *)
EndRequest ==
  /\ lpc' = "idle"
  /\ queryonly' = FALSE
  /\ loaded' = {} /\ named' = 0 /\ present' = {} /\ troubled' = FALSE
  /\ UNCHANGED <<requests, cardid>>

-----------------------------------------------------------------------------
(* Faulty variants, none of them used by Next.                             *)

(* the tag mapping is deleted last, the scores still are                   *)
MappingLast == <<"tbtraveler", "tbtagpos", "tbVisitorActivity",
                 "tbVisitorScore", "tbtagmapping">>

(* the venue database is cleaned first                                     *)
VenueFirst == <<"tbVisitorActivity", "tbVisitorScore", "tbtagmapping",
                "tbtraveler", "tbtagpos">>

(* db_clear_scores in the place of db_clear_visitor_activtiy               *)
ClearWrongTable ==
  \E fine \in BOOLEAN :
    /\ lpc = "clear_activity"
    /\ Leave("loop", fine)
    /\ \/ rows' = Deleted("tbVisitorScore", cardid)
       \/ ~ fine /\ rows' = rows
    /\ EndRequest
    /\ UNCHANGED <<visits, credited, early, step, serviceVars, answered, spoilt>>

(* the job is not handed over                                              *)
PushNothing ==
  /\ lpc = "push"
  /\ EndRequest
  /\ UNCHANGED <<databaseVars, connectionVars, step, serviceVars, answered,
                 spoilt>>

-----------------------------------------------------------------------------
(* The event loop: one request at a time, one call after the other.        *)

ConnectionAt(pc) ==
  IF pc \in {"query_name", "back_name"} THEN "sqlobj_userinfo_db"
                                        ELSE "sqlobj_venue_db"

CallPc == LoopPc \ {"idle", "score_reply", "back_reply", "push",
                    "useract_reply"}

LoopCalls ==
  /\ lpc \in CallPc
  /\ Enter("loop", ConnectionAt(lpc))
  /\ UNCHANGED <<databaseVars, lpc, requestVars, step, serviceVars, answered,
                 spoilt>>

(* A call of the loop comes back to the handler, which goes on at next.    *)
LoopReturns(pc, fine, next) ==
  /\ lpc = pc /\ lpc' = next
  /\ Leave("loop", fine)
  /\ troubled' = (troubled \/ Trouble("loop", fine))
  /\ UNCHANGED <<visits, credited, early, requests, cardid, queryonly, present,
                 step, serviceVars, answered, spoilt>>

(* return -1: the handler has not replied and nobody else will.            *)
Dropped(pc, fine) ==
  /\ lpc = pc
  /\ Leave("loop", fine)
  /\ EndRequest
  /\ UNCHANGED <<databaseVars, step, serviceVars, answered, spoilt>>

(* A request with a cardid arrives; only user_useract reads queryonly. *)
Request(handler, c, only) ==
  /\ lpc = "idle" /\ requests < MaxRequests
  /\ only => handler = "load_activity"
  /\ handler = "back_name" /\ PatientDesk =>
       \A row \in rows["tbtraveler"][c] : VisitOf(row) \notin answered
  /\ lpc' = handler
  /\ requests' = requests + 1
  /\ cardid' = c
  /\ queryonly' = only
  /\ present' = rows["tbVisitorScore"][c]
  /\ UNCHANGED <<databaseVars, connectionVars, loaded, named, troubled, step,
                 serviceVars, answered, spoilt>>

(* user_score: db_load_scores, whose result is ignored: without rows the   *)
(* handler goes on with an empty score                                     *)
LoadScores ==
  \E fine \in BOOLEAN :
    /\ LoopReturns("load_scores", fine, "query_credits")
    /\ loaded' = IF fine THEN rows["tbVisitorScore"][cardid] ELSE {}
    /\ UNCHANGED <<rows, named>>

(* db_query_credits; a sum of 0 ends the request as an error does *)
QueryCredits ==
  \/ /\ credited
     /\ LoopReturns("query_credits", TRUE, "query_remains")
     /\ UNCHANGED <<rows, loaded, named>>
  \/ ~ credited /\ Dropped("query_credits", TRUE)
  \/ Dropped("query_credits", FALSE)

(* db_query_remains: -1 also when no scene remains *)
Remains == Scenes \ {SceneOf(row) : row \in loaded}

QueryRemains ==
  \/ /\ LoopReturns("query_remains", TRUE, "query_name")
     /\ Remains # {}
     /\ UNCHANGED <<rows, loaded, named>>
  \/ Dropped("query_remains", TRUE) /\ Remains = {}
  \/ Dropped("query_remains", FALSE)

(* db_query_travelername: -1 also when the card has no visitor *)
QueryName(pc, next) ==
  \/ /\ LoopReturns(pc, TRUE, next)
     /\ \E row \in rows["tbtraveler"][cardid] : named' = VisitOf(row)
     /\ UNCHANGED <<rows, loaded>>
  \/ Dropped(pc, TRUE) /\ rows["tbtraveler"][cardid] = {}
  \/ Dropped(pc, FALSE)

(* get_finalscore over what was loaded; evhttp_send_reply *)
ScoreReply ==
  /\ lpc = "score_reply"
  /\ EndRequest
  /\ UNCHANGED <<databaseVars, connectionVars, step, serviceVars, answered,
                 spoilt>>

(* user_backcard: the reply "ok" comes before the job is even queued *)
BackReply ==
  /\ lpc = "back_reply" /\ lpc' = "push"
  /\ answered' = answered \cup {named}
  /\ UNCHANGED <<databaseVars, connectionVars, requestVars, step, serviceVars,
                 spoilt>>

(* transfers_pushAjob: the transfer takes the job, or "the job is missed"  *)
PushAjob ==
  /\ lpc = "push"
  /\ EndRequest
  /\ \/ /\ Jobs!Accept(1, [card |-> cardid, visit |-> named])
        /\ UNCHANGED spoilt
     \/ /\ closed[1]
        /\ spoilt' = spoilt \cup {named}
        /\ UNCHANGED serviceVars
  /\ UNCHANGED <<databaseVars, connectionVars, step, answered>>

(* user_useract: db_load_visitor_activity, the reply, and the deletion     *)
(* unless queryonly=true                                                   *)
LoadActivity ==
  \E fine \in BOOLEAN :
    /\ LoopReturns("load_activity", fine, "useract_reply")
    /\ loaded' = IF fine THEN rows["tbVisitorActivity"][cardid] ELSE {}
    /\ UNCHANGED <<rows, named>>

(* Without a connection db_load_visitor_activity returns the 1 that rt was *)
(* set to, and the reply has one row that nothing was written to.          *)
LoadNoActivity ==
  /\ CallMayFail
  /\ lpc = "load_activity" /\ lpc' = "useract_reply"
  /\ call["loop"] = "none"
  /\ loaded' \in {{row} : row \in Rows}
  /\ troubled' = TRUE
  /\ UNCHANGED <<databaseVars, connectionVars, requests, cardid, queryonly, named,
                 present, step, serviceVars, answered, spoilt>>

UseractReply ==
  /\ lpc = "useract_reply"
  /\ IF queryonly
     THEN EndRequest
     ELSE lpc' = "clear_activity" /\ UNCHANGED requestVars
  /\ UNCHANGED <<databaseVars, connectionVars, step, serviceVars, answered,
                 spoilt>>

ClearActivity ==
  \E fine \in BOOLEAN :
    /\ lpc = "clear_activity"
    /\ Leave("loop", fine)
    /\ \/ rows' = Deleted("tbVisitorActivity", cardid)
       \/ ~ fine /\ rows' = rows
    /\ EndRequest
    /\ UNCHANGED <<visits, credited, early, step, serviceVars, answered, spoilt>>

LoopStep ==
  \/ LoopCalls \/ LoadScores \/ QueryCredits \/ QueryRemains
  \/ QueryName("query_name", "score_reply") \/ ScoreReply
  \/ QueryName("back_name", "back_reply") \/ BackReply \/ PushAjob
  \/ LoadActivity \/ LoadNoActivity \/ UseractReply \/ ClearActivity

-----------------------------------------------------------------------------
(* The worker: stage_one_dojob, whose five results are ignored.            *)

DeletionOrder == <<"tbtagmapping", "tbtraveler", "tbtagpos",
                   "tbVisitorActivity", "tbVisitorScore">>

ConnectionOf(table) ==
  IF table \in UserinfoTables THEN "sqlobj_userinfo_db" ELSE "sqlobj_venue_db"

Current == Head(pending[1])

(* the next db_clear_ function calls the server *)
WorkerCalls ==
  /\ pending[1] # <<>>
  /\ Enter("worker", ConnectionOf(DeletionOrder[step]))
  /\ UNCHANGED <<databaseVars, lpc, requestVars, step, serviceVars, answered,
                 spoilt>>

(* the job goes on with the next table, or is done with *)
NextDeletion ==
  IF step < Len(DeletionOrder)
  THEN step' = step + 1 /\ UNCHANGED serviceVars
  ELSE step' = 1 /\ Jobs!Execute(1)

(* the call returns; one that fails may have deleted all the same *)
WorkerDeletes ==
  \E fine \in BOOLEAN :
    /\ Leave("worker", fine)
    /\ \/ rows' = Deleted(DeletionOrder[step], Current.card)
       \/ ~ fine /\ rows' = rows
    /\ spoilt' = IF Trouble("worker", fine) THEN spoilt \cup {Current.visit}
                                            ELSE spoilt
    /\ NextDeletion
    /\ UNCHANGED <<visits, credited, early, lpc, requestVars, answered>>

(* The worker ends between two jobs; what is pending is given up. *)
WorkerStops ==
  /\ WorkerMayStop
  /\ step = 1 /\ call["worker"] = "none"
  /\ Jobs!Close(1)
  /\ spoilt' = spoilt \cup {pending[1][n].visit : n \in 1 .. Len(pending[1])}
  /\ UNCHANGED <<databaseVars, connectionVars, lpc, requestVars, step, answered>>

WorkerStep == WorkerCalls \/ WorkerDeletes

Handlers == {"load_scores", "back_name", "load_activity"}

Environment ==
  \/ \E c \in Cards : Register(c) \/ \E s \in Scenes : Play(c, s)
  \/ \E h \in Handlers, c \in Cards, only \in BOOLEAN : Request(h, c, only)

Next == Environment \/ LoopStep \/ WorkerStep \/ WorkerStops

Spec == Init /\ [][Next]_vars

(* Both threads are scheduled and the database answers every call.         *)
FairSpec == Spec /\ WF_vars(LoopStep) /\ WF_vars(WorkerStep)

-----------------------------------------------------------------------------
TypeOK ==
  /\ rows \in [Tables -> [Cards -> SUBSET Rows]]
  /\ visits \in 0 .. MaxVisits
  /\ credited \in BOOLEAN
  /\ call \in [Threads -> Connections \cup {"none"}]
  /\ met \in [Threads -> BOOLEAN]
  /\ lpc \in LoopPc
  /\ requests \in 0 .. MaxRequests
  /\ cardid \in Cards
  /\ queryonly \in BOOLEAN
  /\ loaded \in SUBSET Rows
  /\ named \in 0 .. MaxVisits
  /\ present \in SUBSET Rows
  /\ troubled \in BOOLEAN
  /\ step \in 1 .. 5
  /\ pending \in [{1} -> Seq(Job)]
  /\ executed \in [{1} -> Seq(Job)]
  /\ closed \in [{1} -> BOOLEAN]
  /\ answered \in SUBSET Visits
  /\ spoilt \in SUBSET Visits
  /\ early \in SUBSET Visits

(* The comment of stage_one_dojob: the records of the card are deleted.    *)
(* When a job is done and none of its calls met another or failed, no      *)
(* table knows the visit any more, and none ever will: although the scenes *)
(* go on recording while the job runs, they no longer find the mapping,    *)
(* which is what the job deletes first.                                    *)
NothingLeft ==
  \A n \in 1 .. Len(executed[1]) :
    LET job == executed[1][n]
    IN  job.visit \notin spoilt =>
          \A table \in Tables :
            \A row \in rows[table][job.card] : VisitOf(row) # job.visit

(* A score reply is never a mixture of before and after the return of the  *)
(* card: if it bears the visitor's name, it shows every score the visitor  *)
(* had when the request came.  user_score reads the scores before the name *)
(* and the job deletes the name before the scores; no call of either met   *)
(* another or failed.                                                      *)
ScoreReplyIsWhole ==
  lpc = "score_reply" /\ ~ troubled /\ named \notin spoilt =>
    \A row \in present : VisitOf(row) = named => row \in loaded

(* A row is deleted only when the return of its visit was answered, or by *)
(* a useract request for its card.  The job of another visit hits a row    *)
(* only if its visitor was given the card too early: while rows, a job or  *)
(* the return of an earlier visit were still there.  A patient desk does   *)
(* not do that (DeskInv).                                                  *)
OnlyReturnedRowsDeleted ==
  [][\A table \in Tables : \A c \in Cards :
       \A row \in rows[table][c] \ rows'[table][c] :
         \/ VisitOf(row) \in answered \cup early
         \/ lpc = "clear_activity" /\ table = "tbVisitorActivity" /\ c = cardid
    ]_vars

(* "ok" is a promise: the rows of a visit whose return was answered are    *)
(* deleted some day, unless a call of its job met trouble.                 *)
ReturnIsCarriedOut ==
  \A v \in Visits :
    v \in answered ~>
      \/ v \in spoilt
      \/ \A table \in Tables, c \in Cards :
           \A row \in rows[table][c] : VisitOf(row) # v

(* wapihelp.txt on useract: querying the user's activity deletes "the      *)
(* records" - those of the answer.                                         *)
OnlyReportedActivityDeleted ==
  [][lpc = "clear_activity" /\ lpc' = "idle" =>
       rows["tbVisitorActivity"][cardid] \ rows'["tbVisitorActivity"][cardid]
         \subseteq loaded]_vars

(* wapihelp.txt: /score is "FOR querying a card's score".  A request for a *)
(* registered card whose calls all work is answered, in a venue whose      *)
(* scenes bear credits.                                                    *)
ScoreIsAnswered ==
  [][lpc' = "idle" /\ lpc \in {"query_credits", "query_remains", "query_name"}
       => \/ troubled \/ met["loop"] \/ ~ credited
          \/ rows["tbtraveler"][cardid] = {}]_vars

-----------------------------------------------------------------------------
(* The inductive invariant behind NothingLeft; module BackCardProofs shows *)
(* that every step preserves it.                                           *)

(* No row, no request and no job is ahead of the registrations: the visits *)
(* that Register will number are new to the tables and the jobs.           *)
VisitsKnown ==
  /\ \A table \in Tables, c \in Cards :
       \A row \in rows[table][c] : VisitOf(row) <= visits
  /\ named <= visits
  /\ \A n \in 1 .. Len(pending[1]) : pending[1][n].visit <= visits
  /\ \A n \in 1 .. Len(executed[1]) : executed[1][n].visit <= visits

(* A handler that goes on past the name has found one.                     *)
NamedVisitor ==
  lpc \in {"score_reply", "back_reply", "push"} => named # 0

(* The worker is at a job while it is inside a connection or past the      *)
(* first deletion.                                                         *)
AtAJob ==
  call["worker"] # "none" \/ step # 1 => pending[1] # <<>>

Gone(table, job) ==
  \A row \in rows[table][job.card] : VisitOf(row) # job.visit

(* The deletions that the current job has done without trouble have left   *)
(* nothing, and nothing has come back since.                               *)
CleanSoFar ==
  pending[1] # <<>> /\ Current.visit \notin spoilt =>
    \A k \in 1 .. step - 1 : Gone(DeletionOrder[k], Current)

BackCardInv ==
  /\ TypeOK /\ VisitsKnown /\ NamedVisitor /\ AtAJob
  /\ CleanSoFar /\ NothingLeft

-----------------------------------------------------------------------------
(* The inductive invariant behind OnlyReturnedRowsDeleted: a visitor who   *)
(* was given a clean card and has not returned it has the card alone.  The *)
(* mapping, which the desk goes by, is his, all rows are his, no job waits *)
(* for the card and nobody else's return of it is under way.               *)
HasAlone(c, v) ==
  /\ \E row \in rows["tbtagmapping"][c] : VisitOf(row) = v
  /\ \A table \in Tables : \A row \in rows[table][c] : VisitOf(row) = v
  /\ \A n \in 1 .. Len(pending[1]) : pending[1][n].card # c
  /\ BeingReturned(c) => lpc = "back_reply" /\ named = v

CardsHeldAlone ==
  \A table \in Tables, c \in Cards : \A row \in rows[table][c] :
    VisitOf(row) \in answered \cup early \/ HasAlone(c, VisitOf(row))

-----------------------------------------------------------------------------
(* With a patient desk: the inductive invariant behind ScoreReplyIsWhole,  *)
(* shown in module BackCardProofs.                                         *)

NobodyIsEarly == early = {}

AnsweredKnown == \A v \in answered : v <= visits

(* What the tables have on a card was written during one visit.            *)
OneVisitor ==
  \A c \in Cards : \A t, u \in Tables :
    \A row \in rows[t][c], other \in rows[u][c] : VisitOf(row) = VisitOf(other)

(* Nothing is deleted by a job but rows of the visit that was returned.    *)
JobsOwnTheCard ==
  \A n \in 1 .. Len(pending[1]) :
    /\ pending[1][n].visit \in answered
    /\ \A t \in Tables : \A row \in rows[t][pending[1][n].card] :
         VisitOf(row) = pending[1][n].visit

(* The visitor whose return is being served is still there, and no job for *)
(* the card is.                                                            *)
ReturnUnderWay ==
  /\ lpc = "back_name" =>
       \A row \in rows["tbtraveler"][cardid] : VisitOf(row) \notin answered
  /\ lpc \in {"back_reply", "push"} =>
       /\ \E row \in rows["tbtraveler"][cardid] : VisitOf(row) = named
       /\ \A n \in 1 .. Len(pending[1]) : pending[1][n].card # cardid
  /\ lpc = "back_reply" => named \notin answered
  /\ lpc = "push" => named \in answered

NameGone(v) ==
  v <= visits /\ \A row \in rows["tbtraveler"][cardid] : VisitOf(row) # v

(* What was there when the request came and is not in found any more was   *)
(* deleted after the name was.                                             *)
Kept(found) ==
  \A row \in present :
    row \in found \/ VisitOf(row) \in spoilt \/ NameGone(VisitOf(row))

ScoresInHand ==
  /\ lpc = "load_scores" => Kept(rows["tbVisitorScore"][cardid])
  /\ lpc \in {"query_credits", "query_remains", "query_name"} /\ ~ troubled =>
       Kept(loaded)

(* A card that is out, or on its way back, is one visitor's in all tables, *)
(* in the request that is served and in the jobs that wait; so nobody is   *)
(* given it early, a job deletes what was returned, and a reply that finds *)
(* the name has found the scores.                                          *)
DeskInv ==
  PatientDesk =>
    /\ NobodyIsEarly /\ AnsweredKnown /\ OneVisitor /\ JobsOwnTheCard
    /\ ReturnUnderWay /\ ScoresInHand /\ ScoreReplyIsWhole
=============================================================================
