--------------------------- MODULE BackCardProofs ---------------------------
(***************************************************************************)
(* The card lifecycle, for every number of cards, scenes, visits and       *)
(* requests and whatever calls fail.  However the desk hands out its       *)
(* cards, a job without trouble leaves nothing of its visit; with a desk   *)
(* that waits for a card to be clean, a score reply is whole and a job     *)
(* deletes rows of the visit that was returned only.                       *)
(***************************************************************************)
EXTENDS BackCard, TLAPS

(***************************************************************************)
(* The service of the worker.                                              *)
(***************************************************************************)

(* A job that is accepted waits behind the others.                         *)
LEMMA AcceptFacts ==
  ASSUME TypeOK, NEW j \in Job, Jobs!Accept(1, j)
  PROVE  /\ pending' \in [{1} -> Seq(Job)]
         /\ pending'[1] = Append(pending[1], j)
         /\ executed' = executed /\ closed' = closed
  BY DEF TypeOK, Jobs!Accept

(* A job that is executed leaves the queue.                                *)
LEMMA ExecuteFacts ==
  ASSUME TypeOK, Jobs!Execute(1)
  PROVE  /\ pending[1] # <<>>
         /\ pending' \in [{1} -> Seq(Job)]
         /\ pending'[1] = Tail(pending[1])
         /\ executed' \in [{1} -> Seq(Job)]
         /\ executed'[1] = Append(executed[1], Current)
         /\ closed' = closed
  <1>1. pending[1] # <<>> /\ pending[1] \in Seq(Job)
    BY DEF TypeOK, Jobs!Execute
  <1>2. Current \in Job /\ Tail(pending[1]) \in Seq(Job)
    BY <1>1 DEF Current
  <1> QED
    BY <1>1, <1>2 DEF TypeOK, Jobs!Execute, Current

(* A service that closes gives up what is pending.                         *)
LEMMA CloseFacts ==
  ASSUME TypeOK, Jobs!Close(1)
  PROVE  /\ pending' \in [{1} -> Seq(Job)]
         /\ pending'[1] = <<>>
         /\ executed' = executed
         /\ closed' \in [{1} -> BOOLEAN]
  BY DEF TypeOK, Jobs!Close

(* A job in the queue is a job.                                            *)
LEMMA CurrentIsJob ==
  ASSUME TypeOK, pending[1] # <<>>
  PROVE  Current \in Job
  BY DEF TypeOK, Current

(* What waits or was executed is a job, with the number of a visit.        *)
LEMMA JobsAreJobs ==
  ASSUME TypeOK
  PROVE  /\ \A n \in 1 .. Len(pending[1]) :
              pending[1][n] \in Job /\ pending[1][n].visit \in Visits
         /\ \A n \in 1 .. Len(executed[1]) :
              executed[1][n] \in Job /\ executed[1][n].visit \in Visits
  <1>1. pending[1] \in Seq(Job) /\ executed[1] \in Seq(Job)
    BY DEF TypeOK
  <1>2. \A job \in Job : job.visit \in Visits
    BY DEF Job
  <1> QED
    BY <1>1, <1>2

(***************************************************************************)
(* The tables.                                                             *)
(***************************************************************************)

(* A deletion empties one table of one card.                               *)
LEMMA DeletedFacts ==
  ASSUME TypeOK, NEW table \in Tables, NEW card \in Cards
  PROVE  /\ Deleted(table, card) \in [Tables -> [Cards -> SUBSET Rows]]
         /\ Deleted(table, card)[table][card] = {}
         /\ \A t \in Tables, c \in Cards :
              Deleted(table, card)[t][c] \subseteq rows[t][c]
  BY DEF TypeOK, Deleted

(* A visitor is registered in two tables, under the next number.           *)
LEMMA RegisterFacts ==
  ASSUME TypeOK, NEW c \in Cards, Register(c)
  PROVE  /\ visits' = visits + 1 /\ visits' \in 0 .. MaxVisits
         /\ rows' \in [Tables -> [Cards -> SUBSET Rows]]
         /\ \A t \in Tables, d \in Cards :
              rows'[t][d] \subseteq rows[t][d] \cup {<<visits', 0>>}
         /\ early' \in SUBSET Visits /\ early \subseteq early'
  <1>1. visits' = visits + 1 /\ visits' \in 0 .. MaxVisits /\ visits' \in Visits
    BY BackCardAssumption DEF TypeOK, Register, Visits
  <1>2. <<visits + 1, 0>> \in Rows
    BY <1>1, BackCardAssumption DEF Rows
  <1>3. rows' = [table \in Tables |->
                   IF table \in {"tbtagmapping", "tbtraveler"}
                   THEN [rows[table] EXCEPT ![c] = @ \cup {<<visits + 1, 0>>}]
                   ELSE rows[table]]
    BY DEF Register
  <1>4. rows' \in [Tables -> [Cards -> SUBSET Rows]]
    <2>1. \A t \in Tables : rows[t] \in [Cards -> SUBSET Rows]
      BY DEF TypeOK
    <2>2. \A t \in Tables :
            [rows[t] EXCEPT ![c] = @ \cup {<<visits + 1, 0>>}]
              \in [Cards -> SUBSET Rows]
      BY <1>2, <2>1
    <2> QED
      BY <1>3, <2>1, <2>2
  <1>5. \A t \in Tables, d \in Cards :
          rows'[t][d] \subseteq rows[t][d] \cup {<<visits + 1, 0>>}
    BY <1>3 DEF TypeOK
  <1>6. early' \in SUBSET Visits /\ early \subseteq early'
    BY <1>1 DEF TypeOK, Register
  <1> QED
    BY <1>1, <1>4, <1>5, <1>6

(* A visitor plays under the number that the tag mapping has.              *)
LEMMA PlayFacts ==
  ASSUME TypeOK, NEW c \in Cards, NEW s \in Scenes, Play(c, s)
  PROVE  /\ rows' \in [Tables -> [Cards -> SUBSET Rows]]
         /\ rows'["tbtagmapping"] = rows["tbtagmapping"]
         /\ \E row \in rows["tbtagmapping"][c] :
              \A t \in Tables, d \in Cards :
                rows'[t][d] \subseteq
                  rows[t][d] \cup (IF d = c THEN {<<VisitOf(row), s>>} ELSE {})
  <1>1. PICK row \in rows["tbtagmapping"][c] :
          rows' = [table \in Tables |->
                     IF table \in VenueTables \cup {"tbtagpos"}
                     THEN [rows[table] EXCEPT ![c] = @ \cup {<<VisitOf(row), s>>}]
                     ELSE rows[table]]
    BY DEF Play
  <1>2. row \in Rows
    BY DEF TypeOK, Tables, UserinfoTables
  <1>3. <<VisitOf(row), s>> \in Rows
    BY <1>2, BackCardAssumption DEF Rows, VisitOf, Scenes
  <1>4. rows' \in [Tables -> [Cards -> SUBSET Rows]]
    <2>1. \A t \in Tables : rows[t] \in [Cards -> SUBSET Rows]
      BY DEF TypeOK
    <2>2. \A t \in Tables :
            [rows[t] EXCEPT ![c] = @ \cup {<<VisitOf(row), s>>}]
              \in [Cards -> SUBSET Rows]
      BY <1>3, <2>1
    <2> QED
      BY <1>1, <2>1, <2>2
  <1>5. rows'["tbtagmapping"] = rows["tbtagmapping"]
    BY <1>1 DEF TypeOK, Tables, UserinfoTables, VenueTables
  <1>6. \A t \in Tables, d \in Cards :
          rows'[t][d] \subseteq
            rows[t][d] \cup (IF d = c THEN {<<VisitOf(row), s>>} ELSE {})
    BY <1>1 DEF TypeOK
  <1> QED
    BY <1>4, <1>5, <1>6

(***************************************************************************)
(* The connections and the handlers.                                       *)
(***************************************************************************)

(* A call that begins changes the connection of its own thread only.       *)
LEMMA EnterFacts ==
  ASSUME TypeOK, NEW thread \in Threads, NEW connection \in Connections,
         Enter(thread, connection)
  PROVE  /\ call' \in [Threads -> Connections \cup {"none"}]
         /\ met' \in [Threads -> BOOLEAN]
         /\ \A other \in Threads \ {thread} : call'[other] = call[other]
  BY DEF TypeOK, Enter

(* So does a call that comes back.                                         *)
LEMMA LeaveFacts ==
  ASSUME TypeOK, NEW thread \in Threads, NEW fine \in BOOLEAN,
         Leave(thread, fine)
  PROVE  /\ call[thread] # "none" /\ call'[thread] = "none"
         /\ call' \in [Threads -> Connections \cup {"none"}]
         /\ met' \in [Threads -> BOOLEAN]
         /\ \A other \in Threads \ {thread} : call'[other] = call[other]
  BY DEF TypeOK, Leave

(* What belongs to the handlers has its type.                              *)
HandlerOK ==
  /\ lpc \in LoopPc
  /\ requests \in 0 .. MaxRequests
  /\ cardid \in Cards
  /\ queryonly \in BOOLEAN
  /\ loaded \in SUBSET Rows
  /\ named \in 0 .. MaxVisits
  /\ present \in SUBSET Rows
  /\ troubled \in BOOLEAN

(* A request that ends leaves no visitor named.                            *)
LEMMA EndRequestFacts ==
  ASSUME TypeOK, EndRequest
  PROVE  HandlerOK' /\ named' = 0 /\ lpc' = "idle"
  <1>1. lpc' = "idle" /\ "idle" \in LoopPc /\ named' = 0
    BY DEF EndRequest, LoopPc
  <1>2. 0 \in 0 .. MaxVisits
    BY BackCardAssumption
  <1>3. /\ queryonly' = FALSE /\ troubled' = FALSE
        /\ loaded' = {} /\ present' = {}
        /\ requests' = requests /\ cardid' = cardid
    BY DEF EndRequest
  <1>4. requests \in 0 .. MaxRequests /\ cardid \in Cards
    BY DEF TypeOK
  <1>5. HandlerOK'
    BY <1>1, <1>2, <1>3, <1>4 DEF HandlerOK
  <1> QED
    BY <1>1, <1>5

(* A step that leaves the worker, its service and the registrations alone, *)
(* and adds no row to any table.                                           *)
Quiet ==
  /\ UNCHANGED <<visits, credited, early, step, serviceVars, spoilt>>
  /\ call' \in [Threads -> Connections \cup {"none"}]
  /\ met' \in [Threads -> BOOLEAN]
  /\ call'["worker"] = call["worker"]
  /\ rows' \in [Tables -> [Cards -> SUBSET Rows]]
  /\ \A t \in Tables, c \in Cards : rows'[t][c] \subseteq rows[t][c]
  /\ answered' \in SUBSET Visits

(* The rows of one card and table are rows.                                *)
LEMMA RowsOfCard ==
  ASSUME TypeOK, NEW t \in Tables, NEW c \in Cards
  PROVE  /\ rows[t][c] \subseteq Rows
         /\ \A row \in rows[t][c] : VisitOf(row) \in 1 .. MaxVisits
  <1>1. rows[t][c] \subseteq Rows
    BY DEF TypeOK
  <1>2. \A row \in Rows : VisitOf(row) \in 1 .. MaxVisits
    BY DEF Rows, VisitOf, Visits
  <1> QED
    BY <1>1, <1>2

(* A call that comes back to the handler is quiet if it deletes nothing.   *)
LEMMA LoopReturnsFacts ==
  ASSUME TypeOK, NEW pc \in LoopPc, NEW next \in LoopPc, NEW fine \in BOOLEAN,
         LoopReturns(pc, fine, next), rows' = rows,
         loaded' \in SUBSET Rows, named' \in 0 .. MaxVisits
  PROVE  Quiet /\ HandlerOK' /\ lpc = pc /\ lpc' = next
  <1>1. Leave("loop", fine) /\ "loop" \in Threads /\ "worker" \in Threads
    BY DEF LoopReturns, Threads
  <1>2. troubled' \in BOOLEAN
    BY DEF LoopReturns, TypeOK, Trouble
  <1>3. HandlerOK'
    BY <1>2 DEF LoopReturns, TypeOK, HandlerOK
  <1>4. Quiet
    BY <1>1, LeaveFacts DEF LoopReturns, TypeOK, Quiet, serviceVars
  <1> QED
    BY <1>3, <1>4 DEF LoopReturns

(* So is a call whose handler gives up.                                    *)
LEMMA DroppedFacts ==
  ASSUME TypeOK, NEW pc \in LoopPc, NEW fine \in BOOLEAN, Dropped(pc, fine)
  PROVE  Quiet /\ HandlerOK' /\ named' = 0 /\ lpc' = "idle"
  <1>1. Leave("loop", fine) /\ "loop" \in Threads /\ "worker" \in Threads
    BY DEF Dropped, Threads
  <1>2. HandlerOK' /\ named' = 0 /\ lpc' = "idle"
    BY EndRequestFacts DEF Dropped
  <1>3. Quiet
    BY <1>1, LeaveFacts DEF Dropped, TypeOK, Quiet, serviceVars, databaseVars
  <1> QED
    BY <1>2, <1>3

(* What a quiet step of the event loop keeps: the handler goes on with a   *)
(* visitor that was registered, and past the name it has one.              *)
Handled ==
  Quiet /\ HandlerOK' /\ named' <= visits /\ NamedVisitor'

(* The name of a visitor is found, or the handler gives up.                *)
LEMMA QueryNameFacts ==
  ASSUME TypeOK, VisitsKnown, NEW pc \in LoopPc, NEW next \in LoopPc,
         QueryName(pc, next)
  PROVE  Handled
  <1>1. CASE /\ LoopReturns(pc, TRUE, next)
             /\ \E row \in rows["tbtraveler"][cardid] : named' = VisitOf(row)
             /\ UNCHANGED <<rows, loaded>>
    <2>1. "tbtraveler" \in Tables /\ cardid \in Cards
      BY DEF Tables, UserinfoTables, TypeOK
    <2>2. PICK row \in rows["tbtraveler"][cardid] : named' = VisitOf(row)
      BY <1>1
    <2>3. named' \in 1 .. MaxVisits /\ named' <= visits
      BY <2>1, <2>2, RowsOfCard DEF VisitsKnown
    <2>4. named' \in 0 .. MaxVisits /\ named' # 0 /\ loaded' \in SUBSET Rows
      BY <1>1, <2>3, BackCardAssumption DEF TypeOK
    <2>5. Quiet /\ HandlerOK'
      BY <1>1, <2>4, LoopReturnsFacts
    <2> QED
      BY <2>3, <2>4, <2>5 DEF Handled, NamedVisitor
  <1>2. CASE \E fine \in BOOLEAN : Dropped(pc, fine)
    <2>1. Quiet /\ HandlerOK' /\ named' = 0 /\ lpc' = "idle"
      BY <1>2, DroppedFacts
    <2> QED
      BY <2>1, BackCardAssumption DEF Handled, NamedVisitor, TypeOK
  <1> QED
    BY <1>1, <1>2 DEF QueryName

(* Every step of a handler is quiet but the one that pushes the job.       *)
LEMMA HandlerStep ==
  ASSUME TypeOK, VisitsKnown, NamedVisitor,
         \/ LoopStep
         \/ \E h \in Handlers, c \in Cards, only \in BOOLEAN :
              Request(h, c, only),
         lpc # "push"
  PROVE  Handled
  <1> USE DEF Handled
  <1>a. /\ named <= visits /\ 0 <= visits
        /\ named \in 0 .. MaxVisits /\ loaded \in SUBSET Rows
    BY DEF VisitsKnown, TypeOK
  <1>b. ASSUME HandlerOK', Quiet, named' = 0, lpc' = "idle"
        PROVE  Handled
    BY <1>a, <1>b DEF NamedVisitor
  <1>c. /\ "idle" \in LoopPc /\ CallPc \subseteq LoopPc
        /\ Handlers \subseteq LoopPc
        /\ "query_credits" \in LoopPc /\ "query_remains" \in LoopPc
        /\ "query_name" \in LoopPc /\ "useract_reply" \in LoopPc
        /\ "load_scores" \in LoopPc /\ "load_activity" \in LoopPc
        /\ "score_reply" \in LoopPc /\ "back_reply" \in LoopPc
        /\ "back_name" \in LoopPc /\ "push" \in LoopPc
        /\ "clear_activity" \in LoopPc
    BY DEF LoopPc, CallPc, Handlers
  <1>d. /\ "tbVisitorScore" \in Tables /\ "tbVisitorActivity" \in Tables
        /\ "loop" \in Threads /\ "worker" \in Threads
        /\ cardid \in Cards
    BY DEF Tables, VenueTables, Threads, TypeOK
  <1>1. CASE LoopCalls
    <2>1. ConnectionAt(lpc) \in Connections
      BY DEF ConnectionAt, Connections
    <2>2. Quiet
      BY <1>1, <1>d, <2>1, EnterFacts
         DEF LoopCalls, Quiet, TypeOK, databaseVars, serviceVars
    <2> QED
      BY <1>1, <1>a, <2>2
         DEF LoopCalls, HandlerOK, TypeOK, requestVars, localVars, NamedVisitor
  <1>2. CASE LoadScores
    <2>1. PICK fine \in BOOLEAN :
            /\ LoopReturns("load_scores", fine, "query_credits")
            /\ loaded' = IF fine THEN rows["tbVisitorScore"][cardid] ELSE {}
            /\ UNCHANGED <<rows, named>>
      BY <1>2 DEF LoadScores
    <2>2. loaded' \in SUBSET Rows
      BY <2>1, <1>d, RowsOfCard
    <2>3. Quiet /\ HandlerOK' /\ lpc' = "query_credits"
      BY <2>1, <2>2, <1>a, <1>c, LoopReturnsFacts
    <2> QED
      BY <2>1, <2>3, <1>a DEF NamedVisitor
  <1>3. CASE QueryCredits
    <2>1. CASE \E fine \in BOOLEAN : Dropped("query_credits", fine)
      BY <2>1, <1>b, <1>c, DroppedFacts
    <2>2. CASE /\ LoopReturns("query_credits", TRUE, "query_remains")
               /\ UNCHANGED <<rows, loaded, named>>
      <3>1. Quiet /\ HandlerOK' /\ lpc' = "query_remains"
        BY <2>2, <1>a, <1>c, LoopReturnsFacts
      <3> QED
        BY <2>2, <3>1, <1>a DEF NamedVisitor
    <2> QED
      BY <1>3, <2>1, <2>2 DEF QueryCredits
  <1>4. CASE QueryRemains
    <2>1. CASE \E fine \in BOOLEAN : Dropped("query_remains", fine)
      BY <2>1, <1>b, <1>c, DroppedFacts
    <2>2. CASE /\ LoopReturns("query_remains", TRUE, "query_name")
               /\ UNCHANGED <<rows, loaded, named>>
      <3>1. Quiet /\ HandlerOK' /\ lpc' = "query_name"
        BY <2>2, <1>a, <1>c, LoopReturnsFacts
      <3> QED
        BY <2>2, <3>1, <1>a DEF NamedVisitor
    <2> QED
      BY <1>4, <2>1, <2>2 DEF QueryRemains
  <1>5. CASE \/ QueryName("query_name", "score_reply")
             \/ QueryName("back_name", "back_reply")
    BY <1>5, <1>c, QueryNameFacts
  <1>6. CASE ScoreReply
    <2>1. HandlerOK' /\ named' = 0 /\ lpc' = "idle"
      BY <1>6, EndRequestFacts DEF ScoreReply
    <2>2. Quiet
      BY <1>6 DEF ScoreReply, Quiet, TypeOK, databaseVars, connectionVars,
                  serviceVars
    <2> QED
      BY <2>1, <2>2, <1>b
  <1>7. CASE BackReply
    <2>1. named # 0 /\ named \in Visits
      BY <1>7, <1>a DEF BackReply, NamedVisitor, Visits
    <2>2. Quiet
      BY <1>7, <2>1 DEF BackReply, Quiet, TypeOK, databaseVars, connectionVars,
                        serviceVars
    <2> QED
      BY <1>7, <1>a, <1>c, <2>1, <2>2
         DEF BackReply, HandlerOK, TypeOK, requestVars, localVars, NamedVisitor
  <1>8. CASE LoadActivity
    <2>1. PICK fine \in BOOLEAN :
            /\ LoopReturns("load_activity", fine, "useract_reply")
            /\ loaded' = IF fine THEN rows["tbVisitorActivity"][cardid] ELSE {}
            /\ UNCHANGED <<rows, named>>
      BY <1>8 DEF LoadActivity
    <2>2. loaded' \in SUBSET Rows
      BY <2>1, <1>d, RowsOfCard
    <2>3. Quiet /\ HandlerOK' /\ lpc' = "useract_reply"
      BY <2>1, <2>2, <1>a, <1>c, LoopReturnsFacts
    <2> QED
      BY <2>1, <2>3, <1>a DEF NamedVisitor
  <1>13. CASE LoadNoActivity
    <2>1. Quiet
      BY <1>13 DEF LoadNoActivity, Quiet, TypeOK, databaseVars, connectionVars, serviceVars
    <2>2. HandlerOK' /\ lpc' = "useract_reply" /\ named' = named
      BY <1>13, <1>c DEF LoadNoActivity, HandlerOK, TypeOK
    <2> QED
      BY <2>1, <2>2, <1>a, <1>c DEF NamedVisitor, LoadNoActivity, Quiet
  <1>9. CASE UseractReply
    <2>1. Quiet
      BY <1>9 DEF UseractReply, Quiet, TypeOK, databaseVars, connectionVars,
                  serviceVars
    <2>2. CASE EndRequest
      BY <2>1, <2>2, <1>b, EndRequestFacts
    <2>3. CASE lpc' = "clear_activity" /\ UNCHANGED requestVars
      BY <2>1, <2>3, <1>a, <1>c
         DEF HandlerOK, TypeOK, requestVars, localVars, NamedVisitor
    <2> QED
      BY <1>9, <2>2, <2>3 DEF UseractReply
  <1>10. CASE ClearActivity
    <2>1. PICK fine \in BOOLEAN :
            /\ Leave("loop", fine)
            /\ \/ rows' = Deleted("tbVisitorActivity", cardid)
               \/ ~ fine /\ rows' = rows
            /\ EndRequest
            /\ UNCHANGED <<visits, credited, early, step, serviceVars, answered,
                           spoilt>>
      BY <1>10 DEF ClearActivity
    <2>2. /\ rows' \in [Tables -> [Cards -> SUBSET Rows]]
          /\ \A t \in Tables, c \in Cards : rows'[t][c] \subseteq rows[t][c]
      BY <2>1, <1>d, DeletedFacts DEF TypeOK
    <2>3. Quiet
      BY <2>1, <2>2, <1>d, LeaveFacts DEF Quiet, TypeOK
    <2> QED
      BY <2>1, <2>3, <1>b, EndRequestFacts
  <1>11. CASE \E h \in Handlers, c \in Cards, only \in BOOLEAN :
                Request(h, c, only)
    <2>1. PICK h \in Handlers, c \in Cards, only \in BOOLEAN :
            Request(h, c, only)
      BY <1>11
    <2>2. Quiet
      BY <2>1 DEF Request, Quiet, TypeOK, databaseVars, connectionVars,
                  serviceVars
    <2>3. present' \in SUBSET Rows
      BY <2>1, <1>d, RowsOfCard DEF Request
    <2>4. requests' \in 0 .. MaxRequests
      BY <2>1, BackCardAssumption DEF Request, TypeOK
    <2>5. HandlerOK'
      BY <2>1, <2>3, <2>4, <1>c DEF Request, HandlerOK, TypeOK
    <2> QED
      BY <2>1, <2>2, <2>5, <1>a DEF Request, NamedVisitor, Handlers
  <1>12. ~ PushAjob
    BY DEF PushAjob
  <1> QED
    BY <1>1, <1>2, <1>3, <1>4, <1>5, <1>6, <1>7, <1>8, <1>9, <1>10, <1>11, <1>13,
       <1>12 DEF LoopStep

(***************************************************************************)
(* The invariant.                                                          *)
(***************************************************************************)

(* What a deletion has removed does not come back: neither with a quiet    *)
(* step, nor by the registration of another visitor, nor with a scene that *)
(* no longer finds the mapping.                                            *)
NothingReturns(job) ==
  \A t \in Tables : \A row \in rows'[t][job.card] :
    VisitOf(row) = job.visit =>
      \/ row \in rows[t][job.card]
      \/ ~ Gone("tbtagmapping", job)

(* Steps that neither touch the service nor let a deleted row return keep  *)
(* the tables clean.                                                       *)
LEMMA StaysClean ==
  ASSUME BackCardInv, UNCHANGED <<step, serviceVars, spoilt>>,
         \A job \in Job : job.visit <= visits => NothingReturns(job)
  PROVE  CleanSoFar' /\ NothingLeft'
  <1> USE DEF BackCardInv
  <1>1. ASSUME NEW job \in Job, NEW t \in Tables, job.visit <= visits,
               Gone("tbtagmapping", job), Gone(t, job)
        PROVE  Gone(t, job)'
    BY <1>1 DEF Gone, NothingReturns
  <1>2. ASSUME NEW k \in 1 .. 5
        PROVE  DeletionOrder[k] \in Tables
    BY DEF DeletionOrder, Tables, UserinfoTables, VenueTables
  <1>3. CleanSoFar'
    <2> SUFFICES ASSUME pending[1] # <<>>, Current.visit \notin spoilt,
                        NEW k \in 1 .. step - 1
                 PROVE  Gone(DeletionOrder[k], Current)'
      BY DEF CleanSoFar, serviceVars, Current
    <2>1. Current \in Job /\ Current.visit <= visits /\ Current' = Current
      BY CurrentIsJob DEF VisitsKnown, Current, serviceVars, TypeOK
    <2>2. PICK job \in Job : job = Current
      BY <2>1
    <2>3. k \in 1 .. 5 /\ 1 \in 1 .. step - 1
          /\ DeletionOrder[1] = "tbtagmapping"
      BY DEF TypeOK, DeletionOrder
    <2>4. Gone("tbtagmapping", job) /\ Gone(DeletionOrder[k], job)
      BY <2>2, <2>3 DEF CleanSoFar
    <2>5. Gone(DeletionOrder[k], job)'
      BY <1>1, <1>2, <2>1, <2>2, <2>3, <2>4
    <2> QED
      BY <2>1, <2>2, <2>5 DEF Gone, DeletionOrder
  <1>4. NothingLeft'
    <2> SUFFICES ASSUME NEW n \in 1 .. Len(executed[1]),
                        executed[1][n].visit \notin spoilt,
                        NEW t \in Tables
                 PROVE  Gone(t, executed[1][n])'
      BY DEF NothingLeft, serviceVars, Gone
    <2>1. PICK job \in Job : job = executed[1][n]
      BY DEF TypeOK
    <2>2. "tbtagmapping" \in Tables
      BY DEF Tables, UserinfoTables
    <2>3. job.visit <= visits /\ Gone("tbtagmapping", job) /\ Gone(t, job)
      BY <2>1, <2>2 DEF VisitsKnown, NothingLeft, Gone
    <2>4. Gone(t, job)'
      BY <1>1, <2>3
    <2> QED
      BY <2>1, <2>4 DEF Gone, serviceVars
  <1> QED
    BY <1>3, <1>4

(* A quiet step of a handler keeps the invariant.                          *)
LEMMA HandledInv ==
  ASSUME BackCardInv, Handled
  PROVE  BackCardInv'
  <1> USE DEF BackCardInv, Handled
  <1>1. TypeOK'
    BY DEF TypeOK, Quiet, HandlerOK, serviceVars
  <1>2. VisitsKnown'
    BY DEF VisitsKnown, Quiet, serviceVars
  <1>3. AtAJob'
    BY DEF AtAJob, Quiet, serviceVars
  <1>4. \A job \in Job : NothingReturns(job)
    BY DEF NothingReturns, Quiet, Job
  <1>5. CleanSoFar' /\ NothingLeft'
    BY <1>4, StaysClean DEF Quiet
  <1> QED
    BY <1>1, <1>2, <1>3, <1>5

(* The visit of a new visitor is ahead of every job.                       *)
LEMMA RegisterInv ==
  ASSUME BackCardInv, NEW c \in Cards, Register(c)
  PROVE  BackCardInv'
  <1> USE DEF BackCardInv
  <1>1. /\ visits' = visits + 1 /\ visits' \in 0 .. MaxVisits
        /\ rows' \in [Tables -> [Cards -> SUBSET Rows]]
        /\ \A t \in Tables, d \in Cards :
             rows'[t][d] \subseteq rows[t][d] \cup {<<visits', 0>>}
        /\ early' \in SUBSET Visits
    BY RegisterFacts
  <1>2. UNCHANGED <<credited, call, met, lpc, requests, cardid, queryonly, loaded,
                    named, present, troubled, step, pending, executed, closed,
                    answered, spoilt>>
    BY DEF Register, connectionVars, requestVars, localVars, serviceVars
  <1>3. TypeOK'
    BY <1>1, <1>2 DEF TypeOK
  <1>4. VisitOf(<<visits + 1, 0>>) = visits + 1
    BY DEF VisitOf
  <1>5. VisitsKnown'
    <2>1. \A t \in Tables, d \in Cards :
            \A row \in rows'[t][d] : VisitOf(row) <= visits'
      <3> SUFFICES ASSUME NEW t \in Tables, NEW d \in Cards,
                          NEW row \in rows'[t][d]
                   PROVE  VisitOf(row) <= visits + 1
        BY <1>1
      <3>1. CASE row = <<visits + 1, 0>>
        BY <3>1, <1>4 DEF TypeOK
      <3>2. CASE row \in rows[t][d]
        BY <3>2, RowsOfCard DEF VisitsKnown, TypeOK
      <3> QED
        BY <1>1, <3>1, <3>2
    <2>2. /\ named <= visits + 1
          /\ \A n \in 1 .. Len(pending[1]) : pending[1][n].visit <= visits + 1
          /\ \A n \in 1 .. Len(executed[1]) : executed[1][n].visit <= visits + 1
      BY JobsAreJobs DEF VisitsKnown, TypeOK, Visits
    <2> QED
      BY <1>1, <1>2, <2>1, <2>2 DEF VisitsKnown
  <1>6. \A job \in Job : job.visit <= visits => NothingReturns(job)
    <2> SUFFICES ASSUME NEW job \in Job, job.visit <= visits,
                        NEW t \in Tables, NEW row \in rows'[t][job.card],
                        VisitOf(row) = job.visit
                 PROVE  row \in rows[t][job.card]
      BY DEF NothingReturns
    <2>1. job.card \in Cards /\ job.visit \in Nat
      BY DEF Job, Visits
    <2>2. row # <<visits + 1, 0>>
      BY <1>4, <2>1 DEF TypeOK
    <2> QED
      BY <1>1, <2>1, <2>2
  <1>7. CleanSoFar' /\ NothingLeft'
    BY <1>2, <1>6, StaysClean DEF serviceVars
  <1> QED
    BY <1>2, <1>3, <1>5, <1>7 DEF NamedVisitor, AtAJob

(* A scene records nothing for a visit whose mapping is deleted.           *)
LEMMA PlayInv ==
  ASSUME BackCardInv, NEW c \in Cards, NEW s \in Scenes, Play(c, s)
  PROVE  BackCardInv'
  <1> USE DEF BackCardInv
  <1>1. /\ rows' \in [Tables -> [Cards -> SUBSET Rows]]
        /\ \E row \in rows["tbtagmapping"][c] :
             \A t \in Tables, d \in Cards :
               rows'[t][d] \subseteq
                 rows[t][d] \cup (IF d = c THEN {<<VisitOf(row), s>>} ELSE {})
    BY PlayFacts
  <1>2. PICK played \in rows["tbtagmapping"][c] :
          \A t \in Tables, d \in Cards :
            rows'[t][d] \subseteq
              rows[t][d] \cup (IF d = c THEN {<<VisitOf(played), s>>} ELSE {})
    BY <1>1
  <1>3. UNCHANGED <<visits, credited, early, call, met, lpc, requests, cardid,
                    queryonly, loaded, named, present, troubled, step, pending,
                    executed, closed, answered, spoilt>>
    BY DEF Play, connectionVars, requestVars, localVars, serviceVars
  <1>4. TypeOK'
    BY <1>1, <1>3 DEF TypeOK
  <1>5. VisitOf(<<VisitOf(played), s>>) = VisitOf(played)
    BY DEF VisitOf
  <1>6. "tbtagmapping" \in Tables
    BY DEF Tables, UserinfoTables
  <1>7. VisitsKnown'
    <2>1. \A t \in Tables, d \in Cards :
            \A row \in rows'[t][d] : VisitOf(row) <= visits
      BY <1>2, <1>5, <1>6 DEF VisitsKnown
    <2> QED
      BY <1>3, <2>1 DEF VisitsKnown
  <1>8. \A job \in Job : NothingReturns(job)
    <2> SUFFICES ASSUME NEW job \in Job, NEW t \in Tables,
                        NEW row \in rows'[t][job.card],
                        VisitOf(row) = job.visit,
                        row \notin rows[t][job.card]
                 PROVE  ~ Gone("tbtagmapping", job)
      BY DEF NothingReturns
    <2>1. job.card \in Cards
      BY DEF Job
    <2>2. job.card = c /\ row = <<VisitOf(played), s>>
      BY <1>2, <2>1
    <2> QED
      BY <1>5, <2>2 DEF Gone
  <1>9. CleanSoFar' /\ NothingLeft'
    BY <1>3, <1>8, StaysClean DEF serviceVars
  <1> QED
    BY <1>3, <1>4, <1>7, <1>9 DEF NamedVisitor, AtAJob

(* The job of a returned card goes behind the others; at the head it has   *)
(* no deletion done.                                                       *)
LEMMA PushInv ==
  ASSUME BackCardInv, PushAjob
  PROVE  BackCardInv'
  <1> USE DEF BackCardInv
  <1>1. HandlerOK' /\ named' = 0 /\ lpc' = "idle"
    BY EndRequestFacts DEF PushAjob
  <1>2. UNCHANGED <<rows, visits, credited, early, call, met, step, answered>>
    BY DEF PushAjob, databaseVars, connectionVars
  <1>3. named \in Visits /\ named <= visits
    BY DEF PushAjob, NamedVisitor, VisitsKnown, TypeOK, Visits
  <1>4. NothingLeft' /\ CleanSoFar' /\ AtAJob' /\ VisitsKnown' /\ TypeOK'
    <2>1. CASE UNCHANGED serviceVars /\ spoilt' = spoilt \cup {named}
      <3>1. TypeOK'
        BY <1>1, <1>2, <1>3, <2>1 DEF TypeOK, HandlerOK, serviceVars
      <3>2. VisitsKnown' /\ AtAJob'
        BY <1>1, <1>2, <2>1 DEF VisitsKnown, AtAJob, serviceVars, TypeOK
      <3>3. CleanSoFar' /\ NothingLeft'
        BY <1>2, <2>1 DEF CleanSoFar, NothingLeft, serviceVars, Current, Gone
      <3> QED
        BY <3>1, <3>2, <3>3
    <2>2. CASE Jobs!Accept(1, [card |-> cardid, visit |-> named])
               /\ UNCHANGED spoilt
      <3>1. PICK job \in Job : job = [card |-> cardid, visit |-> named]
        BY <1>3 DEF Job, TypeOK
      <3>2. job.visit <= visits
        BY <1>3, <3>1
      <3>3. /\ pending' \in [{1} -> Seq(Job)]
            /\ pending'[1] = Append(pending[1], job)
            /\ executed' = executed /\ closed' = closed
        BY <2>2, <3>1, AcceptFacts
      <3>4. pending[1] \in Seq(Job)
        BY DEF TypeOK
      <3>5. TypeOK'
        BY <1>1, <1>2, <2>2, <3>3 DEF TypeOK, HandlerOK
      <3>6. \A n \in 1 .. Len(pending'[1]) : pending'[1][n].visit <= visits
        BY <3>2, <3>3, <3>4 DEF VisitsKnown
      <3>7. VisitsKnown'
        <4>1. \A n \in 1 .. Len(executed'[1]) : executed'[1][n].visit <= visits
          BY <3>3 DEF VisitsKnown
        <4>2. 0 <= visits
          BY DEF TypeOK
        <4> QED
          BY <1>1, <1>2, <3>6, <4>1, <4>2 DEF VisitsKnown
      <3>8. AtAJob'
        BY <1>2, <3>3, <3>4 DEF AtAJob
      <3>9. NothingLeft'
        BY <1>2, <2>2, <3>3 DEF NothingLeft
      <3>10. CleanSoFar'
        <4>1. CASE pending[1] = <<>>
          BY <1>2, <4>1 DEF AtAJob, CleanSoFar
        <4>2. CASE pending[1] # <<>>
          <5>1. Current' = Current
            BY <3>3, <3>4, <4>2 DEF Current
          <5> QED
            BY <1>2, <2>2, <4>2, <5>1 DEF CleanSoFar, Gone, DeletionOrder
        <4> QED
          BY <4>1, <4>2
      <3> QED
        BY <3>5, <3>7, <3>8, <3>9, <3>10
    <2> QED
      BY <2>1, <2>2 DEF PushAjob
  <1> QED
    BY <1>1, <1>4 DEF NamedVisitor

(* A deletion that begins.                                                 *)
LEMMA WorkerCallsInv ==
  ASSUME BackCardInv, WorkerCalls
  PROVE  BackCardInv'
  <1> USE DEF BackCardInv
  <1>1. "worker" \in Threads /\ ConnectionOf(DeletionOrder[step]) \in Connections
    BY DEF Threads, ConnectionOf, Connections
  <1>2. /\ call' \in [Threads -> Connections \cup {"none"}]
        /\ met' \in [Threads -> BOOLEAN]
    BY <1>1, EnterFacts DEF WorkerCalls
  <1>3. UNCHANGED <<rows, visits, credited, early, lpc, requests, cardid, queryonly,
                    loaded, named, present, troubled, step, pending, executed,
                    closed, answered, spoilt>>
    BY DEF WorkerCalls, databaseVars, requestVars, localVars, serviceVars
  <1>4. TypeOK'
    BY <1>2, <1>3 DEF TypeOK
  <1>5. VisitsKnown' /\ NamedVisitor'
    BY <1>3 DEF VisitsKnown, NamedVisitor
  <1>6. AtAJob'
    BY <1>3 DEF AtAJob, WorkerCalls
  <1>7. CleanSoFar' /\ NothingLeft'
    BY <1>3 DEF CleanSoFar, NothingLeft, Current, Gone
  <1> QED
    BY <1>4, <1>5, <1>6, <1>7

(* The worker ends: what is pending is given up, what was executed stays.  *)
LEMMA WorkerStopsInv ==
  ASSUME BackCardInv, WorkerStops
  PROVE  BackCardInv'
  <1> USE DEF BackCardInv
  <1>1. /\ pending' \in [{1} -> Seq(Job)] /\ pending'[1] = <<>>
        /\ executed' = executed /\ closed' \in [{1} -> BOOLEAN]
    BY CloseFacts DEF WorkerStops
  <1>2. UNCHANGED <<rows, visits, credited, early, call, met, lpc, requests, cardid,
                    queryonly, loaded, named, present, troubled, step, answered>>
    BY DEF WorkerStops, databaseVars, connectionVars, requestVars, localVars
  <1>3. spoilt' \in SUBSET Visits /\ spoilt \subseteq spoilt'
    BY JobsAreJobs DEF WorkerStops, TypeOK
  <1>4. TypeOK'
    BY <1>1, <1>2, <1>3 DEF TypeOK
  <1>5. VisitsKnown' /\ NamedVisitor'
    BY <1>1, <1>2 DEF VisitsKnown, NamedVisitor
  <1>6. AtAJob' /\ CleanSoFar'
    BY <1>1, <1>2 DEF AtAJob, CleanSoFar, WorkerStops
  <1>7. NothingLeft'
    BY <1>1, <1>2, <1>3 DEF NothingLeft
  <1> QED
    BY <1>4, <1>5, <1>6, <1>7

(* The heart of the proof: a deletion without trouble leaves nothing in    *)
(* its table, and the last one completes the job.                          *)
LEMMA WorkerDeletesInv ==
  ASSUME BackCardInv, WorkerDeletes
  PROVE  BackCardInv'
  <1> USE DEF BackCardInv
  <1>1. PICK fine \in BOOLEAN :
          /\ Leave("worker", fine)
          /\ \/ rows' = Deleted(DeletionOrder[step], Current.card)
             \/ ~ fine /\ rows' = rows
          /\ spoilt' = IF Trouble("worker", fine)
                       THEN spoilt \cup {Current.visit} ELSE spoilt
          /\ NextDeletion
          /\ UNCHANGED <<visits, credited, early, lpc, requestVars, answered>>
    BY DEF WorkerDeletes
  <1>2. /\ call["worker"] # "none" /\ call'["worker"] = "none"
        /\ call' \in [Threads -> Connections \cup {"none"}]
        /\ met' \in [Threads -> BOOLEAN]
    BY <1>1, LeaveFacts DEF Threads
  <1>3. pending[1] # <<>> /\ Current \in Job
    BY <1>2, CurrentIsJob DEF AtAJob
  <1>4. PICK job \in Job : job = Current
    BY <1>3
  <1>5. job.card \in Cards /\ job.visit \in Visits
    BY DEF Job
  <1>6. step \in 1 .. 5 /\ \A k \in 1 .. 5 : DeletionOrder[k] \in Tables
    BY DEF TypeOK, DeletionOrder, Tables, UserinfoTables, VenueTables
  <1>7. /\ rows' \in [Tables -> [Cards -> SUBSET Rows]]
        /\ \A t \in Tables, c \in Cards : rows'[t][c] \subseteq rows[t][c]
        /\ fine => rows'[DeletionOrder[step]][job.card] = {}
    <2>1. CASE rows' = Deleted(DeletionOrder[step], job.card)
      BY <1>5, <1>6, <2>1, DeletedFacts
    <2>2. CASE ~ fine /\ rows' = rows
      BY <2>2 DEF TypeOK
    <2> QED
      BY <1>1, <1>4, <2>1, <2>2
  <1>8. spoilt' \in SUBSET Visits /\ spoilt \subseteq spoilt'
    BY <1>1, <1>4, <1>5 DEF TypeOK
  <1>9. UNCHANGED <<visits, credited, early, lpc, requests, cardid, queryonly, loaded,
                    named, present, troubled, answered>>
    BY <1>1 DEF requestVars, localVars
  <1>10. ASSUME job.visit \notin spoilt', NEW k \in 1 .. step
         PROVE  Gone(DeletionOrder[k], job)'
    <2>1. fine /\ job.visit \notin spoilt
      BY <1>1, <1>4, <1>10 DEF Trouble
    <2>2. CASE k = step
      BY <1>7, <2>1, <2>2 DEF Gone, DeletionOrder
    <2>3. CASE k \in 1 .. step - 1
      <3>1. Gone(DeletionOrder[k], job)
        BY <1>3, <1>4, <2>1, <2>3 DEF CleanSoFar
      <3>2. PICK t \in Tables : t = DeletionOrder[k]
        BY <1>6, <2>3
      <3>3. Gone(t, job)'
        BY <1>5, <1>7, <3>1, <3>2 DEF Gone
      <3> QED
        BY <3>2, <3>3 DEF DeletionOrder
    <2> QED
      BY <1>6, <2>2, <2>3
  <1>11. ASSUME NEW n \in 1 .. Len(executed[1]),
                executed[1][n].visit \notin spoilt',
                NEW t \in Tables, NEW row \in rows'[t][executed[1][n].card]
         PROVE  VisitOf(row) # executed[1][n].visit
    <2>1. executed[1][n].card \in Cards
      BY JobsAreJobs DEF Job
    <2>2. row \in rows[t][executed[1][n].card]
      BY <1>7, <2>1
    <2>3. executed[1][n].visit \notin spoilt
      BY <1>8, <1>11
    <2> QED
      BY <2>2, <2>3 DEF NothingLeft
  <1>12. CASE step < Len(DeletionOrder)
    <2>1. step' = step + 1 /\ UNCHANGED <<pending, executed, closed>>
      BY <1>1, <1>12 DEF NextDeletion, serviceVars
    <2>2. step' \in 1 .. 5
      BY <1>6, <1>12, <2>1 DEF DeletionOrder
    <2>3. TypeOK'
      BY <1>2, <1>7, <1>8, <1>9, <2>1, <2>2 DEF TypeOK
    <2>4. VisitsKnown' /\ NamedVisitor' /\ AtAJob'
      BY <1>3, <1>7, <1>9, <2>1 DEF VisitsKnown, NamedVisitor, AtAJob
    <2>5. CleanSoFar'
      <3>1. Current' = job
        BY <1>4, <2>1 DEF Current
      <3>2. 1 .. step' - 1 = 1 .. step
        BY <1>6, <2>1
      <3> SUFFICES ASSUME job.visit \notin spoilt', NEW k \in 1 .. step
                   PROVE  Gone(DeletionOrder[k], job)'
        BY <3>1, <3>2 DEF CleanSoFar, Gone, DeletionOrder
      <3> QED
        BY <1>10
    <2>6. NothingLeft'
      BY <1>11, <2>1 DEF NothingLeft
    <2> QED
      BY <2>3, <2>4, <2>5, <2>6
  <1>13. CASE ~ (step < Len(DeletionOrder))
    <2>1. step = 5 /\ step' = 1 /\ Jobs!Execute(1)
      BY <1>1, <1>6, <1>13 DEF NextDeletion, DeletionOrder
    <2>2. /\ pending' \in [{1} -> Seq(Job)]
          /\ pending'[1] = Tail(pending[1])
          /\ executed' \in [{1} -> Seq(Job)]
          /\ executed'[1] = Append(executed[1], job)
          /\ closed' = closed
      BY <1>4, <2>1, ExecuteFacts
    <2>3. pending[1] \in Seq(Job) /\ executed[1] \in Seq(Job)
      BY DEF TypeOK
    <2>4. TypeOK'
      BY <1>2, <1>7, <1>8, <1>9, <2>1, <2>2 DEF TypeOK
    <2>5. job.visit <= visits
      BY <1>3, <1>4, <2>3 DEF VisitsKnown, Current
    <2>6. /\ \A n \in 1 .. Len(pending'[1]) : pending'[1][n].visit <= visits
          /\ \A n \in 1 .. Len(executed'[1]) : executed'[1][n].visit <= visits
      BY <1>3, <2>2, <2>3, <2>5 DEF VisitsKnown
    <2>7. VisitsKnown'
      BY <1>7, <1>9, <2>6 DEF VisitsKnown
    <2>8. NamedVisitor' /\ AtAJob' /\ CleanSoFar'
      BY <1>2, <1>9, <2>1 DEF NamedVisitor, AtAJob, CleanSoFar
    <2>9. NothingLeft'
      <3> SUFFICES ASSUME NEW n \in 1 .. Len(executed'[1]),
                          executed'[1][n].visit \notin spoilt',
                          NEW t \in Tables,
                          NEW row \in rows'[t][executed'[1][n].card]
                   PROVE  VisitOf(row) # executed'[1][n].visit
        BY DEF NothingLeft
      <3>1. CASE n \in 1 .. Len(executed[1])
        <4>1. executed'[1][n] = executed[1][n]
          BY <2>2, <2>3, <3>1
        <4> QED
          BY <1>11, <3>1, <4>1
      <3>2. CASE n = Len(executed[1]) + 1
        <4>1. executed'[1][n] = job
          BY <2>2, <2>3, <3>2
        <4>2. PICK k \in 1 .. step : DeletionOrder[k] = t
          <5>1. t \in {DeletionOrder[1], DeletionOrder[2], DeletionOrder[3],
                       DeletionOrder[4], DeletionOrder[5]}
            BY DEF DeletionOrder, Tables, UserinfoTables, VenueTables
          <5> QED
            BY <2>1, <5>1
        <4>3. Gone(DeletionOrder[k], job)'
          BY <1>10, <4>1
        <4> QED
          BY <4>1, <4>2, <4>3 DEF Gone, DeletionOrder
      <3> QED
        BY <2>2, <2>3, <3>1, <3>2
    <2> QED
      BY <2>4, <2>7, <2>8, <2>9
  <1> QED
    BY <1>12, <1>13

(* Initially the tables and the queue are empty.                           *)
LEMMA InitInv == ASSUME Init PROVE BackCardInv
  <1>1. TypeOK
    <2>1. 0 \in 0 .. MaxVisits /\ 0 \in 0 .. MaxRequests
      BY BackCardAssumption
    <2>2. rows \in [Tables -> [Cards -> SUBSET Rows]]
      BY DEF Init
    <2>3. /\ pending \in [{1} -> Seq(Job)] /\ executed \in [{1} -> Seq(Job)]
          /\ closed \in [{1} -> BOOLEAN]
      BY DEF Init, Jobs!Init, Jobs!Transfers
    <2>4. /\ call \in [Threads -> Connections \cup {"none"}]
          /\ met \in [Threads -> BOOLEAN]
      BY DEF Init
    <2>5. lpc \in LoopPc
      BY DEF Init, LoopPc
    <2>6. /\ visits \in 0 .. MaxVisits /\ named \in 0 .. MaxVisits
          /\ requests \in 0 .. MaxRequests /\ step \in 1 .. 5
      BY <2>1 DEF Init
    <2>7. /\ credited \in BOOLEAN /\ cardid \in Cards
          /\ queryonly \in BOOLEAN /\ troubled \in BOOLEAN
          /\ loaded \in SUBSET Rows /\ present \in SUBSET Rows
          /\ answered \in SUBSET Visits /\ spoilt \in SUBSET Visits
          /\ early \in SUBSET Visits
      BY DEF Init
    <2> QED
      BY <2>2, <2>3, <2>4, <2>5, <2>6, <2>7 DEF TypeOK
  <1>2. /\ pending[1] = <<>> /\ executed[1] = <<>>
        /\ \A t \in Tables, c \in Cards : rows[t][c] = {}
        /\ call["worker"] = "none" /\ step = 1
    BY DEF Init, Jobs!Init, Jobs!Transfers, Threads
  <1>3. VisitsKnown /\ NamedVisitor
    BY <1>2 DEF Init, VisitsKnown, NamedVisitor
  <1>4. AtAJob /\ CleanSoFar /\ NothingLeft
    BY <1>2 DEF AtAJob, CleanSoFar, NothingLeft
  <1> QED
    BY <1>1, <1>3, <1>4 DEF BackCardInv

(* Every step keeps the invariant.                                         *)
LEMMA StepInv == BackCardInv /\ [Next]_vars => BackCardInv'
  <1> SUFFICES ASSUME BackCardInv, [Next]_vars PROVE BackCardInv'
    OBVIOUS
  <1>0. TypeOK /\ VisitsKnown /\ NamedVisitor
    BY DEF BackCardInv
  <1>1. CASE \E c \in Cards : Register(c)
    BY <1>1, RegisterInv
  <1>2. CASE \E c \in Cards : \E s \in Scenes : Play(c, s)
    BY <1>2, PlayInv
  <1>3. CASE \E h \in Handlers, c \in Cards, only \in BOOLEAN :
               Request(h, c, only)
    <2>1. lpc # "push"
      BY <1>3 DEF Request
    <2> QED
      BY <1>0, <1>3, <2>1, HandlerStep, HandledInv
  <1>4. CASE LoopStep /\ lpc # "push"
    BY <1>0, <1>4, HandlerStep, HandledInv
  <1>5. CASE LoopStep /\ lpc = "push"
    <2>1. PushAjob
      BY <1>5 DEF LoopStep, LoopCalls, CallPc, LoadScores, LoopReturns,
              QueryCredits, Dropped, QueryRemains, QueryName, ScoreReply,
              BackReply, LoadActivity, LoadNoActivity, UseractReply, ClearActivity
    <2> QED
      BY <2>1, PushInv
  <1>6. CASE WorkerCalls
    BY <1>6, WorkerCallsInv
  <1>7. CASE WorkerDeletes
    BY <1>7, WorkerDeletesInv
  <1>8. CASE WorkerStops
    BY <1>8, WorkerStopsInv
  <1>9. CASE UNCHANGED vars
    <2>1. UNCHANGED <<rows, visits, credited, early, call, met, lpc, requests, cardid,
                      queryonly, loaded, named, present, troubled, step,
                      pending, executed, closed, answered, spoilt>>
      BY <1>9 DEF vars, databaseVars, connectionVars, requestVars, localVars,
                  serviceVars
    <2>2. TypeOK' /\ VisitsKnown' /\ NamedVisitor'
      BY <2>1 DEF BackCardInv, TypeOK, VisitsKnown, NamedVisitor
    <2>3. AtAJob' /\ CleanSoFar' /\ NothingLeft'
      BY <2>1 DEF BackCardInv, AtAJob, CleanSoFar, NothingLeft, Current, Gone
    <2> QED
      BY <2>2, <2>3 DEF BackCardInv
  <1> QED
    BY <1>1, <1>2, <1>3, <1>4, <1>5, <1>6, <1>7, <1>8, <1>9
       DEF Next, Environment, WorkerStep

(* The invariant holds of every behaviour.                                 *)
THEOREM BackCardInvHolds == Spec => []BackCardInv
  BY InitInv, StepInv, PTL DEF Spec

(* A job of which no call met another or failed leaves no row of its visit *)
(* in any table, and none comes back (stage_one_dojob).                    *)
THEOREM NothingIsLeft == Spec => []NothingLeft
  <1>1. BackCardInv => NothingLeft
    BY DEF BackCardInv
  <1> QED
    BY <1>1, BackCardInvHolds, PTL

-----------------------------------------------------------------------------
(***************************************************************************)
(* The desk that waits for a card to be clean before it gives it out       *)
(* again.                                                                  *)
(***************************************************************************)

(* The invariant without the assumption about the desk.                    *)
DatabaseInv == AnsweredKnown /\ OneVisitor /\ JobsOwnTheCard

HandlerInv == ReturnUnderWay /\ ScoresInHand /\ ScoreReplyIsWhole

(***************************************************************************)
(* What the steps do to the tables.                                        *)
(***************************************************************************)

(* The tables by name.                                                     *)
LEMMA TableNames ==
  /\ "tbtraveler" \in Tables /\ "tbtagmapping" \in Tables
  /\ "tbVisitorScore" \in Tables /\ "tbVisitorActivity" \in Tables
  BY DEF Tables, UserinfoTables, VenueTables

(* Only the desk gives cards out.                                          *)
LEMMA OnlyRegisterIsEarly ==
  ASSUME [Next]_vars, ~ \E c \in Cards : Register(c)
  PROVE  early' = early
  BY DEF Next, Environment, Play, Request, LoopStep, LoopCalls, LoadScores, LoopReturns,
         QueryCredits, Dropped, QueryRemains, QueryName, ScoreReply, BackReply,
         PushAjob, LoadActivity, LoadNoActivity, UseractReply, ClearActivity,
         WorkerStep, WorkerCalls, WorkerDeletes, WorkerStops, vars, databaseVars

(* What waits is a job for one of the cards.                               *)
LEMMA JobCards ==
  ASSUME TypeOK
  PROVE  \A n \in 1 .. Len(pending[1]) : pending[1][n].card \in Cards
  <1>1. pending[1] \in Seq(Job) /\ \A job \in Job : job.card \in Cards
    BY DEF TypeOK, Job
  <1> QED
    BY <1>1

(* Visits are numbers.                                                     *)
LEMMA VisitNumbers ==
  ASSUME TypeOK
  PROVE  /\ visits \in Nat /\ named \in Nat
         /\ \A v \in answered : v \in Nat
         /\ \A row \in present : VisitOf(row) \in Nat
         /\ \A t \in Tables, c \in Cards : \A row \in rows[t][c] : VisitOf(row) \in Nat
  <1>1. \A row \in Rows : VisitOf(row) \in Nat
    BY DEF Rows, VisitOf, Visits
  <1>2. /\ visits \in Nat /\ named \in Nat
        /\ \A v \in answered : v \in Nat
    BY BackCardAssumption DEF TypeOK, Visits
  <1>3. \A row \in present : VisitOf(row) \in Nat
    BY <1>1 DEF TypeOK
  <1>4. \A t \in Tables, c \in Cards : rows[t][c] \subseteq Rows
    BY RowsOfCard
  <1> QED
    BY <1>1, <1>2, <1>3, <1>4

(* A patient desk gives out a card of which there is nothing.              *)
LEMMA RegisterClean ==
  ASSUME TypeOK, PatientDesk, NEW c \in Cards, Register(c)
  PROVE  /\ \A t \in Tables : rows[t][c] = {} /\ rows'[t][c] \subseteq {<<visits', 0>>}
         /\ \A t \in Tables : \A d \in Cards \ {c} : rows'[t][d] = rows[t][d]
         /\ \A n \in 1 .. Len(pending[1]) : pending[1][n].card # c
         /\ VisitOf(<<visits', 0>>) = visits'
  <1>1. Untouched(c)
    BY DEF Register
  <1>2. \A t \in Tables : rows[t][c] = {}
    BY <1>1 DEF Untouched
  <1>3. \A t \in Tables : rows'[t][c] \subseteq {<<visits', 0>>}
    BY <1>2, RegisterFacts
  <1>4. ASSUME NEW t \in Tables, NEW d \in Cards \ {c}
        PROVE  rows'[t][d] = rows[t][d]
    BY DEF Register, TypeOK
  <1> QED
    BY <1>1, <1>2, <1>3, <1>4 DEF Untouched, VisitOf

(* A visitor who plays adds rows of the visit that the mapping has, and no *)
(* name.                                                                   *)
LEMMA PlayAdds ==
  ASSUME TypeOK, NEW c \in Cards, NEW s \in Scenes, Play(c, s)
  PROVE  \E played \in rows["tbtagmapping"][c] :
           /\ \A t \in Tables, d \in Cards :
                /\ rows[t][d] \subseteq rows'[t][d]
                /\ \A row \in rows'[t][d] :
                     row \in rows[t][d] \/ (d = c /\ VisitOf(row) = VisitOf(played))
           /\ rows'["tbtraveler"] = rows["tbtraveler"]
  <1>1. PICK played \in rows["tbtagmapping"][c] :
          rows' = [table \in Tables |->
                     IF table \in VenueTables \cup {"tbtagpos"}
                     THEN [rows[table] EXCEPT ![c] = @ \cup {<<VisitOf(played), s>>}]
                     ELSE rows[table]]
    BY DEF Play
  <1>2. VisitOf(<<VisitOf(played), s>>) = VisitOf(played)
    BY DEF VisitOf
  <1>3. rows'["tbtraveler"] = rows["tbtraveler"]
    BY <1>1, TableNames DEF VenueTables
  <1>4. ASSUME NEW t \in Tables, NEW d \in Cards
        PROVE  /\ rows[t][d] \subseteq rows'[t][d]
               /\ \A row \in rows'[t][d] :
                    row \in rows[t][d] \/ (d = c /\ row = <<VisitOf(played), s>>)
    BY <1>1 DEF TypeOK
  <1> QED
    BY <1>2, <1>3, <1>4

(***************************************************************************)
(* The tables and the jobs.                                                *)
(***************************************************************************)

(* Rows that are deleted disturb neither the tables nor the jobs.          *)
LEMMA FewerRows ==
  ASSUME TypeOK, DatabaseInv, UNCHANGED <<visits, pending, answered>>,
         \A t \in Tables, c \in Cards : rows'[t][c] \subseteq rows[t][c]
  PROVE  DatabaseInv'
  <1>1. AnsweredKnown'
    BY DEF DatabaseInv, AnsweredKnown
  <1>2. OneVisitor'
    BY DEF DatabaseInv, OneVisitor
  <1>3. JobsOwnTheCard'
    BY JobCards DEF DatabaseInv, JobsOwnTheCard
  <1> QED
    BY <1>1, <1>2, <1>3 DEF DatabaseInv

(* A visitor who is registered by a patient desk is the only one of the    *)
(* card, and no job waits for it.                                          *)
LEMMA RegisterDatabase ==
  ASSUME TypeOK, PatientDesk, DatabaseInv, NEW c \in Cards, Register(c)
  PROVE  DatabaseInv'
  <1> USE DEF DatabaseInv
  <1>1. UNCHANGED <<pending, answered>> /\ visits' = visits + 1
    BY RegisterFacts DEF Register, serviceVars
  <1>2. AnsweredKnown'
    BY <1>1, VisitNumbers DEF AnsweredKnown
  <1>3. OneVisitor'
    <2> SUFFICES ASSUME NEW d \in Cards, NEW t \in Tables, NEW u \in Tables,
                        NEW row \in rows'[t][d], NEW other \in rows'[u][d]
                 PROVE  VisitOf(row) = VisitOf(other)
      BY DEF OneVisitor
    <2>1. CASE d = c
      BY <2>1, RegisterClean
    <2>2. CASE d # c
      BY <2>2, RegisterClean DEF OneVisitor
    <2> QED
      BY <2>1, <2>2
  <1>4. JobsOwnTheCard'
    BY <1>1, JobCards, RegisterClean DEF JobsOwnTheCard
  <1> QED
    BY <1>2, <1>3, <1>4

(* Who plays is the visitor that the mapping knows.                        *)
LEMMA PlayDatabase ==
  ASSUME TypeOK, DatabaseInv, NEW c \in Cards, NEW s \in Scenes, Play(c, s)
  PROVE  DatabaseInv'
  <1> USE DEF DatabaseInv
  <1>1. UNCHANGED <<visits, pending, answered>>
    BY DEF Play, serviceVars
  <1>2. PICK played \in rows["tbtagmapping"][c] :
          \A t \in Tables, d \in Cards : \A row \in rows'[t][d] :
            row \in rows[t][d] \/ (d = c /\ VisitOf(row) = VisitOf(played))
    BY PlayAdds
  <1>3. ASSUME NEW d \in Cards, NEW t \in Tables, NEW row \in rows'[t][d]
        PROVE  \E u \in Tables : \E old \in rows[u][d] : VisitOf(row) = VisitOf(old)
    BY <1>2, <1>3, TableNames
  <1>4. AnsweredKnown'
    BY <1>1 DEF AnsweredKnown
  <1>5. OneVisitor'
    BY <1>3 DEF OneVisitor
  <1>6. JobsOwnTheCard'
    BY <1>1, <1>3, JobCards DEF JobsOwnTheCard
  <1> QED
    BY <1>4, <1>5, <1>6

(***************************************************************************)
(* The request that is served.                                             *)
(***************************************************************************)

(* What a step of others must respect: a score that goes is one of a visit *)
(* that is spoilt or whose name is gone, and a name that is gone does not  *)
(* come back.                                                              *)
LEMMA OthersStep ==
  ASSUME TypeOK, HandlerInv,
         UNCHANGED <<lpc, cardid, loaded, named, present, troubled>>,
         spoilt \subseteq spoilt',
         \A row \in rows["tbVisitorScore"][cardid] :
           \/ row \in rows'["tbVisitorScore"][cardid]
           \/ VisitOf(row) \in spoilt'
           \/ NameGone(VisitOf(row))',
         \A v \in Nat : NameGone(v) => NameGone(v)'
  PROVE  ScoresInHand' /\ ScoreReplyIsWhole'
  <1>1. \A row \in present : VisitOf(row) \in Nat
    BY VisitNumbers
  <1>2. ASSUME lpc = "load_scores"
        PROVE  Kept(rows["tbVisitorScore"][cardid])'
    BY <1>1, <1>2 DEF HandlerInv, ScoresInHand, Kept
  <1>3. ASSUME Kept(loaded)
        PROVE  Kept(loaded)'
    BY <1>1, <1>3 DEF Kept
  <1>4. ScoresInHand'
    BY <1>2, <1>3 DEF HandlerInv, ScoresInHand
  <1>5. ScoreReplyIsWhole'
    BY DEF HandlerInv, ScoreReplyIsWhole
  <1> QED
    BY <1>4, <1>5

(* A registration is for a card whose return is not being served.          *)
LEMMA RegisterHandler ==
  ASSUME TypeOK, PatientDesk, DatabaseInv, HandlerInv, NEW c \in Cards, Register(c)
  PROVE  HandlerInv'
  <1>1. UNCHANGED <<lpc, cardid, loaded, named, present, troubled, pending,
                    answered, spoilt>>
        /\ visits' = visits + 1
    BY RegisterFacts DEF Register, requestVars, localVars, serviceVars
  <1>2. cardid \in Cards
    BY DEF TypeOK
  <1>3. \A row \in rows'["tbtraveler"][cardid] :
          row \in rows["tbtraveler"][cardid] \/ VisitOf(row) = visits + 1
    BY <1>1, <1>2, RegisterClean, TableNames
  <1>4. \A t \in Tables : \A row \in rows[t][cardid] : row \in rows'[t][cardid]
    BY <1>2, RegisterClean
  <1>5. \A v \in Nat : NameGone(v) => NameGone(v)'
    BY <1>1, <1>3, VisitNumbers DEF NameGone
  <1>6. ScoresInHand' /\ ScoreReplyIsWhole'
    BY <1>1, <1>4, <1>5, OthersStep, TableNames
  <1>7. visits + 1 \notin answered
    BY VisitNumbers DEF DatabaseInv, AnsweredKnown
  <1>8. ReturnUnderWay'
    BY <1>1, <1>3, <1>4, <1>7, TableNames DEF HandlerInv, ReturnUnderWay
  <1> QED
    BY <1>6, <1>8 DEF HandlerInv

(* Playing deletes nothing and names nobody.                               *)
LEMMA PlayHandler ==
  ASSUME TypeOK, HandlerInv, NEW c \in Cards, NEW s \in Scenes, Play(c, s)
  PROVE  HandlerInv'
  <1>1. UNCHANGED <<visits, lpc, cardid, loaded, named, present, troubled, pending,
                    answered, spoilt>>
    BY DEF Play, requestVars, localVars, serviceVars
  <1>2. cardid \in Cards
    BY DEF TypeOK
  <1>3. /\ rows'["tbtraveler"] = rows["tbtraveler"]
        /\ \A row \in rows["tbVisitorScore"][cardid] :
             row \in rows'["tbVisitorScore"][cardid]
    BY <1>2, PlayAdds, TableNames
  <1>4. \A v \in Nat : NameGone(v) => NameGone(v)'
    BY <1>1, <1>3 DEF NameGone
  <1>5. ScoresInHand' /\ ScoreReplyIsWhole'
    BY <1>1, <1>3, <1>4, OthersStep
  <1>6. ReturnUnderWay'
    BY <1>1, <1>3 DEF HandlerInv, ReturnUnderWay
  <1> QED
    BY <1>5, <1>6 DEF HandlerInv

(* Elsewhere in a request there is nothing to show.                        *)
LEMMA Elsewhere ==
  ASSUME lpc' \in {"idle", "load_activity", "useract_reply", "clear_activity"}
  PROVE  HandlerInv'
  BY DEF HandlerInv, ReturnUnderWay, ScoresInHand, ScoreReplyIsWhole

(* A handler's steps but the answer and the push leave the tables as they  *)
(* are, or with fewer rows.                                                *)
LEMMA HandledDatabase ==
  ASSUME TypeOK, DatabaseInv, Handled, answered' = answered
  PROVE  DatabaseInv'
  BY FewerRows DEF Handled, Quiet, serviceVars

(* A call of the loop that begins.                                         *)
LEMMA LoopCallsHandler ==
  ASSUME HandlerInv, LoopCalls
  PROVE  HandlerInv'
  <1>1. UNCHANGED <<rows, visits, lpc, cardid, loaded, named, present, troubled,
                    pending, answered, spoilt>>
    BY DEF LoopCalls, databaseVars, requestVars, localVars, serviceVars
  <1> QED
    BY <1>1 DEF HandlerInv, ReturnUnderWay, ScoresInHand, ScoreReplyIsWhole, Kept,
                NameGone

(* The scores that are loaded are those that are there.                    *)
LEMMA LoadScoresHandler ==
  ASSUME TypeOK, HandlerInv, LoadScores
  PROVE  HandlerInv'
  <1>1. PICK fine \in BOOLEAN :
          /\ LoopReturns("load_scores", fine, "query_credits")
          /\ loaded' = IF fine THEN rows["tbVisitorScore"][cardid] ELSE {}
          /\ UNCHANGED <<rows, named>>
    BY DEF LoadScores
  <1>2. /\ UNCHANGED <<rows, visits, cardid, present, spoilt>>
        /\ lpc = "load_scores" /\ lpc' = "query_credits"
        /\ troubled' = (troubled \/ Trouble("loop", fine))
    BY <1>1 DEF LoopReturns
  <1>3. ~ troubled' => loaded' = rows["tbVisitorScore"][cardid]
    BY <1>1, <1>2 DEF Trouble
  <1>4. Kept(rows["tbVisitorScore"][cardid])
    BY <1>2 DEF HandlerInv, ScoresInHand
  <1>5. ~ troubled' => Kept(loaded)'
    BY <1>2, <1>3, <1>4 DEF Kept, NameGone
  <1> QED
    BY <1>2, <1>5 DEF HandlerInv, ReturnUnderWay, ScoresInHand, ScoreReplyIsWhole

(* The two queries on the way to the name change nothing of that.          *)
LEMMA QueriesHandler ==
  ASSUME TypeOK, HandlerInv, NEW pc \in LoopPc, NEW next \in LoopPc,
         pc \in {"query_credits", "query_remains"},
         next \in {"query_remains", "query_name"},
         LoopReturns(pc, TRUE, next), UNCHANGED <<rows, loaded, named>>
  PROVE  HandlerInv'
  <1>1. /\ UNCHANGED <<rows, visits, cardid, present, loaded, spoilt>>
        /\ lpc = pc /\ lpc' = next
        /\ ~ troubled' => ~ troubled
    BY DEF LoopReturns
  <1>2. ~ troubled' => Kept(loaded)'
    BY <1>1 DEF HandlerInv, ScoresInHand, Kept, NameGone
  <1> QED
    BY <1>1, <1>2 DEF HandlerInv, ReturnUnderWay, ScoresInHand, ScoreReplyIsWhole

(* The name is found: whoever it is, their scores were found before.       *)
LEMMA QueryNameHandler ==
  ASSUME TypeOK, DatabaseInv, HandlerInv,
         \/ QueryName("query_name", "score_reply")
         \/ QueryName("back_name", "back_reply")
  PROVE  HandlerInv'
  <1>a. cardid \in Cards
    BY DEF TypeOK
  <1>1. ASSUME NEW pc \in LoopPc, NEW next \in LoopPc,
               LoopReturns(pc, TRUE, next),
               \E row \in rows["tbtraveler"][cardid] : named' = VisitOf(row),
               UNCHANGED <<rows, loaded>>,
               \/ pc = "query_name" /\ next = "score_reply"
               \/ pc = "back_name" /\ next = "back_reply"
        PROVE  HandlerInv'
    <2>1. PICK row \in rows["tbtraveler"][cardid] : named' = VisitOf(row)
      BY <1>1
    <2>2. /\ UNCHANGED <<rows, visits, cardid, present, loaded, pending, answered, spoilt>>
          /\ lpc = pc /\ lpc' = next
          /\ ~ troubled' => ~ troubled
      BY <1>1 DEF LoopReturns, serviceVars
    <2>3. CASE next = "score_reply"
      <3>1. ~ NameGone(named')
        BY <2>1 DEF NameGone
      <3>2. ~ troubled' => Kept(loaded)
        BY <1>1, <2>2, <2>3 DEF HandlerInv, ScoresInHand
      <3>3. ScoreReplyIsWhole'
        BY <2>2, <3>1, <3>2 DEF ScoreReplyIsWhole, Kept
      <3> QED
        BY <2>2, <2>3, <3>3 DEF HandlerInv, ReturnUnderWay, ScoresInHand
    <2>4. CASE next = "back_reply"
      <3>1. VisitOf(row) \notin answered
        BY <1>1, <2>2, <2>4 DEF HandlerInv, ReturnUnderWay
      <3>2. ASSUME NEW n \in 1 .. Len(pending[1]), pending[1][n].card = cardid
            PROVE  FALSE
        <4>1. pending[1][n].visit = VisitOf(row) /\ pending[1][n].visit \in answered
          BY <3>2, TableNames DEF DatabaseInv, JobsOwnTheCard
        <4> QED
          BY <3>1, <4>1
      <3>3. ReturnUnderWay'
        BY <2>1, <2>2, <2>4, <3>1, <3>2 DEF ReturnUnderWay
      <3> QED
        BY <2>2, <2>4, <3>3 DEF HandlerInv, ScoresInHand, ScoreReplyIsWhole
    <2> QED
      BY <1>1, <2>3, <2>4
  <1>2. ASSUME NEW pc \in LoopPc, NEW fine \in BOOLEAN, Dropped(pc, fine)
        PROVE  HandlerInv'
    BY <1>2, Elsewhere DEF Dropped, EndRequest
  <1>3. /\ "query_name" \in LoopPc /\ "score_reply" \in LoopPc
        /\ "back_name" \in LoopPc /\ "back_reply" \in LoopPc
    BY DEF LoopPc
  <1>4. CASE QueryName("query_name", "score_reply")
    BY <1>1, <1>2, <1>3, <1>4 DEF QueryName
  <1>5. CASE QueryName("back_name", "back_reply")
    BY <1>1, <1>2, <1>3, <1>5 DEF QueryName
  <1> QED
    BY <1>4, <1>5

(* "ok" is the answer for a visitor of whom no job waits.                  *)
LEMMA BackReplyDesk ==
  ASSUME TypeOK, VisitsKnown, DatabaseInv, HandlerInv, BackReply
  PROVE  DatabaseInv' /\ HandlerInv'
  <1>1. /\ UNCHANGED <<rows, visits, cardid, named, pending>>
        /\ lpc = "back_reply" /\ lpc' = "push"
        /\ answered' = answered \cup {named}
    BY DEF BackReply, databaseVars, requestVars, localVars, serviceVars
  <1>2. AnsweredKnown' /\ OneVisitor' /\ JobsOwnTheCard'
    BY <1>1 DEF DatabaseInv, AnsweredKnown, OneVisitor, JobsOwnTheCard, VisitsKnown
  <1>3. HandlerInv'
    BY <1>1 DEF HandlerInv, ReturnUnderWay, ScoresInHand, ScoreReplyIsWhole
  <1> QED
    BY <1>2, <1>3 DEF DatabaseInv

(* A request begins: the scores that it will be asked for are there, and   *)
(* a return is of a visitor who has not been answered.                     *)
LEMMA RequestHandler ==
  ASSUME PatientDesk, NEW h \in Handlers, NEW c \in Cards, NEW only \in BOOLEAN,
         Request(h, c, only)
  PROVE  HandlerInv'
  <1>1. /\ UNCHANGED <<rows, visits, pending, answered, spoilt>>
        /\ lpc' = h /\ cardid' = c /\ present' = rows["tbVisitorScore"][c]
        /\ h = "back_name" => \A row \in rows["tbtraveler"][c] : VisitOf(row) \notin answered
    BY DEF Request, databaseVars, serviceVars
  <1>2. CASE h = "load_scores"
    <2>1. Kept(rows["tbVisitorScore"][cardid])'
      BY <1>1 DEF Kept
    <2> QED
      BY <1>1, <1>2, <2>1 DEF HandlerInv, ReturnUnderWay, ScoresInHand, ScoreReplyIsWhole
  <1>3. CASE h = "back_name"
    BY <1>1, <1>3 DEF HandlerInv, ReturnUnderWay, ScoresInHand, ScoreReplyIsWhole
  <1>4. CASE h = "load_activity"
    BY <1>1, <1>4, Elsewhere
  <1> QED
    BY <1>2, <1>3, <1>4 DEF Handlers

(* Every step of a handler but the push.                                   *)
LEMMA HandlerDesk ==
  ASSUME BackCardInv, PatientDesk, DatabaseInv, HandlerInv,
         \/ LoopStep
         \/ \E h \in Handlers, c \in Cards, only \in BOOLEAN : Request(h, c, only),
         lpc # "push"
  PROVE  DatabaseInv' /\ HandlerInv'
  <1>a. TypeOK /\ VisitsKnown /\ NamedVisitor
    BY DEF BackCardInv
  <1>b. answered' = answered => DatabaseInv'
    BY <1>a, HandlerStep, HandledDatabase
  <1>c. /\ "query_credits" \in LoopPc /\ "query_remains" \in LoopPc
        /\ "query_name" \in LoopPc
    BY DEF LoopPc
  <1>d. ASSUME NEW pc, NEW fine \in BOOLEAN, Dropped(pc, fine)
        PROVE  HandlerInv' /\ answered' = answered
    BY <1>d, Elsewhere DEF Dropped, EndRequest
  <1>1. CASE LoopCalls
    BY <1>1, <1>b, LoopCallsHandler DEF LoopCalls
  <1>2. CASE LoadScores
    <2>1. answered' = answered
      BY <1>2 DEF LoadScores, LoopReturns
    <2> QED
      BY <1>2, <1>a, <1>b, <2>1, LoadScoresHandler
  <1>3. CASE QueryCredits
    <2>1. CASE \E fine \in BOOLEAN : Dropped("query_credits", fine)
      BY <2>1, <1>b, <1>d
    <2>2. CASE /\ LoopReturns("query_credits", TRUE, "query_remains")
               /\ UNCHANGED <<rows, loaded, named>>
      <3>1. answered' = answered
        BY <2>2 DEF LoopReturns
      <3> QED
        BY <2>2, <3>1, <1>a, <1>b, <1>c, QueriesHandler
    <2> QED
      BY <1>3, <2>1, <2>2 DEF QueryCredits
  <1>4. CASE QueryRemains
    <2>1. CASE \E fine \in BOOLEAN : Dropped("query_remains", fine)
      BY <2>1, <1>b, <1>d
    <2>2. CASE /\ LoopReturns("query_remains", TRUE, "query_name")
               /\ UNCHANGED <<rows, loaded, named>>
      <3>1. answered' = answered
        BY <2>2 DEF LoopReturns
      <3> QED
        BY <2>2, <3>1, <1>a, <1>b, <1>c, QueriesHandler
    <2> QED
      BY <1>4, <2>1, <2>2 DEF QueryRemains
  <1>5. CASE \/ QueryName("query_name", "score_reply")
             \/ QueryName("back_name", "back_reply")
    <2>1. answered' = answered
      BY <1>5 DEF QueryName, LoopReturns, Dropped
    <2> QED
      BY <1>5, <1>a, <1>b, <2>1, QueryNameHandler
  <1>6. CASE ScoreReply
    BY <1>6, <1>b, Elsewhere DEF ScoreReply, EndRequest
  <1>7. CASE BackReply
    BY <1>7, <1>a, BackReplyDesk
  <1>8. CASE LoadActivity
    BY <1>8, <1>b, Elsewhere DEF LoadActivity, LoopReturns
  <1>13. CASE LoadNoActivity
    BY <1>13, <1>b, Elsewhere DEF LoadNoActivity
  <1>9. CASE UseractReply
    BY <1>9, <1>b, Elsewhere DEF UseractReply, EndRequest
  <1>10. CASE ClearActivity
    BY <1>10, <1>b, Elsewhere DEF ClearActivity, EndRequest
  <1>11. CASE \E h \in Handlers, c \in Cards, only \in BOOLEAN : Request(h, c, only)
    <2>1. answered' = answered
      BY <1>11 DEF Request
    <2> QED
      BY <1>11, <1>b, <2>1, RequestHandler
  <1>12. ~ PushAjob
    BY DEF PushAjob
  <1> QED
    BY <1>1, <1>2, <1>3, <1>4, <1>5, <1>6, <1>7, <1>8, <1>9, <1>10, <1>11, <1>13, <1>12
       DEF LoopStep

(* The job that is pushed is for the one visitor of the card.              *)
LEMMA PushDesk ==
  ASSUME BackCardInv, DatabaseInv, HandlerInv, PushAjob
  PROVE  DatabaseInv' /\ HandlerInv'
  <1>1. /\ UNCHANGED <<rows, visits, answered>>
        /\ lpc = "push" /\ lpc' = "idle"
        /\ TypeOK /\ cardid \in Cards /\ named \in Visits
    BY DEF PushAjob, EndRequest, databaseVars, BackCardInv, TypeOK, NamedVisitor, Visits
  <1>2. AnsweredKnown' /\ OneVisitor'
    BY <1>1 DEF DatabaseInv, AnsweredKnown, OneVisitor
  <1>3. /\ named \in answered
        /\ \E row \in rows["tbtraveler"][cardid] : VisitOf(row) = named
    BY <1>1 DEF HandlerInv, ReturnUnderWay
  <1>4. \A t \in Tables : \A row \in rows[t][cardid] : VisitOf(row) = named
    BY <1>1, <1>3, TableNames DEF DatabaseInv, OneVisitor
  <1>5. JobsOwnTheCard'
    <2>1. CASE UNCHANGED serviceVars
      BY <1>1, <2>1 DEF serviceVars, DatabaseInv, JobsOwnTheCard
    <2>2. CASE Jobs!Accept(1, [card |-> cardid, visit |-> named])
      <3>1. PICK job \in Job : job = [card |-> cardid, visit |-> named]
        BY <1>1 DEF Job
      <3>2. pending'[1] = Append(pending[1], job) /\ pending[1] \in Seq(Job)
        BY <1>1, <2>2, <3>1, AcceptFacts DEF TypeOK
      <3>3. job.card = cardid /\ job.visit = named
        BY <3>1
      <3>4. ASSUME NEW n \in 1 .. Len(pending'[1])
            PROVE  \/ pending'[1][n] = job
                   \/ n \in 1 .. Len(pending[1]) /\ pending'[1][n] = pending[1][n]
        BY <3>2
      <3> QED
        BY <1>1, <1>3, <1>4, <3>3, <3>4 DEF DatabaseInv, JobsOwnTheCard
    <2> QED
      BY <2>1, <2>2 DEF PushAjob
  <1>6. HandlerInv'
    BY <1>1, Elsewhere
  <1> QED
    BY <1>2, <1>5, <1>6 DEF DatabaseInv

(***************************************************************************)
(* The worker.                                                             *)
(***************************************************************************)

(* The jobs that wait after a step were waiting before.                    *)
NoNewJobs ==
  \A n \in 1 .. Len(pending'[1]) :
    \E m \in 1 .. Len(pending[1]) : pending'[1][n] = pending[1][m]

(* The worker's steps take away rows and jobs and add none.                *)
LEMMA WorkerDatabase ==
  ASSUME TypeOK, DatabaseInv, UNCHANGED <<visits, answered>>, NoNewJobs,
         \A t \in Tables, c \in Cards : rows'[t][c] \subseteq rows[t][c]
  PROVE  DatabaseInv'
  <1>1. AnsweredKnown'
    BY DEF DatabaseInv, AnsweredKnown
  <1>2. OneVisitor'
    BY DEF DatabaseInv, OneVisitor
  <1>3. JobsOwnTheCard'
    <2> SUFFICES ASSUME NEW n \in 1 .. Len(pending'[1])
                 PROVE  /\ pending'[1][n].visit \in answered
                        /\ \A t \in Tables : \A row \in rows'[t][pending'[1][n].card] :
                             VisitOf(row) = pending'[1][n].visit
      BY DEF JobsOwnTheCard
    <2>1. PICK m \in 1 .. Len(pending[1]) : pending'[1][n] = pending[1][m]
      BY DEF NoNewJobs
    <2>2. /\ pending[1][m].visit \in answered
          /\ \A t \in Tables : \A row \in rows[t][pending[1][m].card] :
               VisitOf(row) = pending[1][m].visit
      BY DEF DatabaseInv, JobsOwnTheCard
    <2>3. pending[1][m].card \in Cards
      BY JobCards
    <2> QED
      BY <2>1, <2>2, <2>3
  <1> QED
    BY <1>1, <1>2, <1>3 DEF DatabaseInv

(* A deletion that begins.                                                 *)
LEMMA WorkerCallsDesk ==
  ASSUME DatabaseInv, HandlerInv, WorkerCalls
  PROVE  DatabaseInv' /\ HandlerInv'
  <1>1. UNCHANGED <<rows, visits, lpc, cardid, loaded, named, present, troubled,
                    pending, answered, spoilt>>
    BY DEF WorkerCalls, databaseVars, requestVars, localVars, serviceVars
  <1>2. DatabaseInv'
    BY <1>1 DEF DatabaseInv, AnsweredKnown, OneVisitor, JobsOwnTheCard
  <1>3. HandlerInv'
    BY <1>1 DEF HandlerInv, ReturnUnderWay, ScoresInHand, ScoreReplyIsWhole, Kept,
                NameGone
  <1> QED
    BY <1>2, <1>3

(* The worker ends.                                                        *)
LEMMA WorkerStopsDesk ==
  ASSUME TypeOK, DatabaseInv, HandlerInv, WorkerStops
  PROVE  DatabaseInv' /\ HandlerInv'
  <1>1. /\ UNCHANGED <<rows, visits, lpc, cardid, loaded, named, present, troubled,
                       answered>>
        /\ spoilt \subseteq spoilt'
    BY DEF WorkerStops, databaseVars, requestVars, localVars
  <1>2. pending'[1] = <<>>
    BY CloseFacts DEF WorkerStops
  <1>3. DatabaseInv'
    BY <1>1, <1>2, WorkerDatabase DEF NoNewJobs
  <1>4. ReturnUnderWay'
    BY <1>1, <1>2 DEF HandlerInv, ReturnUnderWay
  <1>5. \A v \in Nat : NameGone(v) => NameGone(v)'
    BY <1>1 DEF NameGone
  <1>6. ScoresInHand' /\ ScoreReplyIsWhole'
    BY <1>1, <1>5, OthersStep
  <1> QED
    BY <1>3, <1>4, <1>6 DEF HandlerInv

(* What a deletion does, for the job at hand.                              *)
LEMMA DeletionFacts ==
  ASSUME BackCardInv, WorkerDeletes
  PROVE  /\ pending[1] # <<>> /\ Current \in Job /\ Current = pending[1][1]
         /\ Len(pending[1]) \in Nat \ {0}
         /\ step \in 1 .. 5
         /\ UNCHANGED <<visits, lpc, cardid, loaded, named, present, troubled, answered>>
         /\ spoilt \subseteq spoilt'
         /\ \A t \in Tables, c \in Cards : rows'[t][c] \subseteq rows[t][c]
         /\ \A t \in Tables, c \in Cards :
              t # DeletionOrder[step] \/ c # Current.card => rows'[t][c] = rows[t][c]
         /\ NoNewJobs
  <1>0. TypeOK
    BY DEF BackCardInv
  <1>1. PICK fine \in BOOLEAN :
          /\ Leave("worker", fine)
          /\ \/ rows' = Deleted(DeletionOrder[step], Current.card)
             \/ ~ fine /\ rows' = rows
          /\ spoilt' = IF Trouble("worker", fine)
                       THEN spoilt \cup {Current.visit} ELSE spoilt
          /\ NextDeletion
          /\ UNCHANGED <<visits, credited, early, lpc, requestVars, answered>>
    BY DEF WorkerDeletes
  <1>2. call["worker"] # "none"
    BY <1>0, <1>1, LeaveFacts DEF Threads
  <1>3. pending[1] # <<>> /\ pending[1] \in Seq(Job)
    BY <1>0, <1>2 DEF AtAJob, BackCardInv, TypeOK
  <1>4. /\ Current \in Job /\ Current = pending[1][1]
        /\ Len(pending[1]) \in Nat \ {0}
    BY <1>3 DEF Current
  <1>5. Current.card \in Cards
    BY <1>4 DEF Job
  <1>6. step \in 1 .. 5 /\ DeletionOrder[step] \in Tables
    BY <1>0 DEF TypeOK, DeletionOrder, Tables, UserinfoTables, VenueTables
  <1>7. /\ \A t \in Tables, c \in Cards : rows'[t][c] \subseteq rows[t][c]
        /\ \A t \in Tables, c \in Cards :
             t # DeletionOrder[step] \/ c # Current.card => rows'[t][c] = rows[t][c]
    <2>1. CASE rows' = rows
      BY <2>1
    <2>2. CASE rows' = Deleted(DeletionOrder[step], Current.card)
      <3>1. PICK table \in Tables, card \in Cards :
              table = DeletionOrder[step] /\ card = Current.card
        BY <1>5, <1>6
      <3>2. rows' = Deleted(table, card)
        BY <2>2, <3>1
      <3>3. rows \in [Tables -> [Cards -> SUBSET Rows]]
        BY <1>0 DEF TypeOK
      <3> QED
        BY <3>1, <3>2, <3>3 DEF Deleted
    <2> QED
      BY <1>1, <2>1, <2>2
  <1>8. NoNewJobs
    <2>1. CASE UNCHANGED serviceVars
      BY <2>1 DEF NoNewJobs, serviceVars
    <2>2. CASE Jobs!Execute(1)
      <3>1. pending'[1] = Tail(pending[1])
        BY <1>0, <2>2, ExecuteFacts
      <3>2. \A n \in 1 .. Len(pending'[1]) :
              n + 1 \in 1 .. Len(pending[1]) /\ pending'[1][n] = pending[1][n + 1]
        BY <1>3, <3>1
      <3> QED
        BY <3>2 DEF NoNewJobs
    <2> QED
      BY <1>1, <2>1, <2>2 DEF NextDeletion
  <1> QED
    BY <1>1, <1>3, <1>4, <1>6, <1>7, <1>8 DEF requestVars, localVars

(* The heart of the proof: a score that is deleted is of the visit of the  *)
(* job, whose name was deleted before, or which is spoilt; and nothing of  *)
(* a return that is being served is deleted.                               *)
LEMMA WorkerDeletesDesk ==
  ASSUME BackCardInv, DatabaseInv, HandlerInv, WorkerDeletes
  PROVE  DatabaseInv' /\ HandlerInv'
  <1>0. TypeOK /\ cardid \in Cards
    BY DEF BackCardInv, TypeOK
  <1>1. /\ pending[1] # <<>> /\ Current = pending[1][1] /\ 1 \in 1 .. Len(pending[1])
        /\ step \in 1 .. 5
        /\ UNCHANGED <<visits, lpc, cardid, loaded, named, present, troubled, answered>>
        /\ spoilt \subseteq spoilt'
        /\ \A t \in Tables, c \in Cards : rows'[t][c] \subseteq rows[t][c]
        /\ \A t \in Tables, c \in Cards :
             t # DeletionOrder[step] \/ c # Current.card => rows'[t][c] = rows[t][c]
        /\ NoNewJobs
    BY DeletionFacts
  <1>2. DatabaseInv'
    BY <1>0, <1>1, WorkerDatabase
  <1>3. ReturnUnderWay'
    <2>1. lpc \in {"back_reply", "push"} =>
            /\ rows'["tbtraveler"][cardid] = rows["tbtraveler"][cardid]
            /\ \A n \in 1 .. Len(pending'[1]) : pending'[1][n].card # cardid
      <3> SUFFICES ASSUME lpc \in {"back_reply", "push"}
                   PROVE  /\ rows'["tbtraveler"][cardid] = rows["tbtraveler"][cardid]
                          /\ \A n \in 1 .. Len(pending'[1]) : pending'[1][n].card # cardid
        OBVIOUS
      <3>1. \A n \in 1 .. Len(pending[1]) : pending[1][n].card # cardid
        BY DEF HandlerInv, ReturnUnderWay
      <3>2. Current.card # cardid
        BY <1>1, <3>1
      <3> QED
        BY <1>0, <1>1, <3>1, <3>2, TableNames DEF NoNewJobs
    <2>2. \A row \in rows'["tbtraveler"][cardid] : row \in rows["tbtraveler"][cardid]
      BY <1>0, <1>1, TableNames
    <2> QED
      BY <1>1, <2>1, <2>2 DEF HandlerInv, ReturnUnderWay
  <1>4. \A v \in Nat : NameGone(v) => NameGone(v)'
    BY <1>0, <1>1, TableNames DEF NameGone
  <1>5. ASSUME NEW row \in rows["tbVisitorScore"][cardid],
               row \notin rows'["tbVisitorScore"][cardid],
               VisitOf(row) \notin spoilt'
        PROVE  NameGone(VisitOf(row))'
    <2>1. Current.card = cardid /\ DeletionOrder[step] = "tbVisitorScore"
      BY <1>0, <1>1, <1>5, TableNames
    <2>2. step = 5
      BY <1>1, <2>1 DEF DeletionOrder
    <2>3. VisitOf(row) = Current.visit
      BY <1>1, <1>5, <2>1, TableNames DEF DatabaseInv, JobsOwnTheCard
    <2>4. Current.visit \notin spoilt
      BY <1>1, <1>5, <2>3
    <2>5. Gone("tbtraveler", Current)
      <3>1. \A k \in 1 .. step - 1 : Gone(DeletionOrder[k], Current)
        BY <1>1, <2>4 DEF BackCardInv, CleanSoFar
      <3>2. 2 \in 1 .. step - 1 /\ DeletionOrder[2] = "tbtraveler"
        BY <2>2 DEF DeletionOrder
      <3> QED
        BY <3>1, <3>2 DEF Gone
    <2>6. VisitOf(row) <= visits
      BY <1>0, TableNames DEF BackCardInv, VisitsKnown
    <2> QED
      BY <1>0, <1>1, <2>1, <2>3, <2>5, <2>6, TableNames DEF Gone, NameGone
  <1>6. ScoresInHand' /\ ScoreReplyIsWhole'
    BY <1>0, <1>1, <1>4, <1>5, OthersStep
  <1> QED
    BY <1>2, <1>3, <1>6 DEF HandlerInv

(***************************************************************************)
(* The invariant, and what follows from it.                                *)
(***************************************************************************)

(* At the start every table is empty and nobody asks.                      *)
LEMMA DeskInit == ASSUME Init PROVE DeskInv
  <1>1. /\ pending[1] = <<>> /\ answered = {} /\ lpc = "idle"
        /\ \A t \in Tables, c \in Cards : rows[t][c] = {}
    BY DEF Init, Jobs!Init, Jobs!Transfers
  <1>2. AnsweredKnown /\ OneVisitor /\ JobsOwnTheCard
    BY <1>1 DEF AnsweredKnown, OneVisitor, JobsOwnTheCard
  <1>3. ReturnUnderWay /\ ScoresInHand /\ ScoreReplyIsWhole
    BY <1>1 DEF ReturnUnderWay, ScoresInHand, ScoreReplyIsWhole
  <1>4. NobodyIsEarly
    BY DEF Init, NobodyIsEarly
  <1> QED
    BY <1>2, <1>3, <1>4 DEF DeskInv

(* A patient desk waits for the return that is being served: the name of   *)
(* its visitor is still in the tables.                                     *)
LEMMA NobodyBecomesEarly ==
  ASSUME BackCardInv, PatientDesk, HandlerInv, NobodyIsEarly, [Next]_vars
  PROVE  NobodyIsEarly'
  <1>1. CASE \E c \in Cards : Register(c)
    <2>1. PICK c \in Cards : Register(c)
      BY <1>1
    <2>2. Untouched(c)
      BY <2>1 DEF Register
    <2>3. rows["tbtraveler"][c] = {}
      BY <2>2, TableNames DEF Untouched
    <2>4. ~ BeingReturned(c)
      BY <2>3 DEF BeingReturned, HandlerInv, ReturnUnderWay
    <2> QED
      BY <2>1, <2>2, <2>4 DEF Register, NobodyIsEarly
  <1>2. CASE ~ \E c \in Cards : Register(c)
    BY <1>2, OnlyRegisterIsEarly DEF NobodyIsEarly
  <1> QED
    BY <1>1, <1>2

(* Every step keeps the invariant.                                         *)
LEMMA DeskStep == BackCardInv /\ DeskInv /\ [Next]_vars => DeskInv'
  <1> SUFFICES ASSUME BackCardInv, [Next]_vars, PatientDesk, DatabaseInv, HandlerInv
               PROVE  DatabaseInv' /\ HandlerInv'
    BY NobodyBecomesEarly DEF DeskInv, DatabaseInv, HandlerInv
  <1>0. TypeOK
    BY DEF BackCardInv
  <1>1. CASE \E c \in Cards : Register(c)
    BY <1>0, <1>1, RegisterDatabase, RegisterHandler
  <1>2. CASE \E c \in Cards : \E s \in Scenes : Play(c, s)
    BY <1>0, <1>2, PlayDatabase, PlayHandler
  <1>3. CASE \E h \in Handlers, c \in Cards, only \in BOOLEAN : Request(h, c, only)
    <2>1. lpc # "push"
      BY <1>3 DEF Request
    <2> QED
      BY <1>3, <2>1, HandlerDesk
  <1>4. CASE LoopStep /\ lpc # "push"
    BY <1>4, HandlerDesk
  <1>5. CASE LoopStep /\ lpc = "push"
    <2>1. PushAjob
      BY <1>5 DEF LoopStep, LoopCalls, CallPc, LoadScores, LoopReturns,
              QueryCredits, Dropped, QueryRemains, QueryName, ScoreReply,
              BackReply, LoadActivity, LoadNoActivity, UseractReply, ClearActivity
    <2> QED
      BY <2>1, PushDesk
  <1>6. CASE WorkerCalls
    BY <1>6, WorkerCallsDesk
  <1>7. CASE WorkerDeletes
    BY <1>7, WorkerDeletesDesk
  <1>8. CASE WorkerStops
    BY <1>0, <1>8, WorkerStopsDesk
  <1>9. CASE UNCHANGED vars
    <2>1. UNCHANGED <<rows, visits, lpc, cardid, loaded, named, present, troubled,
                      pending, answered, spoilt>>
      BY <1>9 DEF vars, databaseVars, requestVars, localVars, serviceVars
    <2>2. DatabaseInv'
      BY <2>1 DEF DatabaseInv, AnsweredKnown, OneVisitor, JobsOwnTheCard
    <2>3. HandlerInv'
      BY <2>1 DEF HandlerInv, ReturnUnderWay, ScoresInHand, ScoreReplyIsWhole, Kept,
                  NameGone
    <2> QED
      BY <2>2, <2>3
  <1> QED
    BY <1>1, <1>2, <1>3, <1>4, <1>5, <1>6, <1>7, <1>8, <1>9
       DEF Next, Environment, WorkerStep

(* The card, the request that is served and the jobs that wait are of one  *)
(* visitor, as long as the desk is patient (user_backcard and              *)
(* stage_one_dojob).                                                       *)
THEOREM DeskInvHolds == Spec => []DeskInv
  <1>1. Init => DeskInv
    BY DeskInit
  <1> QED
    BY <1>1, DeskStep, BackCardInvHolds, PTL DEF Spec

(* With a patient desk: a reply of /user/score that bears the name of the  *)
(* visitor has every score that was there when the request came, though    *)
(* the job of the same card deletes them meanwhile.                        *)
THEOREM ScoreRepliesAreWhole ==
  ASSUME PatientDesk
  PROVE  Spec => []ScoreReplyIsWhole
  <1>1. DeskInv => ScoreReplyIsWhole
    BY DEF DeskInv
  <1> QED
    BY <1>1, DeskInvHolds, PTL

-----------------------------------------------------------------------------
(***************************************************************************)
(* With any desk: who was given a clean card has it alone until its        *)
(* return.                                                                 *)
(***************************************************************************)

(* Initially no card has rows.                                             *)
LEMMA AloneInit == ASSUME Init PROVE CardsHeldAlone
  BY DEF Init, CardsHeldAlone

(* The desk gives out no card that a visitor has alone; one who is not     *)
(* early gets it without rows, jobs or a return under way.                 *)
LEMMA AloneRegister ==
  ASSUME TypeOK, CardsHeldAlone, NEW c \in Cards, Register(c)
  PROVE  CardsHeldAlone'
  <1>1. /\ UNCHANGED <<lpc, cardid, named, pending, answered>>
        /\ visits' = visits + 1 /\ rows["tbtagmapping"][c] = {}
        /\ early \subseteq early'
    BY RegisterFacts DEF Register, requestVars, localVars, serviceVars
  <1>2. \A t \in Tables, d \in Cards :
          /\ rows'[t][d] \subseteq rows[t][d] \cup {<<visits', 0>>}
          /\ d # c => rows'[t][d] = rows[t][d]
    <2>1. \A t \in Tables, d \in Cards : d # c => rows'[t][d] = rows[t][d]
      BY DEF Register, TypeOK
    <2> QED
      BY <2>1, RegisterFacts
  <1>3. <<visits', 0>> \in rows'["tbtagmapping"][c] /\ VisitOf(<<visits', 0>>) = visits'
    BY <1>1, TableNames DEF Register, TypeOK, VisitOf
  <1> SUFFICES ASSUME NEW t \in Tables, NEW d \in Cards, NEW row \in rows'[t][d],
                      VisitOf(row) \notin answered, VisitOf(row) \notin early'
               PROVE  HasAlone(d, VisitOf(row))'
    BY <1>1 DEF CardsHeldAlone
  <1>4. CASE d # c
    <2>1. HasAlone(d, VisitOf(row))
      BY <1>1, <1>2, <1>4 DEF CardsHeldAlone
    <2> QED
      BY <1>1, <1>2, <1>4, <2>1, TableNames DEF HasAlone, BeingReturned
  <1>5. CASE d = c
    <2>1. row \notin rows[t][c]
      BY <1>1 DEF CardsHeldAlone, HasAlone
    <2>2. row = <<visits', 0>>
      BY <1>2, <1>5, <2>1
    <2>3. Untouched(c) /\ ~ BeingReturned(c)
      BY <1>1, <1>3, <2>2 DEF Register
    <2>4. \A u \in Tables : rows'[u][c] \subseteq {<<visits', 0>>}
      BY <1>2, <2>3 DEF Untouched
    <2> QED
      BY <1>1, <1>3, <1>5, <2>2, <2>3, <2>4 DEF HasAlone, Untouched, BeingReturned
  <1> QED
    BY <1>4, <1>5

(* Who plays with a card that is held alone is its visitor.                *)
LEMMA AlonePlay ==
  ASSUME TypeOK, CardsHeldAlone, NEW c \in Cards, NEW s \in Scenes, Play(c, s)
  PROVE  CardsHeldAlone'
  <1>1. UNCHANGED <<lpc, cardid, named, pending, answered, early>>
    BY DEF Play, requestVars, localVars, serviceVars
  <1>2. rows'["tbtagmapping"] = rows["tbtagmapping"]
    BY PlayFacts
  <1>3. PICK played \in rows["tbtagmapping"][c] :
          \A t \in Tables, d \in Cards : \A row \in rows'[t][d] :
            row \in rows[t][d] \/ (d = c /\ VisitOf(row) = VisitOf(played))
    BY PlayAdds
  <1>4. ASSUME NEW d \in Cards, NEW t \in Tables, NEW row \in rows'[t][d]
        PROVE  \E u \in Tables : \E old \in rows[u][d] : VisitOf(row) = VisitOf(old)
    BY <1>3, <1>4, TableNames
  <1> SUFFICES ASSUME NEW t \in Tables, NEW d \in Cards, NEW row \in rows'[t][d],
                      VisitOf(row) \notin answered, VisitOf(row) \notin early
               PROVE  HasAlone(d, VisitOf(row))'
    BY <1>1 DEF CardsHeldAlone
  <1>5. HasAlone(d, VisitOf(row))
    BY <1>4 DEF CardsHeldAlone
  <1>6. \A u \in Tables : \A other \in rows'[u][d] : VisitOf(other) = VisitOf(row)
    BY <1>4, <1>5 DEF HasAlone
  <1> QED
    BY <1>1, <1>2, <1>5, <1>6 DEF HasAlone, BeingReturned

(* A card is still held alone after a step that gives out no card, adds    *)
(* no row and no job, and goes on with a return of this visitor only.      *)
LEMMA AloneStays ==
  ASSUME CardsHeldAlone, UNCHANGED early, answered \subseteq answered',
         \A t \in Tables, c \in Cards : rows'[t][c] \subseteq rows[t][c],
         \A c \in Cards, v \in Nat : HasAlone(c, v) /\ v \notin answered' =>
           /\ rows'["tbtagmapping"][c] = rows["tbtagmapping"][c]
           /\ \A n \in 1 .. Len(pending'[1]) : pending'[1][n].card # c
           /\ BeingReturned(c)' => lpc' = "back_reply" /\ named' = v,
         \A t \in Tables, c \in Cards : \A row \in rows[t][c] : VisitOf(row) \in Nat
  PROVE  CardsHeldAlone'
  <1> SUFFICES ASSUME NEW t \in Tables, NEW c \in Cards, NEW row \in rows'[t][c],
                      VisitOf(row) \notin answered', VisitOf(row) \notin early
               PROVE  HasAlone(c, VisitOf(row))'
    BY DEF CardsHeldAlone
  <1>1. HasAlone(c, VisitOf(row)) /\ VisitOf(row) \in Nat
    BY DEF CardsHeldAlone
  <1>2. \A u \in Tables : \A other \in rows'[u][c] : VisitOf(other) = VisitOf(row)
    BY <1>1 DEF HasAlone
  <1> QED
    BY <1>1, <1>2, TableNames DEF HasAlone

(* The handlers leave the mapping and the jobs alone but where the job is  *)
(* pushed, and a return that is served is of the one visitor of the card.  *)
LEMMA AloneHandled ==
  ASSUME BackCardInv, CardsHeldAlone, lpc # "push",
         \/ LoopStep
         \/ \E h \in Handlers, c \in Cards, only \in BOOLEAN : Request(h, c, only)
  PROVE  CardsHeldAlone'
  <1>0. TypeOK /\ cardid \in Cards
    BY DEF BackCardInv, TypeOK
  <1>1. Handled
    BY HandlerStep DEF BackCardInv
  <1>2. /\ UNCHANGED <<early, pending>>
        /\ \A t \in Tables, c \in Cards : rows'[t][c] \subseteq rows[t][c]
    BY <1>1 DEF Handled, Quiet, serviceVars
  <1>3. rows'["tbtagmapping"] = rows["tbtagmapping"]
    <2>1. CASE ClearActivity
      BY <1>0, <2>1, TableNames DEF ClearActivity, Deleted, TypeOK
    <2>2. CASE ~ ClearActivity
      BY <2>2 DEF LoopStep, LoopCalls, LoadScores, QueryCredits, QueryRemains,
              QueryName, ScoreReply, BackReply, PushAjob, LoadActivity, LoadNoActivity,
              UseractReply, Dropped, Request, databaseVars
    <2> QED
      BY <2>1, <2>2
  <1>4. \A t \in Tables, c \in Cards : \A row \in rows[t][c] : VisitOf(row) \in Nat
    BY <1>0, VisitNumbers
  <1>5. CASE BackReply
    <2>1. /\ answered' = answered \cup {named} /\ lpc = "back_reply" /\ cardid' = cardid
      BY <1>5 DEF BackReply, requestVars
    <2>2. \A c \in Cards, v \in Nat : HasAlone(c, v) /\ v \notin answered' => c # cardid
      BY <2>1 DEF HasAlone, BeingReturned
    <2> QED
      BY <1>2, <1>3, <1>4, <2>1, <2>2, AloneStays DEF HasAlone, BeingReturned
  <1>6. CASE /\ LoopReturns("back_name", TRUE, "back_reply")
             /\ \E row \in rows["tbtraveler"][cardid] : named' = VisitOf(row)
             /\ UNCHANGED <<rows, loaded>>
    <2>1. answered' = answered /\ lpc' = "back_reply" /\ cardid' = cardid
      BY <1>6 DEF LoopReturns
    <2>2. \A v \in Nat : HasAlone(cardid, v) => named' = v
      BY <1>6, TableNames DEF HasAlone
    <2> QED
      BY <1>2, <1>3, <1>4, <2>1, <2>2, AloneStays DEF HasAlone, BeingReturned
  <1>7. CASE lpc' \notin {"back_reply", "push"} /\ answered' = answered
    BY <1>2, <1>3, <1>4, <1>7, AloneStays DEF HasAlone, BeingReturned
  <1>8. \/ BackReply
        \/ /\ LoopReturns("back_name", TRUE, "back_reply")
           /\ \E row \in rows["tbtraveler"][cardid] : named' = VisitOf(row)
           /\ UNCHANGED <<rows, loaded>>
        \/ lpc' \notin {"back_reply", "push"} /\ answered' = answered
    <2>1. CASE LoopStep
      BY <2>1 DEF LoopStep, LoopCalls, CallPc, LoadScores, LoopReturns, QueryCredits, Dropped,
              EndRequest, QueryRemains, QueryName, ScoreReply, PushAjob, LoadActivity,
              LoadNoActivity, UseractReply, ClearActivity
    <2>2. CASE \E h \in Handlers, c \in Cards, only \in BOOLEAN : Request(h, c, only)
      BY <2>2 DEF Request, Handlers
    <2> QED
      BY <2>1, <2>2
  <1> QED
    BY <1>5, <1>6, <1>7, <1>8

(* The job that is pushed is for a card whose visitor was answered.        *)
LEMMA AlonePush ==
  ASSUME BackCardInv, CardsHeldAlone, PushAjob
  PROVE  CardsHeldAlone'
  <1>0. TypeOK
    BY DEF BackCardInv
  <1>1. /\ UNCHANGED <<rows, early, answered>> /\ lpc = "push" /\ lpc' = "idle"
    BY DEF PushAjob, EndRequest, databaseVars
  <1>2. named \in Visits /\ cardid \in Cards
    BY <1>1 DEF BackCardInv, NamedVisitor, TypeOK, Visits
  <1>3. \A n \in 1 .. Len(pending'[1]) :
          \/ pending'[1][n].card = cardid
          \/ n \in 1 .. Len(pending[1]) /\ pending'[1][n] = pending[1][n]
    <2>1. CASE UNCHANGED serviceVars
      BY <2>1 DEF serviceVars
    <2>2. CASE Jobs!Accept(1, [card |-> cardid, visit |-> named])
      <3>1. PICK job \in Job : job = [card |-> cardid, visit |-> named]
        BY <1>2 DEF Job
      <3>2. pending'[1] = Append(pending[1], job) /\ pending[1] \in Seq(Job)
        BY <1>0, <2>2, <3>1, AcceptFacts DEF TypeOK
      <3> QED
        BY <3>1, <3>2
    <2> QED
      BY <2>1, <2>2 DEF PushAjob
  <1>4. \A c \in Cards, v \in Nat : HasAlone(c, v) => c # cardid
    BY <1>1 DEF HasAlone, BeingReturned
  <1>5. \A c \in Cards, v \in Nat : HasAlone(c, v) =>
          \A n \in 1 .. Len(pending'[1]) : pending'[1][n].card # c
    BY <1>3, <1>4 DEF HasAlone
  <1>6. \A t \in Tables, c \in Cards : \A row \in rows[t][c] : VisitOf(row) \in Nat
    BY <1>0, VisitNumbers
  <1> QED
    BY <1>1, <1>5, <1>6, AloneStays DEF BeingReturned

(* The worker deletes rows of cards that no visitor has alone.             *)
LEMMA AloneDeletes ==
  ASSUME BackCardInv, CardsHeldAlone, WorkerDeletes
  PROVE  CardsHeldAlone'
  <1>0. TypeOK
    BY DEF BackCardInv
  <1>1. /\ Current = pending[1][1] /\ 1 \in 1 .. Len(pending[1])
        /\ UNCHANGED <<lpc, cardid, named, answered>>
        /\ \A t \in Tables, c \in Cards : rows'[t][c] \subseteq rows[t][c]
        /\ \A t \in Tables, c \in Cards : c # Current.card => rows'[t][c] = rows[t][c]
        /\ NoNewJobs
    BY DeletionFacts
  <1>2. early' = early
    BY DEF WorkerDeletes
  <1>3. \A c \in Cards, v \in Nat : HasAlone(c, v) => c # Current.card
    BY <1>1 DEF HasAlone
  <1>4. \A c \in Cards, v \in Nat : HasAlone(c, v) =>
          \A n \in 1 .. Len(pending'[1]) : pending'[1][n].card # c
    BY <1>1 DEF HasAlone, NoNewJobs
  <1>5. \A t \in Tables, c \in Cards : \A row \in rows[t][c] : VisitOf(row) \in Nat
    BY <1>0, VisitNumbers
  <1>6. \A c \in Cards, v \in Nat : HasAlone(c, v) /\ BeingReturned(c)' =>
          lpc' = "back_reply" /\ named' = v
    BY <1>1 DEF HasAlone, BeingReturned
  <1> QED
    BY <1>1, <1>2, <1>3, <1>4, <1>5, <1>6, AloneStays, TableNames

(* Every step keeps the cards of those who are not early.                  *)
LEMMA AloneStep == BackCardInv /\ CardsHeldAlone /\ [Next]_vars => CardsHeldAlone'
  <1> SUFFICES ASSUME BackCardInv, CardsHeldAlone, [Next]_vars
               PROVE  CardsHeldAlone'
    OBVIOUS
  <1>0. TypeOK
    BY DEF BackCardInv
  <1>1. CASE \E c \in Cards : Register(c)
    BY <1>0, <1>1, AloneRegister
  <1>2. CASE \E c \in Cards : \E s \in Scenes : Play(c, s)
    BY <1>0, <1>2, AlonePlay
  <1>3. CASE \E h \in Handlers, c \in Cards, only \in BOOLEAN : Request(h, c, only)
    <2>1. lpc # "push"
      BY <1>3 DEF Request
    <2> QED
      BY <1>3, <2>1, AloneHandled
  <1>4. CASE LoopStep /\ lpc # "push"
    BY <1>4, AloneHandled
  <1>5. CASE LoopStep /\ lpc = "push"
    <2>1. PushAjob
      BY <1>5 DEF LoopStep, LoopCalls, CallPc, LoadScores, LoopReturns,
              QueryCredits, Dropped, QueryRemains, QueryName, ScoreReply,
              BackReply, LoadActivity, LoadNoActivity, UseractReply, ClearActivity
    <2> QED
      BY <2>1, AlonePush
  <1>6. CASE WorkerDeletes
    BY <1>6, AloneDeletes
  <1>7. CASE WorkerCalls \/ WorkerStops \/ UNCHANGED vars
    <2>1. /\ UNCHANGED <<rows, early, answered, lpc, cardid, named>>
          /\ \/ UNCHANGED pending
             \/ pending'[1] = <<>>
      BY <1>0, <1>7, CloseFacts DEF WorkerCalls, WorkerStops, vars, databaseVars, requestVars,
                              localVars, serviceVars
    <2> QED
      BY <2>1 DEF CardsHeldAlone, HasAlone, BeingReturned
  <1> QED
    BY <1>1, <1>2, <1>3, <1>4, <1>5, <1>6, <1>7 DEF Next, Environment, WorkerStep

(* A step takes away rows of those who were answered or early only, or is  *)
(* the deletion that a useract request is for.                             *)
DeletesReturned ==
  \A table \in Tables : \A c \in Cards :
    \A row \in rows[table][c] \ rows'[table][c] :
      \/ VisitOf(row) \in answered \cup early
      \/ lpc = "clear_activity" /\ table = "tbVisitorActivity" /\ c = cardid

(* What DeletesReturned says is so of every step.                          *)
LEMMA StepDeletesReturned ==
  ASSUME BackCardInv, CardsHeldAlone, [Next]_vars
  PROVE  DeletesReturned
  <1>0. TypeOK
    BY DEF BackCardInv
  <1>1. CASE \E c \in Cards : Register(c)
    BY <1>0, <1>1 DEF DeletesReturned, Register, TypeOK
  <1>2. CASE \E c \in Cards : \E s \in Scenes : Play(c, s)
    BY <1>0, <1>2, PlayAdds DEF DeletesReturned
  <1>3. CASE WorkerDeletes
    <2> SUFFICES ASSUME NEW t \in Tables, NEW c \in Cards,
                        NEW row \in rows[t][c] \ rows'[t][c]
                 PROVE  VisitOf(row) \in answered \cup early
      BY DEF DeletesReturned
    <2>1. c = Current.card /\ Current = pending[1][1] /\ 1 \in 1 .. Len(pending[1])
      BY <1>3, DeletionFacts
    <2> QED
      BY <2>1 DEF CardsHeldAlone, HasAlone
  <1>4. CASE ClearActivity
    <2>1. cardid \in Cards /\ rows \in [Tables -> [Cards -> SUBSET Rows]]
      BY <1>0 DEF TypeOK
    <2>2. lpc = "clear_activity"
          /\ (rows' = Deleted("tbVisitorActivity", cardid) \/ rows' = rows)
      BY <1>4 DEF ClearActivity
    <2>3. CASE rows' = rows
      BY <2>3 DEF DeletesReturned
    <2>4. CASE rows' = Deleted("tbVisitorActivity", cardid)
      BY <2>1, <2>2, <2>4, TableNames DEF DeletesReturned, Deleted
    <2> QED
      BY <2>2, <2>3, <2>4
  <1>5. CASE UNCHANGED rows
    BY <1>5 DEF DeletesReturned
  <1>6. CASE LoopStep /\ ~ ClearActivity
    <2>1. UNCHANGED rows
      BY <1>6 DEF LoopStep, LoopCalls, LoadScores, QueryCredits, QueryRemains,
              QueryName, ScoreReply, BackReply, PushAjob, LoadActivity, LoadNoActivity,
              UseractReply, Dropped, databaseVars
    <2> QED
      BY <1>5, <2>1
  <1>7. CASE \/ \E h \in Handlers, c \in Cards, only \in BOOLEAN : Request(h, c, only)
             \/ WorkerCalls \/ WorkerStops \/ UNCHANGED vars
    BY <1>5, <1>7 DEF Request, WorkerCalls, WorkerStops, vars, databaseVars
  <1> QED
    BY <1>1, <1>2, <1>3, <1>4, <1>6, <1>7 DEF Next, Environment, WorkerStep

(* Whatever the desk does: who was given a clean card has it alone until   *)
(* its return is answered (user_backcard, stage_one_dojob).                *)
THEOREM CardsAreHeldAlone == Spec => []CardsHeldAlone
  <1>1. Init => CardsHeldAlone
    BY AloneInit
  <1> QED
    BY <1>1, AloneStep, BackCardInvHolds, PTL DEF Spec

(* Whatever the desk does: nothing is deleted but rows of a visit whose    *)
(* return was answered, or that was given the card before the last return  *)
(* was over, and the activities that a useract request deletes.            *)
THEOREM DeletionsAreOfReturned == Spec => OnlyReturnedRowsDeleted
  <1>1. BackCardInv /\ CardsHeldAlone /\ [Next]_vars => [DeletesReturned]_vars
    BY StepDeletesReturned
  <1>2. OnlyReturnedRowsDeleted <=> [][DeletesReturned]_vars
    BY DEF OnlyReturnedRowsDeleted, DeletesReturned
  <1> QED
    BY <1>1, <1>2, CardsAreHeldAlone, BackCardInvHolds, PTL DEF Spec
=============================================================================
