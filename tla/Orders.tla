------------------------------- MODULE Orders -------------------------------
(***************************************************************************)
(* The handlers of orderquery.c with what they use of httpquery_helper.c   *)
(* and dbaccess.c: query, add, delete and change the orders of one of two  *)
(* tables.  The handlers for settled and for unsettled orders differ in    *)
(* the name of the table and in the columns oper and opertime.             *)
(*                                                                         *)
(* The event loop runs one handler at a time; the steps of one request are *)
(* those between which it may fail.  A crash ends the program: strcpy_s    *)
(* does so for a NULL string, and the write to what strrchr has not found. *)
(***************************************************************************)
EXTENDS Integers, Sequences, SequencesExt

CONSTANTS
  Digits,      \* values that are numerals: SQL reads them without quotes
  Words,       \* other values: without quotes, the name of a column
  Objects,     \* the members of the JSON objects, or fields of the queries, that are sent
  Rows,        \* the orders that other programs have put into each table, by row numbers
  MaxRequests, \* bound: requests
  MaxElements     \* bound: elements of the JSON array of an addition

Tables == {"tbUnsettledOrder", "tbSettledOrder"}

(* "orderdate" stands for the fields whose column has another name         *)
(* (ordertime), such as cardid, telephone, team or operator.               *)
Fields == {"orderno", "username", "orderdate"}
Columns == {"orderno", "username"}

(* A JSON value without a valuestring (a number, say) is "NULL".           *)
Values == Digits \cup Words \cup {""}
JsonValues == Values \cup {"NULL"}

ASSUME OrdersAssumption ==
  /\ \A object \in Objects :
       DOMAIN object \subseteq Fields /\ \A f \in DOMAIN object : object[f] \in JsonValues
  /\ Rows \in [DOMAIN Rows -> [Columns -> Values]]
  /\ DOMAIN Rows \subseteq Nat \ {0}
  /\ \E n \in DOMAIN Rows \cup {0} : \A k \in DOMAIN Rows : k <= n
  /\ MaxRequests \in Nat /\ MaxElements \in Nat

(* What is not an object has no members.  The fields of a query are texts. *)
Queries == {q \in Objects : \A f \in DOMAIN q : q[f] # "NULL"}

(* A body that is missing or does not parse has nothing in it.  The root   *)
(* of an addition is an array of elements, or an object: then its members  *)
(* are taken for elements, and none of them is an object with fields.      *)
Additions ==
  {<<"none", <<>>>>, <<"bad", <<>>>>}
  \cup {<<"array", items>> : items \in BoundedSeq(Objects, MaxElements)}
  \cup {<<"object", [k \in 1 .. n |-> <<>>]>> : n \in 0 .. MaxElements}

Updates ==
  {<<"none", <<>>>>, <<"bad", <<>>>>}
  \cup {<<"object", parts>> : parts \in UNION {[S -> Objects] : S \in SUBSET {"where", "set"}}}

Requests ==
  [op : {"get", "del"}, table : Tables, query : Queries]
  \cup {[op |-> "add", table |-> t, body |-> a[1], items |-> a[2]] : t \in Tables, a \in Additions}
  \cup {[op |-> "mod", table |-> t, body |-> u[1], parts |-> u[2]] : t \in Tables, u \in Updates}

VARIABLES
  or_table,   \* the rows of each table, each under a number that it keeps
  or_pc,      \* where the handler stands; "down" when the program has crashed
  or_req,     \* the request
  or_before,  \* history: the tables when the request came in
  or_orders,  \* orders[], the rows to be inserted
  or_held,    \* what is allocated
  or_reply,   \* the answer, or "none"
  or_served   \* the number of requests so far

ordersVars == <<or_table, or_pc, or_req, or_before, or_orders, or_held, or_reply, or_served>>

NoRequest == [op |-> "none"]

OrdersInit ==
  /\ or_table = [t \in Tables |-> Rows]
  /\ or_before = or_table
  /\ or_pc = "idle" /\ or_req = NoRequest
  /\ or_orders = <<>> /\ or_held = {} /\ or_reply = "none" /\ or_served = 0

-----------------------------------------------------------------------------
Crash ==
  /\ or_pc' = "down"
  /\ UNCHANGED <<or_table, or_req, or_before, or_orders, or_held, or_reply, or_served>>

(* the error paths free nothing *)
RespondOnly(reply, freed) ==
  /\ or_pc' = "done"
  /\ or_reply' = reply
  /\ UNCHANGED <<or_table, or_req, or_before, or_orders, or_held, or_served>>

(* http_response_error and http_response_ok; what is in freed is given     *)
(* back before the handler returns.                                        *)
Respond(reply, freed) ==
  /\ or_pc' = "done"
  /\ or_reply' = reply
  /\ or_held' = or_held \ freed
  /\ UNCHANGED <<or_table, or_req, or_before, or_orders, or_served>>

Receive(req) ==
  /\ or_pc = "idle"
  /\ or_served < MaxRequests /\ or_served' = or_served + 1
  /\ or_req' = req
  /\ or_pc' = IF req.op \in {"add", "mod"} THEN "read" ELSE "check"
  /\ or_before' = or_table
  /\ UNCHANGED <<or_table, or_orders, or_held, or_reply>>

(* http_request_body and cJSON_Parse.                                      *)
ReadBody ==
  /\ or_pc = "read"
  /\ IF or_req.body \in {"none", "bad"}
     THEN Respond("error", {})
     ELSE /\ or_held' = or_held \cup {"reqbody", "jroot"}
          /\ or_pc' = "check"
          /\ UNCHANGED <<or_table, or_req, or_before, or_orders, or_reply, or_served>>

-----------------------------------------------------------------------------
(* sqlpartstr_fromjson and sqlpartstr_fromquery: the fields that have a    *)
(* value, as "field=value", without quotes.  If there is none the end of   *)
(* the text is looked for in vain and written to nevertheless.             *)
Part(object) ==
  [f \in {g \in DOMAIN object : object[g] \notin {"", "NULL"}} |-> object[f]]

(* MySQL (external) knows neither the column nor the word without quotes.  *)
Understood(part) == \A f \in DOMAIN part : f \in Columns /\ part[f] \in Digits

Matches(row, part) == \A f \in DOMAIN part : row[f] = part[f]

(* The order of an element: _jparse_unsettledorder copies the members it   *)
(* finds, orderno not among them.                                          *)
_jparse_order(object) ==
  [c \in Columns |-> IF c \in DOMAIN object \ {"orderno"} THEN object[c] ELSE ""]

Copied(object) == {object[f] : f \in DOMAIN object \ {"orderno"}}

(* An addition of nothing is refused, and jroot is not freed.              *)
AddNothing ==
  /\ or_pc = "check" /\ or_req.op = "add"
  /\ or_req.items = <<>>
  /\ Respond("error", {"reqbody"})

(* the orders that could be read are kept *)
ParseOrdersOneByOne ==
  /\ or_pc = "check" /\ or_req.op = "add"
  /\ or_req.items # <<>>
  /\ or_orders' = SelectSeq([k \in DOMAIN or_req.items |-> _jparse_order(or_req.items[k])],
                            LAMBDA row : row.username # "NULL")
  /\ or_held' = or_held \cup {"orders"}
  /\ or_pc' = "query"
  /\ UNCHANGED <<or_table, or_req, or_before, or_reply, or_served>>

ParseOrders ==
  /\ or_pc = "check" /\ or_req.op = "add"
  /\ or_req.items # <<>>
  /\ IF \E k \in DOMAIN or_req.items : "NULL" \in Copied(or_req.items[k])
     THEN Crash
     ELSE /\ or_orders' = [k \in DOMAIN or_req.items |-> _jparse_order(or_req.items[k])]
          /\ or_held' = or_held \cup {"orders"}
          /\ or_pc' = "query"
          /\ UNCHANGED <<or_table, or_req, or_before, or_reply, or_served>>

(* A deletion names the order, and may name a user.                        *)
Named(query) == "orderno" \in DOMAIN query

CheckDelete ==
  /\ or_pc = "check" /\ or_req.op = "del"
  /\ IF ~ Named(or_req.query)
     THEN Respond("error", {})
     ELSE /\ or_pc' = "query"
          /\ UNCHANGED <<or_table, or_req, or_before, or_orders, or_held, or_reply, or_served>>

CheckGet ==
  /\ or_pc = "check" /\ or_req.op = "get"
  /\ IF DOMAIN Part(or_req.query) = {} THEN Crash
     ELSE /\ or_pc' = "query"
          /\ UNCHANGED <<or_table, or_req, or_before, or_orders, or_held, or_reply, or_served>>

CheckUpdate ==
  /\ or_pc = "check" /\ or_req.op = "mod"
  /\ IF DOMAIN or_req.parts # {"where", "set"}
     THEN Respond("error", {"reqbody", "jroot"})
     ELSE IF DOMAIN Part(or_req.parts["where"]) = {} THEN Crash
          ELSE /\ or_pc' = "query"
               /\ UNCHANGED <<or_table, or_req, or_before, or_orders, or_held, or_reply, or_served>>

-----------------------------------------------------------------------------
(* The statements.  An INSERT has its values in quotes; the new rows get   *)
(* numbers behind all others.                                              *)
Top(rows) == CHOOSE n \in DOMAIN rows \cup {0} : \A k \in DOMAIN rows : k <= n

Appended(rows, orders) ==
  [k \in DOMAIN rows \cup {Top(rows) + i : i \in DOMAIN orders} |->
     IF k \in DOMAIN rows THEN rows[k] ELSE orders[k - Top(rows)]]

Insert(rows) == Appended(rows, or_orders)

(* The deletion looks at two of the fields.                                *)
Key(query) == [f \in DOMAIN query \cap Columns |-> query[f]]

Delete(rows, part) == [k \in {n \in DOMAIN rows : ~ Matches(rows[n], part)} |-> rows[k]]

Update(rows, set, where) ==
  [k \in DOMAIN rows |->
     IF Matches(rows[k], where)
     THEN [f \in DOMAIN rows[k] |-> IF f \in DOMAIN set THEN set[f] ELSE rows[k][f]]
     ELSE rows[k]]

(* Both parts of an update are built from jwhere.                          *)
SetPart == Part(or_req.parts["where"])
WherePart == Part(or_req.parts["where"])

(* What the statement makes of the rows, {} if MySQL does not understand   *)
(* it.  SELECT (a,b,..) is not understood: the list is one operand.  A     *)
(* deletion without a user name is "DELETE FROM tb..Orderwhere orderno=",  *)
(* and then what %s makes of an argument that is not there.                *)
Statement(rows) ==
  CASE or_req.op = "get" -> {}
    [] or_req.op = "add" -> {Insert(rows)}
    [] or_req.op = "del" ->
         IF "username" \in DOMAIN or_req.query /\ Understood(Key(or_req.query))
         THEN {Delete(rows, Key(or_req.query))} ELSE {}
    [] or_req.op = "mod" ->
         IF Understood(WherePart) THEN {Update(rows, SetPart, WherePart)} ELSE {}

NoArgument == or_req.op = "del" /\ "username" \notin DOMAIN or_req.query

(* What the handler frees at its end, and what it has told the client.     *)
Outcome(ok) == IF ok THEN "success" ELSE "failed"

Cleared == {"reqbody", "jroot", "orders"}

Finish(ok) ==
  /\ or_reply' = Outcome(ok)
  /\ or_held' = or_held \ Cleared
  /\ or_orders' = <<>>
  /\ or_pc' = "done"
  /\ UNCHANGED <<or_req, or_before, or_served>>

Query ==
  /\ or_pc = "query"
  /\ \E rows \in Statement(or_table[or_req.table]) :
       /\ or_table' = [or_table EXCEPT ![or_req.table] = rows]
       /\ Finish(TRUE)

(* mysql_real_query reports an error: there is no session (dbinst is NULL: *)
(* the two buffers of db_save_* are left behind), the statement is wrong,  *)
(* or the connection breaks before or after the server has run it.         *)
NoSession ==
  /\ or_pc = "query"
  /\ or_reply' = Outcome(FALSE)
  /\ or_held' = (or_held \ Cleared)
                \cup (IF or_req.op = "add" THEN {"sql"} ELSE {})
  /\ or_orders' = <<>>
  /\ or_pc' = "done"
  /\ UNCHANGED <<or_table, or_req, or_before, or_served>>

QueryFails ==
  /\ or_pc = "query"
  /\ UNCHANGED or_table
  /\ Finish(FALSE)

AnswerLost ==
  /\ or_pc = "query"
  /\ \E rows \in Statement(or_table[or_req.table]) :
       or_table' = [or_table EXCEPT ![or_req.table] = rows]
  /\ Finish(FALSE)

PrintsGarbage == or_pc = "query" /\ NoArgument /\ Crash

Return ==
  /\ or_pc = "done"
  /\ or_pc' = "idle"
  /\ or_req' = NoRequest /\ or_reply' = "none"
  /\ or_before' = or_table
  /\ UNCHANGED <<or_table, or_orders, or_held, or_served>>

OrdersNext ==
  \/ \E req \in Requests : Receive(req)
  \/ ReadBody \/ AddNothing \/ ParseOrders \/ CheckDelete \/ CheckGet \/ CheckUpdate
  \/ Query \/ NoSession \/ QueryFails \/ AnswerLost \/ PrintsGarbage
  \/ Return

OrdersSpec == OrdersInit /\ [][OrdersNext]_ordersVars

-----------------------------------------------------------------------------
Handled == or_pc \in {"done", "down"}

(* What dbaccess.h says of additions and deletions: one order for each     *)
(* element of the array; the orders with the number and the user name.     *)
Promised(rows) ==
  CASE or_req.op = "add" -> Appended(rows, [k \in DOMAIN or_req.items |-> _jparse_order(or_req.items[k])])
    [] or_req.op = "del" ->
         LET query == or_req.query
             kept == {k \in DOMAIN rows : \E f \in DOMAIN query \cap Columns : rows[k][f] # query[f]}
         IN  [k \in kept |-> rows[k]]
    [] OTHER -> rows

(* A request does all it promises or nothing: a crash in the middle of the *)
(* orders saves none of them, "success" is not said of less than all, and  *)
(* "failed" or "error" leave at most the whole. No request touches the     *)
(* other table.                                                            *)
OrdersAllOrNothing ==
  Handled =>
    /\ \A t \in Tables \ {or_req.table} : or_table[t] = or_before[t]
    /\ LET now == or_table[or_req.table]
           then == or_before[or_req.table]
       IN  /\ or_reply = "success" => now = Promised(then)
           /\ or_reply = "failed" => now \in {then, Promised(then)}
           /\ or_reply \in {"error", "none"} => now = then

(* Each way out of a handler frees what it has taken, but for two: an      *)
(* empty array leaves its tree behind, and an addition without a session   *)
(* the buffers of its statement.                                           *)
HandlersFree == or_pc \in {"idle", "done"} => or_held \subseteq {"jroot", "sql"}
=============================================================================
