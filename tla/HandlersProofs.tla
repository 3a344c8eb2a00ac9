--------------------------- MODULE HandlersProofs ---------------------------
(***************************************************************************)
(* What a handler is made of, for every number of rows and requests and    *)
(* all that a client can send: the handlers of the orders, those of the    *)
(* cards, the scores of a visitor, the growing buffer and the replies.     *)
(***************************************************************************)
EXTENDS Handlers, BasicFacts

(* What the columns of a row of an order may hold.                         *)
Row == [Columns -> JsonValues]

(* Rows under numbers from 1 on, one of which is the last.                 *)
IsTable(rows) ==
  /\ rows \in [DOMAIN rows -> Row]
  /\ DOMAIN rows \subseteq Nat \ {0}
  /\ \E n \in DOMAIN rows \cup {0} : \A k \in DOMAIN rows : k <= n

(* What OrdersAllOrNothing says of a request that has been handled.        *)
AllOrNothing ==
    /\ \A t \in Tables \ {or_req.table} : or_table[t] = or_before[t]
    /\ LET now == or_table[or_req.table]
           then == or_before[or_req.table]
       IN  /\ or_reply = "success" => now = Promised(then)
           /\ or_reply = "failed" => now \in {then, Promised(then)}
           /\ or_reply \in {"error", "none"} => now = then

(* What may still be allocated when a handler waits for its next step.     *)
Left == {"jroot", "sql"}

(* What a handler that stands at pc holds.                                 *)
HeldAt(pc) ==
  CASE pc = "check" -> IF or_req.op \in {"add", "mod"} THEN Left \cup {"reqbody"} ELSE Left
    [] pc = "query" -> IF or_req.op = "add" THEN Left \cup Cleared
                       ELSE IF or_req.op = "mod" THEN Left \cup {"reqbody"} ELSE Left
    [] OTHER -> Left

(* The tables stay tables; until its statement is run a request has        *)
(* changed nothing, and what it is about to insert are its elements, one   *)
(* by one.                                                                 *)
OrdersInv ==
  /\ DOMAIN or_table = Tables /\ DOMAIN or_before = Tables
  /\ or_table = [t \in Tables |-> or_table[t]] /\ or_before = [t \in Tables |-> or_before[t]]
  /\ \A t \in Tables : IsTable(or_table[t]) /\ IsTable(or_before[t])
  /\ or_pc \in {"idle", "read", "check", "query", "done", "down"}
  /\ IF or_pc = "idle" THEN or_req = NoRequest ELSE or_req \in Requests
  /\ or_pc # "done" => or_table = or_before /\ or_reply = "none"
  /\ or_pc = "done" => AllOrNothing
  /\ or_pc = "read" => or_req.op \in {"add", "mod"}
  /\ or_pc = "query" /\ or_req.op = "add" =>
       or_orders = [k \in DOMAIN or_req.items |-> _jparse_order(or_req.items[k])]
  /\ or_pc = "query" /\ or_req.op = "add" =>
       \A k \in DOMAIN or_req.items : "NULL" \notin Copied(or_req.items[k])
  /\ or_pc = "query" /\ or_req.op = "mod" => DOMAIN or_req.parts = {"where", "set"}

(* A handler holds no more than what it has taken on its way.              *)
HeldInv == or_pc # "down" => or_held \subseteq HeldAt(or_pc)

(* Top is the number of the last row, so that an order that is added       *)
(* replaces none and every element has a row of its own.                   *)
LEMMA TopIsLast ==
  ASSUME NEW rows, IsTable(rows)
  PROVE  Top(rows) \in Nat /\ \A k \in DOMAIN rows : k <= Top(rows)
BY DEF IsTable, Top

(* An insertion keeps each row under its number and adds one row for each  *)
(* order.                                                                  *)
LEMMA AppendedAdds ==
  ASSUME NEW rows, IsTable(rows), NEW n \in Nat, NEW orders \in [1 .. n -> Row]
  PROVE  /\ \A k \in DOMAIN rows : k \in DOMAIN Appended(rows, orders) /\ Appended(rows, orders)[k] = rows[k]
         /\ \A i \in 1 .. n : /\ Top(rows) + i \in DOMAIN Appended(rows, orders) \ DOMAIN rows
                              /\ Appended(rows, orders)[Top(rows) + i] = orders[i]
         /\ IsTable(Appended(rows, orders))
<1> DEFINE top == Top(rows)
<1>1. top \in Nat /\ \A k \in DOMAIN rows : k \in Nat \ {0} /\ k <= top
  BY TopIsLast DEF IsTable
<1> HIDE DEF top
<1>2. Appended(rows, orders) = [k \in DOMAIN rows \cup {top + i : i \in 1 .. n} |->
                              IF k \in DOMAIN rows THEN rows[k] ELSE orders[k - top]]
  BY DEF Appended, top
<1> DEFINE new == Appended(rows, orders)
<1> HIDE DEF new
<1>3. \A i \in 1 .. n : top + i \notin DOMAIN rows /\ (top + i) - top = i
  BY <1>1
<1>4. \A k \in DOMAIN rows : k \in DOMAIN new /\ new[k] = rows[k]
  BY <1>2 DEF new
<1>5. \A i \in 1 .. n : top + i \in DOMAIN new \ DOMAIN rows /\ new[top + i] = orders[i]
  BY <1>2, <1>3 DEF new
<1>6. DOMAIN new = DOMAIN rows \cup {top + i : i \in 1 .. n} /\ new = [k \in DOMAIN new |-> new[k]]
  BY <1>2 DEF new
<1>7. \A k \in DOMAIN new : new[k] \in Row
  BY <1>4, <1>5, <1>6 DEF IsTable
<1>8. DOMAIN new \subseteq Nat \ {0} /\ \A k \in DOMAIN new : k <= top + n
  BY <1>1, <1>6
<1>9. \E m \in DOMAIN new \cup {0} : \A k \in DOMAIN new : k <= m
  <2> DEFINE D == DOMAIN new
  <2>1. D \subseteq Nat /\ (\A k \in D : k <= top + n) /\ top + n \in Nat
    BY <1>1, <1>8
  <2> HIDE DEF D
  <2> QED  BY <2>1, LargestOf DEF D
<1>10. new \in [DOMAIN new -> Row]
  BY <1>6, <1>7
<1>11. IsTable(new)
  BY <1>8, <1>9, <1>10 DEF IsTable
<1> QED  BY <1>4, <1>5, <1>11 DEF new, top

(* The rows that are left when some are taken out are a table.             *)
LEMMA RestrictionIsTable ==
  ASSUME NEW rows, IsTable(rows), NEW D, D \subseteq DOMAIN rows
  PROVE  IsTable([k \in D |-> rows[k]])
<1> DEFINE new == [k \in D |-> rows[k]]
<1>1. DOMAIN new = D
  OBVIOUS
<1>2. new \in [D -> Row] /\ D \subseteq Nat \ {0}
  BY DEF IsTable
<1>3. PICK m \in Nat : \A k \in D : k <= m
  BY DEF IsTable
<1>4. \E n \in D \cup {0} : \A k \in D : k <= n
  BY <1>2, <1>3, LargestOf
<1> QED  BY <1>1, <1>2, <1>4 DEF IsTable

(* An update keeps the rows and their columns; one that sets what it       *)
(* selects by, as both parts of the code's update are the same, changes    *)
(* nothing.                                                                *)
LEMMA UpdateIsTable ==
  ASSUME NEW rows, IsTable(rows), NEW part,
         \A f \in DOMAIN part : f \in Columns /\ part[f] \in JsonValues
  PROVE  Update(rows, part, part) = rows
<1>1. ASSUME NEW k \in DOMAIN rows, Matches(rows[k], part)
      PROVE  [f \in DOMAIN rows[k] |-> IF f \in DOMAIN part THEN part[f] ELSE rows[k][f]] = rows[k]
  BY <1>1 DEF Matches, IsTable, Row
<1>2. Update(rows, part, part) = [k \in DOMAIN rows |-> rows[k]]
  BY <1>1 DEF Update
<1> QED  BY <1>2 DEF IsTable

(* What a request has in it, for each kind.                                *)
LEMMA RequestShape ==
  ASSUME NEW req \in Requests
  PROVE  /\ req.op \in {"get", "del", "add", "mod"} /\ req.table \in Tables
         /\ req.op \in {"get", "del"} => req.query \in Queries
         /\ req.op = "mod" => DOMAIN req.parts \subseteq {"where", "set"}
                              /\ \A part \in DOMAIN req.parts : req.parts[part] \in Objects
         /\ req.op = "add" =>
              \E n \in Nat : /\ DOMAIN req.items = 1 .. n
                             /\ \A k \in 1 .. n : req.items[k] \in Objects \cup {<<>>}
<1>1. CASE req \in [op : {"get", "del"}, table : Tables, query : Queries]
  BY <1>1
<1>2. CASE \E t \in Tables, a \in Additions : req = [op |-> "add", table |-> t, body |-> a[1], items |-> a[2]]
  <2> PICK t \in Tables, a \in Additions : req = [op |-> "add", table |-> t, body |-> a[1], items |-> a[2]]
    BY <1>2
  <2>1. CASE a \in {<<"none", <<>>>>, <<"bad", <<>>>>}
    <3>1. req.items = <<>> /\ req.op = "add" /\ req.table \in Tables
      BY <2>1
    <3>2. DOMAIN <<>> = 1 .. 0
      OBVIOUS
    <3> QED  BY <3>1, <3>2
  <2>2. CASE \E items \in BoundedSeq(Objects, MaxElements) : a = <<"array", items>>
    <3> PICK items \in BoundedSeq(Objects, MaxElements) : a = <<"array", items>>
      BY <2>2
    <3>1. PICK n \in 0 .. MaxElements : items \in [1 .. n -> Objects]
      BY DEF BoundedSeq, SeqOf
    <3>2. req.items = items /\ req.op = "add" /\ req.table \in Tables /\ n \in Nat
      BY OrdersAssumption
    <3> QED  BY <3>1, <3>2
  <2>3. CASE \E n \in 0 .. MaxElements : a = <<"object", [k \in 1 .. n |-> <<>>]>>
    BY <2>3, OrdersAssumption
  <2> QED  BY <2>1, <2>2, <2>3 DEF Additions
<1>3. CASE \E t \in Tables, u \in Updates : req = [op |-> "mod", table |-> t, body |-> u[1], parts |-> u[2]]
  <2> PICK t \in Tables, u \in Updates : req = [op |-> "mod", table |-> t, body |-> u[1], parts |-> u[2]]
    BY <1>3
  <2>1. CASE u \in {<<"none", <<>>>>, <<"bad", <<>>>>}
    BY <2>1
  <2>2. CASE \E parts \in UNION {[S -> Objects] : S \in SUBSET {"where", "set"}} : u = <<"object", parts>>
    <3> PICK parts \in UNION {[S -> Objects] : S \in SUBSET {"where", "set"}} : u = <<"object", parts>>
      BY <2>2
    <3>1. req.parts = parts /\ req.op = "mod" /\ req.table \in Tables
      OBVIOUS
    <3> QED  BY <3>1
  <2> QED  BY <2>1, <2>2 DEF Updates
<1> QED  BY <1>1, <1>2, <1>3 DEF Requests

(* What is copied from an element is a row.                                *)
LEMMA OrderIsRow ==
  ASSUME NEW object \in Objects \cup {<<>>}
  PROVE  _jparse_order(object) \in Row
<1>1. \A f \in DOMAIN object : object[f] \in JsonValues
  BY OrdersAssumption
<1>2. "" \in JsonValues
  BY DEF JsonValues, Values
<1> QED  BY <1>1, <1>2 DEF _jparse_order, Row

(* What a statement makes of a table is a table again, the one that        *)
(* dbaccess.h promises.                                                    *)
LEMMA StatementKeepsPromise ==
  ASSUME OrdersInv, or_pc = "query",
         NEW rows \in Statement(or_table[or_req.table])
  PROVE  /\ rows = Promised(or_table[or_req.table])
         /\ IsTable(rows)
<1> DEFINE table == or_table[or_req.table]
<1>1. or_req \in Requests /\ or_req.table \in Tables /\ IsTable(table)
  BY RequestShape DEF OrdersInv
<1> HIDE DEF table
<1>2. CASE or_req.op = "get"
  BY <1>2 DEF Statement
<1>3. CASE or_req.op = "add"
  <2>1. rows = Appended(table, or_orders) /\ Promised(table) = Appended(table, or_orders)
    BY <1>3 DEF Statement, Insert, Promised, OrdersInv, table
  <2>2. PICK n \in Nat : /\ DOMAIN or_req.items = 1 .. n
                         /\ \A k \in 1 .. n : or_req.items[k] \in Objects \cup {<<>>}
    BY <1>1, <1>3, RequestShape
  <2>3. or_orders \in [1 .. n -> Row]
    BY <1>3, <2>2, OrderIsRow DEF OrdersInv
  <2>4. IsTable(Appended(table, or_orders))
    BY <1>1, <2>3, AppendedAdds
  <2> QED  BY <2>1, <2>4 DEF table
<1>4. CASE or_req.op = "del"
  <2> DEFINE query == or_req.query
             D == {k \in DOMAIN table : ~ Matches(table[k], Key(query))}
  <2>1. rows = [k \in D |-> table[k]]
    BY <1>4 DEF Statement, Delete, table
  <2>2. D = {k \in DOMAIN table : \E f \in DOMAIN query \cap Columns : table[k][f] # query[f]}
    BY DEF Matches, Key
  <2>3. Promised(table) = [k \in D |-> table[k]]
    BY <1>4, <2>2 DEF Promised
  <2>4. IsTable([k \in D |-> table[k]])
    <3>1. D \subseteq DOMAIN table
      OBVIOUS
    <3> HIDE DEF D
    <3> QED  BY <3>1, <1>1, RestrictionIsTable
  <2> QED  BY <2>1, <2>3, <2>4 DEF table
<1>5. CASE or_req.op = "mod"
  <2>1. Understood(WherePart) /\ rows = Update(table, WherePart, WherePart)
    BY <1>5 DEF Statement, SetPart, WherePart, table
  <2>2. \A f \in DOMAIN WherePart : f \in Columns /\ WherePart[f] \in JsonValues
    BY <2>1 DEF Understood, JsonValues, Values
  <2>3. rows = table
    BY <1>1, <2>1, <2>2, UpdateIsTable
  <2>4. Promised(table) = table
    BY <1>5 DEF Promised
  <2> QED  BY <1>1, <2>3, <2>4 DEF table
<1> QED  BY <1>1, <1>2, <1>3, <1>4, <1>5, RequestShape

(* Before the first request.                                               *)
LEMMA OrdersInvInit == OrdersInit => OrdersInv /\ HeldInv
<1> SUFFICES ASSUME OrdersInit PROVE OrdersInv /\ HeldInv
  OBVIOUS
<1>1. Values \subseteq JsonValues
  BY DEF JsonValues
<1>2. IsTable(Rows)
  BY <1>1, OrdersAssumption DEF IsTable, Row
<1> QED  BY <1>2 DEF OrdersInit, OrdersInv, HeldInv

(* The two ways in which a statement comes to its end: with an answer of   *)
(* the server or without one.                                              *)
LEMMA FinishKeeps ==
  ASSUME OrdersInv, HeldInv, or_pc = "query", NEW ok \in BOOLEAN, Finish(ok),
         \/ ~ ok /\ or_table' = or_table
         \/ \E rows \in Statement(or_table[or_req.table]) : or_table' = [or_table EXCEPT ![or_req.table] = rows]
  PROVE  OrdersInv' /\ HeldInv'
<1> DEFINE t == or_req.table
<1>1. t \in Tables /\ or_req \in Requests
  BY RequestShape DEF OrdersInv
<1>2. or_req' = or_req /\ or_before' = or_before /\ or_pc' = "done" /\ or_reply' = Outcome(ok)
  BY DEF Finish
<1>3. Promised(or_before[t])' = Promised(or_before[t])
  BY <1>2 DEF Promised
<1>4. or_table = or_before
  BY DEF OrdersInv
<1>5. CASE ~ ok /\ or_table' = or_table
  <2>1. AllOrNothing'
    BY <1>2, <1>4, <1>5 DEF AllOrNothing, Outcome
  <2> QED  BY <1>2, <1>5, <2>1 DEF OrdersInv, HeldInv, Finish, HeldAt, Cleared, Left
<1>6. CASE \E rows \in Statement(or_table[t]) : or_table' = [or_table EXCEPT ![t] = rows]
  <2> PICK rows \in Statement(or_table[t]) : or_table' = [or_table EXCEPT ![t] = rows]
    BY <1>6
  <2>1. rows = Promised(or_before[t]) /\ IsTable(rows)
    BY <1>4, StatementKeepsPromise
  <2>2. /\ or_table'[t] = rows /\ DOMAIN or_table' = Tables
        /\ \A u \in Tables \ {t} : or_table'[u] = or_before[u]
        /\ or_table' = [u \in Tables |-> or_table'[u]]
    BY <1>1, <1>4 DEF OrdersInv
  <2>3. AllOrNothing'
    BY <1>2, <1>3, <2>1, <2>2 DEF AllOrNothing, Outcome
  <2>4. \A u \in Tables : IsTable(or_table'[u])
    BY <1>1, <2>1, <2>2 DEF OrdersInv
  <2>5. OrdersInv'
    BY <1>2, <2>2, <2>3, <2>4 DEF OrdersInv, IsTable
  <2>6. HeldInv'
    BY <1>2 DEF HeldInv, Finish, HeldAt, Cleared, Left
  <2> QED  BY <2>5, <2>6
<1> QED  BY <1>5, <1>6

(* Each step of a handler.                                                 *)
LEMMA OrdersInvNext == OrdersInv /\ HeldInv /\ [OrdersNext]_ordersVars => OrdersInv' /\ HeldInv'
<1> SUFFICES ASSUME OrdersInv, HeldInv, [OrdersNext]_ordersVars PROVE OrdersInv' /\ HeldInv'
  OBVIOUS
<1>1. CASE UNCHANGED ordersVars
  <2>1. /\ or_table' = or_table /\ or_req' = or_req /\ or_before' = or_before
        /\ or_pc' = or_pc /\ or_held' = or_held /\ or_reply' = or_reply /\ or_orders' = or_orders
    BY <1>1 DEF ordersVars
  <2>2. Promised(or_before[or_req.table])' = Promised(or_before[or_req.table])
    BY <2>1 DEF Promised
  <2>3. AllOrNothing' <=> AllOrNothing
    BY <2>1, <2>2 DEF AllOrNothing
  <2> QED  BY <2>1, <2>3 DEF OrdersInv, HeldInv, IsTable, HeldAt
<1>2. ASSUME NEW req \in Requests, Receive(req) PROVE OrdersInv' /\ HeldInv'
  <2>1. req.op \in {"get", "del", "add", "mod"}
    BY RequestShape
  <2> QED  BY <1>2, <2>1 DEF Receive, OrdersInv, HeldInv, IsTable, HeldAt, Left
<1>3. ASSUME or_pc # "idle", or_pc # "done", UNCHANGED <<or_table, or_req, or_before>>, or_pc' = "done",
             or_reply' \in {"error"}, or_held' \subseteq Left
      PROVE  OrdersInv' /\ HeldInv'
  BY <1>3 DEF OrdersInv, HeldInv, IsTable, HeldAt, AllOrNothing
<1>4. ASSUME or_pc # "idle", or_pc # "done", Crash PROVE OrdersInv' /\ HeldInv'
  BY <1>4 DEF Crash, OrdersInv, HeldInv, IsTable
<1>5. CASE ReadBody
  BY <1>3, <1>5 DEF ReadBody, Respond, OrdersInv, HeldInv, IsTable, HeldAt, Left
<1>6. CASE AddNothing
  BY <1>3, <1>6 DEF AddNothing, Respond, OrdersInv, HeldInv, HeldAt, Left
<1>7. CASE ParseOrders
  BY <1>4, <1>7 DEF ParseOrders, OrdersInv, HeldInv, IsTable, HeldAt, Left, Cleared
<1>8. CASE CheckDelete
  BY <1>3, <1>8 DEF CheckDelete, Respond, OrdersInv, HeldInv, IsTable, HeldAt, Left
<1>9. CASE CheckGet
  BY <1>4, <1>9 DEF CheckGet, OrdersInv, HeldInv, IsTable, HeldAt, Left
<1>10. CASE CheckUpdate
  BY <1>3, <1>4, <1>10 DEF CheckUpdate, Respond, OrdersInv, HeldInv, IsTable, HeldAt, Left
<1>11. CASE Query
  BY <1>11, FinishKeeps DEF Query
<1>12. CASE NoSession
  BY <1>12 DEF NoSession, Outcome, Cleared, OrdersInv, HeldInv, IsTable, HeldAt, Left, AllOrNothing, Promised
<1>13. CASE QueryFails
  BY <1>13, FinishKeeps DEF QueryFails
<1>14. CASE AnswerLost
  BY <1>14, FinishKeeps DEF AnswerLost
<1>15. CASE PrintsGarbage
  BY <1>4, <1>15 DEF PrintsGarbage
<1>16. CASE Return
  BY <1>16 DEF Return, OrdersInv, HeldInv, IsTable, HeldAt
<1> QED  BY <1>1, <1>2, <1>5, <1>6, <1>7, <1>8, <1>9, <1>10, <1>11, <1>12, <1>13, <1>14, <1>15, <1>16
         DEF OrdersNext

(* A request for orders does all it promises or nothing, whatever it has   *)
(* in it and wherever the connection breaks (orderquery.c, dbaccess.c).    *)
THEOREM HandlersKeepTheirPromise == OrdersSpec => []OrdersAllOrNothing
<1>1. OrdersInv => OrdersAllOrNothing
  BY DEF OrdersInv, OrdersAllOrNothing, Handled, AllOrNothing
<1> QED  BY <1>1, OrdersInvInit, OrdersInvNext, PTL DEF OrdersSpec

(* However a handler of orders ends, it has freed what it took but for the *)
(* tree of an empty array and the buffers of an INSERT without a session   *)
(* (orderquery.c).                                                         *)
THEOREM HandlersHoldNothing == OrdersSpec => []HandlersFree
<1>1. HeldInv => HandlersFree
  BY DEF HeldInv, HandlersFree, HeldAt, Left
<1> QED  BY <1>1, OrdersInvInit, OrdersInvNext, PTL DEF OrdersSpec

-----------------------------------------------------------------------------
(* A row of tbCard: a value may be empty or missing.                       *)
Card == [cardid : Params(Ids), cardsn : Params(Sns)]

(* The rows have the two columns.                                          *)
CardsType ==
  /\ DOMAIN ca_table \subseteq 1 .. MaxCards
  /\ \A k \in DOMAIN ca_table : ca_table[k] \in Card

(* The rows that are there at first.                                       *)
LEMMA CardsTypeInit == CardsInit => CardsType
BY CardsAssumption DEF CardsInit, CardsType, Card, Params

(* A statement that leaves rows with two columns, whether or not it is     *)
(* run.                                                                    *)
LEMMA CardsTypeRun ==
  ASSUME CardsType, NEW readable, NEW rows,
         DOMAIN rows \subseteq 1 .. MaxCards,
         \A k \in DOMAIN rows : rows[k] \in Card,
         Run(readable, rows)
  PROVE  CardsType'
BY DEF Run, CardsType

(* Each handler.                                                           *)
LEMMA CardsTypeNext == CardsType /\ [CardsNext]_cardsVars => CardsType'
<1> SUFFICES ASSUME CardsType, [CardsNext]_cardsVars PROVE CardsType'
  OBVIOUS
<1> CASE UNCHANGED cardsVars
  BY DEF cardsVars, CardsType
<1> CASE CardsNext
  <2> PICK cardid \in Params(Ids), cardsn \in Params(Sns) :
        \/ card_add(cardid, cardsn)
        \/ card_del(cardid, cardsn)
        \/ \E direction \in {"id2sn", "sn2id", "both", "NULL"} : card_mod(cardid, cardsn, direction)
        \/ card_get
    BY Zenon DEF CardsNext
  <2>1. CASE card_add(cardid, cardsn)
    <3>1. CASE cardid \in {"NULL", ""}
      BY <2>1, <3>1 DEF card_add, Refuse, CardsType
    <3>2. CASE cardid \notin {"NULL", ""}
      <4> DEFINE new == CHOOSE k \in Free : TRUE
                 rows == [k \in DOMAIN ca_table \cup {new} |->
                            IF k = new THEN [cardid |-> cardid, cardsn |-> cardsn] ELSE ca_table[k]]
      <4>1. new \in Free /\ Run(Readable(cardid) /\ Readable(cardsn), rows)
        BY <2>1, <3>2 DEF card_add
      <4>2. DOMAIN rows \subseteq 1 .. MaxCards
        BY <4>1 DEF Free, CardsType
      <4>3. \A k \in DOMAIN rows : rows[k] \in Card
        BY DEF CardsType, Card
      <4> HIDE DEF rows
      <4> QED  BY <4>1, <4>2, <4>3, CardsTypeRun
    <3> QED  BY <3>1, <3>2
  <2>2. CASE card_del(cardid, cardsn)
    BY <2>2 DEF card_del, Run, CardsType
  <2>3. ASSUME NEW by \in {"cardid", "cardsn"}, NEW column \in {"cardid", "cardsn"}, NEW key, NEW value,
               column = "cardid" => value \in Params(Ids), column = "cardsn" => value \in Params(Sns), NEW readable,
               Run(readable, Changed(by, key, column, value))
        PROVE  CardsType'
    BY <2>3 DEF Changed, Run, CardsType, Card
  <2>4. CASE \E direction \in {"id2sn", "sn2id", "both", "NULL"} : card_mod(cardid, cardsn, direction)
    BY <2>3, <2>4 DEF card_mod, db_mod_card_byid, db_mod_card_bysn, Refuse, CardsType
  <2>5. CASE card_get
    BY <2>5 DEF card_get, CardsType
  <2> QED  BY <2>1, <2>2, <2>4, <2>5
<1> QED  OBVIOUS

(* Whatever is added and changed, tbCard has rows of two columns, no more  *)
(* than it has room for (cardquery.c).                                     *)
THEOREM CardsTypeCorrect == CardsSpec => []CardsType
BY CardsTypeInit, CardsTypeNext, PTL DEF CardsSpec

(* The history names the handler of the step and its parameters.           *)
LEMMA CallIsKept ==
  ASSUME CardsNext
  PROVE  \E cardid \in Params(Ids), cardsn \in Params(Sns) :
    \/ ca_call'.handler = "add"
    \/ ca_call'.handler = "del" /\ ca_call'.cardid = cardid /\ ca_call'.cardsn = cardsn /\ card_del(cardid, cardsn)
    \/ /\ ca_call'.handler = "mod"
       /\ ca_call'.cardid = cardid /\ ca_call'.cardsn = cardsn /\ card_mod(cardid, cardsn, ca_call'.direction)
    \/ ca_call'.handler = "get" 
<1> PICK cardid \in Params(Ids), cardsn \in Params(Sns) :
    \/ Call("add", cardid, cardsn, "NULL") /\ card_add(cardid, cardsn)
    \/ Call("del", cardid, cardsn, "NULL") /\ card_del(cardid, cardsn)
    \/ \E direction \in {"id2sn", "sn2id", "both", "NULL"} :
         Call("mod", cardid, cardsn, direction) /\ card_mod(cardid, cardsn, direction)
    \/ Call("get", cardid, cardsn, "NULL") /\ card_get
    BY Zenon DEF CardsNext
<1> ASSUME NEW direction, Call("mod", cardid, cardsn, direction)
    PROVE ca_call'.handler = "mod" /\ ca_call'.cardid = cardid /\ ca_call'.cardsn = cardsn /\ ca_call'.direction = direction
    BY DEF Call
<1> WITNESS cardid \in Params(Ids), cardsn \in Params(Sns)
<1> QED BY DEF Call

(* A deletion takes the rows with the named id and number.                 *)
LEMMA DeletionKeeps == 
  ASSUME CardsNext
  PROVE DeletionIsNamed
<1> SUFFICES ASSUME ca_call'.handler = "del" PROVE DeletionIsNamed
  BY DEF DeletionIsNamed
<1> PICK cardid \in Params(Ids), cardsn \in Params(Sns) :
       ca_call'.cardid = cardid /\ ca_call'.cardsn = cardsn /\ card_del(cardid, cardsn)
  BY CallIsKept
<1> QED  BY DEF DeletionIsNamed, card_del, Run, Selected

(* A change touches the rows that have its key, in the other column.       *)
LEMMA ChangeKeeps == 
  ASSUME CardsNext, CardsType
  PROVE ChangeIsByKey
<1> SUFFICES ASSUME ca_call'.handler = "mod" PROVE ChangeIsByKey
  BY DEF ChangeIsByKey
<1> PICK cardid \in Params(Ids), cardsn \in Params(Sns) :
       ca_call'.cardid = cardid /\ ca_call'.cardsn = cardsn /\ card_mod(cardid, cardsn, ca_call'.direction)
  BY CallIsKept
<1>1. CASE UNCHANGED ca_table /\ ca_reply' # "success"
  BY <1>1 DEF ChangeIsByKey
<1>2. ASSUME NEW k \in DOMAIN ca_table
      PROVE  /\ [ca_table[k] EXCEPT !.cardsn = cardsn] = [cardid |-> ca_table[k].cardid, cardsn |-> cardsn]
             /\ [ca_table[k] EXCEPT !.cardid = cardid] = [cardid |-> cardid, cardsn |-> ca_table[k].cardsn]
  BY DEF CardsType, Card
<1>3. CASE /\ ca_call'.direction = "id2sn" /\ ca_reply' \in {"success", "failed"}
            /\ ca_table' = Changed("cardid", cardid, "cardsn", cardsn)
  <2>1. DOMAIN ca_table' = DOMAIN ca_table
    BY <1>3 DEF Changed
  <2>2. ASSUME NEW k \in DOMAIN ca_table, ca_table[k].cardid = cardid
        PROVE  ca_table'[k] = [cardid |-> cardid, cardsn |-> cardsn]
    BY <1>2, <1>3, <2>2 DEF Changed
  <2>3. ASSUME NEW k \in DOMAIN ca_table, ca_table[k].cardid # cardid
        PROVE  ca_table'[k] = ca_table[k]
    BY <1>3, <2>3 DEF Changed
  <2>4. ASSUME NEW k \in DOMAIN ca_table PROVE  ca_table'[k].cardid = ca_table[k].cardid
    BY <2>2, <2>3
  <2> QED  BY <2>1, <2>2, <2>3, <2>4, <1>3 DEF ChangeIsByKey
<1>4. CASE /\ ca_call'.direction = "sn2id" /\ ca_reply' \in {"success", "failed"}
            /\ ca_table' = Changed("cardsn", cardsn, "cardid", cardid)
  <2>1. DOMAIN ca_table' = DOMAIN ca_table
    BY <1>4 DEF Changed
  <2>2. ASSUME NEW k \in DOMAIN ca_table, ca_table[k].cardsn = cardsn
        PROVE  ca_table'[k] = [cardid |-> cardid, cardsn |-> cardsn]
    BY <1>2, <1>4, <2>2 DEF Changed
  <2>3. ASSUME NEW k \in DOMAIN ca_table, ca_table[k].cardsn # cardsn
        PROVE  ca_table'[k] = ca_table[k]
    BY <1>4, <2>3 DEF Changed
  <2>4. ASSUME NEW k \in DOMAIN ca_table PROVE  ca_table'[k].cardsn = ca_table[k].cardsn
    BY <2>2, <2>3
  <2> QED  BY <2>1, <2>2, <2>3, <2>4, <1>4 DEF ChangeIsByKey
<1>5. ca_call'.direction \notin {"id2sn", "sn2id"} => UNCHANGED ca_table /\ ca_reply' # "success"
  BY DEF card_mod, Refuse
<1> QED  BY <1>1, <1>3, <1>4, <1>5 DEF card_mod, Refuse, Run, db_mod_card_byid, db_mod_card_bysn

(* Deletions and changes touch the cards they name and no other, whether   *)
(* or not the client was told of a success (dbaccess.c).                   *)
THEOREM OnlyNamedCards == CardsSpec => OnlyTheNamedCards
<1>1. CardsType /\ [CardsNext]_cardsVars => [DeletionIsNamed]_cardsVars /\ [ChangeIsByKey]_cardsVars
  BY DeletionKeeps, ChangeKeeps
<1>2. CardsSpec => [][DeletionIsNamed]_cardsVars /\ [][ChangeIsByKey]_cardsVars
  BY <1>1, CardsTypeInit, CardsTypeNext, PTL DEF CardsSpec
<1> QED  BY <1>2 DEF OnlyTheNamedCards, DeletesTheNamed, ChangesByTheKey

-----------------------------------------------------------------------------
(* An element of the list of scores.                                       *)
Text == {"scenename", "json"} \X Nat
Element == [id : Nat, scene : 1 .. TotalScenes, fscore : Int, credit : Int,
            scenename : Text, json : Text]

(* Where the list has been sorted.                                         *)
Sorted == {"shrink", "credits", "remains", "reply", "answered", "gave_up", "twice", "down"}

(* The types of the variables.                                             *)
ScoresType ==
  /\ Len(sc_rows) \in Nat /\ sc_rows \in [1 .. Len(sc_rows) -> ScoreRows]
  /\ sc_scenes \in SceneTables
  /\ sc_stack \in Stack
  /\ sc_pc \in {"load", "unknown", "sort"} \cup Sorted
  /\ Len(sc_list) \in Nat /\ sc_list \in [1 .. Len(sc_list) -> Element]
  /\ sc_i \in Nat \ {0}

(* The list has rows of the result, each once, and of each scene a row     *)
(* with as many points as any: what scores_shrink has dropped was not      *)
(* better.                                                                 *)
RowsOfList == \A k \in DOMAIN sc_list : sc_list[k].id \in Loaded /\ sc_list[k] = Entry(sc_list[k].id)
OnceInList == \A k, l \in DOMAIN sc_list : sc_list[k].id = sc_list[l].id => k = l
BestInList ==
  \A n \in Loaded : \E k \in DOMAIN sc_list :
    sc_list[k].scene = sc_rows[n].scene /\ sc_list[k].fscore >= Entry(n).fscore

ListIsOfRows ==
  /\ sc_pc = "load" => sc_list = <<>>
  /\ sc_pc \in {"sort"} \cup Sorted =>
       RowsOfList /\ OnceInList /\ BestInList /\ Len(sc_list) <= Len(sc_rows)

(* Before the index of scores_shrink no two neighbours are of one scene.   *)
NeighboursDiffer ==
  sc_pc \in Sorted =>
    \A k \in 1 .. Len(sc_list) - 1 : k < sc_i \/ Shrunk => ~ SameScene(k)

(* The scenes of a list that was sorted by selection descend, and before   *)
(* the index of scores_shrink strictly.                                    *)
ListIsSorted ==
  sc_pc \in Sorted /\ Len(sc_rows) <= SelectionSort =>
    /\ \A k, l \in DOMAIN sc_list : k <= l => sc_list[k].scene >= sc_list[l].scene
    /\ \A k, l \in DOMAIN sc_list : k < l /\ (k < sc_i \/ Shrunk) =>
         sc_list[k].scene > sc_list[l].scene

(* The texts of the rows, those that the entry of a row points at, and     *)
(* those that were freed with the scores that scores_shrink dropped.       *)
TextsOfRows == {<<"scenename", n>> : n \in With_name} \cup {<<"json", n>> : n \in With_json}
Pointed(n) == {Entry(n).scenename, Entry(n).json} \ NoText
Listed == {sc_list[k].id : k \in DOMAIN sc_list}
Freed == UNION {Pointed(n) : n \in Loaded \ Listed}
NamesOfRemaining == {<<"remaining", scene>> : scene \in {s \in Remaining : sc_scenes[s].name}}

(* All texts are allocated but those that were freed.                      *)
TextsAreKept ==
  /\ sc_pc = "load" => sc_live = {}
  /\ sc_pc \in {"sort", "shrink", "credits"} => sc_live = TextsOfRows \ Freed
  /\ sc_pc \in {"remains", "reply"} => sc_live = (TextsOfRows \ Freed) \cup NamesOfRemaining
  /\ StringsFreedOnce

(* The class is that of the mark.                                          *)
ClassIsOfList ==
  /\ sc_pc \in {"remains", "reply"} => totalcredit # 0
  /\ sc_pc = "reply" => sc_class = ClassOfFraction(Numerator, Denominator)

(* The inductive invariant of the scores.                                  *)
ScoresInv ==
  ScoresType /\ ListIsOfRows /\ NeighboursDiffer /\ ListIsSorted /\ TextsAreKept /\ ClassIsOfList

(* sum has the sums of the first elements of f.                            *)
IsRunning(f, sum, n) == sum = [j \in 0 .. n |-> IF j = 0 THEN 0 ELSE sum[j - 1] + f[j]]

(* The recursive function RunningSums is there: the sums up to n are those *)
(* up to n - 1 and one more.                                               *)
LEMMA RunningExists ==
  ASSUME NEW m \in Nat, NEW f \in [1 .. m -> Nat]
  PROVE  \E sum : IsRunning(f, sum, m)
<1> DEFINE S == {n \in Nat : \E sum : IsRunning(f, sum, n)}
<1>1. 0 \in S
  <2> DEFINE z == [j \in 0 .. 0 |-> 0]
  <2>1. IsRunning(f, z, 0)
    BY DEF IsRunning
  <2> HIDE DEF z
  <2> QED  BY <2>1
<1>2. ASSUME NEW n \in 1 .. m, n - 1 \in S PROVE n \in S
  <2> PICK g : IsRunning(f, g, n - 1)
    BY <1>2
  <2> DEFINE h == [j \in 0 .. n |-> IF j < n THEN g[j] ELSE g[n - 1] + f[n]]
  <2>1. ASSUME NEW j \in 0 .. n PROVE h[j] = IF j = 0 THEN 0 ELSE h[j - 1] + f[j]
    <3>1. CASE j = n
      BY <3>1
    <3>2. CASE j < n
      BY <3>2 DEF IsRunning
    <3> QED  BY <3>1, <3>2
  <2>2. h = [j \in 0 .. n |-> IF j = 0 THEN 0 ELSE h[j - 1] + f[j]]
    BY <2>1
  <2>3. IsRunning(f, h, n)
    BY <2>2 DEF IsRunning
  <2> HIDE DEF h
  <2> QED  BY <2>3
<1> HIDE DEF S
<1>3. m \in S
  <2>1. \A n \in 1 .. m : n - 1 \in S => n \in S
    BY <1>2
  <2>2. 0 .. m \subseteq S
    BY <1>1, <2>1, UpTo
  <2> QED  BY <2>2
<1> QED  BY <1>3 DEF S

(* What Sum computes.                                                      *)
LEMMA RunningSumsAre ==
  ASSUME NEW m \in Nat, NEW f \in [1 .. m -> Nat]
  PROVE  /\ RunningSums(f) \in [0 .. m -> Nat] /\ RunningSums(f)[0] = 0
         /\ \A n \in 1 .. m : RunningSums(f)[n] = RunningSums(f)[n - 1] + f[n]
         /\ Sum(f) = RunningSums(f)[m]
<1>1. Len(f) = m
  BY LenOf
<1>2. RunningSums(f) = CHOOSE sum : IsRunning(f, sum, m)
  BY <1>1 DEF RunningSums, IsRunning
<1>3. IsRunning(f, RunningSums(f), m)
  BY <1>2, RunningExists
<1> DEFINE R == RunningSums(f)
<1>4. R = [j \in 0 .. m |-> IF j = 0 THEN 0 ELSE R[j - 1] + f[j]]
  BY <1>3 DEF IsRunning
<1> HIDE DEF R
<1>5. R[0] = 0 /\ \A n \in 1 .. m : R[n] = R[n - 1] + f[n]
  BY <1>4
<1>6. 0 .. m \subseteq {n \in 0 .. m : R[n] \in Nat}
  <2> DEFINE S == {n \in 0 .. m : R[n] \in Nat}
  <2>1. 0 \in S /\ \A n \in 1 .. m : n - 1 \in S => n \in S
    BY <1>5
  <2> HIDE DEF S
  <2>2. 0 .. m \subseteq S
    BY <2>1, UpTo
  <2> QED  BY <2>2 DEF S
<1>7. R \in [0 .. m -> Nat]
  BY <1>4, <1>6
<1> QED  BY <1>1, <1>5, <1>7 DEF R, Sum

(* The running sums of numbers only grow.                                  *)
LEMMA RunningSumsGrow ==
  ASSUME NEW m \in Nat, NEW f \in [1 .. m -> Nat], NEW a \in 0 .. m, NEW b \in a .. m
  PROVE  RunningSums(f)[a] <= RunningSums(f)[b]
<1> DEFINE R == RunningSums(f)
           S == {d \in 0 .. m : a + d <= m => R[a] <= R[a + d]}
<1>1. R \in [0 .. m -> Nat] /\ \A n \in 1 .. m : R[n] = R[n - 1] + f[n]
  BY RunningSumsAre
<1> HIDE DEF R
<1>2. 0 \in S
  BY <1>1
<1>3. ASSUME NEW d \in 1 .. m, d - 1 \in S PROVE d \in S
  <2> SUFFICES ASSUME a + d <= m PROVE R[a] <= R[a + d]
    OBVIOUS
  <2>1. R[a + d] = R[(a + d) - 1] + f[a + d] /\ f[a + d] \in Nat
    BY <1>1
  <2>2. (a + d) - 1 = a + (d - 1) /\ R[a] <= R[a + (d - 1)]
    BY <1>3
  <2>3. R[a] \in Nat /\ R[a + (d - 1)] \in Nat
    BY <1>1
  <2> QED  BY <2>1, <2>2, <2>3
<1>4. b - a \in S
  <2>1. \A d \in 1 .. m : d - 1 \in S => d \in S
    BY <1>3
  <2> HIDE DEF S
  <2>2. 0 .. m \subseteq S
    BY <1>2, <2>1, UpTo
  <2> QED  BY <2>2
<1>5. a + (b - a) = b
  OBVIOUS
<1> QED  BY <1>4, <1>5 DEF R

(* Of the credits of a list in which each scene is there at most once, as  *)
(* its scenes descend, the sum is at most that of all scenes.              *)
LEMMA CreditsOnce ==
  ASSUME NEW T \in Nat \ {0}, NEW credits \in [1 .. T -> Nat],
         NEW m \in Nat, NEW scene \in [1 .. m -> 1 .. T],
         \A k, l \in 1 .. m : k < l => scene[k] > scene[l]
  PROVE  /\ Sum([k \in 1 .. m |-> credits[scene[k]]]) <= Sum(credits)
         /\ m <= T
<1> DEFINE c == [k \in 1 .. m |-> credits[scene[k]]]
           C == RunningSums(credits)
           R == RunningSums(c)
           S == {k \in 0 .. m : k > 0 => /\ R[k] + C[scene[k] - 1] <= C[T]
                                        /\ scene[k] + k <= T + 1}
<1>1. c \in [1 .. m -> Nat]
  OBVIOUS
<1> HIDE DEF c
<1>2. C \in [0 .. T -> Nat] /\ (\A n \in 1 .. T : C[n] = C[n - 1] + credits[n]) /\ Sum(credits) = C[T]
  BY RunningSumsAre
<1>3. /\ R \in [0 .. m -> Nat] /\ R[0] = 0 /\ Sum(c) = R[m]
      /\ \A k \in 1 .. m : R[k] = R[k - 1] + c[k]
  BY <1>1, RunningSumsAre
<1>4. \A a \in 0 .. T : \A b \in a .. T : C[a] <= C[b]
  BY RunningSumsGrow
<1> HIDE DEF C, R
<1>5. ASSUME NEW k \in 1 .. m, k - 1 \in S PROVE k \in S
  <2> DEFINE s == scene[k]
  <2>1. s \in 1 .. T /\ s - 1 \in 0 .. T /\ C[s] = C[s - 1] + credits[s] /\ C[s] \in Nat /\ C[s - 1] \in Nat
    BY <1>2
  <2>2. R[k] = R[k - 1] + credits[s] /\ R[k] \in Nat /\ R[k - 1] \in Nat /\ credits[s] \in Nat
    BY <1>3, <2>1 DEF c
  <2>3. CASE k = 1
    <3>1. R[k - 1] = 0
      BY <1>3, <2>3
    <3>2. C[s] <= C[T] /\ C[T] \in Nat
      BY <1>2, <1>4, <2>1
    <3> QED  BY <2>1, <2>2, <3>1, <3>2, <2>3
  <2>4. CASE k > 1
    <3> DEFINE t == scene[k - 1]
    <3>1. t \in 1 .. T /\ s < t
      BY <2>4
    <3>2. R[k - 1] + C[t - 1] <= C[T] /\ t + (k - 1) <= T + 1
      BY <1>5, <2>4
    <3> HIDE DEF s, t
    <3>3. t - 1 \in s .. T /\ t - 1 \in 0 .. T /\ s \in 0 .. T /\ T \in 0 .. T
      BY <2>1, <3>1
    <3>4. C[s] <= C[t - 1]
      BY <1>4, <3>3
    <3>5. C[t - 1] \in Nat /\ C[T] \in Nat
      BY <1>2, <3>3
    <3>6. R[k] + C[s - 1] <= C[T]
      <4> DEFINE r == R[k - 1]
                 below == C[s - 1]
                 top == C[T]
                 mid == C[t - 1]
                 add == credits[s]
      <4>1. r \in Nat /\ below \in Nat /\ top \in Nat /\ mid \in Nat /\ add \in Nat
        BY <2>1, <2>2, <3>5
      <4>2. r + mid <= top /\ below + add <= mid /\ R[k] = r + add
        BY <2>1, <2>2, <3>2, <3>4
      <4> HIDE DEF r, below, top, mid, add
      <4>3. (r + add) + below <= top
        BY <4>1, <4>2
      <4> QED  BY <4>2, <4>3 DEF below, top
    <3>7. s + k <= T + 1
      BY <2>1, <3>1, <3>2
    <3> QED  BY <3>6, <3>7 DEF s
  <2> QED  BY <2>3, <2>4
<1>6. m \in S
  <2>1. 0 \in S
    OBVIOUS
  <2>2. \A k \in 1 .. m : k - 1 \in S => k \in S
    BY <1>5
  <2> HIDE DEF S
  <2>3. 0 .. m \subseteq S
    BY <2>1, <2>2, UpTo
  <2> QED  BY <2>3
<1>7. CASE m = 0
  BY <1>2, <1>3, <1>7 DEF c
<1>8. CASE m > 0
  <2> DEFINE s == scene[m]
  <2>1. R[m] + C[s - 1] <= C[T] /\ s + m <= T + 1 /\ s \in 1 .. T
    BY <1>6, <1>8
  <2>2. s - 1 \in 0 .. T /\ T \in 0 .. T /\ m \in 0 .. m
    BY <2>1
  <2>3. R[m] \in Nat /\ C[T] \in Nat /\ C[s - 1] \in Nat
    BY <1>2, <1>3, <2>2
  <2> HIDE DEF s
  <2>4. R[m] <= C[T] /\ m <= T
    BY <2>1, <2>3
  <2> QED  BY <1>2, <1>3, <2>4 DEF c
<1> QED  BY <1>7, <1>8

(* Marks of at most 100 weigh at most a hundred times the credits.         *)
LEMMA WeighedMarks ==
  ASSUME NEW m \in Nat, NEW mark \in [1 .. m -> 0 .. 100], NEW c \in [1 .. m -> Nat]
  PROVE  LET weighed == [k \in 1 .. m |-> mark[k] * c[k]]
         IN  Sum(weighed) \in Nat /\ Sum(c) \in Nat /\ Sum(weighed) <= 100 * Sum(c)
<1> DEFINE w == [k \in 1 .. m |-> mark[k] * c[k]]
           W == RunningSums(w)
           R == RunningSums(c)
           S == {k \in 0 .. m : W[k] <= 100 * R[k]}
<1>1. ASSUME NEW k \in 1 .. m PROVE mark[k] * c[k] \in Nat /\ mark[k] * c[k] <= 100 * c[k]
  <2>1. \A a \in 0 .. 100, b \in Nat : a * b \in Nat /\ a * b <= 100 * b
    BY SMT
  <2> QED  BY <2>1
<1>2. w \in [1 .. m -> Nat]
  BY <1>1
<1>3. /\ R \in [0 .. m -> Nat] /\ R[0] = 0 /\ Sum(c) = R[m]
      /\ \A k \in 1 .. m : R[k] = R[k - 1] + c[k]
  BY RunningSumsAre
<1>4. \A k \in 1 .. m : w[k] \in Nat /\ w[k] <= 100 * c[k] /\ c[k] \in Nat
  BY <1>1, <1>2
<1> HIDE DEF w
<1>5. /\ W \in [0 .. m -> Nat] /\ W[0] = 0 /\ Sum(w) = W[m]
      /\ \A k \in 1 .. m : W[k] = W[k - 1] + w[k]
  BY <1>2, RunningSumsAre
<1> HIDE DEF W, R
<1>6. m \in S
  <2>1. 0 \in S
    BY <1>3, <1>5
  <2>2. ASSUME NEW k \in 1 .. m, k - 1 \in S PROVE k \in S
    <3>1. W[k - 1] <= 100 * R[k - 1]
      BY <2>2
    <3>2. W[k] = W[k - 1] + w[k] /\ R[k] = R[k - 1] + c[k] /\ w[k] <= 100 * c[k]
      BY <1>3, <1>4, <1>5
    <3>3. W[k] \in Nat /\ R[k] \in Nat /\ W[k - 1] \in Nat /\ R[k - 1] \in Nat /\ w[k] \in Nat /\ c[k] \in Nat
      BY <1>3, <1>4, <1>5
    <3> DEFINE a == W[k - 1]
               b == R[k - 1]
               d == w[k]
               e == c[k]
    <3>4. a \in Nat /\ b \in Nat /\ d \in Nat /\ e \in Nat /\ a <= 100 * b /\ d <= 100 * e
          /\ W[k] = a + d /\ R[k] = b + e
      BY <3>1, <3>2, <3>3
    <3> HIDE DEF a, b, d, e
    <3>5. a + d <= 100 * (b + e)
      BY <3>4
    <3>6. W[k] <= 100 * R[k]
      BY <3>4, <3>5
    <3> QED  BY <3>6
  <2>3. \A k \in 1 .. m : k - 1 \in S => k \in S
    BY <2>2
  <2> HIDE DEF S
  <2>4. 0 .. m \subseteq S
    BY <2>1, <2>3, UpTo
  <2> QED  BY <2>4
<1> QED  BY <1>3, <1>5, <1>6 DEF w

(* What memcpy leaves when the elements behind the i-th move up.           *)
LEMMA RemoveAtIs ==
  ASSUME NEW S, NEW s \in Seq(S), NEW i \in 1 .. Len(s)
  PROVE  /\ RemoveAt(s, i) \in Seq(S) /\ Len(RemoveAt(s, i)) = Len(s) - 1
         /\ \A k \in 1 .. Len(s) - 1 : RemoveAt(s, i)[k] = IF k < i THEN s[k] ELSE s[k + 1]
<1> DEFINE n == Len(s)
           a == SubSeq(s, 1, i - 1)
           b == SubSeq(s, i + 1, n)
<1>1. n \in Nat /\ \A k \in 1 .. n : s[k] \in S
  BY LenProperties, ElementOfSeq
<1> HIDE DEF n
<1>2. i \in 1 .. n /\ i - 1 \in Int /\ i + 1 \in Int /\ n \in Int
  BY <1>1 DEF n
<1>3. /\ a \in Seq(S) /\ Len(a) = i - 1
      /\ \A k \in 1 .. i - 1 : a[k] = s[k]
  <2>1. \A k \in 1 .. i - 1 : s[k] \in S
    BY <1>1, <1>2
  <2>2. /\ a \in Seq(S) /\ Len(a) = IF 1 <= i - 1 THEN (i - 1) - 1 + 1 ELSE 0
        /\ \A k \in 1 .. (i - 1) - 1 + 1 : a[k] = s[1 + k - 1]
    BY <2>1, <1>2, SubSeqProperties
  <2> QED  BY <2>2, <1>2
<1>4. /\ b \in Seq(S) /\ Len(b) = n - i
      /\ \A k \in 1 .. n - i : b[k] = s[i + k]
  <2>1. \A k \in i + 1 .. n : s[k] \in S
    BY <1>1, <1>2
  <2>2. /\ b \in Seq(S) /\ Len(b) = IF i + 1 <= n THEN n - (i + 1) + 1 ELSE 0
        /\ \A k \in 1 .. n - (i + 1) + 1 : b[k] = s[(i + 1) + k - 1]
    BY <2>1, <1>2, SubSeqProperties
  <2> HIDE DEF b
  <2>3. n - (i + 1) + 1 = n - i /\ (i + 1 > n => n - i = 0)
    BY <1>2
  <2>4. \A k \in 1 .. n - i : (i + 1) + k - 1 = i + k
    BY <1>2
  <2> QED  BY <2>2, <2>3, <2>4, <1>2
<1>5. RemoveAt(s, i) = a \o b
  BY DEF RemoveAt, n
<1> HIDE DEF a, b
<1>6. /\ a \o b \in Seq(S) /\ Len(a \o b) = n - 1
      /\ \A k \in 1 .. n - 1 : (a \o b)[k] = IF k <= i - 1 THEN a[k] ELSE b[k - (i - 1)]
  <2>1. Len(a) + Len(b) = n - 1
    BY <1>2, <1>3, <1>4
  <2> QED  BY <2>1, <1>3, <1>4, ConcatProperties
<1>7. ASSUME NEW k \in 1 .. n - 1 PROVE (a \o b)[k] = IF k < i THEN s[k] ELSE s[k + 1]
  <2>1. CASE k < i
    BY <1>2, <1>3, <1>6, <2>1
  <2>2. CASE k >= i
    <3>1. k - (i - 1) \in 1 .. n - i /\ i + (k - (i - 1)) = k + 1
      BY <1>2, <2>2
    <3> QED  BY <1>2, <1>4, <1>6, <2>2, <3>1
  <2>3. k < i \/ k >= i
    BY <1>1, <1>2
  <2> QED  BY <2>1, <2>2, <2>3
<1> QED  BY <1>5, <1>6, <1>7 DEF n

(* The products that the mark is made of.                                  *)
LEMMA Multiplied ==
  /\ \A a, b, x \in Nat : a <= b => a * x <= b * x /\ x * a <= x * b
  /\ \A a, b \in Nat : a * b \in Nat /\ a * b = b * a
  /\ \A a, b \in Nat : a > 0 /\ b > 0 => a * b > 0
  /\ \A a, b, x \in Nat : (a * b) * x = a * (b * x)
BY SMT

(* The mark of get_finalscore: obtained is the sum of the credits, marks   *)
(* the weighed sum, total the credits of the venue.                        *)
LEMMA MarkInRange ==
  ASSUME NEW obtained \in Nat, NEW marks \in Nat, NEW total \in Nat \ {0},
         obtained <= total, marks <= 100 * obtained
  PROVE  LET n == CreditTenths * 100 * obtained * obtained + GradeTenths * marks * total
             d == 10 * total * obtained
         IN  /\ n \in Nat /\ d \in Nat /\ n <= 100 * d
             /\ marks > 0 => n > 0 /\ d > 0
<1> DEFINE cc == obtained * obtained
           tc == total * obtained
           mt == marks * total
           p == CreditTenths
           q == GradeTenths
<1>1. p \in 0 .. 10 /\ q = 10 - p /\ q \in Nat
  BY ScoresAssumption
<1>2. /\ cc \in Nat /\ tc \in Nat /\ mt \in Nat
      /\ cc <= tc /\ mt <= 100 * tc
  <2>1. mt <= (100 * obtained) * total
    BY Multiplied
  <2>2. (100 * obtained) * total = 100 * tc
    BY Multiplied
  <2> QED  BY <2>1, <2>2, Multiplied
<1>3. marks > 0 => obtained > 0 /\ cc > 0 /\ tc > 0 /\ mt > 0
  <2>1. marks > 0 => obtained > 0
    OBVIOUS
  <2> QED  BY <2>1, Multiplied
<1>4. /\ CreditTenths * 100 * obtained * obtained = 100 * (p * cc)
      /\ GradeTenths * marks * total = q * mt
      /\ 10 * total * obtained = 10 * tc
  BY <1>1, Multiplied
<1> HIDE DEF cc, tc, mt, p, q
<1>5. p * cc \in Nat /\ p * tc \in Nat /\ q * mt \in Nat /\ q * tc \in Nat
      /\ p * cc <= p * tc /\ q * mt <= q * (100 * tc) /\ q * (100 * tc) = 100 * (q * tc)
  BY <1>1, <1>2, Multiplied
<1>6. p * tc + q * tc = 10 * tc
  BY <1>1, <1>2
<1>7. 100 * (p * cc) + q * mt <= 100 * (10 * tc)
  BY <1>2, <1>5, <1>6
<1>8. marks > 0 => 100 * (p * cc) + q * mt > 0
  <2>1. CASE p > 0
    BY <1>1, <1>2, <1>3, <1>5, <2>1, Multiplied
  <2>2. CASE q > 0
    BY <1>1, <1>2, <1>3, <1>5, <2>2, Multiplied
  <2> QED  BY <1>1, <2>1, <2>2
<1> QED  BY <1>2, <1>3, <1>4, <1>5, <1>7, <1>8


(* Points are numbers up to 100.                                           *)
LEMMA PointsAreMarks == \A x \in Points : x \in 0 .. 100 /\ x \in Int
BY ScoresAssumption

(* A value comes from the row itself or from one before it that has one,   *)
(* or from none.                                                           *)
LEMMA FromIs ==
  ASSUME NEW rows, rows \subseteq Nat, NEW n \in Nat
  PROVE  /\ From(rows, n) \in 0 .. n
         /\ From(rows, n) = 0 \/ From(rows, n) \in rows
         /\ n \in rows => From(rows, n) = n
         /\ \A m \in rows : m <= n => m <= From(rows, n)
<1> DEFINE below == {m \in rows : m <= n}
           Latest(m) == m \in rows /\ m <= n /\ \A k \in rows : k <= n => k <= m
<1>1. CASE below = {}
  BY <1>1 DEF From
<1>2. CASE below # {}
  <2>1. \E m \in below : \A k \in below : k <= m
    <3>1. below \subseteq Nat /\ \A k \in below : k <= n
      OBVIOUS
    <3> HIDE DEF below
    <3>2. PICK m \in below \cup {0} : \A k \in below : k <= m
      BY <3>1, LargestOf
    <3>3. m \in below
      <4>1. PICK k \in below : TRUE
        BY <1>2
      <4>2. m = 0 => k = m
        BY <3>1, <3>2, <4>1
      <4> QED  BY <3>2, <4>1, <4>2
    <3> QED  BY <3>2, <3>3
  <2>2. \E m \in rows : Latest(m)
    BY <2>1
  <2>3. From(rows, n) = CHOOSE m \in rows : m <= n /\ \A k \in rows : k <= n => k <= m
    BY <1>2 DEF From
  <2> HIDE DEF Latest
  <2>4. Latest(From(rows, n))
    <3>1. From(rows, n) = CHOOSE m \in rows : Latest(m)
      BY <2>3 DEF Latest
    <3> HIDE DEF From
    <3> QED  BY <2>2, <3>1
  <2>5. \A k : Latest(k) => k \in rows /\ k <= n /\ \A j \in rows : j <= n => j <= k
    BY DEF Latest
  <2> DEFINE f == From(rows, n)
  <2>6. f \in rows /\ f <= n /\ \A m \in rows : m <= n => m <= f
    BY <2>4, <2>5
  <2> HIDE DEF f
  <2>7. f \in Nat /\ (n \in rows => f = n)
    BY <2>6
  <2> QED  BY <2>6, <2>7 DEF f
<1> QED  BY <1>1, <1>2

(* What is read from a row.                                                *)
LEMMA EntryIsElement ==
  ASSUME ScoresType, NEW n \in Loaded
  PROVE  /\ n \in Nat \ {0} /\ n \in DOMAIN sc_rows /\ n <= _maxscore_num
         /\ Entry(n) \in Element /\ Entry(n).id = n /\ Entry(n).scene = sc_rows[n].scene
         /\ Entry(n).scenename = <<"scenename", From(With_name, n)>>
         /\ Entry(n).json = <<"json", From(With_json, n)>>
<1>1. n \in 1 .. Len(sc_rows) /\ n \in Nat \ {0} /\ sc_rows[n] \in ScoreRows /\ n <= _maxscore_num
  BY DEF ScoresType, Loaded
<1>2. /\ With_name \subseteq Nat /\ With_score \subseteq Nat /\ With_json \subseteq Nat /\ With_credit \subseteq Nat
      /\ With_score \subseteq 1 .. Len(sc_rows) /\ With_credit \subseteq 1 .. Len(sc_rows)
  BY DEF ScoresType, With_name, With_score, With_json, With_credit
<1>3. sc_rows[n].scene \in 1 .. TotalScenes
  BY <1>1, ScoresAssumption
<1>4. \A m \in With_score : sc_rows[m].points \in Int
  <2> TAKE m \in With_score
  <2>1. sc_rows[m] \in [scene : 1 .. TotalScenes, points : Points \cup {Null}, json : BOOLEAN]
    BY <1>2, ScoresAssumption DEF ScoresType
  <2>2. sc_rows[m].points \in Points
    BY <2>1 DEF With_score
  <2> QED  BY <2>2, PointsAreMarks
<1>5. \A m \in With_credit : sc_scenes[sc_rows[m].scene].credit \in Int
  <2> TAKE m \in With_credit
  <2>1. sc_rows[m] \in [scene : 1 .. TotalScenes, points : Points \cup {Null}, json : BOOLEAN]
    BY <1>2, ScoresAssumption DEF ScoresType
  <2>2. sc_rows[m].scene \in 1 .. TotalScenes
    BY <2>1
  <2>3. sc_scenes \in [1 .. TotalScenes -> [credit : Nat \cup {Null}, name : BOOLEAN]]
    BY ScoresAssumption DEF ScoresType
  <2>4. sc_scenes[sc_rows[m].scene].credit \in Nat \cup {Null}
    BY <2>2, <2>3
  <2> QED  BY <2>4 DEF Null
<1>6. sc_stack.fscore \in Int /\ sc_stack.credit \in Int
  BY ScoresAssumption DEF ScoresType
<1>7. Entry(n).fscore \in Int
  BY <1>1, <1>2, <1>4, <1>6, FromIs DEF Entry
<1>8. Entry(n).credit \in Int
  BY <1>1, <1>2, <1>5, <1>6, FromIs DEF Entry
<1>9. From(With_name, n) \in Nat /\ From(With_json, n) \in Nat
  <2>1. From(With_name, n) \in 0 .. n /\ From(With_json, n) \in 0 .. n
    BY <1>1, <1>2, FromIs
  <2> HIDE DEF From
  <2> QED  BY <1>1, <2>1
<1>10. Entry(n).scenename \in Text /\ Entry(n).json \in Text
  BY <1>9 DEF Entry, Text
<1>11. Entry(n) = [id |-> n, scene |-> sc_rows[n].scene, fscore |-> Entry(n).fscore, credit |-> Entry(n).credit,
                   scenename |-> Entry(n).scenename, json |-> Entry(n).json]
  BY DEF Entry
<1>12. Entry(n) \in Element
  BY <1>1, <1>3, <1>7, <1>8, <1>10, <1>11 DEF Element
<1> QED  BY <1>1, <1>12 DEF Entry, ScoresType

(* Where no loaded row lacks a text, the texts of a row are its own.       *)
LEMMA OwnTexts ==
  ASSUME ScoresType, Loaded \subseteq With_name \cap With_json, NEW n \in Loaded
  PROVE  Pointed(n) = {<<"scenename", n>>, <<"json", n>>} /\ Pointed(n) \subseteq TextsOfRows
<1>1. n \in Nat \ {0} /\ n \in With_name /\ n \in With_json
      /\ Entry(n).scenename = <<"scenename", From(With_name, n)>> /\ Entry(n).json = <<"json", From(With_json, n)>>
  BY EntryIsElement
<1>2. With_name \subseteq Nat /\ With_json \subseteq Nat
  BY DEF ScoresType, With_name, With_json
<1>3. From(With_name, n) = n /\ From(With_json, n) = n
  BY <1>1, <1>2, FromIs
<1>4. <<"scenename", n>> \notin NoText /\ <<"json", n>> \notin NoText
  BY <1>1 DEF NoText
<1> QED  BY <1>1, <1>3, <1>4 DEF Pointed, TextsOfRows

(* Freed with all rows of the list, what is left are the texts of the rows *)
(* that found no room.                                                     *)
LEMMA WhatIsLeft ==
  ASSUME ScoresType
  PROVE  (TextsOfRows \ UNION {Pointed(n) : n \in Loaded}) \cup NamesOfRemaining = LeftBehind
<1>1. /\ With_name \subseteq DOMAIN sc_rows /\ With_json \subseteq DOMAIN sc_rows /\ DOMAIN sc_rows \subseteq Nat \ {0}
      /\ Loaded \subseteq Nat
  BY DEF ScoresType, With_name, With_json, Loaded
<1>2. ASSUME NEW n \in Loaded
      PROVE  /\ Pointed(n) \subseteq {<<"scenename", From(With_name, n)>>, <<"json", From(With_json, n)>>}
             /\ n \in With_name => <<"scenename", n>> \in Pointed(n)
             /\ n \in With_json => <<"json", n>> \in Pointed(n)
             /\ From(With_name, n) \in 0 .. n /\ From(With_json, n) \in 0 .. n
             /\ n <= _maxscore_num /\ n \in Nat \ {0}
  <2>1. /\ n \in Nat \ {0} /\ n <= _maxscore_num
        /\ Entry(n).scenename = <<"scenename", From(With_name, n)>> /\ Entry(n).json = <<"json", From(With_json, n)>>
    BY EntryIsElement
  <2>2. With_name \subseteq Nat /\ With_json \subseteq Nat
    BY <1>1
  <2>3. /\ From(With_name, n) \in 0 .. n /\ From(With_json, n) \in 0 .. n
        /\ n \in With_name => From(With_name, n) = n
        /\ n \in With_json => From(With_json, n) = n
    BY <2>1, <2>2, FromIs
  <2>4. <<"scenename", n>> \notin NoText /\ <<"json", n>> \notin NoText
    BY <2>1 DEF NoText
  <2> QED  BY <2>1, <2>3, <2>4 DEF Pointed
<1>3. \A n \in DOMAIN sc_rows : n \notin Loaded => n > _maxscore_num
  BY <1>1, ScoresAssumption DEF Loaded
<1> DEFINE all == UNION {Pointed(n) : n \in Loaded}
<1>4. ASSUME NEW n \in With_name PROVE <<"scenename", n>> \in all <=> n \in Loaded
  <2>1. n \in Loaded => <<"scenename", n>> \in all
    BY <1>2
  <2>2. ASSUME n \notin Loaded, <<"scenename", n>> \in all PROVE FALSE
    <3>1. PICK m \in Loaded : <<"scenename", n>> \in Pointed(m)
      BY <2>2
    <3>2. <<"scenename", n>> = <<"scenename", From(With_name, m)>>
      BY <1>2, <3>1
    <3>3. n = From(With_name, m) /\ From(With_name, m) \in 0 .. m /\ m <= _maxscore_num /\ m \in Nat
      BY <1>2, <3>2
    <3> QED  BY <1>1, <1>3, <2>2, <3>3, ScoresAssumption
  <2> QED  BY <2>1, <2>2
<1>5. ASSUME NEW n \in With_json PROVE <<"json", n>> \in all <=> n \in Loaded
  <2>1. n \in Loaded => <<"json", n>> \in all
    BY <1>2
  <2>2. ASSUME n \notin Loaded, <<"json", n>> \in all PROVE FALSE
    <3>1. PICK m \in Loaded : <<"json", n>> \in Pointed(m)
      BY <2>2
    <3>2. <<"json", n>> = <<"json", From(With_json, m)>>
      BY <1>2, <3>1
    <3>3. n = From(With_json, m) /\ From(With_json, m) \in 0 .. m /\ m <= _maxscore_num /\ m \in Nat
      BY <1>2, <3>2
    <3> QED  BY <1>1, <1>3, <2>2, <3>3, ScoresAssumption
  <2> QED  BY <2>1, <2>2
<1> HIDE DEF all
<1>6. TextsOfRows \ all
      = {<<"scenename", n>> : n \in With_name \ Loaded} \cup {<<"json", n>> : n \in With_json \ Loaded}
  BY <1>4, <1>5, Zenon DEF TextsOfRows
<1> QED  BY <1>6 DEF LeftBehind, NamesOfRemaining, all

(* Before the rows are loaded.                                             *)
LEMMA ScoresInvInit == ScoresInit => ScoresInv
<1> SUFFICES ASSUME ScoresInit PROVE ScoresInv
  OBVIOUS
<1> PICK n \in 0 .. MaxScoreRows : sc_rows \in [1 .. n -> ScoreRows]
  BY DEF ScoresInit
<1>1. n \in Nat /\ Len(sc_rows) = n
  BY LenOf, ScoresAssumption
<1>2. sc_list = <<>> /\ Len(sc_list) = 0 /\ sc_list \in [1 .. 0 -> Element]
  <2>1. Len(<<>>) = 0 /\ <<>> \in [1 .. 0 -> Element]
    OBVIOUS
  <2> QED  BY <2>1 DEF ScoresInit
<1>3. ScoresType
  <2>1. Len(sc_rows) \in Nat /\ sc_rows \in [1 .. Len(sc_rows) -> ScoreRows]
    BY <1>1
  <2>2. Len(sc_list) \in Nat /\ sc_list \in [1 .. Len(sc_list) -> Element]
    BY <1>2
  <2>3. sc_pc = "load" /\ sc_i = 1
    BY DEF ScoresInit
  <2>4. sc_pc \in {"load", "unknown", "sort"} \cup Sorted /\ sc_i \in Nat \ {0}
    BY <2>3
  <2>5. sc_scenes \in SceneTables /\ sc_stack \in Stack
    BY Zenon DEF ScoresInit
  <2> QED  BY <2>1, <2>2, <2>4, <2>5, Zenon DEF ScoresType
<1> QED  BY <1>2, <1>3 DEF ScoresInit, ScoresInv, ListIsOfRows, NeighboursDiffer, ListIsSorted, TextsAreKept,
                     StringsFreedOnce, ClassIsOfList, Sorted

(* What is read from the rows stays so while the tables do.                *)
LEMMA RowsStay ==
  ASSUME UNCHANGED <<sc_rows, sc_scenes, sc_stack>>
  PROVE  /\ Loaded' = Loaded /\ (\A n : Entry(n)' = Entry(n)) /\ (\A n : Pointed(n)' = Pointed(n))
         /\ TextsOfRows' = TextsOfRows /\ With_name' = With_name /\ With_json' = With_json
         /\ totalcredit' = totalcredit /\ sc_rows' = sc_rows /\ sc_scenes' = sc_scenes
<1>1. /\ Loaded' = Loaded /\ With_name' = With_name /\ With_json' = With_json
      /\ With_score' = With_score /\ With_credit' = With_credit
  BY DEF Loaded, With_name, With_json, With_score, With_credit
<1>2. \A n : Entry(n)' = Entry(n)
  BY <1>1 DEF Entry
<1>3. NoText' = NoText
  BY DEF NoText
<1>4. \A n : Pointed(n)' = Pointed(n)
  BY <1>2, <1>3 DEF Pointed
<1>5. TextsOfRows' = TextsOfRows
  BY <1>1 DEF TextsOfRows
<1>6. totalcredit' = totalcredit
  BY DEF totalcredit, Credit_of
<1> QED  BY <1>1, <1>2, <1>4, <1>5, <1>6

(* The list is the first rows, as they come.                               *)
LEMMA LoadKeeps ==
  ASSUME ScoresInv, db_load_scores
  PROVE  ScoresInv'
<1> DEFINE m == Len(sc_rows)
<1>1. \E n \in 0 .. m : Loaded = 1 .. n
  <2> DEFINE n == IF m <= _maxscore_num THEN m ELSE _maxscore_num
  <2>1. n \in 0 .. m /\ Loaded = 1 .. n
    BY ScoresAssumption DEF ScoresInv, ScoresType, Loaded
  <2> QED  BY <2>1
<1> PICK n \in 0 .. m : Loaded = 1 .. n
  BY <1>1
<1>2. ScoresType /\ n \in Nat /\ m \in Nat /\ n <= m
  BY DEF ScoresInv, ScoresType
<1>3. sc_list' = [k \in 1 .. n |-> Entry(k)] /\ \A k \in 1 .. n : Entry(k) \in Element
  BY <1>2, EntryIsElement DEF db_load_scores
<1>4. Len(sc_list') = n
  BY <1>2, <1>3, LenOf
<1>5. ScoresType'
  BY <1>2, <1>3, <1>4 DEF ScoresType, db_load_scores
<1>6. UNCHANGED <<sc_rows, sc_scenes, sc_stack>> /\ sc_pc' = "sort"
  BY DEF db_load_scores
<1>7. /\ Loaded' = Loaded /\ (\A k : Entry(k)' = Entry(k)) /\ (\A k : Pointed(k)' = Pointed(k))
      /\ TextsOfRows' = TextsOfRows /\ sc_rows' = sc_rows
  BY <1>6, RowsStay
<1>8. \A k \in 1 .. n : /\ sc_list'[k].id = k /\ sc_list'[k] = Entry(k)
                        /\ sc_list'[k].scene = sc_rows[k].scene
                        /\ sc_list'[k].fscore = Entry(k).fscore /\ Entry(k).fscore \in Int
  <2>1. \A e \in Element : e.fscore \in Int
    BY DEF Element
  <2> QED  BY <1>2, <1>3, <2>1, EntryIsElement
<1>9. DOMAIN sc_list' = 1 .. n
  BY <1>3
<1>10. ListIsOfRows'
  <2>1. \A k \in 1 .. n : sc_list'[k].id \in Loaded' /\ sc_list'[k] = Entry(sc_list[k].id)'
    <3>1. \A k \in 1 .. n : Entry(sc_list[k].id)' = Entry(sc_list'[k].id)
      BY <1>6, RowsStay DEF Entry
    <3> QED  BY <1>7, <1>8, <3>1
  <2>2. \A j \in Loaded' : \E k \in 1 .. n : sc_list'[k].scene = sc_rows'[j].scene /\ sc_list'[k].fscore >= Entry(j)'.fscore
    <3> TAKE j \in Loaded'
    <3>1. j \in 1 .. n /\ Entry(j)' = Entry(j)
      BY <1>7
    <3>2. sc_list'[j].scene = sc_rows'[j].scene /\ sc_list'[j].fscore >= Entry(j)'.fscore
      BY <1>7, <1>8, <3>1
    <3> QED  BY <3>1, <3>2
  <2>3. \A k, l \in 1 .. n : sc_list'[k].id = sc_list'[l].id => k = l
    BY <1>8
  <2>4. Len(sc_list') <= Len(sc_rows')
    BY <1>2, <1>4, <1>6
  <2>5. RowsOfList'
    BY <1>9, <2>1 DEF RowsOfList
  <2>6. OnceInList'
    BY <1>9, <2>3 DEF OnceInList
  <2>7. BestInList'
    BY <1>9, <2>2 DEF BestInList
  <2> QED  BY <1>6, <2>4, <2>5, <2>6, <2>7 DEF ListIsOfRows
<1>11. TextsAreKept'
  <2>1. Listed' = Loaded
    BY <1>8, <1>9 DEF Listed
  <2>2. Freed' = {}
    BY <1>7, <2>1 DEF Freed
  <2>3. sc_live' = TextsOfRows
    BY DEF db_load_scores, TextsOfRows
  <2> QED  BY <1>6, <1>7, <2>2, <2>3 DEF TextsAreKept, StringsFreedOnce
<1>12. NeighboursDiffer' /\ ListIsSorted' /\ ClassIsOfList'
  BY <1>6 DEF NeighboursDiffer, ListIsSorted, ClassIsOfList, Sorted
<1> QED  BY <1>5, <1>10, <1>11, <1>12 DEF ScoresInv

(* Nothing is loaded.                                                      *)
LEMMA FailKeeps ==
  ASSUME ScoresInv, NothingLoaded
  PROVE  ScoresInv'
<1>1. sc_list = <<>> /\ Len(sc_list) = 0 /\ sc_live = {} /\ ScoresType
  BY DEF ScoresInv, NothingLoaded, ListIsOfRows, TextsAreKept
<1>2. CASE sc_pc' = "sort" /\ sc_rows' = <<>>
  <2>1. Len(sc_rows') = 0 /\ DOMAIN sc_rows' = {} /\ sc_rows' \in [1 .. 0 -> ScoreRows] /\ DOMAIN sc_list' = {}
    BY <1>1, <1>2 DEF NothingLoaded
  <2>2. ScoresType'
    BY <1>1, <1>2, <2>1 DEF ScoresType, NothingLoaded
  <2>3. Loaded' = {} /\ TextsOfRows' = {}
    BY <2>1 DEF Loaded, TextsOfRows, With_name, With_json
  <2>4. ListIsOfRows'
    BY <1>1, <1>2, <2>1, <2>3 DEF ListIsOfRows, RowsOfList, OnceInList, BestInList, NothingLoaded
  <2>5. TextsAreKept'
    BY <1>1, <1>2, <2>3 DEF TextsAreKept, StringsFreedOnce, NothingLoaded
  <2> QED  BY <1>2, <2>2, <2>4, <2>5
           DEF ScoresInv, NeighboursDiffer, ListIsSorted, ClassIsOfList, Sorted
<1>3. CASE sc_pc' = "unknown" /\ UNCHANGED sc_rows
  <2>1. ScoresType'
    BY <1>1, <1>3 DEF ScoresType, NothingLoaded
  <2> QED  BY <1>3, <2>1 DEF ScoresInv, ListIsOfRows, NeighboursDiffer, ListIsSorted, TextsAreKept, StringsFreedOnce,
                            ClassIsOfList, Sorted
<1> QED  BY <1>2, <1>3 DEF NothingLoaded

(* The same elements in another order are the same list of rows.           *)
LEMMA PermutedIsOfRows ==
  ASSUME ScoresInv, sc_pc = "sort", UNCHANGED <<sc_rows, sc_scenes, sc_stack, sc_live>>, sc_pc' = "shrink",
         NEW p \in Bijection(DOMAIN sc_list, DOMAIN sc_list),
         sc_list' = [k \in DOMAIN sc_list |-> sc_list[p[k]]]
  PROVE  /\ sc_list' \in [DOMAIN sc_list -> Element] /\ Len(sc_list') = Len(sc_list)
         /\ ListIsOfRows' /\ TextsAreKept'
<1> DEFINE m == Len(sc_list)
<1>1. ScoresType /\ ListIsOfRows /\ TextsAreKept /\ m \in Nat /\ DOMAIN sc_list = 1 .. m
  BY DEF ScoresInv, ScoresType
<1>2. sc_list \in [1 .. m -> Element]
  BY <1>1 DEF ScoresType
<1> HIDE DEF m
<1>3. /\ p \in [1 .. m -> 1 .. m]
      /\ \A k, l \in 1 .. m : p[k] = p[l] => k = l
      /\ \A k \in 1 .. m : \E l \in 1 .. m : p[l] = k
  BY <1>1 DEF Bijection, Injection, Surjection, IsInjective
<1>4. sc_list' \in [1 .. m -> Element] /\ \A k \in 1 .. m : sc_list'[k] = sc_list[p[k]]
  BY <1>1, <1>2, <1>3
<1>5. Len(sc_list') = m /\ DOMAIN sc_list' = 1 .. m
  BY <1>1, <1>4, LenOf
<1>6. /\ Loaded' = Loaded /\ (\A n : Entry(n)' = Entry(n)) /\ (\A n : Pointed(n)' = Pointed(n))
      /\ TextsOfRows' = TextsOfRows /\ sc_rows' = sc_rows
  BY RowsStay
<1>7. /\ \A k \in 1 .. m : sc_list[k].id \in Loaded /\ sc_list[k] = Entry(sc_list[k].id)
      /\ \A k, l \in 1 .. m : sc_list[k].id = sc_list[l].id => k = l
      /\ \A n \in Loaded : \E k \in 1 .. m :
           sc_list[k].scene = sc_rows[n].scene /\ sc_list[k].fscore >= Entry(n).fscore
      /\ m <= Len(sc_rows)
  BY <1>1 DEF ListIsOfRows, RowsOfList, OnceInList, BestInList, m
<1>8. \A k \in 1 .. m : p[k] \in 1 .. m
  BY <1>3
<1>9. ListIsOfRows'
  <2>1. \A k \in 1 .. m : sc_list'[k].id \in Loaded /\ sc_list'[k] = Entry(sc_list'[k].id)
    BY <1>4, <1>7, <1>8
  <2>2. \A k, l \in 1 .. m : sc_list'[k].id = sc_list'[l].id => k = l
    <3> SUFFICES ASSUME NEW k \in 1 .. m, NEW l \in 1 .. m, sc_list'[k].id = sc_list'[l].id PROVE k = l
      OBVIOUS
    <3>1. sc_list[p[k]].id = sc_list[p[l]].id /\ p[k] \in 1 .. m /\ p[l] \in 1 .. m
      BY <1>4, <1>8
    <3>2. p[k] = p[l]
      BY <1>7, <3>1
    <3> QED  BY <1>3, <3>2
  <2>3. \A n \in Loaded : \E k \in 1 .. m :
             sc_list'[k].scene = sc_rows[n].scene /\ sc_list'[k].fscore >= Entry(n).fscore
    <3> TAKE n \in Loaded
    <3>1. PICK k \in 1 .. m : sc_list[k].scene = sc_rows[n].scene /\ sc_list[k].fscore >= Entry(n).fscore
      BY <1>7
    <3>2. PICK l \in 1 .. m : p[l] = k
      BY <1>3
    <3>3. sc_list'[l] = sc_list[k]
      BY <1>4, <3>2
    <3> QED  BY <3>1, <3>3
  <2>4. \A n \in Loaded : \E k \in 1 .. m :
             sc_list'[k].scene = sc_rows[n].scene /\ sc_list'[k].fscore >= Entry(n)'.fscore
    BY <1>6, <2>3
  <2>5. \A k \in 1 .. m : sc_list'[k] = Entry(sc_list[k].id)'
    <3>1. \A k \in 1 .. m : Entry(sc_list[k].id)' = Entry(sc_list'[k].id)
      BY RowsStay DEF Entry
    <3> QED  BY <2>1, <3>1
  <2>6. \A k \in 1 .. m : sc_list'[k].id \in Loaded'
    BY <1>6, <2>1
  <2>7. Len(sc_list') <= Len(sc_rows')
    BY <1>5, <1>6, <1>7
  <2>8. \A n \in Loaded' : \E k \in 1 .. m :
             sc_list'[k].scene = sc_rows'[n].scene /\ sc_list'[k].fscore >= Entry(n)'.fscore
    BY <1>6, <2>4
  <2>9. RowsOfList'
    BY <1>5, <2>5, <2>6 DEF RowsOfList
  <2>10. OnceInList'
    BY <1>5, <2>2 DEF OnceInList
  <2>11. BestInList'
    BY <1>5, <2>8 DEF BestInList
  <2> QED  BY <2>7, <2>9, <2>10, <2>11 DEF ListIsOfRows
<1>10. Listed' = Listed
  <2>1. \A k \in 1 .. m : sc_list'[k].id = sc_list[p[k]].id
    BY <1>4
  <2>2. Listed = {sc_list[k].id : k \in 1 .. m} /\ Listed' = {sc_list'[k].id : k \in 1 .. m}
    BY <1>1, <1>5 DEF Listed
  <2>3. \A k \in 1 .. m : \E l \in 1 .. m : sc_list'[l].id = sc_list[k].id
    <3> TAKE k \in 1 .. m
    <3>1. PICK l \in 1 .. m : p[l] = k
      BY <1>3
    <3> QED  BY <2>1, <3>1
  <2>4. Listed \subseteq Listed'
    BY <2>2, <2>3
  <2>5. Listed' \subseteq Listed
    BY <1>8, <2>1, <2>2
  <2> QED  BY <2>4, <2>5
<1>11. Freed' = Freed
  BY <1>6, <1>10 DEF Freed
<1>12. TextsAreKept'
  BY <1>1, <1>6, <1>11 DEF TextsAreKept, StringsFreedOnce
<1> QED  BY <1>1, <1>4, <1>5, <1>9, <1>12 DEF m

(* Whatever order qsort leaves among equal scenes, the list has the same   *)
(* elements, and neighbours that descend are a list that descends.         *)
LEMMA SortKeeps ==
  ASSUME ScoresInv, SortScores
  PROVE  ScoresInv'
<1> DEFINE m == Len(sc_list)
<1>1. ScoresType /\ ListIsOfRows /\ sc_pc = "sort" /\ m \in Nat /\ DOMAIN sc_list = 1 .. m /\ sc_i' = 1
      /\ UNCHANGED <<sc_rows, sc_scenes, sc_stack, sc_live>> /\ sc_pc' = "shrink"
  BY DEF ScoresInv, ScoresType, SortScores
<1>2. PICK p \in Bijection(DOMAIN sc_list, DOMAIN sc_list) : sc_list' = [k \in DOMAIN sc_list |-> sc_list[p[k]]]
  BY <1>1 DEF SortScores, SortOutcomes
<1>3. sc_list' \in [1 .. m -> Element] /\ Len(sc_list') = m /\ ListIsOfRows' /\ TextsAreKept'
  BY <1>1, <1>2, PermutedIsOfRows
<1>4. DOMAIN sc_list' = 1 .. m
  BY <1>3
<1>5. Len(sc_rows) <= SelectionSort => \A k \in 1 .. m - 1 : sc_list'[k].scene >= sc_list'[k + 1].scene
  <2>1. m <= Len(sc_rows) /\ Len(sc_rows) \in Nat
    BY <1>1 DEF ListIsOfRows, ScoresType
  <2>2. Len(sc_list) <= SelectionSort => \A k \in 1 .. Len(sc_list) - 1 : sc_list'[k].scene >= sc_list'[k + 1].scene
    BY DEF SortScores, SortOutcomes
  <2> QED  BY <1>1, <2>1, <2>2, ScoresAssumption
<1> HIDE DEF m
<1>6. ScoresType'
  <2>1. Len(sc_list') \in Nat /\ sc_list' \in [1 .. Len(sc_list') -> Element]
    BY <1>1, <1>3
  <2> QED  BY <1>1, <2>1 DEF ScoresType, Sorted
<1>7. ASSUME Len(sc_rows) <= SelectionSort
      PROVE  \A k \in 1 .. m : \A l \in k .. m : sc_list'[k].scene >= sc_list'[l].scene
  <2> SUFFICES ASSUME NEW k \in 1 .. m PROVE \A l \in k .. m : sc_list'[k].scene >= sc_list'[l].scene
    OBVIOUS
  <2> DEFINE S == {d \in 0 .. m : k + d <= m => sc_list'[k].scene >= sc_list'[k + d].scene}
  <2>1. \A l \in 1 .. m : sc_list'[l].scene \in Int
    BY <1>3 DEF Element
  <2>2. 0 \in S
    BY <1>1, <2>1
  <2>3. ASSUME NEW d \in 1 .. m, d - 1 \in S PROVE d \in S
    <3> SUFFICES ASSUME k + d <= m PROVE sc_list'[k].scene >= sc_list'[k + d].scene
      OBVIOUS
    <3> DEFINE l == k + (d - 1)
    <3>1. l \in 1 .. m - 1 /\ l + 1 = k + d /\ l \in 1 .. m /\ l + 1 \in 1 .. m
      BY <1>1
    <3>2. sc_list'[k].scene >= sc_list'[l].scene
      <4>1. d - 1 \in 0 .. m /\ k + (d - 1) <= m
        BY <1>1
      <4> QED  BY <2>3, <4>1
    <3> HIDE DEF l
    <3>3. sc_list'[l].scene >= sc_list'[l + 1].scene
      BY <1>5, <1>7, <3>1
    <3> QED  BY <2>1, <3>1, <3>2, <3>3
  <2>4. 0 .. m \subseteq S
    <3>1. \A d \in 1 .. m : d - 1 \in S => d \in S
      BY <2>3
    <3> HIDE DEF S
    <3> QED  BY <1>1, <2>2, <3>1, UpTo
  <2> TAKE l \in k .. m
  <2>5. l - k \in 0 .. m /\ k + (l - k) = l /\ l <= m
    BY <1>1
  <2>6. l - k \in S
    BY <2>4, <2>5
  <2>7. sc_list'[k].scene >= sc_list'[k + (l - k)].scene
    BY <2>5, <2>6
  <2> QED  BY <2>5, <2>7
<1>8. ListIsSorted'
  <2>1. Len(sc_rows') = Len(sc_rows) /\ ~ Shrunk'
    BY <1>1 DEF Shrunk
  <2>2. \A k \in 1 .. m : ~ (k < 1)
    BY <1>1
  <2> QED  BY <1>1, <1>4, <1>7, <2>1, <2>2 DEF ListIsSorted
<1>9. NeighboursDiffer'
  <2>1. \A k \in 1 .. Len(sc_list') - 1 : ~ (k < 1)
    BY <1>1, <1>3
  <2>2. ~ Shrunk'
    BY <1>1 DEF Shrunk
  <2> QED  BY <1>1, <2>1, <2>2 DEF NeighboursDiffer
<1>10. ClassIsOfList'
  BY <1>1 DEF ClassIsOfList
<1> QED  BY <1>3, <1>6, <1>8, <1>9, <1>10 DEF ScoresInv


(* A score that goes has texts that were not freed before, if no loaded    *)
(* row lacks one.                                                          *)
LEMMA FreesOnce ==
  ASSUME ScoresType, RowsOfList, OnceInList, Loaded \subseteq With_name \cap With_json,
         sc_live = TextsOfRows \ Freed \/ sc_live = (TextsOfRows \ Freed) \cup NamesOfRemaining,
         NEW ks, ks \subseteq DOMAIN sc_list
  PROVE  FreesAllocated(ks)
<1>1. \A k \in ks : sc_list[k].id \in Loaded /\ Texts_of(k) = Pointed(sc_list[k].id) /\ sc_list[k].id \in Listed
  BY DEF RowsOfList, Texts_of, Pointed, Listed
<1>2. \A n \in Loaded : Pointed(n) = {<<"scenename", n>>, <<"json", n>>} /\ Pointed(n) \subseteq TextsOfRows
  BY OwnTexts
<1>3. \A n, m \in Loaded : n # m => Pointed(n) \cap Pointed(m) = {}
  BY <1>2
<1>4. \A k \in ks : Texts_of(k) \subseteq sc_live
  <2> TAKE k \in ks
  <2> DEFINE n == sc_list[k].id
  <2>1. n \in Loaded /\ Texts_of(k) = Pointed(n) /\ n \in Listed
    BY <1>1
  <2> HIDE DEF n
  <2>2. Pointed(n) \cap Freed = {}
    BY <1>3, <2>1 DEF Freed
  <2> QED  BY <1>2, <2>1, <2>2
<1>5. ASSUME NEW k \in ks, NEW l \in ks, k # l PROVE Texts_of(k) \cap Texts_of(l) = {}
  <2>1. sc_list[k].id # sc_list[l].id
    BY <1>5 DEF OnceInList
  <2> QED  BY <1>1, <1>3, <2>1
<1> QED  BY <1>4, <1>5 DEF FreesAllocated

(* Where the scores stand when the neighbour x of two of one scene goes,   *)
(* at i or behind it; the other one has as many points at least.           *)
LEMMA RemovalKeeps ==
  ASSUME ScoresInv, sc_pc = "shrink", sc_i < Len(sc_list), SameScene(sc_i),
         UNCHANGED <<sc_rows, sc_scenes, sc_stack, sc_i, sc_pc>>,
         sc_list' = RemoveAt(sc_list, Loser(sc_i)),
         sc_live' = sc_live \ Texts_of(Loser(sc_i))
  PROVE  ScoresInv'
<1> DEFINE m == Len(sc_list)
           i == sc_i
           x == Loser(i)
           y == IF x = i THEN i + 1 ELSE i
           Old(k) == IF k < x THEN k ELSE k + 1
<1>1. /\ ScoresType /\ RowsOfList /\ OnceInList /\ BestInList /\ NeighboursDiffer /\ ListIsSorted /\ TextsAreKept
      /\ m \in Nat /\ DOMAIN sc_list = 1 .. m /\ i \in 1 .. m - 1 /\ sc_list \in [1 .. m -> Element]
      /\ m <= Len(sc_rows) /\ Len(sc_rows) \in Nat
  BY DEF ScoresInv, ScoresType, ListIsOfRows, Sorted
<1>2. /\ Loaded' = Loaded /\ (\A n : Entry(n)' = Entry(n)) /\ (\A n : Pointed(n)' = Pointed(n))
      /\ TextsOfRows' = TextsOfRows /\ sc_rows' = sc_rows
  BY RowsStay
<1>3. \A k \in 1 .. m : sc_list[k].scene \in Int /\ sc_list[k].fscore \in Int
  <2>1. \A e \in Element : e.scene \in Int /\ e.fscore \in Int
    BY DEF Element
  <2>2. \A k \in 1 .. m : sc_list[k] \in Element
    BY <1>1
  <2> QED  BY <2>1, <2>2
<1>4. x \in {i, i + 1} /\ x \in 1 .. m /\ y \in 1 .. m /\ x # y
  BY <1>1 DEF Loser
<1>5. sc_list[y].scene = sc_list[x].scene /\ sc_list[y].fscore >= sc_list[x].fscore
      /\ sc_list[i].scene = sc_list[i + 1].scene
  <2>1. i \in 1 .. m /\ i + 1 \in 1 .. m
    BY <1>1
  <2> QED  BY <1>3, <2>1 DEF SameScene, Loser
<1>6. sc_list \in Seq(Element)
  BY <1>1, LenOf
<1>7. sc_list' = RemoveAt(sc_list, x) /\ sc_live' = sc_live \ Texts_of(x) /\ sc_i' = i
  OBVIOUS
<1> HIDE DEF x, y
<1>8. /\ RemoveAt(sc_list, x) \in Seq(Element) /\ Len(RemoveAt(sc_list, x)) = m - 1
      /\ \A k \in 1 .. m - 1 : RemoveAt(sc_list, x)[k] = IF k < x THEN sc_list[k] ELSE sc_list[k + 1]
  BY <1>4, <1>6, RemoveAtIs
<1>9. /\ Len(sc_list') = m - 1 /\ sc_list' \in [1 .. m - 1 -> Element] /\ DOMAIN sc_list' = 1 .. m - 1
  BY <1>7, <1>8, LenProperties
<1>10. \A k \in 1 .. m - 1 : Old(k) \in 1 .. m /\ Old(k) # x /\ sc_list'[k] = sc_list[Old(k)]
  BY <1>1, <1>4, <1>7, <1>8
<1>11. \A k \in 1 .. m - 1, l \in 1 .. m - 1 : (Old(k) = Old(l) => k = l) /\ (k <= l => Old(k) <= Old(l))
  BY <1>1, <1>4
<1>12. \A k \in 1 .. m : k # x => \E l \in 1 .. m - 1 : Old(l) = k
  <2> SUFFICES ASSUME NEW k \in 1 .. m, k # x PROVE \E l \in 1 .. m - 1 : Old(l) = k
    OBVIOUS
  <2>1. CASE k < x
    <3>1. k \in 1 .. m - 1 /\ Old(k) = k
      BY <1>1, <1>4, <2>1
    <3> QED  BY <3>1
  <2>2. CASE k > x
    <3>1. k - 1 \in 1 .. m - 1 /\ Old(k - 1) = k
      BY <1>1, <1>4, <2>2
    <3> QED  BY <3>1
  <2> QED  BY <1>1, <1>4, <2>1, <2>2
<1>13. \A k \in 1 .. m - 1 : (k < i => Old(k) = k) /\ (k < i - 1 => Old(k + 1) = k + 1)
  BY <1>1, <1>4
<1>14. i - 1 \in 1 .. m - 2 => Old(i - 1) = i - 1 /\ Old(i) \in {i, i + 1}
  BY <1>1, <1>4
<1> HIDE DEF Old
<1>15. ScoresType'
  <2>1. Len(sc_list') \in Nat /\ sc_list' \in [1 .. Len(sc_list') -> Element]
    BY <1>1, <1>9
  <2> QED  BY <1>1, <2>1 DEF ScoresType
<1>16. ListIsOfRows'
  <2>1. \A k \in 1 .. m - 1 : sc_list'[k].id \in Loaded /\ sc_list'[k] = Entry(sc_list'[k].id)
    BY <1>1, <1>10 DEF RowsOfList
  <2>2. RowsOfList'
    <3>1. \A k \in 1 .. m - 1 : sc_list'[k] = Entry(sc_list[k].id)'
      <4>1. \A k \in 1 .. m - 1 : Entry(sc_list[k].id)' = Entry(sc_list'[k].id)
        BY RowsStay DEF Entry
      <4> QED  BY <2>1, <4>1
    <3> QED  BY <1>2, <1>9, <2>1, <3>1 DEF RowsOfList
  <2>3. OnceInList'
    <3>1. ASSUME NEW k \in 1 .. m - 1, NEW l \in 1 .. m - 1, sc_list'[k].id = sc_list'[l].id PROVE k = l
      <4>1. sc_list[Old(k)].id = sc_list[Old(l)].id /\ Old(k) \in 1 .. m /\ Old(l) \in 1 .. m
        BY <1>10, <3>1
      <4>2. Old(k) = Old(l)
        BY <1>1, <4>1 DEF OnceInList
      <4> QED  BY <1>11, <4>2
    <3> QED  BY <1>9, <3>1 DEF OnceInList
  <2>4. BestInList'
    <3>1. ASSUME NEW n \in Loaded
          PROVE  \E k \in 1 .. m - 1 : /\ sc_list'[k].scene = sc_rows[n].scene
                                       /\ sc_list'[k].fscore >= Entry(n).fscore
      <4>1. PICK k \in 1 .. m : sc_list[k].scene = sc_rows[n].scene /\ sc_list[k].fscore >= Entry(n).fscore
        BY <1>1 DEF BestInList
      <4>2. \E j \in 1 .. m : j # x /\ sc_list[j].scene = sc_rows[n].scene
                              /\ sc_list[j].fscore >= Entry(n).fscore
        <5>1. CASE k # x
          BY <4>1, <5>1
        <5>2. CASE k = x
          <6>1. sc_list[y].fscore \in Int /\ sc_list[x].fscore \in Int
            BY <1>3, <1>4
          <6>2. Entry(n).fscore \in Int
            <7>1. Entry(n) \in Element
              BY <1>1, EntryIsElement
            <7> QED  BY <7>1 DEF Element
          <6>3. sc_list[y].fscore >= Entry(n).fscore
            BY <1>5, <4>1, <5>2, <6>1, <6>2
          <6> QED  BY <1>4, <1>5, <4>1, <5>2, <6>3
        <5> QED  BY <5>1, <5>2
      <4>3. PICK j \in 1 .. m : j # x /\ sc_list[j].scene = sc_rows[n].scene
                                /\ sc_list[j].fscore >= Entry(n).fscore
        BY <4>2
      <4>4. PICK l \in 1 .. m - 1 : Old(l) = j
        BY <1>12, <4>3
      <4>5. sc_list'[l] = sc_list[j]
        BY <1>10, <4>4
      <4> QED  BY <4>3, <4>5
    <3>2. \A n \in Loaded' : \E k \in 1 .. m - 1 :
             sc_list'[k].scene = sc_rows'[n].scene /\ sc_list'[k].fscore >= Entry(n)'.fscore
      BY <1>2, <3>1
    <3> QED  BY <1>9, <3>2 DEF BestInList
  <2>5. Len(sc_list') <= Len(sc_rows')
    BY <1>1, <1>2, <1>9
  <2> QED  BY <2>2, <2>3, <2>4, <2>5 DEF ListIsOfRows
<1>17. NeighboursDiffer'
  <2>1. \A k \in 1 .. m - 1 : k < i => sc_list[k].scene # sc_list[k + 1].scene
    BY <1>1 DEF NeighboursDiffer, Sorted, SameScene
  <2>2. ASSUME NEW k \in 1 .. m - 2, k < i PROVE sc_list'[k].scene # sc_list'[k + 1].scene
    <3>1. k \in 1 .. m - 1 /\ k + 1 \in 1 .. m - 1 /\ Old(k) = k /\ sc_list'[k] = sc_list[k]
      BY <1>1, <1>10, <1>13, <2>2
    <3>2. sc_list'[k + 1].scene = sc_list[k + 1].scene
      <4>1. CASE k < i - 1
        BY <1>10, <1>13, <3>1, <4>1
      <4>2. CASE k = i - 1
        <5>1. Old(i) \in {i, i + 1} /\ sc_list'[i] = sc_list[Old(i)] /\ k + 1 = i
          BY <1>1, <1>10, <1>14, <3>1, <4>2
        <5> QED  BY <1>5, <5>1
      <4> QED  BY <1>1, <2>2, <4>1, <4>2
    <3> QED  BY <2>1, <2>2, <3>1, <3>2
  <2>3. ~ Shrunk'
    BY DEF Shrunk
  <2>4. Len(sc_list') - 1 = m - 2
    BY <1>1, <1>9
  <2> QED  BY <1>7, <2>2, <2>3, <2>4 DEF NeighboursDiffer, SameScene
<1>18. ListIsSorted'
  <2> SUFFICES ASSUME Len(sc_rows) <= SelectionSort
               PROVE  /\ \A k \in 1 .. m - 1, l \in 1 .. m - 1 : k <= l => sc_list'[k].scene >= sc_list'[l].scene
                      /\ \A k \in 1 .. m - 1, l \in 1 .. m - 1 : k < l /\ k < i => sc_list'[k].scene > sc_list'[l].scene
    <3>1. ~ Shrunk'
      BY DEF Shrunk
    <3> QED  BY <1>2, <1>7, <1>9, <3>1 DEF ListIsSorted
  <2>1. /\ \A k \in 1 .. m, l \in 1 .. m : k <= l => sc_list[k].scene >= sc_list[l].scene
        /\ \A k \in 1 .. m, l \in 1 .. m : k < l /\ k < i => sc_list[k].scene > sc_list[l].scene
    BY <1>1 DEF ListIsSorted, Sorted
  <2>2. ASSUME NEW k \in 1 .. m - 1, NEW l \in 1 .. m - 1, k <= l PROVE sc_list'[k].scene >= sc_list'[l].scene
    <3>1. Old(k) <= Old(l) /\ Old(k) \in 1 .. m /\ Old(l) \in 1 .. m
      BY <1>10, <1>11, <2>2
    <3>2. sc_list[Old(k)].scene >= sc_list[Old(l)].scene
      BY <2>1, <3>1
    <3> QED  BY <1>10, <3>2
  <2>3. ASSUME NEW k \in 1 .. m - 1, NEW l \in 1 .. m - 1, k < l, k < i
        PROVE  sc_list'[k].scene > sc_list'[l].scene
    <3>1. Old(k) = k /\ Old(k) <= Old(l) /\ Old(k) # Old(l) /\ Old(k) \in 1 .. m /\ Old(l) \in 1 .. m
      BY <1>10, <1>11, <1>13, <2>3
    <3>2. sc_list[Old(k)].scene > sc_list[Old(l)].scene
      <4>1. Old(k) < Old(l) /\ Old(k) < i
        BY <2>3, <3>1
      <4> QED  BY <2>1, <3>1, <4>1
    <3> QED  BY <1>10, <3>2
  <2>4. \A k \in 1 .. m - 1, l \in 1 .. m - 1 : k <= l => sc_list'[k].scene >= sc_list'[l].scene
    BY <2>2
  <2>5. \A k \in 1 .. m - 1, l \in 1 .. m - 1 : k < l /\ k < i => sc_list'[k].scene > sc_list'[l].scene
    BY <2>3
  <2> QED  BY <2>4, <2>5
<1>19. TextsAreKept'
  <2> DEFINE gone == sc_list[x].id
  <2>1. Listed = {sc_list[k].id : k \in 1 .. m} /\ Listed' = {sc_list'[k].id : k \in 1 .. m - 1}
    BY <1>1, <1>9 DEF Listed
  <2>2. Listed' \subseteq Listed \ {gone}
    <3>1. \A k \in 1 .. m - 1 : /\ sc_list'[k].id = sc_list[Old(k)].id
                                /\ Old(k) \in 1 .. m /\ sc_list[Old(k)].id # gone
      BY <1>1, <1>4, <1>10 DEF OnceInList
    <3> QED  BY <2>1, <3>1
  <2>3. Listed \ {gone} \subseteq Listed'
    <3>1. ASSUME NEW k \in 1 .. m, k # x PROVE \E l \in 1 .. m - 1 : sc_list'[l].id = sc_list[k].id
      <4>1. PICK l \in 1 .. m - 1 : Old(l) = k
        BY <1>12, <3>1
      <4> QED  BY <1>10, <4>1
    <3> QED  BY <2>1, <3>1
  <2>4. gone \in Listed /\ gone \in Loaded /\ Texts_of(x) = Pointed(gone)
    BY <1>1, <1>4, <2>1 DEF RowsOfList, Texts_of, Pointed
  <2>5. Freed' = Freed \cup Pointed(gone)
    <3>1. Listed' = Listed \ {gone}
      BY <2>2, <2>3
    <3> HIDE DEF gone
    <3>2. Loaded' \ Listed' = (Loaded \ Listed) \cup {gone}
      BY <1>2, <2>4, <3>1
    <3> QED  BY <1>2, <3>2 DEF Freed
  <2>6. sc_live = TextsOfRows \ Freed
    BY <1>1 DEF TextsAreKept
  <2>7. sc_live' = TextsOfRows' \ Freed'
    BY <1>2, <1>7, <2>4, <2>5, <2>6
  <2> QED  BY <2>7 DEF TextsAreKept, StringsFreedOnce
<1>20. ClassIsOfList'
  BY DEF ClassIsOfList
<1> QED  BY <1>15, <1>16, <1>17, <1>18, <1>19, <1>20 DEF ScoresInv

(* Nothing changes but where the request stands and the index.             *)
LEMMA ListStays ==
  ASSUME ScoresInv, UNCHANGED <<sc_rows, sc_scenes, sc_stack, sc_list>>
  PROVE  /\ Loaded' = Loaded /\ Listed' = Listed /\ Freed' = Freed /\ TextsOfRows' = TextsOfRows
         /\ With_name' = With_name /\ With_json' = With_json
         /\ NamesOfRemaining' = NamesOfRemaining /\ LeftBehind' = LeftBehind /\ totalcredit' = totalcredit
         /\ Numerator' = Numerator /\ Denominator' = Denominator
         /\ sc_pc \in {"sort"} \cup Sorted => RowsOfList' /\ OnceInList' /\ BestInList' /\ Len(sc_list') <= Len(sc_rows')
         /\ \A k : SameScene(k)' = SameScene(k)
<1>1. /\ Loaded' = Loaded /\ (\A n : Entry(n)' = Entry(n)) /\ (\A n : Pointed(n)' = Pointed(n))
      /\ TextsOfRows' = TextsOfRows /\ With_name' = With_name /\ With_json' = With_json
      /\ totalcredit' = totalcredit
  BY RowsStay
<1>2. Listed' = Listed /\ Remaining' = Remaining
  BY DEF Listed, Remaining
<1>3. Freed' = Freed /\ NamesOfRemaining' = NamesOfRemaining /\ LeftBehind' = LeftBehind
  BY <1>1, <1>2 DEF Freed, NamesOfRemaining, LeftBehind
<1>4. Numerator' = Numerator /\ Denominator' = Denominator
  BY <1>1 DEF Numerator, Denominator, obtained_credits, obtained_fscore
<1>5. ASSUME sc_pc \in {"sort"} \cup Sorted PROVE RowsOfList' /\ OnceInList' /\ BestInList' /\ Len(sc_list') <= Len(sc_rows')
  <2>1. RowsOfList /\ OnceInList /\ BestInList /\ Len(sc_list) <= Len(sc_rows)
    BY <1>5 DEF ScoresInv, ListIsOfRows
  <2>2. RowsOfList'
    <3>1. \A k \in DOMAIN sc_list : Entry(sc_list[k].id)' = Entry(sc_list[k].id)
      BY RowsStay DEF Entry
    <3> QED  BY <1>1, <2>1, <3>1 DEF RowsOfList
  <2>3. OnceInList' /\ Len(sc_list') <= Len(sc_rows')
    BY <2>1 DEF OnceInList
  <2>4. BestInList'
    BY <1>1, <2>1 DEF BestInList
  <2> QED  BY <2>2, <2>3, <2>4
<1>6. \A k : SameScene(k)' = SameScene(k)
  BY DEF SameScene
<1> QED  BY <1>1, <1>2, <1>3, <1>4, <1>5, <1>6

(* scores_shrink passes by two scenes that differ, drops a score, or frees *)
(* what is not allocated.                                                  *)
LEMMA ShrinkKeeps ==
  ASSUME ScoresInv, scores_shrink
  PROVE  ScoresInv'
<1> DEFINE m == Len(sc_list)
           i == sc_i
<1>1. /\ ScoresType /\ ListIsOfRows /\ NeighboursDiffer /\ ListIsSorted /\ TextsAreKept /\ sc_pc = "shrink"
      /\ m \in Nat /\ DOMAIN sc_list = 1 .. m /\ i \in 1 .. m - 1 /\ sc_list \in [1 .. m -> Element]
      /\ UNCHANGED <<sc_rows, sc_scenes, sc_stack>> /\ Len(sc_rows) \in Nat
      /\ sc_i < Len(sc_list)
  BY DEF ScoresInv, ScoresType, scores_shrink
<1>2. CASE SameScene(i) /\ FreesAllocated({Loser(i)})
  <2>1. /\ sc_list' = RemoveAt(sc_list, Loser(i)) /\ sc_live' = sc_live \ Texts_of(Loser(i))
        /\ sc_i' = sc_i /\ sc_pc' = sc_pc
    BY <1>2 DEF scores_shrink, RemoveScore
  <2> QED  BY <1>1, <1>2, <2>1, RemovalKeeps
<1>3. CASE SameScene(i) /\ ~ FreesAllocated({Loser(i)})
  <2>1. sc_pc' = "twice" /\ UNCHANGED <<sc_list, sc_live, sc_i>>
    BY <1>3 DEF scores_shrink, RemoveScore
  <2>2. /\ RowsOfList' /\ OnceInList' /\ BestInList' /\ Len(sc_list') <= Len(sc_rows') /\ Loaded' = Loaded
        /\ With_name' = With_name /\ With_json' = With_json /\ \A k : SameScene(k)' = SameScene(k)
    BY <1>1, <2>1, ListStays DEF Sorted
  <2>3. ~ Shrunk'
    BY <2>1 DEF Shrunk
  <2>4. ScoresType' /\ ListIsOfRows'
    BY <1>1, <2>1, <2>2 DEF ScoresType, ListIsOfRows, Sorted
  <2>5. NeighboursDiffer'
    BY <1>1, <2>1, <2>2, <2>3 DEF NeighboursDiffer, Sorted
  <2>6. ListIsSorted'
    BY <1>1, <2>1, <2>3 DEF ListIsSorted, Sorted
  <2>7. ~ Loaded \subseteq With_name \cap With_json
    <3> SUFFICES ASSUME Loaded \subseteq With_name \cap With_json PROVE FALSE
      OBVIOUS
    <3>1. Loser(i) \in DOMAIN sc_list
      BY <1>1 DEF Loser
    <3>2. sc_live = TextsOfRows \ Freed
      BY <1>1 DEF TextsAreKept
    <3>3. RowsOfList /\ OnceInList
      BY <1>1 DEF ListIsOfRows, Sorted
    <3> QED  BY <1>1, <1>3, <3>1, <3>2, <3>3, FreesOnce
  <2>8. TextsAreKept' /\ ClassIsOfList'
    BY <2>1, <2>2, <2>7 DEF TextsAreKept, StringsFreedOnce, ClassIsOfList
  <2> QED  BY <2>4, <2>5, <2>6, <2>8 DEF ScoresInv
<1>4. CASE ~ SameScene(i)
  <2>1. sc_i' = i + 1 /\ UNCHANGED <<sc_list, sc_live, sc_pc>>
    BY <1>4 DEF scores_shrink
  <2>2. /\ RowsOfList' /\ OnceInList' /\ BestInList' /\ Len(sc_list') <= Len(sc_rows')
        /\ TextsOfRows' = TextsOfRows /\ Freed' = Freed /\ \A k : SameScene(k)' = SameScene(k)
    BY <1>1, <2>1, ListStays DEF Sorted
  <2>3. ~ Shrunk' /\ ~ Shrunk /\ sc_pc' = "shrink"
    BY <1>1, <2>1 DEF Shrunk
  <2>4. ScoresType' /\ ListIsOfRows'
    BY <1>1, <2>1, <2>2 DEF ScoresType, ListIsOfRows
  <2>5. NeighboursDiffer'
    <3>1. \A k \in 1 .. m - 1 : k < i + 1 => k < i \/ k = i
      BY <1>1
    <3> QED  BY <1>1, <1>4, <2>1, <2>2, <2>3, <3>1 DEF NeighboursDiffer, Sorted
  <2>6. ListIsSorted'
    <3> SUFFICES ASSUME Len(sc_rows) <= SelectionSort
                 PROVE  \A k \in 1 .. m, l \in 1 .. m : k < l /\ k < i + 1 => sc_list[k].scene > sc_list[l].scene
      <4>1. Len(sc_rows) <= SelectionSort => \A k, l \in DOMAIN sc_list : k <= l => sc_list[k].scene >= sc_list[l].scene
        BY <1>1 DEF ListIsSorted, Sorted
      <4> QED  BY <1>1, <2>1, <2>3, <4>1 DEF ListIsSorted
    <3>1. /\ \A k \in 1 .. m, l \in 1 .. m : k <= l => sc_list[k].scene >= sc_list[l].scene
          /\ \A k \in 1 .. m, l \in 1 .. m : k < l /\ k < i => sc_list[k].scene > sc_list[l].scene
      BY <1>1 DEF ListIsSorted, Sorted
    <3>2. \A k \in 1 .. m : sc_list[k].scene \in Int
      <4>1. \A e \in Element : e.scene \in Int
        BY DEF Element
      <4>2. \A k \in 1 .. m : sc_list[k] \in Element
        BY <1>1
      <4> QED  BY <4>1, <4>2
    <3>3. sc_list[i].scene # sc_list[i + 1].scene
      BY <1>4 DEF SameScene
    <3>4. ASSUME NEW l \in 1 .. m, i < l PROVE sc_list[i].scene > sc_list[l].scene
      <4>1. i \in 1 .. m /\ i + 1 \in 1 .. m /\ i <= i + 1 /\ i + 1 <= l
        BY <1>1, <3>4
      <4>2. sc_list[i].scene >= sc_list[i + 1].scene /\ sc_list[i + 1].scene >= sc_list[l].scene
        BY <3>1, <4>1
      <4> QED  BY <3>2, <3>3, <4>1, <4>2
    <3> SUFFICES ASSUME NEW k \in 1 .. m, NEW l \in 1 .. m, k < l, k < i + 1
                 PROVE  sc_list[k].scene > sc_list[l].scene
      OBVIOUS
    <3>5. k = i \/ k < i
      BY <1>1
    <3> QED  BY <3>1, <3>4, <3>5
  <2>7. TextsAreKept' /\ ClassIsOfList'
    BY <1>1, <2>1, <2>2, <2>3 DEF TextsAreKept, StringsFreedOnce, ClassIsOfList
  <2> QED  BY <2>4, <2>5, <2>6, <2>7 DEF ScoresInv
<1> QED  BY <1>2, <1>3, <1>4

(* The steps behind scores_shrink leave the list as it is.                 *)
LEMMA AfterShrinking ==
  ASSUME ScoresInv, UNCHANGED <<sc_rows, sc_scenes, sc_stack, sc_list, sc_i>>,
         sc_pc \in Sorted, sc_pc' \in Sorted, Shrunk \/ sc_i >= Len(sc_list) \/ ~ Shrunk'
  PROVE  ScoresType' /\ ListIsOfRows' /\ NeighboursDiffer' /\ ListIsSorted'
<1>1. /\ RowsOfList' /\ OnceInList' /\ BestInList' /\ Len(sc_list') <= Len(sc_rows')
      /\ \A k : SameScene(k)' = SameScene(k)
  BY ListStays
<1>2. ScoresType /\ NeighboursDiffer /\ ListIsSorted /\ Len(sc_list) \in Nat /\ DOMAIN sc_list = 1 .. Len(sc_list)
      /\ sc_i \in Nat
  BY DEF ScoresInv, ScoresType
<1>3. ScoresType'
  BY <1>2 DEF ScoresType
<1>4. ListIsOfRows'
  BY <1>1 DEF ListIsOfRows, Sorted
<1>5. /\ \A k \in 1 .. Len(sc_list) - 1 : Shrunk' => k < sc_i \/ Shrunk
      /\ \A k, l \in DOMAIN sc_list : k < l /\ Shrunk' => k < sc_i \/ Shrunk
  BY <1>2
<1>6. NeighboursDiffer'
  BY <1>1, <1>2, <1>5 DEF NeighboursDiffer
<1>7. ListIsSorted'
  BY <1>2, <1>5 DEF ListIsSorted
<1> QED  BY <1>3, <1>4, <1>6, <1>7

(* Each step of the request.                                               *)
LEMMA ScoresInvNext == ScoresInv /\ [ScoresNext]_scoresVars => ScoresInv'
<1> SUFFICES ASSUME ScoresInv, [ScoresNext]_scoresVars PROVE ScoresInv'
  OBVIOUS
<1>1. CASE UNCHANGED scoresVars
  <2>1. UNCHANGED <<sc_rows, sc_scenes, sc_stack, sc_list, sc_i, sc_live, sc_pc, sc_class>>
    BY <1>1 DEF scoresVars
  <2>2. /\ Loaded' = Loaded /\ Listed' = Listed /\ Freed' = Freed /\ TextsOfRows' = TextsOfRows
        /\ With_name' = With_name /\ With_json' = With_json
        /\ NamesOfRemaining' = NamesOfRemaining /\ LeftBehind' = LeftBehind /\ totalcredit' = totalcredit
        /\ Numerator' = Numerator /\ Denominator' = Denominator
        /\ sc_pc \in {"sort"} \cup Sorted => RowsOfList' /\ OnceInList' /\ BestInList' /\ Len(sc_list') <= Len(sc_rows')
        /\ \A k : SameScene(k)' = SameScene(k)
    BY <2>1, ListStays
  <2>3. Shrunk' = Shrunk
    BY <2>1 DEF Shrunk
  <2>4. ScoresType' /\ ListIsOfRows'
    BY <2>1, <2>2 DEF ScoresInv, ScoresType, ListIsOfRows
  <2>5. NeighboursDiffer' /\ ListIsSorted'
    BY <2>1, <2>2, <2>3 DEF ScoresInv, NeighboursDiffer, ListIsSorted
  <2>6. TextsAreKept' /\ ClassIsOfList'
    BY <2>1, <2>2 DEF ScoresInv, TextsAreKept, StringsFreedOnce, ClassIsOfList
  <2> QED  BY <2>4, <2>5, <2>6 DEF ScoresInv
<1>2. CASE ShrinkEnds
  <2>1. /\ UNCHANGED <<sc_rows, sc_scenes, sc_stack, sc_list, sc_i, sc_live>> /\ sc_pc = "shrink"
        /\ sc_pc' = "credits" /\ sc_i >= Len(sc_list)
    BY <1>2 DEF ShrinkEnds
  <2>2. ScoresType' /\ ListIsOfRows' /\ NeighboursDiffer' /\ ListIsSorted'
    BY <2>1, AfterShrinking DEF Sorted
  <2>3. TextsAreKept' /\ ClassIsOfList'
    BY <2>1, ListStays DEF ScoresInv, TextsAreKept, StringsFreedOnce, ClassIsOfList
  <2> QED  BY <2>2, <2>3 DEF ScoresInv
<1>3. CASE GiveUp
  <2>1. /\ UNCHANGED <<sc_rows, sc_scenes, sc_stack, sc_list, sc_i, sc_live>> /\ sc_pc \in {"credits", "remains"}
        /\ sc_pc' = "gave_up" /\ Shrunk
    BY <1>3 DEF GiveUp, Shrunk
  <2>2. ScoresType' /\ ListIsOfRows' /\ NeighboursDiffer' /\ ListIsSorted'
    BY <2>1, AfterShrinking DEF Sorted
  <2>3. TextsAreKept' /\ ClassIsOfList'
    BY <2>1 DEF TextsAreKept, StringsFreedOnce, ClassIsOfList
  <2> QED  BY <2>2, <2>3 DEF ScoresInv
<1>4. CASE db_query_remains
  <2>1. /\ UNCHANGED <<sc_rows, sc_scenes, sc_stack, sc_list, sc_i>> /\ sc_pc = "credits"
        /\ sc_pc' \in {"remains", "down"} /\ Shrunk /\ totalcredit # 0 /\ sc_live' = sc_live \cup NamesOfRemaining
    BY <1>4 DEF db_query_remains, Shrunk, NamesOfRemaining
  <2>2. ScoresType' /\ ListIsOfRows' /\ NeighboursDiffer' /\ ListIsSorted'
    BY <2>1, AfterShrinking DEF Sorted
  <2>3. TextsAreKept'
    BY <2>1, ListStays DEF ScoresInv, TextsAreKept, StringsFreedOnce
  <2>4. ClassIsOfList'
    BY <2>1, ListStays DEF ClassIsOfList
  <2> QED  BY <2>2, <2>3, <2>4 DEF ScoresInv
<1>5. CASE get_finalscore
  <2>1. /\ UNCHANGED <<sc_rows, sc_scenes, sc_stack, sc_list, sc_i, sc_live>> /\ sc_pc = "remains"
        /\ sc_pc' = "reply" /\ Shrunk /\ sc_class' = ClassOfFraction(Numerator, Denominator)
    BY <1>5 DEF get_finalscore, Shrunk
  <2>2. ScoresType' /\ ListIsOfRows' /\ NeighboursDiffer' /\ ListIsSorted'
    BY <2>1, AfterShrinking DEF Sorted
  <2>3. TextsAreKept' /\ ClassIsOfList'
    BY <2>1, ListStays DEF ScoresInv, TextsAreKept, StringsFreedOnce, ClassIsOfList
  <2> QED  BY <2>2, <2>3 DEF ScoresInv
<1>6. CASE scores_freeitems
  <2>1. /\ UNCHANGED <<sc_rows, sc_scenes, sc_stack, sc_list, sc_i>> /\ sc_pc = "reply"
        /\ sc_pc' \in {"answered", "twice"} /\ Shrunk
    BY <1>6 DEF scores_freeitems, Shrunk
  <2>2. ScoresType' /\ ListIsOfRows' /\ NeighboursDiffer' /\ ListIsSorted'
    BY <2>1, AfterShrinking DEF Sorted
  <2>3. RowsOfList /\ OnceInList /\ ScoresType /\ sc_live = (TextsOfRows \ Freed) \cup NamesOfRemaining
    BY <2>1 DEF ScoresInv, ListIsOfRows, TextsAreKept, Sorted
  <2>4. CASE sc_pc' = "answered"
    <3> DEFINE freed == UNION {Texts_of(k) : k \in DOMAIN sc_list}
               all == UNION {Pointed(n) : n \in Loaded}
    <3>1. sc_live' = sc_live \ freed
      BY <1>6, <2>4 DEF scores_freeitems
    <3>2. \A k \in DOMAIN sc_list : Texts_of(k) = Pointed(sc_list[k].id) /\ sc_list[k].id \in Loaded
      BY <2>3 DEF RowsOfList, Texts_of, Pointed
    <3>3. Freed \cup freed = all
      <4>1. \A n \in Loaded : n \in Listed => \E k \in DOMAIN sc_list : Texts_of(k) = Pointed(n)
        BY <3>2 DEF Listed
      <4>2. all \subseteq Freed \cup freed
        BY <4>1 DEF Freed
      <4>3. Freed \cup freed \subseteq all
        BY <3>2 DEF Freed
      <4> QED  BY <4>2, <4>3
    <3>4. all \cap NamesOfRemaining = {}
      <4>1. \A n \in Loaded : \A t \in Pointed(n) : \E j : t = <<"scenename", j>> \/ t = <<"json", j>>
        BY DEF Pointed, Entry
      <4>2. \A t \in NamesOfRemaining : \E s : t = <<"remaining", s>>
        BY DEF NamesOfRemaining
      <4> QED  BY <4>1, <4>2
    <3> HIDE DEF freed, all
    <3>5. sc_live' = (TextsOfRows \ all) \cup NamesOfRemaining
      BY <2>3, <3>1, <3>3, <3>4
    <3>6. sc_live' = LeftBehind
      BY <2>3, <3>5, WhatIsLeft DEF all
    <3> QED  BY <2>1, <2>2, <2>4, <3>6, ListStays DEF ScoresInv, TextsAreKept, StringsFreedOnce, ClassIsOfList
  <2>5. CASE sc_pc' = "twice"
    <3>1. ~ FreesAllocated(DOMAIN sc_list)
      BY <1>6, <2>5 DEF scores_freeitems
    <3>2. ~ Loaded \subseteq With_name \cap With_json
      BY <2>3, <3>1, FreesOnce
    <3> QED  BY <2>1, <2>2, <2>5, <3>2, ListStays DEF ScoresInv, TextsAreKept, StringsFreedOnce, ClassIsOfList
  <2> QED  BY <2>1, <2>4, <2>5
<1> QED  BY <1>1, <1>2, <1>3, <1>4, <1>5, <1>6, LoadKeeps, FailKeeps, SortKeeps, ShrinkKeeps DEF ScoresNext

(* The invariant holds throughout.                                         *)
LEMMA ScoresInvAlways == ScoresSpec => []ScoresInv
BY ScoresInvInit, ScoresInvNext, PTL DEF ScoresSpec

(* Only a text that is NULL makes a request free twice, and one that is    *)
(* answered has freed all but the rows without room and the names of the   *)
(* scenes that remain (scores_freeitems, scores_shrink, dbaccess.c).       *)
THEOREM StringsOnce == ScoresSpec => []StringsFreedOnce
<1>1. ScoresInv => StringsFreedOnce
  BY DEF ScoresInv, TextsAreKept
<1> QED  BY <1>1, ScoresInvAlways, PTL

(* Of a sorted list that was shrunk the scenes descend strictly.           *)
LEMMA StrictlySorted ==
  ASSUME ScoresInv, Shrunk, Len(sc_rows) <= SelectionSort
  PROVE  \A k, l \in DOMAIN sc_list : k < l => sc_list[k].scene > sc_list[l].scene
<1>1. sc_pc \in Sorted
  BY DEF Shrunk, Sorted
<1> QED  BY <1>1 DEF ScoresInv, ListIsSorted

(* A score with the most points of its scene is left for rows in any order *)
(* and any number, whatever qsort makes of them; one of each scene, if     *)
(* qsort sorts them by selection (scores_shrink).                          *)
THEOREM BestIsKept == ScoresSpec => []BestOfEachScene
<1>1. ASSUME ScoresInv, Shrunk
      PROVE  /\ \A n \in Loaded : \E k \in DOMAIN sc_list :
                  sc_list[k].scene = sc_rows[n].scene /\ sc_list[k].fscore >= Entry(n).fscore
             /\ \A k \in DOMAIN sc_list : \E n \in Loaded : sc_list[k] = Entry(n)
             /\ \A k \in 1 .. Len(sc_list) - 1 : ~ SameScene(k)
             /\ Len(sc_rows) <= SelectionSort => OneOfEachScene
  <2>1. sc_pc \in Sorted
    BY <1>1 DEF Shrunk, Sorted
  <2>2. RowsOfList /\ BestInList /\ NeighboursDiffer /\ ScoresType
    BY <1>1, <2>1 DEF ScoresInv, ListIsOfRows
  <2>3. ASSUME Len(sc_rows) <= SelectionSort PROVE OneOfEachScene
    <3> DEFINE m == Len(sc_list)
    <3>1. m \in Nat /\ DOMAIN sc_list = 1 .. m /\ sc_list \in [1 .. m -> Element]
      BY <2>2 DEF ScoresType
    <3> HIDE DEF m
    <3>2. \A k \in 1 .. m : sc_list[k].scene \in Int
      <4>1. \A e \in Element : e.scene \in Int
        BY DEF Element
      <4>2. \A k \in 1 .. m : sc_list[k] \in Element
        BY <3>1
      <4> QED  BY <4>1, <4>2
    <3>3. \A k, l \in 1 .. m : k < l => sc_list[k].scene > sc_list[l].scene
      BY <1>1, <2>3, <3>1, StrictlySorted
    <3>4. ASSUME NEW k \in 1 .. m, NEW l \in 1 .. m, sc_list[k].scene = sc_list[l].scene PROVE k = l
      <4>1. ~ (k < l) /\ ~ (l < k)
        BY <3>2, <3>3, <3>4
      <4> QED  BY <3>1, <4>1
    <3> QED  BY <3>1, <3>4 DEF OneOfEachScene
  <2> QED  BY <1>1, <2>1, <2>2, <2>3 DEF RowsOfList, BestInList, NeighboursDiffer
<1>2. ScoresInv => BestOfEachScene
  BY <1>1 DEF BestOfEachScene
<1> QED  BY <1>2, ScoresInvAlways, PTL

(* Where no scene lacks its credit and the first row has points, each      *)
(* score has a mark and the credit of its scene.                           *)
LEMMA ScoresHaveMarks ==
  ASSUME ScoresType, Loaded \subseteq With_credit, 1 \in Loaded => 1 \in With_score, NEW n \in Loaded
  PROVE  Entry(n).fscore \in 0 .. 100 /\ Entry(n).credit = Credit_of(sc_rows[n].scene)
<1>1. n \in 1 .. Len(sc_rows) /\ n \in Nat \ {0} /\ n <= _maxscore_num /\ 1 \in Loaded /\ n \in With_credit
  BY ScoresAssumption DEF ScoresType, Loaded
<1>2. With_score \subseteq Nat /\ With_credit \subseteq Nat /\ With_score \subseteq 1 .. Len(sc_rows)
  BY DEF ScoresType, With_score, With_credit
<1> DEFINE f == From(With_score, n)
<1>3. From(With_credit, n) = n /\ f \in 0 .. n /\ (f = 0 \/ f \in With_score) /\ 1 <= f
  <2>1. 1 \in With_score /\ 1 <= n
    BY <1>1
  <2> QED  BY <1>1, <1>2, <2>1, FromIs
<1>4. f # 0 /\ f \in With_score
  BY <1>3
<1>5. sc_rows[f].points \in Points
  <2>1. sc_rows[f] \in [scene : 1 .. TotalScenes, points : Points \cup {Null}, json : BOOLEAN]
    BY <1>2, <1>4, ScoresAssumption DEF ScoresType
  <2> HIDE DEF f
  <2> QED  BY <1>4, <2>1 DEF With_score
<1>6. Entry(n).fscore = sc_rows[f].points
  BY <1>4 DEF Entry
<1>7. Entry(n).credit = sc_scenes[sc_rows[n].scene].credit
  BY <1>1, <1>3 DEF Entry
<1>8. sc_scenes[sc_rows[n].scene].credit # Null
  BY <1>1 DEF With_credit
<1> QED  BY <1>5, <1>6, <1>7, <1>8, PointsAreMarks DEF Credit_of

(* The mark of get_finalscore lies between 0 and 100 for all credits and   *)
(* proportions and all rows that are sorted, with points at first and a    *)
(* credit for each scene: no credit is counted twice, and a visitor with a *)
(* point and a credit has a class.                                         *)
THEOREM ScoreInRange == ScoresSpec => []FinalScoreInRange
<1>1. ASSUME ScoresInv, sc_pc = "reply", Len(sc_rows) <= SelectionSort, Loaded \subseteq With_credit,
             1 \in Loaded => 1 \in With_score
      PROVE  /\ obtained_credits <= totalcredit
             /\ Numerator <= 100 * Denominator
             /\ obtained_fscore > 0 => sc_class # ""
             /\ Len(sc_list) <= TotalScenes
  <2> DEFINE m == Len(sc_list)
             scene == [k \in 1 .. m |-> sc_list[k].scene]
             mark == [k \in 1 .. m |-> sc_list[k].fscore]
             credit == [k \in 1 .. m |-> sc_list[k].credit]
             credits == [s \in 1 .. TotalScenes |-> Credit_of(s)]
  <2>1. /\ ScoresType /\ RowsOfList /\ ClassIsOfList /\ m \in Nat /\ DOMAIN sc_list = 1 .. m
        /\ sc_list \in [1 .. m -> Element] /\ Shrunk
    BY <1>1 DEF ScoresInv, ScoresType, ListIsOfRows, Shrunk, Sorted
  <2> HIDE DEF m
  <2>2. \A k \in 1 .. m : /\ sc_list[k].scene \in 1 .. TotalScenes
                          /\ sc_list[k].fscore \in 0 .. 100
                          /\ sc_list[k].credit = Credit_of(sc_list[k].scene)
    <3> TAKE k \in 1 .. m
    <3> DEFINE n == sc_list[k].id
    <3>1. n \in Loaded /\ sc_list[k] = Entry(n)
      BY <2>1 DEF RowsOfList
    <3> HIDE DEF n
    <3>2. Entry(n).fscore \in 0 .. 100 /\ Entry(n).credit = Credit_of(sc_rows[n].scene)
      BY <1>1, <2>1, <3>1, ScoresHaveMarks
    <3>3. Entry(n).scene = sc_rows[n].scene /\ Entry(n) \in Element
      BY <2>1, <3>1, EntryIsElement
    <3> QED  BY <3>1, <3>2, <3>3 DEF Element
  <2>3. credits \in [1 .. TotalScenes -> Nat]
    <3> SUFFICES ASSUME NEW s \in 1 .. TotalScenes PROVE Credit_of(s) \in Nat
      OBVIOUS
    <3>1. sc_scenes \in [1 .. TotalScenes -> [credit : Nat \cup {Null}, name : BOOLEAN]]
      BY <2>1, ScoresAssumption DEF ScoresType
    <3>2. sc_scenes[s].credit \in Nat \cup {Null}
      BY <3>1
    <3> QED  BY <3>2 DEF Credit_of
  <2>4. /\ scene \in [1 .. m -> 1 .. TotalScenes] /\ mark \in [1 .. m -> 0 .. 100]
        /\ credit = [k \in 1 .. m |-> credits[scene[k]]]
    BY <2>2
  <2>5. \A k, l \in 1 .. m : k < l => scene[k] > scene[l]
    BY <1>1, <2>1, StrictlySorted
  <2>6. obtained_credits = Sum(credit)
    BY <2>1 DEF obtained_credits
  <2>7. obtained_fscore = Sum([k \in 1 .. m |-> mark[k] * credit[k]])
    <3>1. [k \in 1 .. m |-> mark[k] * credit[k]] = [k \in DOMAIN sc_list |-> sc_list[k].fscore * sc_list[k].credit]
      BY <2>1
    <3> QED  BY <3>1 DEF obtained_fscore
  <2>8. totalcredit = Sum(credits)
    BY DEF totalcredit
  <2> HIDE DEF scene, mark, credit, credits
  <2>9. TotalScenes \in Nat \ {0}
    BY ScoresAssumption
  <2>10. credit \in [1 .. m -> Nat]
    BY <2>3, <2>4
  <2>11. obtained_credits <= totalcredit /\ m <= TotalScenes
    <3>1. Sum([k \in 1 .. m |-> credits[scene[k]]]) <= Sum(credits) /\ m <= TotalScenes
      BY <2>1, <2>3, <2>4, <2>5, <2>9, CreditsOnce
    <3> QED  BY <2>4, <2>6, <2>8, <3>1
  <2>12. obtained_fscore \in Nat /\ obtained_credits \in Nat /\ obtained_fscore <= 100 * obtained_credits
    BY <2>1, <2>4, <2>6, <2>7, <2>10, WeighedMarks
  <2>13. totalcredit \in Nat \ {0}
    <3>1. totalcredit = RunningSums(credits)[TotalScenes] /\ RunningSums(credits) \in [0 .. TotalScenes -> Nat]
      BY <2>3, <2>8, <2>9, RunningSumsAre
    <3>2. TotalScenes \in 0 .. TotalScenes
      BY <2>9
    <3>3. totalcredit # 0
      BY <1>1, <2>1 DEF ClassIsOfList
    <3> QED  BY <3>1, <3>2, <3>3
  <2>14. /\ Numerator \in Nat /\ Denominator \in Nat /\ Numerator <= 100 * Denominator
         /\ obtained_fscore > 0 => Numerator > 0 /\ Denominator > 0
    BY <2>11, <2>12, <2>13, MarkInRange DEF Numerator, Denominator
  <2>15. obtained_fscore > 0 => sc_class # ""
    <3> SUFFICES ASSUME obtained_fscore > 0 PROVE sc_class # ""
      OBVIOUS
    <3> DEFINE n == Numerator
               d == Denominator
    <3>1. n \in Nat /\ d \in Nat /\ n <= 100 * d /\ n > 0 /\ d > 0 /\ sc_class = ClassOfFraction(n, d)
      BY <1>1, <2>1, <2>14 DEF ClassIsOfList
    <3> HIDE DEF n, d
    <3> DEFINE a == n > 90 * d /\ ~ n > 100 * d
               b == n > 70 * d /\ ~ n > 90 * d
               c == n > 0 * d
    <3>2. ClassOfFraction(n, d) = IF a THEN "A" ELSE IF b THEN "B" ELSE IF c THEN "C" ELSE ""
      <4>1. d # 0 /\ (d > 0) = TRUE
        BY <3>1
      <4> QED  BY <4>1, Zenon DEF ClassOfFraction
    <3>3. c
      BY <3>1
    <3> HIDE DEF a, b, c
    <3> QED  BY <3>1, <3>2, <3>3
  <2> QED  BY <2>11, <2>14, <2>15 DEF m
<1>2. ScoresInv => FinalScoreInRange
  BY <1>1 DEF FinalScoreInRange
<1> QED  BY <1>2, ScoresInvAlways, PTL

-----------------------------------------------------------------------------
MembuffInv == MembuffTypeOK /\ MembuffFits

(* Every text that is added or printed is a sequence of 1 to Big cells.    *)
LEMMA TextLen ==
  ASSUME NEW t \in Texts
  PROVE  t \in Seq(Cells) /\ Len(t) \in Nat /\ 1 <= Len(t) /\ Len(t) <= Big
BY MembuffAssumption

(* What _assure_mem_size leaves is a number and no less than it was, and   *)
(* more than what is asked for fits behind the text.                       *)
LEMMA AssuredRoom ==
  ASSUME MembuffTypeOK, MembuffFits, NEW addlen \in Nat
  PROVE  /\ _assure_mem_size(addlen) \in Nat
         /\ _assure_mem_size(addlen) >= mb_cap
         /\ len + addlen < _assure_mem_size(addlen)
<1>1. len \in Nat /\ mb_cap \in Nat /\ len < mb_cap
  BY DEF MembuffTypeOK, MembuffFits, len
<1>2. Big \in Nat /\ Big >= 2
  BY MembuffAssumption
<1>3. mb_cap > Big => mb_cap \div 3 \in Nat /\ mb_cap \div 3 > 0
  BY <1>1, <1>2
<1>4. CASE addlen > 0 /\ mb_cap - len <= addlen
  BY <1>1, <1>2, <1>3, <1>4 DEF _assure_mem_size
<1>5. CASE ~ (addlen > 0 /\ mb_cap - len <= addlen)
  BY <1>1, <1>5 DEF _assure_mem_size
<1> QED
  BY <1>4, <1>5

(* A new buffer.                                                           *)
LEMMA MembuffInitially == MembuffInit => MembuffInv
<1> SUFFICES ASSUME MembuffInit PROVE MembuffInv
  OBVIOUS
<1>1. mb_cap \in Nat /\ mb_cap > 0
  BY MembuffAssumption DEF MembuffInit
<1>2. mb_data \in Seq(Cells) /\ len = 0
  BY DEF MembuffInit, len
<1> QED
  BY <1>1, <1>2 DEF MembuffInit, MembuffInv, MembuffTypeOK, MembuffFits

(* Each call, and each part of a print.                                    *)
LEMMA MembuffStep == MembuffInv /\ [MembuffNext]_membuffVars => MembuffInv'
<1> SUFFICES ASSUME MembuffInv, [MembuffNext]_membuffVars PROVE MembuffInv'
  OBVIOUS
<1>0. /\ MembuffTypeOK /\ MembuffFits
      /\ len \in Nat /\ mb_cap \in Nat /\ len < mb_cap
      /\ mb_data \in Seq(Cells)
      /\ mb_after \in {"nul", "old"}
  BY DEF MembuffInv, MembuffTypeOK, MembuffFits, len
<1>1. CASE membuff_clear
  <2>1. mb_data' \in Seq(Cells) /\ len' = 0
    BY <1>1 DEF membuff_clear, len
  <2> QED
    BY <1>0, <1>1, <2>1 DEF membuff_clear, MembuffInv, MembuffTypeOK, MembuffFits
<1>2. ASSUME NEW t \in Texts, membuff_addstr(t) PROVE MembuffInv'
  <2>1. t \in Seq(Cells) /\ Len(t) \in Nat
    BY TextLen
  <2>2. mb_data' \in Seq(Cells) /\ len' = len + Len(t)
    BY <1>0, <1>2, <2>1 DEF membuff_addstr, len
  <2>3. mb_cap' \in Nat /\ len + Len(t) < mb_cap'
    BY <1>0, <1>2, <2>1, AssuredRoom DEF membuff_addstr
  <2> QED
    BY <1>2, <2>2, <2>3 DEF membuff_addstr, MembuffInv, MembuffTypeOK, MembuffFits
<1>3. ASSUME NEW c \in Cells, membuff_addchar(c) PROVE MembuffInv'
  <2>1. mb_data' \in Seq(Cells) /\ len' = len + 1
    BY <1>0, <1>3 DEF membuff_addchar, len
  <2>2. mb_cap' \in Nat /\ len + 1 < mb_cap'
    BY <1>0, <1>3, AssuredRoom DEF membuff_addchar
  <2> QED
    BY <1>3, <2>1, <2>2 DEF membuff_addchar, MembuffInv, MembuffTypeOK, MembuffFits
<1>4. ASSUME NEW t \in Texts, PrintBegins(t) PROVE MembuffInv'
  BY <1>0, <1>4 DEF PrintBegins, MembuffInv, MembuffTypeOK, MembuffFits, len
<1>5. CASE PrintGrows
  <2>1. GrowBy \in Nat
    BY <1>0 DEF GrowBy
  <2>2. mb_cap' \in Nat /\ mb_cap' >= mb_cap
    BY <1>0, <1>5, <2>1, AssuredRoom DEF PrintGrows
  <2>3. len' = len
    BY <1>5 DEF PrintGrows, len
  <2> QED
    BY <1>0, <1>5, <2>2, <2>3 DEF PrintGrows, MembuffInv, MembuffTypeOK, MembuffFits
<1>6. CASE PrintEnds
  <2>1. printing \in Seq(Cells) /\ Len(printing) \in Nat
    BY <1>0, <1>6, TextLen DEF PrintEnds, MembuffTypeOK
  <2>2. mb_data' \in Seq(Cells) /\ len' = len + Len(printing)
    BY <1>0, <1>6, <2>1 DEF PrintEnds, len
  <2>3. len + Len(printing) < mb_cap
    BY <1>0, <1>6, <2>1 DEF PrintEnds, Fits
  <2> QED
    BY <1>0, <1>6, <2>2, <2>3 DEF PrintEnds, MembuffInv, MembuffTypeOK, MembuffFits
<1>7. CASE membuff_trim
  <2>1. PICK n \in 0 .. len :
          /\ mb_data' = SubSeq(mb_data, 1, n)
          /\ mb_after' = IF n < len THEN "nul" ELSE mb_after
    BY <1>7 DEF membuff_trim
  <2>2. mb_data' \in Seq(Cells) /\ len' = n
    BY <1>0, <2>1 DEF len
  <2> QED
    BY <1>0, <1>7, <2>1, <2>2 DEF membuff_trim, MembuffInv, MembuffTypeOK, MembuffFits
<1>8. CASE DropComma
  <2>1. CASE mb_data[len] = "comma"
    <3>1. len > 0
      BY <1>0, <1>8 DEF DropComma, len
    <3>2. mb_data' = SubSeq(mb_data, 1, len - 1) /\ mb_after' = "old"
      BY <1>8, <2>1 DEF DropComma
    <3>3. PICK n \in 0 .. len : n = len - 1
      BY <1>0, <3>1
    <3>4. mb_data' \in Seq(Cells) /\ len' = n
      BY <1>0, <3>2, <3>3 DEF len
    <3> QED
      BY <1>0, <1>8, <3>2, <3>3, <3>4 DEF DropComma, MembuffInv, MembuffTypeOK, MembuffFits
  <2>2. CASE mb_data[len] # "comma"
    BY <1>0, <1>8, <2>2 DEF DropComma, MembuffInv, MembuffTypeOK, MembuffFits, len
  <2> QED
    BY <2>1, <2>2
<1>9. CASE UNCHANGED membuffVars
  BY <1>0, <1>9 DEF membuffVars, MembuffInv, MembuffTypeOK, MembuffFits, len
<1> QED
  BY <1>1, <1>2, <1>3, <1>4, <1>5, <1>6, <1>7, <1>8, <1>9 DEF MembuffNext

(* The buffer of membuff.c has a cell behind its text after every call.    *)
THEOREM BufferHasRoom == MembuffSpec => [](MembuffTypeOK /\ MembuffFits)
<1>1. MembuffInit => MembuffInv
  BY MembuffInitially
<1>2. MembuffInv /\ [MembuffNext]_membuffVars => MembuffInv'
  BY MembuffStep
<1> QED
  BY <1>1, <1>2, PTL DEF MembuffSpec, MembuffInv

(* In a step that leaves a print unfinished the buffer grows: with a text  *)
(* longer than Big there is less room than Big, so half the capacity is    *)
(* more than the room there is.                                            *)
LEMMA FailedPrintGrows ==
  ASSUME MembuffInv, PrintGrows
  PROVE  mb_cap' > mb_cap
<1>1. /\ len \in Nat /\ mb_cap \in Nat /\ len < mb_cap
      /\ printing \in Texts
  BY DEF MembuffInv, MembuffTypeOK, MembuffFits, len, PrintGrows
<1>2. Len(printing) \in Nat /\ Len(printing) <= Big /\ Len(printing) >= mb_cap - len
  BY <1>1, TextLen DEF PrintGrows, Fits
<1>3. Big \in Nat /\ Big >= 2
  BY MembuffAssumption
<1>4. GrowBy \in Nat /\ GrowBy > 0 /\ mb_cap - len <= GrowBy
  <2>1. CASE len > Big
    <3>1. GrowBy = mb_cap \div 2
      BY <2>1 DEF GrowBy
    <3> QED
      BY <1>1, <1>2, <1>3, <2>1, <3>1
  <2>2. CASE ~ (len > Big)
    BY <1>1, <2>2 DEF GrowBy
  <2> QED
    BY <2>1, <2>2
<1>5. mb_cap' = len + GrowBy + (IF mb_cap > Big THEN mb_cap \div 3 ELSE mb_cap)
  BY <1>4 DEF PrintGrows, _assure_mem_size
<1>6. mb_cap > Big => mb_cap \div 3 \in Nat /\ mb_cap \div 3 > 0
  BY <1>1, <1>3
<1> QED
  BY <1>1, <1>3, <1>4, <1>5, <1>6

(* The loop of membuff_add_printf makes room each time round.              *)
THEOREM PrintsEnd == MembuffSpec => PrintMakesRoom
<1> DEFINE Grows == printing # <<>> /\ printing' = printing => mb_cap' > mb_cap
<1>1. MembuffInv /\ [MembuffNext]_membuffVars => [Grows]_membuffVars
  <2> SUFFICES ASSUME MembuffInv, MembuffNext, printing # <<>>, printing' = printing
               PROVE  mb_cap' > mb_cap
    OBVIOUS
  <2>1. ~ PrintEnds
    BY DEF PrintEnds
  <2>2. PrintGrows
    BY <2>1 DEF MembuffNext, membuff_clear, membuff_addstr, membuff_addchar,
                PrintBegins, membuff_trim, DropComma
  <2> QED
    BY <2>2, FailedPrintGrows
<1>2. MembuffSpec => []MembuffInv
  BY BufferHasRoom DEF MembuffInv
<1> QED
  BY <1>1, <1>2, PTL DEF MembuffSpec, PrintMakesRoom
-----------------------------------------------------------------------------
(* What the client gets: every row of the query, the suggestion that its   *)
(* score asks for, the statistics that were read, as text that is whole;   *)
(* and what a handler has taken for it is given back.                      *)

(* The inductive invariant of the two growing lists: as many entries as    *)
(* rows were fetched, and the array is never smaller.                      *)
SceneListsInv ==
  /\ sl_kind \in {"status", "scenes"}
  /\ sl_pc \in {"new", "refused", "load", "print", "free", "answered"}
  /\ sl_rows \in Seq([n : Nat, null : BOOLEAN])
  /\ \A k \in 1 .. Len(sl_rows) : sl_rows[k].n = k
  /\ sl_next \in 0 .. Len(sl_rows)
  /\ sl_list \in Seq(Nat) /\ Len(sl_list) = sl_next
  /\ \A k \in 1 .. sl_next : ~ sl_rows[k].null => sl_list[k] = k
  /\ sl_cap \in Nat /\ sl_next <= sl_cap
  /\ sl_pc \in {"new", "refused"} => sl_next = 0 /\ sl_infos = {}
  /\ sl_pc # "new" => sl_cap >= 2
  /\ ~ sl_outside
  /\ sl_pc \in {"free", "answered"} => sl_reply = sl_list
  /\ sl_infos \subseteq (IF sl_kind = "scenes" THEN 1 .. sl_next ELSE {})
  /\ sl_pc \in {"refused", "load", "print", "free"} => sl_live = {"con", "array"}
  /\ ListsLeft

(* A new list.                                                             *)
LEMMA SceneListsStart == SceneListsInit => SceneListsInv
<1> SUFFICES ASSUME SceneListsInit PROVE SceneListsInv
  OBVIOUS
<1>0. PICK n \in 0 .. MaxListRows : \E null \in [1 .. n -> BOOLEAN] :
        sl_rows = [k \in 1 .. n |-> [n |-> k, null |-> null[k]]]
  BY DEF SceneListsInit
<1>1. PICK null \in [1 .. n -> BOOLEAN] :
        sl_rows = [k \in 1 .. n |-> [n |-> k, null |-> null[k]]]
  BY <1>0
<1>2. n \in Nat
  BY <1>0, SceneListsAssumption
<1>3. sl_rows \in [1 .. n -> [n : Nat, null : BOOLEAN]]
  BY <1>1, <1>2
<1>4. Len(sl_rows) = n /\ sl_rows \in Seq([n : Nat, null : BOOLEAN])
  BY <1>2, <1>3, LenOf
<1>5. \A k \in 1 .. n : sl_rows[k].n = k
  BY <1>1
<1>6. /\ sl_pc = "new" /\ sl_next = 0 /\ sl_list = <<>> /\ sl_cap = 0 /\ sl_live = {}
      /\ sl_infos = {} /\ sl_outside = FALSE /\ sl_kind \in {"status", "scenes"}
  BY DEF SceneListsInit
<1> QED  BY <1>2, <1>4, <1>5, <1>6 DEF SceneListsInv, ListsLeft

(* Each step; the capacity is at least 2, so that half of it is something. *)
LEMMA SceneListsStep == SceneListsInv /\ [SceneListsNext]_sceneListsVars => SceneListsInv'
<1> SUFFICES ASSUME SceneListsInv, [SceneListsNext]_sceneListsVars PROVE SceneListsInv'
  OBVIOUS
<1> USE SceneListsAssumption
<1>1. CASE NewList
  BY <1>1 DEF NewList, SceneListsInv, ListsLeft
<1>2. CASE LoadFails
  BY <1>2 DEF LoadFails, SceneListsInv, ListsLeft
<1>3. CASE FetchRow
  <2>1. /\ Len(sl_rows) \in Nat /\ sl_next + 1 \in 1 .. Len(sl_rows) /\ sl_next \in Nat
        /\ sl_rows[sl_next + 1] \in [n : Nat, null : BOOLEAN]
    <3> DEFINE R == [n : Nat, null : BOOLEAN]
    <3>1. sl_rows \in Seq(R) /\ sl_next \in 0 .. Len(sl_rows) /\ sl_next < Len(sl_rows)
      BY <1>3 DEF FetchRow, SceneListsInv
    <3> HIDE DEF R
    <3>2. Len(sl_rows) \in Nat
      BY <3>1, LenProperties
    <3>3. sl_next + 1 \in 1 .. Len(sl_rows) /\ sl_next \in Nat
      BY <3>1, <3>2
    <3>4. sl_rows[sl_next + 1] \in R
      BY <3>1, <3>3, ElementOfSeq
    <3> QED  BY <3>2, <3>3, <3>4 DEF R
  <2>2. ListRow \in Nat /\ (~ sl_rows[sl_next + 1].null => ListRow = sl_next + 1)
    <3>1. sl_list # <<>> => Last(sl_list) \in Nat
      BY EmptySeq, LenProperties, ElementOfSeq DEF SceneListsInv, Last
    <3> QED  BY <2>1, <3>1 DEF ListRow, SceneListsInv
  <2>3. /\ sl_list' \in Seq(Nat) /\ Len(sl_list') = sl_next'
        /\ \A k \in 1 .. sl_next' : sl_list'[k] = IF k = sl_next + 1 THEN ListRow ELSE sl_list[k]
    <3>1. sl_list \in Seq(Nat) /\ Len(sl_list) = sl_next /\ sl_list' = Append(sl_list, ListRow)
          /\ sl_next' = sl_next + 1
      BY <1>3 DEF FetchRow, SceneListsInv
    <3>2. \A k \in 1 .. sl_next' : k = Len(sl_list) + 1 \/ k \in 1 .. Len(sl_list)
      BY <3>1, <2>1
    <3> QED  BY <3>1, <3>2, <2>1, <2>2, AppendProperties
  <2>4. sl_cap' \in Nat /\ sl_next' <= sl_cap' /\ sl_cap' >= 2 /\ ~ sl_outside'
    <3>1. /\ sl_cap' = IF sl_next = sl_cap THEN sl_next + sl_next \div 2 ELSE sl_cap
          /\ sl_next' = sl_next + 1
      BY <1>3 DEF FetchRow, _assure_capacity, SceneListsInv
    <3>2. sl_cap >= 2 /\ sl_cap \in Nat /\ sl_next <= sl_cap /\ sl_next \in Nat
      BY <1>3, <2>1 DEF FetchRow, SceneListsInv
    <3>3. sl_cap' \in Nat /\ sl_cap' >= sl_next + 1 /\ sl_cap' >= 2
      <4>1. CASE sl_next = sl_cap
        <5>1. sl_next \div 2 >= 1 /\ sl_next \div 2 \in Nat
          BY <3>2, <4>1
        <5>2. sl_cap' = sl_next + sl_next \div 2
          BY <3>1, <4>1
        <5> DEFINE h == sl_next \div 2
        <5> HIDE DEF h
        <5> QED  BY <3>2, <4>1, <5>1, <5>2 DEF h
      <4>2. CASE sl_next # sl_cap
        BY <3>1, <3>2, <4>2
      <4> QED  BY <4>1, <4>2
    <3>4. ~ sl_outside'
      <4>1. ~ (sl_next >= sl_cap')
        BY <3>2, <3>3
      <4> QED  BY <1>3, <4>1 DEF FetchRow, SceneListsInv
    <3> QED  BY <3>1, <3>3, <3>4
  <2>5. \A k \in 1 .. sl_next' : ~ sl_rows[k].null => sl_list'[k] = k
    BY <1>3, <2>1, <2>2, <2>3 DEF FetchRow, SceneListsInv
  <2>6. /\ sl_infos' \subseteq (IF sl_kind = "scenes" THEN 1 .. sl_next' ELSE {})
        /\ sl_next' \in 0 .. Len(sl_rows)
    <3>1. /\ sl_infos \subseteq (IF sl_kind = "scenes" THEN 1 .. sl_next ELSE {})
          /\ sl_infos' = sl_infos \cup (IF sl_kind = "scenes" THEN {sl_next + 1} ELSE {})
          /\ sl_next' = sl_next + 1
      BY <1>3 DEF FetchRow, SceneListsInv
    <3>2. sl_next + 1 \in 1 .. sl_next + 1 /\ 1 .. sl_next \subseteq 1 .. sl_next + 1
      BY <2>1
    <3>3. sl_next' \in 0 .. Len(sl_rows)
      BY <2>1, <3>1
    <3>4. CASE sl_kind = "scenes"
      <4>1. sl_infos \subseteq 1 .. sl_next /\ sl_infos' = sl_infos \cup {sl_next + 1}
        BY <3>1, <3>4
      <4>2. sl_infos' \subseteq 1 .. sl_next + 1
        BY <3>2, <4>1
      <4> QED  BY <3>1, <3>3, <3>4, <4>2
    <3>5. CASE sl_kind # "scenes"
      <4>1. sl_infos' = {}
        BY <3>1, <3>5
      <4> QED  BY <3>3, <3>5, <4>1
    <3> QED  BY <3>4, <3>5
  <2> QED  BY <1>3, <2>3, <2>4, <2>5, <2>6 DEF FetchRow, SceneListsInv, ListsLeft
<1>4. CASE RowsEnd
  BY <1>4 DEF RowsEnd, SceneListsInv, ListsLeft
<1>5. CASE PrintList
  BY <1>5 DEF PrintList, SceneListsInv, ListsLeft
<1>6. CASE FreeList
  <2>1. DOMAIN sl_list = 1 .. sl_next
    BY LenProperties DEF SceneListsInv
  <2>2. sl_infos' = {} /\ sl_live' = (IF sl_kind = "status" THEN {} ELSE {"array"})
    BY <1>6, <2>1 DEF FreeList, SceneListsInv
  <2> QED  BY <1>6, <2>2 DEF FreeList, SceneListsInv, ListsLeft
<1>7. CASE UNCHANGED sceneListsVars
  BY <1>7 DEF sceneListsVars, SceneListsInv, ListsLeft
<1> QED
  BY <1>1, <1>2, <1>3, <1>4, <1>5, <1>6, <1>7 DEF SceneListsNext

(* The invariant holds throughout.                                         *)
LEMMA SceneListsAlways == SceneListsSpec => []SceneListsInv
  BY SceneListsStart, SceneListsStep, PTL DEF SceneListsSpec

(* However long a result is, every row is written inside the array and is  *)
(* in the reply, in its place (_assure_capacity of statusrslt.c and        *)
(* scenerslt.c).                                                           *)
THEOREM EveryRowReplied == SceneListsSpec => []RepliesWithEveryRow
<1>1. SceneListsInv => RepliesWithEveryRow
  <2> SUFFICES ASSUME SceneListsInv PROVE RepliesWithEveryRow
    OBVIOUS
  <2>1. DOMAIN sl_list = 1 .. sl_next
    BY LenProperties DEF SceneListsInv
  <2> QED  BY <2>1 DEF SceneListsInv, RepliesWithEveryRow
<1> QED  BY <1>1, SceneListsAlways, PTL

(* An answered request has freed its list, but for the array that          *)
(* sceneinfos_free forgets; one without sceneid leaves list and array.     *)
THEOREM SceneListsAreFreed == SceneListsSpec => []ListsLeft
<1>1. SceneListsInv => ListsLeft
  BY DEF SceneListsInv
<1> QED  BY <1>1, SceneListsAlways, PTL

-----------------------------------------------------------------------------
(* What the buffer of a kind holds when n of the rows have been read.      *)
ReadUpTo(kind, n) ==
  IF n = 0 THEN Empty ELSE [row |-> n, chars |-> sg_rows[kind][n]]

(* A query whose result has been read to its end, or that failed.          *)
BufferIsFinal(kind) ==
  sg_buffer[kind] = ReadUpTo(kind, IF kind \in sg_failed THEN 0 ELSE Len(sg_rows[kind]))

(* The inductive invariant: a buffer has all of the last row that was read *)
(* into it, and the two queries are one after the other.                   *)
SceneStatisticsInv ==
  /\ sg_pc \in {"scores", "visitors", "reply", "done", "down"}
  /\ sg_rows \in [Kinds -> Seq(TextLengths \cup {-1})]
  /\ \A kind \in Kinds : Len(sg_rows[kind]) <= MaxTexts
  /\ sg_failed \subseteq Kinds
  /\ sg_buffer \in [Kinds -> [row : Nat, chars : Nat]]
  /\ \A kind \in Kinds : sg_pc = kind =>
       /\ sg_next \in 0 .. Len(sg_rows[kind])
       /\ kind \notin sg_failed
       /\ sg_buffer[kind] = ReadUpTo(kind, sg_next)
  /\ sg_pc = "scores" => "visitors" \notin sg_failed /\ sg_buffer["visitors"] = Empty
  /\ sg_pc \in {"visitors", "reply"} => BufferIsFinal("scores")
  /\ sg_pc = "reply" => BufferIsFinal("visitors")
  /\ sg_pc # "done" => sg_reply = <<>>
  /\ sg_reply # <<>> =>
       /\ sg_reply = <<sg_buffer["scores"], sg_buffer["visitors"]>>
       /\ \A kind \in Kinds : BufferIsFinal(kind)
  /\ sg_pc = "down" =>
       \E kind \in Kinds, k \in 1 .. MaxTexts :
         k \in DOMAIN sg_rows[kind] /\ (sg_rows[kind][k] = -1 \/ sg_rows[kind][k] >= Room(kind))

(* The texts of the tables.                                                *)
LEMMA TextsAreTexts ==
  ASSUME SceneStatisticsInv, NEW kind \in Kinds
  PROVE  /\ sg_rows[kind] \in Seq(TextLengths \cup {-1})
         /\ Len(sg_rows[kind]) \in Nat /\ DOMAIN sg_rows[kind] = 1 .. Len(sg_rows[kind])
         /\ \A k \in 1 .. Len(sg_rows[kind]) : sg_rows[kind][k] \in TextLengths \cup {-1}
<1>1. sg_rows[kind] \in Seq(TextLengths \cup {-1})
  BY DEF SceneStatisticsInv
<1> QED  BY <1>1, LenProperties, ElementOfSeq

(* Before the first row, or with no sceneid.                               *)
LEMMA StatisticsStart == SceneStatisticsInit => SceneStatisticsInv
<1> SUFFICES ASSUME SceneStatisticsInit PROVE SceneStatisticsInv
  OBVIOUS
<1>1. \A s \in BoundedSeq(TextLengths \cup {-1}, MaxTexts) :
        s \in Seq(TextLengths \cup {-1}) /\ Len(s) <= MaxTexts
  <2> SUFFICES ASSUME NEW n \in 0 .. MaxTexts, NEW s \in [1 .. n -> TextLengths \cup {-1}]
               PROVE  s \in Seq(TextLengths \cup {-1}) /\ Len(s) <= MaxTexts
    BY DEF BoundedSeq, SeqOf
  <2>1. n \in Nat /\ n <= MaxTexts
    BY SceneStatisticsAssumption
  <2> QED  BY <2>1, LenOf
<1>2. sg_rows \in [Kinds -> BoundedSeq(TextLengths \cup {-1}, MaxTexts)]
  BY DEF SceneStatisticsInit
<1>3. /\ sg_rows \in [Kinds -> Seq(TextLengths \cup {-1})]
      /\ \A kind \in Kinds : Len(sg_rows[kind]) <= MaxTexts /\ Len(sg_rows[kind]) \in Nat
  BY <1>1, <1>2, LenProperties
<1> QED  BY <1>3 DEF SceneStatisticsInit, SceneStatisticsInv, Kinds, Empty, ReadUpTo

(* strncpy_s copies the whole text, or the program has ended.              *)
LEMMA CopyIsWhole ==
  ASSUME NEW kind \in Kinds, NEW n \in TextLengths \cup {-1}
  PROVE  /\ Copy(kind, n) = {} => n = -1 \/ n >= Room(kind)
         /\ Copy(kind, n) # {} => Copy(kind, n) = {n} /\ n \in Nat
<1>1. n = -1 \/ n \in Nat
  BY SceneStatisticsAssumption
<1>2. Room(kind) \in Nat /\ Room(kind) <= BufferSize /\ BufferSize \in Nat
  BY SceneStatisticsAssumption DEF Room
<1> QED  BY <1>1, <1>2 DEF Copy, Copies, Characters_copied

(* Each step of the handler.                                               *)
LEMMA StatisticsStep == SceneStatisticsInv /\ [SceneStatisticsNext]_sceneStatisticsVars => SceneStatisticsInv'
<1> SUFFICES ASSUME SceneStatisticsInv, [SceneStatisticsNext]_sceneStatisticsVars
             PROVE  SceneStatisticsInv'
  OBVIOUS
<1> USE DEF Kinds, After, BufferIsFinal, ReadUpTo
<1>1. ASSUME NEW kind \in Kinds, StatisticFails(kind) PROVE SceneStatisticsInv'
  BY <1>1 DEF StatisticFails, SceneStatisticsInv
<1>2. ASSUME NEW kind \in Kinds, FetchStatistic(kind) PROVE SceneStatisticsInv'
  <2> DEFINE row == sg_next + 1
             text == sg_rows[kind][row]
  <2>1. /\ row \in 1 .. Len(sg_rows[kind]) /\ row # 0 /\ row \in Nat
        /\ text \in TextLengths \cup {-1}
        /\ row \in 1 .. MaxTexts /\ row \in DOMAIN sg_rows[kind]
    <3>1. /\ sg_next \in 0 .. Len(sg_rows[kind]) /\ sg_next < Len(sg_rows[kind])
          /\ Len(sg_rows[kind]) <= MaxTexts
      BY <1>2 DEF FetchStatistic, SceneStatisticsInv
    <3> QED  BY <3>1, TextsAreTexts, SceneStatisticsAssumption
  <2>2. CASE Copy(kind, text) = {}
    <3>1. sg_pc' = "down" /\ UNCHANGED <<sg_rows, sg_next, sg_buffer, sg_failed, sg_reply>>
      BY <1>2, <2>2 DEF FetchStatistic
    <3>2. text = -1 \/ text >= Room(kind)
      BY <2>1, <2>2, CopyIsWhole
    <3>3. sg_reply = <<>>
      BY <1>2 DEF FetchStatistic, SceneStatisticsInv
    <3>4. \E knd \in Kinds, k \in 1 .. MaxTexts :
            k \in DOMAIN sg_rows[knd] /\ (sg_rows[knd][k] = -1 \/ sg_rows[knd][k] >= Room(knd))
      BY <2>1, <3>2
    <3> QED  BY <3>1, <3>3, <3>4 DEF SceneStatisticsInv, Room
  <2>3. CASE Copy(kind, text) # {}
    <3>1. Copy(kind, text) = {text} /\ text \in Nat
      BY <2>1, <2>3, CopyIsWhole
    <3>2. /\ sg_buffer' = [sg_buffer EXCEPT ![kind] = [row |-> row, chars |-> text]]
          /\ sg_next' = row /\ sg_pc' = sg_pc /\ sg_pc = kind
          /\ UNCHANGED <<sg_rows, sg_failed, sg_reply>>
      BY <1>2, <2>3, <3>1 DEF FetchStatistic
    <3> HIDE DEF row
    <3>3. sg_buffer' \in [Kinds -> [row : Nat, chars : Nat]]
      BY <2>1, <3>1, <3>2 DEF SceneStatisticsInv
    <3>4. sg_buffer'[kind] = [row |-> row, chars |-> sg_rows[kind][row]]
          /\ \A knd \in Kinds : knd # kind => sg_buffer'[knd] = sg_buffer[knd]
      BY <3>2 DEF SceneStatisticsInv
    <3>5. kind = "scores" \/ kind = "visitors"
      OBVIOUS
    <3>6. sg_reply = <<>>
      BY <3>2, <3>5 DEF SceneStatisticsInv
    <3>7. row \in 0 .. Len(sg_rows[kind])
      BY <2>1, TextsAreTexts
    <3> QED  BY <2>1, <3>2, <3>3, <3>4, <3>5, <3>6, <3>7 DEF SceneStatisticsInv
  <2> QED  BY <2>2, <2>3
<1>3. ASSUME NEW kind \in Kinds, StatisticEnds(kind) PROVE SceneStatisticsInv'
  <2>1. Len(sg_rows[kind]) \in Nat /\ Len(sg_rows["visitors"]) \in Nat
    BY TextsAreTexts
  <2> QED  BY <1>3, <2>1 DEF StatisticEnds, SceneStatisticsInv
<1>4. CASE user_analyscene_reply
  BY <1>4 DEF user_analyscene_reply, SceneStatisticsInv
<1>5. CASE UNCHANGED sceneStatisticsVars
  BY <1>5 DEF sceneStatisticsVars, SceneStatisticsInv, Room
<1> QED  BY <1>1, <1>2, <1>3, <1>4, <1>5 DEF SceneStatisticsNext

(* The two texts of /user/analyscene are those of the last rows, uncut, or *)
(* empty; one that is too long ends the program instead (dbaccess.c).      *)
THEOREM StatisticsStayWhole == SceneStatisticsSpec => []StatisticsAreWhole
<1>1. SceneStatisticsInv => StatisticsAreWhole
  <2> SUFFICES ASSUME SceneStatisticsInv PROVE StatisticsAreWhole
    OBVIOUS
  <2>1. ASSUME NEW kind \in Kinds
        PROVE  /\ sg_rows[kind] = <<>> <=> Len(sg_rows[kind]) = 0
               /\ Last(sg_rows[kind]) = sg_rows[kind][Len(sg_rows[kind])]
    BY TextsAreTexts, EmptySeq DEF Last
  <2>2. ASSUME sg_reply # <<>>, NEW k \in 1 .. 2
        PROVE  LET kind == <<"scores", "visitors">>[k]
                   rows == sg_rows[kind]
               IN  IF rows = <<>> \/ kind \in sg_failed THEN sg_reply[k] = Empty
                   ELSE sg_reply[k] = [row |-> Len(rows), chars |-> Last(rows)]
    <3> DEFINE kind == <<"scores", "visitors">>[k]
    <3>1. kind \in Kinds /\ sg_reply[k] = sg_buffer[kind] /\ BufferIsFinal(kind)
      BY <2>2 DEF SceneStatisticsInv, Kinds
    <3> HIDE DEF kind
    <3>2. /\ sg_rows[kind] = <<>> <=> Len(sg_rows[kind]) = 0
          /\ Last(sg_rows[kind]) = sg_rows[kind][Len(sg_rows[kind])]
      BY <2>1, <3>1
    <3>3. IF sg_rows[kind] = <<>> \/ kind \in sg_failed THEN sg_reply[k] = Empty
          ELSE sg_reply[k] = [row |-> Len(sg_rows[kind]), chars |-> Last(sg_rows[kind])]
      BY <3>1, <3>2 DEF BufferIsFinal, ReadUpTo
    <3> QED  BY <3>3 DEF kind
  <2> QED  BY <2>2 DEF StatisticsAreWhole, SceneStatisticsInv
<1>2. SceneStatisticsSpec => []SceneStatisticsInv
  BY StatisticsStart, StatisticsStep, PTL DEF SceneStatisticsSpec
<1> QED  BY <1>1, <1>2, PTL

-----------------------------------------------------------------------------
(* The row whose text json is at once row r has been read.                 *)
SourceRow(rows, r) ==
  LET set == {k \in 1 .. r : rows[k].column[1] # "NULL"}
  IN  IF set = {} THEN 0 ELSE CHOOSE k \in set : \A j \in set : j <= k

(* How many ranges row r brings.                                         *)
RangeCount(rows, r) ==
  IF SourceRow(rows, r) = 0 THEN 0 ELSE Len(rows[SourceRow(rows, r)].column[2])

(* How many ranges the first rows have together.                           *)
RangesBefore(rows) == RunningSums([r \in 1 .. Len(rows) |-> RangeCount(rows, r)])

(* What the list has of the e-th range of row r.                           *)
RangeEntry(rows, r, e) ==
  [scene |-> rows[r].scene,
   s1 |-> rows[SourceRow(rows, r)].column[2][e].s1,
   s2 |-> rows[SourceRow(rows, r)].column[2][e].s2,
   from |-> <<SourceRow(rows, r), e>>]

RangeEntries(rows) == {RangeEntry(rows, r, e) : r \in 1 .. Len(rows), e \in Nat}

(* The list has the ranges of the first m rows, as far as there is room:   *)
(* the e-th of row r stands behind all those of the rows before.           *)
ListHasRanges(rows, list, m) ==
  /\ list \in Seq(RangeEntries(rows))
  /\ Len(list) = IF RangesBefore(rows)[m] < _maxscore_scs_num THEN RangesBefore(rows)[m]
                 ELSE _maxscore_scs_num
  /\ \A k \in 1 .. Len(list) : \E r \in 1 .. m : \E e \in 1 .. RangeCount(rows, r) :
       k = RangesBefore(rows)[r - 1] + e /\ list[k] = RangeEntry(rows, r, e)
  /\ \A r \in 1 .. m : \A e \in 1 .. RangeCount(rows, r) :
       RangesBefore(rows)[r - 1] + e <= _maxscore_scs_num =>
         list[RangesBefore(rows)[r - 1] + e] = RangeEntry(rows, r, e)

(* The strings of a range of the first m rows for which there is room.     *)
HasRoom(rows, l, m) ==
  \E r \in 1 .. m : \E e \in 1 .. RangeCount(rows, r) :
    l = <<r, <<SourceRow(rows, r), e>>>> /\ RangesBefore(rows)[r - 1] + e <= _maxscore_scs_num

(* The strings of a range for which there is none.                         *)
HasNoRoom(rows, l) ==
  \E r \in 1 .. Len(rows) : \E e \in 1 .. RangeCount(rows, r) :
    l = <<r, <<SourceRow(rows, r), e>>>> /\ RangesBefore(rows)[r - 1] + e > _maxscore_scs_num

RowsOfRanges(rows) ==
  /\ rows \in Seq([scene : RangeScenes, column : Columns_scorerange])
  /\ \A k, l \in 1 .. Len(rows) : rows[k].scene = rows[l].scene => k = l

(* The strings that are allocated are those of the listed ranges and those *)
(* that were lost.                                                         *)
StringsOfRanges(rows, live, lost, m) ==
  /\ \A l \in live : l \in lost \/ HasRoom(rows, l, m)
  /\ \A l : HasRoom(rows, l, m) => l \in live

(* The inductive invariant: the list is what the rows say, and the place   *)
(* of a range in it is the same in every load.                             *)
RangesInv ==
  /\ RowsOfRanges(sr_rows)
  /\ sr_pc \in {"empty", "loading", "loaded", "down"}
  /\ sr_next \in 0 .. Len(sr_rows)
  /\ sr_pc = "empty" => sr_live \subseteq sr_lost
  /\ sr_pc = "loading" =>
       /\ sr_json = SourceRow(sr_rows, sr_next)
       /\ ListHasRanges(sr_rows, sr_list, sr_next)
       /\ StringsOfRanges(sr_rows, sr_live, sr_lost, sr_next)
  /\ sr_pc = "loaded" =>
       \/ sr_list = <<>> /\ sr_live \subseteq sr_lost
       \/ /\ ListHasRanges(sr_rows, sr_list, Len(sr_rows))
          /\ StringsOfRanges(sr_rows, sr_live, sr_lost, Len(sr_rows))
  /\ \A l \in sr_lost : HasNoRoom(sr_rows, l)
  /\ sr_pc # "loaded" => sr_comment = NoComment
  /\ SuggestionHoldsTheScore

(* The column of a row.                                                    *)
LEMMA ColumnFacts ==
  ASSUME NEW rows, RowsOfRanges(rows)
  PROVE  /\ Len(rows) \in Nat /\ DOMAIN rows = 1 .. Len(rows)
         /\ \A r \in 1 .. Len(rows) :
              /\ rows[r].column[2] \in Seq(Ranges)
              /\ Len(rows[r].column[2]) \in Nat
              /\ DOMAIN rows[r].column[2] = 1 .. Len(rows[r].column[2])
<1> DEFINE R == [scene : RangeScenes, column : Columns_scorerange]
<1>1. rows \in Seq(R)
  BY DEF RowsOfRanges
<1>2. ASSUME NEW r \in 1 .. Len(rows)
      PROVE  rows[r].column[2] \in Seq(Ranges)
  <2>1. rows[r] \in R
    <3> HIDE DEF R
    <3> QED  BY <1>1, ElementOfSeq
  <2>2. rows[r].column \in Columns_scorerange
    BY <2>1
  <2>3. \A rs \in BoundedSeq(Ranges, MaxRanges) : rs \in Seq(Ranges)
    <3> SUFFICES ASSUME NEW n \in 0 .. MaxRanges, NEW rs \in [1 .. n -> Ranges] PROVE rs \in Seq(Ranges)
      BY DEF BoundedSeq, SeqOf
    <3>1. n \in Nat
      BY ScoreRangesAssumption
    <3> QED  BY <3>1, LenOf
  <2>4. <<>> \in Seq(Ranges)
    OBVIOUS
  <2>5. CASE \E rs \in BoundedSeq(Ranges, MaxRanges) : rows[r].column = <<"ranges", rs>>
    BY <2>5, <2>3
  <2>6. CASE rows[r].column \in {<<"bad", <<>>>>, <<"NULL", <<>>>>}
    <3>1. \A x : <<x, <<>>>>[2] = <<>>
      OBVIOUS
    <3>2. rows[r].column = <<"bad", <<>>>> \/ rows[r].column = <<"NULL", <<>>>>
      BY <2>6
    <3>3. rows[r].column[2] = <<>>
      BY <3>1, <3>2
    <3> QED  BY <3>3, <2>4
  <2> QED  BY <2>2, <2>5, <2>6 DEF Columns_scorerange
<1> HIDE DEF R
<1>3. Len(rows) \in Nat /\ DOMAIN rows = 1 .. Len(rows)
  BY <1>1, LenProperties
<1> QED  BY <1>2, <1>3, LenProperties

(* The source of a row without a column is that of the row before.         *)
LEMMA SourceFacts ==
  ASSUME NEW rows, RowsOfRanges(rows)
  PROVE  /\ SourceRow(rows, 0) = 0
         /\ \A r \in 1 .. Len(rows) :
              SourceRow(rows, r) = IF rows[r].column[1] = "NULL" THEN SourceRow(rows, r - 1) ELSE r
         /\ \A r \in 0 .. Len(rows) : SourceRow(rows, r) \in 0 .. r
<1>1. Len(rows) \in Nat
  BY ColumnFacts
<1> DEFINE set(r) == {k \in 1 .. r : rows[k].column[1] # "NULL"}
<1>2. ASSUME NEW r \in 0 .. Len(rows), set(r) # {}
      PROVE  \E k \in set(r) : \A j \in set(r) : j <= k
  <2> DEFINE S == set(r)
  <2>1. S \subseteq Nat /\ r \in Nat /\ \A k \in S : k <= r /\ k # 0
    BY <1>1
  <2>2. S # {}
    BY <1>2
  <2> HIDE DEF S
  <2>3. PICK n \in S \cup {0} : \A k \in S : k <= n
    BY <2>1, LargestOf
  <2>4. n \in S
    <3>1. PICK x \in S : TRUE
      BY <2>2
    <3>2. x \in Nat /\ x # 0 /\ x <= n
      BY <2>1, <2>3
    <3>3. n # 0
      BY <3>2
    <3> QED  BY <2>3, <3>3
  <2> QED  BY <2>3, <2>4 DEF S
<1>3. ASSUME NEW r \in 0 .. Len(rows)
      PROVE  /\ set(r) = {} => SourceRow(rows, r) = 0
             /\ set(r) # {} => /\ SourceRow(rows, r) \in set(r)
                               /\ \A j \in set(r) : j <= SourceRow(rows, r)
  <2> DEFINE S == set(r)
             c == CHOOSE k \in S : \A j \in S : j <= k
  <2>1. S # {} => c \in S /\ \A j \in S : j <= c
    <3>1. S # {} => \E k \in S : \A j \in S : j <= k
      BY <1>2
    <3> HIDE DEF S
    <3> QED  BY <3>1
  <2>2. SourceRow(rows, r) = IF S = {} THEN 0 ELSE c
    BY DEF SourceRow
  <2> HIDE DEF c
  <2> QED  BY <2>1, <2>2
<1>4. set(0) = {}
  OBVIOUS
<1>5. ASSUME NEW r \in 1 .. Len(rows)
      PROVE  SourceRow(rows, r) = IF rows[r].column[1] = "NULL" THEN SourceRow(rows, r - 1) ELSE r
  <2>1. r - 1 \in 0 .. Len(rows) /\ r \in 0 .. Len(rows) /\ r \in Int
    BY <1>1
  <2>2. CASE rows[r].column[1] = "NULL"
    <3>1. set(r) = set(r - 1)
      BY <2>1, <2>2
    <3>2. SourceRow(rows, r) = LET S == set(r) IN IF S = {} THEN 0 ELSE CHOOSE k \in S : \A j \in S : j <= k
      BY DEF SourceRow
    <3>3. SourceRow(rows, r - 1) = LET S == set(r - 1) IN IF S = {} THEN 0 ELSE CHOOSE k \in S : \A j \in S : j <= k
      BY DEF SourceRow
    <3> HIDE DEF set
    <3>4. SourceRow(rows, r) = SourceRow(rows, r - 1)
      BY <3>1, <3>2, <3>3
    <3> QED  BY <3>4, <2>2
  <2>3. CASE rows[r].column[1] # "NULL"
    <3>1. r \in set(r) /\ \A j \in set(r) : j <= r /\ j \in Int
      BY <2>1, <2>3
    <3>2. SourceRow(rows, r) \in set(r) /\ r <= SourceRow(rows, r)
      BY <2>1, <3>1, <1>3
    <3> QED  BY <2>1, <2>3, <3>1, <3>2
  <2> QED  BY <2>2, <2>3
<1>6. ASSUME NEW r \in 0 .. Len(rows) PROVE SourceRow(rows, r) \in 0 .. r
  <2>1. \A k \in set(r) : k \in 0 .. r
    BY <1>1
  <2>2. 0 \in 0 .. r
    BY <1>1
  <2> QED  BY <1>3, <2>1, <2>2
<1>7. SourceRow(rows, 0) = 0
  BY <1>1, <1>3, <1>4
<1> QED  BY <1>5, <1>6, <1>7

(* The ranges of the first rows add up.                                    *)
LEMMA BeforeFacts ==
  ASSUME NEW rows, RowsOfRanges(rows)
  PROVE  /\ \A r \in 0 .. Len(rows) : RangesBefore(rows)[r] \in Nat
         /\ RangesBefore(rows)[0] = 0
         /\ \A a \in 0 .. Len(rows) : \A b \in a .. Len(rows) :
              RangesBefore(rows)[a] <= RangesBefore(rows)[b]
         /\ \A r \in 1 .. Len(rows) :
              /\ RangeCount(rows, r) \in Nat
              /\ RangesBefore(rows)[r] = RangesBefore(rows)[r - 1] + RangeCount(rows, r)
<1> DEFINE n == Len(rows)
           f == [r \in 1 .. n |-> RangeCount(rows, r)]
<1>1. n \in Nat
  BY ColumnFacts
<1>2. \A r \in 1 .. n : RangeCount(rows, r) \in Nat
  <2> SUFFICES ASSUME NEW r \in 1 .. n PROVE RangeCount(rows, r) \in Nat
    OBVIOUS
  <2>1. SourceRow(rows, r) \in 0 .. r
    BY <1>1, SourceFacts
  <2>2. SourceRow(rows, r) # 0 => SourceRow(rows, r) \in 1 .. Len(rows)
    BY <1>1, <2>1
  <2> QED  BY <2>2, ColumnFacts DEF RangeCount
<1> HIDE DEF n
<1>3. f \in [1 .. n -> Nat]
  BY <1>2
<1>4. RangesBefore(rows) = RunningSums(f)
  BY DEF RangesBefore, n
<1> HIDE DEF f
<1>5. /\ RunningSums(f) \in [0 .. n -> Nat] /\ RunningSums(f)[0] = 0
      /\ \A r \in 1 .. n : RunningSums(f)[r] = RunningSums(f)[r - 1] + f[r]
  BY <1>1, <1>3, RunningSumsAre
<1>6. ASSUME NEW a \in 0 .. n, NEW b \in a .. n PROVE RunningSums(f)[a] <= RunningSums(f)[b]
  BY <1>1, <1>3, RunningSumsGrow
<1>7. \A r \in 1 .. n : f[r] = RangeCount(rows, r)
  BY DEF f
<1> QED  BY <1>2, <1>4, <1>5, <1>6, <1>7 DEF n

(* The arithmetic of a list with a limit: a entries were to be in it, c    *)
(* more come, and kept of them find room behind the l that did.            *)
LimitHolds(a, c, max, l, room, kept) ==
  /\ l \in Nat /\ room \in Nat /\ kept \in 0 .. c /\ kept <= room /\ l <= max
  /\ l + kept = IF a + c < max THEN a + c ELSE max
  /\ \A k \in 1 .. c : a + k <= max <=> k <= room
  /\ \A k \in 1 .. kept : a = l /\ k \in 1 .. c

(* So it is, when the list has been filled up to its limit.              *)
LEMMA LimitFacts ==
  ASSUME NEW a \in Nat, NEW c \in Nat, NEW max \in Nat, NEW l, NEW room, NEW kept,
         l = IF a < max THEN a ELSE max, room = max - l, kept = IF c < room THEN c ELSE room
  PROVE  LimitHolds(a, c, max, l, room, kept)
<1> USE DEF LimitHolds
<1>1. CASE a < max
  <2>1. CASE c < room
    BY <1>1, <2>1
  <2>2. CASE ~ (c < room)
    BY <1>1, <2>2
  <2> QED  BY <2>1, <2>2
<1>2. CASE ~ (a < max)
  BY <1>2
<1> QED  BY <1>1, <1>2

(* What FetchRange makes of row m, and how much of it finds room.          *)
RangesOfRow(rows, m) == [k \in 1 .. RangeCount(rows, m) |-> RangeEntry(rows, m, k)]

(* The room in the list, and how many of them are kept.                  *)
AreKept(rows, list, m, room, kept) ==
  /\ room = _maxscore_scs_num - Len(list)
  /\ kept = IF RangeCount(rows, m) < room THEN RangeCount(rows, m) ELSE room

(* The ranges of a row, put behind those of the rows before.               *)
LEMMA RangesAppended ==
  ASSUME NEW rows, RowsOfRanges(rows), NEW list, NEW m \in 1 .. Len(rows),
         ListHasRanges(rows, list, m - 1),
         NEW room, NEW kept, AreKept(rows, list, m, room, kept)
  PROVE  /\ ListHasRanges(rows, list \o SubSeq(RangesOfRow(rows, m), 1, kept), m)
         /\ \A k \in 1 .. RangeCount(rows, m) :
              RangesBefore(rows)[m - 1] + k <= _maxscore_scs_num <=> k <= room
<1> DEFINE R == RangesBefore(rows)
           E == RangeEntries(rows)
           c == RangeCount(rows, m)
           max == _maxscore_scs_num
           els == RangesOfRow(rows, m)
           new == SubSeq(els, 1, kept)
           n == Len(rows)
<1>0. n \in Nat /\ m \in 1 .. n /\ m - 1 \in 0 .. n /\ m \in 0 .. n /\ max \in Nat
  BY ColumnFacts, ScoreRangesAssumption
<1>1. R[m - 1] \in Nat /\ R[m] \in Nat /\ R[m] = R[m - 1] + c /\ c \in Nat
  BY <1>0, BeforeFacts
<1>2. list \in Seq(E) /\ Len(list) = IF R[m - 1] < max THEN R[m - 1] ELSE max
  BY DEF ListHasRanges
<1>3. \A k \in 1 .. c : RangeEntry(rows, m, k) \in E
  BY <1>0, <1>1 DEF RangeEntries
<1>4. els \in Seq(E) /\ Len(els) = c /\ \A k \in 1 .. c : els[k] = RangeEntry(rows, m, k) /\ els[k] \in E
  <2>0. \A k \in 1 .. c : els[k] = RangeEntry(rows, m, k)
    BY DEF RangesOfRow
  <2>1. els \in [1 .. c -> E]
    BY <1>3 DEF RangesOfRow
  <2> HIDE DEF E
  <2> HIDE DEF els
  <2> QED  BY <1>1, <1>3, <2>0, <2>1, LenOf
<1> HIDE DEF R, E, c, max, n, els
<1>5. /\ Len(list) \in Nat /\ room \in Nat /\ kept \in 0 .. c /\ kept <= room
      /\ Len(list) <= max
      /\ Len(list) + kept = IF R[m] < max THEN R[m] ELSE max
      /\ \A k \in 1 .. c : R[m - 1] + k <= max <=> k <= room
      /\ \A k \in 1 .. kept : R[m - 1] = Len(list) /\ k \in 1 .. c
  <2>1. room = max - Len(list)
    BY DEF max, AreKept
  <2>2. kept = IF c < room THEN c ELSE room
    BY DEF c, AreKept
  <2>3. Len(list) = IF R[m - 1] < max THEN R[m - 1] ELSE max
    BY <1>2
  <2>4. LimitHolds(R[m - 1], c, max, Len(list), room, kept)
    BY <1>0, <1>1, <2>1, <2>2, <2>3, LimitFacts
  <2> QED  BY <1>1, <2>4 DEF LimitHolds
<1>6. new \in Seq(E) /\ Len(new) = kept /\ \A k \in 1 .. kept : new[k] = RangeEntry(rows, m, k)
  <2>1. kept \in 0 .. Len(els) /\ \A k \in 1 .. kept : k \in 1 .. c
    BY <1>1, <1>4, <1>5
  <2>2. /\ new \in Seq(E) /\ Len(new) = kept
        /\ \A k \in 1 .. kept : new[k] = els[k]
    BY <1>4, <2>1, PrefixIs
  <2> HIDE DEF new
  <2> QED  BY <1>4, <2>1, <2>2
<1> HIDE DEF new
<1>7. /\ list \o new \in Seq(E) /\ Len(list \o new) = Len(list) + kept
      /\ \A k \in 1 .. Len(list) + kept :
           (list \o new)[k] = IF k <= Len(list) THEN list[k] ELSE new[k - Len(list)]
  BY <1>2, <1>6, ConcatProperties
<1>8. Len(list) + kept = IF R[m] < max THEN R[m] ELSE max
  BY <1>5
<1>9. \A k \in 1 .. c : R[m - 1] + k <= max <=> k <= room
  BY <1>5
<1>10. \A k \in 1 .. kept : R[m - 1] = Len(list) /\ k \in 1 .. c
  BY <1>5
<1>11. ASSUME NEW k \in 1 .. Len(list) + kept
       PROVE  \E r \in 1 .. m : \E e \in 1 .. RangeCount(rows, r) :
                k = R[r - 1] + e /\ (list \o new)[k] = RangeEntry(rows, r, e)
  <2>1. CASE k <= Len(list)
    <3>1. k \in 1 .. Len(list)
      BY <1>5, <2>1
    <3>2. PICK r \in 1 .. m - 1 : \E e \in 1 .. RangeCount(rows, r) :
            k = R[r - 1] + e /\ list[k] = RangeEntry(rows, r, e)
      BY <3>1 DEF ListHasRanges, R
    <3>3. r \in 1 .. m
      BY <1>0
    <3> QED  BY <1>7, <2>1, <3>2, <3>3
  <2>2. CASE k > Len(list)
    <3>1. k - Len(list) \in 1 .. kept
      BY <1>5, <2>2
    <3>2. k - Len(list) \in 1 .. RangeCount(rows, m) /\ R[m - 1] = Len(list)
      BY <1>10, <3>1 DEF c
    <3>3. (list \o new)[k] = RangeEntry(rows, m, k - Len(list)) /\ k = R[m - 1] + (k - Len(list))
      <4>1. ~ (k <= Len(list))
        BY <1>5, <2>2
      <4>2. (list \o new)[k] = new[k - Len(list)]
        BY <1>7, <4>1
      <4>3. k = Len(list) + (k - Len(list))
        BY <1>5
      <4> QED  BY <1>6, <3>1, <3>2, <4>2, <4>3
    <3>4. m \in 1 .. m
      BY <1>0
    <3> QED  BY <3>2, <3>3, <3>4
  <2>3. k <= Len(list) \/ k > Len(list)
    <3>1. k \in Int /\ Len(list) \in Int
      BY <1>5
    <3> QED  BY <3>1
  <2> QED  BY <2>1, <2>2, <2>3
<1>12. ASSUME NEW r \in 1 .. m, NEW e \in 1 .. RangeCount(rows, r), R[r - 1] + e <= max
       PROVE  (list \o new)[R[r - 1] + e] = RangeEntry(rows, r, e)
  <2>1. CASE r = m
    <3>1. e \in 1 .. c /\ e <= room /\ e <= c
      BY <1>1, <1>9, <1>12, <2>1 DEF c
    <3>2. e \in 1 .. kept
      <4>1. kept = IF c < room THEN c ELSE room
        BY DEF c, AreKept
      <4> QED  BY <3>1, <4>1, <1>1, <1>5
    <3>3. R[m - 1] = Len(list)
      BY <3>2, <1>10
    <3>4. /\ Len(list) + e \in 1 .. Len(list) + kept /\ ~ (Len(list) + e <= Len(list))
          /\ (Len(list) + e) - Len(list) = e
      BY <3>2, <1>5
    <3> QED  BY <1>6, <1>7, <2>1, <3>2, <3>3, <3>4
  <2>2. CASE r # m
    <3>1. r \in 1 .. m - 1 /\ r \in 1 .. n /\ r - 1 \in 0 .. n
      BY <1>0, <2>2
    <3>2. list[R[r - 1] + e] = RangeEntry(rows, r, e)
      BY <3>1, <1>12 DEF ListHasRanges, R, max
    <3>3. R[r - 1] \in Nat /\ R[r] = R[r - 1] + RangeCount(rows, r) /\ RangeCount(rows, r) \in Nat
      BY <3>1, BeforeFacts DEF R, n
    <3>4. R[r] <= R[m - 1]
      <4>1. r \in 0 .. n /\ m - 1 \in r .. n
        BY <1>0, <3>1
      <4> QED  BY <4>1, BeforeFacts DEF R, n
    <3>5. R[r - 1] + e \in 1 .. Len(list)
      <4>1. Len(list) = R[m - 1] \/ Len(list) = max
        BY <1>2
      <4>2. R[r - 1] + e >= 1 /\ R[r - 1] + e <= R[m - 1] /\ R[r - 1] + e \in Int
        <5>1. e \in Nat /\ e >= 1 /\ e <= RangeCount(rows, r)
          BY <3>3
        <5> DEFINE p == R[r - 1]
                   q == R[m - 1]
                   d == RangeCount(rows, r)
        <5>2. p \in Nat /\ q \in Nat /\ d \in Nat /\ p + d <= q
          BY <1>1, <3>3, <3>4
        <5>3. e \in Nat /\ e >= 1 /\ e <= d
          BY <5>1
        <5> HIDE DEF p, q, d
        <5>4. p + e >= 1 /\ p + e <= q /\ p + e \in Int
          BY <5>2, <5>3
        <5> QED  BY <5>4 DEF p, q
      <4>3. R[r - 1] + e <= Len(list)
        BY <1>12, <4>1, <4>2
      <4> QED  BY <1>5, <4>2, <4>3
    <3>6. R[r - 1] + e \in 1 .. Len(list) + kept /\ R[r - 1] + e <= Len(list)
      BY <1>5, <3>5
    <3> QED  BY <1>7, <3>2, <3>6
  <2> QED  BY <2>1, <2>2
<1>13. ListHasRanges(rows, list \o new, m)
  BY <1>7, <1>8, <1>11, <1>12 DEF ListHasRanges, R, E, max
<1> QED  BY <1>9, <1>13 DEF new, els, c, R, max

(* There is room, or none, but never less.                                 *)
LEMMA RoomIsLeft ==
  ASSUME NEW rows, RowsOfRanges(rows), NEW list, NEW m \in 0 .. Len(rows), ListHasRanges(rows, list, m)
  PROVE  _maxscore_scs_num - Len(list) \in Nat
<1>1. RangesBefore(rows)[m] \in Nat
  BY BeforeFacts
<1>2. Len(list) = IF RangesBefore(rows)[m] < _maxscore_scs_num THEN RangesBefore(rows)[m]
                  ELSE _maxscore_scs_num
  BY DEF ListHasRanges
<1> QED  BY <1>1, <1>2, ScoreRangesAssumption

(* The strings that are copied with row m, and those of them that are      *)
(* lost.                                                                   *)
StringsOfRow(rows, m) == {<<m, <<SourceRow(rows, m), k>>>> : k \in 1 .. RangeCount(rows, m)}
StringsLost(rows, m, room) ==
  {<<m, <<SourceRow(rows, m), k>>>> : k \in room + 1 .. RangeCount(rows, m)}

(* The strings of row m join the others; those past the room are lost.   *)
LEMMA StringsAppended ==
  ASSUME NEW rows, RowsOfRanges(rows), NEW m \in 1 .. Len(rows), NEW live, NEW lost,
         StringsOfRanges(rows, live, lost, m - 1), NEW room \in Nat,
         \A k \in 1 .. RangeCount(rows, m) :
           RangesBefore(rows)[m - 1] + k <= _maxscore_scs_num <=> k <= room
  PROVE  /\ StringsOfRanges(rows, live \cup StringsOfRow(rows, m), lost \cup StringsLost(rows, m, room), m)
         /\ \A l \in StringsLost(rows, m, room) : HasNoRoom(rows, l)
<1>0. Len(rows) \in Nat /\ m - 1 \in 0 .. Len(rows) /\ m \in 1 .. m /\ RangeCount(rows, m) \in Nat
      /\ 1 .. m - 1 \subseteq 1 .. m /\ \A r \in 1 .. m : r \in 1 .. m - 1 \/ r = m
  BY ColumnFacts, BeforeFacts
<1>1. ASSUME NEW l, HasRoom(rows, l, m - 1) PROVE HasRoom(rows, l, m)
  BY <1>0, <1>1 DEF HasRoom
<1>2. ASSUME NEW k \in 1 .. RangeCount(rows, m), k <= room
      PROVE  HasRoom(rows, <<m, <<SourceRow(rows, m), k>>>>, m)
  BY <1>0, <1>2 DEF HasRoom
<1>3. ASSUME NEW l, HasRoom(rows, l, m)
      PROVE  HasRoom(rows, l, m - 1) \/ l \in StringsOfRow(rows, m)
  <2>0. PICK r \in 1 .. m : \E e \in 1 .. RangeCount(rows, r) :
          l = <<r, <<SourceRow(rows, r), e>>>> /\ RangesBefore(rows)[r - 1] + e <= _maxscore_scs_num
    BY <1>3 DEF HasRoom
  <2>1. PICK e \in 1 .. RangeCount(rows, r) :
          l = <<r, <<SourceRow(rows, r), e>>>> /\ RangesBefore(rows)[r - 1] + e <= _maxscore_scs_num
    BY <2>0
  <2>2. CASE r = m
    BY <2>1, <2>2 DEF StringsOfRow
  <2>3. CASE r \in 1 .. m - 1
    BY <2>1, <2>3 DEF HasRoom
  <2> QED  BY <1>0, <2>2, <2>3
<1>4. ASSUME NEW k \in room + 1 .. RangeCount(rows, m)
      PROVE  k \in 1 .. RangeCount(rows, m) /\ ~ (k <= room)
  BY <1>0
<1>5. ASSUME NEW l \in StringsLost(rows, m, room) PROVE HasNoRoom(rows, l)
  <2>1. PICK k \in room + 1 .. RangeCount(rows, m) : l = <<m, <<SourceRow(rows, m), k>>>>
    BY DEF StringsLost
  <2>2. k \in 1 .. RangeCount(rows, m) /\ ~ (RangesBefore(rows)[m - 1] + k <= _maxscore_scs_num)
    BY <1>4, <2>1
  <2>3. RangesBefore(rows)[m - 1] + k > _maxscore_scs_num
    <3>1. RangesBefore(rows)[m - 1] \in Nat /\ k \in Nat /\ _maxscore_scs_num \in Nat
      BY <1>0, <2>2, BeforeFacts, ScoreRangesAssumption
    <3> QED  BY <2>2, <3>1
  <2> QED  BY <2>1, <2>2, <2>3 DEF HasNoRoom
<1>6. ASSUME NEW l \in StringsOfRow(rows, m)
      PROVE  HasRoom(rows, l, m) \/ l \in StringsLost(rows, m, room)
  <2>1. PICK k \in 1 .. RangeCount(rows, m) : l = <<m, <<SourceRow(rows, m), k>>>>
    BY DEF StringsOfRow
  <2>2. CASE k <= room
    BY <1>2, <2>1, <2>2
  <2>3. CASE k > room
    <3>1. k \in room + 1 .. RangeCount(rows, m)
      BY <1>0, <2>3
    <3> QED  BY <2>1, <3>1 DEF StringsLost
  <2>4. k <= room \/ k > room
    BY <1>0
  <2> QED  BY <2>2, <2>3, <2>4
<1>7. StringsOfRanges(rows, live \cup StringsOfRow(rows, m), lost \cup StringsLost(rows, m, room), m)
  BY <1>1, <1>3, <1>6 DEF StringsOfRanges
<1> QED  BY <1>5, <1>7

(* The place of a range that has room is in the list.                      *)
LEMMA IndexInList ==
  ASSUME NEW rows, RowsOfRanges(rows), NEW list, ListHasRanges(rows, list, Len(rows)),
         NEW r \in 1 .. Len(rows), NEW e \in 1 .. RangeCount(rows, r),
         RangesBefore(rows)[r - 1] + e <= _maxscore_scs_num
  PROVE  RangesBefore(rows)[r - 1] + e \in DOMAIN list
<1> DEFINE p == RangesBefore(rows)[r - 1]
           q == RangesBefore(rows)[r]
           t == RangesBefore(rows)[Len(rows)]
           d == RangeCount(rows, r)
<1>1. Len(rows) \in Nat /\ r - 1 \in 0 .. Len(rows) /\ r \in 0 .. Len(rows) /\ Len(rows) \in r .. Len(rows)
      /\ Len(rows) \in 0 .. Len(rows)
  BY ColumnFacts
<1>2. p \in Nat /\ t \in Nat /\ d \in Nat /\ q = p + d /\ q <= t
  BY <1>1, BeforeFacts
<1>3. DOMAIN list = 1 .. Len(list) /\ Len(list) = IF t < _maxscore_scs_num THEN t ELSE _maxscore_scs_num
  BY LenProperties DEF ListHasRanges
<1>4. p + e <= _maxscore_scs_num /\ e \in Nat /\ e >= 1 /\ e <= d
  BY <1>2
<1> HIDE DEF p, q, t, d
<1>5. p + e \in 1 .. Len(list)
  BY <1>2, <1>3, <1>4, ScoreRangesAssumption
<1> QED  BY <1>3, <1>5 DEF p

-----------------------------------------------------------------------------
(* SuggestionHoldsTheScore of the state that is given.                     *)
RowOfScene(rows, scene) ==
  LET own == {k \in DOMAIN rows : rows[k].scene = scene}
  IN  IF own = {} THEN 0 ELSE SourceRow(rows, CHOOSE k \in own : TRUE)

SuggestionIsRight(rows, list, comment) ==
  LET row == RowOfScene(rows, comment.scene)
      holds == {k \in DOMAIN rows[row].column[2] :
                  /\ rows[row].column[2][k].s1 <= comment.fscore
                  /\ comment.fscore <= rows[row].column[2][k].s2}
  IN  comment # NoComment =>
        IF comment.from # <<>>
        THEN comment.from[1] = row /\ comment.from[2] \in holds
             /\ \A k \in holds : comment.from[2] <= k
        ELSE row = 0 \/ holds = {} \/ list = <<>> \/ Len(list) = _maxscore_scs_num

(* The model reads the same row.                                         *)
LEMMA RowOfIs ==
  ASSUME NEW scene PROVE RowOf(scene) = RowOfScene(sr_rows, scene)
<1> DEFINE rows == {k \in DOMAIN sr_rows : sr_rows[k].scene = scene}
           own == CHOOSE k \in rows : TRUE
           set == {k \in 1 .. own : sr_rows[k].column[1] # "NULL"}
<1>1. RowOf(scene) = IF rows = {} \/ set = {} THEN 0 ELSE CHOOSE k \in set : \A j \in set : j <= k
  BY DEF RowOf
<1>2. SourceRow(sr_rows, own) = IF set = {} THEN 0 ELSE CHOOSE k \in set : \A j \in set : j <= k
  BY DEF SourceRow
<1>3. RowOfScene(sr_rows, scene) = IF rows = {} THEN 0 ELSE SourceRow(sr_rows, own)
  BY DEF RowOfScene
<1> HIDE DEF set, own, rows
<1> QED  BY <1>1, <1>2, <1>3

(* The property of the run is the one of the state.                      *)
LEMMA SuggestionIs == SuggestionHoldsTheScore <=> SuggestionIsRight(sr_rows, sr_list, sr_comment)
  BY RowOfIs DEF SuggestionHoldsTheScore, SuggestionIsRight

(* What replace_score_suggest finds in a list.                             *)
HitsIn(list, scene, fscore) ==
  {k \in DOMAIN list : list[k].scene = scene /\ list[k].s1 <= fscore /\ fscore <= list[k].s2}

FirstFrom(list, hits) ==
  IF hits = {} THEN <<>> ELSE list[CHOOSE k \in hits : \A j \in hits : k <= j].from

(* The first range in the list that holds the score is the first in the    *)
(* column of its scene, as the ranges of a row are listed in their order.  *)
LEMMA FirstHit ==
  ASSUME NEW rows, RowsOfRanges(rows), NEW list, NEW scene, NEW fscore,
         list = <<>> \/ ListHasRanges(rows, list, Len(rows))
  PROVE  SuggestionIsRight(rows, list, [scene |-> scene, fscore |-> fscore,
                                        from |-> FirstFrom(list, HitsIn(list, scene, fscore))])
<1> DEFINE n == Len(rows)
           row == RowOfScene(rows, scene)
           column == rows[row].column[2]
           holds == {k \in DOMAIN column : column[k].s1 <= fscore /\ fscore <= column[k].s2}
           before == RangesBefore(rows)
           hits == HitsIn(list, scene, fscore)
           from == FirstFrom(list, hits)
<1>0. n \in Nat /\ DOMAIN rows = 1 .. n /\ \A k, l \in 1 .. n : rows[k].scene = rows[l].scene => k = l
  BY ColumnFacts DEF RowsOfRanges
<1>1. ASSUME NEW r \in 1 .. n, rows[r].scene = scene
      PROVE  row = SourceRow(rows, r) /\ row \in 0 .. n
  <2>1. {k \in DOMAIN rows : rows[k].scene = scene} = {r}
    BY <1>0, <1>1
  <2>2. row = SourceRow(rows, r)
    BY <2>1 DEF RowOfScene
  <2>3. SourceRow(rows, r) \in 0 .. r
    BY <1>0, SourceFacts
  <2> HIDE DEF row
  <2> QED  BY <1>0, <2>2, <2>3
<1>2. ASSUME row # 0 PROVE \E r \in 1 .. n : rows[r].scene = scene
  <2> DEFINE own == {k \in DOMAIN rows : rows[k].scene = scene}
  <2>1. own # {}
    BY <1>2 DEF RowOfScene
  <2> QED  BY <1>0, <2>1
<1> HIDE DEF row, n, before
<1>3. ASSUME NEW r \in 1 .. n, rows[r].scene = scene, row # 0
      PROVE  /\ RangeCount(rows, r) = Len(column) /\ DOMAIN column = 1 .. Len(column)
             /\ Len(column) \in Nat
             /\ \A e \in 1 .. Len(column) :
                  /\ RangeEntry(rows, r, e).scene = scene
                  /\ RangeEntry(rows, r, e).s1 = column[e].s1
                  /\ RangeEntry(rows, r, e).s2 = column[e].s2
                  /\ RangeEntry(rows, r, e).from = <<row, e>>
  <2>1. row = SourceRow(rows, r) /\ row \in 1 .. n
    BY <1>0, <1>1, <1>3
  <2>2. Len(column) \in Nat /\ DOMAIN column = 1 .. Len(column)
    BY <2>1, ColumnFacts DEF n
  <2> QED  BY <1>3, <2>1, <2>2 DEF RangeCount, RangeEntry
<1> HIDE DEF column
<1>7. /\ hits = {} => from = <<>>
      /\ hits # {} => from = list[CHOOSE k \in hits : \A j \in hits : k <= j].from
      /\ \A k \in hits : /\ k \in DOMAIN list /\ list[k].scene = scene
                         /\ list[k].s1 <= fscore /\ fscore <= list[k].s2
  BY DEF FirstFrom, HitsIn
<1>6. ASSUME NEW r \in 1 .. n, rows[r].scene = scene, row # 0,
             NEW e \in 1 .. RangeCount(rows, r), NEW x \in DOMAIN list,
             list[x] = RangeEntry(rows, r, e)
      PROVE  /\ x \in hits <=> e \in holds
             /\ list[x].from = <<row, e>>
  <2>1. e \in DOMAIN column /\ e \in 1 .. Len(column)
    BY <1>3, <1>6
  <2>2. /\ list[x].scene = scene /\ list[x].s1 = column[e].s1 /\ list[x].s2 = column[e].s2
        /\ list[x].from = <<row, e>>
    BY <1>3, <1>6, <2>1
  <2>3. e \in holds <=> list[x].s1 <= fscore /\ fscore <= list[x].s2
    BY <2>1, <2>2
  <2>4. x \in hits <=> list[x].s1 <= fscore /\ fscore <= list[x].s2
    BY <2>2 DEF HitsIn
  <2> QED  BY <2>2, <2>3, <2>4
<1> HIDE DEF hits, from
<1>4. CASE hits = {}
  <2> SUFFICES ASSUME row # 0, holds # {}, list # <<>> PROVE Len(list) = _maxscore_scs_num
    BY <1>4, <1>7 DEF SuggestionIsRight, row, column, hits, from
  <2>1. PICK r \in 1 .. n : rows[r].scene = scene
    BY <1>2
  <2>2. PICK e \in holds : TRUE
    OBVIOUS
  <2>3. e \in 1 .. RangeCount(rows, r) /\ column[e].s1 <= fscore /\ fscore <= column[e].s2
    BY <1>3, <2>1, <2>2
  <2>4. ListHasRanges(rows, list, n)
    BY DEF n
  <2>5. CASE before[r - 1] + e <= _maxscore_scs_num
    <3>1. list[before[r - 1] + e] = RangeEntry(rows, r, e)
      BY <2>1, <2>3, <2>4, <2>5 DEF ListHasRanges, before
    <3>2. before[r - 1] + e \in DOMAIN list
      BY <2>1, <2>3, <2>4, <2>5, IndexInList DEF before, n
    <3>3. before[r - 1] + e \in hits
      BY <1>6, <2>1, <2>2, <2>3, <3>1, <3>2
    <3> QED  BY <1>4, <3>3
  <2>6. CASE ~ (before[r - 1] + e <= _maxscore_scs_num)
    <3>1. /\ before[r - 1] \in Nat /\ before[r] = before[r - 1] + RangeCount(rows, r)
          /\ before[r] <= before[n] /\ before[n] \in Nat /\ RangeCount(rows, r) \in Nat
      <4>1. r - 1 \in 0 .. n /\ r \in 0 .. n /\ n \in r .. n
        BY <1>0, <2>1
      <4> QED  BY <2>1, <4>1, BeforeFacts DEF before, n
    <3>2. before[n] >= _maxscore_scs_num
      <4> DEFINE p == before[r - 1]
                 q == before[r]
                 d == RangeCount(rows, r)
                 t == before[n]
      <4>1. p \in Nat /\ q = p + d /\ q <= t /\ t \in Nat /\ d \in Nat
        BY <3>1
      <4>2. e \in Nat /\ e <= d /\ ~ (p + e <= _maxscore_scs_num)
        BY <2>3, <2>6, <3>1
      <4> HIDE DEF p, q, d, t
      <4>3. t >= _maxscore_scs_num
        BY <4>1, <4>2, ScoreRangesAssumption
      <4> QED  BY <4>3 DEF t
    <3>3. Len(list) = IF before[n] < _maxscore_scs_num THEN before[n] ELSE _maxscore_scs_num
      BY <2>4 DEF ListHasRanges, before
    <3> QED  BY <3>1, <3>2, <3>3, ScoreRangesAssumption
  <2> QED  BY <2>5, <2>6
<1>5. CASE hits # {}
  <2>1. list # <<>>
    BY <1>5, <1>7
  <2>2. ListHasRanges(rows, list, n)
    BY <2>1 DEF n
  <2>3. DOMAIN list = 1 .. Len(list) /\ Len(list) \in Nat
    BY <2>2, LenProperties DEF ListHasRanges
  <2> DEFINE k == CHOOSE i \in hits : \A j \in hits : i <= j
  <2>4. k \in hits /\ \A j \in hits : k <= j
    <3>1. hits \subseteq Nat
      BY <1>7, <2>3
    <3>2. \E i \in hits : \A j \in hits : i <= j
      BY <1>5, <3>1, SmallestOf
    <3> QED  BY <3>2
  <2>5. from = list[k].from
    BY <1>5, <1>7
  <2> HIDE DEF k
  <2>6. k \in 1 .. Len(list) /\ list[k].scene = scene /\ list[k].s1 <= fscore /\ fscore <= list[k].s2
    BY <1>7, <2>3, <2>4
  <2>70. PICK r \in 1 .. n : \E e \in 1 .. RangeCount(rows, r) :
          k = before[r - 1] + e /\ list[k] = RangeEntry(rows, r, e)
    BY <2>2, <2>6 DEF ListHasRanges, before
  <2>7. PICK e \in 1 .. RangeCount(rows, r) :
          k = before[r - 1] + e /\ list[k] = RangeEntry(rows, r, e)
    BY <2>70
  <2>8. rows[r].scene = scene
    BY <2>6, <2>7 DEF RangeEntry
  <2>9. row # 0
    <3>1. RangeCount(rows, r) # 0
      BY <2>7
    <3>2. SourceRow(rows, r) # 0
      BY <3>1 DEF RangeCount
    <3> QED  BY <1>1, <2>7, <2>8, <3>2
  <2>10. from = <<row, e>> /\ e \in holds
    <3>1. k \in DOMAIN list
      BY <2>3, <2>6
    <3>2. list[k].from = <<row, e>> /\ (k \in hits <=> e \in holds)
      BY <1>6, <2>7, <2>8, <2>9, <3>1
    <3> QED  BY <2>4, <2>5, <3>2
  <2>11. ASSUME NEW d \in holds PROVE e <= d
    <3>1. d \in 1 .. RangeCount(rows, r) /\ column[d].s1 <= fscore /\ fscore <= column[d].s2
      BY <1>3, <2>7, <2>8, <2>9, <2>11
    <3>2. before[r - 1] \in Nat /\ d \in Nat /\ e \in Nat
      <4>1. r - 1 \in 0 .. n
        BY <1>0, <2>7
      <4> QED  BY <2>7, <3>1, <4>1, BeforeFacts DEF before, n
    <3> SUFFICES ASSUME d < e PROVE FALSE
      BY <3>2
    <3>3. before[r - 1] + d < k /\ before[r - 1] + d \in Nat
      <4> DEFINE p == before[r - 1]
      <4> HIDE DEF p
      <4>1. p + d < p + e /\ p + d \in Nat
        BY <3>2 DEF p
      <4> QED  BY <2>7, <4>1 DEF p
    <3>4. before[r - 1] + d <= _maxscore_scs_num
      <4>1. k <= Len(list) /\ Len(list) <= _maxscore_scs_num
        <5>1. before[n] \in Nat
          BY <1>0, BeforeFacts DEF before, n
        <5> QED  BY <2>2, <2>6, <2>3, <5>1, ScoreRangesAssumption DEF ListHasRanges, before
      <4> QED  BY <2>3, <2>6, <3>3, <4>1, ScoreRangesAssumption
    <3>5. list[before[r - 1] + d] = RangeEntry(rows, r, d)
      BY <2>2, <2>7, <3>1, <3>4 DEF ListHasRanges, before
    <3>6. before[r - 1] + d \in DOMAIN list
      BY <2>2, <2>7, <3>1, <3>4, IndexInList DEF before, n
    <3>7. before[r - 1] + d \in hits
      BY <1>6, <2>7, <2>8, <2>9, <2>11, <3>1, <3>5, <3>6
    <3>8. k <= before[r - 1] + d
      BY <2>4, <3>7
    <3> QED  BY <2>3, <2>6, <3>3, <3>8
  <2> HIDE DEF holds, column
  <2>12. from # <<>> /\ from[1] = row /\ from[2] = e
    BY <2>10
  <2> QED  BY <2>10, <2>11, <2>12 DEF SuggestionIsRight, row, holds, column, hits, from
<1> QED  BY <1>4, <1>5

(* Before the first load.                                                  *)
LEMMA RangesStart == ScoreRangesInit => RangesInv
<1> SUFFICES ASSUME ScoreRangesInit PROVE RangesInv
  OBVIOUS
<1> DEFINE R == [scene : RangeScenes, column : Columns_scorerange]
<1>1. PICK n \in 0 .. MaxRangeRows :
        /\ sr_rows \in [1 .. n -> R]
        /\ \A k, l \in 1 .. n : sr_rows[k].scene = sr_rows[l].scene => k = l
  BY DEF ScoreRangesInit
<1> HIDE DEF R
<1>2. Len(sr_rows) = n /\ sr_rows \in Seq(R) /\ n \in Nat
  BY <1>1, LenOf, ScoreRangesAssumption
<1>3. RowsOfRanges(sr_rows)
  BY <1>1, <1>2 DEF RowsOfRanges, R
<1>4. /\ sr_pc = "empty" /\ sr_next = 0 /\ sr_live = {} /\ sr_lost = {}
      /\ sr_comment = NoComment
  BY DEF ScoreRangesInit
<1> QED  BY <1>2, <1>3, <1>4 DEF RangesInv, SuggestionHoldsTheScore

(* An empty list has the ranges of no row.                                 *)
LEMMA NoRanges ==
  ASSUME NEW rows, RowsOfRanges(rows), NEW live, NEW lost, live \subseteq lost
  PROVE  /\ SourceRow(rows, 0) = 0
         /\ ListHasRanges(rows, <<>>, 0)
         /\ StringsOfRanges(rows, live, lost, 0)
<1>1. RangesBefore(rows)[0] = 0 /\ Len(<<>>) = 0 /\ <<>> \in Seq(RangeEntries(rows))
  BY BeforeFacts, EmptySeq
<1>2. \A k \in 1 .. 0 : FALSE
  OBVIOUS
<1>3. ListHasRanges(rows, <<>>, 0)
  BY <1>1, <1>2, ScoreRangesAssumption DEF ListHasRanges
<1>4. StringsOfRanges(rows, live, lost, 0)
  BY <1>2 DEF StringsOfRanges, HasRoom
<1> QED  BY <1>3, <1>4, SourceFacts

(* A row is read.                                                          *)
LEMMA FetchKeeps == RangesInv /\ FetchRange => RangesInv'
<1> SUFFICES ASSUME RangesInv, FetchRange PROVE RangesInv'
  OBVIOUS
<1> DEFINE row == sr_next + 1
           json == JsonAt(row)
           elements == ElementsOf(row)
           room == _maxscore_scs_num - Len(sr_list)
           kept == IF Len(elements) < room THEN Len(elements) ELSE room
<1>1. /\ RowsOfRanges(sr_rows) /\ sr_next \in 0 .. Len(sr_rows) /\ sr_next < Len(sr_rows)
      /\ sr_pc = "loading" /\ sr_json = SourceRow(sr_rows, sr_next)
      /\ ListHasRanges(sr_rows, sr_list, sr_next)
      /\ StringsOfRanges(sr_rows, sr_live, sr_lost, sr_next)
      /\ \A l \in sr_lost : HasNoRoom(sr_rows, l)
      /\ sr_comment = NoComment
  BY DEF RangesInv, FetchRange
<1>2. row \in 1 .. Len(sr_rows) /\ row - 1 = sr_next /\ row \in 0 .. Len(sr_rows)
  BY <1>1, ColumnFacts
<1>3. json = SourceRow(sr_rows, row)
  <2>1. row \in DOMAIN sr_rows
    BY <1>1, <1>2, LenProperties DEF RowsOfRanges
  <2> QED  BY <1>1, <1>2, <2>1, SourceFacts DEF JsonAt, With_column
<1>4. /\ sr_pc' \in {"loading", "down"} /\ sr_json' = json /\ sr_next' = row
      /\ sr_rows' = sr_rows /\ sr_comment' = sr_comment
      /\ sr_list' = sr_list \o SubSeq(elements, 1, kept)
      /\ sr_live' = sr_live \cup {<<row, elements[k].from>> : k \in DOMAIN elements}
      /\ sr_lost' = sr_lost \cup {<<row, elements[k].from>> : k \in room + 1 .. Len(elements)}
  BY DEF FetchRange
<1> HIDE DEF json
<1>5. json \in 0 .. row /\ (json # 0 => json \in 1 .. Len(sr_rows))
  <2>1. json \in 0 .. row
    BY <1>1, <1>2, <1>3, SourceFacts
  <2>2. Len(sr_rows) \in Nat
    BY <1>1, ColumnFacts
  <2> QED  BY <1>2, <2>1, <2>2
<1> DEFINE c == RangeCount(sr_rows, row)
<1>6. c \in Nat
  BY <1>1, <1>2, BeforeFacts
<1>7. elements = RangesOfRow(sr_rows, row)
  <2>0. elements = IF json = 0 THEN <<>> ELSE RangesIn(json, sr_rows[row].scene)
    BY DEF ElementsOf, json
  <2>1. CASE json = 0
    <3>1. c = 0
      BY <1>3, <2>1 DEF RangeCount
    <3>2. RangesOfRow(sr_rows, row) \in [1 .. 0 -> {}]
      BY <3>1 DEF RangesOfRow
    <3>3. Len(RangesOfRow(sr_rows, row)) = 0 /\ RangesOfRow(sr_rows, row) \in Seq({})
      BY <3>2, LenOf
    <3>4. RangesOfRow(sr_rows, row) = <<>>
      BY <3>3, EmptySeq
    <3> QED  BY <2>0, <2>1, <3>4
  <2>2. CASE json # 0
    <3>1. DOMAIN sr_rows[json].column[2] = 1 .. Len(sr_rows[json].column[2])
      BY <1>1, <1>5, <2>2, ColumnFacts
    <3>2. c = Len(sr_rows[json].column[2])
      BY <1>3, <2>2 DEF RangeCount
    <3>3. RangesOfRow(sr_rows, row) = RangesIn(json, sr_rows[row].scene)
      BY <1>3, <3>1, <3>2 DEF RangesOfRow, RangesIn, RangeEntry
    <3> QED  BY <2>0, <2>2, <3>3
  <2> QED  BY <2>1, <2>2
<1> HIDE DEF row, elements
<1>8. Len(elements) = c /\ DOMAIN elements = 1 .. c
      /\ \A k \in 1 .. c : elements[k].from = <<SourceRow(sr_rows, row), k>>
  <2> DEFINE els == RangesOfRow(sr_rows, row)
             S == {RangeEntry(sr_rows, row, k) : k \in 1 .. c}
  <2>1. els \in [1 .. c -> S] /\ \A k \in 1 .. c : els[k] = RangeEntry(sr_rows, row, k)
    BY DEF RangesOfRow
  <2>2. \A k \in 1 .. c : RangeEntry(sr_rows, row, k).from = <<SourceRow(sr_rows, row), k>>
    BY DEF RangeEntry
  <2> HIDE DEF els, S, c
  <2>3. Len(els) = c
    BY <1>6, <2>1, LenOf
  <2>4. elements = els
    BY <1>7 DEF els
  <2> QED  BY <2>1, <2>2, <2>3, <2>4
<1>9. /\ {<<row, elements[k].from>> : k \in DOMAIN elements} = StringsOfRow(sr_rows, row)
      /\ {<<row, elements[k].from>> : k \in room + 1 .. Len(elements)} = StringsLost(sr_rows, row, room)
  <2>1. {<<row, elements[k].from>> : k \in DOMAIN elements} = StringsOfRow(sr_rows, row)
    BY <1>8 DEF StringsOfRow
  <2>2. room \in Nat
    BY <1>1, RoomIsLeft
  <2> HIDE DEF room, c
  <2>3. \A k \in room + 1 .. c : k \in 1 .. c
    BY <1>6, <2>2
  <2>4. {<<row, elements[k].from>> : k \in room + 1 .. Len(elements)} = StringsLost(sr_rows, row, room)
    BY <1>8, <2>3 DEF StringsLost, c
  <2> QED  BY <2>1, <2>4
<1>10. AreKept(sr_rows, sr_list, row, room, kept) /\ room \in Nat
  BY <1>1, <1>8, RoomIsLeft DEF AreKept
<1> HIDE DEF room, kept, c
<1>11. /\ ListHasRanges(sr_rows, sr_list', row)
       /\ \A k \in 1 .. c : RangesBefore(sr_rows)[row - 1] + k <= _maxscore_scs_num <=> k <= room
  <2>1. sr_list' = sr_list \o SubSeq(RangesOfRow(sr_rows, row), 1, kept)
    BY <1>4, <1>7
  <2>2. ListHasRanges(sr_rows, sr_list, row - 1)
    BY <1>1, <1>2
  <2> QED  BY <1>1, <1>2, <1>10, <2>1, <2>2, RangesAppended DEF c
<1>12. /\ StringsOfRanges(sr_rows, sr_live', sr_lost', row)
       /\ \A l \in sr_lost' : HasNoRoom(sr_rows, l)
  <2>1. StringsOfRanges(sr_rows, sr_live, sr_lost, row - 1)
    BY <1>1, <1>2
  <2>2. /\ StringsOfRanges(sr_rows, sr_live \cup StringsOfRow(sr_rows, row),
                           sr_lost \cup StringsLost(sr_rows, row, room), row)
        /\ \A l \in StringsLost(sr_rows, row, room) : HasNoRoom(sr_rows, l)
    BY <1>1, <1>2, <1>10, <1>11, <2>1, StringsAppended DEF c
  <2>3. sr_live' = sr_live \cup StringsOfRow(sr_rows, row) /\ sr_lost' = sr_lost \cup StringsLost(sr_rows, row, room)
    BY <1>4, <1>9
  <2> QED  BY <1>1, <2>2, <2>3
<1>13. SuggestionHoldsTheScore'
  BY <1>1, <1>4 DEF SuggestionHoldsTheScore, NoComment
<1> QED
  BY <1>1, <1>2, <1>3, <1>4, <1>11, <1>12, <1>13 DEF RangesInv

(* A score is given the comment of its range.                              *)
LEMMA SuggestKeeps ==
  ASSUME RangesInv, NEW scene, NEW fscore, replace_score_suggest(scene, fscore)
  PROVE  RangesInv'
<1> DEFINE comment == [scene |-> scene, fscore |-> fscore,
                       from |-> FirstFrom(sr_list, HitsIn(sr_list, scene, fscore))]
<1>1. /\ UNCHANGED <<sr_rows, sr_pc, sr_next, sr_json, sr_list, sr_live, sr_lost>>
      /\ sr_pc = "loaded" /\ sr_comment' = comment
  BY DEF replace_score_suggest, Holding, HitsIn, FirstFrom
<1>2. RowsOfRanges(sr_rows) /\ (sr_list = <<>> \/ ListHasRanges(sr_rows, sr_list, Len(sr_rows)))
  BY <1>1 DEF RangesInv
<1>3. SuggestionIsRight(sr_rows, sr_list, comment)
  BY <1>2, FirstHit
<1> HIDE DEF comment
<1>4. SuggestionIsRight(sr_rows, sr_list, sr_comment)'
  BY <1>1, <1>3
<1>5. SuggestionHoldsTheScore'
  BY <1>4, SuggestionIs, PTL
<1> QED  BY <1>1, <1>5 DEF RangesInv

(* The ranges are freed: each string is that of a listed range or lost.    *)
LEMMA FreeKeeps == RangesInv /\ scores_scs_free => RangesInv'
<1> SUFFICES ASSUME RangesInv, scores_scs_free PROVE RangesInv'
  OBVIOUS
<1>1. /\ sr_pc = "loaded" /\ sr_pc' = "empty" /\ sr_comment' = NoComment
      /\ UNCHANGED <<sr_rows, sr_next, sr_json, sr_list, sr_lost>>
      /\ sr_live' = {l \in sr_live : ~ \E k \in DOMAIN sr_list :
                       sr_list[k].from = l[2] /\ sr_list[k].scene = sr_rows[l[1]].scene}
  BY DEF scores_scs_free
<1>2. ASSUME NEW l \in sr_live', l \notin sr_lost PROVE FALSE
  <2>1. l \in sr_live /\ ~ \E k \in DOMAIN sr_list :
           sr_list[k].from = l[2] /\ sr_list[k].scene = sr_rows[l[1]].scene
    BY <1>1
  <2>2. /\ RowsOfRanges(sr_rows) /\ ListHasRanges(sr_rows, sr_list, Len(sr_rows))
        /\ HasRoom(sr_rows, l, Len(sr_rows))
    BY <1>1, <1>2, <2>1 DEF RangesInv, StringsOfRanges
  <2>3. PICK r \in 1 .. Len(sr_rows) : \E e \in 1 .. RangeCount(sr_rows, r) :
          /\ l = <<r, <<SourceRow(sr_rows, r), e>>>>
          /\ RangesBefore(sr_rows)[r - 1] + e <= _maxscore_scs_num
    BY <2>2 DEF HasRoom
  <2>4. PICK e \in 1 .. RangeCount(sr_rows, r) :
          /\ l = <<r, <<SourceRow(sr_rows, r), e>>>>
          /\ RangesBefore(sr_rows)[r - 1] + e <= _maxscore_scs_num
    BY <2>3
  <2> DEFINE k == RangesBefore(sr_rows)[r - 1] + e
  <2>5. k \in DOMAIN sr_list /\ sr_list[k] = RangeEntry(sr_rows, r, e)
    BY <2>2, <2>4, IndexInList DEF ListHasRanges
  <2> HIDE DEF k
  <2>6. sr_list[k].from = l[2] /\ sr_list[k].scene = sr_rows[l[1]].scene
    BY <2>4, <2>5 DEF RangeEntry
  <2> QED  BY <2>1, <2>5, <2>6
<1>3. SuggestionHoldsTheScore'
  BY <1>1 DEF SuggestionHoldsTheScore, NoComment
<1> QED  BY <1>1, <1>2, <1>3 DEF RangesInv

(* Each call.                                                              *)
LEMMA RangesStep == RangesInv /\ [ScoreRangesNext]_scoreRangesVars => RangesInv'
<1> SUFFICES ASSUME RangesInv, [ScoreRangesNext]_scoreRangesVars PROVE RangesInv'
  OBVIOUS
<1>1. CASE LoadBegins
  <2>1. /\ sr_pc = "empty" /\ sr_list' = <<>> /\ sr_next' = 0 /\ sr_json' = 0
        /\ sr_pc' \in {"loading", "loaded"} /\ UNCHANGED <<sr_rows, sr_live, sr_lost, sr_comment>>
    BY <1>1 DEF LoadBegins
  <2>2. RowsOfRanges(sr_rows) /\ sr_live \subseteq sr_lost /\ sr_comment = NoComment
        /\ \A l \in sr_lost : HasNoRoom(sr_rows, l)
    BY <2>1 DEF RangesInv
  <2>3. /\ SourceRow(sr_rows, 0) = 0 /\ ListHasRanges(sr_rows, <<>>, 0)
        /\ StringsOfRanges(sr_rows, sr_live, sr_lost, 0) /\ 0 \in 0 .. Len(sr_rows)
    BY <2>2, NoRanges, ColumnFacts
  <2>4. SuggestionHoldsTheScore'
    BY <2>1, <2>2 DEF SuggestionHoldsTheScore, NoComment
  <2> QED  BY <2>1, <2>2, <2>3, <2>4 DEF RangesInv
<1>2. CASE FetchRange
  BY <1>2, FetchKeeps
<1>3. CASE RangesEnd
  <2>1. /\ sr_pc = "loading" /\ sr_next = Len(sr_rows) /\ sr_pc' = "loaded"
        /\ UNCHANGED <<sr_rows, sr_next, sr_json, sr_list, sr_live, sr_lost, sr_comment>>
    BY <1>3 DEF RangesEnd
  <2>2. SuggestionHoldsTheScore'
    BY <2>1 DEF RangesInv, SuggestionHoldsTheScore, NoComment
  <2> QED  BY <2>1, <2>2 DEF RangesInv
<1>4. CASE scores_scs_free
  BY <1>4, FreeKeeps
<1>5. ASSUME NEW scene \in RangeScenes, NEW fscore \in RangeMarks, replace_score_suggest(scene, fscore)
      PROVE  RangesInv'
  BY <1>5, SuggestKeeps
<1>6. CASE UNCHANGED scoreRangesVars
  <2>1. UNCHANGED <<sr_rows, sr_pc, sr_next, sr_json, sr_list, sr_live, sr_lost, sr_comment>>
    BY <1>6 DEF scoreRangesVars
  <2>2. SuggestionHoldsTheScore'
    <3>1. SuggestionIsRight(sr_rows, sr_list, sr_comment)'
      BY <2>1, SuggestionIs DEF RangesInv
    <3> QED  BY <3>1, SuggestionIs, PTL
  <2> QED  BY <2>1, <2>2 DEF RangesInv
<1> QED  BY <1>1, <1>2, <1>3, <1>4, <1>5, <1>6 DEF ScoreRangesNext

(* The invariant holds throughout.                                         *)
LEMMA RangesAlways == ScoreRangesSpec => []RangesInv
  BY RangesStart, RangesStep, PTL DEF ScoreRangesSpec

(* A score gets the suggestion of the first range in the column of its     *)
(* scene that holds it, for any ranges and however many rows there are,    *)
(* and none only when there is none or no room (replace_score_suggest).    *)
THEOREM SuggestionsHold == ScoreRangesSpec => []SuggestionHoldsTheScore
<1>1. RangesInv => SuggestionHoldsTheScore
  BY DEF RangesInv
<1> QED  BY <1>1, RangesAlways, PTL

(* The copies of the columns that were read.                               *)
TextsInv ==
  /\ sr_next \in Nat
  /\ With_column \cap 1 .. sr_next \subseteq sr_texts

(* They stay.                                                              *)
LEMMA TextsAlways == ScoreRangesSpec => []TextsInv
<1>1. ScoreRangesInit => TextsInv
  BY DEF ScoreRangesInit, TextsInv
<1>2. TextsInv /\ [ScoreRangesNext]_scoreRangesVars => TextsInv'
  <2> SUFFICES ASSUME TextsInv, [ScoreRangesNext]_scoreRangesVars PROVE TextsInv'
    OBVIOUS
  <2>1. CASE LoadBegins
    BY <2>1 DEF LoadBegins, TextsInv, With_column
  <2>2. CASE FetchRange
    <3>1. /\ sr_next' = sr_next + 1 /\ sr_rows' = sr_rows /\ sr_next \in Nat
          /\ sr_texts' = sr_texts \cup ({sr_next + 1} \cap With_column)
      BY <2>2 DEF FetchRange, TextsInv
    <3>2. With_column' = With_column /\ With_column \cap 1 .. sr_next \subseteq sr_texts
      BY <3>1 DEF With_column, TextsInv
    <3>3. \A row \in 1 .. sr_next + 1 : row \in 1 .. sr_next \/ row = sr_next + 1
      BY <3>1
    <3> QED  BY <3>1, <3>2, <3>3 DEF TextsInv
  <2>3. CASE RangesEnd
    BY <2>3 DEF RangesEnd, TextsInv, With_column
  <2>4. CASE scores_scs_free
    BY <2>4 DEF scores_scs_free, TextsInv, With_column
  <2>5. ASSUME NEW scene \in RangeScenes, NEW fscore \in RangeMarks, replace_score_suggest(scene, fscore)
        PROVE  TextsInv'
    BY <2>5 DEF replace_score_suggest, TextsInv, With_column
  <2>6. CASE UNCHANGED scoreRangesVars
    BY <2>6 DEF scoreRangesVars, TextsInv, With_column
  <2> QED  BY <2>1, <2>2, <2>3, <2>4, <2>5, <2>6 DEF ScoreRangesNext
<1> QED  BY <1>1, <1>2, PTL DEF ScoreRangesSpec

(* What has room in the list has its strings, and scores_scs_free frees    *)
(* them all; only those without room are left, and the copies of the       *)
(* columns, which nothing frees.                                           *)
THEOREM RangesAreFreed == ScoreRangesSpec => []RangesLeft
<1>1. RangesInv /\ TextsInv => RangesLeft
  <2> SUFFICES ASSUME RangesInv, sr_pc = "loaded", NEW k \in DOMAIN sr_list
               PROVE  \E l \in sr_live \ sr_lost :
                        l[2] = sr_list[k].from /\ sr_rows[l[1]].scene = sr_list[k].scene
    BY DEF RangesInv, TextsInv, RangesLeft
  <2>1. /\ RowsOfRanges(sr_rows) /\ ListHasRanges(sr_rows, sr_list, Len(sr_rows))
        /\ StringsOfRanges(sr_rows, sr_live, sr_lost, Len(sr_rows))
        /\ \A l \in sr_lost : HasNoRoom(sr_rows, l)
    BY DEF RangesInv
  <2>2. k \in 1 .. Len(sr_list)
    BY <2>1, LenProperties DEF ListHasRanges
  <2>3. PICK r \in 1 .. Len(sr_rows) : \E e \in 1 .. RangeCount(sr_rows, r) :
          k = RangesBefore(sr_rows)[r - 1] + e /\ sr_list[k] = RangeEntry(sr_rows, r, e)
    BY <2>1, <2>2 DEF ListHasRanges
  <2>4. PICK e \in 1 .. RangeCount(sr_rows, r) :
          k = RangesBefore(sr_rows)[r - 1] + e /\ sr_list[k] = RangeEntry(sr_rows, r, e)
    BY <2>3
  <2>5. RangesBefore(sr_rows)[r - 1] + e <= _maxscore_scs_num
    <3>1. Len(sr_list) <= _maxscore_scs_num /\ Len(sr_list) \in Nat
      <4>1. Len(sr_rows) \in 0 .. Len(sr_rows)
        BY <2>1, ColumnFacts
      <4>2. RangesBefore(sr_rows)[Len(sr_rows)] \in Nat
        BY <2>1, <4>1, BeforeFacts
      <4> QED  BY <2>1, <4>2, ScoreRangesAssumption DEF ListHasRanges
    <3> QED  BY <2>2, <2>4, <3>1, ScoreRangesAssumption
  <2> DEFINE l == <<r, <<SourceRow(sr_rows, r), e>>>>
  <2>6. HasRoom(sr_rows, l, Len(sr_rows))
    BY <2>5 DEF HasRoom
  <2>7. l \in sr_live
    BY <2>1, <2>6 DEF StringsOfRanges
  <2>8. ~ HasNoRoom(sr_rows, l)
    <3> SUFFICES ASSUME HasNoRoom(sr_rows, l) PROVE FALSE
      OBVIOUS
    <3>1. PICK q \in 1 .. Len(sr_rows) : \E d \in 1 .. RangeCount(sr_rows, q) :
            l = <<q, <<SourceRow(sr_rows, q), d>>>> /\ RangesBefore(sr_rows)[q - 1] + d > _maxscore_scs_num
      BY DEF HasNoRoom
    <3>2. q = r /\ RangesBefore(sr_rows)[r - 1] + e > _maxscore_scs_num
      BY <3>1
    <3>3. k > _maxscore_scs_num /\ k <= _maxscore_scs_num
      BY <2>4, <2>5, <3>2
    <3>4. k \in Nat
      BY <2>1, <2>2, LenProperties DEF ListHasRanges
    <3> QED  BY <3>3, <3>4, ScoreRangesAssumption
  <2>9. l[2] = sr_list[k].from /\ sr_rows[l[1]].scene = sr_list[k].scene
    BY <2>4 DEF RangeEntry
  <2> QED  BY <2>1, <2>7, <2>8, <2>9
<1> QED  BY <1>1, RangesAlways, TextsAlways, PTL

-----------------------------------------------------------------------------
(* The calls of the handlers: what adds text, what takes the comma back,   *)
(* what closes a list, and what ends a reply.                              *)
Prints(lasts) == [op : {"printf"}, last : lasts, opens : Int, given : BOOLEAN]
Addstrs(texts) == [op : {"addstr"}, text : texts, opens : Int]
Addchars(cells) == [op : {"addchar"}, cell : cells, opens : Int]
Adds == Prints({"text", "comma", "close"}) \cup Addstrs({<<"text", "comma">>})
Drops == [op : {"trim", "comma"}, opens : {0}]
Closes == Addchars({"close"}) \cup Addstrs({<<"close", "nul">>})
Ends == Addchars({"nul"}) \cup Addstrs({<<"close", "nul">>})
AllOps == Adds \cup Drops \cup Closes \cup Ends

(* Which call is which.                                                    *)
LEMMA CallFacts ==
  /\ \A c \in AllOps : c.op \in {"printf", "addstr", "addchar", "trim", "comma"}
  /\ \A c \in Adds \cup Drops : c \notin Ends /\ c \notin Closes
  /\ \A c \in Drops : c \notin Ends \cup Prints({"close"}) /\ c.op # "printf"
  /\ \A c \in Prints({"text"}) : c.last = "text"
  /\ \A c \in AllOps : c.op = "addstr" => c \in Addstrs({<<"text", "comma">>, <<"close", "nul">>})
  /\ \A c \in AllOps : c.op = "addchar" => c \in Addchars({"close", "nul"})
  /\ \A c \in AllOps : c.op \in {"trim", "comma"} => c \in Drops
<1>1. <<"text", "comma">> # <<"close", "nul">>
  OBVIOUS
<1> DEFINE tc == <<"text", "comma">>
           cn == <<"close", "nul">>
<1> HIDE DEF tc, cn
<1>2. tc # cn
  BY <1>1 DEF tc, cn
<1>3. /\ Adds = Prints({"text", "comma", "close"}) \cup Addstrs({tc})
      /\ Closes = Addchars({"close"}) \cup Addstrs({cn}) /\ Ends = Addchars({"nul"}) \cup Addstrs({cn})
      /\ AllOps = Adds \cup Drops \cup Closes \cup Ends
      /\ Drops = [op : {"trim", "comma"}, opens : {0}]
  BY DEF Adds, Closes, Ends, AllOps, Drops, tc, cn
<1> USE <1>2, <1>3 DEF Prints, Addstrs, Addchars
<1>4. \A c \in AllOps : c.op \in {"printf", "addstr", "addchar", "trim", "comma"}
  OBVIOUS
<1>5. \A c \in Adds \cup Drops : c \notin Ends /\ c \notin Closes
  OBVIOUS
<1>6. \A c \in Drops : c \notin Ends \cup Prints({"close"}) /\ c.op # "printf"
  OBVIOUS
<1>7. \A c \in Prints({"text"}) : c.last = "text"
  OBVIOUS
<1>8. \A c \in AllOps : c.op = "addstr" => c \in Addstrs({tc, cn})
  OBVIOUS
<1>9. \A c \in AllOps : c.op = "addchar" => c \in Addchars({"close", "nul"})
  OBVIOUS
<1>10. \A c \in AllOps : c.op \in {"trim", "comma"} => c \in Drops
  OBVIOUS
<1> QED  BY <1>4, <1>5, <1>6, <1>7, <1>8, <1>9, <1>10 DEF tc, cn

(* The calls of the handlers.                                              *)
LEMMA CallsAre ==
  /\ \A o \in Int : /\ Printf("text", o) \in Prints({"text"}) /\ Printf_given("text", o) \in Prints({"text"})
                   /\ Printf("comma", o) \in Adds /\ Printf_given("comma", o) \in Adds
                   /\ Printf("close", o) \in Prints({"close"}) /\ Printf_given("close", o) \in Prints({"close"})
                   /\ Addstr(<<"text", "comma">>, o) \in Adds
                   /\ Addstr(<<"close", "nul">>, o) \in Closes \cap Ends
                   /\ Addchar("close", o) \in Closes /\ Addchar("nul", o) \in Ends \ Closes
  /\ Prints({"text"}) \subseteq Adds /\ Prints({"close"}) \subseteq Adds
  /\ Trim \in Drops /\ Comma \in Drops
<1> USE DEF Prints, Addstrs, Addchars, Adds, Drops, Closes, Ends, Printf, Printf_given, Formatted,
            Addstr, Addchar, Trim, Comma
<1>1. \A o \in Int : /\ Printf("text", o) \in Prints({"text"}) /\ Printf_given("text", o) \in Prints({"text"})
                   /\ Printf("comma", o) \in Adds /\ Printf_given("comma", o) \in Adds
                   /\ Printf("close", o) \in Prints({"close"}) /\ Printf_given("close", o) \in Prints({"close"})
  OBVIOUS
<1>2. \A o \in Int : /\ Addstr(<<"text", "comma">>, o) \in Adds
                   /\ Addstr(<<"close", "nul">>, o) \in Closes \cap Ends
  OBVIOUS
<1>3. \A o \in Int : Addchar("close", o) \in Closes /\ Addchar("nul", o) \in Ends \ Closes
  OBVIOUS
<1>4. Prints({"text"}) \subseteq Adds /\ Prints({"close"}) \subseteq Adds /\ Trim \in Drops /\ Comma \in Drops
  OBVIOUS
<1> QED  BY <1>1, <1>2, <1>3, <1>4

(* Calls that follow one another.                                          *)
LEMMA Join11 == ASSUME NEW a, NEW b PROVE <<a>> \o <<b>> = <<a, b>>
<1> DEFINE S == {a, b}
           p == <<a>>
           q == <<b>>
           s == p \o q
<1>1. /\ p \in Seq(S) /\ Len(p) = 1 /\ p[1] = a
      /\ q \in Seq(S) /\ Len(q) = 1 /\ q[1] = b
  OBVIOUS
<1> HIDE DEF p, q, S
<1>2. /\ s \in Seq(S) /\ Len(s) = Len(p) + Len(q)
      /\ \A k \in 1 .. Len(p) + Len(q) : s[k] = IF k <= Len(p) THEN p[k] ELSE q[k - Len(p)]
  BY <1>1, ConcatProperties
<1> HIDE DEF s
<1>3. Len(s) = 2 /\ s[1] = a /\ s[2] = b
  BY <1>1, <1>2
<1>4. s \in Seq(S) /\ Len(s) = 2
  BY <1>2, <1>3
<1>5. s = <<s[1], s[2]>>
  BY <1>4
<1> QED  BY <1>3, <1>5 DEF p, q, s

LEMMA Join12 == ASSUME NEW a, NEW b, NEW c PROVE <<a>> \o <<b, c>> = <<a, b, c>>
<1> DEFINE S == {a, b, c}
           p == <<a>>
           q == <<b, c>>
           s == p \o q
<1>1. /\ p \in Seq(S) /\ Len(p) = 1 /\ p[1] = a
      /\ q \in Seq(S) /\ Len(q) = 2 /\ q[1] = b /\ q[2] = c
  OBVIOUS
<1> HIDE DEF p, q, S
<1>2. /\ s \in Seq(S) /\ Len(s) = Len(p) + Len(q)
      /\ \A k \in 1 .. Len(p) + Len(q) : s[k] = IF k <= Len(p) THEN p[k] ELSE q[k - Len(p)]
  BY <1>1, ConcatProperties
<1> HIDE DEF s
<1>3. Len(s) = 3 /\ s[1] = a /\ s[2] = b /\ s[3] = c
  BY <1>1, <1>2
<1>4. s \in Seq(S) /\ Len(s) = 3
  BY <1>2, <1>3
<1>5. s = <<s[1], s[2], s[3]>>
  BY <1>4
<1> QED  BY <1>3, <1>5 DEF p, q, s

LEMMA Join21 == ASSUME NEW a, NEW b, NEW c PROVE <<a, b>> \o <<c>> = <<a, b, c>>
<1> DEFINE S == {a, b, c}
           p == <<a, b>>
           q == <<c>>
           s == p \o q
<1>1. /\ p \in Seq(S) /\ Len(p) = 2 /\ p[1] = a /\ p[2] = b
      /\ q \in Seq(S) /\ Len(q) = 1 /\ q[1] = c
  OBVIOUS
<1> HIDE DEF p, q, S
<1>2. /\ s \in Seq(S) /\ Len(s) = Len(p) + Len(q)
      /\ \A k \in 1 .. Len(p) + Len(q) : s[k] = IF k <= Len(p) THEN p[k] ELSE q[k - Len(p)]
  BY <1>1, ConcatProperties
<1> HIDE DEF s
<1>3. Len(s) = 3 /\ s[1] = a /\ s[2] = b /\ s[3] = c
  BY <1>1, <1>2
<1>4. s \in Seq(S) /\ Len(s) = 3
  BY <1>2, <1>3
<1>5. s = <<s[1], s[2], s[3]>>
  BY <1>4
<1> QED  BY <1>3, <1>5 DEF p, q, s

LEMMA Join22 == ASSUME NEW a, NEW b, NEW c, NEW d PROVE <<a, b>> \o <<c, d>> = <<a, b, c, d>>
<1> DEFINE S == {a, b, c, d}
           p == <<a, b>>
           q == <<c, d>>
           s == p \o q
<1>1. /\ p \in Seq(S) /\ Len(p) = 2 /\ p[1] = a /\ p[2] = b
      /\ q \in Seq(S) /\ Len(q) = 2 /\ q[1] = c /\ q[2] = d
  OBVIOUS
<1> HIDE DEF p, q, S
<1>2. /\ s \in Seq(S) /\ Len(s) = Len(p) + Len(q)
      /\ \A k \in 1 .. Len(p) + Len(q) : s[k] = IF k <= Len(p) THEN p[k] ELSE q[k - Len(p)]
  BY <1>1, ConcatProperties
<1> HIDE DEF s
<1>3. Len(s) = 4 /\ s[1] = a /\ s[2] = b /\ s[3] = c /\ s[4] = d
  BY <1>1, <1>2
<1>4. s \in Seq(S) /\ Len(s) = 4
  BY <1>2, <1>3
<1>5. s = <<s[1], s[2], s[3], s[4]>>
  BY <1>4
<1> QED  BY <1>3, <1>5 DEF p, q, s

(* The handlers of a file are handlers.                                    *)
LEMMA HandlersKnown ==
  ASSUME NEW f \in DOMAIN Handlers_in, NEW h \in Handlers_in[f]
  PROVE  h \in DOMAIN Scripts
<1>1. DOMAIN Scripts =
        {"Answer", "user_score", "user_backcard", "user_help", "user_about", "user_analyscene",
         "user_scenestatus", "user_useract", "user_scenes", "route_help", "get_order",
         "card_rows", "card_help", "db_save_values", "db_save_orders"}
  BY DEF Scripts
<1>2. h \in {"Answer", "user_score", "user_backcard", "user_help", "user_about", "user_analyscene",
            "user_scenestatus", "user_useract", "user_scenes", "route_help", "get_order",
            "card_rows", "card_help", "db_save_values", "db_save_orders"}
  BY DEF Handlers_in
<1> QED  BY <1>1, <1>2

(* A rest of a reply: only its end has a NUL, which every reply has but    *)
(* for one that ends with a print, and a list is closed right behind the   *)
(* call that takes the comma back, or behind a text.                       *)
IsScript(s) ==
  /\ s \in Seq(AllOps)
  /\ \A k \in 1 .. Len(s) : s[k] \in Ends => k = Len(s)
  /\ \A k \in 2 .. Len(s) : s[k] \in Closes => s[k - 1] \in Drops \cup Prints({"text"})
  /\ s # <<>> => s[Len(s)] \in Ends \cup Prints({"close"})

(* A whole reply, or what follows an item: nothing is closed at once.    *)
IsReply(s) == IsScript(s) /\ s # <<>> /\ s[1] \notin Closes

(* Calls that neither close nor end, before calls that do.                 *)
LEMMA JoinScript ==
  ASSUME NEW b \in Seq(Adds \cup Drops), Len(b) >= 1, NEW e, IsScript(e), e # <<>>,
         e[1] \in Closes => b[Len(b)] \in Drops \cup Prints({"text"})
  PROVE  IsReply(b \o e)
<1> DEFINE n == Len(b)
           m == Len(e)
           s == b \o e
<1>1. e \in Seq(AllOps) /\ b \in Seq(AllOps)
  BY DEF IsScript, AllOps
<1>2. n \in Nat /\ m \in Nat /\ n >= 1 /\ m >= 1
  BY <1>1, LenProperties, EmptySeq
<1>3. /\ s \in Seq(AllOps) /\ Len(s) = n + m
      /\ \A k \in 1 .. n + m : s[k] = IF k <= n THEN b[k] ELSE e[k - n]
  BY <1>1, ConcatProperties
<1>4. \A k \in 1 .. n : b[k] \in Adds \cup Drops
  BY ElementOfSeq
<1>5. \A x \in Adds \cup Drops : x \notin Ends /\ x \notin Closes
  BY CallFacts
<1> HIDE DEF n, m, s
<1>6. ASSUME NEW k \in 1 .. n + m, s[k] \in Ends \cup Closes
      PROVE  k - n \in 1 .. m /\ s[k] = e[k - n] /\ k > n
  <2>1. ~ (k <= n)
    BY <1>2, <1>3, <1>4, <1>5, <1>6
  <2> QED  BY <1>2, <1>3, <2>1
<1>7. \A k \in 1 .. n + m : s[k] \in Ends => k = n + m
  <2> SUFFICES ASSUME NEW k \in 1 .. n + m, s[k] \in Ends PROVE k = n + m
    OBVIOUS
  <2>1. k - n \in 1 .. m /\ e[k - n] \in Ends
    BY <1>6
  <2>2. k - n = m
    BY <2>1 DEF IsScript, m
  <2> QED  BY <1>2, <2>2
<1>8. ASSUME NEW k \in 2 .. n + m, s[k] \in Closes
      PROVE  s[k - 1] \in Drops \cup Prints({"text"})
  <2>1. k \in 1 .. n + m /\ k - 1 \in 1 .. n + m
    BY <1>2
  <2>2. k - n \in 1 .. m /\ s[k] = e[k - n] /\ k > n
    BY <1>6, <1>8, <2>1
  <2>3. CASE k - n = 1
    <3>1. k - 1 = n /\ n \in 1 .. n + m
      BY <1>2, <2>3
    <3>2. s[k - 1] = b[n]
      BY <1>2, <1>3, <3>1
    <3> QED  BY <1>8, <2>2, <2>3, <3>2 DEF n
  <2>4. CASE k - n # 1
    <3>1. k - n \in 2 .. m /\ ~ (k - 1 <= n) /\ (k - 1) - n = (k - n) - 1
      BY <1>2, <2>2, <2>4
    <3>2. s[k - 1] = e[(k - n) - 1]
      BY <1>3, <2>1, <3>1
    <3> QED  BY <1>8, <2>2, <3>1, <3>2 DEF IsScript, m
  <2> QED  BY <2>3, <2>4
<1>9. s # <<>> /\ s[n + m] = e[m] /\ s[1] = b[1]
  <2>1. n + m \in 1 .. n + m /\ ~ (n + m <= n) /\ (n + m) - n = m /\ 1 \in 1 .. n + m /\ 1 <= n
    BY <1>2
  <2>2. s # <<>>
    BY <1>2, <1>3, EmptySeq
  <2> QED  BY <1>3, <2>1, <2>2
<1>10. e[m] \in Ends \cup Prints({"close"})
  BY DEF IsScript, m
<1>11. s[1] \notin Closes
  <2>1. 1 \in 1 .. n
    BY <1>2
  <2> QED  BY <1>4, <1>5, <1>9, <2>1
<1> QED  BY <1>3, <1>7, <1>8, <1>9, <1>10, <1>11 DEF IsReply, IsScript, s

(* One call that ends a reply, or two.                                     *)
LEMMA EndsAreScripts ==
  /\ \A c \in Ends \cup Prints({"close"}) : IsScript(<<c>>)
  /\ \A c \in Closes \ Ends, d \in Ends \ Closes : IsScript(<<c, d>>)
<1>1. ASSUME NEW c \in Ends \cup Prints({"close"}) PROVE IsScript(<<c>>)
  <2>1. c \in AllOps
    BY CallsAre DEF AllOps
  <2> QED  BY <2>1 DEF IsScript
<1>2. ASSUME NEW c \in Closes \ Ends, NEW d \in Ends \ Closes PROVE IsScript(<<c, d>>)
  <2>1. c \in AllOps /\ d \in AllOps
    BY DEF AllOps
  <2> DEFINE s == <<c, d>>
  <2>2. s \in Seq(AllOps) /\ Len(s) = 2 /\ s[1] = c /\ s[2] = d /\ s # <<>>
    BY <2>1
  <2> HIDE DEF s
  <2>3. IsScript(s)
    BY <2>2 DEF IsScript
  <2> QED  BY <2>3 DEF s
<1> QED  BY <1>1, <1>2

(* A text that is closed at the end.                                       *)
LEMMA ClosingIs ==
  ASSUME NEW n \in Int
  PROVE  IsScript(Closing(n)) /\ Closing(n) # <<>> /\ Closing(n)[1] \in Closes /\ Len(Closing(n)) = 1
<1>1. -n \in Int /\ Addstr(<<"close", "nul">>, -n) \in Closes \cap Ends
  BY CallsAre
<1> QED  BY <1>1, EndsAreScripts DEF Closing

(* The ends of the lists.                                                  *)
LEMMA ListEnds ==
  /\ \A n \in Int : IsReply(<<Comma>> \o Closing(n)) /\ IsReply(<<Trim>> \o Closing(n))
  /\ IsReply(<<Trim, Addchar("close", -1), Addchar("nul", 0)>>) /\ IsReply(<<Trim, Addchar("nul", 0)>>)
<1>1. ASSUME NEW d \in Drops, NEW e, IsScript(e), e # <<>> PROVE IsReply(<<d>> \o e)
  <2> DEFINE b == <<d>>
  <2>1. b \in Seq(Adds \cup Drops) /\ Len(b) >= 1 /\ b[Len(b)] \in Drops
    OBVIOUS
  <2> HIDE DEF b
  <2>2. IsReply(b \o e)
    BY <1>1, <2>1, JoinScript
  <2> QED  BY <2>2 DEF b
<1>2. IsReply(<<Trim>> \o <<Addchar("close", -1), Addchar("nul", 0)>>)
  <2>1. Addchar("close", -1) \in Closes \ Ends /\ Addchar("nul", 0) \in Ends \ Closes
    <3>1. "close" # "nul"
      OBVIOUS
    <3>2. Addchar("close", -1) \notin Ends
      BY DEF Ends, Addchar, Addchars, Addstrs
    <3> QED  BY <3>2, CallsAre
  <2>2. <<Addchar("close", -1), Addchar("nul", 0)>> # <<>>
    OBVIOUS
  <2> QED  BY <1>1, <2>1, <2>2, CallsAre, EndsAreScripts
<1>3. IsReply(<<Trim>> \o <<Addchar("nul", 0)>>)
  <2>1. Addchar("nul", 0) \in Ends /\ <<Addchar("nul", 0)>> # <<>>
    BY CallsAre
  <2> QED  BY <1>1, <2>1, CallsAre, EndsAreScripts
<1>4. /\ <<Trim>> \o <<Addchar("close", -1), Addchar("nul", 0)>> = <<Trim, Addchar("close", -1), Addchar("nul", 0)>>
      /\ <<Trim>> \o <<Addchar("nul", 0)>> = <<Trim, Addchar("nul", 0)>>
  BY Join11, Join12
<1> QED  BY <1>1, <1>2, <1>3, <1>4, ClosingIs, CallsAre

(* The items of a list.                                                    *)
LEMMA RepeatedIs ==
  ASSUME NEW S, NEW item \in Seq(S), Len(item) \in {1, 3}, NEW n \in Nat
  PROVE  Repeated(item, n) \in Seq(S)
<1>1. ASSUME NEW c \in {1, 3}, Len(item) = c PROVE Repeated(item, n) \in Seq(S)
  <2>1. n * c \in Nat
    BY <1>1
  <2>2. ASSUME NEW k \in 1 .. n * c PROVE item[((k - 1) % c) + 1] \in S
    <3>1. ((k - 1) % c) + 1 \in 1 .. Len(item)
      <4>1. CASE c = 1
        BY <1>1, <2>1, <4>1
      <4>2. CASE c = 3
        BY <1>1, <2>1, <4>2
      <4> QED  BY <4>1, <4>2
    <3> QED  BY <3>1, ElementOfSeq
  <2>3. Repeated(item, n) \in [1 .. n * c -> S]
    BY <1>1, <2>2 DEF Repeated
  <2> QED  BY <2>1, <2>3, LenOf
<1> QED  BY <1>1

(* A beginning, items and an end make a reply.                           *)
LEMMA ListIsReply ==
  ASSUME NEW begin \in Seq(Adds), Len(begin) >= 1, NEW item \in Seq(Adds), Len(item) \in {1, 3},
         NEW end, IsReply(end), NEW s \in List(begin, item, end)
  PROVE  IsReply(s)
<1>0. PICK items \in Items(item) : s = begin \o items \o end
  BY DEF List
<1>1. PICK n \in 0 .. MaxItems : items = Repeated(item, n)
  BY <1>0 DEF Items
<1>2. items \in Seq(Adds)
  <2>1. n \in Nat
    BY RepliesAssumption
  <2> QED  BY <1>1, <2>1, RepeatedIs
<1>3. s = (begin \o items) \o end
  BY <1>0
<1>4. begin \o items \in Seq(Adds) /\ Len(begin \o items) >= 1
  <2>1. Len(begin) \in Nat /\ Len(items) \in Nat
    BY <1>2, LenProperties
  <2> QED  BY <1>2, <2>1, ConcatProperties
<1>5. begin \o items \in Seq(Adds \cup Drops)
  BY <1>4
<1> QED  BY <1>3, <1>4, <1>5, JoinScript DEF IsReply

(* A beginning and an end.                                                 *)
LEMMA PlainReply ==
  ASSUME NEW b \in Seq(Adds), Len(b) >= 1, b[Len(b)] \in Prints({"text"}), NEW e, IsScript(e), e # <<>>
  PROVE  IsReply(b \o e)
<1>1. b \in Seq(Adds \cup Drops)
  OBVIOUS
<1> QED  BY <1>1, JoinScript

(* The beginnings and the items.                                           *)
LEMMA Beginnings ==
  ASSUME NEW a \in Adds, NEW b \in Adds, NEW c \in Adds
  PROVE  /\ <<a>> \in Seq(Adds) /\ Len(<<a>>) = 1 /\ <<a>>[1] = a
         /\ <<a, b>> \in Seq(Adds) /\ Len(<<a, b>>) = 2 /\ <<a, b>>[2] = b
         /\ <<a, b, c>> \in Seq(Adds) /\ Len(<<a, b, c>>) = 3 /\ <<a, b, c>>[3] = c
  OBVIOUS

(* Every handler puts its texts together like that.                        *)
LEMMA ScriptsAreReplies == ASSUME NEW h \in DOMAIN Scripts, NEW s \in Scripts[h] PROVE IsReply(s)
<1>1. \A n \in {0, 1, 2} : n \in Int /\ -n \in Int
  OBVIOUS
<1>2. /\ \A o \in {0, 1, 2} : /\ Printf("text", o) \in Prints({"text"}) \cap Adds
                             /\ Printf_given("text", o) \in Prints({"text"}) \cap Adds
      /\ Printf("comma", -1) \in Adds /\ Printf_given("comma", 0) \in Adds
      /\ Printf("close", 0) \in Prints({"close"}) \cap Adds
      /\ Printf_given("close", 0) \in Prints({"close"}) \cap Adds
      /\ Addstr(<<"text", "comma">>, -1) \in Adds
  BY <1>1, CallsAre
<1>3. s \in Answer \cup db_save_orders => IsReply(s)
  <2>1. ASSUME NEW c \in Prints({"close"}) PROVE IsReply(<<c>>)
    <3>1. c \notin Closes /\ <<c>> # <<>> /\ <<c>>[1] = c
      BY CallFacts, CallsAre
    <3> QED  BY <3>1, EndsAreScripts DEF IsReply
  <2> QED  BY <1>2, <2>1 DEF Answer, db_save_orders
<1>4. s \in user_score \cup user_backcard => IsReply(s)
  <2> DEFINE b == <<Printf_given("close", 0)>>
             e == <<Addchar("nul", 0)>>
  <2>1. b \in Seq(Adds \cup Drops) /\ Len(b) >= 1 /\ e # <<>> /\ e[1] \notin Closes /\ IsScript(e)
    BY <1>2, CallsAre, EndsAreScripts
  <2>2. b \o e = <<Printf_given("close", 0), Addchar("nul", 0)>>
    BY Join11
  <2> HIDE DEF b, e
  <2>3. IsReply(b \o e)
    BY <2>1, JoinScript
  <2> QED  BY <2>2, <2>3 DEF user_score, user_backcard
<1>5. s \in user_help \cup user_about \cup card_help => IsReply(s)
  <2>1. ASSUME NEW c \in Prints({"text"}) \cap Adds PROVE IsReply(<<Printf("text", 1), c>> \o Closing(1))
    <3> DEFINE b == <<Printf("text", 1), c>>
    <3>1. b \in Seq(Adds) /\ Len(b) = 2 /\ b[2] = c
      BY <1>2, Beginnings
    <3> HIDE DEF b
    <3>2. IsReply(b \o Closing(1))
      BY <1>1, <3>1, ClosingIs, PlainReply
    <3> QED  BY <3>2 DEF b
  <2> QED  BY <1>2, <2>1 DEF user_help, user_about, card_help
<1>6. s \in user_analyscene => IsReply(s)
  <2> DEFINE b == <<Printf_given("text", 1), Printf("text", 1), Printf_given("text", 0)>>
  <2>1. b \in Seq(Adds) /\ Len(b) >= 1 /\ b[Len(b)] \in Prints({"text"})
    <3>1. b \in Seq(Adds) /\ Len(b) = 3 /\ b[3] = Printf_given("text", 0)
      BY <1>2, Beginnings
    <3> HIDE DEF b
    <3> QED  BY <1>2, <3>1
  <2> HIDE DEF b
  <2>2. IsScript(Closing(2)) /\ Closing(2) # <<>>
    BY <1>1, ClosingIs
  <2>3. IsReply(b \o Closing(2))
    BY <2>1, <2>2, PlainReply
  <2> QED  BY <2>3 DEF user_analyscene, b
<1>7. s \in route_help => IsReply(s)
  <2> DEFINE b == <<Printf("text", 1), Printf_given("text", 0)>>
             e == <<Addchar("close", -1), Addchar("nul", 0)>>
  <2>1. b \in Seq(Adds) /\ Len(b) >= 1 /\ b[Len(b)] \in Prints({"text"})
    <3>1. b \in Seq(Adds) /\ Len(b) = 2 /\ b[2] = Printf_given("text", 0)
      BY <1>2, Beginnings
    <3> HIDE DEF b
    <3> QED  BY <1>2, <3>1
  <2>2. IsScript(e) /\ e # <<>>
    <3>1. Addchar("close", -1) \notin Ends
      BY DEF Ends, Addchar, Addchars, Addstrs
    <3> QED  BY <3>1, CallsAre, EndsAreScripts
  <2>3. b \o e = <<Printf("text", 1), Printf_given("text", 0), Addchar("close", -1), Addchar("nul", 0)>>
    BY Join22
  <2> HIDE DEF b, e
  <2>4. IsReply(b \o e)
    <3>1. b \in Seq(Adds) /\ Len(b) >= 1
      BY <2>1
    <3>2. b[Len(b)] \in Prints({"text"})
      BY <2>1
    <3> QED  BY <2>2, <3>1, <3>2, PlainReply
  <2> QED  BY <2>3, <2>4 DEF route_help
<1>8. s \in user_scenestatus \cup user_useract \cup user_scenes => IsReply(s)
  <2> DEFINE begin == <<Printf("text", 1), Printf("text", 1)>>
             end == <<Comma>> \o Closing(2)
  <2>1. begin \in Seq(Adds) /\ Len(begin) >= 1 /\ IsReply(end)
    <3>1. begin \in Seq(Adds) /\ Len(begin) = 2
      BY <1>2, Beginnings
    <3> QED  BY <1>1, <3>1, ListEnds
  <2>2. ASSUME NEW item \in Seq(Adds), Len(item) \in {1, 3}, s \in List(begin, item, end) PROVE IsReply(s)
    <3> HIDE DEF begin, end
    <3> QED  BY <2>1, <2>2, ListIsReply
  <2> DEFINE i1 == <<Printf("text", 1), Printf_given("text", 0), Addstr(<<"text", "comma">>, -1)>>
             i2 == <<Printf_given("comma", 0)>>
             i3 == <<Printf("text", 1), Printf_given("text", 0), Printf("comma", -1)>>
  <2>3. /\ i1 \in Seq(Adds) /\ Len(i1) = 3 /\ i2 \in Seq(Adds) /\ Len(i2) = 1
        /\ i3 \in Seq(Adds) /\ Len(i3) = 3
    BY <1>2, Beginnings
  <2>4. s \in List(begin, i1, end) \cup List(begin, i2, end) \cup List(begin, i3, end) => IsReply(s)
    <3> HIDE DEF i1, i2, i3, begin, end
    <3> QED  BY <2>2, <2>3
  <2> QED  BY <2>4 DEF user_scenestatus, user_useract, user_scenes
<1>9. s \in get_order \cup card_rows => IsReply(s)
  <2> DEFINE begin == <<Printf("text", 2)>>
             item == <<Printf_given("comma", 0)>>
             e1 == <<Trim, Addchar("close", -1), Addchar("nul", 0)>>
             e2 == <<Trim, Addchar("nul", 0)>>
  <2>1. /\ begin \in Seq(Adds) /\ Len(begin) = 1 /\ item \in Seq(Adds) /\ Len(item) = 1
        /\ IsReply(e1) /\ IsReply(e2)
    BY <1>2, Beginnings, ListEnds
  <2>2. s \in List(begin, item, e1) \cup List(begin, item, e2) => IsReply(s)
    <3> HIDE DEF begin, item, e1, e2
    <3> QED  BY <2>1, ListIsReply
  <2> QED  BY <2>2 DEF get_order, card_rows
<1>10. s \in db_save_values => IsReply(s)
  <2> DEFINE begin == <<Printf_given("comma", 0)>>
             end == <<Trim>> \o Closing(0)
  <2>1. begin \in Seq(Adds) /\ Len(begin) >= 1 /\ Len(begin) \in {1, 3} /\ IsReply(end)
    <3>1. begin \in Seq(Adds) /\ Len(begin) = 1
      BY <1>2, Beginnings
    <3> QED  BY <1>1, <3>1, ListEnds
  <2>2. s \in List(begin, begin, end) => IsReply(s)
    <3> HIDE DEF begin, end
    <3> QED  BY <2>1, ListIsReply
  <2> QED  BY <2>2 DEF db_save_values
<1>11. s \in (Answer \cup db_save_orders) \cup (user_score \cup user_backcard)
         \cup (user_help \cup user_about \cup card_help) \cup user_analyscene \cup route_help
         \cup (user_scenestatus \cup user_useract \cup user_scenes) \cup (get_order \cup card_rows)
         \cup db_save_values
  BY DEF Scripts
<1> QED  BY <1>3, <1>4, <1>5, <1>6, <1>7, <1>8, <1>9, <1>10, <1>11

-----------------------------------------------------------------------------
(* No cell of the first n is a NUL.                                        *)
NoNul(cells, n) == \A k \in 1 .. n : cells[k] # "nul"

(* What has been put together has no NUL until the last call, no list in   *)
(* it is closed behind a comma, and where the next call closes one, the    *)
(* cells or the print before it do not end with a comma.                   *)
RepliesInv ==
  /\ mb_data \in Seq(Cells) /\ (printing = <<>> \/ printing \in Texts)
  /\ IsScript(script)
  /\ script # <<>> \/ printing # <<>> => NoNul(mb_data, len)
  /\ ReplyTerminated /\ ListsClosed
  /\ \A k \in 2 .. len : mb_data[k] = "comma" => mb_data[k - 1] # "comma"
  /\ script # <<>> /\ script[1] \in Closes =>
       IF printing = <<>> THEN len > 0 => mb_data[len] # "comma"
       ELSE printing[Len(printing)] = "text"

(* What is printed: text, with a comma or a bracket at its end at most.  *)
LEMMA TextFacts ==
  ASSUME NEW t \in Texts
  PROVE  /\ t \in Seq(Cells) /\ Len(t) \in Nat /\ Len(t) >= 1 /\ t # <<>>
         /\ t[1] \notin {"comma", "close"}
         /\ \A k \in 1 .. Len(t) : t[k] # "nul"
         /\ \A k \in 2 .. Len(t) : t[k - 1] = "text"
<1>1. t \in Seq(Cells) /\ Len(t) \in 1 .. Big /\ Big \in Nat
  BY MembuffAssumption
<1>2. Len(t) \in Nat /\ Len(t) >= 1 /\ t # <<>>
  BY <1>1, EmptySeq
<1>3. /\ \A k \in 1 .. Len(t) - 1 : t[k] = "text"
      /\ t[Len(t)] = "text" \/ (t[Len(t)] \in {"comma", "close"} /\ Len(t) > 1)
  BY RepliesAssumption
<1>4. \A k \in 1 .. Len(t) : k = Len(t) \/ k \in 1 .. Len(t) - 1
  BY <1>2
<1>5. 1 = Len(t) \/ 1 \in 1 .. Len(t) - 1
  <2> DEFINE n == Len(t)
  <2>1. n \in Nat /\ n >= 1
    BY <1>2
  <2> HIDE DEF n
  <2>2. 1 = n \/ 1 \in 1 .. n - 1
    BY <2>1
  <2> QED  BY <2>2 DEF n
<1>6. ASSUME NEW k \in 2 .. Len(t) PROVE k - 1 \in 1 .. Len(t) - 1
  <2> DEFINE n == Len(t)
  <2>1. n \in Nat /\ k \in 2 .. n
    BY <1>2
  <2> HIDE DEF n
  <2>2. k - 1 \in 1 .. n - 1
    BY <2>1
  <2> QED  BY <2>2 DEF n
<1> QED  BY <1>1, <1>2, <1>3, <1>4, <1>5, <1>6

(* What is left when a call has been made.                                 *)
LEMMA RestFacts ==
  ASSUME IsScript(script), script # <<>>
  PROVE  /\ script[1] \in AllOps
         /\ IsScript(Tail(script))
         /\ script[1] \in Ends => Tail(script) = <<>>
         /\ Tail(script) = <<>> => script[1] \in Ends \cup Prints({"close"})
         /\ Tail(script) # <<>> /\ Tail(script)[1] \in Closes => script[1] \in Drops \cup Prints({"text"})
<1> DEFINE n == Len(script)
           r == Tail(script)
<1>1. script \in Seq(AllOps) /\ n \in Nat /\ n >= 1
  BY LenProperties, EmptySeq DEF IsScript
<1>2. r \in Seq(AllOps) /\ Len(r) = n - 1 /\ \A k \in 1 .. n - 1 : r[k] = script[k + 1]
  BY <1>1, HeadTailProperties
<1> HIDE DEF r, n
<1>3. r = <<>> <=> n = 1
  <2>1. Len(r) = 0 <=> r = <<>>
    BY <1>2, EmptySeq
  <2> QED  BY <1>1, <1>2, <2>1
<1>4. script[1] \in AllOps
  <2>1. 1 \in 1 .. Len(script)
    BY <1>1 DEF n
  <2> QED  BY <1>1, <2>1, ElementOfSeq
<1>5. ASSUME NEW k \in 1 .. n - 1, r[k] \in Ends PROVE k = n - 1
  <2>1. k + 1 \in 1 .. n
    BY <1>1
  <2>2. k + 1 = n
    BY <1>2, <1>5, <2>1 DEF IsScript, n
  <2> QED  BY <1>1, <2>2
<1>6. ASSUME NEW k \in 2 .. n - 1, r[k] \in Closes PROVE r[k - 1] \in Drops \cup Prints({"text"})
  <2>1. k + 1 \in 2 .. n /\ (k + 1) - 1 = k /\ k \in 1 .. n - 1 /\ k - 1 \in 1 .. n - 1 /\ (k - 1) + 1 = k
    BY <1>1
  <2>2. r[k] = script[k + 1] /\ r[k - 1] = script[k]
    BY <1>2, <2>1
  <2>3. script[(k + 1) - 1] \in Drops \cup Prints({"text"})
    BY <1>6, <2>1, <2>2 DEF IsScript, n
  <2> QED  BY <2>1, <2>2, <2>3
<1>7. ASSUME r # <<>> PROVE r[Len(r)] \in Ends \cup Prints({"close"})
  <2>1. n - 1 \in 1 .. n - 1 /\ (n - 1) + 1 = n
    BY <1>1, <1>3, <1>7
  <2>2. r[n - 1] = script[n]
    BY <1>2, <2>1
  <2> QED  BY <1>2, <2>2 DEF IsScript, n
<1>8. ASSUME r # <<>>, r[1] \in Closes PROVE script[1] \in Drops \cup Prints({"text"})
  <2>1. 1 \in 1 .. n - 1 /\ 1 + 1 = 2 /\ 2 \in 2 .. n /\ 2 - 1 = 1
    BY <1>1, <1>3, <1>8
  <2>2. r[1] = script[2]
    BY <1>2, <2>1
  <2> QED  BY <1>8, <2>1, <2>2 DEF IsScript, n
<1>9. ASSUME script[1] \in Ends PROVE n = 1
  <2>1. 1 \in 1 .. Len(script)
    BY <1>1 DEF n
  <2> QED  BY <1>9, <2>1 DEF IsScript, n
<1>10. IsScript(r)
  BY <1>2, <1>5, <1>6, <1>7 DEF IsScript
<1>11. n = 1 => script[1] \in Ends \cup Prints({"close"})
  BY DEF IsScript, n
<1> QED  BY <1>3, <1>4, <1>8, <1>9, <1>10, <1>11 DEF r

(* What the cells of a reply are, as far as it has come.                   *)
CellsAreSound(cells) ==
  /\ cells \in Seq(Cells)
  /\ \A k \in 2 .. Len(cells) : cells[k] = "close" => cells[k - 1] # "comma"
  /\ \A k \in 2 .. Len(cells) : cells[k] = "comma" => cells[k - 1] # "comma"

(* Text is put behind a sound text.                                        *)
LEMMA AddedCells ==
  ASSUME NEW cells, CellsAreSound(cells), NEW t \in Seq(Cells), Len(t) >= 1,
         \A k \in 2 .. Len(t) : t[k] \in {"close", "comma"} => t[k - 1] # "comma",
         t[1] # "comma", t[1] = "close" /\ Len(cells) > 0 => cells[Len(cells)] # "comma"
  PROVE  /\ CellsAreSound(cells \o t) /\ Len(cells \o t) = Len(cells) + Len(t)
         /\ (cells \o t)[Len(cells \o t)] = t[Len(t)]
         /\ NoNul(cells, Len(cells)) /\ NoNul(t, Len(t)) => NoNul(cells \o t, Len(cells) + Len(t))
         /\ NoNul(cells, Len(cells)) /\ NoNul(t, Len(t) - 1) => NoNul(cells \o t, Len(cells) + Len(t) - 1)
<1> DEFINE n == Len(cells)
           m == Len(t)
           s == cells \o t
<1>1. n \in Nat /\ m \in Nat /\ m >= 1 /\ cells \in Seq(Cells)
  BY LenProperties DEF CellsAreSound
<1>2. /\ s \in Seq(Cells) /\ Len(s) = n + m
      /\ \A k \in 1 .. n + m : s[k] = IF k <= n THEN cells[k] ELSE t[k - n]
  BY <1>1, ConcatProperties
<1> HIDE DEF n, m, s
<1>3. ASSUME NEW k \in 2 .. n + m
      PROVE  (s[k] = "close" => s[k - 1] # "comma") /\ (s[k] = "comma" => s[k - 1] # "comma")
  <2>1. k \in 1 .. n + m /\ k - 1 \in 1 .. n + m
    BY <1>1
  <2>2. CASE k <= n
    <3>1. k \in 2 .. n /\ k - 1 <= n
      BY <1>1, <2>2
    <3> QED  BY <1>2, <2>1, <2>2, <3>1 DEF CellsAreSound, n
  <2>3. CASE k = n + 1
    <3>1. k - 1 = n /\ n > 0 /\ k - n = 1 /\ ~ (k <= n) /\ n <= n
      BY <1>1, <2>3
    <3>2. s[k] = t[1] /\ s[k - 1] = cells[n]
      BY <1>2, <2>1, <3>1
    <3> QED  BY <3>1, <3>2 DEF n
  <2>4. CASE k > n + 1
    <3>1. ~ (k <= n) /\ ~ (k - 1 <= n) /\ k - n \in 2 .. m /\ (k - 1) - n = (k - n) - 1
      BY <1>1, <2>4
    <3>2. s[k] = t[k - n] /\ s[k - 1] = t[(k - n) - 1]
      BY <1>2, <2>1, <3>1
    <3> QED  BY <3>1, <3>2 DEF m
  <2>5. k <= n \/ k = n + 1 \/ k > n + 1
    BY <1>1
  <2> QED  BY <2>2, <2>3, <2>4, <2>5
<1>4. s[n + m] = t[m]
  <2>1. n + m \in 1 .. n + m /\ ~ (n + m <= n) /\ (n + m) - n = m
    BY <1>1
  <2> QED  BY <1>2, <2>1
<1>5. ASSUME NoNul(cells, n), NEW d \in {0, 1}, NoNul(t, m - d) PROVE NoNul(s, n + m - d)
  <2> SUFFICES ASSUME NEW k \in 1 .. n + m - d PROVE s[k] # "nul"
    BY DEF NoNul
  <2>1. k \in 1 .. n + m
    BY <1>1
  <2>2. CASE k <= n
    <3>1. k \in 1 .. n
      BY <1>1, <2>2
    <3> QED  BY <1>2, <1>5, <2>1, <2>2, <3>1 DEF NoNul
  <2>3. CASE ~ (k <= n)
    <3>1. k - n \in 1 .. m - d
      BY <1>1, <2>3
    <3> QED  BY <1>2, <1>5, <2>1, <2>3, <3>1 DEF NoNul
  <2> QED  BY <2>2, <2>3
<1>6. NoNul(cells, n) /\ NoNul(t, m) => NoNul(s, n + m)
  <2>1. m - 0 = m /\ n + m - 0 = n + m
    BY <1>1
  <2> QED  BY <1>5, <2>1
<1>7. NoNul(cells, n) /\ NoNul(t, m - 1) => NoNul(s, n + m - 1)
  BY <1>5
<1> QED  BY <1>2, <1>3, <1>4, <1>6, <1>7 DEF CellsAreSound, n, m, s

(* A sound text is cut short.                                              *)
LEMMA CutCells ==
  ASSUME NEW cells, CellsAreSound(cells), NEW n \in 0 .. Len(cells)
  PROVE  /\ CellsAreSound(SubSeq(cells, 1, n)) /\ Len(SubSeq(cells, 1, n)) = n
         /\ n > 0 => SubSeq(cells, 1, n)[n] = cells[n]
         /\ NoNul(cells, Len(cells)) => NoNul(SubSeq(cells, 1, n), n)
<1> DEFINE c == SubSeq(cells, 1, n)
<1>1. cells \in Seq(Cells) /\ Len(cells) \in Nat
  BY LenProperties DEF CellsAreSound
<1>2. c \in Seq(Cells) /\ Len(c) = n /\ \A k \in 1 .. n : c[k] = cells[k]
  BY <1>1, PrefixIs
<1> HIDE DEF c
<1>3. n \in Nat /\ (n > 0 => n \in 1 .. n) /\ \A k \in 1 .. n : k \in 1 .. Len(cells)
  BY <1>1
<1>4. \A k \in 2 .. n : k \in 1 .. n /\ k - 1 \in 1 .. n /\ k \in 2 .. Len(cells)
  BY <1>1
<1>5. CellsAreSound(c)
  BY <1>2, <1>4 DEF CellsAreSound
<1> QED  BY <1>2, <1>3, <1>5 DEF NoNul, c

(* The parts of the invariant.                                             *)
LEMMA RepliesInvParts ==
  RepliesInv <=>
    /\ CellsAreSound(mb_data) /\ (printing = <<>> \/ printing \in Texts)
    /\ IsScript(script)
    /\ script # <<>> \/ printing # <<>> => NoNul(mb_data, len)
    /\ ReplyTerminated
    /\ script # <<>> /\ script[1] \in Closes =>
         IF printing = <<>> THEN len > 0 => mb_data[len] # "comma"
         ELSE printing[Len(printing)] = "text"
  BY DEF RepliesInv, CellsAreSound, ListsClosed, len

(* The parts that a step must bring back.                                  *)
LEMMA RepliesInvNext ==
  ASSUME CellsAreSound(mb_data'), printing' = <<>> \/ printing' \in Texts,
         IsScript(script'),
         script' # <<>> \/ printing' # <<>> => NoNul(mb_data', Len(mb_data')),
         script' = <<>> /\ printing' = <<>> =>
            /\ mb_after' = "nul" \/ mb_data'[Len(mb_data')] = "nul"
            /\ NoNul(mb_data', Len(mb_data') - 1),
         script' # <<>> /\ script'[1] \in Closes =>
            IF printing' = <<>> THEN Len(mb_data') > 0 => mb_data'[Len(mb_data')] # "comma"
            ELSE printing'[Len(printing')] = "text"
  PROVE  RepliesInv'
  BY DEF RepliesInv, CellsAreSound, ListsClosed, len, ReplyTerminated, ReadyToSend, NoNul

(* A print begins.                                                         *)
LEMMA RepliesPrintf ==
  ASSUME RepliesInv, Calls("printf"), Goes, NEW t \in Texts, t[Len(t)] = script[1].last, PrintBegins(t)
  PROVE  RepliesInv'
<1>1. /\ CellsAreSound(mb_data) /\ IsScript(script) /\ script # <<>> /\ NoNul(mb_data, Len(mb_data))
  BY RepliesInvParts DEF Calls, len
<1>2. t # <<>>
  BY TextFacts
<1>3. /\ printing' = t /\ mb_data' = mb_data /\ script' = Tail(script)
  BY DEF PrintBegins, Goes
<1>4. script' # <<>> /\ script'[1] \in Closes => t[Len(t)] = "text"
  <2> SUFFICES ASSUME script' # <<>>, script'[1] \in Closes PROVE t[Len(t)] = "text"
    OBVIOUS
  <2>1. script[1] \in Drops \cup Prints({"text"})
    BY <1>1, <1>3, RestFacts
  <2>2. script[1].op = "printf"
    BY DEF Calls
  <2> QED  BY <2>1, <2>2, CallFacts
<1>5. IsScript(script')
  BY <1>1, <1>3, RestFacts
<1> QED  BY <1>1, <1>2, <1>3, <1>4, <1>5, RepliesInvNext

(* Text is put behind the reply by addstr or addchar.                      *)
LEMMA RepliesAdds ==
  ASSUME RepliesInv, Goes, script # <<>>, printing = <<>>, UNCHANGED printing,
         NEW t, mb_data' = mb_data \o t,
         \/ script[1] \in Addstrs({t}) /\ t \in {<<"text", "comma">>, <<"close", "nul">>}
         \/ \E c \in {"close", "nul"} : script[1] \in Addchars({c}) /\ t = <<c>>
  PROVE  RepliesInv'
<1>1. /\ CellsAreSound(mb_data) /\ IsScript(script) /\ script # <<>> /\ NoNul(mb_data, Len(mb_data))
      /\ script[1] \in Closes => (Len(mb_data) > 0 => mb_data[Len(mb_data)] # "comma")
  BY RepliesInvParts DEF len
<1>2. script' = Tail(script)
  BY DEF Goes
<1>3. IsScript(script')
  BY <1>1, <1>2, RestFacts
<1>4. /\ t \in Seq(Cells) /\ Len(t) \in {1, 2}
      /\ \A k \in 2 .. Len(t) : t[k] \in {"close", "comma"} => t[k - 1] # "comma"
      /\ t[1] # "comma"
      /\ t[1] = "close" => script[1] \in Closes
  <2>1. ASSUME t = <<"text", "comma">>
        PROVE  t \in Seq(Cells) /\ Len(t) = 2 /\ t[1] = "text" /\ t[2] = "comma"
    BY <2>1 DEF Cells
  <2>2. ASSUME t = <<"close", "nul">>, script[1] \in Addstrs({t})
        PROVE  t \in Seq(Cells) /\ Len(t) = 2 /\ t[1] = "close" /\ t[2] = "nul" /\ script[1] \in Closes
    BY <2>2 DEF Cells, Closes
  <2>3. ASSUME NEW c \in {"close", "nul"}, script[1] \in Addchars({c}), t = <<c>>
        PROVE  t \in Seq(Cells) /\ Len(t) = 1 /\ t[1] = c /\ (c = "close" => script[1] \in Closes)
    BY <2>3 DEF Cells, Closes
  <2>4. CASE script[1] \in Addstrs({t}) /\ t \in {<<"text", "comma">>, <<"close", "nul">>}
    <3>1. CASE t = <<"text", "comma">>
      BY <2>1, <3>1
    <3>2. CASE t = <<"close", "nul">>
      BY <2>2, <2>4, <3>2
    <3> QED  BY <2>4, <3>1, <3>2
  <2>5. CASE \E c \in {"close", "nul"} : script[1] \in Addchars({c}) /\ t = <<c>>
    BY <2>3, <2>5
  <2> QED  BY <2>4, <2>5
<1>5. Len(mb_data) \in Nat
  BY <1>1, LenProperties DEF CellsAreSound
<1>6. Len(t) >= 1 /\ (t[1] = "close" /\ Len(mb_data) > 0 => mb_data[Len(mb_data)] # "comma")
  BY <1>1, <1>4
<1>7. /\ CellsAreSound(mb_data') /\ Len(mb_data') = Len(mb_data) + Len(t)
      /\ mb_data'[Len(mb_data')] = t[Len(t)]
      /\ NoNul(t, Len(t)) => NoNul(mb_data', Len(mb_data) + Len(t))
      /\ NoNul(t, Len(t) - 1) => NoNul(mb_data', Len(mb_data) + Len(t) - 1)
  BY <1>1, <1>4, <1>6, AddedCells
<1>8. CASE t \in {<<"text", "comma">>, <<"close">>}
  <2>1. script[1] \notin Ends \cup Prints({"close"}) /\ script[1] \notin Drops \cup Prints({"text"})
    <3> DEFINE tc == <<"text", "comma">>
               cn == <<"close", "nul">>
    <3>1. tc # cn /\ <<"close">> # tc /\ <<"close">> # cn /\ <<"close">> # <<"nul">> /\ tc # <<"nul">>
      OBVIOUS
    <3>2. script[1] \in Addstrs({tc}) \/ script[1] \in Addchars({"close"})
      <4>1. CASE t = tc
        <5>1. \A c \in {"close", "nul"} : t # <<c>>
          BY <4>1
        <5> QED  BY <4>1, <5>1
      <4>2. CASE t = <<"close">>
        <5>1. t # tc /\ t # cn
          BY <3>1, <4>2
        <5>2. PICK c \in {"close", "nul"} : script[1] \in Addchars({c}) /\ t = <<c>>
          BY <5>1
        <5>3. c = "close"
          BY <4>2, <5>2
        <5> QED  BY <5>2, <5>3
      <4> QED  BY <1>8, <4>1, <4>2
    <3>3. Ends = Addchars({"nul"}) \cup Addstrs({cn})
      BY DEF Ends
    <3> HIDE DEF tc, cn
    <3> QED  BY <3>1, <3>2, <3>3 DEF Addstrs, Addchars, Prints, Drops
  <2>2. script' # <<>> /\ script'[1] \notin Closes
    BY <1>1, <1>2, <2>1, RestFacts
  <2>3. NoNul(t, Len(t))
    <3>1. CASE t = <<"text", "comma">>
      <4>1. Len(t) = 2 /\ t[1] # "nul" /\ t[2] # "nul"
        BY <3>1
      <4> QED  BY <4>1 DEF NoNul
    <3>2. CASE t = <<"close">>
      <4>1. Len(t) = 1 /\ t[1] # "nul"
        BY <3>2
      <4> QED  BY <4>1 DEF NoNul
    <3> QED  BY <1>8, <3>1, <3>2
  <2>4. NoNul(mb_data', Len(mb_data'))
    BY <1>7, <2>3
  <2> QED  BY <1>1, <1>2, <1>3, <1>7, <2>2, <2>4, RepliesInvNext
<1>9. CASE t \in {<<"close", "nul">>, <<"nul">>}
  <2>1. script' = <<>>
    <3>1. script[1] \in Ends
      <4>1. CASE t = <<"close", "nul">>
        <5>1. \A c \in {"close", "nul"} : t # <<c>>
          BY <4>1
        <5> QED  BY <4>1, <5>1 DEF Ends
      <4>2. CASE t = <<"nul">>
        <5>1. t # <<"text", "comma">> /\ t # <<"close", "nul">>
          BY <4>2
        <5>2. PICK c \in {"close", "nul"} : script[1] \in Addchars({c}) /\ t = <<c>>
          BY <5>1
        <5>3. c = "nul"
          BY <4>2, <5>2
        <5> QED  BY <5>2, <5>3 DEF Ends
      <4> QED  BY <1>9, <4>1, <4>2
    <3> QED  BY <1>1, <1>2, <3>1, RestFacts
  <2>2. NoNul(t, Len(t) - 1) /\ t[Len(t)] = "nul"
    <3>1. CASE t = <<"close", "nul">>
      <4>1. Len(t) = 2 /\ t[1] # "nul" /\ t[2] = "nul"
        BY <3>1
      <4> QED  BY <4>1 DEF NoNul
    <3>2. CASE t = <<"nul">>
      <4>1. Len(t) = 1 /\ t[1] = "nul"
        BY <3>2
      <4> QED  BY <4>1 DEF NoNul
    <3> QED  BY <1>9, <3>1, <3>2
  <2>3. NoNul(mb_data', Len(mb_data') - 1) /\ mb_data'[Len(mb_data')] = "nul"
    BY <1>7, <2>2
  <2> QED  BY <1>1, <1>2, <1>3, <1>7, <2>1, <2>3, RepliesInvNext
<1>10. t \in {<<"text", "comma">>, <<"close">>} \cup {<<"close", "nul">>, <<"nul">>}
  OBVIOUS
<1> QED  BY <1>8, <1>9, <1>10

(* The comma of the last item is taken back.                               *)
LEMMA RepliesDrops ==
  ASSUME RepliesInv, Goes, script # <<>>, script[1] \in Drops, printing = <<>>, UNCHANGED printing,
         NEW n \in 0 .. Len(mb_data), mb_data' = SubSeq(mb_data, 1, n),
         n > 0 => mb_data[n] # "comma"
  PROVE  RepliesInv'
<1>1. /\ CellsAreSound(mb_data) /\ IsScript(script) /\ NoNul(mb_data, Len(mb_data))
  BY RepliesInvParts DEF len
<1>2. script' = Tail(script)
  BY DEF Goes
<1>3. IsScript(script')
  BY <1>1, <1>2, RestFacts
<1>4. script[1] \notin Ends \cup Prints({"close"})
  BY CallFacts
<1>5. script' # <<>>
  BY <1>1, <1>2, <1>4, RestFacts
<1>6. /\ CellsAreSound(mb_data') /\ Len(mb_data') = n
      /\ n > 0 => mb_data'[n] = mb_data[n]
      /\ NoNul(mb_data', n)
  BY <1>1, CutCells
<1> QED  BY <1>1, <1>2, <1>3, <1>5, <1>6, RepliesInvNext

(* A print ends.                                                           *)
LEMMA RepliesPrintEnds ==
  ASSUME RepliesInv, PrintEnds, UNCHANGED <<file, handler, script, level, percent, sent>>
  PROVE  RepliesInv'
<1>1. /\ CellsAreSound(mb_data) /\ IsScript(script) /\ NoNul(mb_data, Len(mb_data))
      /\ printing # <<>> /\ printing \in Texts
      /\ script # <<>> /\ script[1] \in Closes => printing[Len(printing)] = "text"
  BY RepliesInvParts DEF PrintEnds, len
<1>2. mb_data' = mb_data \o printing /\ mb_after' = "nul" /\ printing' = <<>>
  BY DEF PrintEnds
<1> DEFINE t == printing
<1>3. /\ t \in Seq(Cells) /\ Len(t) \in Nat /\ Len(t) >= 1
      /\ t[1] \notin {"comma", "close"}
      /\ \A k \in 1 .. Len(t) : t[k] # "nul"
      /\ \A k \in 2 .. Len(t) : t[k - 1] = "text"
  BY <1>1, TextFacts
<1>4. NoNul(t, Len(t))
  BY <1>3 DEF NoNul
<1>5. Len(mb_data) \in Nat
  BY <1>1, LenProperties DEF CellsAreSound
<1> HIDE DEF t
<1>6. /\ CellsAreSound(mb_data \o t) /\ Len(mb_data \o t) = Len(mb_data) + Len(t)
      /\ (mb_data \o t)[Len(mb_data \o t)] = t[Len(t)]
      /\ NoNul(mb_data \o t, Len(mb_data) + Len(t))
  BY <1>1, <1>3, <1>4, AddedCells
<1>7. /\ CellsAreSound(mb_data') /\ Len(mb_data') \in Nat /\ NoNul(mb_data', Len(mb_data'))
      /\ mb_data'[Len(mb_data')] = printing[Len(printing)]
  BY <1>2, <1>3, <1>5, <1>6 DEF t
<1>8. NoNul(mb_data', Len(mb_data') - 1)
  BY <1>7 DEF NoNul
<1> QED  BY <1>1, <1>2, <1>7, <1>8, RepliesInvNext

(* The first reply begins in an empty buffer.                            *)
LEMMA RepliesInvInit == RepliesInit => RepliesInv
<1> SUFFICES ASSUME RepliesInit PROVE RepliesInv
  OBVIOUS
<1>1. /\ mb_data = <<>> /\ mb_after = "nul" /\ printing = <<>> /\ handler \in DOMAIN Scripts
      /\ script \in Scripts[handler]
  BY HandlersKnown DEF RepliesInit, MembuffInit
<1>2. IsScript(script) /\ script # <<>> /\ script[1] \notin Closes
  BY <1>1, ScriptsAreReplies DEF IsReply
<1>3. CellsAreSound(mb_data) /\ NoNul(mb_data, len)
  BY <1>1 DEF CellsAreSound, NoNul, len
<1> QED  BY <1>1, <1>2, <1>3, RepliesInvParts DEF ReplyTerminated, ReadyToSend

(* Each call keeps the invariant, and so does each try of a print.       *)
LEMMA RepliesInvStep == RepliesInv /\ [RepliesNext]_repliesVars => RepliesInv'
<1> SUFFICES ASSUME RepliesInv, [RepliesNext]_repliesVars PROVE RepliesInv'
  OBVIOUS
<1>0. CellsAreSound(mb_data) /\ IsScript(script) /\ Len(mb_data) \in Nat
  BY RepliesInvParts, LenProperties DEF CellsAreSound
<1>1. ASSUME Calls("printf"), Goes, \E t \in Texts : t[Len(t)] = script[1].last /\ PrintBegins(t)
      PROVE  RepliesInv'
  BY <1>1, RepliesPrintf
<1>2. ASSUME Calls("addstr"), Goes, membuff_addstr(script[1].text) PROVE RepliesInv'
  <2>1. script # <<>> /\ script[1].op = "addstr" /\ script[1] \in AllOps
    BY <1>0, <1>2, RestFacts DEF Calls
  <2>2. script[1] \in Addstrs({<<"text", "comma">>, <<"close", "nul">>})
    BY <2>1, CallFacts
  <2>3. printing = <<>> /\ printing' = printing /\ mb_data' = mb_data \o script[1].text
    BY <1>2 DEF membuff_addstr
  <2> DEFINE t == script[1].text
  <2>4. script[1] \in Addstrs({t}) /\ t \in {<<"text", "comma">>, <<"close", "nul">>}
    BY <2>2 DEF Addstrs
  <2> HIDE DEF t
  <2> QED  BY <1>2, <2>1, <2>3, <2>4, RepliesAdds DEF t
<1>3. ASSUME Calls("addchar"), Goes, membuff_addchar(script[1].cell) PROVE RepliesInv'
  <2>1. script # <<>> /\ script[1].op = "addchar" /\ script[1] \in AllOps
    BY <1>0, <1>3, RestFacts DEF Calls
  <2>2. script[1] \in Addchars({"close", "nul"})
    BY <2>1, CallFacts
  <2>3. printing = <<>> /\ printing' = printing /\ mb_data' = Append(mb_data, script[1].cell)
    BY <1>3 DEF membuff_addchar
  <2> DEFINE c == script[1].cell
  <2>4. script[1] \in Addchars({c}) /\ c \in {"close", "nul"}
    BY <2>2 DEF Addchars
  <2> HIDE DEF c
  <2>5. mb_data' = mb_data \o <<c>>
    BY <1>0, <2>3, <2>4 DEF CellsAreSound, Cells, c
  <2> QED  BY <1>3, <2>1, <2>3, <2>4, <2>5, RepliesAdds
<1>4. ASSUME Calls("trim"), Goes, membuff_trim PROVE RepliesInv'
  <2>1. script # <<>> /\ script[1].op = "trim" /\ script[1] \in AllOps
    BY <1>0, <1>4, RestFacts DEF Calls
  <2>2. script[1] \in Drops
    BY <2>1, CallFacts
  <2>3. PICK n \in 0 .. Len(mb_data) :
          (n > 0 => mb_data[n] \notin Trimmed) /\ mb_data' = SubSeq(mb_data, 1, n)
    BY <1>4 DEF membuff_trim, len
  <2>4. printing = <<>> /\ printing' = printing /\ (n > 0 => mb_data[n] # "comma")
    BY <1>4, <2>3 DEF membuff_trim, Trimmed
  <2> QED  BY <1>4, <2>1, <2>2, <2>3, <2>4, RepliesDrops
<1>5. ASSUME Calls("comma"), Goes, DropComma PROVE RepliesInv'
  <2>1. script # <<>> /\ script[1].op = "comma" /\ script[1] \in AllOps
    BY <1>0, <1>5, RestFacts DEF Calls
  <2>2. script[1] \in Drops
    BY <2>1, CallFacts
  <2>3. printing = <<>> /\ printing' = printing /\ mb_data # <<>>
    BY <1>5 DEF DropComma
  <2> DEFINE m == Len(mb_data)
  <2>4. m \in Nat /\ m > 0
    BY <1>0, <2>3, EmptySeq DEF CellsAreSound
  <2>5. CASE mb_data[m] = "comma"
    <3>1. mb_data' = SubSeq(mb_data, 1, m - 1)
      BY <1>5, <2>5 DEF DropComma, len
    <3>2. m > 1 => mb_data[m - 1] # "comma"
      <4>1. m > 1 => m \in 2 .. Len(mb_data)
        BY <2>4
      <4> QED  BY <1>0, <2>5, <4>1 DEF CellsAreSound
    <3> HIDE DEF m
    <3>3. m - 1 \in 0 .. m /\ (m - 1 > 0 => m > 1)
      BY <2>4
    <3>4. m - 1 \in 0 .. Len(mb_data) /\ (m - 1 > 0 => mb_data[m - 1] # "comma")
      BY <3>2, <3>3 DEF m
    <3> QED  BY <1>5, <2>1, <2>2, <2>3, <3>1, <3>4, RepliesDrops
  <2>6. CASE mb_data[m] # "comma"
    <3>1. mb_data' = mb_data
      BY <1>5, <2>6 DEF DropComma, len
    <3>2. mb_data' = SubSeq(mb_data, 1, m)
      BY <1>0, <3>1 DEF CellsAreSound
    <3>3. m \in 0 .. Len(mb_data)
      BY <2>4
    <3> QED  BY <1>5, <2>1, <2>2, <2>3, <2>6, <3>2, <3>3, RepliesDrops
  <2> QED  BY <2>5, <2>6
<1>6. ASSUME NextReply PROVE RepliesInv'
  <2>1. /\ printing = <<>> /\ printing' = <<>> /\ mb_data' = <<>>
        /\ handler' \in DOMAIN Scripts /\ script' \in Scripts[handler']
    <3>1. /\ printing = <<>> /\ printing' = <<>> /\ mb_data' = <<>>
          /\ file \in {"userquery", "orderquery", "cardquery"}
          /\ handler' \in Handlers_in[file] /\ script' \in Scripts[handler']
      BY <1>6 DEF NextReply, membuff_clear
    <3>2. file \in DOMAIN Handlers_in
      BY <3>1 DEF Handlers_in
    <3> QED  BY <3>1, <3>2, HandlersKnown
  <2>2. IsScript(script') /\ script' # <<>> /\ script'[1] \notin Closes
    BY <2>1, ScriptsAreReplies DEF IsReply
  <2>3. CellsAreSound(mb_data') /\ NoNul(mb_data', Len(mb_data'))
    BY <2>1 DEF CellsAreSound, NoNul
  <2> QED  BY <2>1, <2>2, <2>3, RepliesInvNext
<1>7. ASSUME PrintGrows, UNCHANGED <<file, handler, script, level, percent, sent>> PROVE RepliesInv'
  BY <1>7 DEF PrintGrows, RepliesInv, CellsAreSound, ListsClosed, len, ReplyTerminated,
              ReadyToSend, NoNul
<1>8. ASSUME PrintEnds, UNCHANGED <<file, handler, script, level, percent, sent>> PROVE RepliesInv'
  BY <1>8, RepliesPrintEnds
<1>9. ASSUME UNCHANGED repliesVars \/ Send PROVE RepliesInv'
  BY <1>9 DEF repliesVars, Send, membuffVars, RepliesInv, CellsAreSound, ListsClosed, len,
              ReplyTerminated, ReadyToSend, NoNul
<1> QED  BY <1>1, <1>2, <1>3, <1>4, <1>5, <1>6, <1>7, <1>8, <1>9 DEF RepliesNext, Do

-----------------------------------------------------------------------------
(* The calls of s take a level of a to one of b.                           *)
Levels(s, a, b) ==
  \E lev \in [1 .. Len(s) + 1 -> Int] :
    lev[1] = a /\ lev[Len(s) + 1] = b /\ \A k \in 1 .. Len(s) : lev[k + 1] = lev[k] + s[k].opens

(* No call, and one.                                                       *)
LEMMA LevelOfOne ==
  /\ \A a \in Int : Levels(<<>>, a, a)
  /\ \A a, b \in Int : Levels(<<>>, a, b) => a = b
  /\ \A c : \A a \in Int : c.opens \in Int => Levels(<<c>>, a, a + c.opens)
<1>1. ASSUME NEW a \in Int PROVE Levels(<<>>, a, a)
  <2> DEFINE lev == [k \in 1 .. 0 + 1 |-> a]
  <2>1. Len(<<>>) = 0 /\ lev \in [1 .. 0 + 1 -> Int] /\ lev[1] = a /\ lev[0 + 1] = a
    OBVIOUS
  <2> HIDE DEF lev
  <2> QED  BY <2>1 DEF Levels
<1>2. ASSUME NEW a \in Int, NEW b \in Int, Levels(<<>>, a, b) PROVE a = b
  BY <1>2 DEF Levels
<1>3. ASSUME NEW a \in Int, NEW c, c.opens \in Int PROVE Levels(<<c>>, a, a + c.opens)
  <2> DEFINE lev == [k \in 1 .. 1 + 1 |-> IF k = 1 THEN a ELSE a + c.opens]
  <2>1. Len(<<c>>) = 1 /\ <<c>>[1] = c
    OBVIOUS
  <2>2. lev \in [1 .. 1 + 1 -> Int] /\ lev[1] = a /\ lev[1 + 1] = a + c.opens
    BY <1>3
  <2> HIDE DEF lev
  <2> QED  BY <2>1, <2>2 DEF Levels
<1> QED  BY <1>1, <1>2, <1>3

(* One sequence of calls behind another.                                   *)
LEMMA LevelsJoin ==
  ASSUME NEW S, NEW s \in Seq(S), NEW t \in Seq(S), NEW a, NEW b, NEW c,
         Levels(s, a, b), Levels(t, b, c)
  PROVE  Levels(s \o t, a, c)
<1> DEFINE n == Len(s)
           m == Len(t)
<1>1. n \in Nat /\ m \in Nat
  BY LenProperties
<1>2. PICK f \in [1 .. n + 1 -> Int] :
        f[1] = a /\ f[n + 1] = b /\ \A k \in 1 .. n : f[k + 1] = f[k] + s[k].opens
  BY DEF Levels
<1>3. PICK g \in [1 .. m + 1 -> Int] :
        g[1] = b /\ g[m + 1] = c /\ \A k \in 1 .. m : g[k + 1] = g[k] + t[k].opens
  BY DEF Levels
<1>4. /\ Len(s \o t) = n + m
      /\ \A k \in 1 .. n + m : (s \o t)[k] = IF k <= n THEN s[k] ELSE t[k - n]
  BY ConcatProperties
<1> DEFINE st == s \o t
           h == [k \in 1 .. (n + m) + 1 |-> IF k <= n + 1 THEN f[k] ELSE g[k - n]]
<1> HIDE DEF n, m, st
<1>5. h \in [1 .. (n + m) + 1 -> Int]
  <2> SUFFICES ASSUME NEW k \in 1 .. (n + m) + 1
               PROVE  (IF k <= n + 1 THEN f[k] ELSE g[k - n]) \in Int
    OBVIOUS
  <2>1. k <= n + 1 => k \in 1 .. n + 1
    BY <1>1
  <2>2. ~ (k <= n + 1) => k - n \in 1 .. m + 1
    BY <1>1
  <2> QED  BY <1>2, <1>3, <2>1, <2>2
<1>6. h[1] = a /\ h[(n + m) + 1] = c
  <2>1. 1 \in 1 .. (n + m) + 1 /\ 1 <= n + 1 /\ (n + m) + 1 \in 1 .. (n + m) + 1
    BY <1>1
  <2>2. CASE m = 0
    <3>1. (n + m) + 1 = n + 1 /\ m + 1 = 1
      BY <1>1, <2>2
    <3> QED  BY <1>2, <1>3, <2>1, <3>1
  <2>3. CASE m # 0
    <3>1. ~ ((n + m) + 1 <= n + 1) /\ ((n + m) + 1) - n = m + 1
      BY <1>1, <2>3
    <3> QED  BY <1>2, <1>3, <2>1, <3>1
  <2> QED  BY <2>2, <2>3
<1>7. ASSUME NEW k \in 1 .. n + m PROVE h[k + 1] = h[k] + st[k].opens
  <2>1. k \in 1 .. (n + m) + 1 /\ k + 1 \in 1 .. (n + m) + 1
    BY <1>1
  <2>2. CASE k <= n
    <3>1. k <= n + 1 /\ k + 1 <= n + 1 /\ k \in 1 .. n
      BY <1>1, <2>2
    <3> QED  BY <1>2, <1>4, <2>1, <2>2, <3>1 DEF st
  <2>3. CASE k = n + 1
    <3>1. k <= n + 1 /\ ~ (k + 1 <= n + 1) /\ ~ (k <= n) /\ (k + 1) - n = 1 + 1 /\ k - n = 1 /\ 1 \in 1 .. m
      BY <1>1, <2>3
    <3>2. h[k] = g[1] /\ h[k + 1] = g[1 + 1] /\ st[k] = t[1]
      BY <1>2, <1>3, <1>4, <2>1, <2>3, <3>1 DEF st
    <3> QED  BY <1>3, <3>1, <3>2
  <2>4. CASE k > n + 1
    <3>1. /\ ~ (k <= n + 1) /\ ~ (k + 1 <= n + 1) /\ ~ (k <= n) /\ (k + 1) - n = (k - n) + 1
          /\ k - n \in 1 .. m
      BY <1>1, <2>4
    <3>2. h[k] = g[k - n] /\ h[k + 1] = g[(k - n) + 1] /\ st[k] = t[k - n]
      BY <1>4, <2>1, <3>1 DEF st
    <3> QED  BY <1>3, <3>1, <3>2
  <2>5. k <= n \/ k = n + 1 \/ k > n + 1
    BY <1>1
  <2> QED  BY <2>2, <2>3, <2>4, <2>5
<1> HIDE DEF h
<1>8. Len(st) = n + m
  BY <1>4 DEF st
<1> QED  BY <1>5, <1>6, <1>7, <1>8 DEF Levels, st

(* What is left when a call has been made.                                 *)
LEMMA LevelsTail ==
  ASSUME NEW S, NEW s \in Seq(S), s # <<>>, NEW a, NEW b, Levels(s, a, b)
  PROVE  Levels(Tail(s), a + s[1].opens, b)
<1> DEFINE n == Len(s)
           r == Tail(s)
<1>1. n \in Nat /\ n >= 1
  BY LenProperties, EmptySeq
<1>2. Len(r) = n - 1 /\ \A k \in 1 .. n - 1 : r[k] = s[k + 1]
  BY HeadTailProperties
<1>3. PICK f \in [1 .. n + 1 -> Int] :
        f[1] = a /\ f[n + 1] = b /\ \A k \in 1 .. n : f[k + 1] = f[k] + s[k].opens
  BY DEF Levels
<1> DEFINE g == [k \in 1 .. (n - 1) + 1 |-> f[k + 1]]
<1> HIDE DEF n, r
<1>4. \A k \in 1 .. (n - 1) + 1 : k + 1 \in 1 .. n + 1
  BY <1>1
<1>5. g \in [1 .. (n - 1) + 1 -> Int]
  BY <1>3, <1>4
<1>6. g[1] = a + s[1].opens /\ g[(n - 1) + 1] = b
  <2>1. 1 \in 1 .. n /\ 1 \in 1 .. (n - 1) + 1 /\ (n - 1) + 1 \in 1 .. (n - 1) + 1 /\ (n - 1) + 1 = n
    BY <1>1
  <2> QED  BY <1>3, <2>1
<1>7. ASSUME NEW k \in 1 .. n - 1 PROVE g[k + 1] = g[k] + r[k].opens
  <2>1. k + 1 \in 1 .. n /\ k \in 1 .. (n - 1) + 1 /\ k + 1 \in 1 .. (n - 1) + 1
    BY <1>1
  <2> QED  BY <1>2, <1>3, <2>1
<1> HIDE DEF g
<1> QED  BY <1>2, <1>5, <1>6, <1>7 DEF Levels, r

(* Items that close what they open.                                        *)
LEMMA LevelsOfItems ==
  ASSUME NEW S, NEW item \in Seq(S), Len(item) \in {1, 3}, NEW a \in Int, Levels(item, a, a),
         NEW n \in Nat
  PROVE  Levels(Repeated(item, n), a, a)
<1>0. ASSUME NEW c \in {1, 3}, Len(item) = c PROVE Levels(Repeated(item, n), a, a)
  <2> DEFINE s == Repeated(item, n)
             at(k) == ((k - 1) % c) + 1
  <2>1. n * c \in Nat
    BY <1>0
  <2>2. Len(s) = n * c /\ \A k \in 1 .. n * c : s[k] = item[at(k)]
    <3>1. s \in [1 .. n * c -> {item[at(k)] : k \in 1 .. n * c}] /\ \A k \in 1 .. n * c : s[k] = item[at(k)]
      BY <1>0 DEF Repeated
    <3> HIDE DEF s
    <3> QED  BY <2>1, <3>1, LenOf
  <2>3. PICK f \in [1 .. c + 1 -> Int] :
          f[1] = a /\ f[c + 1] = a /\ \A k \in 1 .. c : f[k + 1] = f[k] + item[k].opens
    BY <1>0 DEF Levels
  <2> DEFINE m == n * c
             g == [k \in 1 .. m + 1 |-> f[at(k)]]
  <2>4. ASSUME NEW k \in Int
        PROVE  at(k) \in 1 .. c /\ (at(k + 1) = at(k) + 1 \/ (at(k) = c /\ at(k + 1) = 1))
    <3>1. CASE c = 1
      BY <3>1
    <3>2. CASE c = 3
      BY <3>2
    <3> QED  BY <3>1, <3>2
  <2>5. at(1) = 1 /\ at(m + 1) = 1
    <3>1. CASE c = 1
      BY <3>1
    <3>2. CASE c = 3
      BY <3>2
    <3> QED  BY <3>1, <3>2
  <2>6. c + 1 \in 1 .. c + 1 /\ \A j \in 1 .. c : j \in 1 .. c + 1
    OBVIOUS
  <2> HIDE DEF s, m, at
  <2>7. g \in [1 .. m + 1 -> Int]
    <3>1. \A k \in 1 .. m + 1 : at(k) \in 1 .. c + 1
      BY <2>4, <2>6
    <3> QED  BY <2>3, <3>1
  <2>8. g[1] = a /\ g[m + 1] = a
    <3>1. m \in Nat
      BY <2>1 DEF m
    <3>2. 1 \in 1 .. m + 1 /\ m + 1 \in 1 .. m + 1
      BY <3>1
    <3> QED  BY <2>3, <2>5, <3>2
  <2>9. ASSUME NEW k \in 1 .. m PROVE g[k + 1] = g[k] + s[k].opens
    <3>1. k \in Int /\ k \in 1 .. m + 1 /\ k + 1 \in 1 .. m + 1 /\ s[k] = item[at(k)]
      <4>1. m \in Nat
        BY <2>1 DEF m
      <4> QED  BY <2>2, <4>1 DEF m
    <3>2. g[k] = f[at(k)] /\ g[k + 1] = f[at(k + 1)]
      BY <3>1
    <3>3. f[at(k) + 1] = f[at(k)] + item[at(k)].opens
      BY <2>3, <2>4, <3>1
    <3>4. f[at(k + 1)] = f[at(k) + 1]
      BY <2>3, <2>4, <3>1
    <3> QED  BY <3>1, <3>2, <3>3, <3>4
  <2> HIDE DEF g
  <2>10. Len(s) = m
    BY <2>2 DEF m
  <2> QED  BY <2>7, <2>8, <2>9, <2>10 DEF Levels, s
<1> QED  BY <1>0

(* A list, from the beginning to the end.                                  *)
LEMMA LevelsOfList ==
  ASSUME NEW begin \in Seq(Adds), NEW item \in Seq(Adds), Len(item) \in {1, 3}, NEW end \in Seq(AllOps),
         NEW a \in Int, NEW b, Levels(begin, 0, a), Levels(item, a, a), Levels(end, a, b),
         NEW s \in List(begin, item, end)
  PROVE  Levels(s, 0, b)
<1>1. PICK n \in 0 .. MaxItems : s = begin \o Repeated(item, n) \o end
  BY DEF List, Items
<1>2. n \in Nat
  BY RepliesAssumption
<1> DEFINE items == Repeated(item, n)
<1>3. items \in Seq(Adds) /\ Levels(items, a, a)
  BY <1>2, RepeatedIs, LevelsOfItems
<1> HIDE DEF items
<1>4. begin \o items \in Seq(Adds) /\ Levels(begin \o items, 0, a)
  BY <1>3, LevelsJoin, ConcatProperties
<1>5. begin \o items \in Seq(AllOps)
  BY <1>4 DEF AllOps
<1>6. s = (begin \o items) \o end
  BY <1>1 DEF items
<1> QED  BY <1>4, <1>5, <1>6, LevelsJoin

(* Up to four calls.                                                       *)
LEMMA LevelsOfFew ==
  ASSUME NEW a \in Int, NEW b
  PROVE  /\ \A c \in AllOps : b = a + c.opens => Levels(<<c>>, a, b)
         /\ \A c, d \in AllOps : b = a + c.opens + d.opens => Levels(<<c, d>>, a, b)
         /\ \A c, d, e \in AllOps :
              b = a + c.opens + d.opens + e.opens => Levels(<<c, d, e>>, a, b)
         /\ \A c, d, e, f \in AllOps :
              b = a + c.opens + d.opens + e.opens + f.opens => Levels(<<c, d, e, f>>, a, b)
<1> SUFFICES ASSUME NEW c \in AllOps, NEW d \in AllOps, NEW e \in AllOps, NEW f \in AllOps
             PROVE  /\ Levels(<<c>>, a, a + c.opens)
                    /\ Levels(<<c, d>>, a, a + c.opens + d.opens)
                    /\ Levels(<<c, d, e>>, a, a + c.opens + d.opens + e.opens)
                    /\ Levels(<<c, d, e, f>>, a, a + c.opens + d.opens + e.opens + f.opens)
  BY Zenon
<1>0. c.opens \in Int /\ d.opens \in Int /\ e.opens \in Int /\ f.opens \in Int
  BY DEF AllOps, Adds, Drops, Closes, Ends, Prints, Addstrs, Addchars
<1>1. a + c.opens \in Int /\ Levels(<<c>>, a, a + c.opens)
  <2> DEFINE lev == [k \in 1 .. 1 + 1 |-> IF k = 1 THEN a ELSE a + c.opens]
             s == <<c>>
  <2>1. Len(s) = 1 /\ s[1] = c
    OBVIOUS
  <2> HIDE DEF s
  <2>2. lev \in [1 .. 1 + 1 -> Int] /\ lev[1] = a /\ lev[1 + 1] = a + c.opens
    BY <1>0
  <2>3. \A k \in 1 .. 1 : lev[k + 1] = lev[k] + s[k].opens
    <3> SUFFICES ASSUME NEW k \in 1 .. 1 PROVE lev[k + 1] = lev[k] + s[k].opens
      OBVIOUS
    <3> QED  BY <1>0, <2>1
  <2> HIDE DEF lev
  <2> QED  BY <1>0, <2>1, <2>2, <2>3 DEF Levels, s
<1>2. a + c.opens + d.opens \in Int /\ Levels(<<c, d>>, a, a + c.opens + d.opens)
  <2> DEFINE lev == [k \in 1 .. 2 + 1 |-> IF k = 1 THEN a ELSE IF k = 2 THEN a + c.opens ELSE a + c.opens + d.opens]
             s == <<c, d>>
  <2>1. Len(s) = 2 /\ s[1] = c /\ s[2] = d
    OBVIOUS
  <2> HIDE DEF s
  <2>2. lev \in [1 .. 2 + 1 -> Int] /\ lev[1] = a /\ lev[2 + 1] = a + c.opens + d.opens
    BY <1>0
  <2>3. \A k \in 1 .. 2 : lev[k + 1] = lev[k] + s[k].opens
    <3> SUFFICES ASSUME NEW k \in 1 .. 2 PROVE lev[k + 1] = lev[k] + s[k].opens
      OBVIOUS
    <3> QED  BY <1>0, <2>1
  <2> HIDE DEF lev
  <2> QED  BY <1>0, <2>1, <2>2, <2>3 DEF Levels, s
<1>3. a + c.opens + d.opens + e.opens \in Int /\ Levels(<<c, d, e>>, a, a + c.opens + d.opens + e.opens)
  <2> DEFINE lev == [k \in 1 .. 3 + 1 |-> IF k = 1 THEN a ELSE IF k = 2 THEN a + c.opens ELSE IF k = 3 THEN a + c.opens + d.opens ELSE a + c.opens + d.opens + e.opens]
             s == <<c, d, e>>
  <2>1. Len(s) = 3 /\ s[1] = c /\ s[2] = d /\ s[3] = e
    OBVIOUS
  <2> HIDE DEF s
  <2>2. lev \in [1 .. 3 + 1 -> Int] /\ lev[1] = a /\ lev[3 + 1] = a + c.opens + d.opens + e.opens
    BY <1>0
  <2>3. \A k \in 1 .. 3 : lev[k + 1] = lev[k] + s[k].opens
    <3> SUFFICES ASSUME NEW k \in 1 .. 3 PROVE lev[k + 1] = lev[k] + s[k].opens
      OBVIOUS
    <3> QED  BY <1>0, <2>1
  <2> HIDE DEF lev
  <2> QED  BY <1>0, <2>1, <2>2, <2>3 DEF Levels, s
<1>4. a + c.opens + d.opens + e.opens + f.opens \in Int /\ Levels(<<c, d, e, f>>, a, a + c.opens + d.opens + e.opens + f.opens)
  <2> DEFINE lev == [k \in 1 .. 4 + 1 |-> IF k = 1 THEN a ELSE IF k = 2 THEN a + c.opens ELSE IF k = 3 THEN a + c.opens + d.opens ELSE IF k = 4 THEN a + c.opens + d.opens + e.opens ELSE a + c.opens + d.opens + e.opens + f.opens]
             s == <<c, d, e, f>>
  <2>1. Len(s) = 4 /\ s[1] = c /\ s[2] = d /\ s[3] = e /\ s[4] = f
    OBVIOUS
  <2> HIDE DEF s
  <2>2. lev \in [1 .. 4 + 1 -> Int] /\ lev[1] = a /\ lev[4 + 1] = a + c.opens + d.opens + e.opens + f.opens
    BY <1>0
  <2>3. \A k \in 1 .. 4 : lev[k + 1] = lev[k] + s[k].opens
    <3> SUFFICES ASSUME NEW k \in 1 .. 4 PROVE lev[k + 1] = lev[k] + s[k].opens
      OBVIOUS
    <3> QED  BY <1>0, <2>1
  <2> HIDE DEF lev
  <2> QED  BY <1>0, <2>1, <2>2, <2>3 DEF Levels, s
<1> QED  BY <1>1, <1>2, <1>3, <1>4

(* Each call opens what it is told to.                                     *)
LEMMA OpensAre ==
  \A o \in Int :
    /\ \A x : Printf(x, o).opens = o /\ Printf_given(x, o).opens = o
    /\ \A x : Addstr(x, o).opens = o /\ Addchar(x, o).opens = o
    /\ Trim.opens = 0 /\ Comma.opens = 0
  BY DEF Printf, Printf_given, Formatted, Addstr, Addchar, Trim, Comma

(* The brackets at the end close what is open.                             *)
LEMMA LevelsClosed ==
  ASSUME NEW b \in Seq(AllOps), NEW x \in Int, NEW a \in Int, Levels(b, a, x)
  PROVE  Levels(b \o Closing(x), a, 0)
<1>1. -x \in Int /\ x + (-x) = 0
  OBVIOUS
<1> DEFINE c == Addstr(<<"close", "nul">>, -x)
<1>2. c \in AllOps /\ c.opens \in Int /\ 0 = x + c.opens
  BY <1>1, CallsAre, OpensAre DEF AllOps
<1> HIDE DEF c
<1>3. <<c>> \in Seq(AllOps) /\ Levels(<<c>>, x, 0)
  <2>0. \A d : \A y \in Int : d.opens \in Int => Levels(<<d>>, y, y + d.opens)
    BY LevelOfOne
  <2>1. Levels(<<c>>, x, x + c.opens)
    <3>1. c.opens \in Int
      BY <1>1, <1>2
    <3> QED  BY <2>0, <3>1
  <2>2. x + c.opens = 0
    BY <1>2
  <2> QED  BY <1>2, <2>1, <2>2
<1>4. Levels(b \o <<c>>, a, 0)
  BY <1>1, <1>3, LevelsJoin
<1> QED  BY <1>4 DEF Closing, c

(* Every handler's text is closed, but for the orders and the cards.       *)
LEMMA ScriptsAreBalanced ==
  ASSUME NEW h \in DOMAIN Scripts, NEW s \in Scripts[h]
  PROVE  Levels(s, 0, LeftOpen(h))
<1>1. /\ \A o \in {-1, 0, 1, 2} : o \in Int
      /\ 0 + 0 = 0 /\ 0 + 1 = 1 /\ 0 + 2 = 2 /\ 1 + 0 = 1 /\ 1 + 1 = 2 /\ 2 + 0 = 2
      /\ 1 + (-1) = 0 /\ 2 + (-1) = 1 /\ 2 + 1 = 3 /\ 3 + 0 = 3 /\ 3 + (-1) = 2
  OBVIOUS
<1> DEFINE p0 == Printf("text", 0)
           p1 == Printf("text", 1)
           p2 == Printf("text", 2)
           g0 == Printf_given("text", 0)
           g1 == Printf_given("text", 1)
           r0 == Printf("close", 0)
           w0 == Printf_given("close", 0)
           i0 == Printf_given("comma", 0)
           ib == Printf("comma", -1)
           sb == Addstr(<<"text", "comma">>, -1)
           cb == Addchar("close", -1)
           n0 == Addchar("nul", 0)
<1>2. /\ p0 \in Adds /\ p1 \in Adds /\ p2 \in Adds /\ g0 \in Adds /\ g1 \in Adds
      /\ r0 \in Adds /\ w0 \in Adds /\ i0 \in Adds /\ ib \in Adds /\ sb \in Adds
      /\ cb \in AllOps /\ n0 \in AllOps /\ Trim \in AllOps /\ Comma \in AllOps
  BY <1>1, CallsAre DEF AllOps
<1>3. /\ p0.opens = 0 /\ p1.opens = 1 /\ p2.opens = 2 /\ g0.opens = 0 /\ g1.opens = 1
      /\ r0.opens = 0 /\ w0.opens = 0 /\ i0.opens = 0 /\ ib.opens = -1 /\ sb.opens = -1
      /\ cb.opens = -1 /\ n0.opens = 0 /\ Trim.opens = 0 /\ Comma.opens = 0
  BY <1>1, OpensAre
<1>4. Adds \subseteq AllOps
  BY DEF AllOps
<1>5. h \in {"get_order", "card_rows"} \/ LeftOpen(h) = 0
  BY DEF LeftOpen
<1>6. /\ Answer = {<<r0>>} /\ user_score = {<<w0, n0>>} /\ user_backcard = {<<w0, n0>>}
      /\ user_help = {<<p1, g0>> \o Closing(1)} /\ user_about = {<<p1, p0>> \o Closing(1)}
      /\ card_help = {<<p1, g0>> \o Closing(1)} /\ user_analyscene = {<<g1, p1, g0>> \o Closing(2)}
      /\ route_help = {<<p1, g0, cb, n0>>} /\ db_save_orders = {<<w0>>}
      /\ user_scenestatus = List(<<p1, p1>>, <<p1, g0, sb>>, <<Comma>> \o Closing(2))
      /\ user_useract = List(<<p1, p1>>, <<i0>>, <<Comma>> \o Closing(2))
      /\ user_scenes = List(<<p1, p1>>, <<p1, g0, ib>>, <<Comma>> \o Closing(2))
      /\ get_order = List(<<p2>>, <<i0>>, <<Trim, cb, n0>>)
      /\ card_rows = List(<<p2>>, <<i0>>, <<Trim, n0>>)
      /\ db_save_values = List(<<i0>>, <<i0>>, <<Trim>> \o Closing(0))
  BY DEF Answer, user_score, user_backcard, user_help, user_about, card_help, user_analyscene,
         route_help, db_save_orders, user_scenestatus, user_useract, user_scenes, get_order,
         card_rows, db_save_values
<1>7. /\ <<p1, p1>> \in Seq(Adds) /\ <<p2>> \in Seq(Adds)
      /\ <<i0>> \in Seq(Adds) /\ Len(<<i0>>) = 1
      /\ <<p1, g0, sb>> \in Seq(Adds) /\ Len(<<p1, g0, sb>>) = 3
      /\ <<p1, g0, ib>> \in Seq(Adds) /\ Len(<<p1, g0, ib>>) = 3
  BY <1>2, Beginnings
<1>8. \A c, d, e \in AllOps : <<c>> \in Seq(AllOps) /\ <<c, d>> \in Seq(AllOps) /\ <<c, d, e>> \in Seq(AllOps)
  OBVIOUS
<1>9. \A n \in {0, 1, 2} : Closing(n) \in Seq(AllOps)
  <2>1. \A n \in {0, 1, 2} : n \in Int
    OBVIOUS
  <2> QED  BY <2>1, ClosingIs DEF IsScript
<1> HIDE DEF p0, p1, p2, g0, g1, r0, w0, i0, ib, sb, cb, n0
<1>10. s \in Answer \cup db_save_orders => Levels(s, 0, 0)
  <2>1. Levels(<<r0>>, 0, 0) /\ Levels(<<w0>>, 0, 0)
    BY <1>1, <1>2, <1>3, <1>4, LevelsOfFew
  <2> QED  BY <1>1, <1>6, <2>1
<1>11. s \in user_score \cup user_backcard => Levels(s, 0, 0)
  <2>1. Levels(<<w0, n0>>, 0, 0)
    BY <1>1, <1>2, <1>3, <1>4, LevelsOfFew
  <2> QED  BY <1>1, <1>6, <2>1
<1>12. s \in user_help \cup user_about \cup card_help => Levels(s, 0, 0)
  <2>1. Levels(<<p1, g0>>, 0, 1) /\ Levels(<<p1, p0>>, 0, 1)
    BY <1>1, <1>2, <1>3, <1>4, LevelsOfFew
  <2>2. <<p1, g0>> \in Seq(AllOps) /\ <<p1, p0>> \in Seq(AllOps)
    BY <1>2, <1>4, <1>8
  <2>3. Levels(<<p1, g0>> \o Closing(1), 0, 0) /\ Levels(<<p1, p0>> \o Closing(1), 0, 0)
    BY <1>1, <2>1, <2>2, LevelsClosed
  <2> QED  BY <1>6, <2>3
<1>13. s \in user_analyscene => Levels(s, 0, 0)
  <2>1. Levels(<<g1, p1, g0>>, 0, 2)
    BY <1>1, <1>2, <1>3, <1>4, LevelsOfFew
  <2>2. <<g1, p1, g0>> \in Seq(AllOps)
    BY <1>2, <1>4, <1>8
  <2>3. Levels(<<g1, p1, g0>> \o Closing(2), 0, 0)
    BY <1>1, <2>1, <2>2, LevelsClosed
  <2> QED  BY <1>6, <2>3
<1>14. s \in route_help => Levels(s, 0, 0)
  <2>1. Levels(<<p1, g0, cb, n0>>, 0, 0)
    BY <1>1, <1>2, <1>3, <1>4, LevelsOfFew
  <2> QED  BY <1>1, <1>6, <2>1
<1>15. /\ Levels(<<p1, p1>>, 0, 2) /\ Levels(<<p2>>, 0, 2) /\ Levels(<<i0>>, 0, 0) /\ Levels(<<i0>>, 2, 2)
       /\ Levels(<<p1, g0, sb>>, 2, 2) /\ Levels(<<p1, g0, ib>>, 2, 2)
  <2>1. Levels(<<p1, p1>>, 0, 2) /\ Levels(<<p2>>, 0, 2)
    BY <1>1, <1>2, <1>3, <1>4, LevelsOfFew
  <2>2. Levels(<<i0>>, 0, 0) /\ Levels(<<i0>>, 2, 2)
    BY <1>1, <1>2, <1>3, <1>4, LevelsOfFew
  <2>3. Levels(<<p1, g0, sb>>, 2, 2) /\ Levels(<<p1, g0, ib>>, 2, 2)
    BY <1>1, <1>2, <1>3, <1>4, LevelsOfFew
  <2> QED  BY <1>1, <2>1, <2>2, <2>3
<1>16. /\ <<Comma>> \o Closing(2) \in Seq(AllOps) /\ Levels(<<Comma>> \o Closing(2), 2, 0)
       /\ <<Trim>> \o Closing(0) \in Seq(AllOps) /\ Levels(<<Trim>> \o Closing(0), 0, 0)
  <2>1. <<Comma>> \in Seq(AllOps) /\ <<Trim>> \in Seq(AllOps)
    BY <1>2, <1>8
  <2>2. Levels(<<Comma>>, 2, 2) /\ Levels(<<Trim>>, 0, 0)
    BY <1>1, <1>2, <1>3, LevelsOfFew
  <2>3. Levels(<<Comma>> \o Closing(2), 2, 0) /\ Levels(<<Trim>> \o Closing(0), 0, 0)
    BY <1>1, <2>1, <2>2, LevelsClosed
  <2> QED  BY <1>9, <2>1, <2>3, ConcatProperties
<1>17. /\ <<Trim, cb, n0>> \in Seq(AllOps) /\ Levels(<<Trim, cb, n0>>, 2, 1)
       /\ <<Trim, n0>> \in Seq(AllOps) /\ Levels(<<Trim, n0>>, 2, 2)
  <2>1. Levels(<<Trim, cb, n0>>, 2, 1) /\ Levels(<<Trim, n0>>, 2, 2)
    BY <1>1, <1>2, <1>3, LevelsOfFew
  <2> QED  BY <1>1, <1>2, <1>8, <2>1
<1>18. s \in user_scenestatus \cup user_useract \cup user_scenes => Levels(s, 0, 0)
  <2> DEFINE begin == <<p1, p1>>
             end == <<Comma>> \o Closing(2)
             x1 == <<p1, g0, sb>>
             x2 == <<p1, g0, ib>>
             x3 == <<i0>>
  <2>1. /\ begin \in Seq(Adds) /\ Levels(begin, 0, 2) /\ end \in Seq(AllOps) /\ Levels(end, 2, 0)
        /\ x1 \in Seq(Adds) /\ Len(x1) \in {1, 3} /\ Levels(x1, 2, 2)
        /\ x2 \in Seq(Adds) /\ Len(x2) \in {1, 3} /\ Levels(x2, 2, 2)
        /\ x3 \in Seq(Adds) /\ Len(x3) \in {1, 3} /\ Levels(x3, 2, 2)
    BY <1>7, <1>15, <1>16
  <2>2. s \in List(begin, x1, end) \cup List(begin, x2, end) \cup List(begin, x3, end) => Levels(s, 0, 0)
    <3> HIDE DEF begin, end, x1, x2, x3
    <3> QED  BY <1>1, <2>1, LevelsOfList
  <2> QED  BY <1>6, <2>2
<1>19. s \in db_save_values => Levels(s, 0, 0)
  <2> DEFINE x == <<i0>>
             end == <<Trim>> \o Closing(0)
  <2>1. /\ x \in Seq(Adds) /\ Len(x) \in {1, 3} /\ Levels(x, 0, 0)
        /\ end \in Seq(AllOps) /\ Levels(end, 0, 0)
    BY <1>7, <1>15, <1>16
  <2>2. s \in List(x, x, end) => Levels(s, 0, 0)
    <3> HIDE DEF x, end
    <3> QED  BY <1>1, <2>1, LevelsOfList
  <2> QED  BY <1>6, <2>2
<1>20. (s \in get_order => Levels(s, 0, 1)) /\ (s \in card_rows => Levels(s, 0, 2))
  <2> DEFINE begin == <<p2>>
             x == <<i0>>
             e1 == <<Trim, cb, n0>>
             e2 == <<Trim, n0>>
  <2>1. /\ begin \in Seq(Adds) /\ Levels(begin, 0, 2)
        /\ x \in Seq(Adds) /\ Len(x) \in {1, 3} /\ Levels(x, 2, 2)
        /\ e1 \in Seq(AllOps) /\ Levels(e1, 2, 1) /\ e2 \in Seq(AllOps) /\ Levels(e2, 2, 2)
    BY <1>7, <1>15, <1>17
  <2>2. (s \in List(begin, x, e1) => Levels(s, 0, 1)) /\ (s \in List(begin, x, e2) => Levels(s, 0, 2))
    <3> HIDE DEF begin, x, e1, e2
    <3> QED  BY <1>1, <2>1, LevelsOfList
  <2> QED  BY <1>6, <2>2
<1>21. CASE h = "get_order"
  BY <1>20, <1>21 DEF LeftOpen, Scripts
<1>22. CASE h = "card_rows"
  BY <1>20, <1>22 DEF LeftOpen, Scripts
<1>23. CASE h \notin {"get_order", "card_rows"}
  <2>1. LeftOpen(h) = 0
    BY <1>5, <1>23
  <2>2. s \in (Answer \cup db_save_orders) \cup (user_score \cup user_backcard)
          \cup (user_help \cup user_about \cup card_help) \cup user_analyscene \cup route_help
          \cup (user_scenestatus \cup user_useract \cup user_scenes) \cup db_save_values
    BY <1>23 DEF Scripts
  <2> QED  BY <1>10, <1>11, <1>12, <1>13, <1>14, <1>18, <1>19, <2>1, <2>2
<1> QED  BY <1>21, <1>22, <1>23

(* The calls that are left take what is open to what the reply leaves so.  *)
BracketsInv ==
  script \in Seq(AllOps) /\ Levels(script, level, LeftOpen(handler))

(* The brackets of the first reply, and of the next.                       *)
LEMMA BracketsBegin == RepliesInit => BracketsInv
<1> SUFFICES ASSUME RepliesInit PROVE BracketsInv
  OBVIOUS
<1>1. level = 0 /\ handler \in DOMAIN Scripts /\ script \in Scripts[handler]
  BY HandlersKnown DEF RepliesInit
<1> QED  BY <1>1, ScriptsAreReplies, ScriptsAreBalanced DEF BracketsInv, IsReply, IsScript

(* Each call opens and closes what is counted for it.                      *)
LEMMA BracketsStep == BracketsInv /\ [RepliesNext]_repliesVars => BracketsInv'
<1> SUFFICES ASSUME BracketsInv, [RepliesNext]_repliesVars PROVE BracketsInv'
  OBVIOUS
<1>1. CASE script # <<>> /\ Goes
  <2>1. /\ script' = Tail(script) /\ level' = level + script[1].opens /\ handler' = handler
        /\ script \in Seq(AllOps) /\ Levels(script, level, LeftOpen(handler))
    BY <1>1 DEF Goes, BracketsInv
  <2>2. Levels(script', level', LeftOpen(handler))
    BY <1>1, <2>1, LevelsTail
  <2>3. script' \in Seq(AllOps)
    BY <1>1, <2>1, HeadTailProperties
  <2> QED  BY <2>1, <2>2, <2>3 DEF BracketsInv
<1>2. CASE NextReply
  <2>1. level' = 0 /\ handler' \in DOMAIN Scripts /\ script' \in Scripts[handler']
    <3>1. file \in DOMAIN Handlers_in
      BY <1>2 DEF NextReply, Handlers_in
    <3> QED  BY <1>2, <3>1, HandlersKnown DEF NextReply
  <2> QED  BY <2>1, ScriptsAreReplies, ScriptsAreBalanced DEF BracketsInv, IsReply, IsScript
<1>3. CASE UNCHANGED <<script, level, handler>>
  BY <1>3 DEF BracketsInv
<1> QED  BY <1>1, <1>2, <1>3 DEF RepliesNext, Do, Calls, Send, repliesVars

(* When no call is left, what is open is what the handler leaves so.       *)
LEMMA BracketsAtTheEnd == BracketsInv => BracketsClosed
<1> SUFFICES ASSUME BracketsInv, script = <<>> PROVE level = LeftOpen(handler)
  BY DEF BracketsClosed, ReadyToSend
<1> QED  BY DEF BracketsInv, Levels

-----------------------------------------------------------------------------
(* Where a percent sign may come into a text, and where it may not.        *)
OwnWords == {"Answer", "user_about"}
PercentInv ==
  /\ file \in DOMAIN Handlers_in /\ handler \in Handlers_in[file]
  /\ script \in Seq(AllOps)
  /\ handler \in OwnWords =>
       ~ percent /\ \A k \in 1 .. Len(script) : script[k].op = "printf" => ~ script[k].given
  /\ sent \in {"other", "down"} => percent /\ file # "dbaccess"

(* The handlers' own words have no percent sign.                           *)
LEMMA OwnWordsHaveNone ==
  ASSUME NEW h \in OwnWords, NEW s \in Scripts[h]
  PROVE  \A k \in 1 .. Len(s) : s[k].op = "printf" => ~ s[k].given
<1>1. CASE h = "Answer"
  <2>1. s = <<Printf("close", 0)>>
    BY <1>1 DEF Scripts, Answer
  <2>2. Len(s) = 1 /\ s[1] = Printf("close", 0)
    BY <2>1
  <2> QED  BY <2>2 DEF Printf, Formatted
<1>2. CASE h = "user_about"
  <2> DEFINE c == Addstr(<<"close", "nul">>, -1)
  <2>1. s = <<Printf("text", 1), Printf("text", 0)>> \o <<c>>
    BY <1>2 DEF Scripts, user_about, Closing
  <2>2. s = <<Printf("text", 1), Printf("text", 0), c>>
    BY <2>1, Join21
  <2>3. Len(s) = 3 /\ s[1] = Printf("text", 1) /\ s[2] = Printf("text", 0) /\ s[3] = c
    BY <2>2
  <2> QED  BY <2>3 DEF Printf, Formatted, Addstr
<1> QED  BY <1>1, <1>2 DEF OwnWords

(* No percent sign at the beginning.                                       *)
LEMMA PercentBegin == RepliesInit => PercentInv
<1> SUFFICES ASSUME RepliesInit PROVE PercentInv
  OBVIOUS
<1>1. /\ file \in DOMAIN Handlers_in /\ handler \in Handlers_in[file] /\ handler \in DOMAIN Scripts
      /\ script \in Scripts[handler] /\ percent = FALSE /\ sent = "no"
  BY HandlersKnown DEF RepliesInit
<1> QED  BY <1>1, ScriptsAreReplies, OwnWordsHaveNone DEF PercentInv, IsReply, IsScript

(* A percent sign comes with a print of what is given, and does harm when  *)
(* a reply is sent.                                                        *)
LEMMA PercentStep == PercentInv /\ [RepliesNext]_repliesVars => PercentInv'
<1> SUFFICES ASSUME PercentInv, [RepliesNext]_repliesVars PROVE PercentInv'
  OBVIOUS
<1>0. /\ file \in DOMAIN Handlers_in /\ handler \in Handlers_in[file] /\ script \in Seq(AllOps)
      /\ handler \in OwnWords =>
           ~ percent /\ \A k \in 1 .. Len(script) : script[k].op = "printf" => ~ script[k].given
      /\ sent \in {"other", "down"} => percent /\ file # "dbaccess"
  BY DEF PercentInv
<1>1. CASE script # <<>> /\ Goes /\ percent' \in (IF script[1].op = "printf" /\ script[1].given THEN {percent, TRUE} ELSE {percent})
  <2> DEFINE n == Len(script)
             r == Tail(script)
  <2>1. n \in Nat /\ n >= 1
    BY <1>0, <1>1, LenProperties, EmptySeq
  <2>2. r \in Seq(AllOps) /\ Len(r) = n - 1 /\ \A k \in 1 .. n - 1 : r[k] = script[k + 1]
    BY <1>0, <1>1, HeadTailProperties
  <2>3. script' = r /\ UNCHANGED <<file, handler, sent>>
    BY <1>1 DEF Goes
  <2>4. handler \in OwnWords => ~ percent'
    <3>1. handler \in OwnWords => (script[1].op = "printf" => ~ script[1].given)
      BY <1>0, <2>1
    <3> QED  BY <1>0, <1>1, <3>1
  <2>5. ASSUME handler \in OwnWords, NEW k \in 1 .. Len(r), r[k].op = "printf" PROVE ~ r[k].given
    <3>1. k \in 1 .. n - 1 /\ k + 1 \in 1 .. Len(script)
      BY <2>1, <2>2
    <3> QED  BY <1>0, <2>2, <2>5, <3>1
  <2>6. percent => percent'
    BY <1>1
  <2> HIDE DEF r, n
  <2> QED  BY <1>0, <2>2, <2>3, <2>4, <2>5, <2>6 DEF PercentInv
<1>2. CASE Send
  <2>1. UNCHANGED <<file, handler, script, percent>>
    BY <1>2 DEF Send
  <2>2. sent' \in {"other", "down"} => percent /\ file # "dbaccess"
    BY <1>2 DEF Send
  <2> QED  BY <1>0, <2>1, <2>2 DEF PercentInv
<1>3. CASE NextReply
  <2>1. /\ file \in DOMAIN Handlers_in /\ file' = file /\ handler' \in Handlers_in[file]
        /\ script' \in Scripts[handler'] /\ percent' = FALSE /\ sent' = "no"
    BY <1>0, <1>3 DEF NextReply
  <2>2. handler' \in DOMAIN Scripts
    BY <2>1, HandlersKnown
  <2>3. script' \in Seq(AllOps)
    BY <2>1, <2>2, ScriptsAreReplies DEF IsReply, IsScript
  <2>4. handler' \in OwnWords =>
          \A k \in 1 .. Len(script') : script'[k].op = "printf" => ~ script'[k].given
    BY <2>1, OwnWordsHaveNone
  <2> QED  BY <2>1, <2>3, <2>4 DEF PercentInv
<1>4. CASE UNCHANGED <<file, handler, script, percent, sent>>
  BY <1>4 DEF PercentInv
<1>5. ASSUME Do PROVE script # <<>> /\ Goes /\ percent' \in (IF script[1].op = "printf" /\ script[1].given THEN {percent, TRUE} ELSE {percent})
  <2>1. CASE Calls("printf") /\ Goes /\ percent' \in (IF script[1].given THEN {percent, TRUE} ELSE {percent})
    BY <2>1 DEF Calls
  <2>2. CASE UNCHANGED percent /\ script # <<>> /\ Goes
    BY <2>2
  <2> QED  BY <1>5, <2>1, <2>2 DEF Do, Calls
<1> QED  BY <1>1, <1>2, <1>3, <1>4, <1>5 DEF RepliesNext, repliesVars

(* What becomes of a percent sign.                                         *)
LEMMA PercentHarm == PercentInv => SentAsBuilt
<1> SUFFICES ASSUME PercentInv, sent \in {"other", "down"}
             PROVE  percent /\ handler \notin {"Answer", "user_about", "db_save_values", "db_save_orders"}
  BY DEF SentAsBuilt
<1>1. percent /\ file # "dbaccess" /\ file \in DOMAIN Handlers_in /\ handler \in Handlers_in[file]
  BY DEF PercentInv
<1>2. handler \notin {"Answer", "user_about"}
  BY <1>1 DEF PercentInv, OwnWords
<1>3. handler \notin {"db_save_values", "db_save_orders"}
  BY <1>1 DEF Handlers_in
<1> QED  BY <1>1, <1>2, <1>3

(* What the handlers put together, whatever is in the buffer from before:  *)
(* all of it is read and nothing behind it, with no comma before a         *)
(* bracket; what is opened is closed, but for the lists of orders and of   *)
(* cards; and where the client gets something else there was a percent     *)
(* sign from outside in the reply.                                         *)
THEOREM RepliesAreWhole == RepliesSpec => []ReplyIsWhole
<1>1. RepliesInit => RepliesInv /\ BracketsInv /\ PercentInv
  BY RepliesInvInit, BracketsBegin, PercentBegin
<1>2. RepliesInv /\ BracketsInv /\ PercentInv /\ [RepliesNext]_repliesVars
        => (RepliesInv /\ BracketsInv /\ PercentInv)'
  BY RepliesInvStep, BracketsStep, PercentStep
<1>3. RepliesInv /\ BracketsInv /\ PercentInv => ReplyIsWhole
  BY BracketsAtTheEnd, PercentHarm DEF RepliesInv, ReplyIsWhole
<1> QED  BY <1>1, <1>2, <1>3, PTL DEF RepliesSpec

-----------------------------------------------------------------------------
(* Whichever handler of scores, orders or lists runs, with whatever rows,  *)
(* bodies and failures: what is left of a request is what the code names   *)
(* nowhere again, and nothing is freed twice but for a score row that      *)
(* lacks a text.                                                           *)
THEOREM OnlyThisIsEverLeft ==
  ScoresSpec /\ OrdersSpec /\ SceneListsSpec /\ ScoreRangesSpec => []OnlyThisIsLeft
<1>1. StringsFreedOnce /\ HandlersFree /\ ListsLeft /\ RangesLeft => OnlyThisIsLeft
  BY DEF OnlyThisIsLeft
<1> QED  BY <1>1, StringsOnce, HandlersHoldNothing, SceneListsAreFreed, RangesAreFreed, PTL

(* For any rows, in any number: the replies of scenes and of statuses have *)
(* every row, a suggestion is the one of the range that the score is in,   *)
(* and the statistics are those of the scene.                              *)
THEOREM RowsAlwaysUsed ==
  SceneListsSpec /\ ScoreRangesSpec /\ SceneStatisticsSpec => []RowsAreUsed
<1>1. RepliesWithEveryRow /\ SuggestionHoldsTheScore /\ StatisticsAreWhole => RowsAreUsed
  BY DEF RowsAreUsed
<1> QED  BY <1>1, EveryRowReplied, SuggestionsHold, StatisticsStayWhole, PTL
=============================================================================
