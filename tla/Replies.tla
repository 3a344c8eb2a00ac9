------------------------------ MODULE Replies ------------------------------
(***************************************************************************)
(* How the handlers put a reply together.  Each source file has one buffer *)
(* for all its replies (g_membuffer), which is cleared for each of them    *)
(* and never shrinks; http_response_error and the db_save_* functions make *)
(* a buffer of their own.  A handler is the sequence of its calls on the   *)
(* buffer; then the buffer is the format of evbuffer_add_printf, or a      *)
(* statement, and either reads it from the first cell to the first NUL.    *)
(***************************************************************************)
EXTENDS Membuff

CONSTANT MaxItems    \* bound: items of a list in a reply

(* A format prints no NUL; where it ends with the comma of an item or with *)
(* the closing bracket, there is text before that.                         *)
ASSUME RepliesAssumption ==
  /\ MaxItems \in Nat
  /\ \A t \in Texts :
       /\ \A k \in 1 .. Len(t) - 1 : t[k] = "text"
       /\ t[Len(t)] = "text" \/ (t[Len(t)] \in {"comma", "close"} /\ Len(t) > 1)

VARIABLES
  file,      \* whose buffer it is
  handler,   \* which of the file's texts is put together
  script,    \* the calls that are left; <<>> when the reply can be sent
  level,     \* how many brackets of the text are open
  percent,   \* is there a percent sign in the text?
  sent       \* "no", "yes"; "other" when the client has got another text, "down" when
             \* the program has crashed on it

repliesVars == <<membuffVars, file, handler, script, level, percent, sent>>

-----------------------------------------------------------------------------
(* A call, with the brackets that it opens less those that it closes.  A   *)
(* print has words of the handler alone, Printf, or also what comes from   *)
(* the request, the database or the help file, Printf_given, where a       *)
(* percent sign may be; each of these opens as much as it closes.          *)
Formatted(last, opens, given) == [op |-> "printf", last |-> last, opens |-> opens, given |-> given]
Printf(last, opens) == Formatted(last, opens, FALSE)
Printf_given(last, opens) == Formatted(last, opens, TRUE)
Addstr(text, opens) == [op |-> "addstr", text |-> text, opens |-> opens]
Addchar(c, opens) == [op |-> "addchar", cell |-> c, opens |-> opens]
Trim == [op |-> "trim", opens |-> 0]
Comma == [op |-> "comma", opens |-> 0]

(* sizeof("]}"), unlike strlen("},"), counts the NUL of the literal.       *)
Closing(n) == <<Addstr(<<"close", "nul">>, -n)>>

Repeated(item, n) == [k \in 1 .. n * Len(item) |-> item[((k - 1) % Len(item)) + 1]]
Items(item) == {Repeated(item, n) : n \in 0 .. MaxItems}

List(begin, item, end) == {begin \o items \o end : items \in Items(item)}

Answer == {<<Printf("close", 0)>>}

user_score == {<<Printf_given("close", 0), Addchar("nul", 0)>>}
user_backcard == {<<Printf_given("close", 0), Addchar("nul", 0)>>}
user_help == {<<Printf("text", 1), Printf_given("text", 0)>> \o Closing(1)}
user_about == {<<Printf("text", 1), Printf("text", 0)>> \o Closing(1)}
user_analyscene ==
  {<<Printf_given("text", 1), Printf("text", 1), Printf_given("text", 0)>> \o Closing(2)}
user_scenestatus ==
  List(<<Printf("text", 1), Printf("text", 1)>>,
       <<Printf("text", 1), Printf_given("text", 0), Addstr(<<"text", "comma">>, -1)>>,
       <<Comma>> \o Closing(2))
user_useract ==
  List(<<Printf("text", 1), Printf("text", 1)>>, <<Printf_given("comma", 0)>>,
       <<Comma>> \o Closing(2))
user_scenes ==
  List(<<Printf("text", 1), Printf("text", 1)>>,
       <<Printf("text", 1), Printf_given("text", 0), Printf("comma", -1)>>,
       <<Comma>> \o Closing(2))

route_help ==
  {<<Printf("text", 1), Printf_given("text", 0), Addchar("close", -1), Addchar("nul", 0)>>}

(* get_unsettled_order and get_settled_order, when the query succeeds: the *)
(* list is closed, the object around it is not.                            *)
get_order ==
  List(<<Printf("text", 2)>>, <<Printf_given("comma", 0)>>,
       <<Trim, Addchar("close", -1), Addchar("nul", 0)>>)

(* The answer of card_get closes neither the list nor the object.          *)
card_rows ==
  List(<<Printf("text", 2)>>, <<Printf_given("comma", 0)>>, <<Trim, Addchar("nul", 0)>>)
card_help == {<<Printf("text", 1), Printf_given("text", 0)>> \o Closing(1)}

(* The values of an INSERT, of which there is at least one, with a         *)
(* semicolon where a reply has its bracket; and the INSERT.                *)
db_save_values ==
  List(<<Printf_given("comma", 0)>>, <<Printf_given("comma", 0)>>, <<Trim>> \o Closing(0))
db_save_orders == {<<Printf_given("close", 0)>>}

Scripts ==
  [Answer |-> Answer,
   user_score |-> user_score, user_backcard |-> user_backcard, user_help |-> user_help,
   user_about |-> user_about, user_analyscene |-> user_analyscene,
   user_scenestatus |-> user_scenestatus, user_useract |-> user_useract,
   user_scenes |-> user_scenes,
   route_help |-> route_help, get_order |-> get_order,
   card_rows |-> card_rows, card_help |-> card_help,
   db_save_values |-> db_save_values, db_save_orders |-> db_save_orders]

Handlers_in ==
  [userquery |-> {"user_score", "user_backcard", "user_help", "user_about", "user_analyscene",
                  "user_scenestatus", "user_useract", "user_scenes"},
   orderquery |-> {"Answer", "route_help", "get_order"},
   cardquery |-> {"Answer", "route_help", "card_rows", "card_help"},
   httpquery_helper |-> {"Answer"},
   dbaccess |-> {"db_save_values", "db_save_orders"}]

-----------------------------------------------------------------------------
RepliesInit ==
  /\ MembuffInit
  /\ file \in DOMAIN Handlers_in
  /\ handler \in Handlers_in[file]
  /\ script \in Scripts[handler]
  /\ level = 0 /\ percent = FALSE /\ sent = "no"

ReadyToSend == script = <<>> /\ printing = <<>>

(* evbuffer_add_printf(buf, data) takes a percent sign and what is behind  *)
(* it for a conversion, and there is nothing to convert.  A statement is   *)
(* no format.                                                              *)
Send ==
  /\ ReadyToSend /\ sent = "no"
  /\ sent' \in (IF percent /\ file # "dbaccess" THEN {"other", "down"} ELSE {"yes"})
  /\ UNCHANGED <<membuffVars, file, handler, script, level, percent>>

(* The next reply begins with _assure_clearbuff.  The buffers that are     *)
(* made for one text are not used again.                                   *)
NextReply ==
  /\ sent \in {"yes", "other"}
  /\ file \in {"userquery", "orderquery", "cardquery"}
  /\ membuff_clear
  /\ handler' \in Handlers_in[file]
  /\ script' \in Scripts[handler']
  /\ level' = 0 /\ percent' = FALSE /\ sent' = "no"
  /\ UNCHANGED file

Calls(op) == script # <<>> /\ script[1].op = op
Goes ==
  /\ script' = Tail(script)
  /\ level' = level + script[1].opens
  /\ UNCHANGED <<file, handler, sent>>

Do ==
  \/ /\ Calls("printf") /\ Goes
     /\ \E t \in Texts : t[Len(t)] = script[1].last /\ PrintBegins(t)
     /\ percent' \in (IF script[1].given THEN {percent, TRUE} ELSE {percent})
  \/ /\ UNCHANGED percent
     /\ \/ Calls("addstr") /\ Goes /\ membuff_addstr(script[1].text)
        \/ Calls("addchar") /\ Goes /\ membuff_addchar(script[1].cell)
        \/ Calls("trim") /\ Goes /\ membuff_trim
        \/ Calls("comma") /\ Goes /\ DropComma

RepliesNext ==
  \/ Do \/ Send \/ NextReply
  \/ /\ PrintGrows \/ PrintEnds
     /\ UNCHANGED <<file, handler, script, level, percent, sent>>

RepliesSpec == RepliesInit /\ [][RepliesNext]_repliesVars

-----------------------------------------------------------------------------
(* What is read is all that was put together and nothing behind it: there  *)
(* is a NUL at the end, from a sizeof, a '\0' or a print, and none before; *)
(* the buffer of an earlier, longer reply shows nowhere.                   *)
ReplyTerminated ==
  ReadyToSend =>
    /\ mb_after = "nul" \/ mb_data[len] = "nul"
    /\ \A k \in 1 .. len - 1 : mb_data[k] # "nul"

(* The comma behind the last item of a list is taken back before the list  *)
(* is closed, whichever way a handler does it.                             *)
ListsClosed ==
  \A k \in 2 .. len : mb_data[k] = "close" => mb_data[k - 1] # "comma"

(* Each reply closes what it opens, however many items it has, but for two *)
(* that are no JSON therefore: the orders lack a bracket, the cards two.   *)
LeftOpen(h) == CASE h = "get_order" -> 1 [] h = "card_rows" -> 2 [] OTHER -> 0
BracketsClosed == ReadyToSend => level = LeftOpen(handler)

(* What was put together is what the client gets, unless a percent sign    *)
(* came into it from outside: a percent sign of an earlier reply, or in a  *)
(* statement, does no harm, and the replies of the handlers' own words     *)
(* have none.                                                              *)
SentAsBuilt ==
  sent \in {"other", "down"} =>
    percent /\ handler \notin {"Answer", "user_about", "db_save_values", "db_save_orders"}

(* The text that a handler puts together goes out complete, with nothing   *)
(* of an older one behind it and no comma before its brackets, closed but  *)
(* for the lists of orders and of cards, and as it is but for replies with *)
(* a percent sign from outside.                                            *)
ReplyIsWhole == ReplyTerminated /\ ListsClosed /\ BracketsClosed /\ SentAsBuilt
=============================================================================
