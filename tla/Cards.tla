------------------------------- MODULE Cards -------------------------------
(***************************************************************************)
(* The handlers of cardquery.c and the functions of dbaccess.c that they   *)
(* call: add, delete, change and query the cards of tbCard.  No router of  *)
(* router_setup has them; a step here is one call of a handler, with one   *)
(* statement in it.                                                        *)
(***************************************************************************)
EXTENDS Integers

CONSTANTS
  Ids, Sns,    \* the card ids and serial numbers
  Numerals,    \* those of them that SQL reads without quotes
  CardRows,    \* the rows of tbCard at first, by their numbers
  MaxCards     \* bound: rows

ASSUME CardsAssumption ==
  /\ Numerals \subseteq Ids \cup Sns
  /\ \A k \in DOMAIN CardRows : CardRows[k] \in [cardid : Ids, cardsn : Sns]
  /\ MaxCards \in Nat /\ DOMAIN CardRows \subseteq 1 .. MaxCards

(* A parameter may be missing (NULL) or empty.                             *)
Params(S) == S \cup {"", "NULL"}

VARIABLES
  ca_table,    \* the rows of tbCard, each under a number that it keeps
  ca_call,     \* history: the last call: the handler and its parameters
  ca_reply     \* what it answered

cardsVars == <<ca_table, ca_call, ca_reply>>

NoCall == [handler |-> "none", cardid |-> "NULL", cardsn |-> "NULL", direction |-> "NULL"]

CardsInit ==
  /\ ca_table = CardRows
  /\ ca_call = NoCall
  /\ ca_reply = "none"

-----------------------------------------------------------------------------
(* The values have no quotes: an empty one leaves a hole in the statement. *)
Readable(value) == value \in Numerals

(* A statement is run and answered by "success", or fails: for want of a   *)
(* session, as wrong SQL, or by a broken connection, which may hide that   *)
(* it was run.                                                             *)
Run(readable, rows) ==
  \/ readable /\ ca_table' = rows /\ ca_reply' = "success"
  \/ readable /\ ca_table' = rows /\ ca_reply' = "failed"
  \/ UNCHANGED ca_table /\ ca_reply' = "failed"

Refuse == UNCHANGED ca_table /\ ca_reply' \in {"error"}

Free == (1 .. MaxCards) \ DOMAIN ca_table

card_add(cardid, cardsn) ==
  IF cardid \in {"NULL", ""}
  THEN Refuse
  ELSE /\ Free # {}
       /\ LET new == CHOOSE k \in Free : TRUE
          IN  Run(Readable(cardid) /\ Readable(cardsn),
                  [k \in DOMAIN ca_table \cup {new} |->
                     IF k = new THEN [cardid |-> cardid, cardsn |-> cardsn] ELSE ca_table[k]])

(* the first parameter alone decides *)
SelectedByOne(row, cardid, cardsn) ==
  IF cardid # "NULL" THEN row.cardid = cardid
  ELSE cardsn # "NULL" => row.cardsn = cardsn

(* db_del_card: a parameter that is not there selects nothing away.        *)
Selected(row, cardid, cardsn) ==
  /\ cardid # "NULL" => row.cardid = cardid
  /\ cardsn # "NULL" => row.cardsn = cardsn

card_del(cardid, cardsn) ==
  Run(\A value \in {cardid, cardsn} : value = "NULL" \/ Readable(value),
      [k \in {n \in DOMAIN ca_table : ~ Selected(ca_table[n], cardid, cardsn)} |-> ca_table[k]])

(* The rows that have the key get a value in the column.                   *)
Changed(by, key, column, value) ==
  [k \in DOMAIN ca_table |->
     IF ca_table[k][by] = key THEN [ca_table[k] EXCEPT ![column] = value] ELSE ca_table[k]]

db_mod_card_byid(cardid, cardsn) ==
  Run(Readable(cardid) /\ Readable(cardsn), Changed("cardid", cardid, "cardsn", cardsn))

db_mod_card_bysn(cardid, cardsn) ==
  Run(Readable(cardid) /\ Readable(cardsn), Changed("cardsn", cardsn, "cardid", cardid))

card_mod(cardid, cardsn, direction) ==
  IF (cardid = "NULL" /\ cardsn = "NULL") \/ direction \notin {"id2sn", "sn2id"}
  THEN Refuse
  ELSE IF direction = "id2sn"
       THEN db_mod_card_byid(cardid, cardsn)
       ELSE db_mod_card_bysn(cardid, cardsn)

(* SELECT (cardid,cardsn,uptime) is one operand of three columns, which    *)
(* MySQL refuses; without a parameter there is no query at all.            *)
card_get == UNCHANGED ca_table /\ ca_reply' = "failed"

Call(handler, cardid, cardsn, direction) ==
  ca_call' = [handler |-> handler, cardid |-> cardid, cardsn |-> cardsn, direction |-> direction]

CardsNext ==
  \E cardid \in Params(Ids), cardsn \in Params(Sns) :
    \/ Call("add", cardid, cardsn, "NULL") /\ card_add(cardid, cardsn)
    \/ Call("del", cardid, cardsn, "NULL") /\ card_del(cardid, cardsn)
    \/ \E direction \in {"id2sn", "sn2id", "both", "NULL"} :
         Call("mod", cardid, cardsn, direction) /\ card_mod(cardid, cardsn, direction)
    \/ Call("get", cardid, cardsn, "NULL") /\ card_get

CardsSpec == CardsInit /\ [][CardsNext]_cardsVars

-----------------------------------------------------------------------------
(* dbaccess.h: with an id and a serial number only the cards that have     *)
(* both go, with one of them those that have it, with neither all cards.   *)
(* A card that a deletion does not name is never lost, whether or not the  *)
(* client was told of a success; none is changed, and none appears.        *)
DeletionIsNamed ==
  ca_call'.handler = "del" =>
    /\ DOMAIN ca_table' \subseteq DOMAIN ca_table
    /\ \A k \in DOMAIN ca_table :
         LET card == ca_table[k]
             named == /\ ca_call'.cardid \in {"NULL", card.cardid}
                      /\ ca_call'.cardsn \in {"NULL", card.cardsn}
         IN  /\ ~ named => k \in DOMAIN ca_table'
             /\ named /\ ca_reply' = "success" => k \notin DOMAIN ca_table'
             /\ k \in DOMAIN ca_table' => ca_table'[k] = card

DeletesTheNamed == [][DeletionIsNamed]_cardsVars

(* A change keeps the key it goes by: id2sn no card loses or gains an id,  *)
(* sn2id none a serial number; after a success every card with the key has *)
(* the other value, and no other card has changed.                         *)
ChangeIsByKey ==
  ca_call'.handler = "mod" =>
    /\ DOMAIN ca_table' = DOMAIN ca_table
    /\ \A k \in DOMAIN ca_table :
         LET old == ca_table[k]
             new == ca_table'[k]
             went == \/ ca_call'.direction = "id2sn" /\ old.cardid = ca_call'.cardid
                     \/ ca_call'.direction = "sn2id" /\ old.cardsn = ca_call'.cardsn
         IN  /\ ca_call'.direction = "id2sn" => new.cardid = old.cardid
             /\ ca_call'.direction = "sn2id" => new.cardsn = old.cardsn
             /\ ca_reply' = "success" /\ went =>
                  new = [cardid |-> ca_call'.cardid, cardsn |-> ca_call'.cardsn]
             /\ ~ went \/ ca_reply' = "error" => new = old

ChangesByTheKey == [][ChangeIsByKey]_cardsVars

(* The two together: no card is lost or changed that the request does not  *)
(* go by.                                                                  *)
OnlyTheNamedCards == DeletesTheNamed /\ ChangesByTheKey
=============================================================================
