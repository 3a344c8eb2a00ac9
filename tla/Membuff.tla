------------------------------ MODULE Membuff ------------------------------
(***************************************************************************)
(* The growing buffer of membuff.c, in which every handler puts its reply  *)
(* together.  The text is a sequence of cells: a NUL, a comma (the items   *)
(* of a list end with one), the bracket that closes a reply, or any other  *)
(* text.                                                                   *)
(*                                                                         *)
(* vsnprintf is external: it writes the text and a NUL if both fit,        *)
(* writes a text that just fits without the NUL and returns its length,    *)
(* and reports a text that does not fit as the loop expects it, by a       *)
(* negative result with errno 34.                                          *)
(***************************************************************************)
EXTENDS Integers, Sequences

CONSTANTS
  Big,         \* 512 * 1024
  Capacities,  \* the capacities membuff_new is called with
  Texts        \* what is printed or added at a time

Cells == {"text", "comma", "close", "nul"}

(* No print is longer than 512 K: see PrintMakesRoom.                      *)
ASSUME MembuffAssumption ==
  /\ Big \in Nat /\ Big >= 2
  /\ \A cap \in Capacities : cap \in Nat /\ cap > 0
  /\ \A t \in Texts : t \in Seq(Cells) /\ Len(t) \in 1 .. Big

VARIABLES
  mb_cap,    \* cap
  mb_data,   \* data[0 .. len - 1]
  mb_after,  \* data[len]: a NUL, or whatever was there before
  printing   \* the text that membuff_add_printf has not yet printed, or <<>>

membuffVars == <<mb_cap, mb_data, mb_after, printing>>

len == Len(mb_data)

(* membuff_new; the memory of calloc is all NUL.                           *)
MembuffInit ==
  /\ mb_cap \in Capacities
  /\ mb_data = <<>>
  /\ mb_after = "nul"
  /\ printing = <<>>

-----------------------------------------------------------------------------
(* room for the text alone: < for <=, and a third of any capacity *)
_assure_mem_size_tight(addlen) ==
  IF addlen > 0 /\ mb_cap - len < addlen
  THEN len + addlen + mb_cap \div 3
  ELSE mb_cap

(* The capacity after _assure_mem_size(mb, addlen).                        *)
_assure_mem_size(addlen) ==
  IF addlen > 0 /\ mb_cap - len <= addlen
  THEN len + addlen + (IF mb_cap > Big THEN mb_cap \div 3 ELSE mb_cap)
  ELSE mb_cap

membuff_clear ==
  /\ printing = <<>>
  /\ mb_data' = <<>>
  /\ mb_after' = "old"
  /\ UNCHANGED <<mb_cap, printing>>

membuff_addstr(t) ==
  /\ printing = <<>>
  /\ mb_cap' = _assure_mem_size(Len(t))
  /\ mb_data' = mb_data \o t
  /\ mb_after' = "old"
  /\ UNCHANGED printing

membuff_addchar(c) ==
  /\ printing = <<>>
  /\ mb_cap' = _assure_mem_size(1)
  /\ mb_data' = Append(mb_data, c)
  /\ mb_after' = "old"
  /\ UNCHANGED printing

(* membuff_add_printf tries until the text fits with its NUL.              *)
PrintBegins(t) ==
  /\ printing = <<>>
  /\ printing' = t
  /\ UNCHANGED <<mb_cap, mb_data, mb_after>>

Fits == Len(printing) < mb_cap - len

GrowBy == IF len > Big THEN mb_cap \div 2 ELSE mb_cap

PrintGrows ==
  /\ printing # <<>> /\ ~ Fits
  /\ mb_cap' = _assure_mem_size(GrowBy)
  /\ UNCHANGED <<mb_data, mb_after, printing>>

PrintEnds ==
  /\ printing # <<>> /\ Fits
  /\ mb_data' = mb_data \o printing
  /\ mb_after' = "nul"
  /\ printing' = <<>>
  /\ UNCHANGED mb_cap

(* membuff_trim(mb, ","): the commas at the end become NULs behind it.  So *)
(* do NULs: strchr finds the NUL that ends ",", too.                       *)
Trimmed == {"comma", "nul"}

membuff_trim ==
  /\ printing = <<>> /\ mb_data # <<>>
  /\ \E n \in 0 .. len :
       /\ \A k \in n + 1 .. len : mb_data[k] \in Trimmed
       /\ n > 0 => mb_data[n] \notin Trimmed
       /\ mb_data' = SubSeq(mb_data, 1, n)
       /\ mb_after' = IF n < len THEN "nul" ELSE mb_after
  /\ UNCHANGED <<mb_cap, printing>>

(* the comma stays *)
KeepComma == printing = <<>> /\ UNCHANGED membuffVars

(* if (data[len - 1] == ',') len--;  in the handlers of userquery.c        *)
DropComma ==
  /\ printing = <<>> /\ mb_data # <<>>
  /\ IF mb_data[len] = "comma"
     THEN /\ mb_data' = SubSeq(mb_data, 1, len - 1)
          /\ mb_after' = "old"
     ELSE UNCHANGED <<mb_data, mb_after>>
  /\ UNCHANGED <<mb_cap, printing>>

MembuffNext ==
  \/ membuff_clear
  \/ \E t \in Texts : membuff_addstr(t)
  \/ \E c \in Cells : membuff_addchar(c)
  \/ \E t \in Texts : PrintBegins(t)
  \/ PrintGrows \/ PrintEnds
  \/ membuff_trim \/ DropComma

MembuffSpec == MembuffInit /\ [][MembuffNext]_membuffVars

-----------------------------------------------------------------------------
MembuffTypeOK ==
  /\ mb_cap \in Nat
  /\ mb_data \in Seq(Cells)
  /\ mb_after \in {"nul", "old"}
  /\ printing = <<>> \/ printing \in Texts

(* The handlers read data[len - 1] and the replies are read up to a NUL at *)
(* data[len], and neither looks at the capacity: there is always a cell    *)
(* behind the text, however the text has grown.                            *)
MembuffFits == len < mb_cap

(* The loop of membuff_add_printf ends: a try that fails makes room.  It   *)
(* asks for cap / 2 once the text is longer than 512 K, and then           *)
(* _assure_mem_size may find that there is as much room as that already;   *)
(* no text of at most 512 K fails in that case.                            *)
PrintMakesRoom ==
  [][printing # <<>> /\ printing' = printing => mb_cap' > mb_cap]_membuffVars
=============================================================================
