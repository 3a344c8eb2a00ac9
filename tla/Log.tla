-------------------------------- MODULE Log --------------------------------
(***************************************************************************)
(* The log of cutil/log.c: opened as a file, as the standard output or     *)
(* with the system log, and written a record at a time.  A record is put   *)
(* together in an array of MAX_LOG_LINE + 1 characters, behind a header    *)
(* unless it is for the system log.  The program logs to a file, from the  *)
(* thread of the event loop alone.                                         *)
(*                                                                         *)
(* vsnprintf of the project's compiler (toolset v120) writes no NUL if the *)
(* text has not less characters than it may write, and returns -1 if it    *)
(* has more.                                                               *)
(***************************************************************************)
EXTENDS Integers, Sequences

CONSTANTS
  MessageLengths,  \* the lengths of the messages
  MAX_LOG_LINE,
  HeaderLength,    \* of the time and the level
  MaxRecords       \* bound: records

ASSUME LogAssumption ==
  /\ \A n \in MessageLengths : n \in Nat
  /\ MAX_LOG_LINE \in Nat /\ HeaderLength \in 1 .. MAX_LOG_LINE - 1 /\ MaxRecords \in Nat

VARIABLES
  lg_type,      \* log->type; "none" before log_new, "freed" after log_free
  lg_file,      \* log->file: "log.txt", "stdout", or "none"
  lg_facility,  \* what openlog was called with, or "none"
  lg_records,   \* what was written: [length, chars, ends], the last being FALSE
                \* if it runs on behind the array until a NUL comes
  lg_outside,   \* history: was a character written outside of the array?
  lg_closed     \* history: what log_free has closed

logVars == <<lg_type, lg_file, lg_facility, lg_records, lg_outside, lg_closed>>

LogInit ==
  /\ lg_type = "none" /\ lg_file = "none" /\ lg_facility = "none"
  /\ lg_records = <<>> /\ lg_outside = FALSE /\ lg_closed = {}

-----------------------------------------------------------------------------
Local == {"local0", "local7"}

_log_facility(facility) == IF facility \in Local THEN facility ELSE "local7"

(* The types stand for log_SYSLOG, log_STDOUT and log_FILE; a file that    *)
(* cannot be opened makes a log of the last type one of the second.        *)
NewLog(type, file, facility) ==
  /\ lg_type = "none"
  /\ lg_type' = type /\ lg_file' = file /\ lg_facility' = facility
  /\ UNCHANGED <<lg_records, lg_outside, lg_closed>>

log_new ==
  \/ \E f \in Local \cup {"other", "NULL"} : NewLog("SYSLOG", "none", _log_facility(f))
  \/ NewLog("STDOUT", "stdout", "none")
  \/ NewLog("FILE", "log.txt", "none")

-----------------------------------------------------------------------------
(* What vsnprintf makes of a message with room for that many characters.   *)
(* The array is not cleared: whether a NUL follows by chance is open.      *)
Printed(length, room) ==
  IF length < room THEN {[length |-> length, chars |-> length, ends |-> TRUE]}
  ELSE {[length |-> length, chars |-> room, ends |-> chance] : chance \in BOOLEAN}

RoomBehindHeader == MAX_LOG_LINE - HeaderLength

Record(record) ==
  /\ Len(lg_records) < MaxRecords
  /\ lg_records' = Append(lg_records, record)
  /\ UNCHANGED <<lg_type, lg_file, lg_facility, lg_closed>>

(* The NUL is put at the length that vsnprintf returns: in the cell behind *)
(* the line if the message fills it, in front of the array if it is cut.   *)
WriteToSyslog(length) ==
  /\ lg_type = "SYSLOG"
  /\ \E record \in Printed(length, MAX_LOG_LINE) :
       Record([record EXCEPT !.ends = @ \/ length = MAX_LOG_LINE])
  /\ lg_outside' = (lg_outside \/ length > MAX_LOG_LINE)

WriteToFile(length) ==
  /\ lg_type \in {"STDOUT", "FILE"}
  /\ \E record \in Printed(length, RoomBehindHeader) : Record(record)
  /\ lg_outside' = (lg_outside \/ HeaderLength + lg_records'[Len(lg_records')].chars > MAX_LOG_LINE + 1)

log_free ==
  /\ lg_type \in {"SYSLOG", "STDOUT", "FILE"}
  /\ lg_type' = "freed"
  /\ lg_closed' = CASE lg_type = "SYSLOG" -> {"syslog"}
                    [] lg_type = "FILE" -> {lg_file}
                    [] OTHER -> {}
  /\ UNCHANGED <<lg_file, lg_facility, lg_records, lg_outside>>

LogNext ==
  \/ log_new \/ log_free
  \/ \E length \in MessageLengths : WriteToSyslog(length) \/ WriteToFile(length)

LogSpec == LogInit /\ [][LogNext]_logVars

-----------------------------------------------------------------------------
(* A record that has room, header and NUL included, is written whole; one  *)
(* that has not is cut where the room ends and may run on.  A character is *)
(* written outside of the array by each message for the system log that is *)
(* longer than a line, and by nothing else.  The standard output is never  *)
(* closed.                                                                 *)
RecordsAreWhole ==
  /\ \A k \in DOMAIN lg_records :
       LET record == lg_records[k]
           room == IF lg_facility = "none" THEN MAX_LOG_LINE - HeaderLength - 1 ELSE MAX_LOG_LINE
       IN  record.length <= room => record.chars = record.length /\ record.ends
  /\ lg_outside <=>
       lg_facility # "none" /\ \E k \in DOMAIN lg_records : lg_records[k].length > MAX_LOG_LINE
  /\ "stdout" \notin lg_closed
=============================================================================
