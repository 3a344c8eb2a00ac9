-------------------------------- MODULE Tool --------------------------------
(***************************************************************************)
(* The helpers of tool.c that keep time: the throughput check, the rate    *)
(* check, and the comparison of dates; behind them the times and their     *)
(* texts.  time() counts seconds; GetTickCount counts in a DWORD, which    *)
(* goes back to 0.  They have nothing to do with each other: a run is of   *)
(* one of them.                                                            *)
(***************************************************************************)
EXTENDS Integers, Sequences, FiniteSets, SequencesExt

CONSTANTS
  Ticks,       \* 2^32
  MaxNow,      \* bound: how long the machine is up
  timeouts,    \* of the throughput check
  total, waitmsecs,  \* of the rate check
  Adds,        \* what is counted at a time
  MaxCount,    \* bound: what is counted between two reports
  Dates        \* the dates compared: <<year, month, day, hour, minute, second>>

ASSUME ToolAssumption ==
  /\ Ticks \in Nat \ {0} /\ MaxNow \in Nat
  /\ timeouts \in Nat /\ total \in Nat /\ waitmsecs \in Nat
  /\ \A n \in Adds : n \in Nat
  /\ \A t \in Dates : t \in Seq(Int) /\ Len(t) = 6

VARIABLES
  to_part,     \* "throughput", "rate" or "dates"
  to_dates,    \* three dates
  to_now,      \* time, from 1 on
  to_through,  \* io_throughout_check_st
  to_rate,     \* ratecheck_st
  to_seen,     \* history: what was counted since the last report, and since when
  to_reset,    \* history: when the rate check was reset; 0 at first
  to_said      \* the last answer of ratecheck_add

toolVars == <<to_part, to_dates, to_now, to_through, to_rate, to_seen, to_reset, to_said>>

ToolInit ==
  /\ to_part \in {"throughput", "rate", "dates"}
  /\ IF to_part = "dates" THEN to_dates \in Dates \X Dates \X Dates ELSE to_dates = <<>>
  /\ to_now = 1
  /\ to_through = [count |-> 0, tick |-> 0, memtick |-> 0, throughout |-> 0, reports |-> 0]
  /\ to_rate = [count |-> 0, last |-> 0]
  /\ to_seen = [bytes |-> 0, since |-> 0]
  /\ to_reset = 0 /\ to_said = FALSE

-----------------------------------------------------------------------------
Passes ==
  /\ to_part # "dates"
  /\ to_now < MaxNow
  /\ to_now' = to_now + 1
  /\ UNCHANGED <<to_part, to_dates, to_through, to_rate, to_seen, to_reset, to_said>>

(* The first count starts the clock; memcnt is always 0.                   *)
Started(check) ==
  IF check.memtick = 0 /\ check.tick = 0 THEN [check EXCEPT !.memtick = to_now] ELSE check

io_throughout_check(n) ==
  LET check == [Started(to_through) EXCEPT !.count = @ + n, !.tick = to_now]
      elapsed == check.tick - check.memtick
      since == IF to_seen.since = 0 THEN to_now ELSE to_seen.since
  IN  /\ to_part = "throughput" /\ to_seen.bytes + n <= MaxCount
      /\ IF elapsed > timeouts
         THEN /\ to_through' = [count |-> 0, tick |-> to_now, memtick |-> to_now,
                                throughout |-> check.count \div elapsed,
                                reports |-> 1 - check.reports]
              /\ to_seen' = [bytes |-> 0, since |-> to_now]
         ELSE /\ to_through' = check
              /\ to_seen' = [bytes |-> to_seen.bytes + n, since |-> since]
      /\ UNCHANGED <<to_part, to_dates, to_now, to_rate, to_reset, to_said>>

GetTickCount == to_now % Ticks

(* The difference is one of 64 bits: after the DWORD has gone back to 0 it *)
(* is negative.                                                            *)
ratecheck_add(n) ==
  /\ to_part = "rate" /\ to_rate.count <= total
  /\ to_rate' = [to_rate EXCEPT !.count = @ + n]
  /\ to_said' = \/ to_rate'.count >= total
                \/ GetTickCount - to_rate.last >= waitmsecs
  /\ UNCHANGED <<to_part, to_dates, to_now, to_through, to_seen, to_reset>>

(* the time of the reset is not taken *)
ratecheck_reset_count ==
  /\ to_part = "rate"
  /\ to_rate' = [to_rate EXCEPT !.count = 0]
  /\ to_reset' = to_now
  /\ to_said' = FALSE
  /\ UNCHANGED <<to_part, to_dates, to_now, to_through, to_seen>>

ratecheck_reset ==
  /\ to_part = "rate"
  /\ to_rate' = [count |-> 0, last |-> GetTickCount]
  /\ to_reset' = to_now
  /\ to_said' = FALSE
  /\ UNCHANGED <<to_part, to_dates, to_now, to_through, to_seen>>

ToolNext ==
  \/ Passes
  \/ \E n \in Adds : io_throughout_check(n) \/ ratecheck_add(n)
  \/ ratecheck_reset

ToolSpec == ToolInit /\ [][ToolNext]_toolVars

-----------------------------------------------------------------------------
Undated(t) == t[1] = 0 /\ t[2] = 0 /\ t[3] = 0

(* -1, 0 or 1: the first of the fields that differ decides.                *)
Compare(l, r, fields) ==
  LET differ == {k \in fields : l[k] # r[k]}
  IN  IF differ = {} THEN 0
      ELSE LET k == CHOOSE j \in differ : \A i \in differ : j <= i
           IN  IF l[k] < r[k] THEN -1 ELSE 1

(* Without a date in one of them the times of the day are compared.        *)
mytime_cmp_sub(l, r) ==
  IF Undated(l) \/ Undated(r) THEN Compare(l, r, 4 .. 6) ELSE Compare(l, r, 1 .. 6)

-----------------------------------------------------------------------------
(* The throughput that is reported is that of all bytes since the report   *)
(* before, over the time since then; it is never divided by no time.       *)
ThroughputOfTheInterval ==
  [][to_through'.reports # to_through.reports =>
       LET elapsed == to_now - to_seen.since
       IN  /\ elapsed > timeouts
           /\ \E n \in Adds : to_through'.throughout = (to_seen.bytes + n) \div elapsed]_toolVars

(* The rate check says yes when the count is full or the time is over,     *)
(* and not before; only once the ticks have gone back to 0 since the reset *)
(* it waits for the count alone.                                           *)
RateCheckInTime ==
  [][\A n \in Adds : ratecheck_add(n) =>
       LET due == to_now - to_reset >= waitmsecs
           wrapped == to_now \div Ticks # to_reset \div Ticks
       IN  /\ to_said' => to_rate'.count >= total \/ due
           /\ due /\ ~ wrapped => to_said']_toolVars

(* The comparison has a sign that turns with its arguments, and among      *)
(* dates it is that of the calendar: it is never in a circle.  With times  *)
(* that have no date it may be.                                            *)
DatesAreOrdered ==
  to_part = "dates" =>
    LET l == to_dates[1]
        r == to_dates[2]
        t == to_dates[3]
    IN  /\ mytime_cmp_sub(l, r) = -mytime_cmp_sub(r, l)
        /\ /\ ~ Undated(l) /\ ~ Undated(r) /\ ~ Undated(t)
           /\ mytime_cmp_sub(l, r) <= 0 /\ mytime_cmp_sub(r, t) <= 0
           => mytime_cmp_sub(l, t) <= 0

-----------------------------------------------------------------------------
(***************************************************************************)
(* The times of tool.c: those taken from the clock, their text             *)
(* "Y-M-D h:m:s" and what is read from such a text, and the times and      *)
(* sections of a week.  A text is a sequence of numerals, given by their   *)
(* value, and of three other characters, given as negative numbers.        *)
(***************************************************************************)
dash == -1
colon == -2
blank == -3

(* in seconds *)
OneHour == 3600
OneDay == 24 * OneHour

CONSTANTS
  Clock,       \* struct tm: <<tm_year, tm_mon, tm_mday, tm_hour, tm_min, tm_sec, tm_wday>>
  Sections,    \* of a week: [days, start, end], the last two in seconds of the day
  MaxBlanks    \* bound: blanks that are put into a text

ASSUME TimeTextAssumption ==
  /\ \A t \in Clock :
       /\ t \in Seq(Nat) /\ Len(t) = 7
       /\ t[4] \in 0 .. 23 /\ t[5] \in 0 .. 59 /\ t[6] \in 0 .. 59 /\ t[7] \in 0 .. 6
  /\ \A s \in Sections :
       s.days \subseteq 0 .. 6 /\ s.start \in 0 .. OneDay /\ s.end \in 0 .. OneDay
  /\ MaxBlanks \in Nat

VARIABLES
  tt_pc,       \* "clock", "time", "text", "cut" or "read"
  tt_clock,    \* what _getsystime says
  tt_time,     \* the mytime_st: its six fields
  tt_text,     \* the text
  tt_read,     \* the fields that were read from the text
  tt_outside   \* was something behind the end of the text looked at?

timeTextVars == <<tt_pc, tt_clock, tt_time, tt_text, tt_read, tt_outside>>

TimeTextInit ==
  /\ tt_pc = "clock" /\ tt_clock \in Clock
  /\ tt_time = <<>> /\ tt_text = <<>> /\ tt_read = <<>> /\ tt_outside = FALSE

-----------------------------------------------------------------------------
(* mylocaltime has the year and the month as they are written;             *)
(* localtime2mytime copies the fields of the struct tm as they are.        *)
mylocaltime == <<tt_clock[1] + 1900, tt_clock[2] + 1>> \o SubSeq(tt_clock, 3, 6)
localtime2mytime == SubSeq(tt_clock, 1, 6)

TakeTime ==
  /\ tt_pc = "clock"
  /\ tt_pc' = "time"
  /\ tt_time' \in {mylocaltime, localtime2mytime}
  /\ UNCHANGED <<tt_clock, tt_text, tt_read, tt_outside>>

mytime2str ==
  /\ tt_pc = "time"
  /\ tt_pc' = "text"
  /\ tt_text' = <<tt_time[1], dash, tt_time[2], dash, tt_time[3], blank,
                  tt_time[4], colon, tt_time[5], colon, tt_time[6]>>
  /\ UNCHANGED <<tt_clock, tt_time, tt_read, tt_outside>>

(* Texts of another source: with blanks before the numerals, or cut, also  *)
(* in the middle of a numeral.                                             *)
Numeral(token) == token >= 0

PowersOfTen == {10, 100, 1000, 10000, 100000, 1000000, 10000000, 100000000, 1000000000}

(* What the first digits of a numeral say; it has two digits at least.     *)
FirstDigits(numeral) ==
  {numeral \div power : power \in {p \in PowersOfTen : p = 10 \/ p <= numeral}}

AddBlank ==
  /\ tt_pc = "text" /\ Len(tt_text) < 11 + MaxBlanks
  /\ \E i \in DOMAIN tt_text : Numeral(tt_text[i]) /\ tt_text' = InsertAt(tt_text, i, blank)
  /\ UNCHANGED <<tt_pc, tt_clock, tt_time, tt_read, tt_outside>>

CutText ==
  /\ tt_pc = "text"
  /\ tt_pc' = "cut"
  /\ \E n \in DOMAIN tt_text :
       \/ tt_text' = SubSeq(tt_text, 1, n - 1)
       \/ /\ Numeral(tt_text[n])
          /\ \E begun \in FirstDigits(tt_text[n]) :
               tt_text' = Append(SubSeq(tt_text, 1, n - 1), begun)
  /\ UNCHANGED <<tt_clock, tt_time, tt_read, tt_outside>>

-----------------------------------------------------------------------------
(* The first of some places, 0 if there is none; the next such token from  *)
(* i on.                                                                   *)
FirstPlace(places) ==
  IF places = {} THEN 0 ELSE CHOOSE j \in places : \A k \in places : j <= k

NextOf(i, token) == FirstPlace({j \in i .. Len(tt_text) : tt_text[j] = token})

(* BehindNext the blanks; and atoi, which is 0 where no numeral begins.        *)
NoBlank(i) ==
  LET j == FirstPlace({k \in i .. Len(tt_text) : tt_text[k] # blank})
  IN  IF j = 0 THEN Len(tt_text) + 1 ELSE j

atoi(i) ==
  LET j == NoBlank(i) IN IF j <= Len(tt_text) /\ Numeral(tt_text[j]) THEN tt_text[j] ELSE 0

(* Where a field is: behind the separator that is next after the field     *)
(* before, whether the text has one or not.                                *)
BehindNext(i, separator) ==
  IF i = 0 \/ NextOf(i, separator) = 0 THEN 0 ELSE NoBlank(NextOf(i, separator) + 1)

Fields ==
  LET year == NoBlank(1)
      month == BehindNext(year, dash)
      day == BehindNext(month, dash)
      hour == BehindNext(day, blank)
      minute == BehindNext(hour, colon)
      second == BehindNext(minute, colon)
  IN  <<year, month, day, hour, minute, second>>

str2mytime ==
  /\ tt_pc \in {"text", "cut"}
  /\ LET found == {k \in 1 .. 6 : Fields[k] # 0}
     IN  IF tt_text = <<>> THEN UNCHANGED <<tt_read, tt_outside>>
         ELSE /\ tt_read' = [k \in found |-> atoi(Fields[k])]
              /\ tt_outside' = (found # 1 .. 6)
  /\ tt_pc' = "read"
  /\ UNCHANGED <<tt_clock, tt_time, tt_text>>

(* str2hms of what is behind the token i - 1: what it returns, and the     *)
(* fields.                                                                 *)
str2hms(i) ==
  LET h == NoBlank(i)
      m == NextOf(h, colon)
      s == NextOf(m + 1, colon)
  IN  IF h > Len(tt_text) \/ m = 0 \/ s = 0 THEN [rt |-> 0, hms |-> <<>>]
      ELSE [rt |-> 1, hms |-> <<atoi(h), atoi(m + 1), atoi(s + 1)>>]

TimeTextNext == TakeTime \/ mytime2str \/ AddBlank \/ CutText \/ str2mytime

TimeTextSpec == TimeTextInit /\ [][TimeTextNext]_timeTextVars

-----------------------------------------------------------------------------
_DAYSECONDS(hour, minute, second) == hour * OneHour + minute * 60 + second

(* Days are numbered from Sunday, 0, as the bits of the mask are.          *)
myweektime(t) == [days |-> {t[7]}, time |-> _DAYSECONDS(t[4], t[5], t[6])]

FirstDay(days) == IF days = {} THEN 7 ELSE CHOOSE d \in days : \A e \in days : d <= e

sow_weektime(wt) == FirstDay(wt.days) * OneDay + wt.time

weektime_in(wt, section) ==
  /\ wt.days \cap section.days # {}
  /\ wt.time > section.start /\ wt.time < section.end

-----------------------------------------------------------------------------
(* A time that was written is read as it was, with blanks before any of    *)
(* its fields, and nothing behind the end of the text is looked at.  Of a  *)
(* text that was cut the fields before the cut are right.  The one at the  *)
(* cut is 0, right, or what its first digits say, and nothing tells the    *)
(* caller which.  The search goes on behind the end whenever the second    *)
(* colon is missing.  Only mylocaltime gives a date of the calendar.       *)
TimesComeBack ==
  /\ tt_pc = "read" /\ tt_text # <<>> =>
       /\ ~ tt_outside <=> \E i, j \in DOMAIN tt_text :
                             i < j /\ tt_text[i] = colon /\ tt_text[j] = colon
       /\ \A k \in DOMAIN tt_read : k = Len(tt_read) \/ tt_read[k] = tt_time[k]
       /\ LET written == tt_time[Len(tt_read)]
          IN  tt_read[Len(tt_read)] \in {0, written} \cup FirstDigits(written)
  /\ tt_pc = "text" =>
       /\ Fields[6] # 0
       /\ [k \in 1 .. 6 |-> atoi(Fields[k])] = tt_time

(* str2hms takes the end of a text that has an hour in front of it, and    *)
(* nothing that has less than two colons.                                  *)
HoursComeBack ==
  tt_pc \in {"text", "cut"} =>
    \A i \in DOMAIN tt_text :
      LET colons == {j \in i .. Len(tt_text) : tt_text[j] = colon}
      IN  /\ str2hms(i).rt = 1 <=> Cardinality(colons) = 2
          /\ tt_pc = "text" /\ i = Fields[4] => str2hms(i) = [rt |-> 1, hms |-> SubSeq(tt_time, 4, 6)]

(* The seconds of the week have the order of the clock, and a time in a    *)
(* section lies between the seconds of its ends, on a day of the section;  *)
(* a section that goes over midnight has no times.                         *)
WeekIsOrdered ==
  tt_pc = "clock" =>
    LET wt == myweektime(tt_clock)
    IN  /\ \A other \in Clock :
             sow_weektime(wt) < sow_weektime(myweektime(other)) <=>
               Compare(<<tt_clock[7]>> \o SubSeq(tt_clock, 4, 6),
                       <<other[7]>> \o SubSeq(other, 4, 6), 1 .. 4) = -1
        /\ \A s \in Sections :
             weektime_in(wt, s) <=>
               \E d \in s.days : sow_weektime(wt) \in d * OneDay + s.start + 1 .. d * OneDay + s.end - 1

(* A report of the throughput is about the time since the last report, the *)
(* rate check answers within its time, whenever it was reset, the order of *)
(* the dates and that of the times of the week is one, and a time comes    *)
(* back from its text (tool.c).                                            *)
TimesAreRight ==
  /\ ThroughputOfTheInterval /\ RateCheckInTime
  /\ []DatesAreOrdered /\ []WeekIsOrdered
  /\ []TimesComeBack /\ []HoursComeBack
=============================================================================
