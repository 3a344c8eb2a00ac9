----------------------------- MODULE ToolProofs -----------------------------
(***************************************************************************)
(* The time and rate helpers of tool.c, for every clock, every sequence of *)
(* calls and every text: the checks report what they have counted and in   *)
(* their time, dates and times of the week are ordered, and a time comes   *)
(* back from its text, with blanks before its fields or cut.               *)
(***************************************************************************)
EXTENDS Tool, BasicFacts, FiniteSetTheorems

(* What the two checks remember of the time and of what was counted.       *)
ToolInv ==
  /\ to_now \in Nat /\ to_now >= 1
  /\ to_through.count = to_seen.bytes /\ to_seen.bytes \in Nat
  /\ to_through.memtick = to_seen.since /\ to_seen.since \in 0 .. to_now
  /\ to_through.tick \in 0 .. to_now /\ (to_through.memtick = 0 <=> to_through.tick = 0)
  /\ to_through \in [count : Int, tick : Int, memtick : Int, throughout : Int, reports : Int]
  /\ to_rate \in [count : Int, last : Int]
  /\ to_reset \in 0 .. to_now /\ to_rate.last = to_reset % Ticks

(* It holds at the start.                                                  *)
LEMMA ToolInvInit == ToolInit => ToolInv
<1> SUFFICES ASSUME ToolInit PROVE ToolInv
  OBVIOUS
<1>1. 0 % Ticks = 0
  BY ToolAssumption
<1> QED  BY <1>1 DEF ToolInit, ToolInv

(* Every call and every second that passes keep it.                        *)
LEMMA ToolInvNext == ToolInv /\ [ToolNext]_toolVars => ToolInv'
<1> SUFFICES ASSUME ToolInv, [ToolNext]_toolVars PROVE ToolInv'
  OBVIOUS
<1> USE DEF ToolInv
<1>1. CASE Passes
  BY <1>1 DEF Passes
<1>2. ASSUME NEW n \in Adds, io_throughout_check(n) PROVE ToolInv'
  <2>1. n \in Nat /\ timeouts \in Nat
    BY ToolAssumption
  <2>2. /\ Started(to_through) \in [count : Int, tick : Int, memtick : Int, throughout : Int,
                                    reports : Int]
        /\ Started(to_through).count = to_seen.bytes
        /\ Started(to_through).memtick = IF to_seen.since = 0 THEN to_now ELSE to_seen.since
    <3>1. CASE to_through.memtick = 0
      BY <3>1 DEF Started
    <3>2. CASE to_through.memtick # 0
      BY <3>2 DEF Started
    <3> QED  BY <3>1, <3>2
  <2> DEFINE check == [Started(to_through) EXCEPT !.count = @ + n, !.tick = to_now]
  <2>3. /\ check \in [count : Int, tick : Int, memtick : Int, throughout : Int, reports : Int]
        /\ check.count = to_seen.bytes + n /\ check.tick = to_now
        /\ check.memtick = IF to_seen.since = 0 THEN to_now ELSE to_seen.since
    <3> DEFINE start == Started(to_through)
    <3> HIDE DEF start
    <3>1. /\ start \in [count : Int, tick : Int, memtick : Int, throughout : Int, reports : Int]
          /\ start.count = to_seen.bytes
          /\ start.memtick = IF to_seen.since = 0 THEN to_now ELSE to_seen.since
      BY <2>2 DEF start
    <3>2. check = [start EXCEPT !.count = @ + n, !.tick = to_now]
      BY DEF start
    <3> HIDE DEF check
    <3>3. /\ check.count = start.count + n /\ check.tick = to_now /\ check.memtick = start.memtick
          /\ check.throughout = start.throughout /\ check.reports = start.reports
      BY <3>1, <3>2
    <3>4. check = [count |-> check.count, tick |-> check.tick, memtick |-> check.memtick,
                   throughout |-> check.throughout, reports |-> check.reports]
      BY <3>1, <3>2
    <3> QED  BY <2>1, <3>1, <3>3, <3>4
  <2> HIDE DEF check
  <2>4. UNCHANGED <<to_now, to_rate, to_reset>>
    BY <1>2 DEF io_throughout_check
  <2>5. CASE check.tick - check.memtick > timeouts
    <3>1. /\ to_through' = [count |-> 0, tick |-> to_now, memtick |-> to_now,
                            throughout |-> check.count \div (check.tick - check.memtick),
                            reports |-> 1 - check.reports]
          /\ to_seen' = [bytes |-> 0, since |-> to_now]
      BY <1>2, <2>5 DEF io_throughout_check, check
    <3>2. check.count \div (check.tick - check.memtick) \in Int /\ 1 - check.reports \in Int
      BY <2>1, <2>3, <2>5
    <3> QED  BY <2>4, <3>1, <3>2
  <2>6. CASE ~ (check.tick - check.memtick > timeouts)
    <3>1. /\ to_through' = check
          /\ to_seen' = [bytes |-> to_seen.bytes + n,
                         since |-> IF to_seen.since = 0 THEN to_now ELSE to_seen.since]
      BY <1>2, <2>6 DEF io_throughout_check, check
    <3> QED  BY <2>1, <2>3, <2>4, <3>1
  <2> QED  BY <2>5, <2>6
<1>3. ASSUME NEW n \in Adds, ratecheck_add(n) PROVE ToolInv'
  <2>1. n \in Nat
    BY ToolAssumption
  <2> QED  BY <1>3, <2>1 DEF ratecheck_add
<1>4. CASE ratecheck_reset
  <2>1. to_now % Ticks \in Int
    BY ToolAssumption
  <2> QED  BY <1>4, <2>1 DEF ratecheck_reset, GetTickCount
<1>5. CASE UNCHANGED toolVars
  BY <1>5 DEF toolVars
<1> QED  BY <1>1, <1>2, <1>3, <1>4, <1>5 DEF ToolNext

(* A report is about the bytes and the time since the one before.          *)
THEOREM ReportsAreOfTheInterval == ToolSpec => ThroughputOfTheInterval
<1>1. ToolInv /\ [ToolNext]_toolVars =>
        [to_through'.reports # to_through.reports =>
           LET elapsed == to_now - to_seen.since
           IN  /\ elapsed > timeouts
               /\ \E n \in Adds : to_through'.throughout = (to_seen.bytes + n) \div elapsed]_toolVars
  <2> SUFFICES ASSUME ToolInv, [ToolNext]_toolVars, to_through'.reports # to_through.reports
               PROVE  /\ to_now - to_seen.since > timeouts
                      /\ \E n \in Adds : to_through'.throughout
                                           = (to_seen.bytes + n) \div (to_now - to_seen.since)
    OBVIOUS
  <2>1. PICK n \in Adds : io_throughout_check(n)
    BY DEF ToolNext, Passes, ratecheck_add, ratecheck_reset, toolVars
  <2>2. timeouts \in Nat /\ n \in Nat
    BY ToolAssumption
  <2> DEFINE check == [Started(to_through) EXCEPT !.count = @ + n, !.tick = to_now]
             elapsed == check.tick - check.memtick
  <2>3. /\ check.count = to_seen.bytes + n /\ check.tick = to_now
        /\ check.memtick = IF to_seen.since = 0 THEN to_now ELSE to_seen.since
        /\ check.reports = to_through.reports
    BY <2>2 DEF Started, ToolInv
  <2>4. IF elapsed > timeouts
        THEN to_through'.throughout = check.count \div elapsed
        ELSE to_through' = check
    BY <2>1 DEF io_throughout_check
  <2> HIDE DEF check
  <2>5. elapsed > timeouts
    BY <2>3, <2>4
  <2>6. to_seen.since # 0
    BY <2>2, <2>3, <2>5 DEF ToolInv
  <2> QED  BY <2>3, <2>4, <2>5, <2>6
<1> QED  BY <1>1, ToolInvInit, ToolInvNext, PTL DEF ToolSpec, ThroughputOfTheInterval

(* Later times have no fewer rounds of the ticks, and in one round the     *)
(* ticks go on as the time does.                                           *)
LEMMA TicksGoOn ==
  ASSUME NEW t \in Nat \ {0}, NEW a \in Nat, NEW b \in Nat, a <= b
  PROVE  /\ (b % t) - (a % t) <= b - a
         /\ b \div t = a \div t => (b % t) - (a % t) = b - a
<1>1. /\ a = t * (a \div t) + (a % t) /\ b = t * (b \div t) + (b % t)
      /\ a \div t \in Nat /\ b \div t \in Nat /\ a % t \in 0 .. t - 1 /\ b % t \in 0 .. t - 1
  OBVIOUS
<1> DEFINE c == a \div t
           d == b \div t
           e == a % t
           f == b % t
<1>2. a = t * c + e /\ b = t * d + f /\ c \in Nat /\ d \in Nat /\ e \in 0 .. t - 1 /\ f \in 0 .. t - 1
  BY <1>1
<1> HIDE DEF c, d, e, f
<1>3. c <= d
  <2> SUFFICES ASSUME d + 1 <= c PROVE FALSE
    BY <1>2
  <2>1. PICK k \in Nat : c = d + 1 + k
    <3>1. c - (d + 1) \in Nat /\ c = d + 1 + (c - (d + 1))
      BY <1>2
    <3> QED  BY <3>1
  <2>2. t * c = t * d + t + t * k /\ t * k >= 0
    BY <1>2, <2>1
  <2> QED  BY <1>2, <2>2
<1>4. t * d >= t * c
  <2>1. PICK k \in Nat : d = c + k
    <3>1. d - c \in Nat /\ d = c + (d - c)
      BY <1>2, <1>3
    <3> QED  BY <3>1
  <2>2. t * d = t * c + t * k /\ t * k >= 0
    BY <1>2, <2>1
  <2> QED  BY <1>2, <2>2
<1>5. f - e <= b - a
  BY <1>2, <1>4
<1>6. d = c => f - e = b - a
  BY <1>2
<1> QED  BY <1>5, <1>6 DEF c, d, e, f

(* The rate check says yes in time, and not before.                        *)
THEOREM RatesAreCheckedInTime == ToolSpec => RateCheckInTime
<1>1. ToolInv => \A n \in Adds : ratecheck_add(n) =>
        LET due == to_now - to_reset >= waitmsecs
            wrapped == to_now \div Ticks # to_reset \div Ticks
        IN  /\ to_said' => to_rate'.count >= total \/ due
            /\ due /\ ~ wrapped => to_said'
  <2> SUFFICES ASSUME ToolInv, NEW n \in Adds, ratecheck_add(n)
               PROVE  /\ to_said' => to_rate'.count >= total \/ to_now - to_reset >= waitmsecs
                      /\ to_now - to_reset >= waitmsecs /\ to_now \div Ticks = to_reset \div Ticks
                           => to_said'
    OBVIOUS
  <2>1. /\ (to_now % Ticks) - (to_reset % Ticks) <= to_now - to_reset
        /\ to_now \div Ticks = to_reset \div Ticks =>
             (to_now % Ticks) - (to_reset % Ticks) = to_now - to_reset
    <3>1. to_reset \in Nat /\ to_now \in Nat /\ to_reset <= to_now /\ Ticks \in Nat \ {0}
      BY ToolAssumption DEF ToolInv
    <3> QED  BY <3>1, TicksGoOn
  <2>2. to_said' <=> \/ to_rate'.count >= total
                     \/ (to_now % Ticks) - (to_reset % Ticks) >= waitmsecs
    BY DEF ratecheck_add, GetTickCount, ToolInv
  <2>3. to_now % Ticks \in Int /\ to_reset % Ticks \in Int /\ waitmsecs \in Nat
        /\ to_now \in Nat /\ to_reset \in Nat
    BY ToolAssumption DEF ToolInv
  <2> DEFINE x == to_now % Ticks
             y == to_reset % Ticks
             same == to_now \div Ticks = to_reset \div Ticks
  <2> HIDE DEF x, y, same
  <2>4. /\ x - y <= to_now - to_reset /\ (same => x - y = to_now - to_reset)
        /\ x \in Int /\ y \in Int
        /\ to_said' <=> to_rate'.count >= total \/ x - y >= waitmsecs
    BY <2>1, <2>2, <2>3 DEF x, y, same
  <2> QED  BY <2>3, <2>4 DEF same
<1> QED  BY <1>1, ToolInvInit, ToolInvNext, PTL DEF ToolSpec, RateCheckInTime

(* The sign of a comparison is that of the first fields that differ.       *)
LEMMA CompareIs ==
  ASSUME NEW a \in Nat, NEW b \in Nat, NEW l, NEW r,
         \A k \in a .. b : l[k] \in Int /\ r[k] \in Int
  PROVE  \/ /\ Compare(l, r, a .. b) = 0
            /\ \A k \in a .. b : l[k] = r[k]
         \/ /\ Compare(l, r, a .. b) = -1
            /\ \E k \in a .. b : l[k] < r[k] /\ \A i \in a .. k - 1 : l[i] = r[i]
         \/ /\ Compare(l, r, a .. b) = 1
            /\ \E k \in a .. b : r[k] < l[k] /\ \A i \in a .. k - 1 : l[i] = r[i]
<1> DEFINE differ == {k \in a .. b : l[k] # r[k]}
<1>1. CASE differ = {}
  BY <1>1 DEF Compare
<1>2. CASE differ # {}
  <2> DEFINE k == CHOOSE j \in differ : \A i \in differ : j <= i
  <2>1. \E j \in differ : \A i \in differ : j <= i
    <3>1. differ \subseteq Nat
      OBVIOUS
    <3> HIDE DEF differ
    <3> QED  BY <1>2, <3>1, SmallestOf
  <2>2. k \in differ /\ \A i \in differ : k <= i
    <3> HIDE DEF differ
    <3> QED  BY <2>1
  <2>3. Compare(l, r, a .. b) = IF l[k] < r[k] THEN -1 ELSE 1
    BY <1>2 DEF Compare
  <2> HIDE DEF k
  <2>4. k \in a .. b /\ l[k] # r[k] /\ \A i \in a .. k - 1 : l[i] = r[i]
    BY <2>2
  <2> HIDE DEF differ
  <2>5. l[k] \in Int /\ r[k] \in Int
    BY <2>4
  <2>6. CASE l[k] < r[k]
    BY <2>3, <2>4, <2>6
  <2>7. CASE r[k] < l[k]
    <3>1. ~ (l[k] < r[k])
      BY <2>5, <2>7
    <3> QED  BY <2>3, <2>4, <2>7, <3>1
  <2> QED  BY <2>4, <2>5, <2>6, <2>7
<1> QED  BY <1>1, <1>2

(* Turned round, a comparison turns its sign.                              *)
LEMMA CompareTurns ==
  ASSUME NEW a \in Nat, NEW b \in Nat, NEW l, NEW r,
         \A k \in a .. b : l[k] \in Int /\ r[k] \in Int
  PROVE  Compare(l, r, a .. b) = -Compare(r, l, a .. b)
<1>0. \A k \in a .. b : r[k] \in Int /\ l[k] \in Int
  OBVIOUS
<1> DEFINE c == Compare(l, r, a .. b)
           d == Compare(r, l, a .. b)
<1>1. \/ c = 0 /\ \A k \in a .. b : l[k] = r[k]
      \/ c = -1 /\ \E k \in a .. b : l[k] < r[k] /\ \A i \in a .. k - 1 : l[i] = r[i]
      \/ c = 1 /\ \E k \in a .. b : r[k] < l[k] /\ \A i \in a .. k - 1 : l[i] = r[i]
  BY CompareIs
<1>2. \/ d = 0 /\ \A k \in a .. b : l[k] = r[k]
      \/ d = -1 /\ \E k \in a .. b : r[k] < l[k] /\ \A i \in a .. k - 1 : l[i] = r[i]
      \/ d = 1 /\ \E k \in a .. b : l[k] < r[k] /\ \A i \in a .. k - 1 : l[i] = r[i]
  BY <1>0, CompareIs
<1> HIDE DEF c, d
<1>3. ASSUME NEW k \in a .. b, l[k] < r[k], \A i \in a .. k - 1 : l[i] = r[i],
             NEW j \in a .. b, r[j] < l[j], \A i \in a .. j - 1 : l[i] = r[i]
      PROVE  FALSE
  <2>1. CASE k < j
    BY <1>0, <1>3, <2>1
  <2>2. CASE j < k
    BY <1>0, <1>3, <2>2
  <2>3. CASE j = k
    BY <1>0, <1>3, <2>3
  <2> QED  BY <2>1, <2>2, <2>3
<1>4. ASSUME \A k \in a .. b : l[k] = r[k] PROVE c = -d
  BY <1>0, <1>1, <1>2, <1>4
<1>5. ASSUME \E k \in a .. b : l[k] < r[k] /\ \A i \in a .. k - 1 : l[i] = r[i] PROVE c = -d
  <2>1. c = -1
    BY <1>0, <1>1, <1>3, <1>5
  <2>2. d = 1
    BY <1>0, <1>2, <1>3, <1>5
  <2> QED  BY <2>1, <2>2
<1>6. ASSUME \E k \in a .. b : r[k] < l[k] /\ \A i \in a .. k - 1 : l[i] = r[i] PROVE c = -d
  <2>1. c = 1
    BY <1>0, <1>1, <1>3, <1>6
  <2>2. d = -1
    BY <1>0, <1>2, <1>3, <1>6
  <2>3. c \in Int /\ d \in Int /\ c + d = 0
    BY <2>1, <2>2
  <2>4. \A x \in Int, y \in Int : x + y = 0 => x = -y
    OBVIOUS
  <2> QED  BY <2>3, <2>4
<1>7. c = -d
  BY <1>1, <1>4, <1>5, <1>6
<1> QED  BY <1>7 DEF c, d

(* What is no later than what is no later is no later.                     *)
LEMMA CompareGoesOn ==
  ASSUME NEW a \in Nat, NEW b \in Nat, NEW l, NEW r, NEW t,
         \A k \in a .. b : l[k] \in Int /\ r[k] \in Int /\ t[k] \in Int,
         Compare(l, r, a .. b) <= 0, Compare(r, t, a .. b) <= 0
  PROVE  Compare(l, t, a .. b) <= 0
<1>0. /\ \A k \in a .. b : l[k] \in Int /\ r[k] \in Int
      /\ \A k \in a .. b : r[k] \in Int /\ t[k] \in Int
      /\ \A k \in a .. b : l[k] \in Int /\ t[k] \in Int
  OBVIOUS
<1> DEFINE c == Compare(l, r, a .. b)
           d == Compare(r, t, a .. b)
           e == Compare(l, t, a .. b)
<1>1. \/ c = 0 /\ \A k \in a .. b : l[k] = r[k]
      \/ c = -1 /\ \E k \in a .. b : l[k] < r[k] /\ \A i \in a .. k - 1 : l[i] = r[i]
      \/ c = 1
  BY <1>0, CompareIs
<1>2. \/ d = 0 /\ \A k \in a .. b : r[k] = t[k]
      \/ d = -1 /\ \E k \in a .. b : r[k] < t[k] /\ \A i \in a .. k - 1 : r[i] = t[i]
      \/ d = 1
  BY <1>0, CompareIs
<1>3. \/ e = 0
      \/ e = -1
      \/ e = 1 /\ \E k \in a .. b : t[k] < l[k] /\ \A i \in a .. k - 1 : l[i] = t[i]
  BY <1>0, CompareIs
<1>4. c <= 0 /\ d <= 0
  OBVIOUS
<1> HIDE DEF c, d, e
<1>5. \/ \A k \in a .. b : l[k] = r[k]
      \/ \E k \in a .. b : l[k] < r[k] /\ \A i \in a .. k - 1 : l[i] = r[i]
  BY <1>1, <1>4
<1>6. \/ \A k \in a .. b : r[k] = t[k]
      \/ \E k \in a .. b : r[k] < t[k] /\ \A i \in a .. k - 1 : r[i] = t[i]
  BY <1>2, <1>4
<1>7. ASSUME NEW k \in a .. b, t[k] < l[k], \A i \in a .. k - 1 : l[i] = t[i] PROVE FALSE
  <2>1. PICK m \in a .. b + 1 : /\ \A i \in a .. m - 1 : i \in a .. b => l[i] = r[i]
                                /\ m \in a .. b => l[m] < r[m]
    <3>1. CASE \A i \in a .. b : l[i] = r[i]
      <4>1. a <= b
        BY <1>7
      <4>2. b + 1 \in a .. b + 1 /\ b + 1 \notin a .. b
        BY <4>1
      <4> QED  BY <3>1, <4>2
    <3>2. CASE \E i \in a .. b : l[i] < r[i] /\ \A j \in a .. i - 1 : l[j] = r[j]
      BY <3>2
    <3> QED  BY <1>5, <3>1, <3>2
  <2>2. PICK n \in a .. b + 1 : /\ \A i \in a .. n - 1 : i \in a .. b => r[i] = t[i]
                                /\ n \in a .. b => r[n] < t[n]
    <3>1. CASE \A i \in a .. b : r[i] = t[i]
      <4>1. a <= b
        BY <1>7
      <4>2. b + 1 \in a .. b + 1 /\ b + 1 \notin a .. b
        BY <4>1
      <4> QED  BY <3>1, <4>2
    <3>2. CASE \E i \in a .. b : r[i] < t[i] /\ \A j \in a .. i - 1 : r[j] = t[j]
      BY <3>2
    <3> QED  BY <1>6, <3>1, <3>2
  <2>3. CASE k < m /\ k < n
    BY <1>0, <1>7, <2>1, <2>2, <2>3
  <2>4. CASE m <= k /\ m < n
    <3>1. m \in a .. b /\ l[m] < r[m] /\ r[m] = t[m]
      BY <2>1, <2>2, <2>4
    <3>2. m < k \/ m = k
      BY <2>4
    <3> QED  BY <1>0, <1>7, <3>1, <3>2
  <2>5. CASE n <= k /\ n < m
    <3>1. n \in a .. b /\ r[n] < t[n] /\ l[n] = r[n]
      BY <2>1, <2>2, <2>5
    <3>2. n < k \/ n = k
      BY <2>5
    <3> QED  BY <1>0, <1>7, <3>1, <3>2
  <2>6. CASE n = m /\ m <= k
    <3>1. m \in a .. b /\ l[m] < r[m] /\ r[m] < t[m]
      BY <2>1, <2>2, <2>6
    <3>2. m < k \/ m = k
      BY <2>6
    <3> QED  BY <1>0, <1>7, <3>1, <3>2
  <2> QED  BY <2>3, <2>4, <2>5, <2>6
<1>8. e <= 0
  BY <1>3, <1>7
<1> QED  BY <1>8 DEF e

(* What is asked of the three dates.                                       *)
LEMMA TheDatesAreOrdered ==
  ASSUME NEW l \in Dates, NEW r \in Dates, NEW t \in Dates
  PROVE  /\ mytime_cmp_sub(l, r) = -mytime_cmp_sub(r, l)
         /\ /\ ~ Undated(l) /\ ~ Undated(r) /\ ~ Undated(t)
            /\ mytime_cmp_sub(l, r) <= 0 /\ mytime_cmp_sub(r, t) <= 0
            => mytime_cmp_sub(l, t) <= 0
<1>1. ASSUME NEW d \in Dates PROVE /\ \A k \in 1 .. 6 : d[k] \in Int
                                   /\ \A k \in 4 .. 6 : d[k] \in Int
  <2>1. d \in Seq(Int) /\ Len(d) = 6
    BY ToolAssumption
  <2>2. \A k \in 1 .. 6 : d[k] \in Int
    BY <2>1, ElementOfSeq
  <2> QED  BY <2>2
<1>2. mytime_cmp_sub(l, r) = -mytime_cmp_sub(r, l)
  <2>1. CASE Undated(l) \/ Undated(r)
    <3>1. Compare(l, r, 4 .. 6) = -Compare(r, l, 4 .. 6)
      BY <1>1, CompareTurns
    <3> QED  BY <2>1, <3>1 DEF mytime_cmp_sub
  <2>2. CASE ~ (Undated(l) \/ Undated(r))
    <3>1. Compare(l, r, 1 .. 6) = -Compare(r, l, 1 .. 6)
      BY <1>1, CompareTurns
    <3> QED  BY <2>2, <3>1 DEF mytime_cmp_sub
  <2> QED  BY <2>1, <2>2
<1>3. ASSUME ~ Undated(l), ~ Undated(r), ~ Undated(t),
             mytime_cmp_sub(l, r) <= 0, mytime_cmp_sub(r, t) <= 0
      PROVE  mytime_cmp_sub(l, t) <= 0
  <2>1. Compare(l, r, 1 .. 6) <= 0 /\ Compare(r, t, 1 .. 6) <= 0
    BY <1>3 DEF mytime_cmp_sub
  <2>2. Compare(l, t, 1 .. 6) <= 0
    BY <1>1, <2>1, CompareGoesOn
  <2> QED  BY <1>3, <2>2 DEF mytime_cmp_sub
<1> QED  BY <1>2, <1>3

(* The dates stay as they were taken.                                      *)
LEMMA DatesAreKept == ToolSpec => [](to_part = "dates" => to_dates \in Dates \X Dates \X Dates)
<1>1. ToolInit => (to_part = "dates" => to_dates \in Dates \X Dates \X Dates)
  BY DEF ToolInit
<1>2. (to_part = "dates" => to_dates \in Dates \X Dates \X Dates) /\ [ToolNext]_toolVars
        => (to_part = "dates" => to_dates \in Dates \X Dates \X Dates)'
  BY DEF ToolNext, Passes, io_throughout_check, ratecheck_add, ratecheck_reset, toolVars
<1> QED  BY <1>1, <1>2, PTL DEF ToolSpec

(* Dates have one order, the calendar's, whichever three are compared.     *)
THEOREM DatesHaveOneOrder == ToolSpec => []DatesAreOrdered
<1>1. (to_part = "dates" => to_dates \in Dates \X Dates \X Dates) => DatesAreOrdered
  <2> SUFFICES ASSUME to_part = "dates", to_dates \in Dates \X Dates \X Dates
               PROVE  DatesAreOrdered
    BY DEF DatesAreOrdered
  <2> DEFINE l == to_dates[1]
             r == to_dates[2]
             t == to_dates[3]
  <2>1. l \in Dates /\ r \in Dates /\ t \in Dates
    OBVIOUS
  <2>2. /\ mytime_cmp_sub(l, r) = -mytime_cmp_sub(r, l)
        /\ /\ ~ Undated(l) /\ ~ Undated(r) /\ ~ Undated(t)
           /\ mytime_cmp_sub(l, r) <= 0 /\ mytime_cmp_sub(r, t) <= 0
           => mytime_cmp_sub(l, t) <= 0
    <3> HIDE DEF l, r, t
    <3> QED  BY <2>1, TheDatesAreOrdered
  <2> QED  BY <2>2 DEF DatesAreOrdered
<1> QED  BY <1>1, DatesAreKept, PTL

(* The seconds of a day, and those of a week.                              *)
LEMMA DayHasSeconds == OneDay \in Nat
BY DEF OneDay, OneHour

(* Hour, minute and second make a second of one day.                       *)
LEMMA SecondsOfTheDay ==
  ASSUME NEW h \in 0 .. 23, NEW m \in 0 .. 59, NEW s \in 0 .. 59
  PROVE  h * OneHour + m * 60 + s \in 0 .. OneDay - 1
<1>1. h * 3600 + m * 60 + s \in Int /\ h * 3600 + m * 60 + s >= 0
  BY SMT
<1>2. h * 3600 + m * 60 + s <= 24 * 3600 - 1
  BY SMT
<1> DEFINE x == h * OneHour + m * 60 + s
<1>3. x \in Int /\ x >= 0 /\ x <= OneDay - 1
  BY <1>1, <1>2, SMT DEF OneDay, OneHour
<1> HIDE DEF x
<1>4. x \in 0 .. OneDay - 1
  BY <1>3, DayHasSeconds
<1> QED  BY <1>4 DEF x

(* One day begins when the days before it are over.                        *)
LEMMA TimesOfOneDay ==
  ASSUME NEW d \in 0 .. 6, NEW e \in 0 .. 6, d < e
  PROVE  OneDay \in Nat /\ d * OneDay \in Nat /\ e * OneDay \in Nat
         /\ d * OneDay + OneDay <= e * OneDay
<1>1. OneDay \in Nat
  BY DayHasSeconds
<1>2. PICK k \in Nat : e = d + 1 + k
  <2>1. e - d - 1 \in Nat /\ e = d + 1 + (e - d - 1)
    OBVIOUS
  <2> QED  BY <2>1
<1>3. e * OneDay = d * OneDay + OneDay + k * OneDay /\ k * OneDay >= 0
  BY <1>1, <1>2
<1> QED  BY <1>1, <1>3

(* Who is on an earlier day, or earlier on the same day, has fewer seconds *)
(* of the week.                                                            *)
LEMMA SecondsOfTheWeek ==
  ASSUME NEW d \in 0 .. 6, NEW x \in 0 .. OneDay - 1, NEW e \in 0 .. 6, NEW y \in 0 .. OneDay - 1,
         d < e \/ (d = e /\ x < y)
  PROVE  d * OneDay + x < e * OneDay + y
<1>0. OneDay \in Nat
  BY DayHasSeconds
<1>1. ASSUME d < e PROVE d * OneDay + x < e * OneDay + y
  <2>1. d * OneDay \in Nat /\ e * OneDay \in Nat /\ d * OneDay + OneDay <= e * OneDay
    BY <1>1, TimesOfOneDay
  <2> DEFINE p == d * OneDay
             q == e * OneDay
  <2>2. p \in Nat /\ q \in Nat /\ p + OneDay <= q
    BY <2>1
  <2> HIDE DEF p, q
  <2>3. p + x < q + y
    BY <1>0, <2>2
  <2> QED  BY <2>3 DEF p, q
<1>2. ASSUME d = e, x < y PROVE d * OneDay + x < e * OneDay + y
  <2> DEFINE q == e * OneDay
  <2>1. q \in Nat
    BY <1>0
  <2> HIDE DEF q
  <2>2. q + x < q + y
    BY <1>0, <1>2, <2>1
  <2> QED  BY <1>2, <2>2 DEF q
<1> QED  BY <1>1, <1>2

(* The seconds of the week that are in a section of one day are those of   *)
(* its times on that day.                                                  *)
LEMMA SameDay ==
  ASSUME NEW e \in 0 .. 6, NEW h \in 0 .. OneDay - 1, NEW d \in 0 .. 6,
         NEW b \in 0 .. OneDay, NEW c \in 0 .. OneDay
  PROVE  e * OneDay + h \in d * OneDay + b + 1 .. d * OneDay + c - 1 <=> d = e /\ h > b /\ h < c
<1>0. OneDay \in Nat /\ d * OneDay \in Nat /\ e * OneDay \in Nat
  <2>1. OneDay \in Nat
    BY DayHasSeconds
  <2> QED  BY <2>1
<1>1. CASE d = e
  BY <1>0, <1>1
<1>2. CASE d < e
  <2>1. d * OneDay + OneDay <= e * OneDay
    BY <1>2, TimesOfOneDay
  <2> QED  BY <1>0, <1>2, <2>1
<1>3. CASE e < d
  <2>1. e * OneDay + OneDay <= d * OneDay
    BY <1>3, TimesOfOneDay
  <2> QED  BY <1>0, <1>3, <2>1
<1> QED  BY <1>1, <1>2, <1>3

(* The second of the week of a time.                                       *)
LEMMA SecondOfTheWeek ==
  ASSUME NEW t \in Clock
  PROVE  /\ t[4] \in 0 .. 23 /\ t[5] \in 0 .. 59 /\ t[6] \in 0 .. 59 /\ t[7] \in 0 .. 6
         /\ myweektime(t).days = {t[7]} /\ myweektime(t).time = t[4] * OneHour + t[5] * 60 + t[6]
         /\ sow_weektime(myweektime(t)) = t[7] * OneDay + (t[4] * OneHour + t[5] * 60 + t[6])
<1>1. t[4] \in 0 .. 23 /\ t[5] \in 0 .. 59 /\ t[6] \in 0 .. 59 /\ t[7] \in 0 .. 6
  BY TimeTextAssumption
<1>2. FirstDay({t[7]}) = t[7]
  <2>1. \A e \in {t[7]} : t[7] <= e
    BY <1>1
  <2> QED  BY <2>1 DEF FirstDay
<1>3. myweektime(t).days = {t[7]} /\ myweektime(t).time = t[4] * OneHour + t[5] * 60 + t[6]
  BY DEF myweektime, _DAYSECONDS
<1> QED  BY <1>1, <1>2, <1>3 DEF sow_weektime

(* The day and the time of the day, the day first.                         *)
LEMMA DayAndTime ==
  ASSUME NEW t \in Clock
  PROVE  LET x == <<t[7]>> \o SubSeq(t, 4, 6)
         IN  x[1] = t[7] /\ x[2] = t[4] /\ x[3] = t[5] /\ x[4] = t[6]
<1> DEFINE u == <<t[7]>>
           v == SubSeq(t, 4, 6)
<1>1. t \in Seq(Nat) /\ Len(t) = 7
  BY TimeTextAssumption
<1>0. \A i \in 1 .. 7 : t[i] \in Nat
  BY <1>1, ElementOfSeq
<1>2. u \in Seq(Nat) /\ Len(u) = 1 /\ u[1] = t[7]
  BY <1>0
<1>3. v \in Seq(Nat) /\ Len(v) = 3 /\ v[1] = t[4] /\ v[2] = t[5] /\ v[3] = t[6]
  <2>1. \A i \in 4 .. 6 : t[i] \in Nat
    BY <1>0
  <2>2. /\ v \in Seq(Nat) /\ Len(v) = IF 4 <= 6 THEN 6 - 4 + 1 ELSE 0
        /\ \A i \in 1 .. 6 - 4 + 1 : v[i] = t[4 + i - 1]
    BY <2>1, SubSeqProperties
  <2> HIDE DEF v
  <2>3. \A i \in 1 .. 3 : v[i] = t[i + 3]
    BY <2>2
  <2>4. v[1] = t[1 + 3] /\ v[2] = t[2 + 3] /\ v[3] = t[3 + 3]
    BY <2>3
  <2> QED  BY <2>2, <2>4
<1> HIDE DEF u, v
<1>4. /\ Len(u \o v) = Len(u) + Len(v)
      /\ \A i \in 1 .. Len(u) + Len(v) : (u \o v)[i] = IF i <= Len(u) THEN u[i] ELSE v[i - Len(u)]
  BY <1>2, <1>3, ConcatProperties
<1> DEFINE w == u \o v
<1>5. w[1] = u[1] /\ w[2] = v[1] /\ w[3] = v[2] /\ w[4] = v[3]
  <2>1. \A i \in 1 .. 4 : w[i] = IF i <= 1 THEN u[i] ELSE v[i - 1]
    <3>1. \A i \in 1 .. 1 + 3 : w[i] = IF i <= 1 THEN u[i] ELSE v[i - 1]
      BY <1>2, <1>3, <1>4, Zenon
    <3>2. \A i \in 1 .. 4 : i \in 1 .. 1 + 3
      OBVIOUS
    <3> QED  BY <3>1, <3>2, Zenon
  <2> HIDE DEF w
  <2>2. w[1] = u[1] /\ w[2] = v[2 - 1] /\ w[3] = v[3 - 1] /\ w[4] = v[4 - 1]
    BY <2>1
  <2> QED  BY <2>2
<1>6. LET x == u \o v IN x[1] = t[7] /\ x[2] = t[4] /\ x[3] = t[5] /\ x[4] = t[6]
  BY <1>2, <1>3, <1>5
<1> QED  BY <1>6 DEF u, v

(* The seconds of the week count as the clock does.                        *)
LEMMA TheWeekIsOrdered ==
  ASSUME NEW t \in Clock, NEW o \in Clock
  PROVE  sow_weektime(myweektime(t)) < sow_weektime(myweektime(o)) <=>
           Compare(<<t[7]>> \o SubSeq(t, 4, 6), <<o[7]>> \o SubSeq(o, 4, 6), 1 .. 4) = -1
<1> DEFINE x == <<t[7]>> \o SubSeq(t, 4, 6)
           y == <<o[7]>> \o SubSeq(o, 4, 6)
           c == Compare(x, y, 1 .. 4)
           m == sow_weektime(myweektime(t))
           n == sow_weektime(myweektime(o))
<1>1. /\ x[1] \in 0 .. 6 /\ x[2] \in 0 .. 23 /\ x[3] \in 0 .. 59 /\ x[4] \in 0 .. 59
      /\ m = x[1] * OneDay + (x[2] * OneHour + x[3] * 60 + x[4])
  BY SecondOfTheWeek, DayAndTime
<1>2. /\ y[1] \in 0 .. 6 /\ y[2] \in 0 .. 23 /\ y[3] \in 0 .. 59 /\ y[4] \in 0 .. 59
      /\ n = y[1] * OneDay + (y[2] * OneHour + y[3] * 60 + y[4])
  BY SecondOfTheWeek, DayAndTime
<1> HIDE DEF x, y, m, n
<1>3. \A k \in 1 .. 4 : x[k] \in Int /\ y[k] \in Int
  <2>1. \A k \in 1 .. 4 : k = 1 \/ k = 2 \/ k = 3 \/ k = 4
    OBVIOUS
  <2> QED  BY <1>1, <1>2, <2>1
<1>0. PICK a \in Nat, b \in Nat : a = 1 /\ b = 4
  OBVIOUS
<1>4. \/ c = 0 /\ \A k \in 1 .. 4 : x[k] = y[k]
      \/ c = -1 /\ \E k \in 1 .. 4 : x[k] < y[k] /\ \A i \in 1 .. k - 1 : x[i] = y[i]
      \/ c = 1 /\ \E k \in 1 .. 4 : y[k] < x[k] /\ \A i \in 1 .. k - 1 : x[i] = y[i]
  <2>1. \A k \in a .. b : x[k] \in Int /\ y[k] \in Int
    BY <1>0, <1>3
  <2> DEFINE f == Compare(x, y, a .. b)
  <2>2. \/ f = 0 /\ \A k \in a .. b : x[k] = y[k]
        \/ f = -1 /\ \E k \in a .. b : x[k] < y[k] /\ \A i \in a .. k - 1 : x[i] = y[i]
        \/ f = 1 /\ \E k \in a .. b : y[k] < x[k] /\ \A i \in a .. k - 1 : x[i] = y[i]
    BY <2>1, CompareIs
  <2>3. c = f
    BY <1>0
  <2> HIDE DEF c, f
  <2> QED  BY <1>0, <2>2, <2>3
<1> HIDE DEF c
<1>5. ASSUME NEW u, NEW v,
             u[1] \in 0 .. 6 /\ u[2] \in 0 .. 23 /\ u[3] \in 0 .. 59 /\ u[4] \in 0 .. 59,
             v[1] \in 0 .. 6 /\ v[2] \in 0 .. 23 /\ v[3] \in 0 .. 59 /\ v[4] \in 0 .. 59,
             NEW k \in 1 .. 4, u[k] < v[k], \A i \in 1 .. k - 1 : u[i] = v[i]
      PROVE  u[1] * OneDay + (u[2] * OneHour + u[3] * 60 + u[4])
               < v[1] * OneDay + (v[2] * OneHour + v[3] * 60 + v[4])
  <2>1. \/ u[1] < v[1]
        \/ u[1] = v[1] /\ u[2] < v[2]
        \/ u[1] = v[1] /\ u[2] = v[2] /\ u[3] < v[3]
        \/ u[1] = v[1] /\ u[2] = v[2] /\ u[3] = v[3] /\ u[4] < v[4]
    <3>1. k = 1 \/ k = 2 \/ k = 3 \/ k = 4
      OBVIOUS
    <3>2. CASE k = 1
      BY <1>5, <3>2
    <3>3. CASE k = 2
      BY <1>5, <3>3
    <3>4. CASE k = 3
      BY <1>5, <3>4
    <3>5. CASE k = 4
      BY <1>5, <3>5
    <3> QED  BY <3>1, <3>2, <3>3, <3>4, <3>5
  <2> DEFINE c1 == u[1]
             c2 == u[2]
             c3 == u[3]
             c4 == u[4]
             d1 == v[1]
             d2 == v[2]
             d3 == v[3]
             d4 == v[4]
  <2>2. /\ c1 \in 0 .. 6 /\ c2 \in 0 .. 23 /\ c3 \in 0 .. 59 /\ c4 \in 0 .. 59
        /\ d1 \in 0 .. 6 /\ d2 \in 0 .. 23 /\ d3 \in 0 .. 59 /\ d4 \in 0 .. 59
        /\ \/ c1 < d1
           \/ c1 = d1 /\ c2 < d2
           \/ c1 = d1 /\ c2 = d2 /\ c3 < d3
           \/ c1 = d1 /\ c2 = d2 /\ c3 = d3 /\ c4 < d4
    BY <1>5, <2>1
  <2> HIDE DEF c1, c2, c3, c4, d1, d2, d3, d4
  <2> DEFINE x1 == c2 * OneHour + c3 * 60 + c4
             y1 == d2 * OneHour + d3 * 60 + d4
  <2>2a. x1 \in 0 .. OneDay - 1 /\ y1 \in 0 .. OneDay - 1
    BY <2>2, SecondsOfTheDay
  <2>2b. ASSUME ~ (c1 < d1) PROVE c1 = d1 /\ x1 < y1
    <3>1. c1 = d1 /\ (c2 < d2 \/ (c2 = d2 /\ c3 < d3) \/ (c2 = d2 /\ c3 = d3 /\ c4 < d4))
      BY <2>2, <2>2b
    <3>2. c2 * 3600 + c3 * 60 + c4 < d2 * 3600 + d3 * 60 + d4
      BY <2>2, <3>1, SMT
    <3> QED  BY <3>1, <3>2 DEF OneHour
  <2> HIDE DEF x1, y1
  <2>3. c1 * OneDay + x1 < d1 * OneDay + y1
    BY <2>2, <2>2a, <2>2b, SecondsOfTheWeek
  <2> USE DEF x1, y1
  <2> QED  BY <2>3 DEF c1, c2, c3, c4, d1, d2, d3, d4
<1>6. (\A k \in 1 .. 4 : x[k] = y[k]) => m = n
  BY <1>1, <1>2
<1>7. (\E k \in 1 .. 4 : x[k] < y[k] /\ \A i \in 1 .. k - 1 : x[i] = y[i]) => m < n
  BY <1>1, <1>2, <1>5
<1>8. (\E k \in 1 .. 4 : y[k] < x[k] /\ \A i \in 1 .. k - 1 : x[i] = y[i]) => n < m
  BY <1>1, <1>2, <1>5
<1>9. m \in Int /\ n \in Int
  BY <1>1, <1>2
<1>10. m < n <=> c = -1
  BY <1>4, <1>6, <1>7, <1>8, <1>9
<1> QED  BY <1>10 DEF c, m, n, x, y

(* A time is in a section when its second of the week is, on one of the    *)
(* days of the section.                                                    *)
LEMMA TheSectionsAreMet ==
  ASSUME NEW t \in Clock, NEW s \in Sections
  PROVE  weektime_in(myweektime(t), s) <=>
           \E d \in s.days : sow_weektime(myweektime(t))
                               \in d * OneDay + s.start + 1 .. d * OneDay + s.end - 1
<1> DEFINE h == t[4] * OneHour + t[5] * 60 + t[6]
           e == t[7]
<1>1. /\ h \in 0 .. OneDay - 1 /\ e \in 0 .. 6
      /\ sow_weektime(myweektime(t)) = e * OneDay + h
      /\ myweektime(t).days = {e} /\ myweektime(t).time = h
  BY SecondOfTheWeek, SecondsOfTheDay
<1>2. s.days \subseteq 0 .. 6 /\ s.start \in 0 .. OneDay /\ s.end \in 0 .. OneDay
  BY TimeTextAssumption
<1> HIDE DEF h, e
<1>3. weektime_in(myweektime(t), s) <=> e \in s.days /\ h > s.start /\ h < s.end
  BY <1>1 DEF weektime_in
<1>4. \A d \in s.days : e * OneDay + h \in d * OneDay + s.start + 1 .. d * OneDay + s.end - 1
                          <=> d = e /\ h > s.start /\ h < s.end
  BY <1>1, <1>2, SameDay
<1> QED  BY <1>1, <1>3, <1>4

(* The clock is not turned.                                                *)
LEMMA ClockIsKept == TimeTextSpec => [](tt_clock \in Clock)
<1>1. TimeTextInit => tt_clock \in Clock
  BY DEF TimeTextInit
<1>2. tt_clock \in Clock /\ [TimeTextNext]_timeTextVars => (tt_clock \in Clock)'
  BY DEF TimeTextNext, TakeTime, mytime2str, AddBlank, CutText, str2mytime, timeTextVars
<1> QED  BY <1>1, <1>2, PTL DEF TimeTextSpec

(* The seconds of the week have the order of the clock, and the sections   *)
(* hold the times between their ends on their days.                        *)
THEOREM WeeksAreOrdered == TimeTextSpec => []WeekIsOrdered
<1>1. tt_clock \in Clock => WeekIsOrdered
  BY TheWeekIsOrdered, TheSectionsAreMet DEF WeekIsOrdered
<1> QED  BY <1>1, ClockIsKept, PTL

(* A text in which the fields of a time are written, the k-th at place     *)
(* at[k], or what is left of one that was cut: the separators behind them, *)
(* and blanks everywhere else.                                             *)
Separator == [k \in 1 .. 5 |-> IF k < 3 THEN dash ELSE IF k = 3 THEN blank ELSE colon]

Written(text, time, at) ==
  /\ at \in [1 .. 6 -> Nat] /\ time \in [1 .. 6 -> Nat] /\ text \in Seq(Int)
  /\ at[1] >= 1 /\ \A k \in 1 .. 5 : at[k] + 1 < at[k + 1]
  /\ \A k \in 1 .. 6 : at[k] <= Len(text) => text[at[k]] = time[k]
  /\ \A k \in 1 .. 5 : at[k] + 1 <= Len(text) => text[at[k] + 1] = Separator[k]
  /\ \A j \in 1 .. Len(text) :
       (\A k \in 1 .. 6 : j # at[k]) /\ (\A k \in 1 .. 5 : j # at[k] + 1) => text[j] = blank
  /\ Len(text) <= at[6]

(* The fields are written one behind the other.                            *)
LEMMA PlacesGrow ==
  ASSUME NEW at \in [1 .. 6 -> Nat], at[1] >= 1, \A k \in 1 .. 5 : at[k] + 1 < at[k + 1]
  PROVE  /\ \A k \in 1 .. 6 : at[k] \in Nat \ {0}
         /\ \A k \in 1 .. 6, m \in 1 .. 6 : k < m => at[k] + 1 < at[m]
         /\ \A k \in 1 .. 6, m \in 1 .. 6 : k <= m => at[k] <= at[m]
         /\ \A k \in 1 .. 6, m \in 1 .. 6 : at[k] # at[m] + 1
<1>1. at[1] >= 1
      /\ at[1] + 1 < at[2] /\ at[2] + 1 < at[3] /\ at[3] + 1 < at[4] /\ at[4] + 1 < at[5] /\ at[5] + 1 < at[6]
  <2>1. at[1] + 1 < at[1 + 1] /\ at[2] + 1 < at[2 + 1] /\ at[3] + 1 < at[3 + 1] /\ at[4] + 1 < at[4 + 1]
        /\ at[5] + 1 < at[5 + 1]
    OBVIOUS
  <2> QED  BY <2>1
<1>2. at[1] \in Nat /\ at[2] \in Nat /\ at[3] \in Nat /\ at[4] \in Nat /\ at[5] \in Nat /\ at[6] \in Nat
  OBVIOUS
<1>3. \A k \in 1 .. 6 : k \in {1, 2, 3, 4, 5, 6}
  OBVIOUS
<1>4. \A k \in {1, 2, 3, 4, 5, 6} : at[k] \in Nat \ {0}
  BY <1>1, <1>2
<1>5. \A k \in {1, 2, 3, 4, 5, 6}, m \in {1, 2, 3, 4, 5, 6} : k < m => at[k] + 1 < at[m]
  BY <1>1, <1>2
<1>6. \A k \in {1, 2, 3, 4, 5, 6}, m \in {1, 2, 3, 4, 5, 6} : k <= m => at[k] <= at[m]
  BY <1>1, <1>2
<1>7. \A k \in {1, 2, 3, 4, 5, 6}, m \in {1, 2, 3, 4, 5, 6} : at[k] # at[m] + 1
  BY <1>1, <1>2
<1> QED  BY <1>3, <1>4, <1>5, <1>6, <1>7

(* The first of some places.                                               *)
LEMMA FirstIs ==
  ASSUME NEW places, places \subseteq Nat \ {0}, NEW j \in places, \A k \in places : j <= k
  PROVE  FirstPlace(places) = j
<1>1. \A i \in places : (\A k \in places : i <= k) => i = j
  OBVIOUS
<1>2. \E i \in places : \A k \in places : i <= k
  OBVIOUS
<1> QED  BY <1>1, <1>2 DEF FirstPlace

(* What the searches find.                                                 *)
LEMMA NextIs ==
  ASSUME NEW i \in Nat \ {0}, NEW token, NEW j \in i .. Len(tt_text), Len(tt_text) \in Nat,
         tt_text[j] = token, \A k \in i .. j - 1 : tt_text[k] # token
  PROVE  NextOf(i, token) = j
<1> DEFINE places == {k \in i .. Len(tt_text) : tt_text[k] = token}
<1>1. places \subseteq Nat \ {0} /\ j \in places
  OBVIOUS
<1>2. \A k \in places : j <= k
  OBVIOUS
<1>3. FirstPlace(places) = j
  <2> HIDE DEF places
  <2> QED  BY <1>1, <1>2, FirstIs
<1> QED  BY <1>3 DEF NextOf

(* There is no next token where none is.                                   *)
LEMMA NextIsNone ==
  ASSUME NEW i \in Nat \ {0}, NEW token, \A k \in i .. Len(tt_text) : tt_text[k] # token
  PROVE  NextOf(i, token) = 0
<1>1. {k \in i .. Len(tt_text) : tt_text[k] = token} = {}
  OBVIOUS
<1> QED  BY <1>1 DEF NextOf, FirstPlace

(* The first token that is no blank, with only blanks before it.           *)
LEMMA NoBlankIs ==
  ASSUME NEW i \in Nat \ {0}, NEW j \in i .. Len(tt_text), Len(tt_text) \in Nat,
         tt_text[j] # blank, \A k \in i .. j - 1 : tt_text[k] = blank
  PROVE  NoBlank(i) = j
<1> DEFINE places == {k \in i .. Len(tt_text) : tt_text[k] # blank}
<1>1. places \subseteq Nat \ {0} /\ j \in places
  OBVIOUS
<1>2. \A k \in places : j <= k
  OBVIOUS
<1>3. FirstPlace(places) = j
  <2> HIDE DEF places
  <2> QED  BY <1>1, <1>2, FirstIs
<1> QED  BY <1>3 DEF NoBlank

(* Where only blanks are left, the search stops at the end of the text.    *)
LEMMA NoBlankIsNone ==
  ASSUME NEW i \in Nat \ {0}, \A k \in i .. Len(tt_text) : tt_text[k] = blank
  PROVE  NoBlank(i) = Len(tt_text) + 1
<1>1. {k \in i .. Len(tt_text) : tt_text[k] # blank} = {}
  OBVIOUS
<1> QED  BY <1>1 DEF NoBlank, FirstPlace

(* What the places are.                                                    *)
LEMMA PlacesOfFields ==
  ASSUME NEW text, NEW time, NEW at, Written(text, time, at)
  PROVE  /\ \A k \in 1 .. 6 : at[k] \in Nat \ {0} /\ time[k] \in Nat
         /\ Len(text) \in Nat
         /\ \A k \in 1 .. 6, m \in 1 .. 6 : k < m => at[k] + 1 < at[m]
         /\ \A k \in 1 .. 6, m \in 1 .. 6 : k <= m => at[k] <= at[m]
         /\ \A k \in 1 .. 6, m \in 1 .. 6 : at[k] # at[m] + 1
<1>1. /\ at \in [1 .. 6 -> Nat] /\ time \in [1 .. 6 -> Nat] /\ text \in Seq(Int)
      /\ at[1] >= 1 /\ \A k \in 1 .. 5 : at[k] + 1 < at[k + 1]
  BY DEF Written
<1>2. /\ \A k \in 1 .. 6 : at[k] \in Nat \ {0}
      /\ \A k \in 1 .. 6, m \in 1 .. 6 : k < m => at[k] + 1 < at[m]
      /\ \A k \in 1 .. 6, m \in 1 .. 6 : k <= m => at[k] <= at[m]
      /\ \A k \in 1 .. 6, m \in 1 .. 6 : at[k] # at[m] + 1
  BY <1>1, PlacesGrow
<1>3. Len(text) \in Nat /\ \A k \in 1 .. 6 : time[k] \in Nat
  BY <1>1, LenProperties
<1> QED  BY <1>2, <1>3

(* What stands in the text.                                                *)
LEMMA FieldsOfText ==
  ASSUME NEW text, NEW time, NEW at, Written(text, time, at)
  PROVE  /\ \A k \in 1 .. 6 : at[k] <= Len(text) => text[at[k]] = time[k]
         /\ \A k \in 1 .. 5 : at[k] + 1 <= Len(text) => text[at[k] + 1] = Separator[k]
         /\ \A j \in 1 .. Len(text) :
              (\A k \in 1 .. 6 : j # at[k]) /\ (\A k \in 1 .. 5 : j # at[k] + 1) => text[j] = blank
         /\ Len(text) <= at[6]
BY DEF Written

(* i is a place from which on the k-th field comes next.                   *)
ComesNext(at, k, i) ==
  i \in Nat \ {0} /\ i <= at[k] /\ \A m \in 1 .. k - 1 : at[m] + 1 < i

(* Between the end of a field and the next field are blanks only.          *)
LEMMA BlanksBefore ==
  ASSUME NEW text, NEW time, NEW at, Written(text, time, at), NEW k \in 1 .. 6, NEW i, ComesNext(at, k, i)
  PROVE  \A j \in i .. at[k] - 1 : j <= Len(text) => text[j] = blank
<1>1. /\ \A m \in 1 .. 6 : at[m] \in Nat \ {0}
      /\ \A m \in 1 .. 6, n \in 1 .. 6 : m <= n => at[m] <= at[n]
      /\ Len(text) \in Nat
  BY PlacesOfFields
<1>2. i \in Nat \ {0} /\ at[k] \in Nat
  BY <1>1 DEF ComesNext
<1>3. ASSUME NEW j \in i .. at[k] - 1, NEW m \in 1 .. 6
      PROVE  j # at[m] /\ j # at[m] + 1
  <2>1. at[k] <= at[m] \/ at[m] + 1 < i
    <3>1. k <= m \/ m \in 1 .. k - 1
      OBVIOUS
    <3>2. k <= m => at[k] <= at[m]
      BY <1>1
    <3>3. m \in 1 .. k - 1 => at[m] + 1 < i
      BY DEF ComesNext
    <3> QED  BY <3>1, <3>2, <3>3
  <2> DEFINE x == at[k]
             y == at[m]
  <2>2. j \in i .. x - 1 /\ x \in Nat /\ y \in Nat /\ (x <= y \/ y + 1 < i)
    BY <1>1, <1>2, <2>1
  <2> HIDE DEF x, y
  <2>3. j # y /\ j # y + 1
    BY <1>2, <2>2
  <2> QED  BY <2>3 DEF y
<1>4. ASSUME NEW j \in i .. at[k] - 1, j <= Len(text) PROVE text[j] = blank
  <2> DEFINE x == at[k]
             L == Len(text)
  <2>1. j \in i .. x - 1 /\ x \in Nat /\ j <= L /\ L \in Nat
    BY <1>1, <1>2, <1>4
  <2> HIDE DEF x, L
  <2>2. j \in 1 .. L
    BY <1>2, <2>1
  <2>3. \A m \in 1 .. 5 : m \in 1 .. 6
    OBVIOUS
  <2>4. (\A m \in 1 .. 6 : j # at[m]) /\ (\A m \in 1 .. 5 : j # at[m] + 1)
    BY <1>3, <2>3
  <2> QED  BY <2>2, <2>4, FieldsOfText DEF L
<1> QED  BY <1>4

(* From a field on it comes next itself, from behind its separator on the  *)
(* one that follows.                                                       *)
LEMMA FieldComes ==
  ASSUME NEW text, NEW time, NEW at, Written(text, time, at), NEW k \in 1 .. 6
  PROVE  ComesNext(at, k, at[k])
<1>1. \A m \in 1 .. 6 : at[m] \in Nat \ {0} /\ (m < k => at[m] + 1 < at[k])
  BY PlacesOfFields
<1>2. \A m \in 1 .. k - 1 : m \in 1 .. 6 /\ m < k
  OBVIOUS
<1>3. at[k] <= at[k]
  BY <1>1
<1> QED  BY <1>1, <1>2, <1>3 DEF ComesNext

(* The next field comes behind the separator of this one.                  *)
LEMMA FieldFollows ==
  ASSUME NEW text, NEW time, NEW at, Written(text, time, at), NEW k \in 1 .. 5, NEW n, n = k + 1
  PROVE  ComesNext(at, n, at[k] + 1 + 1)
<1>0. k \in 1 .. 6 /\ n \in 1 .. 6 /\ k < n
  OBVIOUS
<1>1. /\ \A m \in 1 .. 6 : at[m] \in Nat \ {0} /\ (m <= k => at[m] <= at[k])
      /\ at[k] + 1 < at[n]
  BY <1>0, PlacesOfFields
<1> DEFINE a == at[k]
           b == at[n]
           c == a + 1 + 1
<1>2. c \in Nat \ {0} /\ c <= b
  <2>1. a \in Nat /\ b \in Nat /\ a + 1 < b
    BY <1>0, <1>1
  <2> HIDE DEF a, b
  <2> QED  BY <2>1
<1>3. ASSUME NEW m \in 1 .. n - 1 PROVE at[m] + 1 < c
  <2>1. m \in 1 .. 6 /\ m <= k
    OBVIOUS
  <2> DEFINE d == at[m]
  <2>2. d \in Nat /\ a \in Nat /\ d <= a
    BY <1>0, <1>1, <2>1
  <2> HIDE DEF a, d
  <2>3. d + 1 < c
    BY <2>2
  <2> QED  BY <2>3 DEF d
<1> HIDE DEF c
<1>4. ComesNext(at, n, c)
  BY <1>2, <1>3 DEF ComesNext
<1> QED  BY <1>4 DEF c

(* A field is found where it is written, or at the end of what is left of  *)
(* the text.                                                               *)
LEMMA FieldIsFound ==
  ASSUME NEW time, NEW at, Written(tt_text, time, at), NEW k \in 1 .. 6, NEW i, ComesNext(at, k, i)
  PROVE  /\ at[k] <= Len(tt_text) => NoBlank(i) = at[k] /\ atoi(i) = time[k]
         /\ ~ (at[k] <= Len(tt_text)) => NoBlank(i) = Len(tt_text) + 1 /\ atoi(i) = 0
<1>1. Len(tt_text) \in Nat /\ at[k] \in Nat /\ time[k] \in Nat
  BY PlacesOfFields
<1>2. i \in Nat \ {0} /\ i <= at[k]
  BY DEF ComesNext
<1>3. \A j \in i .. at[k] - 1 : j <= Len(tt_text) => tt_text[j] = blank
  BY BlanksBefore
<1>4. at[k] <= Len(tt_text) => tt_text[at[k]] = time[k]
  BY FieldsOfText
<1> DEFINE a == at[k]
           t == time[k]
           L == Len(tt_text)
<1>5. /\ L \in Nat /\ a \in Nat /\ t \in Nat /\ i <= a
      /\ \A j \in i .. a - 1 : j <= L => tt_text[j] = blank
      /\ a <= L => tt_text[a] = t
  BY <1>1, <1>2, <1>3, <1>4
<1> HIDE DEF a, t
<1>6. ASSUME a <= L PROVE NoBlank(i) = a /\ atoi(i) = t
  <2>1. tt_text[a] # blank /\ tt_text[a] = t /\ Numeral(tt_text[a])
    BY <1>5, <1>6 DEF blank, Numeral
  <2>2. a \in i .. L /\ \A j \in i .. a - 1 : tt_text[j] = blank
    <3> HIDE DEF L
    <3> QED  BY <1>2, <1>5, <1>6
  <2>3. NoBlank(i) = a
    BY <1>2, <1>5, <2>1, <2>2, NoBlankIs
  <2> QED  BY <1>6, <2>1, <2>3 DEF atoi
<1>7. ASSUME ~ (a <= L) PROVE NoBlank(i) = L + 1 /\ atoi(i) = 0
  <2>1. \A j \in i .. L : tt_text[j] = blank
    <3> HIDE DEF L
    <3> QED  BY <1>2, <1>5, <1>7
  <2>2. NoBlank(i) = L + 1
    BY <1>2, <2>1, NoBlankIsNone
  <2>3. ~ (L + 1 <= L)
    BY <1>5
  <2> QED  BY <2>2, <2>3 DEF atoi
<1> QED  BY <1>6, <1>7 DEF a, t

(* The separator behind a field is the one that is next.                   *)
LEMMA SeparatorIsNext ==
  ASSUME NEW time, NEW at, Written(tt_text, time, at), NEW k \in 1 .. 5, at[k] <= Len(tt_text)
  PROVE  /\ at[k] + 1 <= Len(tt_text) => NextOf(at[k], Separator[k]) = at[k] + 1
         /\ ~ (at[k] + 1 <= Len(tt_text)) => NextOf(at[k], Separator[k]) = 0
<1>0. k \in 1 .. 6
  OBVIOUS
<1>1. Len(tt_text) \in Nat /\ at[k] \in Nat \ {0} /\ time[k] \in Nat
  BY <1>0, PlacesOfFields
<1>2. tt_text[at[k]] = time[k] /\ (at[k] + 1 <= Len(tt_text) => tt_text[at[k] + 1] = Separator[k])
  BY <1>0, FieldsOfText
<1>3. tt_text[at[k]] # Separator[k]
  <2>1. Separator[k] \in {dash, blank, colon}
    BY DEF Separator
  <2>2. \A n \in Nat : n \notin {dash, blank, colon}
    BY DEF dash, blank, colon
  <2> QED  BY <1>1, <1>2, <2>1, <2>2, Zenon
<1> DEFINE a == at[k]
           s == Separator[k]
           L == Len(tt_text)
<1>4. /\ L \in Nat /\ a \in Nat \ {0} /\ a <= L /\ tt_text[a] # s
      /\ a + 1 <= L => tt_text[a + 1] = s
  BY <1>1, <1>2, <1>3
<1> HIDE DEF a, s
<1>5. ASSUME a + 1 <= L PROVE NextOf(a, s) = a + 1
  <2> DEFINE b == a + 1
  <2>1. tt_text[b] = s /\ b \in a .. L /\ \A j \in a .. b - 1 : tt_text[j] # s
    <3> HIDE DEF L
    <3>1. \A j \in a .. b - 1 : j = a
      BY <1>4
    <3>2. b \in a .. L
      BY <1>4, <1>5
    <3> QED  BY <1>4, <1>5, <3>1, <3>2
  <2> HIDE DEF b
  <2>2. NextOf(a, s) = b
    BY <1>4, <2>1, NextIs
  <2> QED  BY <2>2 DEF b
<1>6. ASSUME ~ (a + 1 <= L) PROVE NextOf(a, s) = 0
  <2>1. \A j \in a .. L : tt_text[j] # s
    <3> HIDE DEF L
    <3>1. \A j \in a .. L : j = a
      BY <1>4, <1>6
    <3> QED  BY <1>4, <3>1
  <2> QED  BY <1>4, <2>1, NextIsNone
<1> QED  BY <1>5, <1>6 DEF a, s

(* What a search finds: the place a at which a field is written; at the    *)
(* end of what is left of the text if the search reached it (r); nothing   *)
(* if not.                                                                 *)
FoundAt(a, r, i) ==
  /\ a <= Len(tt_text) => r /\ i = a
  /\ ~ (a <= Len(tt_text)) /\ r => i = Len(tt_text) + 1
  /\ ~ r => i = 0

(* The first field is found.                                               *)
LEMMA FirstField ==
  ASSUME NEW time, NEW at, Written(tt_text, time, at)
  PROVE  FoundAt(at[1], TRUE, NoBlank(1))
<1>1. at[1] \in Nat \ {0}
  BY PlacesOfFields
<1>2. ComesNext(at, 1, 1)
  BY <1>1 DEF ComesNext
<1> QED  BY <1>2, FieldIsFound DEF FoundAt

(* When a field is found, so is the next one, unless the text ends before  *)
(* its separator.                                                          *)
LEMMA NextField ==
  ASSUME NEW time, NEW at, Written(tt_text, time, at), NEW k \in 1 .. 5,
         NEW r \in BOOLEAN, NEW i, FoundAt(at[k], r, i)
  PROVE  FoundAt(at[k + 1], at[k] + 1 <= Len(tt_text), BehindNext(i, Separator[k]))
<1>0. k \in 1 .. 6 /\ k + 1 \in 1 .. 6
  OBVIOUS
<1>1. /\ at[k] \in Nat \ {0} /\ at[k + 1] \in Nat /\ Len(tt_text) \in Nat
      /\ at[k] + 1 < at[k + 1] /\ \A m \in 1 .. 6 : at[m] \in Nat /\ (m <= k => at[m] <= at[k])
  <2>1. /\ \A m \in 1 .. 6 : at[m] \in Nat \ {0}
        /\ \A n \in 1 .. 6, m \in 1 .. 6 : n < m => at[n] + 1 < at[m]
        /\ \A n \in 1 .. 6, m \in 1 .. 6 : n <= m => at[n] <= at[m]
    BY PlacesOfFields
  <2>2. k < k + 1
    OBVIOUS
  <2>3. at[k] + 1 < at[k + 1]
    BY <1>0, <2>1, <2>2
  <2>4. Len(tt_text) \in Nat
    BY PlacesOfFields
  <2> QED  BY <1>0, <2>1, <2>3, <2>4
<1> DEFINE a == at[k]
           b == at[k + 1]
           L == Len(tt_text)
<1>2. a \in Nat \ {0} /\ b \in Nat /\ L \in Nat /\ a + 1 < b
  BY <1>1
<1>3. CASE at[k] <= Len(tt_text)
  <2>1. i = at[k]
    BY <1>3 DEF FoundAt
  <2>2. CASE at[k] + 1 <= Len(tt_text)
    <3>1. NextOf(i, Separator[k]) = at[k] + 1
      BY <1>3, <2>1, <2>2, SeparatorIsNext
    <3>2. BehindNext(i, Separator[k]) = NoBlank(at[k] + 1 + 1)
      <4>1. at[k] # 0 /\ at[k] + 1 # 0
        BY <1>1
      <4> QED  BY <2>1, <3>1, <4>1 DEF BehindNext
    <3> DEFINE c == a + 1 + 1
    <3>3. ComesNext(at, k + 1, c)
      BY FieldFollows
    <3> HIDE DEF c
    <3>4. /\ b <= L => NoBlank(c) = b
          /\ ~ (b <= L) => NoBlank(c) = L + 1
      BY <1>0, <3>3, FieldIsFound
    <3>5. BehindNext(i, Separator[k]) = NoBlank(c)
      BY <3>2 DEF c
    <3> QED  BY <2>2, <3>4, <3>5 DEF FoundAt
  <2>3. CASE ~ (at[k] + 1 <= Len(tt_text))
    <3>1. NextOf(i, Separator[k]) = 0
      BY <1>3, <2>1, <2>3, SeparatorIsNext
    <3>2. BehindNext(i, Separator[k]) = 0
      BY <3>1 DEF BehindNext
    <3>3. ~ (b <= L)
      <4>1. ~ (a + 1 <= L)
        BY <2>3
      <4> HIDE DEF a, b, L
      <4> QED  BY <1>2, <4>1
    <3> QED  BY <2>3, <3>2, <3>3 DEF FoundAt
  <2> QED  BY <2>2, <2>3
<1>4. CASE ~ (at[k] <= Len(tt_text))
  <2>1. i = 0 \/ i = L + 1
    BY <1>4 DEF FoundAt
  <2>2. BehindNext(i, Separator[k]) = 0
    <3>1. NextOf(L + 1, Separator[k]) = 0
      <4> DEFINE c == L + 1
      <4>1. c \in Nat \ {0} /\ c .. L = {}
        <5> HIDE DEF L
        <5> QED  BY <1>2
      <4>2. \A j \in c .. Len(tt_text) : tt_text[j] # Separator[k]
        BY <4>1
      <4> HIDE DEF c
      <4>3. NextOf(c, Separator[k]) = 0
        BY <4>1, <4>2, NextIsNone
      <4> QED  BY <4>3 DEF c
    <3> QED  BY <2>1, <3>1 DEF BehindNext
  <2>3. ~ (b <= L) /\ ~ (a + 1 <= L)
    <3>1. ~ (a <= L)
      BY <1>4
    <3> HIDE DEF a, b, L
    <3> QED  BY <1>2, <3>1
  <2>4. FoundAt(b, a + 1 <= L, BehindNext(i, Separator[k]))
    BY <2>2, <2>3 DEF FoundAt
  <2> QED  BY <2>4
<1> QED  BY <1>3, <1>4

(* What the fields are, and what is read of them.                          *)
LEMMA AllFields ==
  ASSUME NEW time, NEW at, Written(tt_text, time, at)
  PROVE  /\ Fields[1] # 0
         /\ \A k \in 1 .. 5 : Fields[k + 1] # 0 <=> at[k] + 1 <= Len(tt_text)
         /\ \A k \in 1 .. 6 : at[k] <= Len(tt_text) => Fields[k] = at[k]
         /\ \A k \in 1 .. 6 : ~ (at[k] <= Len(tt_text)) => Fields[k] \in {0, Len(tt_text) + 1}
<1> DEFINE L == Len(tt_text)
           year == NoBlank(1)
           month == BehindNext(year, dash)
           day == BehindNext(month, dash)
           hour == BehindNext(day, blank)
           minute == BehindNext(hour, colon)
           second == BehindNext(minute, colon)
<1>1. /\ Separator[1] = dash /\ Separator[2] = dash /\ Separator[3] = blank
      /\ Separator[4] = colon /\ Separator[5] = colon
  BY DEF Separator
<1>2. FoundAt(at[1], TRUE, year)
  BY FirstField
<1>3. FoundAt(at[2], at[1] + 1 <= L, month)
  <2>1. PICK k \in 1 .. 5 : k = 1 /\ k + 1 = 2
    OBVIOUS
  <2>2. PICK r \in BOOLEAN : r = (TRUE)
    OBVIOUS
  <2> HIDE DEF year
  <2>3. FoundAt(at[k], r, year)
    BY <1>2, <2>1, <2>2
  <2>4. FoundAt(at[k + 1], at[k] + 1 <= L, BehindNext(year, Separator[k]))
    BY <2>3, NextField
  <2>5. FoundAt(at[2], at[1] + 1 <= L, BehindNext(year, Separator[1]))
    BY <2>1, <2>4, Zenon
  <2> QED  BY <1>1, <2>5
<1>4. FoundAt(at[3], at[2] + 1 <= L, day)
  <2>1. PICK k \in 1 .. 5 : k = 2 /\ k + 1 = 3
    OBVIOUS
  <2>2. PICK r \in BOOLEAN : r = (at[1] + 1 <= L)
    <3>1. (at[1] + 1 <= L) \in BOOLEAN
      OBVIOUS
    <3> QED  BY <3>1, Zenon
  <2> HIDE DEF month
  <2>3. FoundAt(at[k], r, month)
    BY <1>3, <2>1, <2>2
  <2>4. FoundAt(at[k + 1], at[k] + 1 <= L, BehindNext(month, Separator[k]))
    BY <2>3, NextField
  <2>5. FoundAt(at[3], at[2] + 1 <= L, BehindNext(month, Separator[2]))
    BY <2>1, <2>4, Zenon
  <2> QED  BY <1>1, <2>5
<1>5. FoundAt(at[4], at[3] + 1 <= L, hour)
  <2>1. PICK k \in 1 .. 5 : k = 3 /\ k + 1 = 4
    OBVIOUS
  <2>2. PICK r \in BOOLEAN : r = (at[2] + 1 <= L)
    <3>1. (at[2] + 1 <= L) \in BOOLEAN
      OBVIOUS
    <3> QED  BY <3>1, Zenon
  <2> HIDE DEF day
  <2>3. FoundAt(at[k], r, day)
    BY <1>4, <2>1, <2>2
  <2>4. FoundAt(at[k + 1], at[k] + 1 <= L, BehindNext(day, Separator[k]))
    BY <2>3, NextField
  <2>5. FoundAt(at[4], at[3] + 1 <= L, BehindNext(day, Separator[3]))
    BY <2>1, <2>4, Zenon
  <2> QED  BY <1>1, <2>5
<1>6. FoundAt(at[5], at[4] + 1 <= L, minute)
  <2>1. PICK k \in 1 .. 5 : k = 4 /\ k + 1 = 5
    OBVIOUS
  <2>2. PICK r \in BOOLEAN : r = (at[3] + 1 <= L)
    <3>1. (at[3] + 1 <= L) \in BOOLEAN
      OBVIOUS
    <3> QED  BY <3>1, Zenon
  <2> HIDE DEF hour
  <2>3. FoundAt(at[k], r, hour)
    BY <1>5, <2>1, <2>2
  <2>4. FoundAt(at[k + 1], at[k] + 1 <= L, BehindNext(hour, Separator[k]))
    BY <2>3, NextField
  <2>5. FoundAt(at[5], at[4] + 1 <= L, BehindNext(hour, Separator[4]))
    BY <2>1, <2>4, Zenon
  <2> QED  BY <1>1, <2>5
<1>7. FoundAt(at[6], at[5] + 1 <= L, second)
  <2>1. PICK k \in 1 .. 5 : k = 5 /\ k + 1 = 6
    OBVIOUS
  <2>2. PICK r \in BOOLEAN : r = (at[4] + 1 <= L)
    <3>1. (at[4] + 1 <= L) \in BOOLEAN
      OBVIOUS
    <3> QED  BY <3>1, Zenon
  <2> HIDE DEF minute
  <2>3. FoundAt(at[k], r, minute)
    BY <1>6, <2>1, <2>2
  <2>4. FoundAt(at[k + 1], at[k] + 1 <= L, BehindNext(minute, Separator[k]))
    BY <2>3, NextField
  <2>5. FoundAt(at[6], at[5] + 1 <= L, BehindNext(minute, Separator[5]))
    BY <2>1, <2>4, Zenon
  <2> QED  BY <1>1, <2>5
<1>8. /\ Fields[1] = year /\ Fields[2] = month /\ Fields[3] = day
      /\ Fields[4] = hour /\ Fields[5] = minute /\ Fields[6] = second
  <2> HIDE DEF year, month, day, hour, minute, second
  <2>1. Fields = <<year, month, day, hour, minute, second>>
    BY DEF Fields, year, month, day, hour, minute, second
  <2> QED  BY <2>1
<1> HIDE DEF year, month, day, hour, minute, second
<1>9. L \in Nat /\ \A k \in 1 .. 6 : at[k] \in Nat \ {0}
  BY PlacesOfFields
<1> DEFINE Reached(k) == IF k = 1 THEN TRUE ELSE at[k - 1] + 1 <= L
<1>10. \A k \in 1 .. 6 : FoundAt(at[k], Reached(k), Fields[k])
  <2>1. FoundAt(at[1], Reached(1), Fields[1])
    BY <1>2, <1>8
  <2>2. FoundAt(at[2], at[2 - 1] + 1 <= L, Fields[2]) /\ FoundAt(at[3], at[3 - 1] + 1 <= L, Fields[3])
        /\ FoundAt(at[4], at[4 - 1] + 1 <= L, Fields[4]) /\ FoundAt(at[5], at[5 - 1] + 1 <= L, Fields[5])
        /\ FoundAt(at[6], at[6 - 1] + 1 <= L, Fields[6])
    BY <1>3, <1>4, <1>5, <1>6, <1>7, <1>8
  <2>3. \A k \in 1 .. 6 : k = 1 \/ k = 2 \/ k = 3 \/ k = 4 \/ k = 5 \/ k = 6
    OBVIOUS
  <2> QED  BY <2>1, <2>2, <2>3
<1>11. \A k \in 1 .. 6 : Fields[k] # 0 <=> Reached(k)
  <2> SUFFICES ASSUME NEW k \in 1 .. 6 PROVE Fields[k] # 0 <=> Reached(k)
    OBVIOUS
  <2>0. at[k] # 0 /\ L + 1 # 0
    BY <1>9
  <2> HIDE DEF Reached
  <2>1. FoundAt(at[k], Reached(k), Fields[k]) /\ at[k] # 0 /\ L + 1 # 0
    BY <1>10, <2>0
  <2> QED  BY <2>1 DEF FoundAt
<1>12. \A k \in 1 .. 5 : Fields[k + 1] # 0 <=> at[k] + 1 <= L
  <2> SUFFICES ASSUME NEW k \in 1 .. 5 PROVE Fields[k + 1] # 0 <=> at[k] + 1 <= L
    OBVIOUS
  <2>1. k + 1 \in 1 .. 6 /\ k + 1 # 1 /\ k + 1 - 1 = k
    OBVIOUS
  <2>2. Reached(k + 1) <=> at[k] + 1 <= L
    BY <2>1
  <2> QED  BY <1>11, <2>1, <2>2
<1>13. Fields[1] # 0
  BY <1>11
<1>14. \A k \in 1 .. 6 : at[k] <= L => Fields[k] = at[k]
  BY <1>10 DEF FoundAt
<1>15. \A k \in 1 .. 6 : ~ (at[k] <= L) => Fields[k] \in {0, L + 1}
  BY <1>10 DEF FoundAt
<1> QED  BY <1>12, <1>13, <1>14, <1>15

(* A field that is found has the number that was written; one whose        *)
(* numeral was cut off reads as 0.                                         *)
LEMMA NumbersAreRead ==
  ASSUME NEW time, NEW at, Written(tt_text, time, at), NEW k \in 1 .. 6, Fields[k] # 0
  PROVE  /\ at[k] <= Len(tt_text) => atoi(Fields[k]) = time[k]
         /\ ~ (at[k] <= Len(tt_text)) => atoi(Fields[k]) = 0
<1>1. CASE at[k] <= Len(tt_text)
  <2>1. Fields[k] = at[k]
    BY <1>1, AllFields
  <2>5. ComesNext(at, k, at[k])
    BY FieldComes
  <2>6. atoi(at[k]) = time[k]
    BY <1>1, <2>5, FieldIsFound
  <2> QED  BY <1>1, <2>1, <2>6
<1>2. CASE ~ (at[k] <= Len(tt_text))
  <2> DEFINE c == Len(tt_text) + 1
  <2>1. Fields[k] = c
    BY <1>2, AllFields
  <2>2. Len(tt_text) \in Nat
    BY PlacesOfFields
  <2>3. c \in Nat \ {0} /\ c .. Len(tt_text) = {} /\ ~ (c <= Len(tt_text))
    BY <2>2
  <2>4. NoBlank(c) = Len(tt_text) + 1
    <3>1. \A j \in c .. Len(tt_text) : tt_text[j] = blank
      BY <2>3
    <3> HIDE DEF c
    <3> QED  BY <2>3, <3>1, NoBlankIsNone
  <2>5. atoi(c) = 0
    <3>1. NoBlank(c) = c
      BY <2>4
    <3> HIDE DEF c
    <3> QED  BY <2>3, <3>1 DEF atoi
  <2> QED  BY <1>2, <2>1, <2>5
<1> QED  BY <1>1, <1>2

(* What the searches find is there.                                        *)
LEMMA FirstThere ==
  ASSUME NEW places, places \subseteq Nat \ {0}
  PROVE  /\ places # {} => FirstPlace(places) \in places /\ \A k \in places : FirstPlace(places) <= k
         /\ FirstPlace(places) # 0 <=> places # {}
<1>1. CASE places = {}
  BY <1>1 DEF FirstPlace
<1>2. CASE places # {}
  <2>1. PICK j \in places : \A k \in places : j <= k
    <3>1. places \subseteq Nat
      OBVIOUS
    <3> QED  BY <1>2, <3>1, SmallestOf
  <2>2. FirstPlace(places) = j
    BY <2>1, FirstIs
  <2> QED  BY <1>2, <2>1, <2>2
<1> QED  BY <1>1, <1>2

(* The next token is where it is found.                                    *)
LEMMA NextThere ==
  ASSUME NEW i \in Nat \ {0}, NEW token, NextOf(i, token) # 0
  PROVE  NextOf(i, token) \in i .. Len(tt_text) /\ tt_text[NextOf(i, token)] = token
<1> DEFINE places == {j \in i .. Len(tt_text) : tt_text[j] = token}
<1>1. places \subseteq Nat \ {0}
  OBVIOUS
<1>2. FirstPlace(places) \in places
  <2>1. FirstPlace(places) # 0
    BY DEF NextOf
  <2> HIDE DEF places
  <2> QED  BY <1>1, <2>1, FirstThere
<1> QED  BY <1>2 DEF NextOf

(* The search for the next field stops at no later place than a token that *)
(* is no blank.                                                            *)
LEMMA NoBlankThere ==
  ASSUME NEW i \in Nat \ {0}, Len(tt_text) \in Nat
  PROVE  /\ NoBlank(i) \in Nat
         /\ NoBlank(i) <= Len(tt_text) => NoBlank(i) \in i .. Len(tt_text)
         /\ \A j \in i .. Len(tt_text) : tt_text[j] # blank => NoBlank(i) \in i .. j
<1> DEFINE places == {j \in i .. Len(tt_text) : tt_text[j] # blank}
           f == FirstPlace(places)
<1>1. places \subseteq Nat \ {0}
  OBVIOUS
<1>2. /\ places # {} => f \in places /\ \A k \in places : f <= k
      /\ f # 0 <=> places # {}
  <2> HIDE DEF places
  <2> QED  BY <1>1, FirstThere
<1>3. NoBlank(i) = IF f = 0 THEN Len(tt_text) + 1 ELSE f
  BY DEF NoBlank
<1> HIDE DEF f
<1>4. CASE places = {}
  <2>1. NoBlank(i) = Len(tt_text) + 1
    BY <1>2, <1>3, <1>4
  <2> QED  BY <1>4, <2>1
<1>5. CASE places # {}
  <2>1. NoBlank(i) = f /\ f \in places /\ \A k \in places : f <= k
    BY <1>2, <1>3, <1>5
  <2> QED  BY <2>1
<1> QED  BY <1>4, <1>5

(* The colons stand behind the hour and the minute.                        *)
LEMMA ColonsAre ==
  ASSUME NEW time, NEW at, Written(tt_text, time, at)
  PROVE  /\ at[4] + 1 \in Nat \ {0} /\ at[5] + 1 \in Nat /\ at[4] + 1 < at[5] + 1
         /\ \A j \in 1 .. Len(tt_text) : tt_text[j] = colon <=> j = at[4] + 1 \/ j = at[5] + 1
<1>1. /\ \A k \in 1 .. 6 : at[k] \in Nat \ {0} /\ time[k] \in Nat
      /\ at[4] + 1 < at[5]
      /\ Len(tt_text) \in Nat
  BY PlacesOfFields
<1>2. at[4] + 1 \in Nat \ {0} /\ at[5] + 1 \in Nat /\ at[4] + 1 < at[5] + 1
  <2> DEFINE a == at[4]
             b == at[5]
  <2>1. a \in Nat /\ b \in Nat /\ a + 1 < b
    BY <1>1
  <2> HIDE DEF a, b
  <2>2. a + 1 \in Nat \ {0} /\ b + 1 \in Nat /\ a + 1 < b + 1
    BY <2>1
  <2> QED  BY <2>2 DEF a, b
<1>3. ASSUME NEW j \in 1 .. Len(tt_text), j = at[4] + 1 \/ j = at[5] + 1 PROVE tt_text[j] = colon
  <2>1. Separator[4] = colon /\ Separator[5] = colon
    BY DEF Separator
  <2>2. CASE j = at[4] + 1
    <3>1. at[4] + 1 <= Len(tt_text)
      BY <2>2
    <3> QED  BY <2>1, <2>2, <3>1, FieldsOfText
  <2>3. CASE j = at[5] + 1
    <3>1. at[5] + 1 <= Len(tt_text)
      BY <2>3
    <3> QED  BY <2>1, <2>3, <3>1, FieldsOfText
  <2> QED  BY <1>3, <2>2, <2>3
<1>4. ASSUME NEW j \in 1 .. Len(tt_text), tt_text[j] = colon PROVE j = at[4] + 1 \/ j = at[5] + 1
  <2>1. ASSUME NEW k \in 1 .. 6 PROVE j # at[k]
    <3> SUFFICES ASSUME j = at[k] PROVE FALSE
      OBVIOUS
    <3>1. tt_text[at[k]] = time[k]
      <4>1. at[k] <= Len(tt_text)
        OBVIOUS
      <4> QED  BY <4>1, FieldsOfText
    <3>2. colon \notin Nat
      BY DEF colon
    <3> QED  BY <1>1, <1>4, <3>1, <3>2, Zenon
  <2>2. ~ (\A k \in 1 .. 5 : j # at[k] + 1)
    <3> SUFFICES ASSUME \A k \in 1 .. 5 : j # at[k] + 1 PROVE FALSE
      OBVIOUS
    <3>1. colon # blank
      BY DEF colon, blank
    <3>2. \A k \in 1 .. 6 : j # at[k]
      BY <2>1
    <3>3. tt_text[j] = blank
      BY <3>2, FieldsOfText
    <3> QED  BY <1>4, <3>1, <3>3
  <2>3. PICK k \in 1 .. 5 : j = at[k] + 1
    BY <2>2
  <2>4. Separator[k] = colon
    <3>1. at[k] + 1 <= Len(tt_text)
      BY <2>3
    <3> QED  BY <1>4, <2>3, <3>1, FieldsOfText
  <2>5. k = 4 \/ k = 5
    <3>1. colon # dash /\ colon # blank
      BY DEF colon, blank, dash
    <3> QED  BY <2>4, <3>1 DEF Separator
  <2> QED  BY <2>3, <2>5
<1> QED  BY <1>2, <1>3, <1>4

(* There are two of them behind i, or less.                                *)
LEMMA ColonsBehind ==
  ASSUME NEW time, NEW at, Written(tt_text, time, at), NEW i \in 1 .. Len(tt_text)
  PROVE  Cardinality({j \in i .. Len(tt_text) : tt_text[j] = colon}) = 2
           <=> at[4] + 1 \in i .. Len(tt_text) /\ at[5] + 1 \in i .. Len(tt_text)
<1> DEFINE c == at[4] + 1
           d == at[5] + 1
           L == Len(tt_text)
           colons == {j \in i .. L : tt_text[j] = colon}
<1>1. L \in Nat
  BY PlacesOfFields
<1>2. c \in Nat \ {0} /\ d \in Nat /\ c < d /\ \A j \in 1 .. L : tt_text[j] = colon <=> j = c \/ j = d
  BY ColonsAre
<1> HIDE DEF c, d, L
<1>3. colons = {j \in {c, d} : j \in i .. L}
  BY <1>1, <1>2 DEF L
<1>4. c # d
  BY <1>2
<1> HIDE DEF colons
<1>5. CASE c \in i .. L /\ d \in i .. L
  <2>1. colons = {c, d}
    BY <1>3, <1>5
  <2>2. Cardinality({c, d}) = 2
    <3>1. Cardinality({c}) = 1 /\ IsFiniteSet({c})
      BY FS_Singleton
    <3>2. Cardinality({c} \cup {d}) = Cardinality({c}) + 1
      BY <1>4, <3>1, FS_AddElement
    <3>3. {c, d} = {c} \cup {d}
      OBVIOUS
    <3> QED  BY <3>1, <3>2, <3>3
  <2> QED  BY <1>5, <2>1, <2>2 DEF colons, c, d, L
<1>6. CASE ~ (c \in i .. L /\ d \in i .. L)
  <2>1. PICK e \in {c, d} : colons \subseteq {e}
    BY <1>3, <1>6
  <2>2. Cardinality({e}) = 1 /\ IsFiniteSet({e})
    BY FS_Singleton
  <2>3. Cardinality(colons) <= 1 /\ Cardinality(colons) \in Nat
    <3>1. IsFiniteSet(colons) /\ Cardinality(colons) <= Cardinality({e})
      BY <2>1, <2>2, FS_Subset
    <3> QED  BY <2>2, <3>1, FS_CardinalityType
  <2>4. Cardinality(colons) # 2
    BY <2>3
  <2> QED  BY <1>6, <2>4 DEF colons, c, d, L
<1> QED  BY <1>5, <1>6

(* The hour, the minute and the second are taken when both are there.      *)
LEMMA ColonsAreFound ==
  ASSUME NEW time, NEW at, Written(tt_text, time, at), NEW i \in 1 .. Len(tt_text),
         at[4] + 1 \in i .. Len(tt_text), at[5] + 1 \in i .. Len(tt_text)
  PROVE  /\ NoBlank(i) <= Len(tt_text)
         /\ NextOf(NoBlank(i), colon) = at[4] + 1
         /\ NextOf(at[4] + 1 + 1, colon) = at[5] + 1
<1> DEFINE c == at[4] + 1
           d == at[5] + 1
           L == Len(tt_text)
           h == NoBlank(i)
<1>1. L \in Nat
  BY PlacesOfFields
<1>2. c \in Nat \ {0} /\ d \in Nat /\ c < d /\ \A j \in 1 .. L : tt_text[j] = colon <=> j = c \/ j = d
  BY ColonsAre
<1>3. c \in i .. L /\ d \in i .. L /\ i \in Nat \ {0}
  OBVIOUS
<1> HIDE DEF c, d, h
<1>4. tt_text[c] = colon /\ tt_text[d] = colon
  BY <1>1, <1>2, <1>3
<1>5. h \in i .. c
  <2>1. colon # blank
    BY DEF colon, blank
  <2> QED  BY <1>1, <1>3, <1>4, <2>1, NoBlankThere DEF h
<1>6. NextOf(h, colon) = c
  <2>1. /\ h \in Nat \ {0} /\ c \in h .. L
        /\ \A j \in h .. c - 1 : j \in 1 .. L /\ j # c /\ j # d
    <3> HIDE DEF L
    <3> QED  BY <1>1, <1>2, <1>3, <1>5
  <2>2. \A j \in h .. c - 1 : tt_text[j] # colon
    BY <1>2, <2>1
  <2> QED  BY <1>1, <1>4, <2>1, <2>2, NextIs
<1>7. NextOf(c + 1, colon) = d
  <2> DEFINE e == c + 1
  <2>1. /\ e \in Nat \ {0} /\ d \in e .. L
        /\ \A j \in e .. d - 1 : j \in 1 .. L /\ j # c /\ j # d
    <3> HIDE DEF L
    <3> QED  BY <1>1, <1>2, <1>3
  <2> HIDE DEF e
  <2>2. \A j \in e .. d - 1 : tt_text[j] # colon
    BY <1>2, <2>1
  <2>3. NextOf(e, colon) = d
    BY <1>1, <1>4, <2>1, <2>2, NextIs
  <2> QED  BY <2>3 DEF e
<1>8. h <= L
  <2> HIDE DEF L
  <2> QED  BY <1>1, <1>2, <1>3, <1>5
<1> QED  BY <1>6, <1>7, <1>8 DEF c, d, h

(* The three fields of an hour are read exactly where two colons follow.   *)
LEMMA HoursAreFound ==
  ASSUME NEW time, NEW at, Written(tt_text, time, at), NEW i \in 1 .. Len(tt_text)
  PROVE  str2hms(i).rt = 1 <=> Cardinality({j \in i .. Len(tt_text) : tt_text[j] = colon}) = 2
<1> DEFINE c == at[4] + 1
           d == at[5] + 1
           L == Len(tt_text)
           h == NoBlank(i)
           m == NextOf(h, colon)
           s == NextOf(m + 1, colon)
<1>1. L \in Nat /\ i \in Nat \ {0}
  BY PlacesOfFields
<1>2. c \in Nat \ {0} /\ d \in Nat /\ c < d /\ \A j \in 1 .. L : tt_text[j] = colon <=> j = c \/ j = d
  BY ColonsAre
<1>3. str2hms(i).rt = 1 <=> ~ (h > L \/ m = 0 \/ s = 0)
  BY DEF str2hms
<1>4. ASSUME c \in i .. L, d \in i .. L PROVE ~ (h > L \/ m = 0 \/ s = 0)
  <2>1. h <= L /\ m = c /\ NextOf(c + 1, colon) = d
    BY <1>4, ColonsAreFound
  <2>2. s = d
    BY <2>1
  <2>3. h \in i .. L
    BY <1>1, <2>1, NoBlankThere
  <2> HIDE DEF h, m, s, c, d, L
  <2> QED  BY <1>1, <1>2, <2>1, <2>2, <2>3
<1>5. ASSUME ~ (h > L), m # 0, s # 0 PROVE c \in i .. L /\ d \in i .. L
  <2>1. h \in i .. L
    <3>1. h \in Int
      BY <1>1, NoBlankThere
    <3>2. h <= L
      BY <1>1, <1>5, <3>1
    <3> QED  BY <1>1, <3>2, NoBlankThere
  <2> HIDE DEF h
  <2>2. h \in Nat \ {0}
    BY <1>1, <2>1
  <2>3. m \in h .. L /\ tt_text[m] = colon
    BY <1>5, <2>2, NextThere
  <2> HIDE DEF m
  <2>4. m + 1 \in Nat \ {0}
    BY <2>2, <2>3
  <2>5. s \in m + 1 .. L /\ tt_text[s] = colon
    <3> DEFINE e == m + 1
    <3> HIDE DEF e
    <3>1. NextOf(e, colon) # 0 => NextOf(e, colon) \in e .. L /\ tt_text[NextOf(e, colon)] = colon
      BY <2>4, NextThere DEF e
    <3> QED  BY <1>5, <3>1 DEF e
  <2> HIDE DEF s
  <2>6. m \in 1 .. L /\ s \in 1 .. L /\ m < s /\ i <= m
    <3> HIDE DEF L
    <3> QED  BY <1>1, <2>1, <2>3, <2>5
  <2>7. (m = c \/ m = d) /\ (s = c \/ s = d)
    BY <1>2, <2>3, <2>5, <2>6
  <2> HIDE DEF c, d, L
  <2> QED  BY <1>1, <1>2, <2>6, <2>7
<1>6. str2hms(i).rt = 1 <=> c \in i .. L /\ d \in i .. L
  <2> HIDE DEF h, m, s, c, d, L
  <2> QED  BY <1>3, <1>4, <1>5, Zenon
<1> QED  BY <1>6, ColonsBehind

(* The end of a whole text, from its hour on.                              *)
LEMMA HoursAreRead ==
  ASSUME NEW time, NEW at, Written(tt_text, time, at), at[6] = Len(tt_text)
  PROVE  /\ Fields[4] = at[4] /\ Fields[4] \in 1 .. Len(tt_text)
         /\ str2hms(Fields[4]) = [rt |-> 1, hms |-> SubSeq(time, 4, 6)]
<1> DEFINE L == Len(tt_text)
<1>1. /\ \A k \in 1 .. 6 : at[k] \in Nat \ {0} /\ time[k] \in Nat
      /\ at[4] + 1 < at[5] /\ at[5] + 1 < at[6]
      /\ \A k \in 1 .. 6, m \in 1 .. 6 : k < m => at[k] + 1 < at[m]
      /\ \A k \in 1 .. 6, m \in 1 .. 6 : k <= m => at[k] <= at[m]
      /\ L \in Nat
  BY PlacesOfFields
<1>2. /\ at[4] \in 1 .. L /\ at[5] \in 1 .. L /\ at[6] \in 1 .. L
      /\ at[4] + 1 \in at[4] .. L /\ at[5] + 1 \in at[4] .. L
  <2> DEFINE a == at[4]
             b == at[5]
             c == at[6]
  <2>1. a \in Nat \ {0} /\ b \in Nat \ {0} /\ c \in Nat \ {0} /\ c = L /\ a + 1 < b /\ b + 1 < c
    BY <1>1
  <2> HIDE DEF a, b, c, L
  <2>2. a \in 1 .. L /\ b \in 1 .. L /\ c \in 1 .. L /\ a + 1 \in a .. L /\ b + 1 \in a .. L
    BY <2>1
  <2> QED  BY <2>2 DEF a, b, c
<1>3. Fields[4] = at[4]
  BY <1>2, AllFields
<1> DEFINE i == at[4]
<1>4. NoBlank(i) <= L /\ NextOf(NoBlank(i), colon) = at[4] + 1 /\ NextOf(at[4] + 1 + 1, colon) = at[5] + 1
  BY <1>2, ColonsAreFound
<1>5. atoi(at[4]) = time[4]
  <2>2. ComesNext(at, 4, at[4])
    BY FieldComes
  <2> QED  BY <1>2, <2>2, FieldIsFound
<1>6. atoi(at[4] + 1 + 1) = time[5]
  <2>0. 5 = 4 + 1
    OBVIOUS
  <2>1. ComesNext(at, 5, at[4] + 1 + 1)
    BY <2>0, FieldFollows
  <2> QED  BY <1>2, <2>1, FieldIsFound
<1>7. atoi(at[5] + 1 + 1) = time[6]
  <2>0. 6 = 5 + 1
    OBVIOUS
  <2>1. ComesNext(at, 6, at[5] + 1 + 1)
    BY <2>0, FieldFollows
  <2> QED  BY <1>2, <2>1, FieldIsFound
<1>8. <<time[4], time[5], time[6]>> = SubSeq(time, 4, 6)
  <2>0. \A k \in 1 .. 6 : time[k] \in Nat
    BY PlacesOfFields
  <2>1. \A k \in 4 .. 6 : time[k] \in Nat
    BY <2>0
  <2>2. /\ SubSeq(time, 4, 6) \in Seq(Nat) /\ Len(SubSeq(time, 4, 6)) = IF 4 <= 6 THEN 6 - 4 + 1 ELSE 0
        /\ \A k \in 1 .. 6 - 4 + 1 : SubSeq(time, 4, 6)[k] = time[4 + k - 1]
    BY <2>1, SubSeqProperties
  <2> DEFINE v == SubSeq(time, 4, 6)
             w == <<time[4], time[5], time[6]>>
  <2>3. v \in Seq(Nat) /\ Len(v) = 3 /\ \A k \in 1 .. 3 : v[k] = time[k + 3]
    BY <2>2
  <2> HIDE DEF v
  <2>4. v[1] = time[1 + 3] /\ v[2] = time[2 + 3] /\ v[3] = time[3 + 3]
    BY <2>3
  <2>5. w \in Seq(Nat) /\ Len(w) = 3 /\ w[1] = time[4] /\ w[2] = time[5] /\ w[3] = time[6]
    <3>1. PICK x, y, z : x = time[4] /\ y = time[5] /\ z = time[6]
      OBVIOUS
    <3>2. x \in Nat /\ y \in Nat /\ z \in Nat
      BY <1>1, <3>1
    <3>3. /\ <<x, y, z>> \in Seq(Nat) /\ Len(<<x, y, z>>) = 3
          /\ <<x, y, z>>[1] = x /\ <<x, y, z>>[2] = y /\ <<x, y, z>>[3] = z
      BY <3>2
    <3> QED  BY <3>1, <3>3
  <2> HIDE DEF w
  <2>6. \A k \in 1 .. 3 : v[k] = w[k]
    <3>1. \A k \in 1 .. 3 : k = 1 \/ k = 2 \/ k = 3
      OBVIOUS
    <3> QED  BY <2>4, <2>5, <3>1
  <2>7. v = w
    BY <2>3, <2>5, <2>6, SeqEqual
  <2> QED  BY <2>7 DEF v, w
<1>9. str2hms(i) = [rt |-> 1, hms |-> <<atoi(at[4]), atoi(at[4] + 1 + 1), atoi(at[5] + 1 + 1)>>]
  <2>1. NoBlank(i) = at[4]
    <3>2. ComesNext(at, 4, at[4])
      BY FieldComes
    <3> QED  BY <1>2, <3>2, FieldIsFound
  <2>2. ~ (at[4] > L) /\ at[4] + 1 # 0 /\ at[5] + 1 # 0
    BY <1>2
  <2> QED  BY <1>4, <2>1, <2>2 DEF str2hms
<1> QED  BY <1>2, <1>3, <1>5, <1>6, <1>7, <1>8, <1>9

(* What str2mytime reads.                                                  *)
WhatIsRead == [k \in {k \in 1 .. 6 : Fields[k] # 0} |-> atoi(Fields[k])]

(* What is read: the fields up to the last that was reached, the last of   *)
(* them if it is there.                                                    *)
LEMMA FieldsAreRead ==
  ASSUME NEW time, NEW at, Written(tt_text, time, at), NEW read, read = WhatIsRead
  PROVE  /\ \A k \in DOMAIN read : k = Len(read) \/ read[k] = time[k]
         /\ read[Len(read)] \in {0, time[Len(read)]}
         /\ \E n \in 1 .. 6 : DOMAIN read = 1 .. n /\ Len(read) = n
<1> DEFINE L == Len(tt_text)
           found == {k \in 1 .. 6 : Fields[k] # 0}
<1>1. /\ \A k \in 1 .. 6 : at[k] \in Nat \ {0} /\ time[k] \in Nat
      /\ \A k \in 1 .. 6, m \in 1 .. 6 : k <= m => at[k] <= at[m]
      /\ L \in Nat
  BY PlacesOfFields
<1>2. 1 \in found
  BY AllFields
<1>3. ASSUME NEW k \in found, NEW j \in 1 .. k - 1 PROVE j \in found /\ at[j] <= L
  <2>1. PICK m \in 1 .. 5 : k = m + 1 /\ j <= m /\ j \in 1 .. 6 /\ m \in 1 .. 6
    <3>1. k \in 1 .. 6
      OBVIOUS
    <3>2. k - 1 \in 1 .. 5 /\ k = k - 1 + 1 /\ j <= k - 1 /\ j \in 1 .. 6 /\ k - 1 \in 1 .. 6
      BY <3>1
    <3> QED  BY <3>2
  <2>2. at[m] + 1 <= L
    BY <2>1, AllFields
  <2>3. at[j] <= L
    <3> DEFINE a == at[m]
               b == at[j]
    <3>1. a \in Nat /\ b \in Nat /\ b <= a /\ a + 1 <= L
      BY <1>1, <2>1, <2>2
    <3> HIDE DEF a, b, L
    <3>2. b <= L
      BY <1>1, <3>1
    <3> QED  BY <3>2 DEF b
  <2>4. Fields[j] = at[j] /\ at[j] # 0
    BY <1>1, <2>1, <2>3, AllFields
  <2> QED  BY <2>1, <2>3, <2>4
<1>4. PICK n \in found : \A k \in found : k <= n
  <2>1. found \subseteq Nat /\ 6 \in Nat /\ \A k \in found : k <= 6
    OBVIOUS
  <2> HIDE DEF found
  <2>2. PICK n \in found \cup {0} : \A k \in found : k <= n
    BY <2>1, LargestOf
  <2>3. n # 0
    BY <1>2, <2>2
  <2> QED  BY <2>2, <2>3
<1>5. found = 1 .. n /\ n \in 1 .. 6
  <2>1. n \in 1 .. 6 /\ \A k \in found : k \in 1 .. 6
    OBVIOUS
  <2> HIDE DEF found
  <2>2. ASSUME NEW k \in 1 .. n PROVE k \in found
    <3>1. k = n \/ k \in 1 .. n - 1
      BY <2>1
    <3> QED  BY <1>3, <1>4, <3>1
  <2>3. ASSUME NEW k \in found PROVE k \in 1 .. n
    BY <1>4, <2>1
  <2> QED  BY <2>1, <2>2, <2>3
<1>6. \A k \in found : /\ at[k] <= L => atoi(Fields[k]) = time[k]
                       /\ ~ (at[k] <= L) => atoi(Fields[k]) = 0
  BY NumbersAreRead
<1>7. read = [k \in 1 .. n |-> atoi(Fields[k])]
  BY <1>5 DEF WhatIsRead
<1>8. \A k \in 1 .. n : atoi(Fields[k]) \in Nat
  <2>1. \A k \in found : time[k] \in Nat
    BY <1>1
  <2> HIDE DEF found
  <2> QED  BY <1>5, <1>6, <2>1
<1> HIDE DEF found
<1>9. read \in [1 .. n -> Nat] /\ n \in Nat
  BY <1>5, <1>7, <1>8
<1>10. Len(read) = n /\ DOMAIN read = 1 .. n
  BY <1>9, LenOf
<1>11. \A k \in 1 .. n : k = n \/ read[k] = time[k]
  <2> SUFFICES ASSUME NEW k \in 1 .. n, k # n PROVE read[k] = time[k]
    OBVIOUS
  <2>1. k \in 1 .. n - 1
    BY <1>5
  <2>2. k \in found /\ at[k] <= L
    BY <1>3, <1>4, <2>1
  <2> QED  BY <1>6, <1>7, <2>2
<1>12. read[n] \in {0, time[n]}
  <2>1. n \in 1 .. n
    BY <1>5
  <2> QED  BY <1>4, <1>6, <1>7, <2>1
<1> QED  BY <1>5, <1>10, <1>11, <1>12

(* A time as it was taken from the clock has six fields.                   *)
LEMMA TimesHaveFields ==
  ASSUME NEW t \in Clock
  PROVE  /\ <<t[1] + 1900, t[2] + 1>> \o SubSeq(t, 3, 6) \in [1 .. 6 -> Nat]
         /\ SubSeq(t, 1, 6) \in [1 .. 6 -> Nat]
<1>1. t \in Seq(Nat) /\ Len(t) = 7
  BY TimeTextAssumption
<1>2. \A k \in 1 .. 7 : t[k] \in Nat
  BY <1>1, ElementOfSeq
<1>3. ASSUME NEW s \in Seq(Nat), Len(s) = 6 PROVE s \in [1 .. 6 -> Nat]
  <2>1. s \in [1 .. Len(s) -> Nat]
    BY LenProperties, ElementOfSeq
  <2> QED  BY <1>3, <2>1
<1>4. SubSeq(t, 1, 6) \in Seq(Nat) /\ Len(SubSeq(t, 1, 6)) = 6
  <2>1. 6 \in 0 .. Len(t)
    BY <1>1
  <2> QED  BY <1>1, <2>1, PrefixIs
<1>5. SubSeq(t, 3, 6) \in Seq(Nat) /\ Len(SubSeq(t, 3, 6)) = 4
  <2>1. \A k \in 3 .. 6 : t[k] \in Nat
    BY <1>2
  <2>2. SubSeq(t, 3, 6) \in Seq(Nat) /\ Len(SubSeq(t, 3, 6)) = IF 3 <= 6 THEN 6 - 3 + 1 ELSE 0
    BY <2>1, SubSeqProperties
  <2> QED  BY <2>2
<1>6. <<t[1] + 1900, t[2] + 1>> \in Seq(Nat) /\ Len(<<t[1] + 1900, t[2] + 1>>) = 2
  <2>1. PICK x, y : x = t[1] + 1900 /\ y = t[2] + 1
    OBVIOUS
  <2>2. x \in Nat /\ y \in Nat
    <3>1. t[1] \in Nat /\ t[2] \in Nat
      BY <1>2
    <3> QED  BY <2>1, <3>1
  <2>3. <<x, y>> \in Seq(Nat) /\ Len(<<x, y>>) = 2
    BY <2>2
  <2> QED  BY <2>1, <2>3
<1>7. ASSUME NEW u \in Seq(Nat), NEW v \in Seq(Nat), Len(u) = 2, Len(v) = 4
      PROVE  u \o v \in Seq(Nat) /\ Len(u \o v) = 6
  <2>1. u \o v \in Seq(Nat) /\ Len(u \o v) = Len(u) + Len(v)
    BY ConcatProperties
  <2> QED  BY <1>7, <2>1
<1> DEFINE u == <<t[1] + 1900, t[2] + 1>>
           v == SubSeq(t, 3, 6)
           w == SubSeq(t, 1, 6)
<1>8. u \o v \in [1 .. 6 -> Nat]
  <2> HIDE DEF u, v
  <2>1. u \o v \in Seq(Nat) /\ Len(u \o v) = 6
    BY <1>5, <1>6, <1>7 DEF u, v
  <2> DEFINE x == u \o v
  <2> HIDE DEF x
  <2>2. x \in [1 .. 6 -> Nat]
    BY <1>3, <2>1 DEF x
  <2> QED  BY <2>2 DEF x
<1>9. w \in [1 .. 6 -> Nat]
  BY <1>3, <1>4
<1> QED  BY <1>8, <1>9

(* The fields of the text are those of the time, but the one that the text *)
(* ends with, of which the last digits may be missing.                     *)
Nearly(time, written, text, at) ==
  /\ \A k \in 1 .. 6 : at[k] < Len(text) => time[k] = written[k]
  /\ \A k \in 1 .. 6 : time[k] \in {written[k]} \cup FirstDigits(written[k])

(* What holds of the text at each step.                                    *)
WrittenSomehow ==
  \E at, time : /\ Written(tt_text, time, at) /\ Nearly(time, tt_time, tt_text, at)
                /\ tt_pc = "text" => time = tt_time /\ at[6] = Len(tt_text)

TwoColons(text) ==
  \E i, j \in DOMAIN text : i < j /\ text[i] = colon /\ text[j] = colon

ReadAsWritten ==
  /\ ~ tt_outside <=> TwoColons(tt_text)
  /\ \A k \in DOMAIN tt_read : k = Len(tt_read) \/ tt_read[k] = tt_time[k]
  /\ tt_read[Len(tt_read)] \in {0, tt_time[Len(tt_read)]} \cup FirstDigits(tt_time[Len(tt_read)])

TimeTextInv ==
  /\ tt_pc \in {"clock", "time", "text", "cut", "read"}
  /\ tt_clock \in Clock
  /\ tt_pc # "clock" => tt_time \in [1 .. 6 -> Nat]
  /\ tt_pc \in {"text", "cut"} => WrittenSomehow
  /\ tt_pc = "read" /\ tt_text # <<>> => ReadAsWritten

(* A time is written with its separators and one blank.                    *)
LEMMA WrittenAtOnce ==
  ASSUME NEW time \in [1 .. 6 -> Nat],
         NEW text, text = <<time[1], dash, time[2], dash, time[3], blank,
                            time[4], colon, time[5], colon, time[6]>>
  PROVE  LET at == [k \in 1 .. 6 |-> 2 * k - 1]
         IN  Written(text, time, at) /\ at[6] = Len(text)
<1> DEFINE at == [k \in 1 .. 6 |-> 2 * k - 1]
<1>1. /\ time[1] \in Nat /\ time[2] \in Nat /\ time[3] \in Nat /\ time[4] \in Nat /\ time[5] \in Nat
      /\ time[6] \in Nat
  OBVIOUS
<1>2. PICK a, b, c, d, e, f : a = time[1] /\ b = time[2] /\ c = time[3] /\ d = time[4] /\ e = time[5]
                              /\ f = time[6]
  OBVIOUS
<1>3. text = <<a, dash, b, dash, c, blank, d, colon, e, colon, f>>
  BY <1>2
<1>4. a \in Int /\ b \in Int /\ c \in Int /\ d \in Int /\ e \in Int /\ f \in Int
  BY <1>1, <1>2
<1>5. text \in Seq(Int) /\ Len(text) = 11
  <2>1. dash \in Int /\ blank \in Int /\ colon \in Int
    BY DEF dash, blank, colon
  <2> QED  BY <1>3, <1>4, <2>1
<1>6. /\ text[1] = a /\ text[2] = dash /\ text[3] = b /\ text[4] = dash /\ text[5] = c /\ text[6] = blank
      /\ text[7] = d /\ text[8] = colon /\ text[9] = e /\ text[10] = colon /\ text[11] = f
  BY <1>3
<1>7. /\ at \in [1 .. 6 -> Nat]
      /\ at[1] = 1 /\ at[2] = 3 /\ at[3] = 5 /\ at[4] = 7 /\ at[5] = 9 /\ at[6] = 11
  OBVIOUS
<1> HIDE DEF at
<1>8. \A k \in 1 .. 6 : k \in {1, 2, 3, 4, 5, 6}
  OBVIOUS
<1>9. \A k \in 1 .. 5 : k \in {1, 2, 3, 4, 5}
  OBVIOUS
<1>10. at[1] >= 1 /\ \A k \in 1 .. 5 : at[k] + 1 < at[k + 1]
  <2>1. \A k \in {1, 2, 3, 4, 5} : at[k] + 1 < at[k + 1]
    BY <1>7
  <2> QED  BY <1>7, <1>9, <2>1
<1>11. \A k \in 1 .. 6 : text[at[k]] = time[k]
  <2>1. \A k \in {1, 2, 3, 4, 5, 6} : text[at[k]] = time[k]
    BY <1>2, <1>6, <1>7
  <2> QED  BY <1>8, <2>1
<1>12. \A k \in 1 .. 5 : text[at[k] + 1] = Separator[k]
  <2>1. /\ Separator[1] = dash /\ Separator[2] = dash /\ Separator[3] = blank
        /\ Separator[4] = colon /\ Separator[5] = colon
    BY DEF Separator
  <2>2. text[1 + 1] = dash /\ text[3 + 1] = dash /\ text[5 + 1] = blank /\ text[7 + 1] = colon /\ text[9 + 1] = colon
    BY <1>6
  <2>3. \A k \in {1, 2, 3, 4, 5} : text[at[k] + 1] = Separator[k]
    BY <1>7, <2>1, <2>2, Zenon
  <2> QED  BY <1>9, <2>3
<1>13. \A j \in 1 .. 11 : (\E k \in 1 .. 6 : j = at[k]) \/ \E k \in 1 .. 5 : j = at[k] + 1
  <2>1. \A j \in 1 .. 11 : j \in {at[1], at[2], at[3], at[4], at[5], at[6],
                                  at[1] + 1, at[2] + 1, at[3] + 1, at[4] + 1, at[5] + 1}
    BY <1>7
  <2>2. /\ 1 \in 1 .. 6 /\ 2 \in 1 .. 6 /\ 3 \in 1 .. 6 /\ 4 \in 1 .. 6 /\ 5 \in 1 .. 6 /\ 6 \in 1 .. 6
        /\ 1 \in 1 .. 5 /\ 2 \in 1 .. 5 /\ 3 \in 1 .. 5 /\ 4 \in 1 .. 5 /\ 5 \in 1 .. 5
    OBVIOUS
  <2> QED  BY <2>1, <2>2, Zenon
<1>14. at[6] = Len(text) /\ Len(text) <= at[6]
  BY <1>5, <1>7
<1>15. Written(text, time, at)
  BY <1>5, <1>7, <1>10, <1>11, <1>12, <1>13, <1>14 DEF Written
<1> QED  BY <1>14, <1>15 DEF at

(* With a blank before a numeral the fields from this one on are one       *)
(* further back.                                                           *)
LEMMA WrittenWithBlank ==
  ASSUME NEW text, NEW time, NEW at, Written(text, time, at), NEW i \in 1 .. Len(text), text[i] >= 0,
         NEW new, new = InsertAt(text, i, blank)
  PROVE  \E to : Written(new, time, to) /\ (at[6] = Len(text) => to[6] = Len(new))
<1> DEFINE L == Len(text)
<1>1. /\ \A k \in 1 .. 6 : at[k] \in Nat \ {0} /\ time[k] \in Nat
      /\ L \in Nat
      /\ \A k \in 1 .. 6, m \in 1 .. 6 : k < m => at[k] + 1 < at[m]
      /\ \A k \in 1 .. 6, m \in 1 .. 6 : k <= m => at[k] <= at[m]
  BY PlacesOfFields
<1>0. i \in Nat \ {0} /\ i <= L
  BY <1>1
<1>2. text \in Seq(Int) /\ time \in [1 .. 6 -> Nat] /\ at \in [1 .. 6 -> Nat]
  BY DEF Written
<1>3. /\ \A k \in 1 .. 6 : at[k] <= L => text[at[k]] = time[k]
      /\ \A k \in 1 .. 5 : at[k] + 1 <= L => text[at[k] + 1] = Separator[k]
      /\ \A j \in 1 .. L :
           (\A k \in 1 .. 6 : j # at[k]) /\ (\A k \in 1 .. 5 : j # at[k] + 1) => text[j] = blank
      /\ L <= at[6]
  BY FieldsOfText
<1>4. PICK f \in 1 .. 6 : i = at[f]
  <2> SUFFICES ASSUME \A k \in 1 .. 6 : i # at[k] PROVE FALSE
    OBVIOUS
  <2>1. text[i] # blank /\ text[i] # dash /\ text[i] # colon
    <3>1. text[i] \in Int
      BY <1>2, ElementOfSeq
    <3> QED  BY <3>1 DEF blank, dash, colon
  <2>2. PICK k \in 1 .. 5 : i = at[k] + 1
    BY <1>3, <2>1
  <2>3. text[i] = Separator[k]
    <3>1. at[k] + 1 <= L
      BY <2>2
    <3> QED  BY <1>3, <2>2, <3>1
  <2> QED  BY <2>1, <2>3 DEF Separator
<1>5. /\ Len(new) = L + 1 /\ new \in Seq(Int)
      /\ \A j \in 1 .. L + 1 : /\ j < i => new[j] = text[j]
                               /\ j = i => new[j] = blank
                               /\ i < j => new[j] = text[j - 1]
  <2>1. PICK a \in 0 .. Len(text) : i = a + 1 /\ i - 1 = a
    <3>1. i - 1 \in 0 .. Len(text) /\ i = i - 1 + 1
      BY <1>1
    <3> QED  BY <3>1
  <2>2. blank \in Int
    BY DEF blank
  <2>3. new = Inserted(text, a, blank)
    <3>1. SubSeq(text, 1, a) \o <<blank>> \o SubSeq(text, a + 1, Len(text)) = Inserted(text, a, blank)
      BY <1>2, <2>2, InsertedIs
    <3>2. new = SubSeq(text, 1, a) \o <<blank>> \o SubSeq(text, a + 1, Len(text))
      BY <2>1 DEF InsertAt
    <3> QED  BY <3>1, <3>2
  <2>4. new = [j \in 1 .. L + 1 |-> IF j <= a THEN text[j] ELSE IF j = a + 1 THEN blank ELSE text[j - 1]]
    BY <2>3 DEF Inserted
  <2>5. \A j \in 1 .. L + 1 : /\ j < i => new[j] = text[j]
                              /\ j = i => new[j] = blank
                              /\ i < j => new[j] = text[j - 1]
    <3>1. a \in Nat
      BY <1>1, <2>1
    <3> HIDE DEF L
    <3> SUFFICES ASSUME NEW j \in 1 .. L + 1
                 PROVE  /\ j < i => new[j] = text[j]
                        /\ j = i => new[j] = blank
                        /\ i < j => new[j] = text[j - 1]
      OBVIOUS
    <3>2. new[j] = IF j <= a THEN text[j] ELSE IF j = a + 1 THEN blank ELSE text[j - 1]
      BY <2>4
    <3>3. j \in Int /\ i = a + 1
      BY <2>1
    <3>4. /\ j < i => j <= a
          /\ j = i => ~ (j <= a) /\ j = a + 1
          /\ i < j => ~ (j <= a) /\ j # a + 1
      BY <3>1, <3>3
    <3> QED  BY <3>2, <3>4, Zenon
  <2>6. \A j \in 1 .. L + 1 : new[j] \in Int
    <3> SUFFICES ASSUME NEW j \in 1 .. L + 1 PROVE new[j] \in Int
      OBVIOUS
    <3>0. \A n \in 1 .. L : text[n] \in Int
      BY <1>2, ElementOfSeq
    <3> HIDE DEF L
    <3>1. CASE j < i
      <4>1. j \in 1 .. L
        BY <1>1, <2>1, <3>1 DEF L
      <4> QED  BY <2>5, <3>0, <3>1, <4>1
    <3>2. CASE j = i
      BY <2>2, <2>5, <3>2
    <3>3. CASE i < j
      <4>1. j - 1 \in 1 .. L
        BY <1>1, <2>1, <3>3 DEF L
      <4> QED  BY <2>5, <3>0, <3>3, <4>1
    <3> QED  BY <2>1, <3>1, <3>2, <3>3
  <2>7. new \in [1 .. L + 1 -> Int] /\ L + 1 \in Nat
    <3>1. new = [j \in 1 .. L + 1 |-> new[j]]
      BY <2>4
    <3>2. L + 1 \in Nat
      BY <1>1
    <3> HIDE DEF L
    <3> QED  BY <2>6, <3>1, <3>2
  <2>8. Len(new) = L + 1 /\ new \in Seq(Int)
    <3> DEFINE n == L + 1
    <3> HIDE DEF n
    <3>1. new \in [1 .. n -> Int] /\ n \in Nat
      BY <2>7 DEF n
    <3>2. Len(new) = n /\ new \in Seq(Int)
      BY <3>1, LenOf
    <3> QED  BY <3>2 DEF n
  <2> QED  BY <2>5, <2>8
<1> DEFINE to == [k \in 1 .. 6 |-> IF k < f THEN at[k] ELSE at[k] + 1]
<1>6. \A k \in 1 .. 6 : /\ to[k] \in Nat
                        /\ k < f => to[k] = at[k] /\ at[k] + 1 < i
                        /\ ~ (k < f) => to[k] = at[k] + 1 /\ i <= at[k]
  <2> SUFFICES ASSUME NEW k \in 1 .. 6
               PROVE  /\ to[k] \in Nat
                      /\ k < f => to[k] = at[k] /\ at[k] + 1 < i
                      /\ ~ (k < f) => to[k] = at[k] + 1 /\ i <= at[k]
    OBVIOUS
  <2>1. at[k] \in Nat
    BY <1>1
  <2>2. k < f => at[k] + 1 < i
    BY <1>1, <1>4
  <2>3. ~ (k < f) => i <= at[k]
    <3>1. ~ (k < f) => f <= k
      OBVIOUS
    <3> QED  BY <1>1, <1>4, <3>1
  <2> QED  BY <2>1, <2>2, <2>3
<1>7. to \in [1 .. 6 -> Nat]
  <2>1. to = [k \in 1 .. 6 |-> to[k]]
    OBVIOUS
  <2> HIDE DEF to
  <2> QED  BY <1>6, <2>1
<1> HIDE DEF to
<1>8. to[1] >= 1
  <2>1. at[1] \in Nat \ {0} /\ (to[1] = at[1] \/ to[1] = at[1] + 1)
    BY <1>1, <1>6
  <2> QED  BY <2>1
<1>9. ASSUME NEW k \in 1 .. 5 PROVE to[k] + 1 < to[k + 1]
  <2>0. k \in 1 .. 6 /\ k + 1 \in 1 .. 6 /\ k < k + 1
    OBVIOUS
  <2> DEFINE a == at[k]
             b == at[k + 1]
             c == to[k]
             d == to[k + 1]
  <2>1. a \in Nat /\ b \in Nat /\ a + 1 < b
    BY <1>1, <2>0
  <2>2. \/ c = a
        \/ c = a + 1 /\ d = b + 1
    <3>0. k \in Int /\ f \in Int
      OBVIOUS
    <3>1. k < f \/ (~ (k < f) /\ ~ (k + 1 < f))
      BY <3>0
    <3> QED  BY <1>6, <2>0, <3>1
  <2>3. d = b \/ d = b + 1
    BY <1>6, <2>0
  <2> HIDE DEF a, b, c, d
  <2>4. c + 1 < d
    BY <2>1, <2>2, <2>3
  <2> QED  BY <2>4 DEF c, d
<1>10. ASSUME NEW k \in 1 .. 6, to[k] <= L + 1 PROVE new[to[k]] = time[k]
  <2> DEFINE a == at[k]
             c == to[k]
  <2>0. a \in Nat \ {0} /\ i \in Nat \ {0} /\ c \in Nat /\ c <= L + 1
    BY <1>1, <1>4, <1>6, <1>10
  <2>1. CASE k < f
    <3>1. c = a /\ a + 1 < i
      BY <1>6, <2>1
    <3>2. i <= L
      BY <1>0
    <3>3. a <= L /\ c < i /\ c \in 1 .. L + 1
      <4> HIDE DEF a, c, L
      <4> QED  BY <1>1, <2>0, <3>1, <3>2
    <3>4. new[c] = text[a]
      BY <1>5, <3>1, <3>3
    <3> QED  BY <1>3, <3>3, <3>4
  <2>2. CASE ~ (k < f)
    <3>1. c = a + 1 /\ i <= a
      BY <1>6, <2>2
    <3>2. a <= L /\ i < c /\ c \in 1 .. L + 1 /\ c - 1 = a
      <4> HIDE DEF a, c, L
      <4> QED  BY <1>1, <2>0, <3>1
    <3>3. new[c] = text[a]
      BY <1>5, <3>2
    <3> QED  BY <1>3, <3>2, <3>3
  <2> QED  BY <2>1, <2>2
<1>11. ASSUME NEW k \in 1 .. 5, to[k] + 1 <= L + 1 PROVE new[to[k] + 1] = Separator[k]
  <2> DEFINE a == at[k]
             c == to[k]
  <2>0. k \in 1 .. 6
    OBVIOUS
  <2>a. a \in Nat \ {0} /\ i \in Nat \ {0} /\ c \in Nat /\ c + 1 <= L + 1
    BY <1>1, <1>4, <1>6, <1>11, <2>0
  <2>1. CASE k < f
    <3>1. c = a /\ a + 1 < i
      BY <1>6, <2>0, <2>1
    <3>2. i <= L
      BY <1>0
    <3> DEFINE e == c + 1
    <3>3. a + 1 <= L /\ e < i /\ e \in 1 .. L + 1 /\ e = a + 1
      <4> HIDE DEF a, c, L
      <4> QED  BY <1>1, <2>a, <3>1, <3>2
    <3>4. new[e] = text[a + 1]
      <4> HIDE DEF e
      <4> QED  BY <1>5, <3>3
    <3> QED  BY <1>3, <3>3, <3>4
  <2>2. CASE ~ (k < f)
    <3>1. c = a + 1 /\ i <= a
      BY <1>6, <2>0, <2>2
    <3> DEFINE e == c + 1
    <3>2. a + 1 <= L /\ i < e /\ e \in 1 .. L + 1 /\ e - 1 = a + 1
      <4> HIDE DEF a, c, L
      <4> QED  BY <1>1, <2>a, <3>1
    <3>3. new[e] = text[a + 1]
      <4> HIDE DEF e
      <4> QED  BY <1>5, <3>2
    <3> QED  BY <1>3, <3>2, <3>3
  <2> QED  BY <2>1, <2>2
<1>12. ASSUME NEW j \in 1 .. L + 1, \A k \in 1 .. 6 : j # to[k], \A k \in 1 .. 5 : j # to[k] + 1
       PROVE  new[j] = blank
  <2>1. CASE j = i
    BY <1>5, <2>1
  <2>2. CASE j < i
    <3>0. j \in 1 .. L
      <4>1. i <= L /\ i \in Nat
        OBVIOUS
      <4> HIDE DEF L
      <4> QED  BY <1>1, <2>2, <4>1
    <3>1. ASSUME NEW k \in 1 .. 6 PROVE j # at[k]
      <4>1. CASE k < f
        BY <1>6, <1>12, <4>1
      <4>2. CASE ~ (k < f)
        <5>1. i <= at[k] /\ at[k] \in Nat
          BY <1>1, <1>6, <4>2
        <5> QED  BY <2>2, <5>1
      <4> QED  BY <4>1, <4>2
    <3>2. ASSUME NEW k \in 1 .. 5 PROVE j # at[k] + 1
      <4>0. k \in 1 .. 6
        OBVIOUS
      <4>1. CASE k < f
        BY <1>6, <1>12, <4>0, <4>1
      <4>2. CASE ~ (k < f)
        <5>1. i <= at[k] /\ at[k] \in Nat
          BY <1>1, <1>6, <4>0, <4>2
        <5> QED  BY <2>2, <5>1
      <4> QED  BY <4>1, <4>2
    <3>3. text[j] = blank
      BY <1>3, <3>0, <3>1, <3>2
    <3> QED  BY <1>5, <2>2, <3>3
  <2>3. CASE i < j
    <3>0. j - 1 \in 1 .. L
      <4>1. i \in Nat \ {0}
        OBVIOUS
      <4> HIDE DEF L
      <4> QED  BY <1>1, <2>3, <4>1
    <3> DEFINE e == j - 1
    <3>1. ASSUME NEW k \in 1 .. 6 PROVE e # at[k]
      <4>1. CASE k < f
        <5>1. at[k] + 1 < i /\ at[k] \in Nat
          BY <1>1, <1>6, <4>1
        <5> QED  BY <2>3, <5>1
      <4>2. CASE ~ (k < f)
        <5>1. j # at[k] + 1 /\ at[k] \in Nat
          BY <1>1, <1>6, <1>12, <4>2
        <5> QED  BY <5>1
      <4> QED  BY <4>1, <4>2
    <3>2. ASSUME NEW k \in 1 .. 5 PROVE e # at[k] + 1
      <4>0. k \in 1 .. 6
        OBVIOUS
      <4>1. CASE k < f
        <5>1. at[k] + 1 < i /\ at[k] \in Nat
          BY <1>1, <1>6, <4>0, <4>1
        <5> QED  BY <2>3, <5>1
      <4>2. CASE ~ (k < f)
        <5>1. j # at[k] + 1 + 1 /\ at[k] \in Nat
          BY <1>1, <1>6, <1>12, <4>0, <4>2
        <5> QED  BY <5>1
      <4> QED  BY <4>1, <4>2
    <3>3. text[e] = blank
      <4> HIDE DEF e, L
      <4> QED  BY <1>3, <3>0, <3>1, <3>2 DEF e
    <3> QED  BY <1>5, <2>3, <3>3
  <2>4. i \in Int /\ j \in Int
    OBVIOUS
  <2> QED  BY <2>1, <2>2, <2>3, <2>4
<1>13. L + 1 <= to[6] /\ (at[6] = L => to[6] = L + 1)
  <2>0. 6 \in 1 .. 6 /\ f <= 6
    OBVIOUS
  <2>1. at[6] \in Nat
    BY <1>1, <2>0
  <2>2. ~ (6 < f)
    OBVIOUS
  <2>3. to[6] = at[6] + 1
    BY <1>6, <2>2
  <2> DEFINE x == at[6]
             y == to[6]
  <2>4. x \in Nat /\ L \in Nat /\ L <= x /\ y = x + 1
    BY <1>1, <1>3, <2>1, <2>3
  <2> HIDE DEF L, x, y
  <2>5. L + 1 <= y /\ (x = L => y = L + 1)
    BY <2>4
  <2> QED  BY <2>5 DEF x, y
<1>14. Written(new, time, to)
  BY <1>2, <1>5, <1>7, <1>8, <1>9, <1>10, <1>11, <1>12, <1>13 DEF Written
<1> QED  BY <1>5, <1>13, <1>14

(* What is left of a text that is cut.                                     *)
LEMMA WrittenAndCut ==
  ASSUME NEW text, NEW time, NEW at, Written(text, time, at), NEW n \in 0 .. Len(text),
         NEW new, new = SubSeq(text, 1, n)
  PROVE  Written(new, time, at)
<1>1. text \in Seq(Int) /\ Len(text) \in Nat /\ n \in 0 .. Len(text) /\ n \in Nat
  <2>1. text \in Seq(Int) /\ Len(text) \in Nat
    BY LenProperties DEF Written
  <2> QED  BY <2>1
<1>2. new \in Seq(Int) /\ Len(new) = n /\ \A k \in 1 .. n : new[k] = text[k]
  BY <1>1, PrefixIs
<1>3. \A k \in 1 .. n : k \in 1 .. Len(text)
  BY <1>1
<1>4. /\ \A k \in 1 .. 6 : at[k] \in Nat \ {0} /\ time[k] \in Nat
      /\ at \in [1 .. 6 -> Nat] /\ time \in [1 .. 6 -> Nat]
      /\ at[1] >= 1 /\ \A k \in 1 .. 5 : at[k] + 1 < at[k + 1]
  BY PlacesOfFields DEF Written
<1>5. \A k \in 1 .. 6 : at[k] <= n => new[at[k]] = time[k]
  <2> SUFFICES ASSUME NEW k \in 1 .. 6, at[k] <= n PROVE new[at[k]] = time[k]
    OBVIOUS
  <2> DEFINE a == at[k]
  <2>1. a \in Nat \ {0} /\ a <= n
    BY <1>4
  <2> HIDE DEF a
  <2>2. a \in 1 .. n /\ a <= Len(text)
    BY <1>1, <2>1
  <2>3. a <= Len(text) => text[a] = time[k]
    BY FieldsOfText DEF a
  <2>4. new[a] = time[k]
    BY <1>2, <2>2, <2>3
  <2> QED  BY <2>4 DEF a
<1>6. \A k \in 1 .. 5 : at[k] + 1 <= n => new[at[k] + 1] = Separator[k]
  <2> SUFFICES ASSUME NEW k \in 1 .. 5, at[k] + 1 <= n PROVE new[at[k] + 1] = Separator[k]
    OBVIOUS
  <2> DEFINE a == at[k] + 1
  <2>0. k \in 1 .. 6
    OBVIOUS
  <2>1. a \in Nat \ {0} /\ a <= n
    <3>1. at[k] \in Nat
      BY <1>4, <2>0
    <3> QED  BY <3>1
  <2> HIDE DEF a
  <2>2. a \in 1 .. n /\ a <= Len(text)
    BY <1>1, <2>1
  <2>3. a <= Len(text) => text[a] = Separator[k]
    BY FieldsOfText DEF a
  <2>4. new[a] = Separator[k]
    BY <1>2, <2>2, <2>3
  <2> QED  BY <2>4 DEF a
<1>7. \A j \in 1 .. n :
        (\A k \in 1 .. 6 : j # at[k]) /\ (\A k \in 1 .. 5 : j # at[k] + 1) => new[j] = blank
  BY <1>2, <1>3, FieldsOfText
<1>8. n <= at[6]
  <2> DEFINE a == at[6]
  <2>1. a \in Nat
    BY <1>4
  <2>2. Len(text) <= a
    BY FieldsOfText
  <2> HIDE DEF a
  <2>3. n <= a
    BY <1>1, <2>1, <2>2
  <2> QED  BY <2>3 DEF a
<1> QED  BY <1>2, <1>4, <1>5, <1>6, <1>7, <1>8 DEF Written

(* Nothing is missing of what is the same.                                 *)
LEMMA NearlyTheSame == \A time, text, at : Nearly(time, time, text, at)
BY DEF Nearly

(* Of a text that was not cut nothing is missing.                          *)
LEMMA WholeText ==
  ASSUME TimeTextInv, tt_pc = "text"
  PROVE  \E at : Written(tt_text, tt_time, at) /\ at[6] = Len(tt_text)
BY DEF TimeTextInv, WrittenSomehow

(* The first digits of a number are a number.                              *)
LEMMA FirstDigitsAreNumbers ==
  ASSUME NEW n \in Nat
  PROVE  FirstDigits(n) \subseteq Nat
<1>1. \A p \in PowersOfTen : p \in Nat \ {0}
  BY DEF PowersOfTen
<1>2. ASSUME NEW p \in Nat \ {0} PROVE n \div p \in Nat
  OBVIOUS
<1> QED  BY <1>1, <1>2 DEF FirstDigits

(* A number in a text that was written is one of its fields.               *)
LEMMA NumeralIsField ==
  ASSUME NEW text, NEW time, NEW at, Written(text, time, at), NEW n \in 1 .. Len(text), text[n] >= 0
  PROVE  \E f \in 1 .. 6 : n = at[f]
<1>1. ASSUME NEW k \in 1 .. 5, n = at[k] + 1 PROVE FALSE
  <2>1. n \in Nat /\ Len(text) \in Nat /\ n <= Len(text)
    BY PlacesOfFields
  <2>2. text[at[k] + 1] = Separator[k]
    BY <1>1, <2>1, FieldsOfText
  <2>3. Separator[k] \in {-1, -2, -3}
    BY DEF Separator, dash, colon, blank
  <2> QED  BY <1>1, <2>2, <2>3
<1>2. (\A k \in 1 .. 6 : n # at[k]) /\ (\A k \in 1 .. 5 : n # at[k] + 1) => text[n] = blank
  BY FieldsOfText
<1> QED  BY <1>1, <1>2 DEF blank

(* No two fields are at one place.                                         *)
LEMMA FieldsAreApart ==
  ASSUME NEW text, NEW time, NEW at, Written(text, time, at),
         NEW k \in 1 .. 6, NEW m \in 1 .. 6, at[k] = at[m]
  PROVE  k = m
<1>1. \A i \in 1 .. 6, j \in 1 .. 6 : i < j => at[i] + 1 < at[j]
  BY PlacesOfFields
<1>2. at[k] \in Nat
  BY PlacesOfFields
<1>3. ASSUME k < m PROVE FALSE
  <2>1. at[k] + 1 < at[m]
    BY <1>1, <1>3
  <2> QED  BY <1>2, <2>1
<1>4. ASSUME m < k PROVE FALSE
  <2>1. at[m] + 1 < at[k]
    BY <1>1, <1>4
  <2> QED  BY <1>2, <2>1
<1> QED  BY <1>3, <1>4

(* What is left of a text that is cut in the middle of a field.            *)
LEMMA WrittenAndBegun ==
  ASSUME NEW text, NEW time, NEW at, Written(text, time, at), NEW n \in 1 .. Len(text),
         text[n] >= 0, NEW begun \in FirstDigits(text[n]),
         NEW new, new = Append(SubSeq(text, 1, n - 1), begun)
  PROVE  \E left : Written(new, left, at) /\ Nearly(left, time, new, at)
<1>1. PICK f \in 1 .. 6 : n = at[f]
  BY NumeralIsField
<1> DEFINE left == [time EXCEPT ![f] = begun]
           cut == SubSeq(text, 1, n - 1)
<1>2. /\ \A k \in 1 .. 6 : at[k] \in Nat \ {0} /\ time[k] \in Nat
      /\ Len(text) \in Nat /\ n \in Nat
      /\ \A k \in 1 .. 6, m \in 1 .. 6 : k < m => at[k] + 1 < at[m]
      /\ \A k \in 1 .. 6, m \in 1 .. 6 : at[k] # at[m] + 1
  BY PlacesOfFields
<1>3. text[n] = time[f] /\ text[n] \in Nat
  <2>1. at[f] <= Len(text)
    BY <1>1, <1>2
  <2>2. text[at[f]] = time[f]
    BY <2>1, FieldsOfText
  <2> QED  BY <1>1, <1>2, <2>2
<1>4. begun \in Nat
  BY <1>3, FirstDigitsAreNumbers
<1>5. Written(cut, time, at)
  <2>1. n - 1 \in 0 .. Len(text)
    BY <1>2
  <2> QED  BY <2>1, WrittenAndCut
<1>6. cut \in Seq(Int) /\ Len(cut) = n - 1
  <2>1. text \in Seq(Int) /\ n - 1 \in 0 .. Len(text)
    BY <1>2 DEF Written
  <2> QED  BY <2>1, PrefixIs
<1> HIDE DEF cut, left
<1>16. /\ \A k \in 1 .. 6 : at[k] <= Len(cut) => cut[at[k]] = time[k]
       /\ \A k \in 1 .. 5 : at[k] + 1 <= Len(cut) => cut[at[k] + 1] = Separator[k]
       /\ \A j \in 1 .. Len(cut) :
            (\A k \in 1 .. 6 : j # at[k]) /\ (\A k \in 1 .. 5 : j # at[k] + 1) => cut[j] = blank
       /\ Len(cut) <= at[6]
  BY <1>5, FieldsOfText
<1>7. new \in Seq(Int) /\ Len(new) = n /\ new[n] = begun /\ \A j \in 1 .. n - 1 : new[j] = cut[j]
  <2>1. new = Append(cut, begun) /\ begun \in Int
    BY <1>4 DEF cut
  <2>2. new \in Seq(Int) /\ Len(new) = Len(cut) + 1 /\ new[Len(cut) + 1] = begun
        /\ \A j \in 1 .. Len(cut) : new[j] = cut[j]
    <3>1. /\ Append(cut, begun) \in Seq(Int)
          /\ Len(Append(cut, begun)) = Len(cut) + 1
          /\ \A j \in 1 .. Len(cut) : Append(cut, begun)[j] = cut[j]
          /\ Append(cut, begun)[Len(cut) + 1] = begun
      BY <1>6, <2>1, AppendProperties
    <3> QED  BY <2>1, <3>1, Zenon
  <2>3. n - 1 + 1 = n
    BY <1>2
  <2> QED  BY <1>6, <2>2, <2>3
<1>8. \A k, m \in 1 .. 6 : at[k] = at[m] => k = m
  BY FieldsAreApart
<1>9. time \in [1 .. 6 -> Nat]
  BY DEF Written
<1>10. left \in [1 .. 6 -> Nat] /\ left[f] = begun /\ \A k \in 1 .. 6 : k # f => left[k] = time[k]
  BY <1>4, <1>9 DEF left
<1>11. \A k \in 1 .. 6 : at[k] <= n => new[at[k]] = left[k]
  <2> SUFFICES ASSUME NEW k \in 1 .. 6, at[k] <= n PROVE new[at[k]] = left[k]
    OBVIOUS
  <2>1. CASE k = f
    BY <1>1, <1>7, <1>10, <2>1
  <2>2. CASE k # f
    <3>1. at[k] # n /\ at[k] \in 1 .. n - 1 /\ at[k] <= Len(cut)
      <4>1. at[k] # at[f]
        BY <1>8, <2>2
      <4>2. at[k] \in Nat \ {0}
        BY <1>2
      <4>3. at[k] # n
        BY <1>1, <4>1
      <4>4. n \in Nat /\ Len(cut) = n - 1
        BY <1>2, <1>6
      <4>5. \A a \in Nat \ {0} : a <= n /\ a # n => a \in 1 .. n - 1 /\ a <= n - 1
        BY <4>4
      <4> QED  BY <4>2, <4>3, <4>4, <4>5
    <3>2. cut[at[k]] = time[k]
      BY <1>16, <3>1
    <3> QED  BY <1>7, <1>10, <2>2, <3>1, <3>2
  <2> QED  BY <2>1, <2>2
<1>12. \A k \in 1 .. 5 : at[k] + 1 <= n => new[at[k] + 1] = Separator[k]
  <2> SUFFICES ASSUME NEW k \in 1 .. 5, at[k] + 1 <= n PROVE new[at[k] + 1] = Separator[k]
    OBVIOUS
  <2>0. k \in 1 .. 6
    OBVIOUS
  <2>1. at[k] + 1 \in 1 .. n - 1 /\ at[k] + 1 <= Len(cut)
    <3>1. at[f] # at[k] + 1
      BY <1>2, <2>0
    <3>2. at[k] \in Nat
      BY <1>2, <2>0
    <3>3. at[k] + 1 # n
      BY <1>1, <3>1
    <3>4. at[k] + 1 \in Nat /\ at[k] + 1 >= 1
      BY <3>2
    <3> QED  BY <1>2, <1>6, <3>3, <3>4
  <2>2. cut[at[k] + 1] = Separator[k]
    BY <1>16, <2>1
  <2> QED  BY <1>7, <2>1, <2>2
<1>13. \A j \in 1 .. n :
         (\A k \in 1 .. 6 : j # at[k]) /\ (\A k \in 1 .. 5 : j # at[k] + 1) => new[j] = blank
  <2> SUFFICES ASSUME NEW j \in 1 .. n, \A k \in 1 .. 6 : j # at[k], \A k \in 1 .. 5 : j # at[k] + 1
               PROVE  new[j] = blank
    OBVIOUS
  <2>1. j \in 1 .. n - 1 /\ j \in 1 .. Len(cut)
    <3>1. j # n
      BY <1>1
    <3> QED  BY <1>2, <1>6, <3>1
  <2>2. cut[j] = blank
    BY <1>16, <2>1
  <2> QED  BY <1>7, <2>1, <2>2
<1>14. Written(new, left, at)
  <2>1. at \in [1 .. 6 -> Nat] /\ at[1] >= 1 /\ \A k \in 1 .. 5 : at[k] + 1 < at[k + 1]
    BY DEF Written
  <2>2. n <= at[6]
    <3>1. f <= 6 /\ 6 \in 1 .. 6
      OBVIOUS
    <3> QED  BY <1>1, <3>1, PlacesOfFields
  <2> QED  BY <1>7, <1>10, <1>11, <1>12, <1>13, <2>1, <2>2 DEF Written
<1>15. Nearly(left, time, new, at)
  <2>1. \A k \in 1 .. 6 : at[k] < n => k # f
    BY <1>1, <1>2
  <2> QED  BY <1>3, <1>7, <1>10, <2>1 DEF Nearly
<1> QED  BY <1>14, <1>15

(* What is read of a text of which last digits may be missing.             *)
LEMMA FieldsAreNearlyRead ==
  ASSUME NEW time, NEW at, Written(tt_text, time, at), NEW written,
         Nearly(time, written, tt_text, at),
         NEW read, read = WhatIsRead
  PROVE  /\ \A k \in DOMAIN read : k = Len(read) \/ read[k] = written[k]
         /\ read[Len(read)] \in {0, written[Len(read)]} \cup FirstDigits(written[Len(read)])
<1>1. /\ \A k \in DOMAIN read : k = Len(read) \/ read[k] = time[k]
      /\ read[Len(read)] \in {0, time[Len(read)]}
      /\ \E n \in 1 .. 6 : DOMAIN read = 1 .. n /\ Len(read) = n
  BY FieldsAreRead
<1>2. PICK n \in 1 .. 6 : DOMAIN read = 1 .. n /\ Len(read) = n
  BY <1>1
<1>3. ASSUME NEW k \in 1 .. n, k # n PROVE time[k] = written[k]
  <2>1. k \in 1 .. 5 /\ k \in 1 .. 6 /\ k + 1 \in 1 .. n
    BY <1>2, <1>3
  <2>2. Fields[k + 1] # 0
    <3>1. DOMAIN read = {i \in 1 .. 6 : Fields[i] # 0}
      BY DEF WhatIsRead
    <3> QED  BY <1>2, <2>1, <3>1
  <2>3. at[k] + 1 <= Len(tt_text)
    BY <2>1, <2>2, AllFields
  <2>4. at[k] < Len(tt_text)
    <3>1. at[k] \in Nat /\ Len(tt_text) \in Nat
      BY <2>1, PlacesOfFields
    <3> QED  BY <2>3, <3>1
  <2> QED  BY <2>1, <2>4 DEF Nearly
<1>4. time[n] \in {written[n]} \cup FirstDigits(written[n])
  BY <1>2 DEF Nearly
<1> QED  BY <1>1, <1>2, <1>3, <1>4

(* All fields are found if and only if the second colon is.                *)
LEMMA SecondColonIsMissed ==
  ASSUME NEW time, NEW at, Written(tt_text, time, at)
  PROVE  {k \in 1 .. 6 : Fields[k] # 0} = 1 .. 6 <=> TwoColons(tt_text)
<1> DEFINE c == at[4] + 1
           d == at[5] + 1
           L == Len(tt_text)
<1>1. L \in Nat /\ c \in Nat \ {0} /\ d \in Nat /\ c < d
      /\ \A j \in 1 .. L : tt_text[j] = colon <=> j = c \/ j = d
  BY PlacesOfFields, ColonsAre
<1>2. DOMAIN tt_text = 1 .. L
  BY LenProperties DEF Written
<1>3. TwoColons(tt_text) <=> d <= L
  <2>1. ASSUME d <= L PROVE TwoColons(tt_text)
    <3>1. c \in 1 .. L /\ d \in 1 .. L
      BY <1>1, <2>1
    <3> QED  BY <1>1, <1>2, <3>1 DEF TwoColons
  <2>2. ASSUME TwoColons(tt_text) PROVE d <= L
    <3>1. PICK i, j \in 1 .. L : i < j /\ tt_text[i] = colon /\ tt_text[j] = colon
      BY <1>2, <2>2 DEF TwoColons
    <3>2. (i = c \/ i = d) /\ (j = c \/ j = d)
      BY <1>1, <3>1
    <3> QED  BY <1>1, <3>1, <3>2
  <2> QED  BY <2>1, <2>2
<1>4. Fields[6] # 0 <=> d <= L
  <2>1. Fields[5 + 1] # 0 <=> at[5] + 1 <= Len(tt_text)
    BY AllFields
  <2> QED  BY <2>1
<1>5. ASSUME d <= L PROVE \A k \in 1 .. 6 : Fields[k] # 0
  <2>1. Fields[1] # 0
    BY AllFields
  <2>2. ASSUME NEW k \in 1 .. 5 PROVE Fields[k + 1] # 0
    <3>1. at[k] <= at[5] /\ at[k] \in Nat /\ at[5] \in Nat
      BY <2>2, PlacesOfFields
    <3>2. at[k] + 1 <= L
      BY <1>1, <1>5, <3>1
    <3> QED  BY <3>2, AllFields
  <2>3. \A k \in 1 .. 6 : k = 1 \/ (k - 1 \in 1 .. 5 /\ k = k - 1 + 1)
    OBVIOUS
  <2> QED  BY <2>1, <2>2, <2>3
<1> HIDE DEF c, d, L
<1>6. Fields[6] # 0 => {k \in 1 .. 6 : Fields[k] # 0} = 1 .. 6
  BY <1>4, <1>5
<1>7. {k \in 1 .. 6 : Fields[k] # 0} = 1 .. 6 => Fields[6] # 0
  BY 6 \in 1 .. 6
<1> QED  BY <1>3, <1>4, <1>6, <1>7

(* It holds at the start.                                                  *)
LEMMA TimeTextInvInit == TimeTextInit => TimeTextInv
BY DEF TimeTextInit, TimeTextInv

(* Writing, blanks before the fields, cutting and reading keep it.         *)
LEMMA TimeTextInvNext == TimeTextInv /\ [TimeTextNext]_timeTextVars => TimeTextInv'
<1> SUFFICES ASSUME TimeTextInv, [TimeTextNext]_timeTextVars PROVE TimeTextInv'
  OBVIOUS
<1>1. CASE TakeTime
  <2>1. tt_pc' = "time" /\ tt_clock' = tt_clock
    BY <1>1 DEF TakeTime
  <2>2. tt_time' \in [1 .. 6 -> Nat]
    <3>1. tt_clock \in Clock
      BY DEF TimeTextInv
    <3>2. tt_time' \in {mylocaltime, localtime2mytime}
      BY <1>1 DEF TakeTime
    <3>3. PICK t \in Clock : t = tt_clock
      BY <3>1
    <3>  DEFINE early == <<t[1] + 1900, t[2] + 1>> \o SubSeq(t, 3, 6)
                 late == SubSeq(t, 1, 6)
    <3>5. early \in [1 .. 6 -> Nat] /\ late \in [1 .. 6 -> Nat]
      BY TimesHaveFields
    <3>6. mylocaltime = early
      BY <3>3 DEF mylocaltime
    <3>7. localtime2mytime = late
      BY <3>3 DEF localtime2mytime
    <3> HIDE DEF early, late
    <3> QED  BY <3>2, <3>5, <3>6, <3>7
  <2> QED  BY <2>1, <2>2 DEF TimeTextInv
<1>2. CASE mytime2str
  <2>1. /\ tt_pc = "time" /\ tt_pc' = "text" /\ tt_clock' = tt_clock /\ tt_time' = tt_time
        /\ tt_text' = <<tt_time[1], dash, tt_time[2], dash, tt_time[3], blank,
                        tt_time[4], colon, tt_time[5], colon, tt_time[6]>>
    BY <1>2 DEF mytime2str
  <2>2. tt_time \in [1 .. 6 -> Nat]
    BY <2>1 DEF TimeTextInv
  <2>3. PICK text, time : text = tt_text' /\ time = tt_time
    OBVIOUS
  <2>4. LET at == [k \in 1 .. 6 |-> 2 * k - 1]
        IN  Written(text, time, at) /\ at[6] = Len(text)
    <3>1. time \in [1 .. 6 -> Nat]
      BY <2>2, <2>3
    <3>2. text = <<time[1], dash, time[2], dash, time[3], blank, time[4], colon, time[5], colon, time[6]>>
      BY <2>1, <2>3
    <3> QED  BY <3>1, <3>2, WrittenAtOnce
  <2>5. \E at : /\ Written(text, time, at) /\ at[6] = Len(text) /\ Nearly(time, time, text, at)
    BY <2>4, NearlyTheSame
  <2>6. WrittenSomehow'
    BY <2>1, <2>3, <2>5 DEF WrittenSomehow
  <2> QED  BY <2>1, <2>2, <2>6 DEF TimeTextInv
<1>3. CASE AddBlank
  <2>1. /\ tt_pc = "text" /\ tt_pc' = "text" /\ tt_clock' = tt_clock /\ tt_time' = tt_time
        /\ \E i \in DOMAIN tt_text : Numeral(tt_text[i]) /\ tt_text' = InsertAt(tt_text, i, blank)
    BY <1>3 DEF AddBlank
  <2>2. PICK i \in DOMAIN tt_text : Numeral(tt_text[i]) /\ tt_text' = InsertAt(tt_text, i, blank)
    BY <2>1
  <2>3. PICK at : Written(tt_text, tt_time, at) /\ at[6] = Len(tt_text)
    BY <2>1, WholeText
  <2>4. PICK text, new, time : text = tt_text /\ new = tt_text' /\ time = tt_time
    OBVIOUS
  <2>5. /\ Written(text, time, at) /\ at[6] = Len(text) /\ i \in 1 .. Len(text)
        /\ text[i] >= 0 /\ new = InsertAt(text, i, blank)
    <3>1. text \in Seq(Int)
      BY <2>3, <2>4 DEF Written
    <3>2. DOMAIN text = 1 .. Len(text)
      BY <3>1, LenProperties
    <3> QED  BY <2>2, <2>3, <2>4, <3>2 DEF Numeral
  <2>6. \E to : Written(new, time, to) /\ (at[6] = Len(text) => to[6] = Len(new))
    BY <2>5, WrittenWithBlank
  <2>7. WrittenSomehow'
    BY <2>1, <2>4, <2>5, <2>6, NearlyTheSame DEF WrittenSomehow
  <2> QED  BY <2>1, <2>7 DEF TimeTextInv
<1>4. CASE CutText
  <2>1. tt_pc = "text" /\ tt_pc' = "cut" /\ tt_clock' = tt_clock /\ tt_time' = tt_time
    BY <1>4 DEF CutText
  <2>2. PICK n \in DOMAIN tt_text :
          \/ tt_text' = SubSeq(tt_text, 1, n - 1)
          \/ /\ Numeral(tt_text[n])
             /\ \E begun \in FirstDigits(tt_text[n]) :
                  tt_text' = Append(SubSeq(tt_text, 1, n - 1), begun)
    BY <1>4 DEF CutText
  <2>3. PICK at : Written(tt_text, tt_time, at)
    BY <2>1, WholeText
  <2>4. PICK text, new, time : text = tt_text /\ new = tt_text' /\ time = tt_time
    OBVIOUS
  <2>5. n \in 1 .. Len(text) /\ Written(text, time, at)
    <3>1. text \in Seq(Int) /\ Written(text, time, at)
      BY <2>3, <2>4 DEF Written
    <3>2. DOMAIN text = 1 .. Len(text)
      BY <3>1, LenProperties
    <3> QED  BY <2>2, <2>4, <3>1, <3>2
  <2>6. \E left : Written(new, left, at) /\ Nearly(left, time, new, at)
    <3>1. CASE new = SubSeq(text, 1, n - 1)
      <4>1. n - 1 \in 0 .. Len(text)
        BY <2>5
      <4>2. Written(new, time, at)
        BY <2>5, <3>1, <4>1, WrittenAndCut
      <4> QED  BY <4>2, NearlyTheSame
    <3>2. CASE /\ text[n] >= 0
               /\ \E begun \in FirstDigits(text[n]) : new = Append(SubSeq(text, 1, n - 1), begun)
      <4>1. PICK begun \in FirstDigits(text[n]) : new = Append(SubSeq(text, 1, n - 1), begun)
        BY <3>2
      <4> QED  BY <2>5, <3>2, <4>1, WrittenAndBegun
    <3> QED  BY <2>2, <2>4, <3>1, <3>2 DEF Numeral
  <2>7. WrittenSomehow'
    BY <2>1, <2>4, <2>6 DEF WrittenSomehow
  <2> QED  BY <2>1, <2>7 DEF TimeTextInv
<1>5. CASE str2mytime
  <2>1. /\ tt_pc \in {"text", "cut"} /\ tt_pc' = "read"
        /\ tt_clock' = tt_clock /\ tt_time' = tt_time /\ tt_text' = tt_text
    BY <1>5 DEF str2mytime
  <2>2. PICK at, time : Written(tt_text, time, at) /\ Nearly(time, tt_time, tt_text, at)
    BY <2>1 DEF TimeTextInv, WrittenSomehow
  <2>3. ASSUME tt_text # <<>> PROVE ReadAsWritten'
    <3>1. PICK read, written : read = tt_read' /\ written = tt_time
      OBVIOUS
    <3>2. /\ read = WhatIsRead
          /\ tt_outside' = ({k \in 1 .. 6 : Fields[k] # 0} # 1 .. 6)
      BY <1>5, <2>3, <3>1 DEF str2mytime, WhatIsRead
    <3>3. /\ \A k \in DOMAIN read : k = Len(read) \/ read[k] = written[k]
          /\ read[Len(read)] \in {0, written[Len(read)]} \cup FirstDigits(written[Len(read)])
      <4>1. Written(tt_text, time, at) /\ Nearly(time, written, tt_text, at)
        BY <2>2, <3>1
      <4> QED  BY <3>2, <4>1, FieldsAreNearlyRead
    <3>4. ~ tt_outside' <=> TwoColons(tt_text)
      BY <2>2, <3>2, SecondColonIsMissed
    <3> QED  BY <2>1, <3>1, <3>3, <3>4 DEF ReadAsWritten, TwoColons
  <2> QED  BY <2>1, <2>3 DEF TimeTextInv
<1>6. CASE UNCHANGED timeTextVars
  BY <1>6 DEF timeTextVars, TimeTextInv, WrittenSomehow, ReadAsWritten, TwoColons
<1> QED  BY <1>1, <1>2, <1>3, <1>4, <1>5, <1>6 DEF TimeTextNext

(* So it always holds.                                                     *)
LEMMA TimeTextInvAlways == TimeTextSpec => []TimeTextInv
BY TimeTextInvInit, TimeTextInvNext, PTL DEF TimeTextSpec

(* A time comes back from its text, with blanks before its fields; of a    *)
(* text that was cut come the fields before the cut.                       *)
THEOREM TimesAlwaysComeBack == TimeTextSpec => []TimesComeBack
<1>1. TimeTextInv => TimesComeBack
  <2> SUFFICES ASSUME TimeTextInv PROVE TimesComeBack
    OBVIOUS
  <2>1. ASSUME tt_pc = "text"
        PROVE  Fields[6] # 0 /\ [k \in 1 .. 6 |-> atoi(Fields[k])] = tt_time
    <3>1. PICK at : Written(tt_text, tt_time, at) /\ at[6] = Len(tt_text)
      BY <2>1, WholeText
    <3>2. \A k \in 1 .. 6 : at[k] <= Len(tt_text) /\ at[k] # 0
      <4>1. /\ \A k \in 1 .. 6 : at[k] \in Nat \ {0}
            /\ \A k \in 1 .. 6, m \in 1 .. 6 : k <= m => at[k] <= at[m]
        BY <3>1, PlacesOfFields
      <4>2. \A k \in 1 .. 6 : k <= 6 /\ 6 \in 1 .. 6
        OBVIOUS
      <4> QED  BY <3>1, <4>1, <4>2
    <3>3. \A k \in 1 .. 6 : Fields[k] = at[k]
      BY <3>1, <3>2, AllFields
    <3>4. \A k \in 1 .. 6 : atoi(Fields[k]) = tt_time[k]
      BY <3>1, <3>2, <3>3, NumbersAreRead
    <3>5. tt_time = [k \in 1 .. 6 |-> tt_time[k]]
      BY <2>1 DEF TimeTextInv
    <3> QED  BY <3>2, <3>3, <3>4, <3>5
  <2> QED  BY <2>1 DEF TimeTextInv, TimesComeBack, ReadAsWritten, TwoColons
<1> QED  BY <1>1, TimeTextInvAlways, PTL

(* str2hms takes the end of a text that has two colons, and reads the hour,*)
(* the minute and the second of a whole one.                               *)
THEOREM HoursAlwaysComeBack == TimeTextSpec => []HoursComeBack
<1>1. TimeTextInv => HoursComeBack
  <2> SUFFICES ASSUME TimeTextInv, tt_pc \in {"text", "cut"}, NEW i \in DOMAIN tt_text
               PROVE  /\ str2hms(i).rt = 1 <=>
                           Cardinality({j \in i .. Len(tt_text) : tt_text[j] = colon}) = 2
                      /\ tt_pc = "text" /\ i = Fields[4] =>
                           str2hms(i) = [rt |-> 1, hms |-> SubSeq(tt_time, 4, 6)]
    BY DEF HoursComeBack
  <2>1. PICK at, time : Written(tt_text, time, at)
    BY DEF TimeTextInv, WrittenSomehow
  <2>2. i \in 1 .. Len(tt_text)
    <3>1. tt_text \in Seq(Int)
      BY <2>1 DEF Written
    <3> QED  BY <3>1, LenProperties
  <2>3. str2hms(i).rt = 1 <=> Cardinality({j \in i .. Len(tt_text) : tt_text[j] = colon}) = 2
    BY <2>1, <2>2, HoursAreFound
  <2>4. ASSUME tt_pc = "text", i = Fields[4] PROVE str2hms(i) = [rt |-> 1, hms |-> SubSeq(tt_time, 4, 6)]
    <3>1. PICK to : Written(tt_text, tt_time, to) /\ to[6] = Len(tt_text)
      BY <2>4, WholeText
    <3> QED  BY <2>4, <3>1, HoursAreRead
  <2> QED  BY <2>3, <2>4
<1> QED  BY <1>1, TimeTextInvAlways, PTL

(* Every result of the time helpers is right: the throughput, the rate     *)
(* check, the order of the dates and of the week and the text of a time    *)
(* (tool.c).                                                               *)
THEOREM TimesAlwaysRight == ToolSpec /\ TimeTextSpec => TimesAreRight
BY ReportsAreOfTheInterval, RatesAreCheckedInTime, DatesHaveOneOrder, WeeksAreOrdered,
   TimesAlwaysComeBack, HoursAlwaysComeBack, PTL DEF TimesAreRight
============================================================================
