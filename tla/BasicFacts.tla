----------------------------- MODULE BasicFacts -----------------------------
(* What the proofs need of numbers and sequences.  The library's theorems  *)
(* on induction take an operator, so a claim about all numbers up to a     *)
(* bound is proved as one about the set of those it holds for (UpTo).      *)
EXTENDS Integers, SequenceTheorems, WellFoundedInduction, TLAPS

(* A set of numbers has a smallest.                                        *)
LEMMA SmallestOf ==
  ASSUME NEW S, S \subseteq Nat, S # {}
  PROVE  \E k \in S : \A l \in S : k <= l
<1>1. \E k \in S : \A l \in S : ~ (<<l, k>> \in OpToRel(<, Nat))
  BY WFMin, NatLessThanWellFounded, Zenon
<1>2. \A k \in S, l \in S : ~ (<<l, k>> \in OpToRel(<, Nat)) => ~ (l < k)
  BY Zenon DEF OpToRel
<1>3. \A k \in S, l \in S : ~ (l < k) => k <= l
  BY SMT
<1> QED BY <1>1, <1>2, <1>3

(* A set of numbers that has a bound has a largest, or is empty.           *)
LEMMA LargestOf ==
  ASSUME NEW S, S \subseteq Nat, NEW m \in Nat, \A k \in S : k <= m
  PROVE  \E n \in S \cup {0} : \A k \in S : k <= n
<1> DEFINE B == {n \in Nat : \A k \in S : k <= n}
<1>1. PICK n \in B : \A l \in B : n <= l
  <2>1. m \in B
    OBVIOUS
  <2>2. B \subseteq Nat
    OBVIOUS
  <2> HIDE DEF B
  <2> QED  BY <2>1, <2>2, SmallestOf
<1>2. n \in S \cup {0}
  <2> SUFFICES ASSUME n \notin S, n # 0 PROVE FALSE
    OBVIOUS
  <2>1. n - 1 \in B
    OBVIOUS
  <2> QED  BY <1>1, <2>1
<1> QED  BY <1>1, <1>2

(* Induction for a set of numbers: if it has 0, and every number up to m   *)
(* whose predecessor it has, it has all numbers up to m.                   *)
LEMMA UpTo ==
  ASSUME NEW m \in Nat, NEW S, 0 \in S, \A n \in 1 .. m : n - 1 \in S => n \in S
  PROVE  0 .. m \subseteq S
<1> SUFFICES ASSUME (0 .. m) \ S # {} PROVE FALSE
  OBVIOUS
<1> DEFINE Missing == (0 .. m) \ S
<1>1. PICK n \in Missing : \A l \in Missing : n <= l
  <2>1. Missing \subseteq Nat /\ Missing # {}
    OBVIOUS
  <2> HIDE DEF Missing
  <2> QED  BY <2>1, SmallestOf
<1>2. n \in 1 .. m /\ n - 1 \in 0 .. m /\ n - 1 \notin Missing
  BY <1>1
<1> QED  BY <1>2

(* What is made again and again from a beginning is a function on the      *)
(* numbers: next[i] makes the i-th from the one before.                    *)
Runs(w, m, S, start, next) ==
  w \in [0 .. m -> S] /\ w[0] = start /\ \A i \in 1 .. m : w[i] = next[i][w[i - 1]]

LEMMA RunsAgree ==
  ASSUME NEW S, NEW start, NEW next, NEW m \in Nat, NEW n \in Nat, m <= n,
         NEW v, Runs(v, m, S, start, next), NEW w, Runs(w, n, S, start, next)
  PROVE  \A i \in 0 .. m : v[i] = w[i]
<1> DEFINE A == {i \in 0 .. m : v[i] = w[i]}
<1>1. 0 \in A
  BY DEF Runs
<1>2. ASSUME NEW i \in 1 .. m, i - 1 \in A PROVE i \in A
  <2>1. i \in 1 .. n /\ i - 1 \in 0 .. m /\ v[i - 1] = w[i - 1]
    BY <1>2
  <2> QED BY <2>1 DEF Runs
<1> HIDE DEF A
<1>3. 0 .. m \subseteq A
  BY <1>1, <1>2, UpTo
<1> QED BY <1>3 DEF A

Iterated(w, S, start, next) ==
  w \in [Nat -> S] /\ w[0] = start /\ \A i \in Nat : i # 0 => w[i] = next[i][w[i - 1]]

LEMMA Iterates ==
  ASSUME NEW S, NEW start, start \in S, NEW next, next \in [Nat -> [S -> S]]
  PROVE  \E w : Iterated(w, S, start, next)
<1>1. ASSUME NEW m \in Nat PROVE \E v : Runs(v, m, S, start, next)
  <2> DEFINE A == {i \in Nat : \E v : Runs(v, i, S, start, next)}
  <2>1. 0 \in A
    <3>1. Runs([i \in 0 .. 0 |-> start], 0, S, start, next)
      BY DEF Runs
    <3> QED BY <3>1
  <2>2. ASSUME NEW n \in 1 .. m, n - 1 \in A PROVE n \in A
    <3>1. PICK v : Runs(v, n - 1, S, start, next)
      BY <2>2
    <3> DEFINE w == [i \in 0 .. n |-> IF i = n THEN next[n][v[n - 1]] ELSE v[i]]
    <3>2. n \in Nat /\ next[n] \in [S -> S] /\ v[n - 1] \in S
      BY <3>1 DEF Runs
    <3>3. \A i \in 1 .. n : i = n \/ i \in 1 .. n - 1
      OBVIOUS
    <3>4. w \in [0 .. n -> S] /\ w[0] = start
      <4>1. \A i \in 0 .. n : i # n => v[i] \in S
        BY <3>1 DEF Runs
      <4> QED BY <3>1, <3>2, <4>1 DEF Runs
    <3>5. ASSUME NEW i \in 1 .. n PROVE w[i] = next[i][w[i - 1]]
      BY <3>1, <3>3 DEF Runs
    <3>6. Runs(w, n, S, start, next)
      BY <3>4, <3>5 DEF Runs
    <3> QED BY <3>2, <3>6
  <2> HIDE DEF A
  <2>3. 0 .. m \subseteq A
    BY <2>1, <2>2, UpTo
  <2>4. m \in A
    BY <2>3
  <2> QED BY <2>4 DEF A
<1> DEFINE V(m) == CHOOSE v : Runs(v, m, S, start, next)
           w == [m \in Nat |-> V(m)[m]]
<1>2. ASSUME NEW m \in Nat PROVE Runs(V(m), m, S, start, next)
  BY <1>1
<1> HIDE DEF V
<1>3. w \in [Nat -> S] /\ w[0] = start
  BY <1>2 DEF Runs
<1>4. ASSUME NEW i \in Nat, i # 0 PROVE w[i] = next[i][w[i - 1]]
  <2>1. i - 1 \in Nat /\ i - 1 <= i /\ i \in 1 .. i /\ i - 1 \in 0 .. i - 1
    BY <1>4
  <2>2. Runs(V(i), i, S, start, next) /\ Runs(V(i - 1), i - 1, S, start, next)
    BY <1>2, <2>1
  <2>3. V(i - 1)[i - 1] = V(i)[i - 1]
    BY <2>1, <2>2, RunsAgree
  <2>4. V(i)[i] = next[i][V(i)[i - 1]]
    BY <2>1, <2>2 DEF Runs
  <2> QED BY <2>1, <2>3, <2>4
<1> QED BY <1>3, <1>4 DEF Iterated

(* A function on 1 .. n is a sequence of length n.                         *)
LEMMA LenOf ==
  ASSUME NEW n \in Nat, NEW S, NEW f \in [1 .. n -> S]
  PROVE  Len(f) = n /\ f \in Seq(S)
<1>1. f \in Seq(S)
  BY SeqDef
<1>2. DOMAIN f = 1 .. n /\ DOMAIN f = 1 .. Len(f) /\ Len(f) \in Nat
  BY <1>1, LenProperties
<1>3. Len(f) = n
  BY <1>2
<1> QED  BY <1>1, <1>3

(* The first elements of a sequence.                                       *)
LEMMA PrefixIs ==
  ASSUME NEW S, NEW s \in Seq(S), NEW m \in 0 .. Len(s)
  PROVE  /\ SubSeq(s, 1, m) \in Seq(S) /\ Len(SubSeq(s, 1, m)) = m
         /\ \A k \in 1 .. m : SubSeq(s, 1, m)[k] = s[k]
<1>1. Len(s) \in Nat /\ m \in Nat /\ m \in Int
  BY LenProperties
<1>2. \A k \in 1 .. m : s[k] \in S
  BY <1>1, ElementOfSeq
<1>3. /\ SubSeq(s, 1, m) \in Seq(S) /\ Len(SubSeq(s, 1, m)) = IF 1 <= m THEN m - 1 + 1 ELSE 0
      /\ \A k \in 1 .. m - 1 + 1 : SubSeq(s, 1, m)[k] = s[1 + k - 1]
  BY <1>1, <1>2, SubSeqProperties
<1> DEFINE p == SubSeq(s, 1, m)
<1> HIDE DEF p
<1>4. Len(p) = m /\ \A k \in 1 .. m : p[k] = s[k]
  BY <1>1, <1>3 DEF p
<1> QED  BY <1>3, <1>4 DEF p

(* s with n behind its first a elements.                                   *)
Inserted(s, a, n) ==
  [i \in 1 .. Len(s) + 1 |-> IF i <= a THEN s[i] ELSE IF i = a + 1 THEN n ELSE s[i - 1]]

(* What the parts before and behind it make with it.                      *)
LEMMA InsertedIs ==
  ASSUME NEW S, NEW s \in Seq(S), NEW n \in S, NEW a \in 0 .. Len(s)
  PROVE  SubSeq(s, 1, a) \o <<n>> \o SubSeq(s, a + 1, Len(s))
           = Inserted(s, a, n)
<1> DEFINE l == SubSeq(s, 1, a)
           r == SubSeq(s, a + 1, Len(s))
           t == [i \in 1 .. Len(s) + 1 |-> IF i <= a THEN s[i] ELSE IF i = a + 1 THEN n ELSE s[i - 1]]
<1>0. Len(s) \in Nat /\ \A i \in 1 .. Len(s) : s[i] \in S
  OBVIOUS
<1>1. l \in Seq(S) /\ Len(l) = a /\ \A i \in 1 .. a : l[i] = s[i]
  BY SubSeqProperties
<1>2. r \in Seq(S) /\ Len(r) = Len(s) - a /\ \A i \in 1 .. Len(s) - a : r[i] = s[a + i]
  BY SubSeqProperties
<1> HIDE DEF l, r
<1>3. l \o <<n>> \in Seq(S) /\ Len(l \o <<n>>) = a + 1
      /\ \A i \in 1 .. a + 1 : (l \o <<n>>)[i] = IF i <= a THEN l[i] ELSE n
  BY <1>1
<1> DEFINE u == (l \o <<n>>) \o r
           v == l \o <<n>>
<1> HIDE DEF v
<1>4. u \in Seq(S) /\ Len(u) = Len(s) + 1
      /\ \A i \in 1 .. Len(s) + 1 : u[i] = IF i <= a + 1 THEN v[i] ELSE r[i - (a + 1)]
  BY <1>2, <1>3, <1>0 DEF v
<1> HIDE DEF u
<1>5. ASSUME NEW i \in 1 .. Len(s) + 1 PROVE u[i] = t[i]
  <2>1. CASE i <= a
    BY <2>1, <1>1, <1>3, <1>4 DEF v
  <2>2. CASE i = a + 1
    BY <2>2, <1>3, <1>4 DEF v
  <2>3. CASE i > a + 1
    <3>1. i - (a + 1) \in 1 .. Len(s) - a /\ a + (i - (a + 1)) = i - 1
      BY <2>3, <1>0
    <3> QED  BY <2>3, <1>2, <1>4, <3>1
  <2> QED  BY <2>1, <2>2, <2>3
<1>6. u = [i \in 1 .. Len(u) |-> u[i]]
  BY <1>4
<1>7. u = t
  BY <1>4, <1>5, <1>6
<1> QED  BY <1>7 DEF u, l, r, Inserted
=============================================================================
