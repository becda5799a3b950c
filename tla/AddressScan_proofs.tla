-------------------------- MODULE AddressScan_proofs --------------------------
(***************************************************************************)
(* What the deep scans keep, for any addresses, balances, jobs, batch and  *)
(* slots: the search for the first change finds it, no more walks run than *)
(* there are slots, a walk that drains writes only to a row with its own   *)
(* bounds, and, of one request at a time, what a cursor claims is found.   *)
(***************************************************************************)
EXTENDS AddressScan, TLAPS, FiniteSetTheorems, SequenceTheorems, WellFoundedInduction

-----------------------------------------------------------------------------
(* Numbers.                                                                 *)

\* A set of natural numbers that is not empty has a least one.
LEMMA LeastNat ==
  ASSUME NEW S, S \subseteq Nat, S # {}
  PROVE  \E n \in S : \A m \in S : n <= m
<1> DEFINE R == {ss \in Nat \X Nat : ss[1] < ss[2]}
<1>1. IsWellFoundedOn(R, Nat)
  BY NatLessThanWellFounded, Zenon DEF OpToRel
<1>2. \A x, y \in Nat : x < y => <<x, y>> \in R
  OBVIOUS
<1> HIDE DEF R
<1>3. PICK x \in S : \A y \in S : ~(<<y, x>> \in R)
  BY <1>1, WFMin, Zenon
<1>4. \A y \in S : x \in Nat /\ y \in Nat /\ ~(y < x)
  BY <1>2, <1>3, Zenon
<1>5. \A y \in S : x <= y
  BY <1>4
<1> QED
  BY <1>5, Zenon

\* A set that holds 0, and n + 1 with every n, holds every natural number.
LEMMA AllNats ==
  ASSUME NEW S, 0 \in S, \A n \in Nat : n \in S => n + 1 \in S
  PROVE  Nat \subseteq S
<1> SUFFICES ASSUME NEW k \in Nat \ S PROVE FALSE
  OBVIOUS
<1>1. PICK n \in Nat \ S : \A m \in Nat \ S : n <= m
  BY LeastNat
<1>2. n # 0 /\ n - 1 \in Nat /\ n - 1 \in S
  BY <1>1
<1> QED
  BY <1>2, <1>1

-----------------------------------------------------------------------------
(* The search for the first change.                                         *)

Halves(a, from, f) ==
  [s \in Segment |-> IF s.hi - s.lo > Linear THEN f[Halved(a, from, s)] ELSE Nearest(a, from, s)]

\* A segment that is halved becomes a shorter one, of at least one block.
LEMMA Shorter ==
  ASSUME NEW a, NEW from, NEW s \in Segment, s.hi - s.lo > Linear
  PROVE  /\ Halved(a, from, s) \in Segment
         /\ Halved(a, from, s).hi - Halved(a, from, s).lo < s.hi - s.lo
         /\ Halved(a, from, s).lo < Halved(a, from, s).hi
<1> DEFINE mid == (s.lo + s.hi) \div 2
<1>1. s.lo \in Cursors /\ s.hi \in Cursors /\ Cursors \subseteq Int
  BY DEF Segment, Cursors
<1>2. mid \in Int /\ s.lo < mid /\ mid < s.hi
  <2>1. Linear \in Nat /\ Linear >= 1
    BY SizesAssumption
  <2>2. \A x, y, l \in Int : l >= 1 /\ y - x > l =>
          (x + y) \div 2 \in Int /\ x < (x + y) \div 2 /\ (x + y) \div 2 < y
    OBVIOUS
  <2>3. s.lo \in Int /\ s.hi \in Int
    BY <1>1, Zenon
  <2>4. Linear \in Int
    BY <2>1
  <2> QED
    BY <2>1, <2>2, <2>3, <2>4, Zenon
<1>3. mid \in Cursors
  BY <1>1, <1>2, SizesAssumption DEF Cursors
<1> HIDE DEF mid
<1>4. Halved(a, from, s) \in {[s EXCEPT !.lo = mid], [s EXCEPT !.hi = mid]}
  BY DEF Halved, mid
<1>5. CASE Halved(a, from, s) = [s EXCEPT !.lo = mid]
  BY <1>1, <1>2, <1>3, <1>5 DEF Segment
<1>6. CASE Halved(a, from, s) = [s EXCEPT !.hi = mid]
  BY <1>1, <1>2, <1>3, <1>6 DEF Segment
<1> QED
  BY <1>4, <1>5, <1>6

\* The function the search defines by recursion exists: the width of a segment bounds it.
LEMMA SearchIs ==
  ASSUME NEW a, NEW from
  PROVE  Search(a, from) = Halves(a, from, Search(a, from))
<1> DEFINE Val(f, s) == IF s.hi - s.lo > Linear THEN f[Halved(a, from, s)] ELSE Nearest(a, from, s)
           D(k) == {s \in Segment : s.hi - s.lo <= k}
           Good == {k \in Nat : \E f : f = [s \in D(k) |-> Val(f, s)]}
<1>1. 0 \in Good
  <2> DEFINE g == [s \in D(0) |-> Nearest(a, from, s)]
  <2>1. \A s \in D(0) : ~(s.hi - s.lo > Linear)
    BY SizesAssumption DEF Segment, Cursors
  <2>2. g = [s \in D(0) |-> Val(g, s)]
    BY <2>1
  <2> QED
    BY <2>2
<1>2. ASSUME NEW k \in Nat, k \in Good PROVE k + 1 \in Good
  <2>1. PICK f : f = [s \in D(k) |-> Val(f, s)]
    BY <1>2
  <2> DEFINE g == [s \in D(k + 1) |-> Val(f, s)]
  <2>2. \A s \in D(k) : s \in D(k + 1)
    BY DEF Segment, Cursors
  <2>3. \A s \in D(k + 1) : s.hi - s.lo > Linear => Halved(a, from, s) \in D(k)
    <3> TAKE s \in D(k + 1)
    <3> HAVE s.hi - s.lo > Linear
    <3> DEFINE t == Halved(a, from, s)
    <3>1. t \in Segment /\ t.hi - t.lo < s.hi - s.lo
      BY Shorter
    <3>2. s.hi \in Int /\ s.lo \in Int /\ s.hi - s.lo <= k + 1
      BY DEF Segment, Cursors
    <3>3. t.hi \in Int /\ t.lo \in Int
      BY <3>1 DEF Segment, Cursors
    <3> QED
      BY <3>1, <3>2, <3>3
  <2>4. \A t \in D(k) : f[t] = Val(f, t)
    BY <2>1, Zenon
  <2>5. \A t \in D(k) : g[t] = f[t]
    BY <2>2, <2>4
  <2>6. \A s \in D(k + 1) : Val(f, s) = Val(g, s)
    BY <2>3, <2>5
  <2>7. g = [s \in D(k + 1) |-> Val(g, s)]
    BY <2>6
  <2>8. \E h : h = [s \in D(k + 1) |-> Val(h, s)]
    BY <2>7
  <2>9. k + 1 \in Nat
    OBVIOUS
  <2> QED
    BY <2>8, <2>9, Zenon
<1>3. MaxBlock + 1 \in Good
  <2> HIDE DEF Good
  <2>1. Nat \subseteq Good
    BY <1>1, <1>2, AllNats
  <2> QED
    BY <2>1, SizesAssumption
<1>4. D(MaxBlock + 1) = Segment
  <2>1. MaxBlock \in Nat
    BY SizesAssumption
  <2>2. \A s \in Segment : s.hi - s.lo <= MaxBlock + 1
    BY <2>1 DEF Segment, Cursors
  <2> QED
    BY <2>2
<1> DEFINE P(f) == f = [s \in Segment |-> Val(f, s)]
<1>5. \E f : P(f)
  BY <1>3, <1>4
<1>6. Search(a, from) = CHOOSE f : P(f)
  BY Zenon DEF Search
<1> HIDE DEF P
<1>7. P(Search(a, from))
  BY <1>5, <1>6, Zenon
<1> QED
  BY <1>7, Zenon DEF P, Halves

\* The value at one segment.
LEMMA SearchAt ==
  ASSUME NEW a, NEW from, NEW s \in Segment
  PROVE  Search(a, from)[s] = IF s.hi - s.lo > Linear THEN Search(a, from)[Halved(a, from, s)]
                              ELSE Nearest(a, from, s)
BY SearchIs, Zenon DEF Halves

\* What the search returns lies in its segment, and the block before it has the balance it began with.
LEMMA Found ==
  ASSUME NEW a, NEW from \in Cursors, NEW s \in Segment, s.lo < s.hi, Same(a, from, s.lo)
  PROVE  /\ Search(a, from)[s] \in (s.lo + 1)..s.hi
         /\ Same(a, from, Search(a, from)[s] - 1)
<1> DEFINE F(t) == Search(a, from)[t]
           Holds(t) == F(t) \in (t.lo + 1)..t.hi /\ Same(a, from, F(t) - 1)
           D(k) == {t \in Segment : t.lo < t.hi /\ Same(a, from, t.lo) /\ t.hi - t.lo <= k}
           Good == {k \in Nat : \A t \in D(k) : Holds(t)}
<1> HIDE DEF F
<1>1. 0 \in Good
  BY DEF Segment, Cursors
<1>2. ASSUME NEW k \in Nat, k \in Good PROVE k + 1 \in Good
  <2> SUFFICES ASSUME NEW t \in D(k + 1) PROVE Holds(t)
    OBVIOUS
  <2>1. t.lo \in Int /\ t.hi \in Int /\ t.lo < t.hi
    BY DEF Segment, Cursors
  <2>2. CASE t.hi - t.lo > Linear
    <3> DEFINE u == Halved(a, from, t)
    <3>1. u \in Segment /\ u.hi - u.lo < t.hi - t.lo /\ u.lo < u.hi
      BY <2>2, Shorter
    <3>2. u.lo \in Int /\ u.hi \in Int
      BY <3>1 DEF Segment, Cursors
    <3>3. F(t) = F(u)
      BY <2>2, SearchAt DEF F
    <3>4. Same(a, from, u.lo) /\ t.lo <= u.lo /\ u.hi <= t.hi
      <4> DEFINE mid == (t.lo + t.hi) \div 2
      <4>1. CASE Same(a, mid, from)
        <5>1. u = [t EXCEPT !.lo = mid]
          BY <4>1 DEF Halved
        <5>2. mid \in Cursors /\ u.lo = mid /\ u.hi = t.hi
          BY <3>1, <5>1 DEF Segment
        <5> QED
          BY <2>1, <3>1, <3>2, <4>1, <5>2 DEF Same
      <4>2. CASE ~Same(a, mid, from)
        <5>1. u = [t EXCEPT !.hi = mid]
          BY <4>2 DEF Halved
        <5>2. u.lo = t.lo /\ u.hi = mid
          BY <5>1 DEF Segment
        <5>3. mid <= t.hi
          BY <2>1
        <5> QED
          BY <2>1, <5>2, <5>3
      <4> QED
        BY <4>1, <4>2
    <3>5. Holds(u)
      BY <1>2, <2>1, <3>1, <3>2, <3>4
    <3> HIDE DEF u
    <3> QED
      BY <2>1, <3>2, <3>3, <3>4, <3>5
  <2>3. CASE ~(t.hi - t.lo > Linear)
    <3> DEFINE Fits(b) == /\ b = t.hi \/ ~Same(a, from, b)
                          /\ \A c \in (t.lo + 1)..(b - 1) : Same(a, from, c)
    <3>1. F(t) = CHOOSE b \in (t.lo + 1)..t.hi : Fits(b)
      BY <2>3, SearchAt, Zenon DEF F, Nearest
    <3>2. \E b \in (t.lo + 1)..t.hi : Fits(b)
      <4> DEFINE Ends == {n \in Nat : /\ t.lo + 1 + n <= t.hi
                                      /\ t.lo + 1 + n = t.hi \/ ~Same(a, from, t.lo + 1 + n)}
      <4>1. t.hi - t.lo - 1 \in Ends
        BY <2>1
      <4>2. PICK n \in Ends : \A m \in Ends : n <= m
        BY <4>1, LeastNat
      <4>3. \A c \in (t.lo + 1)..(t.lo + n) : Same(a, from, c)
        <5> SUFFICES ASSUME NEW c \in (t.lo + 1)..(t.lo + n), ~Same(a, from, c) PROVE FALSE
          OBVIOUS
        <5>1. c - t.lo - 1 \in Ends /\ c - t.lo - 1 < n
          BY <2>1, <4>2
        <5> QED
          BY <4>2, <5>1
      <4> QED
        BY <2>1, <4>2, <4>3
    <3> HIDE DEF Fits
    <3>3. F(t) \in (t.lo + 1)..t.hi /\ Fits(F(t))
      BY <3>1, <3>2, Zenon
    <3>4. CASE F(t) = t.lo + 1
      BY <2>1, <3>3, <3>4
    <3>5. CASE F(t) # t.lo + 1
      BY <2>1, <3>3, <3>5 DEF Fits
    <3> QED
      BY <3>3, <3>4, <3>5
  <2> QED
    BY <2>2, <2>3, Zenon
<1>3. s.hi - s.lo \in Nat /\ s \in D(s.hi - s.lo)
  BY DEF Segment, Cursors
<1> HIDE DEF Good
<1>4. s.hi - s.lo \in Good
  BY <1>1, <1>2, <1>3, AllNats
<1> USE DEF Good
<1>5. Holds(s)
  BY <1>3, <1>4
<1> QED
  BY <1>5 DEF F

\* The first change lies behind the cursor, and no block between the two changes the balance.
LEMMA FirstChangeIs ==
  ASSUME NEW a \in Addrs, NEW from \in Cursors, NEW to \in Cursors, from < to
  PROVE  /\ FirstChange(a, from, to) \in (from + 1)..to
         /\ Changes(a) \cap ((from + 1)..(FirstChange(a, from, to) - 1)) = {}
<1> DEFINE s == [lo |-> from, hi |-> to]
           b == Search(a, from)[s]
<1>1. s \in Segment /\ s.lo = from /\ s.hi = to /\ Same(a, from, s.lo)
  BY DEF Segment, Same
<1> HIDE DEF s
<1>2. b \in (from + 1)..to /\ Same(a, from, b - 1)
  BY <1>1, Found
<1>3. FirstChange(a, from, to) = b
  BY DEF FirstChange, s
<1> HIDE DEF b
<1>4. from \in Int /\ b \in Int /\ b - 1 \in Cursors
  <2>1. MaxBlock \in Nat
    BY SizesAssumption
  <2> QED
    BY <1>2, <2>1 DEF Cursors
<1>5. Changes(a) \cap ((from + 1)..(b - 1)) = {}
  <2>1. CASE from < b - 1
    BY <1>2, <1>4, <2>1, HonestBalances, Zenon DEF Same
  <2>2. CASE ~(from < b - 1)
    BY <1>4, <2>2
  <2> QED
    BY <2>1, <2>2
<1> QED
  BY <1>2, <1>3, <1>5

-----------------------------------------------------------------------------
(* The queue.                                                               *)

Queued(q) == q \in Seq(Addrs) /\ IsInjective(q)

LEMMA Indices ==
  ASSUME NEW q, Queued(q)
  PROVE  /\ Len(q) \in Nat /\ DOMAIN q = 1..Len(q)
         /\ \A i \in 1..Len(q) : q[i] \in Addrs
         /\ \A i, j \in 1..Len(q) : q[i] = q[j] => i = j
         /\ ToSet(q) = {q[i] : i \in 1..Len(q)}
<1>1. q \in Seq(Addrs)
  BY DEF Queued
<1>2. Len(q) \in Nat /\ DOMAIN q = 1..Len(q)
  BY <1>1
<1>3. \A i \in 1..Len(q) : q[i] \in Addrs
  BY <1>1, ElementOfSeq
<1> QED
  BY <1>2, <1>3 DEF Queued, IsInjective, ToSet

\* A queue from its length and its entries.
LEMMA QueuedIf ==
  ASSUME NEW q \in Seq(Addrs), \A i, j \in 1..Len(q) : q[i] = q[j] => i = j
  PROVE  Queued(q) /\ ToSet(q) = {q[i] : i \in 1..Len(q)}
<1>1. DOMAIN q = 1..Len(q)
  OBVIOUS
<1> QED
  BY <1>1 DEF Queued, IsInjective, ToSet

LEMMA Pushed ==
  ASSUME NEW q, Queued(q), NEW a \in Addrs, a \notin ToSet(q)
  PROVE  Queued(Append(q, a)) /\ ToSet(Append(q, a)) = ToSet(q) \cup {a}
<1> DEFINE p == Append(q, a)
<1>1. q \in Seq(Addrs) /\ Len(q) \in Nat
  BY Indices DEF Queued
<1>2. p \in Seq(Addrs) /\ Len(p) = Len(q) + 1
  BY <1>1, AppendProperties
<1>3. p[Len(q) + 1] = a /\ \A i \in 1..Len(q) : p[i] = q[i]
  BY <1>1, AppendProperties
<1> HIDE DEF p
<1> DEFINE n == Len(q)
<1>4. \A i \in 1..n : q[i] # a
  BY Indices
<1>5. \A i, j \in 1..n : q[i] = q[j] => i = j
  BY Indices
<1>6. n \in Nat /\ p[n + 1] = a /\ \A i \in 1..n : p[i] = q[i]
  BY <1>1, <1>3
<1>7. Len(p) = n + 1
  BY <1>2
<1>8. ToSet(q) = {q[i] : i \in 1..n}
  BY Indices
<1> HIDE DEF n
<1>9. \A i \in 1..(n + 1) : i \in 1..n \/ i = n + 1
  BY <1>6
<1>10. \A i, j \in 1..(n + 1) : p[i] = p[j] => i = j
  BY <1>4, <1>5, <1>6, <1>9
<1>11. Queued(p) /\ ToSet(p) = {p[i] : i \in 1..(n + 1)}
  BY <1>2, <1>7, <1>10, QueuedIf
<1>12. 1..n \subseteq 1..(n + 1) /\ n + 1 \in 1..(n + 1)
  BY <1>6
<1>13. {p[i] : i \in 1..(n + 1)} = {q[i] : i \in 1..n} \cup {a}
  BY <1>6, <1>9, <1>12
<1> QED
  BY <1>8, <1>11, <1>13 DEF p

\* Two queues without a common entry, one after the other.
LEMMA Joined ==
  ASSUME NEW p, Queued(p), NEW r, Queued(r), ToSet(p) \cap ToSet(r) = {}
  PROVE  Queued(p \o r) /\ ToSet(p \o r) = ToSet(p) \cup ToSet(r)
<1> DEFINE m == Len(p)
           n == Len(r)
           q == p \o r
<1>1. p \in Seq(Addrs) /\ r \in Seq(Addrs) /\ m \in Nat /\ n \in Nat
  BY Indices DEF Queued
<1>2. q \in Seq(Addrs) /\ Len(q) = m + n
  BY <1>1, ConcatProperties
<1>3. \A i \in 1..(m + n) : q[i] = IF i <= m THEN p[i] ELSE r[i - m]
  BY <1>1, ConcatProperties
<1>4. ToSet(p) = {p[i] : i \in 1..m} /\ \A i, j \in 1..m : p[i] = p[j] => i = j
  BY Indices
<1>5. ToSet(r) = {r[i] : i \in 1..n} /\ \A i, j \in 1..n : r[i] = r[j] => i = j
  BY Indices
<1> HIDE DEF m, n, q
<1>6. \A i \in 1..m : i \in 1..(m + n) /\ q[i] = p[i]
  BY <1>1, <1>3
<1>7. \A i \in 1..n : m + i \in 1..(m + n) /\ q[m + i] = r[i]
  BY <1>1, <1>3
<1>8. \A i \in 1..(m + n) : i \in 1..m \/ (i - m \in 1..n /\ q[i] = r[i - m] /\ i = m + (i - m))
  BY <1>1, <1>3
<1>9. \A i, j \in 1..(m + n) : q[i] = q[j] => i = j
  <2> SUFFICES ASSUME NEW i \in 1..(m + n), NEW j \in 1..(m + n), q[i] = q[j] PROVE i = j
    OBVIOUS
  <2>1. CASE i \in 1..m /\ j \in 1..m
    BY <1>4, <1>6, <2>1
  <2>2. CASE i \in 1..m /\ j \notin 1..m
    BY <1>4, <1>5, <1>6, <1>8, <2>2
  <2>3. CASE i \notin 1..m /\ j \in 1..m
    BY <1>4, <1>5, <1>6, <1>8, <2>3
  <2>4. CASE i \notin 1..m /\ j \notin 1..m
    <3>1. i - m \in 1..n /\ j - m \in 1..n /\ r[i - m] = r[j - m]
      BY <1>8, <2>4
    <3>2. i - m = j - m
      BY <1>5, <3>1
    <3> QED
      BY <1>1, <3>2
  <2> QED
    BY <2>1, <2>2, <2>3, <2>4
<1>10. Queued(q) /\ ToSet(q) = {q[i] : i \in 1..(m + n)}
  BY <1>2, <1>9, QueuedIf
<1>11. {q[i] : i \in 1..(m + n)} = {p[i] : i \in 1..m} \cup {r[i] : i \in 1..n}
  <2>1. \A i \in 1..(m + n) : (\E j \in 1..m : q[i] = p[j]) \/ (\E j \in 1..n : q[i] = r[j])
    BY <1>6, <1>8
  <2>2. \A j \in 1..m : \E i \in 1..(m + n) : q[i] = p[j]
    BY <1>6
  <2>3. \A j \in 1..n : \E i \in 1..(m + n) : q[i] = r[j]
    BY <1>7
  <2> QED
    BY <2>1, <2>2, <2>3
<1> QED
  BY <1>4, <1>5, <1>10, <1>11 DEF q

\* A piece of a queue is a queue.
LEMMA Piece ==
  ASSUME NEW q, Queued(q), NEW m \in 1..(Len(q) + 1), NEW n \in 0..Len(q)
  PROVE  /\ Queued(SubSeq(q, m, n))
         /\ ToSet(SubSeq(q, m, n)) = {q[i] : i \in m..n}
         /\ Len(SubSeq(q, m, n)) = IF m <= n THEN n - m + 1 ELSE 0
<1> DEFINE p == SubSeq(q, m, n)
           k == IF m <= n THEN n - m + 1 ELSE 0
<1>1. Len(q) \in Nat /\ m \in Int /\ n \in Int /\ k \in Nat
  BY Indices
<1>2. m..n \subseteq 1..Len(q)
  BY <1>1
<1>3. \A i \in m..n : q[i] \in Addrs
  BY <1>2, Indices
<1>4. p \in Seq(Addrs) /\ Len(p) = k
  BY <1>1, <1>3, SubSeqProperties
<1>5. \A i \in 1..(n - m + 1) : p[i] = q[m + i - 1]
  BY <1>1, <1>3, SubSeqProperties
<1> HIDE DEF p
<1>6. \A i \in 1..k : i \in 1..(n - m + 1) /\ m + i - 1 \in m..n
  BY <1>1
<1>7. \A j \in m..n : j - m + 1 \in 1..k /\ m + (j - m + 1) - 1 = j
  BY <1>1
<1>8. \A i, j \in 1..k : m + i - 1 = m + j - 1 => i = j
  BY <1>1
<1> HIDE DEF k
<1>9. \A i, j \in 1..Len(q) : q[i] = q[j] => i = j
  BY Indices
<1>10. \A i \in 1..k : p[i] = q[m + i - 1] /\ m + i - 1 \in m..n
  BY <1>5, <1>6
<1>11. \A i, j \in 1..k : p[i] = p[j] => i = j
  BY <1>2, <1>8, <1>9, <1>10
<1>12. Queued(p) /\ ToSet(p) = {p[i] : i \in 1..k}
  BY <1>4, <1>11, QueuedIf
<1>13. {p[i] : i \in 1..k} = {q[i] : i \in m..n}
  <2>1. \A j \in m..n : p[j - m + 1] = q[j] /\ j - m + 1 \in 1..k
    <3> TAKE j \in m..n
    <3>1. p[j - m + 1] = q[m + (j - m + 1) - 1]
      BY <1>7, <1>10
    <3> QED
      BY <1>7, <3>1
  <2>2. \A i \in 1..k : \E j \in m..n : p[i] = q[j]
    BY <1>10
  <2>3. \A j \in m..n : \E i \in 1..k : p[i] = q[j]
    BY <2>1
  <2> DEFINE I == 1..k
             J == m..n
  <2>4. (\A i \in I : \E j \in J : p[i] = q[j]) /\ (\A j \in J : \E i \in I : p[i] = q[j])
    BY <2>2, <2>3
  <2> HIDE DEF I, J
  <2>5. {p[i] : i \in I} = {q[j] : j \in J}
    BY <2>4
  <2> QED
    BY <2>5 DEF I, J
<1> QED
  BY <1>4, <1>12, <1>13 DEF p, k

\* One address is taken out of the queue.
LEMMA Dropped ==
  ASSUME Queued(queue), NEW a
  PROVE  Queued(Unqueued(a)) /\ ToSet(Unqueued(a)) = ToSet(queue) \ {a}
<1>1. CASE a \notin ToSet(queue)
  BY <1>1 DEF Unqueued
<1>2. CASE a \in ToSet(queue)
  <2> DEFINE k == CHOOSE i \in 1..Len(queue) : queue[i] = a
             n == Len(queue)
             p == SubSeq(queue, 1, k - 1)
             r == SubSeq(queue, k + 1, n)
  <2>1. k \in 1..n /\ queue[k] = a
    BY <1>2, Indices
  <2>2. Unqueued(a) = p \o r
    BY <1>2 DEF Unqueued, RemoveAt
  <2> HIDE DEF k
  <2>3. n \in Nat
    BY Indices
  <2>4. k - 1 \in 0..n /\ k + 1 \in 1..(n + 1) /\ 1 \in 1..(n + 1) /\ n \in 0..n
    BY <2>1, <2>3
  <2>5. Queued(p) /\ ToSet(p) = {queue[i] : i \in 1..(k - 1)}
    BY <2>1, <2>4, Piece
  <2>6. Queued(r) /\ ToSet(r) = {queue[i] : i \in (k + 1)..n}
    BY <2>1, <2>3, <2>4, Piece
  <2>7. \A i, j \in 1..n : queue[i] = queue[j] => i = j
    BY Indices
  <2>8. 1..(k - 1) \subseteq 1..n /\ (k + 1)..n \subseteq 1..n
    BY <2>1, <2>3
  <2>9. \A i \in 1..n : i \in 1..(k - 1) \/ i = k \/ i \in (k + 1)..n
    BY <2>1, <2>3
  <2>10. ToSet(p) \cap ToSet(r) = {}
    <3>1. \A i \in 1..(k - 1), j \in (k + 1)..n : i # j
      BY <2>1, <2>3
    <3> QED
      BY <2>5, <2>6, <2>7, <2>8, <3>1
  <2>11. ToSet(p) \cup ToSet(r) = ToSet(queue) \ {a}
    <3>1. ToSet(queue) = {queue[i] : i \in 1..n}
      BY Indices
    <3>2. \A i \in 1..(k - 1) : i # k
      BY <2>1
    <3>3. \A i \in (k + 1)..n : i # k
      BY <2>1
    <3> HIDE DEF n, p, r
    <3> QED
      BY <2>1, <2>5, <2>6, <2>7, <2>8, <2>9, <3>1, <3>2, <3>3
  <2> HIDE DEF p, r
  <2>12. Queued(p \o r) /\ ToSet(p \o r) = ToSet(p) \cup ToSet(r)
    BY <2>5, <2>6, <2>10, Joined
  <2> QED
    BY <2>2, <2>11, <2>12
<1> QED
  BY <1>1, <1>2

-----------------------------------------------------------------------------
(* The registry: what a start, a stop and the end of a walk do to it.       *)

Registry == walk \in [Addrs -> Walk] /\ Queued(queue)

LEMMA WalkTypes == NoWalk \in Walk /\ NewWalk \in Walk /\ NewWalk.pc = "read" /\ NoWalk.pc = "idle"
<1>1. 0 \in Blocks /\ -1 \in Cursors /\ Batch \in 1..Batch /\ 0 \in 0..Retries
  BY SizesAssumption DEF Blocks, Cursors
<1>2. NoWalk \in Walk
  BY <1>1 DEF NoWalk, Walk
<1> QED
  BY <1>2 DEF NoWalk, NewWalk, Walk

\* The addresses are finitely many, and so are the walks.
LEMMA Counted ==
  ASSUME NEW S, S \subseteq Addrs
  PROVE  IsFiniteSet(S) /\ Cardinality(S) \in Nat
BY SizesAssumption, FS_Subset, FS_CardinalityType

LEMMA StartableIs ==
  ASSUME NEW active, Queued(queue), NEW n \in 0..Len(queue)
  PROVE  /\ Startable(active, n) \subseteq ToSet(queue) /\ ToSet(queue) \subseteq Addrs
         /\ n = 0 => Startable(active, n) = {}
         /\ n # 0 => active \cup Startable(active, n)
                       = (active \cup Startable(active, n - 1)) \cup {queue[n]}
<1>1. Len(queue) \in Nat /\ 1 \in 1..(Len(queue) + 1)
  BY Indices
<1>2. ToSet(queue) = {queue[i] : i \in 1..Len(queue)} /\ ToSet(queue) \subseteq Addrs
  BY Indices
<1>3. Startable(active, n) = {queue[i] : i \in 1..n} \ active
  BY <1>1, Piece DEF Startable
<1>4. 1..n \subseteq 1..Len(queue)
  BY <1>1
<1>5. n = 0 => 1..n = {}
  OBVIOUS
<1>6. n # 0 => active \cup Startable(active, n)
                 = (active \cup Startable(active, n - 1)) \cup {queue[n]}
  <2> HAVE n # 0
  <2>1. n - 1 \in 0..Len(queue)
    BY <1>1
  <2>2. Startable(active, n - 1) = {queue[i] : i \in 1..(n - 1)} \ active
    BY <1>1, <2>1, Piece DEF Startable
  <2>3. \A i \in 1..n : i \in 1..(n - 1) \/ i = n
    OBVIOUS
  <2>4. 1..(n - 1) \subseteq 1..n /\ n \in 1..n
    OBVIOUS
  <2>5. {queue[i] : i \in 1..n} = {queue[i] : i \in 1..(n - 1)} \cup {queue[n]}
    BY <2>3, <2>4
  <2> QED
    BY <1>3, <2>2, <2>5
<1> QED
  BY <1>2, <1>3, <1>4, <1>5, <1>6

\* A pump ends somewhere, and what it has started by then fits in the slots.
LEMMA PumpEndIs ==
  ASSUME NEW active, active \subseteq Addrs, Queued(queue)
  PROVE  LET n  == PumpEnd(active)
             up == active \cup Startable(active, n)
         IN  /\ n \in 0..Len(queue)
             /\ n = Len(queue) \/ Cardinality(up) >= Slots
             /\ Cardinality(active) <= Slots => Cardinality(up) <= Slots
<1> DEFINE Up(k) == active \cup Startable(active, k)
           Full(k) == k = Len(queue) \/ Cardinality(Up(k)) >= Slots
           Ends(k) == Full(k) /\ \A j \in 0..(k - 1) : Cardinality(Up(j)) < Slots
           n == PumpEnd(active)
<1>1. Len(queue) \in Nat /\ Slots \in Nat
  BY Indices, SizesAssumption
<1>2. \A k \in 0..Len(queue) : Up(k) \subseteq Addrs /\ IsFiniteSet(Up(k)) /\ Cardinality(Up(k)) \in Nat
  <2> TAKE k \in 0..Len(queue)
  <2>1. Up(k) \subseteq Addrs
    BY StartableIs
  <2> QED
    BY <2>1, Counted
<1>3. n = CHOOSE k \in 0..Len(queue) : Ends(k)
  BY Zenon DEF PumpEnd
<1> HIDE DEF Up, n
<1>4. \E k \in 0..Len(queue) : Ends(k)
  <2> DEFINE Stops == {k \in 0..Len(queue) : Full(k)}
  <2>1. Len(queue) \in Stops /\ Stops \subseteq Nat
    BY <1>1
  <2>2. PICK k \in Stops : \A m \in Stops : k <= m
    BY <2>1, LeastNat
  <2>3. \A j \in 0..(k - 1) : j \in 0..Len(queue) /\ ~Full(j)
    BY <1>1, <2>2
  <2>4. \A j \in 0..(k - 1) : Cardinality(Up(j)) < Slots
    BY <1>1, <1>2, <2>3
  <2> QED
    BY <2>2, <2>4
<1> HIDE DEF Ends
<1>5. n \in 0..Len(queue) /\ Ends(n)
  BY <1>3, <1>4, Zenon
<1>6. ASSUME Cardinality(active) <= Slots PROVE Cardinality(Up(n)) <= Slots
  <2>1. CASE n = 0
    BY <1>5, <1>6, <2>1, StartableIs DEF Up
  <2>2. CASE n # 0
    <3>1. n - 1 \in 0..Len(queue) /\ Cardinality(Up(n - 1)) < Slots
      BY <1>1, <1>5, <2>2 DEF Ends
    <3>2. Up(n) = Up(n - 1) \cup {queue[n]}
      BY <1>5, <2>2, StartableIs DEF Up
    <3>3. Cardinality(Up(n)) <= Cardinality(Up(n - 1)) + 1
      <4> DEFINE S == Up(n - 1)
      <4>1. IsFiniteSet(S) /\ Cardinality(S) \in Nat
        BY <1>2, <3>1
      <4> HIDE DEF S
      <4>2. Cardinality(S \cup {queue[n]}) \in {Cardinality(S), Cardinality(S) + 1}
        BY <4>1, FS_AddElement
      <4>3. Cardinality(S \cup {queue[n]}) <= Cardinality(S) + 1
        BY <4>1, <4>2
      <4> QED
        BY <3>2, <4>3 DEF S
    <3> QED
      BY <1>1, <1>2, <1>5, <3>1, <3>3
  <2> QED
    BY <2>1, <2>2
<1> QED
  BY <1>5, <1>6 DEF Up, Ends, n

\* The end of a walk: its slot is freed, and walks of queued addresses begin.
LEMMA EndKeeps ==
  ASSUME Registry, NEW a \in Addrs, End(a)
  PROVE  /\ Registry'
         /\ \A b \in Addrs : \/ b \in ToSet(queue) /\ walk'[b] = NewWalk
                             \/ b = a /\ walk'[b] = NoWalk
                             \/ b # a /\ walk'[b] = walk[b]
         /\ ToSet(queue') \subseteq ToSet(queue)
         /\ Slotted => Slotted'
<1> DEFINE active == Active \ {a}
           n == PumpEnd(active)
           up == active \cup Startable(active, n)
<1>1. Active \subseteq Addrs /\ active \subseteq Active /\ active \subseteq Addrs
  BY DEF Active
<1>2. n \in 0..Len(queue) /\ (n = Len(queue) \/ Cardinality(up) >= Slots)
  BY <1>1, PumpEndIs DEF Registry
<1>3. Cardinality(active) <= Slots => Cardinality(up) <= Slots
  BY <1>1, PumpEndIs DEF Registry
<1>4. /\ walk' = [b \in Addrs |-> IF b \in Startable(active, n) THEN NewWalk
                                   ELSE IF b = a THEN NoWalk ELSE walk[b]]
      /\ queue' = SubSeq(queue, n + 1, Len(queue))
  BY Zenon DEF End
<1> HIDE DEF n
<1>5. Startable(active, n) \subseteq ToSet(queue) /\ Startable(active, n) \subseteq Addrs
  BY <1>2, StartableIs DEF Registry
<1>6. walk' \in [Addrs -> Walk]
  BY <1>4, WalkTypes DEF Registry
<1>7. Active' = up
  BY <1>1, <1>4, <1>5, WalkTypes DEF Active
<1>8. Len(queue) \in Nat /\ n + 1 \in 1..(Len(queue) + 1) /\ Len(queue) \in 0..Len(queue)
  BY <1>2, Indices DEF Registry
<1>9. Queued(queue') /\ ToSet(queue') = {queue[i] : i \in (n + 1)..Len(queue)}
  BY <1>4, <1>8, Piece DEF Registry
<1>10. ToSet(queue) = {queue[i] : i \in 1..Len(queue)}
  BY Indices DEF Registry
<1>11. (n + 1)..Len(queue) \subseteq 1..Len(queue)
  BY <1>2, <1>8
<1>12. ToSet(queue') \subseteq ToSet(queue)
  BY <1>9, <1>10, <1>11
<1>13. n = Len(queue) => ToSet(queue') = {}
  BY <1>8, <1>9
<1>14. ASSUME Slotted PROVE Slotted'
  <2>1. IsFiniteSet(Active) /\ Cardinality(Active) \in Nat /\ Cardinality(active) \in Nat
    BY <1>1, Counted
  <2>2. Cardinality(active) <= Cardinality(Active)
    BY <1>1, <2>1, FS_Subset
  <2>3. Slots \in Nat /\ up \subseteq Addrs
    BY <1>1, <1>5, SizesAssumption
  <2>4. Cardinality(up) \in Nat
    BY <2>3, Counted
  <2>5. Cardinality(Active) <= Slots
    BY <1>14 DEF Slotted
  <2> HIDE DEF up, active
  <2>6. Cardinality(up) <= Slots
    BY <1>3, <2>1, <2>2, <2>3, <2>5
  <2>7. Cardinality(up) < Slots => ToSet(queue') = {}
    BY <1>2, <1>13, <2>3, <2>4
  <2> QED
    BY <1>7, <2>6, <2>7 DEF Slotted
<1>15. \A b \in Addrs : \/ b \in ToSet(queue) /\ walk'[b] = NewWalk
                        \/ b = a /\ walk'[b] = NoWalk
                        \/ b # a /\ walk'[b] = walk[b]
  BY <1>4, <1>5
<1>16. Registry'
  BY <1>6, <1>9 DEF Registry
<1> QED
  BY <1>12, <1>14, <1>15, <1>16, Zenon

\* A start: at once, or queued behind the others.
LEMMA EnsureKeeps ==
  ASSUME Registry, NEW a \in Addrs, Ensure(a)
  PROVE  /\ Registry'
         /\ \A b \in Addrs : \/ walk'[b] = walk[b]
                             \/ b = a /\ walk'[b] = NewWalk /\ walk[b].pc = "idle"
         /\ ToSet(queue') \subseteq ToSet(queue) \cup {a}
         /\ Slotted => Slotted'
<1>1. Active \subseteq Addrs /\ IsFiniteSet(Active) /\ Cardinality(Active) \in Nat /\ Slots \in Nat
  BY Counted, SizesAssumption DEF Active
<1>2. CASE a \in Active \/ Cardinality(Active) >= Slots
  <2>1. walk' = walk /\ Active' = Active
    BY <1>2 DEF Ensure, Active
  <2>2. queue' = IF a \in ToSet(queue) THEN queue ELSE Append(queue, a)
    BY <1>2 DEF Ensure
  <2>3. Queued(queue') /\ ToSet(queue') = ToSet(queue) \cup {a}
    BY <2>2, Pushed DEF Registry
  <2>4. Registry'
    BY <2>1, <2>3 DEF Registry
  <2>5. Slotted => Slotted'
    BY <1>1, <1>2, <2>1, <2>3 DEF Slotted
  <2> QED
    BY <2>1, <2>3, <2>4, <2>5, Zenon
<1>3. CASE ~(a \in Active \/ Cardinality(Active) >= Slots)
  <2>1. walk' = [walk EXCEPT ![a] = NewWalk] /\ queue' = queue
    BY <1>3 DEF Ensure
  <2>2. walk[a].pc = "idle" /\ a \notin Active
    BY <1>3 DEF Active
  <2>3. walk' \in [Addrs -> Walk] /\ \A b \in Addrs : walk'[b] = IF b = a THEN NewWalk ELSE walk[b]
    BY <2>1, WalkTypes DEF Registry
  <2>4. Active' = Active \cup {a}
    BY <2>3, WalkTypes DEF Active
  <2>5. Cardinality(Active \cup {a}) = Cardinality(Active) + 1
    BY <1>1, <2>2, FS_AddElement
  <2>6. Slotted => Slotted'
    BY <1>1, <1>3, <2>1, <2>4, <2>5 DEF Slotted
  <2>7. Registry'
    BY <2>1, <2>3 DEF Registry
  <2>8. \A b \in Addrs : \/ walk'[b] = walk[b]
                         \/ b = a /\ walk'[b] = NewWalk /\ walk[b].pc = "idle"
    BY <2>2, <2>3
  <2>9. ToSet(queue') \subseteq ToSet(queue) \cup {a}
    BY <2>1, Zenon
  <2> QED
    BY <2>6, <2>7, <2>8, <2>9, Zenon
<1> QED
  BY <1>2, <1>3

\* A stop: the walk is told, and a queued start withdrawn.
LEMMA StopKeeps ==
  ASSUME Registry, NEW a \in Addrs, Stop(a)
  PROVE  /\ Registry'
         /\ \A b \in Addrs : b # a => walk'[b] = walk[b]
         /\ walk'[a] = [walk[a] EXCEPT !.abort = (walk[a].pc # "idle")]
         /\ ToSet(queue') = ToSet(queue) \ {a}
         /\ Slotted => Slotted'
<1> DEFINE stopped == walk[a].pc # "idle"
<1>1. walk' = [walk EXCEPT ![a] = [@ EXCEPT !.abort = stopped]] /\ queue' = Unqueued(a)
  BY DEF Stop
<1>2. stopped \in BOOLEAN
  OBVIOUS
<1> HIDE DEF stopped
<1>3. walk' \in [Addrs -> Walk] /\ \A b \in Addrs : b # a => walk'[b] = walk[b]
  BY <1>1, <1>2 DEF Registry, Walk
<1>4. walk'[a] = [walk[a] EXCEPT !.abort = stopped] /\ walk[a] \in Walk
  BY <1>1 DEF Registry
<1>5. walk'[a].pc = walk[a].pc
  BY <1>4 DEF Walk
<1>6. Queued(queue') /\ ToSet(queue') = ToSet(queue) \ {a}
  BY <1>1, Dropped DEF Registry
<1>7. Active' = Active
  BY <1>3, <1>5 DEF Active
<1> QED
  BY <1>3, <1>4, <1>6, <1>7 DEF Registry, Slotted, stopped

-----------------------------------------------------------------------------
(* What holds of the registry and of every walk.                            *)

\* Steps of a walk that has seen its bounds in a running row.
Started == {"client", "test", "segment", "own", "insert", "trace", "checkpoint", "fail", "pause",
            "finish"}

\* A walk that has started and its row, while the row runs, have the same bounds.
WalkOK(row, w) ==
  /\ w.pc = "segment" => w.cur < w.to
  /\ w.pc \in Started /\ row.status = "running" => row.from = w.from /\ row.to = w.to

ScanInv ==
  /\ TypeOK
  /\ Slotted
  /\ \A h \in Handlers : req[h].pc = "extend" => req[h].seen.status # "running"
  /\ \A a \in Addrs : WalkOK(rows[a], walk[a])

Tables(r, f, i, w) ==
  /\ r \in [Addrs -> Row] /\ w \in [Addrs -> BOOLEAN]
  /\ f \in [Addrs -> SUBSET Blocks] /\ i \in [Addrs -> SUBSET Blocks]

Requests(q) ==
  /\ q \in [Handlers -> Req]
  /\ \A h \in Handlers : q[h].pc = "extend" => q[h].seen.status # "running"

\* The same by its parts.
LEMMA Parts ==
  ScanInv <=> /\ Registry /\ Tables(rows, findings, internals, wiped) /\ Requests(req)
              /\ head \in Blocks /\ Slotted /\ \A a \in Addrs : WalkOK(rows[a], walk[a])
BY Zenon DEF ScanInv, TypeOK, Registry, Queued, Tables, Requests

LEMMA PartsNext ==
  ScanInv' <=> /\ Registry' /\ Tables(rows', findings', internals', wiped') /\ Requests(req')
               /\ head' \in Blocks /\ Slotted' /\ \A a \in Addrs : WalkOK(rows'[a], walk'[a])
BY Zenon DEF ScanInv, TypeOK, Registry, Queued, Tables, Requests, WalkOK

LEMMA Numbers ==
  /\ MaxBlock \in Nat /\ Batch \in Nat /\ Batch >= 1 /\ Retries \in Nat
  /\ Blocks \subseteq Cursors /\ Cursors \subseteq Int /\ Blocks \subseteq Int
  /\ 0 \in Blocks /\ -1 \in Cursors
  /\ \A b \in Blocks : b - 1 \in Cursors
BY SizesAssumption DEF Blocks, Cursors

LEMMA RowTypes ==
  /\ NoRow \in Row /\ NoReq \in Req
  /\ \A row \in Row : Seen(row) \in [status : Statuses, from : Blocks, to : Blocks]
<1>1. NoRow \in Row
  BY Numbers DEF NoRow, Row, Statuses
<1>2. \A row \in Row : Seen(row) \in [status : Statuses, from : Blocks, to : Blocks]
  BY DEF Seen, Row
<1>3. (CHOOSE a \in Addrs : TRUE) \in Addrs
  BY SizesAssumption
<1>4. NoReq \in Req
  BY <1>1, <1>2, <1>3, Numbers DEF NoReq, Req
<1> QED
  BY <1>1, <1>2, <1>4

\* A walk goes on.
LEMMA GoesKeeps ==
  ASSUME ScanInv, NEW a \in Addrs, NEW w \in Walk, Goes(a, w), w.pc # "idle", walk[a].pc # "idle",
         Tables(rows', findings', internals', wiped'), WalkOK(rows'[a], w),
         \A b \in Addrs : b # a => rows'[b] = rows[b], UNCHANGED <<req, head>>
  PROVE  ScanInv'
<1>1. Registry /\ Requests(req) /\ head \in Blocks /\ Slotted /\ \A b \in Addrs : WalkOK(rows[b], walk[b])
  BY Parts
<1>2. walk' = [walk EXCEPT ![a] = w] /\ queue' = queue
  BY DEF Goes
<1>3. walk' \in [Addrs -> Walk] /\ \A b \in Addrs : walk'[b] = IF b = a THEN w ELSE walk[b]
  BY <1>1, <1>2 DEF Registry
<1>4. Registry'
  BY <1>1, <1>2, <1>3 DEF Registry
<1>5. Active' = Active
  BY <1>3 DEF Active
<1>6. Slotted'
  BY <1>1, <1>2, <1>5 DEF Slotted
<1>7. \A b \in Addrs : WalkOK(rows'[b], walk'[b])
  BY <1>1, <1>3
<1>8. Requests(req') /\ head' \in Blocks
  BY <1>1
<1> QED
  BY <1>4, <1>6, <1>7, <1>8, PartsNext, Zenon

LEMMA NewWalkOK == \A row : WalkOK(row, NewWalk) /\ WalkOK(row, NoWalk)
BY WalkTypes DEF WalkOK, Started

\* A walk ends.
LEMMA EndsKeep ==
  ASSUME ScanInv, NEW a \in Addrs, End(a), rows' \in [Addrs -> Row],
         \A b \in Addrs : b # a => rows'[b] = rows[b],
         UNCHANGED <<findings, internals, wiped, req, head>>
  PROVE  ScanInv'
<1>1. Registry /\ Requests(req) /\ head \in Blocks /\ Slotted /\ \A b \in Addrs : WalkOK(rows[b], walk[b])
  BY Parts
<1>2. Registry' /\ Slotted'
  BY <1>1, EndKeeps
<1>3. \A b \in Addrs : walk'[b] \in {NewWalk, NoWalk} \/ (b # a /\ walk'[b] = walk[b])
  BY <1>1, EndKeeps
<1>4. \A b \in Addrs : WalkOK(rows'[b], walk'[b])
  BY <1>1, <1>3, NewWalkOK
<1>5. Tables(rows', findings', internals', wiped')
  BY Parts DEF Tables
<1>6. Requests(req') /\ head' \in Blocks
  BY <1>1
<1> QED
  BY <1>2, <1>4, <1>5, <1>6, PartsNext, Zenon

\* What a request may do to the registry.
Registers(a) ==
  \/ Ensure(a) \/ Stop(a)
  \/ queue' = Unqueued(a) /\ UNCHANGED walk
  \/ UNCHANGED <<walk, queue>>

LEMMA RegistersKeeps ==
  ASSUME Registry, NEW a \in Addrs, Registers(a)
  PROVE  /\ Registry' /\ (Slotted => Slotted')
         /\ \A b \in Addrs :
              \/ walk'[b] = walk[b] \/ walk'[b] = NewWalk
              \/ \E abort \in BOOLEAN : walk'[b] = [walk[b] EXCEPT !.abort = abort]
<1>1. CASE Ensure(a)
  BY <1>1, EnsureKeeps
<1>2. CASE Stop(a)
  <2>1. Registry' /\ (Slotted => Slotted') /\ \A b \in Addrs : b # a => walk'[b] = walk[b]
    BY <1>2, StopKeeps
  <2>2. walk'[a] = [walk[a] EXCEPT !.abort = (walk[a].pc # "idle")]
    BY <1>2, StopKeeps
  <2>3. (walk[a].pc # "idle") \in BOOLEAN
    OBVIOUS
  <2> QED
    BY <2>1, <2>2, <2>3
<1>3. CASE queue' = Unqueued(a) /\ UNCHANGED walk
  <2>1. Queued(queue') /\ ToSet(queue') \subseteq ToSet(queue)
    BY <1>3, Dropped DEF Registry
  <2>2. Active' = Active
    BY <1>3 DEF Active
  <2>3. Slotted => Slotted'
    BY <2>1, <2>2 DEF Slotted
  <2>4. Registry'
    BY <1>3, <2>1 DEF Registry
  <2> QED
    BY <1>3, <2>3, <2>4
<1>4. CASE UNCHANGED <<walk, queue>>
  <2>1. Registry' /\ Active' = Active
    BY <1>4 DEF Registry, Active
  <2>2. Slotted => Slotted'
    BY <1>4, <2>1 DEF Slotted
  <2> QED
    BY <1>4, <2>1, <2>2
<1> QED
  BY <1>1, <1>2, <1>3, <1>4 DEF Registers

\* A request takes a step: it changes a row only to one that does not run.
LEMMA RequestKeeps ==
  ASSUME ScanInv, NEW a \in Addrs, Registers(a), Requests(req'), head' = head,
         Tables(rows', findings', internals', wiped'),
         \A b \in Addrs : rows'[b] = rows[b] \/ rows'[b].status # "running"
  PROVE  ScanInv'
<1>1. Registry /\ head \in Blocks /\ Slotted /\ \A b \in Addrs : WalkOK(rows[b], walk[b])
  BY Parts
<1>2. Registry' /\ Slotted'
  BY <1>1, RegistersKeeps
<1>3. ASSUME NEW b \in Addrs PROVE WalkOK(rows'[b], walk'[b])
  <2>1. walk[b] \in Walk /\ WalkOK(rows[b], walk[b])
    BY <1>1 DEF Registry
  <2>2. WalkOK(rows'[b], walk[b])
    BY <2>1 DEF WalkOK
  <2>3. CASE walk'[b] = walk[b]
    BY <2>2, <2>3
  <2>4. CASE walk'[b] = NewWalk
    BY <2>4, NewWalkOK
  <2>5. CASE \E abort \in BOOLEAN : walk'[b] = [walk[b] EXCEPT !.abort = abort]
    <3>1. PICK abort \in BOOLEAN : walk'[b] = [walk[b] EXCEPT !.abort = abort]
      BY <2>5
    <3>2. /\ walk'[b].pc = walk[b].pc /\ walk'[b].cur = walk[b].cur
          /\ walk'[b].from = walk[b].from /\ walk'[b].to = walk[b].to
      BY <2>1, <3>1 DEF Walk
    <3> QED
      BY <2>2, <3>2 DEF WalkOK
  <2> QED
    BY <1>1, <2>3, <2>4, <2>5, RegistersKeeps
<1> QED
  BY <1>1, <1>2, <1>3, PartsNext, Zenon

\* A row that is changed is still a row, and the others are as they were.
LEMMA RowChanged ==
  ASSUME ScanInv, NEW a \in Addrs, NEW row \in Row, rows' = [rows EXCEPT ![a] = row]
  PROVE  /\ rows' \in [Addrs -> Row] /\ rows'[a] = row
         /\ \A b \in Addrs : b # a => rows'[b] = rows[b]
BY Parts DEF Tables

\* updateScanJobRow leaves a row that does not run alone.
LEMMA IfRunningKeeps ==
  ASSUME ScanInv, NEW a \in Addrs, NEW row \in Row, IfRunning(a, row)
  PROVE  /\ rows' \in [Addrs -> Row]
         /\ rows'[a] = IF rows[a].status = "running" THEN row ELSE rows[a]
         /\ \A b \in Addrs : b # a => rows'[b] = rows[b]
<1> DEFINE new == IF rows[a].status = "running" THEN row ELSE rows[a]
<1>1. new \in Row /\ rows' = [rows EXCEPT ![a] = new]
  BY Parts DEF Tables, IfRunning
<1> QED
  BY <1>1, RowChanged

\* The steps of a walk.
LEMMA WalkKeeps ==
  ASSUME ScanInv, NEW a \in Addrs, WalkStep(a)
  PROVE  ScanInv'
<1> DEFINE w == walk[a]
           row == rows[a]
<1>1. w \in Walk /\ row \in Row /\ WalkOK(row, w) /\ Tables(rows, findings, internals, wiped)
  BY Parts DEF Registry, Tables
<1>2. /\ w.from \in Blocks /\ w.to \in Blocks /\ w.cur \in Cursors /\ w.at \in Blocks
      /\ w.batch \in 1..Batch /\ w.tries \in 0..Retries
      /\ row.from \in Blocks /\ row.to \in Blocks /\ row.cur \in Cursors
  BY <1>1 DEF Walk, Row
<1>3. CASE ReadRow(a)
  <2>1. CASE row.status \in Restartable
    <3> DEFINE v == [w EXCEPT !.pc = "flip", !.was = row.status, !.from = row.from,
                             !.to = row.to, !.cur = row.cur, !.traces = row.traces]
    <3>1. v \in Walk /\ v.pc = "flip"
      BY <1>1, <2>1 DEF Walk, Row, Restartable
    <3>2. Goes(a, v) /\ w.pc = "read" /\ UNCHANGED <<tables, req, head>>
      BY <1>3, <2>1 DEF ReadRow, At
    <3> HIDE DEF v
    <3>3. WalkOK(row, v)
      BY <3>1 DEF WalkOK, Started
    <3> QED
      BY <1>1, <3>1, <3>2, <3>3, GoesKeeps DEF tables
  <2>2. CASE row.status \notin Restartable
    <3>1. End(a) /\ UNCHANGED <<tables, req, head>>
      BY <1>3, <2>2 DEF ReadRow
    <3> QED
      BY <1>1, <3>1, EndsKeep DEF tables, Tables
  <2> QED
    BY <2>1, <2>2
<1>4. CASE Flip(a)
  <2> DEFINE v == [w EXCEPT !.pc = "verify", !.was = "pending"]
             new == [row EXCEPT !.status = IF @ = w.was THEN "running" ELSE @]
  <2>1. v \in Walk /\ v.pc = "verify" /\ new \in Row
    BY <1>1 DEF Walk, Row, Statuses
  <2>2. Goes(a, v) /\ w.pc = "flip" /\ UNCHANGED <<findings, internals, req, head, wiped>>
    BY <1>4 DEF Flip, At
  <2>3. rows' = [rows EXCEPT ![a] = new]
    BY <1>1, <1>4 DEF Flip, Tables
  <2> HIDE DEF v, new
  <2>4. WalkOK(rows'[a], v)
    BY <2>1 DEF WalkOK, Started
  <2>5. rows' \in [Addrs -> Row] /\ \A b \in Addrs : b # a => rows'[b] = rows[b]
    BY <2>1, <2>3, RowChanged
  <2>6. Tables(rows', findings', internals', wiped')
    BY <1>1, <2>2, <2>5 DEF Tables
  <2> QED
    BY <2>1, <2>2, <2>4, <2>5, <2>6, GoesKeeps
<1>5. CASE Verify(a)
  <2>1. CASE Owns(a)
    <3> DEFINE v == [w EXCEPT !.pc = "client"]
    <3>1. v \in Walk /\ v.pc = "client" /\ v.from = w.from /\ v.to = w.to
      BY <1>1 DEF Walk
    <3>2. Goes(a, v) /\ w.pc = "verify" /\ UNCHANGED <<tables, req, head>>
      BY <1>5, <2>1 DEF Verify, At
    <3> HIDE DEF v
    <3>3. WalkOK(row, v)
      BY <2>1, <3>1 DEF WalkOK, Owns
    <3> QED
      BY <1>1, <3>1, <3>2, <3>3, GoesKeeps DEF tables
  <2>2. CASE ~Owns(a)
    <3>1. End(a) /\ UNCHANGED <<tables, req, head>>
      BY <1>5, <2>2 DEF Verify
    <3> QED
      BY <1>1, <3>1, EndsKeep DEF tables, Tables
  <2> QED
    BY <2>1, <2>2
<1>6. ASSUME NEW v \in Walk, Goes(a, v), v.from = w.from, v.to = w.to, w.pc \in Started, v.pc \in Started,
             v.pc = "segment" => v.cur < v.to, UNCHANGED <<rows, req, head, wiped>>,
             Tables(rows, findings', internals', wiped)
      PROVE  ScanInv'
  <2>1. WalkOK(row, v)
    BY <1>1, <1>6 DEF WalkOK
  <2>2. v.pc # "idle" /\ w.pc # "idle"
    BY <1>6 DEF Started
  <2> QED
    BY <1>6, <2>1, <2>2, GoesKeeps
<1>7. CASE Client(a)
  <2> DEFINE v == [w EXCEPT !.pc = "test"]
  <2>1. v \in Walk /\ v.pc = "test" /\ v.from = w.from /\ v.to = w.to
    BY <1>1 DEF Walk
  <2>2. Goes(a, v) /\ w.pc = "client" /\ UNCHANGED <<tables, req, head>>
    BY <1>7 DEF Client, At
  <2> HIDE DEF v
  <2> QED
    BY <1>1, <1>6, <2>1, <2>2 DEF tables, Started
<1>8. CASE Test(a)
  <2> DEFINE pc == IF w.abort THEN "pause" ELSE IF w.cur < w.to THEN "segment" ELSE "finish"
             v == [w EXCEPT !.pc = pc]
  <2>1. pc \in {"pause", "segment", "finish"} /\ (pc = "segment" => w.cur < w.to)
    OBVIOUS
  <2>2. Goes(a, v) /\ w.pc = "test" /\ UNCHANGED <<tables, req, head>>
    BY <1>8 DEF Test, At
  <2> HIDE DEF pc
  <2>3. v \in Walk /\ v.pc = pc /\ v.from = w.from /\ v.to = w.to /\ v.cur = w.cur
    BY <1>1, <2>1 DEF Walk
  <2> HIDE DEF v
  <2> QED
    BY <1>1, <1>6, <2>1, <2>2, <2>3 DEF tables, Started
<1>9. w.pc = "segment" => SegmentEnd(w) \in Blocks /\ SegmentEnd(w) \in Cursors /\ w.cur < SegmentEnd(w)
  <2> HAVE w.pc = "segment"
  <2>1. w.cur < w.to
    BY <1>1 DEF WalkOK
  <2> QED
    BY <1>2, <2>1, Numbers DEF SegmentEnd, Blocks, Cursors
<1>10. CASE Skip(a)
  <2> DEFINE e == SegmentEnd(w)
             v == [w EXCEPT !.pc = "checkpoint", !.cur = e, !.tries = 0]
  <2>1. Goes(a, v) /\ w.pc = "segment" /\ UNCHANGED <<tables, req, head>>
    BY <1>10 DEF Skip, At
  <2>2. e \in Cursors /\ 0 \in 0..Retries
    BY <1>9, <2>1, Numbers
  <2> HIDE DEF e
  <2>3. v \in Walk /\ v.pc = "checkpoint" /\ v.from = w.from /\ v.to = w.to
    BY <1>1, <2>2 DEF Walk
  <2> HIDE DEF v
  <2> QED
    BY <1>1, <1>6, <2>1, <2>3 DEF tables, Started
<1>11. ASSUME NEW u \in Walk
       PROVE  /\ Traced(u) \in Walk /\ Traced(u).pc \in {"trace", "checkpoint"}
              /\ Traced(u).from = u.from /\ Traced(u).to = u.to
  <2>1. u.at \in Cursors /\ u.cur \in Cursors
    BY Numbers DEF Walk
  <2>2. CASE u.traces = "on"
    <3>1. Traced(u) = [u EXCEPT !.pc = "trace", !.cur = u.cur]
      BY <2>2 DEF Traced
    <3> QED
      BY <2>1, <3>1 DEF Walk
  <2>3. CASE u.traces # "on"
    <3>1. Traced(u) = [u EXCEPT !.pc = "checkpoint", !.cur = u.at]
      BY <2>3 DEF Traced
    <3> QED
      BY <2>1, <3>1 DEF Walk
  <2> QED
    BY <2>2, <2>3
<1>12. CASE Change(a)
  <2> DEFINE b == FirstChange(a, w.cur, SegmentEnd(w))
             u == [w EXCEPT !.at = b, !.tries = 0]
             pc == IF u.abort THEN "pause" ELSE "own"
             x == [u EXCEPT !.pc = pc]
  <2>1. w.pc = "segment" /\ UNCHANGED <<tables, req, head>>
    BY <1>12 DEF Change, At
  <2>2. Goes(a, IF u.at \notin Direct[a] THEN Traced(u) ELSE x)
    BY <1>12 DEF Change
  <2>3. b \in Blocks /\ 0 \in 0..Retries
    <3>1. b \in (w.cur + 1)..SegmentEnd(w)
      BY <1>2, <1>9, <2>1, FirstChangeIs
    <3> HIDE DEF b
    <3> QED
      BY <1>2, <1>9, <2>1, <3>1, Numbers DEF Blocks, Cursors
  <2>4. pc \in {"pause", "own"}
    OBVIOUS
  <2> HIDE DEF b, pc
  <2>5. u \in Walk /\ u.from = w.from /\ u.to = w.to
    BY <1>1, <2>3 DEF Walk
  <2> HIDE DEF u
  <2>6. x \in Walk /\ x.pc = pc /\ x.from = w.from /\ x.to = w.to
    BY <2>4, <2>5 DEF Walk
  <2> HIDE DEF x
  <2>7. CASE Goes(a, Traced(u))
    BY <1>1, <1>6, <1>11, <2>1, <2>5, <2>7 DEF tables, Started
  <2>8. CASE Goes(a, x)
    BY <1>1, <1>6, <2>1, <2>4, <2>6, <2>8 DEF tables, Started
  <2> QED
    BY <2>2, <2>7, <2>8
<1>13. CASE Own(a)
  <2> DEFINE pc == IF Owns(a) THEN "insert" ELSE IF w.abort THEN "pause" ELSE "finish"
             v == [w EXCEPT !.pc = pc]
  <2>1. pc \in {"pause", "insert", "finish"}
    OBVIOUS
  <2>2. Goes(a, v) /\ w.pc = "own" /\ UNCHANGED <<tables, req, head>>
    BY <1>13 DEF Own, At
  <2> HIDE DEF pc
  <2>3. v \in Walk /\ v.pc = pc /\ v.from = w.from /\ v.to = w.to
    BY <1>1, <2>1 DEF Walk
  <2> HIDE DEF v
  <2> QED
    BY <1>1, <1>6, <2>1, <2>2, <2>3 DEF tables, Started
<1>14. CASE Insert(a)
  <2>1. Goes(a, Traced(w)) /\ w.pc = "insert" /\ UNCHANGED <<rows, internals, req, head, wiped>>
    BY <1>14 DEF Insert, At
  <2>2. findings' = [findings EXCEPT ![a] = @ \cup {w.at}]
    BY <1>14 DEF Insert
  <2>3. Tables(rows, findings', internals', wiped)
    BY <1>1, <1>2, <2>1, <2>2 DEF Tables
  <2> QED
    BY <1>1, <1>6, <1>11, <2>1, <2>3 DEF Started
<1>15. CASE Trace(a)
  <2> DEFINE v == [w EXCEPT !.pc = "checkpoint", !.cur = w.at]
             x == [v EXCEPT !.traces = "refused"]
  <2>1. v \in Walk /\ v.pc = "checkpoint" /\ v.from = w.from /\ v.to = w.to /\ v.at = w.at
    BY <1>1, <1>2, Numbers DEF Walk
  <2>2. w.pc = "trace" /\ UNCHANGED <<rows, findings, req, head, wiped>>
    BY <1>15 DEF Trace, At
  <2>3. \/ internals' = [internals EXCEPT ![a] = @ \cup {v.at}] /\ Goes(a, v)
        \/ internals' = internals /\ (Goes(a, x) \/ Goes(a, v))
    BY <1>15 DEF Trace
  <2> HIDE DEF v
  <2>4. x \in Walk /\ x.pc = "checkpoint" /\ x.from = w.from /\ x.to = w.to
    BY <2>1 DEF Walk
  <2> HIDE DEF x
  <2>5. Tables(rows, findings', internals', wiped)
    BY <1>1, <1>2, <2>1, <2>2, <2>3 DEF Tables
  <2> QED
    BY <1>1, <1>6, <2>1, <2>2, <2>3, <2>4, <2>5 DEF Started
<1>16. CASE Checkpoint(a)
  <2> DEFINE v == [w EXCEPT !.pc = "test", !.at = 0]
             new == [row EXCEPT !.cur = w.cur, !.traces = IF w.traces = "refused" THEN "refused" ELSE @]
  <2>1. v \in Walk /\ v.pc = "test" /\ v.from = w.from /\ v.to = w.to
    BY <1>1, Numbers DEF Walk
  <2>2. new \in Row /\ new.from = row.from /\ new.to = row.to
    BY <1>1, <1>2 DEF Row
  <2>3. /\ Goes(a, v) /\ w.pc = "checkpoint" /\ UNCHANGED <<findings, internals, req, head, wiped>>
        /\ IfRunning(a, new)
    BY <1>16 DEF Checkpoint, At
  <2> HIDE DEF v, new
  <2>4. /\ rows' \in [Addrs -> Row] /\ \A b \in Addrs : b # a => rows'[b] = rows[b]
        /\ rows'[a] = IF row.status = "running" THEN new ELSE row
    BY <2>2, <2>3, IfRunningKeeps
  <2>5. WalkOK(rows'[a], v)
    BY <1>1, <2>1, <2>2, <2>3, <2>4 DEF WalkOK, Started
  <2>6. Tables(rows', findings', internals', wiped')
    BY <1>1, <2>3, <2>4 DEF Tables
  <2> QED
    BY <2>1, <2>3, <2>4, <2>5, <2>6, GoesKeeps
<1>17. CASE Fails(a)
  <2> DEFINE v == [w EXCEPT !.pc = "fail"]
  <2>1. v \in Walk /\ v.pc = "fail" /\ v.from = w.from /\ v.to = w.to
    BY <1>1 DEF Walk
  <2>2. Goes(a, v) /\ w.pc \in Inside /\ UNCHANGED <<tables, req, head>>
    BY <1>17 DEF Fails
  <2> HIDE DEF v
  <2> QED
    BY <1>1, <1>6, <2>1, <2>2 DEF tables, Started, Inside
<1>18. CASE Capped(a)
  <2> DEFINE v == [w EXCEPT !.pc = "test", !.batch = w.batch \div 2]
             x == [w EXCEPT !.pc = "test", !.tries = w.tries + 1]
  <2>1. w.pc = "segment" /\ UNCHANGED <<tables, req, head>>
    BY <1>18 DEF Capped, At
  <2>2. (w.batch > 1 /\ Goes(a, v)) \/ (w.tries < Retries /\ Goes(a, x))
    BY <1>18 DEF Capped
  <2>3. CASE w.batch > 1 /\ Goes(a, v)
    <3> DEFINE n == w.batch \div 2
    <3>1. n \in 1..Batch
      BY <1>2, <2>3, Numbers
    <3> HIDE DEF n
    <3>2. v \in Walk /\ v.pc = "test" /\ v.from = w.from /\ v.to = w.to
      BY <1>1, <3>1 DEF Walk, n
    <3> HIDE DEF v
    <3> QED
      BY <1>1, <1>6, <2>1, <2>3, <3>2 DEF tables, Started
  <2>4. CASE w.tries < Retries /\ Goes(a, x)
    <3> DEFINE n == w.tries + 1
    <3>1. n \in 0..Retries
      BY <1>2, <2>4, Numbers
    <3> HIDE DEF n
    <3>2. x \in Walk /\ x.pc = "test" /\ x.from = w.from /\ x.to = w.to
      BY <1>1, <3>1 DEF Walk, n
    <3> HIDE DEF x
    <3> QED
      BY <1>1, <1>6, <2>1, <2>4, <3>2 DEF tables, Started
  <2> QED
    BY <2>2, <2>3, <2>4
<1>19. ASSUME NEW pc, NEW new \in Row, Settle(a, pc, new) PROVE ScanInv'
  <2>1. rows' \in [Addrs -> Row] /\ \A b \in Addrs : b # a => rows'[b] = rows[b]
    BY <1>19, IfRunningKeeps DEF Settle
  <2>2. End(a) /\ UNCHANGED <<findings, internals, wiped, req, head>>
    BY <1>19 DEF Settle
  <2> QED
    BY <2>1, <2>2, EndsKeep
<1>20. CASE FailJob(a) \/ PauseJob(a) \/ Finish(a)
  <2>1. /\ [row EXCEPT !.status = "error"] \in Row /\ [row EXCEPT !.status = "paused"] \in Row
        /\ [row EXCEPT !.status = "complete", !.cur = w.to] \in Row
    BY <1>1, <1>2, Numbers DEF Row, Statuses
  <2> QED
    BY <1>19, <1>20, <2>1 DEF FailJob, PauseJob, Finish
<1>21. CASE Throws(a)
  <2>1. End(a) /\ UNCHANGED <<tables, req, head>>
    BY <1>21 DEF Throws
  <2> QED
    BY <1>1, <2>1, EndsKeep DEF tables, Tables
<1> QED
  BY <1>3, <1>4, <1>5, <1>7, <1>8, <1>10, <1>12, <1>13, <1>14, <1>15, <1>16, <1>17, <1>18,
     <1>20, <1>21 DEF WalkStep

\* The record of one request is replaced.
LEMMA ReqChanged ==
  ASSUME Requests(req), NEW h \in Handlers, NEW q \in Req, q.pc = "extend" => q.seen.status # "running",
         req' = [req EXCEPT ![h] = q]
  PROVE  Requests(req')
BY DEF Requests

LEMMA Answers ==
  ASSUME Requests(req), NEW h \in Handlers, Answer(h)
  PROVE  Requests(req')
<1>1. NoReq.pc # "extend"
  BY DEF NoReq
<1> QED
  BY <1>1, RowTypes, ReqChanged DEF Answer

LEMMA Steps ==
  ASSUME Requests(req), NEW h \in Handlers, NEW pc, Step(h, pc),
         pc \in {"wipe", "wipe internals", "upsert", "start", "requeue", "extended", "delete row"}
  PROVE  Requests(req')
<1> DEFINE q == [req[h] EXCEPT !.pc = pc]
<1>1. q \in Req /\ q.pc # "extend"
  BY DEF Requests, Req
<1>2. req' = [req EXCEPT ![h] = q]
  BY DEF Step
<1> HIDE DEF q
<1> QED
  BY <1>1, <1>2, ReqChanged

\* The steps of a request that is in flight.
LEMMA RequestStepKeeps ==
  ASSUME ScanInv, NEW h \in Handlers, RequestStep(h)
  PROVE  ScanInv'
<1> DEFINE q == req[h]
           a == q.a
           row == rows[a]
<1>1. Requests(req) /\ Tables(rows, findings, internals, wiped) /\ head \in Blocks
  BY Parts
<1>2. q \in Req /\ a \in Addrs /\ row \in Row /\ q.from \in Blocks /\ q.to \in Blocks
  BY <1>1 DEF Requests, Tables, Req
<1>3. ASSUME UNCHANGED <<tables, head>>, Registers(a), Requests(req') PROVE ScanInv'
  BY <1>1, <1>2, <1>3, RequestKeeps DEF tables
<1>4. ASSUME NEW new \in Row, new.status # "running" \/ new = row, NEW bare \in BOOLEAN,
             rows' = [rows EXCEPT ![a] = new], wiped' = wiped \/ wiped' = [wiped EXCEPT ![a] = bare],
             Requests(req'), UNCHANGED <<findings, internals, walk, queue, head>>
      PROVE  ScanInv'
  <2>1. Registers(a)
    BY <1>4 DEF Registers
  <2>2. rows' \in [Addrs -> Row] /\ \A b \in Addrs : rows'[b] = rows[b] \/ rows'[b].status # "running"
    BY <1>1, <1>2, <1>4 DEF Tables
  <2>3. Tables(rows', findings', internals', wiped')
    BY <1>1, <1>2, <1>4, <2>2 DEF Tables
  <2> QED
    BY <1>2, <1>4, <2>1, <2>2, <2>3, RequestKeeps
<1>5. CASE Decide(h)
  <2>1. Registers(a)
    BY <1>5 DEF Decide, Registers
  <2>2. Answer(h) \/ Step(h, "upsert") \/ Step(h, "wipe")
    BY <1>5 DEF Decide
  <2>3. Requests(req')
    BY <1>1, <2>2, Answers, Steps
  <2> QED
    BY <1>3, <1>5, <2>1, <2>3 DEF Decide
<1>6. CASE Wipe(h)
  <2>1. Registers(a) /\ Step(h, "wipe internals") /\ UNCHANGED <<rows, internals, head>>
    BY <1>6 DEF Wipe, Registers
  <2>2. findings' = [findings EXCEPT ![a] = {}] /\ wiped' = [wiped EXCEPT ![a] = TRUE]
    BY <1>6 DEF Wipe
  <2>3. Tables(rows', findings', internals', wiped')
    BY <1>1, <2>1, <2>2 DEF Tables
  <2>4. Requests(req')
    BY <1>1, <2>1, Steps
  <2> QED
    BY <1>2, <2>1, <2>3, <2>4, RequestKeeps
<1>7. CASE WipeInternals(h)
  <2>1. Registers(a) /\ UNCHANGED <<rows, findings, wiped, head>>
    BY <1>7 DEF WipeInternals, Registers
  <2>2. internals' = [internals EXCEPT ![a] = {}]
    BY <1>7 DEF WipeInternals
  <2>3. Tables(rows', findings', internals', wiped')
    BY <1>1, <2>1, <2>2 DEF Tables
  <2>4. Step(h, "delete row") \/ Step(h, "upsert")
    BY <1>7 DEF WipeInternals
  <2>5. Requests(req')
    BY <1>1, <2>4, Steps
  <2> QED
    BY <1>2, <2>1, <2>3, <2>5, RequestKeeps
<1>8. CASE Upsert(h)
  <2> DEFINE new == [status |-> "pending", from |-> q.from, to |-> q.to, cur |-> q.from - 1,
                     traces |-> q.traces]
  <2>1. q.from - 1 \in Cursors /\ q.traces \in {"off", "on"}
    BY <1>2, Numbers DEF Req
  <2>2. new \in Row /\ new.status # "running"
    BY <1>2, <2>1 DEF Row, Statuses
  <2>3. /\ rows' = [rows EXCEPT ![a] = new] /\ wiped' = [wiped EXCEPT ![a] = FALSE]
        /\ Step(h, "start") /\ UNCHANGED <<findings, internals, walk, queue, head>>
    BY <1>8 DEF Upsert
  <2> HIDE DEF new
  <2>4. Requests(req')
    BY <1>1, <2>3, Steps
  <2> QED
    BY <1>4, <2>2, <2>3, <2>4
<1>9. CASE Start(h) \/ Pause(h)
  <2>1. Answer(h) /\ Registers(a) /\ UNCHANGED <<tables, head>>
    BY <1>9 DEF Start, Pause, Registers
  <2> QED
    BY <1>1, <1>3, <2>1, Answers
<1>10. CASE DeleteRow(h)
  <2>1. /\ rows' = [rows EXCEPT ![a] = NoRow] /\ wiped' = [wiped EXCEPT ![a] = FALSE]
        /\ Answer(h) /\ UNCHANGED <<findings, internals, walk, queue, head>>
    BY <1>10 DEF DeleteRow
  <2>2. NoRow \in Row /\ NoRow.status # "running"
    BY RowTypes DEF NoRow
  <2> QED
    BY <1>1, <1>4, <2>1, <2>2, Answers
<1>11. CASE Resume(h)
  <2>1. (Step(h, "requeue") \/ Answer(h)) /\ Registers(a) /\ UNCHANGED <<tables, head>>
    BY <1>11 DEF Resume, Registers
  <2>2. Requests(req')
    BY <1>1, <2>1, Answers, Steps
  <2> QED
    BY <1>3, <2>1, <2>2
<1>12. CASE Requeue(h)
  <2> DEFINE new == [row EXCEPT !.status = IF @ = "absent" THEN @ ELSE "pending"]
  <2>1. new \in Row /\ new.status # "running"
    BY <1>2 DEF Row, Statuses
  <2>2. /\ rows' = [rows EXCEPT ![a] = new] /\ Step(h, "start")
        /\ UNCHANGED <<findings, internals, walk, queue, head, wiped>>
    BY <1>2, <1>12 DEF Requeue
  <2> HIDE DEF new
  <2>3. Requests(req')
    BY <1>1, <2>2, Steps
  <2> QED
    BY <1>4, <2>1, <2>2, <2>3
<1>13. CASE Catchup(h)
  <2>1. Registers(a) /\ UNCHANGED <<tables, head>>
    BY <1>13 DEF Catchup, Registers
  <2>2. CASE Answer(h)
    BY <1>1, <1>3, <2>1, <2>2, Answers
  <2>3. CASE q.seen.status # "running" /\ req' = [req EXCEPT ![h].pc = "extend", ![h].to = head]
    <3> DEFINE new == [q EXCEPT !.pc = "extend", !.to = head]
    <3>1. new \in Req /\ new.seen = q.seen
      BY <1>1, <1>2 DEF Req
    <3>2. req' = [req EXCEPT ![h] = new]
      BY <1>1, <2>3 DEF Requests
    <3> HIDE DEF new
    <3>3. Requests(req')
      BY <1>1, <2>3, <3>1, <3>2, ReqChanged
    <3> QED
      BY <1>3, <2>1, <3>3
  <2> QED
    BY <1>13, <2>2, <2>3 DEF Catchup
<1>14. CASE Extend(h)
  <2> DEFINE grown == [row EXCEPT !.status = Requeued(@), !.to = q.to]
             new == IF row.status = q.seen.status /\ row.to = q.seen.to THEN grown ELSE row
  <2>1. grown \in Row /\ (row.status # "running" => grown.status # "running")
    BY <1>2 DEF Row, Statuses, Requeued
  <2>2. q.seen.status # "running"
    BY <1>1, <1>14 DEF Extend, Requests
  <2> HIDE DEF grown
  <2>3. new \in Row /\ (new.status # "running" \/ new = row)
    BY <1>2, <2>1, <2>2
  <2>4. /\ rows' = [rows EXCEPT ![a] = new] /\ Step(h, "extended")
        /\ UNCHANGED <<findings, internals, walk, queue, head, wiped>>
    BY <1>14 DEF Extend, grown
  <2> HIDE DEF new
  <2>5. Requests(req')
    BY <1>1, <2>4, Steps
  <2> QED
    BY <1>4, <2>3, <2>4, <2>5
<1>15. CASE Extended(h) \/ Drop(h)
  <2>1. Answer(h) /\ Registers(a) /\ UNCHANGED <<tables, head>>
    BY <1>15 DEF Extended, Drop, Registers
  <2> QED
    BY <1>1, <1>3, <2>1, Answers
<1> QED
  BY <1>5, <1>6, <1>7, <1>8, <1>9, <1>10, <1>11, <1>12, <1>13, <1>14, <1>15 DEF RequestStep

\* A request arrives.
LEMMA ArrivesKeeps ==
  ASSUME ScanInv, NEW h \in Handlers, NEW a \in Addrs, Arrives(h, a)
  PROVE  ScanInv'
<1>1. Requests(req) /\ Tables(rows, findings, internals, wiped)
  BY Parts
<1>2. ASSUME NEW op \in {"post", "pause", "resume", "catchup"}, NEW from \in Blocks, NEW to \in Blocks,
             NEW traces \in {"off", "on"}, NEW force \in BOOLEAN, Read(h, op, a, from, to, traces, force)
      PROVE  ScanInv'
  <2> DEFINE new == [pc |-> "decide", op |-> op, a |-> a, from |-> from, to |-> to,
                     traces |-> traces, force |-> force, seen |-> Seen(rows[a])]
  <2>1. Seen(rows[a]) \in [status : Statuses, from : Blocks, to : Blocks]
    BY <1>1, RowTypes DEF Tables
  <2>2. new \in Req /\ new.pc # "extend"
    BY <1>2, <2>1 DEF Req
  <2>3. req' = [req EXCEPT ![h] = new] /\ UNCHANGED <<tables, walk, queue, head>>
    BY <1>2 DEF Read
  <2> HIDE DEF new
  <2>4. Requests(req') /\ Registers(a)
    BY <1>1, <2>2, <2>3, ReqChanged DEF Registers
  <2> QED
    BY <1>1, <2>3, <2>4, RequestKeeps DEF tables
<1>3. CASE Post(h, a)
  <2>1. PICK j \in Jobs[a], force \in BOOLEAN :
          Read(h, "post", a, j.from, j.to, IF j.traced THEN "on" ELSE "off", force)
    BY <1>3 DEF Post
  <2>2. j.from \in Blocks /\ j.to \in Blocks /\ (IF j.traced THEN "on" ELSE "off") \in {"off", "on"}
    BY SizesAssumption
  <2> QED
    BY <1>2, <2>1, <2>2
<1>4. ASSUME NEW op \in Asks[a] \ {"delete"}, Ask(h, op, a) PROVE ScanInv'
  <2>1. op \in {"pause", "resume", "catchup"}
    BY SizesAssumption
  <2> QED
    BY <1>2, <1>4, <2>1, Numbers DEF Ask
<1>5. CASE Delete(h, a)
  <2> DEFINE new == [NoReq EXCEPT !.pc = "wipe", !.op = "delete", !.a = a]
  <2>1. new \in Req /\ new.pc # "extend"
    BY RowTypes DEF Req
  <2>2. req' = [req EXCEPT ![h] = new] /\ Registers(a) /\ UNCHANGED <<tables, head>>
    BY <1>5 DEF Delete, Registers
  <2> HIDE DEF new
  <2> QED
    BY <1>1, <2>1, <2>2, ReqChanged, RequestKeeps DEF tables
<1> QED
  BY <1>3, <1>4, <1>5 DEF Arrives

LEMMA EmptyQueue == Queued(<<>>) /\ ToSet(<<>>) = {}
<1>1. <<>> \in Seq(Addrs) /\ 1..Len(<<>>) = {}
  BY EmptySeq
<1> QED
  BY <1>1, QueuedIf

LEMMA ScanInit ==
  ASSUME Init
  PROVE  ScanInv
<1>1. Registry /\ ToSet(queue) = {} /\ Active = {}
  <2>1. queue = <<>>
    BY DEF Init
  <2>2. Queued(queue) /\ ToSet(queue) = {}
    BY <2>1, EmptyQueue
  <2>3. walk \in [Addrs -> Walk] /\ Active = {}
    BY WalkTypes DEF Init, Active
  <2> QED
    BY <2>1, <2>2, <2>3 DEF Registry
<1>2. Tables(rows, findings, internals, wiped)
  BY RowTypes DEF Init, Tables
<1>3. Requests(req)
  BY RowTypes DEF Init, Requests, NoReq
<1>4. head \in Blocks
  BY SizesAssumption DEF Init
<1>5. Slotted
  BY <1>1, FS_EmptySet, SizesAssumption DEF Slotted
<1>6. \A a \in Addrs : WalkOK(rows[a], walk[a])
  BY NewWalkOK DEF Init
<1> QED
  BY <1>1, <1>2, <1>3, <1>4, <1>5, <1>6, Parts, Zenon

LEMMA RestartKeeps ==
  ASSUME ScanInv, Restart
  PROVE  ScanInv'
<1>1. Registry' /\ ToSet(queue') = {} /\ Active' = {}
  <2>1. queue' = <<>>
    BY DEF Restart
  <2>2. Queued(queue') /\ ToSet(queue') = {}
    BY <2>1, EmptyQueue
  <2>3. walk' \in [Addrs -> Walk] /\ Active' = {}
    BY WalkTypes DEF Restart, Active
  <2> QED
    BY <2>1, <2>2, <2>3 DEF Registry
<1>2. Tables(rows', findings', internals', wiped')
  <2>1. PICK stale \in SUBSET Addrs :
          rows' = [a \in Addrs |-> IF a \in stale THEN [rows[a] EXCEPT !.status = "error"] ELSE rows[a]]
    BY DEF Restart
  <2>2. \A row \in Row : [row EXCEPT !.status = "error"] \in Row
    BY DEF Row, Statuses
  <2>3. Tables(rows, findings, internals, wiped) /\ UNCHANGED <<findings, internals, wiped>>
    BY Parts DEF Restart
  <2>4. rows' \in [Addrs -> Row]
    BY <2>1, <2>2, <2>3 DEF Tables
  <2> QED
    BY <2>3, <2>4 DEF Tables
<1>3. Requests(req')
  BY RowTypes DEF Restart, Requests, NoReq
<1>4. head' \in Blocks
  BY Parts DEF Restart
<1>5. Slotted'
  BY <1>1, FS_EmptySet, SizesAssumption DEF Slotted
<1>6. \A a \in Addrs : WalkOK(rows'[a], walk'[a])
  BY NewWalkOK DEF Restart
<1> QED
  BY <1>1, <1>2, <1>3, <1>4, <1>5, <1>6, PartsNext, Zenon

LEMMA ScanStep ==
  ASSUME ScanInv, [Next]_vars
  PROVE  ScanInv'
<1>1. CASE NewBlock
  <2>1. head' \in Blocks
    BY <1>1, Parts, Numbers DEF NewBlock, Blocks
  <2>2. UNCHANGED <<tables, walk, queue, req>>
    BY <1>1 DEF NewBlock
  <2> QED
    BY <2>1, <2>2 DEF ScanInv, TypeOK, Slotted, Active, tables
<1>2. CASE UNCHANGED vars
  BY <1>2 DEF ScanInv, TypeOK, Slotted, Active, vars
<1> QED
  BY <1>1, <1>2, WalkKeeps, RequestStepKeeps, ArrivesKeeps, RestartKeeps DEF Next

LEMMA ScanAlways == Spec => []ScanInv
BY ScanInit, ScanStep, PTL DEF Spec

\* Slotted of every state: the pumps of scanQueue never start more walks than
\* MAX_CONCURRENT_SCAN_JOBS, and leave no start waiting beside a free slot.
THEOREM SlottedHolds == Spec => []Slotted
<1>1. ScanInv => Slotted
  BY DEF ScanInv
<1> QED
  BY <1>1, ScanAlways, PTL

\* DrainingHarmless of every step: runScanWalk, once it has verified its bounds, writes only to a
\* row that has them, however the requests replace and delete the job under it.
THEOREM DrainingHarmlessHolds == Spec => DrainingHarmless
<1> DEFINE A == \A a \in Addrs :
                  WalkStep(a) /\ ~At(a, "flip") /\ rows'[a] # rows[a] =>
                    rows[a].from = walk[a].from /\ rows[a].to = walk[a].to
<1>1. ScanInv /\ [Next]_vars => [A]_vars
  <2> SUFFICES ASSUME ScanInv, NEW a \in Addrs, WalkStep(a), ~At(a, "flip"), rows'[a] # rows[a]
               PROVE  rows[a].from = walk[a].from /\ rows[a].to = walk[a].to
    BY Zenon
  <2>1. ~Flip(a) /\ rows' # rows
    BY DEF Flip
  <2>2. \/ Checkpoint(a)
        \/ FailJob(a) \/ PauseJob(a) \/ Finish(a)
    BY <2>1 DEF WalkStep, ReadRow, Verify, Client, Test, Skip, Change, Own, Insert, Trace, Fails, Capped,
                Throws, tables
  <2>3. ASSUME NEW row, IfRunning(a, row) PROVE rows[a].status = "running"
    BY <2>3, Parts DEF IfRunning, Tables
  <2>4. rows[a].status = "running" /\ walk[a].pc \in Started
    BY <2>2, <2>3 DEF Checkpoint, FailJob, PauseJob, Finish, Settle, At, Started
  <2> QED
    BY <2>4 DEF ScanInv, WalkOK
<1>2. Spec => [][A]_vars
  BY <1>1, ScanAlways, PTL DEF Spec
<1> QED
  BY <1>2 DEF DrainingHarmless

-----------------------------------------------------------------------------
(* What holds of the findings, of one request at a time.                    *)

Claims(a, from, to) == {b \in Direct[a] : from <= b /\ b <= to}

Told(w) == w.pc = "idle" \/ w.abort

\* A row, and what is stored for it.
RowFound(a, row, stored, bare) ==
  row.status # "absent" /\ ~bare =>
    Claims(a, row.from, row.cur) \subseteq stored /\ (row.status = "complete" => row.cur = row.to)

\* How far a walk has stored what its row may claim: an aborted one that has not begun a segment
\* may have flipped a row that replaced its own, and writes no cursor.
Reached(w) == IF w.pc = "trace" THEN w.at ELSE IF w.pc = "finish" THEN w.to ELSE w.cur

Stores(w) ==
  \/ w.pc \in {"client", "test"} /\ ~w.abort
  \/ w.pc \in {"segment", "own", "insert", "trace", "checkpoint", "finish"}

WalkFound(a, row, w, stored, bare) ==
  /\ w.pc \in {"flip", "verify"} /\ ~w.abort => w.cur = row.cur
  /\ w.pc \in {"own", "insert"} => Direct[a] \cap ((w.cur + 1)..(w.at - 1)) = {}
  /\ Stores(w) /\ row.status = "running" /\ ~bare => Claims(a, w.from, Reached(w)) \subseteq stored

\* A request that is to write a row of its own has the walk of the row before stopped.
Replaces == {"wipe", "wipe internals", "upsert", "delete row"}

RequestFound(q) ==
  /\ q.pc \in Replaces => Told(walk[q.a]) /\ q.a \notin ToSet(queue)
  /\ q.pc = "decide" => (q.seen.status = "absent" <=> rows[q.a].status = "absent")

FoundInv ==
  /\ \A a \in Addrs :
       /\ RowFound(a, rows[a], findings[a], wiped[a])
       /\ WalkFound(a, rows[a], walk[a], findings[a], wiped[a])
       /\ rows[a].status = "absent" => Told(walk[a]) /\ a \notin ToSet(queue)
  /\ \A h \in Handlers : RequestFound(req[h])

OneRequest == \A g, h \in Handlers : g = h

LEMMA DirectIs == \A a \in Addrs : Direct[a] \subseteq Changes(a) /\ \A b \in Direct[a] : b \in Int
<1> TAKE a \in Addrs
<1>1. Direct[a] \subseteq Changes(a)
  BY HonestBalances
<1> QED
  BY <1>1, Numbers DEF Changes

\* A walk goes on, and its row is there as before.
LEMMA GoesFound ==
  ASSUME ScanInv, FoundInv, NEW a \in Addrs, NEW w \in Walk, Goes(a, w),
         w.pc # "idle", walk[a].pc # "idle", w.abort = walk[a].abort,
         rows'[a].status = "absent" <=> rows[a].status = "absent",
         RowFound(a, rows'[a], findings'[a], wiped[a]),
         WalkFound(a, rows'[a], w, findings'[a], wiped[a]),
         \A b \in Addrs : b # a => rows'[b] = rows[b] /\ findings'[b] = findings[b],
         UNCHANGED <<req, wiped>>
  PROVE  FoundInv'
<1>1. walk \in [Addrs -> Walk] /\ Requests(req)
  BY Parts DEF Registry
<1>2. walk' = [walk EXCEPT ![a] = w] /\ queue' = queue
  BY DEF Goes
<1>3. \A b \in Addrs : walk'[b] = IF b = a THEN w ELSE walk[b]
  BY <1>1, <1>2
<1>4. \A b \in Addrs : Told(walk'[b]) <=> Told(walk[b])
  BY <1>3 DEF Told
<1>5. ASSUME NEW b \in Addrs
      PROVE  /\ RowFound(b, rows'[b], findings'[b], wiped'[b])
             /\ WalkFound(b, rows'[b], walk'[b], findings'[b], wiped'[b])
             /\ rows'[b].status = "absent" => Told(walk'[b]) /\ b \notin ToSet(queue')
  <2>1. CASE b = a
    BY <1>2, <1>3, <1>4, <2>1 DEF FoundInv
  <2>2. CASE b # a
    BY <1>2, <1>3, <1>4, <2>2 DEF FoundInv
  <2> QED
    BY <2>1, <2>2
<1>6. ASSUME NEW h \in Handlers PROVE RequestFound(req[h])'
  <2>1. req[h].a \in Addrs /\ RequestFound(req[h])
    BY <1>1 DEF FoundInv, Requests, Req
  <2>2. rows'[req[h].a].status = "absent" <=> rows[req[h].a].status = "absent"
    BY <2>1
  <2> QED
    BY <1>2, <1>4, <2>1, <2>2 DEF RequestFound
<1> QED
  BY <1>5, <1>6 DEF FoundInv

LEMMA NewFound == \A a, row, stored, bare : /\ WalkFound(a, row, NewWalk, stored, bare)
                                            /\ WalkFound(a, row, NoWalk, stored, bare)
                                            /\ Told(NoWalk)
BY WalkTypes DEF WalkFound, Stores, Told

\* A walk ends, and its row is there as before.
LEMMA EndsFound ==
  ASSUME ScanInv, FoundInv, NEW a \in Addrs, End(a),
         rows'[a].status = "absent" <=> rows[a].status = "absent",
         RowFound(a, rows'[a], findings[a], wiped[a]),
         \A b \in Addrs : b # a => rows'[b] = rows[b],
         UNCHANGED <<findings, req, wiped>>
  PROVE  FoundInv'
<1>1. Registry /\ Requests(req)
  BY Parts
<1>2. ToSet(queue') \subseteq ToSet(queue)
  BY <1>1, EndKeeps
<1>3. \A b \in Addrs : \/ b \in ToSet(queue) /\ walk'[b] = NewWalk
                       \/ b = a /\ walk'[b] = NoWalk
                       \/ b # a /\ walk'[b] = walk[b]
  BY <1>1, EndKeeps
<1>4. \A b \in Addrs : Told(walk[b]) /\ b \notin ToSet(queue) => Told(walk'[b]) /\ b \notin ToSet(queue')
  BY <1>2, <1>3, NewFound
<1>5. ASSUME NEW b \in Addrs
      PROVE  /\ RowFound(b, rows'[b], findings'[b], wiped'[b])
             /\ WalkFound(b, rows'[b], walk'[b], findings'[b], wiped'[b])
             /\ rows'[b].status = "absent" => Told(walk'[b]) /\ b \notin ToSet(queue')
  <2>1. WalkFound(b, rows'[b], walk'[b], findings'[b], wiped'[b])
    BY <1>3, NewFound DEF FoundInv
  <2>2. RowFound(b, rows'[b], findings'[b], wiped'[b])
    BY DEF FoundInv
  <2>3. rows'[b].status = "absent" <=> rows[b].status = "absent"
    OBVIOUS
  <2> QED
    BY <1>4, <2>1, <2>2, <2>3 DEF FoundInv
<1>6. ASSUME NEW h \in Handlers PROVE RequestFound(req[h])'
  <2>1. req[h].a \in Addrs /\ RequestFound(req[h])
    BY <1>1 DEF FoundInv, Requests, Req
  <2>2. rows'[req[h].a].status = "absent" <=> rows[req[h].a].status = "absent"
    BY <2>1
  <2> QED
    BY <1>4, <2>1, <2>2 DEF RequestFound
<1> QED
  BY <1>5, <1>6 DEF FoundInv

\* What a walk may claim grows by a stretch without a transaction of the address.
LEMMA Stretch ==
  ASSUME NEW a \in Addrs, NEW from \in Int, NEW b \in Int, NEW c \in Int, NEW stored,
         Claims(a, from, b) \subseteq stored, Direct[a] \cap ((b + 1)..c) = {}
  PROVE  Claims(a, from, c) \subseteq stored
<1> SUFFICES ASSUME NEW x \in Direct[a], from <= x, x <= c PROVE x \in stored
  BY DEF Claims
<1>1. x \in Int /\ x \notin (b + 1)..c
  BY DirectIs
<1>2. x <= b
  BY <1>1
<1> QED
  BY <1>2 DEF Claims

LEMMA WalkStepFound ==
  ASSUME ScanInv, FoundInv, NEW a \in Addrs, WalkStep(a)
  PROVE  FoundInv'
<1> DEFINE w == walk[a]
           row == rows[a]
           stored == findings[a]
           bare == wiped[a]
           claims == Claims(a, w.from, Reached(w))
<1>1. /\ w \in Walk /\ row \in Row /\ WalkOK(row, w) /\ Tables(rows, findings, internals, wiped)
      /\ RowFound(a, row, stored, bare) /\ WalkFound(a, row, w, stored, bare)
  BY Parts DEF Registry, Tables, FoundInv
<1>2. /\ w.from \in Blocks /\ w.to \in Blocks /\ w.cur \in Cursors /\ w.at \in Blocks
      /\ row.from \in Blocks /\ row.to \in Blocks /\ row.cur \in Cursors
      /\ w.from \in Int /\ w.to \in Int /\ w.cur \in Int /\ w.at \in Int
      /\ row.from \in Int /\ row.to \in Int /\ row.cur \in Int
  BY <1>1, Numbers DEF Walk, Row
<1>3. ASSUME NEW v \in Walk, Goes(a, v), v.abort = w.abort, v.pc # "idle", w.pc # "idle",
             UNCHANGED <<rows, findings, wiped, req>>, WalkFound(a, row, v, stored, bare)
      PROVE  FoundInv'
  BY <1>1, <1>3, GoesFound
<1>4. ASSUME End(a), UNCHANGED <<tables, req, head>> PROVE FoundInv'
  BY <1>1, <1>4, EndsFound DEF tables
<1>5. CASE ReadRow(a)
  <2>1. CASE row.status \in Restartable
    <3> DEFINE v == [w EXCEPT !.pc = "flip", !.was = row.status, !.from = row.from,
                             !.to = row.to, !.cur = row.cur, !.traces = row.traces]
    <3>1. v \in Walk /\ v.pc = "flip" /\ v.cur = row.cur /\ v.abort = w.abort
      BY <1>1, <2>1 DEF Walk, Row, Restartable
    <3>2. Goes(a, v) /\ w.pc = "read" /\ UNCHANGED <<tables, req, head>>
      BY <1>5, <2>1 DEF ReadRow, At
    <3> HIDE DEF v
    <3>3. WalkFound(a, row, v, stored, bare)
      BY <3>1 DEF WalkFound, Stores
    <3> QED
      BY <1>3, <3>1, <3>2, <3>3 DEF tables
  <2>2. CASE row.status \notin Restartable
    BY <1>4, <1>5, <2>2 DEF ReadRow
  <2> QED
    BY <2>1, <2>2
<1>6. CASE Flip(a)
  <2> DEFINE v == [w EXCEPT !.pc = "verify", !.was = "pending"]
             new == [row EXCEPT !.status = IF @ = w.was THEN "running" ELSE @]
  <2>1. v \in Walk /\ v.pc = "verify" /\ v.cur = w.cur /\ v.abort = w.abort
    BY <1>1 DEF Walk
  <2>2. /\ new \in Row /\ new.from = row.from /\ new.to = row.to /\ new.cur = row.cur
        /\ new.status \in {"running", row.status} /\ (row.status = "absent" => new.status = "absent")
    BY <1>1 DEF Row, Statuses, Walk
  <2>3. /\ Goes(a, v) /\ w.pc = "flip" /\ UNCHANGED <<findings, internals, req, head, wiped>>
        /\ rows' = [rows EXCEPT ![a] = new]
    BY <1>1, <1>6 DEF Flip, At, Tables
  <2> HIDE DEF v, new
  <2>4. rows'[a] = new /\ \A b \in Addrs : b # a => rows'[b] = rows[b]
    BY <2>2, <2>3, RowChanged
  <2>5. new.status = "absent" <=> row.status = "absent"
    BY <2>2
  <2>6. RowFound(a, new, stored, bare)
    BY <1>1, <2>2, <2>5 DEF RowFound
  <2>7. WalkFound(a, new, v, stored, bare)
    BY <1>1, <2>1, <2>2, <2>3 DEF WalkFound, Stores
  <2> QED
    BY <1>1, <2>1, <2>3, <2>4, <2>5, <2>6, <2>7, GoesFound
<1>7. CASE Verify(a)
  <2>1. CASE Owns(a)
    <3> DEFINE v == [w EXCEPT !.pc = "client"]
    <3>1. v \in Walk /\ v.pc = "client" /\ v.from = w.from /\ v.cur = w.cur /\ v.abort = w.abort
      BY <1>1 DEF Walk
    <3>2. Goes(a, v) /\ w.pc = "verify" /\ UNCHANGED <<tables, req, head>>
      BY <1>7, <2>1 DEF Verify, At
    <3> HIDE DEF v
    <3>3. ~w.abort /\ ~bare => Claims(a, v.from, Reached(v)) \subseteq stored
      BY <1>1, <2>1, <3>1, <3>2 DEF RowFound, WalkFound, Owns, Reached
    <3>4. WalkFound(a, row, v, stored, bare)
      BY <3>1, <3>3 DEF WalkFound, Stores
    <3> QED
      BY <1>3, <3>1, <3>2, <3>4 DEF tables
  <2>2. CASE ~Owns(a)
    BY <1>4, <1>7, <2>2 DEF Verify
  <2> QED
    BY <2>1, <2>2
<1>8. CASE Client(a)
  <2> DEFINE v == [w EXCEPT !.pc = "test"]
  <2>1. v \in Walk /\ v.pc = "test" /\ v.from = w.from /\ v.cur = w.cur /\ v.abort = w.abort
    BY <1>1 DEF Walk
  <2>2. Goes(a, v) /\ w.pc = "client" /\ UNCHANGED <<tables, req, head>>
    BY <1>8 DEF Client, At
  <2> HIDE DEF v
  <2>3. WalkFound(a, row, v, stored, bare)
    BY <1>1, <2>1, <2>2 DEF WalkFound, Stores, Reached
  <2> QED
    BY <1>3, <2>1, <2>2, <2>3 DEF tables
<1>9. CASE Test(a)
  <2> DEFINE pc == IF w.abort THEN "pause" ELSE IF w.cur < w.to THEN "segment" ELSE "finish"
             v == [w EXCEPT !.pc = pc]
  <2>1. /\ pc \in {"pause", "segment", "finish"} /\ (pc # "pause" => ~w.abort)
        /\ pc = "finish" => w.to <= w.cur
    BY <1>2
  <2>2. Goes(a, v) /\ w.pc = "test" /\ UNCHANGED <<tables, req, head>>
    BY <1>9 DEF Test, At
  <2> HIDE DEF pc
  <2>3. v \in Walk /\ v.pc = pc /\ v.from = w.from /\ v.to = w.to /\ v.cur = w.cur /\ v.abort = w.abort
    BY <1>1, <2>1 DEF Walk
  <2> HIDE DEF v
  <2>4. ~w.abort /\ row.status = "running" /\ ~bare => Claims(a, w.from, w.cur) \subseteq stored
    BY <1>1, <2>2 DEF WalkFound, Stores, Reached
  <2>5. pc = "finish" => Direct[a] \cap ((w.cur + 1)..w.to) = {}
    BY <1>2, <2>1
  <2>6. WalkFound(a, row, v, stored, bare)
    <3>1. CASE pc = "pause"
      BY <2>3, <3>1 DEF WalkFound, Stores
    <3>2. CASE pc = "segment"
      BY <2>1, <2>3, <2>4, <3>2 DEF WalkFound, Stores, Reached
    <3>3. CASE pc = "finish"
      <4>1. row.status = "running" /\ ~bare => Claims(a, w.from, w.to) \subseteq stored
        BY <1>2, <2>1, <2>4, <2>5, <3>3, Stretch
      <4> QED
        BY <2>3, <3>3, <4>1 DEF WalkFound, Stores, Reached
    <3> QED
      BY <2>1, <3>1, <3>2, <3>3
  <2> QED
    BY <1>3, <2>1, <2>2, <2>3, <2>6 DEF tables
<1>10. w.pc = "segment" => /\ SegmentEnd(w) \in Blocks /\ SegmentEnd(w) \in Cursors /\ SegmentEnd(w) \in Int
                           /\ w.cur < SegmentEnd(w)
  <2> HAVE w.pc = "segment"
  <2>1. w.cur < w.to /\ w.batch \in 1..Batch
    BY <1>1 DEF WalkOK, Walk
  <2> QED
    BY <1>2, <2>1, Numbers DEF SegmentEnd, Blocks, Cursors
<1>11. w.pc \in {"segment", "own", "insert"} /\ row.status = "running" /\ ~bare =>
         Claims(a, w.from, w.cur) \subseteq stored
  BY <1>1 DEF WalkFound, Stores, Reached
<1>12. CASE Skip(a)
  <2> DEFINE e == SegmentEnd(w)
             v == [w EXCEPT !.pc = "checkpoint", !.cur = e, !.tries = 0]
  <2>1. Goes(a, v) /\ w.pc = "segment" /\ Same(a, w.cur, e) /\ UNCHANGED <<tables, req, head>>
    BY <1>12 DEF Skip, At
  <2>2. e \in Cursors /\ e \in Int /\ w.cur < e /\ 0 \in 0..Retries
    BY <1>10, <2>1, Numbers
  <2>3. Direct[a] \cap ((w.cur + 1)..e) = {}
    <3>1. Changes(a) \cap ((w.cur + 1)..e) = {}
      BY <1>2, <2>1, <2>2, HonestBalances, Zenon DEF Same
    <3> QED
      BY <3>1, DirectIs
  <2> HIDE DEF e
  <2>4. v \in Walk /\ v.pc = "checkpoint" /\ v.from = w.from /\ v.cur = e /\ v.abort = w.abort
    BY <1>1, <2>2 DEF Walk
  <2> HIDE DEF v
  <2>5. row.status = "running" /\ ~bare => Claims(a, w.from, e) \subseteq stored
    BY <1>2, <1>11, <2>1, <2>2, <2>3, Stretch
  <2>6. WalkFound(a, row, v, stored, bare)
    BY <2>4, <2>5 DEF WalkFound, Reached
  <2> QED
    BY <1>3, <2>1, <2>4, <2>6 DEF tables
<1>13. ASSUME NEW u \in Walk
       PROVE  /\ Traced(u) \in Walk /\ Traced(u).pc \in {"trace", "checkpoint"}
              /\ Traced(u).from = u.from /\ Traced(u).abort = u.abort /\ Reached(Traced(u)) = u.at
  <2>1. u.at \in Cursors /\ u.cur \in Cursors
    BY Numbers DEF Walk
  <2>2. CASE u.traces = "on"
    <3>1. Traced(u) = [u EXCEPT !.pc = "trace", !.cur = u.cur]
      BY <2>2 DEF Traced
    <3> QED
      BY <2>1, <3>1 DEF Walk, Reached
  <2>3. CASE u.traces # "on"
    <3>1. Traced(u) = [u EXCEPT !.pc = "checkpoint", !.cur = u.at]
      BY <2>3 DEF Traced
    <3> QED
      BY <2>1, <3>1 DEF Walk, Reached
  <2> QED
    BY <2>2, <2>3
<1>14. CASE Change(a)
  <2> DEFINE b == FirstChange(a, w.cur, SegmentEnd(w))
             u == [w EXCEPT !.at = b, !.tries = 0]
             pc == IF u.abort THEN "pause" ELSE "own"
             x == [u EXCEPT !.pc = pc]
  <2>1. w.pc = "segment" /\ UNCHANGED <<tables, req, head>>
    BY <1>14 DEF Change, At
  <2>2. IF u.at \notin Direct[a] THEN Goes(a, Traced(u)) ELSE Goes(a, x)
    BY <1>14 DEF Change
  <2>3. b \in Blocks /\ b \in Int /\ 0 \in 0..Retries
    <3>1. b \in (w.cur + 1)..SegmentEnd(w)
      BY <1>2, <1>10, <2>1, FirstChangeIs
    <3> HIDE DEF b
    <3> QED
      BY <1>2, <1>10, <2>1, <3>1, Numbers DEF Blocks, Cursors
  <2>4. Direct[a] \cap ((w.cur + 1)..(b - 1)) = {}
    <3>1. Changes(a) \cap ((w.cur + 1)..(b - 1)) = {}
      BY <1>2, <1>10, <2>1, FirstChangeIs
    <3> QED
      BY <3>1, DirectIs
  <2>5. pc \in {"pause", "own"}
    OBVIOUS
  <2> HIDE DEF b, pc
  <2>6. u \in Walk /\ u.from = w.from /\ u.at = b /\ u.cur = w.cur /\ u.abort = w.abort
    BY <1>1, <2>3 DEF Walk
  <2> HIDE DEF u
  <2>7. x \in Walk /\ x.pc = pc /\ x.from = w.from /\ x.at = b /\ x.cur = w.cur /\ x.abort = w.abort
    BY <2>5, <2>6 DEF Walk
  <2> HIDE DEF x
  <2>8. CASE b \notin Direct[a]
    <3> DEFINE t == Traced(u)
    <3>1. t \in Walk /\ t.pc \in {"trace", "checkpoint"} /\ t.from = w.from /\ t.abort = w.abort /\ Reached(t) = b
      BY <1>13, <2>6
    <3>2. Goes(a, t)
      BY <2>2, <2>6, <2>8
    <3> HIDE DEF t
    <3>3. Direct[a] \cap ((w.cur + 1)..b) = {}
      <4>1. \A y \in (w.cur + 1)..b : y \in (w.cur + 1)..(b - 1) \/ y = b
        BY <1>2, <2>3
      <4> QED
        BY <2>4, <2>8, <4>1
    <3>4. row.status = "running" /\ ~bare => Claims(a, w.from, b) \subseteq stored
      BY <1>2, <1>11, <2>1, <2>3, <3>3, Stretch
    <3>5. WalkFound(a, row, t, stored, bare)
      BY <3>1, <3>4 DEF WalkFound
    <3> QED
      BY <1>3, <2>1, <3>1, <3>2, <3>5 DEF tables
  <2>9. CASE b \in Direct[a]
    <3>1. Goes(a, x)
      BY <2>2, <2>6, <2>9
    <3>2. WalkFound(a, row, x, stored, bare)
      BY <1>11, <2>1, <2>4, <2>5, <2>7 DEF WalkFound, Stores, Reached
    <3> QED
      BY <1>3, <2>1, <2>5, <2>7, <3>1, <3>2 DEF tables
  <2> QED
    BY <2>8, <2>9
<1>15. CASE Own(a)
  <2> DEFINE pc == IF Owns(a) THEN "insert" ELSE IF w.abort THEN "pause" ELSE "finish"
             v == [w EXCEPT !.pc = pc]
  <2>1. pc \in {"pause", "insert", "finish"} /\ (pc = "finish" => ~Owns(a))
    OBVIOUS
  <2>2. Goes(a, v) /\ w.pc = "own" /\ UNCHANGED <<tables, req, head>>
    BY <1>15 DEF Own, At
  <2> HIDE DEF pc
  <2>3. v \in Walk /\ v.pc = pc /\ v.from = w.from /\ v.at = w.at /\ v.cur = w.cur /\ v.abort = w.abort
    BY <1>1, <2>1 DEF Walk
  <2> HIDE DEF v
  <2>4. Direct[a] \cap ((w.cur + 1)..(w.at - 1)) = {}
    BY <1>1, <2>2 DEF WalkFound
  <2>5. row.status = "running" => Owns(a)
    BY <1>1, <2>2 DEF Owns, WalkOK, Started
  <2>6. WalkFound(a, row, v, stored, bare)
    BY <1>11, <2>1, <2>2, <2>3, <2>4, <2>5 DEF WalkFound, Stores, Reached
  <2> QED
    BY <1>3, <2>1, <2>2, <2>3, <2>6 DEF tables
<1>16. CASE Insert(a)
  <2> DEFINE t == Traced(w)
             more == stored \cup {w.at}
  <2>1. Goes(a, t) /\ w.pc = "insert" /\ UNCHANGED <<rows, internals, req, head, wiped>>
    BY <1>16 DEF Insert, At
  <2>2. findings' = [findings EXCEPT ![a] = more]
    BY <1>16 DEF Insert
  <2>3. findings'[a] = more /\ \A b \in Addrs : b # a => findings'[b] = findings[b]
    BY <1>1, <2>2 DEF Tables
  <2>4. t \in Walk /\ t.pc \in {"trace", "checkpoint"} /\ t.from = w.from /\ t.abort = w.abort /\ Reached(t) = w.at
    BY <1>1, <1>13
  <2> HIDE DEF t
  <2>5. RowFound(a, row, more, bare)
    BY <1>1 DEF RowFound
  <2>6. row.status = "running" /\ ~bare => Claims(a, w.from, w.at) \subseteq more
    <3> HAVE row.status = "running" /\ ~bare
    <3>1. Direct[a] \cap ((w.cur + 1)..(w.at - 1)) = {}
      BY <1>1, <2>1 DEF WalkFound
    <3>2. Claims(a, w.from, w.at - 1) \subseteq stored
      BY <1>2, <1>11, <2>1, <3>1, Stretch
    <3>3. \A b \in Direct[a] : b <= w.at => b <= w.at - 1 \/ b = w.at
      BY <1>2, DirectIs
    <3> QED
      BY <3>2, <3>3 DEF Claims
  <2> HIDE DEF more
  <2>7. WalkFound(a, row, t, more, bare)
    BY <2>4, <2>6 DEF WalkFound
  <2>8. t.pc # "idle" /\ w.pc # "idle" /\ rows' = rows /\ wiped' = wiped /\ req' = req
    BY <2>1, <2>4
  <2> QED
    BY <2>1, <2>3, <2>4, <2>5, <2>7, <2>8, GoesFound
<1>17. CASE Trace(a)
  <2> DEFINE v == [w EXCEPT !.pc = "checkpoint", !.cur = w.at]
             x == [v EXCEPT !.traces = "refused"]
  <2>1. v \in Walk /\ v.pc = "checkpoint" /\ v.from = w.from /\ v.cur = w.at /\ v.abort = w.abort
    BY <1>1, <1>2, Numbers DEF Walk
  <2>2. w.pc = "trace" /\ UNCHANGED <<rows, findings, req, head, wiped>>
    BY <1>17 DEF Trace, At
  <2>3. Goes(a, v) \/ Goes(a, x)
    BY <1>17 DEF Trace
  <2> HIDE DEF v
  <2>4. x \in Walk /\ x.pc = "checkpoint" /\ x.from = w.from /\ x.cur = w.at /\ x.abort = w.abort
    BY <2>1 DEF Walk
  <2> HIDE DEF x
  <2>5. row.status = "running" /\ ~bare => Claims(a, w.from, w.at) \subseteq stored
    BY <1>1, <2>2 DEF WalkFound, Stores, Reached
  <2>6. WalkFound(a, row, v, stored, bare) /\ WalkFound(a, row, x, stored, bare)
    BY <2>1, <2>4, <2>5 DEF WalkFound, Reached
  <2> QED
    BY <1>3, <2>1, <2>2, <2>3, <2>4, <2>6
<1>18. CASE Checkpoint(a)
  <2> DEFINE v == [w EXCEPT !.pc = "test", !.at = 0]
             new == [row EXCEPT !.cur = w.cur, !.traces = IF w.traces = "refused" THEN "refused" ELSE @]
  <2>1. v \in Walk /\ v.pc = "test" /\ v.from = w.from /\ v.cur = w.cur /\ v.abort = w.abort
    BY <1>1, Numbers DEF Walk
  <2>2. new \in Row /\ new.from = row.from /\ new.cur = w.cur /\ new.status = row.status
    BY <1>1, <1>2 DEF Row
  <2>3. /\ Goes(a, v) /\ w.pc = "checkpoint" /\ UNCHANGED <<findings, internals, req, head, wiped>>
        /\ IfRunning(a, new)
    BY <1>18 DEF Checkpoint, At
  <2> HIDE DEF v, new
  <2>4. /\ \A b \in Addrs : b # a => rows'[b] = rows[b]
        /\ rows'[a] = IF row.status = "running" THEN new ELSE row
    BY <2>2, <2>3, IfRunningKeeps
  <2>5. row.status = "running" /\ ~bare => Claims(a, w.from, w.cur) \subseteq stored
    BY <1>1, <2>3 DEF WalkFound, Stores, Reached
  <2>6. row.status = "running" => row.from = w.from
    BY <1>1, <2>3 DEF WalkOK, Started
  <2>7. rows'[a].status = row.status
    BY <2>2, <2>4
  <2>8. RowFound(a, rows'[a], stored, bare)
    <3>1. CASE row.status = "running"
      BY <2>2, <2>4, <2>5, <2>6, <3>1 DEF RowFound
    <3>2. CASE row.status # "running"
      BY <1>1, <2>4, <3>2
    <3> QED
      BY <3>1, <3>2
  <2>9. WalkFound(a, rows'[a], v, stored, bare)
    BY <2>1, <2>5, <2>7 DEF WalkFound, Reached
  <2>10. v.pc # "idle" /\ w.pc # "idle" /\ findings' = findings /\ wiped' = wiped /\ req' = req
    BY <2>1, <2>3
  <2> QED
    BY <2>1, <2>3, <2>4, <2>7, <2>8, <2>9, <2>10, GoesFound
<1>19. CASE Fails(a)
  <2> DEFINE v == [w EXCEPT !.pc = "fail"]
  <2>1. v \in Walk /\ v.pc = "fail" /\ v.abort = w.abort
    BY <1>1 DEF Walk
  <2>2. Goes(a, v) /\ w.pc \in Inside /\ UNCHANGED <<tables, req, head>>
    BY <1>19 DEF Fails
  <2> HIDE DEF v
  <2>3. WalkFound(a, row, v, stored, bare) /\ w.pc # "idle"
    BY <2>1, <2>2 DEF WalkFound, Stores, Inside
  <2> QED
    BY <1>3, <2>1, <2>2, <2>3 DEF tables
<1>20. CASE Capped(a)
  <2> DEFINE n == w.batch \div 2
             m == w.tries + 1
             v == [w EXCEPT !.pc = "test", !.batch = n]
             x == [w EXCEPT !.pc = "test", !.tries = m]
  <2>1. w.pc = "segment" /\ UNCHANGED <<tables, req, head>>
    BY <1>20 DEF Capped, At
  <2>2. (w.batch > 1 /\ Goes(a, v)) \/ (w.tries < Retries /\ Goes(a, x))
    BY <1>20 DEF Capped
  <2>3. w.batch \in 1..Batch /\ w.tries \in 0..Retries
    BY <1>1 DEF Walk
  <2>4. (w.batch > 1 => n \in 1..Batch) /\ (w.tries < Retries => m \in 0..Retries)
    BY <2>3, Numbers
  <2> HIDE DEF n, m
  <2>5. /\ n \in 1..Batch => v \in Walk
        /\ v.pc = "test" /\ v.from = w.from /\ v.cur = w.cur /\ v.abort = w.abort
    BY <1>1 DEF Walk
  <2>6. /\ m \in 0..Retries => x \in Walk
        /\ x.pc = "test" /\ x.from = w.from /\ x.cur = w.cur /\ x.abort = w.abort
    BY <1>1 DEF Walk
  <2> HIDE DEF v, x
  <2>7. WalkFound(a, row, v, stored, bare) /\ WalkFound(a, row, x, stored, bare)
    BY <1>11, <2>1, <2>5, <2>6 DEF WalkFound, Stores, Reached
  <2> QED
    BY <1>3, <2>1, <2>2, <2>4, <2>5, <2>6, <2>7 DEF tables
<1>21. ASSUME NEW pc, NEW new \in Row, Settle(a, pc, new), new.status # "absent",
              row.status = "running" => RowFound(a, new, stored, bare)
       PROVE  FoundInv'
  <2>1. /\ rows'[a] = IF row.status = "running" THEN new ELSE row
        /\ \A b \in Addrs : b # a => rows'[b] = rows[b]
    BY <1>21, IfRunningKeeps DEF Settle
  <2>2. End(a) /\ UNCHANGED <<findings, internals, wiped, req, head>>
    BY <1>21 DEF Settle
  <2>3. rows'[a].status = "absent" <=> row.status = "absent"
    BY <1>21, <2>1
  <2>4. RowFound(a, rows'[a], stored, bare)
    BY <1>1, <1>21, <2>1
  <2> QED
    BY <2>1, <2>2, <2>3, <2>4, EndsFound
<1>22. CASE FailJob(a) \/ PauseJob(a)
  <2> DEFINE e == [row EXCEPT !.status = "error"]
             p == [row EXCEPT !.status = "paused"]
  <2>1. /\ e \in Row /\ e.status = "error" /\ e.from = row.from /\ e.cur = row.cur
        /\ p \in Row /\ p.status = "paused" /\ p.from = row.from /\ p.cur = row.cur
    BY <1>1 DEF Row, Statuses
  <2>2. Settle(a, "fail", e) \/ Settle(a, "pause", p)
    BY <1>22 DEF FailJob, PauseJob
  <2> HIDE DEF e, p
  <2>3. row.status = "running" => RowFound(a, e, stored, bare) /\ RowFound(a, p, stored, bare)
    BY <1>1, <2>1 DEF RowFound
  <2> QED
    BY <1>21, <2>1, <2>2, <2>3
<1>23. CASE Finish(a)
  <2> DEFINE new == [row EXCEPT !.status = "complete", !.cur = w.to]
  <2>1. /\ new \in Row /\ new.status = "complete" /\ new.from = row.from /\ new.to = row.to
        /\ new.cur = w.to
    BY <1>1, <1>2, Numbers DEF Row, Statuses
  <2>2. Settle(a, "finish", new) /\ w.pc = "finish"
    BY <1>23 DEF Finish, Settle, At
  <2> HIDE DEF new
  <2>3. row.status = "running" => row.from = w.from /\ row.to = w.to
    BY <1>1, <2>2 DEF WalkOK, Started
  <2>4. row.status = "running" /\ ~bare => Claims(a, w.from, w.to) \subseteq stored
    BY <1>1, <2>2 DEF WalkFound, Stores, Reached
  <2>5. row.status = "running" => RowFound(a, new, stored, bare)
    BY <2>1, <2>3, <2>4 DEF RowFound
  <2> QED
    BY <1>21, <2>1, <2>2, <2>5
<1>24. CASE Throws(a)
  BY <1>4, <1>24 DEF Throws
<1> QED
  BY <1>5, <1>6, <1>7, <1>8, <1>9, <1>12, <1>14, <1>15, <1>16, <1>17, <1>18, <1>19, <1>20,
     <1>22, <1>23, <1>24 DEF WalkStep

\* The same, with a start only of a row that is there.
RegistersRow(a) ==
  \/ Ensure(a) /\ rows[a].status # "absent"
  \/ Stop(a)
  \/ queue' = Unqueued(a) /\ UNCHANGED walk
  \/ UNCHANGED <<walk, queue>>

LEMMA RegistersFound ==
  ASSUME ScanInv, FoundInv, NEW a \in Addrs, RegistersRow(a)
  PROVE  \A b \in Addrs : /\ WalkFound(b, rows[b], walk'[b], findings[b], wiped[b])
                          /\ rows[b].status = "absent" => Told(walk'[b]) /\ b \notin ToSet(queue')
<1> SUFFICES ASSUME NEW b \in Addrs
             PROVE  /\ WalkFound(b, rows[b], walk'[b], findings[b], wiped[b])
                    /\ rows[b].status = "absent" => Told(walk'[b]) /\ b \notin ToSet(queue')
  BY Zenon
<1>1. Registry /\ walk[b] \in Walk /\ WalkFound(b, rows[b], walk[b], findings[b], wiped[b])
  BY Parts DEF Registry, FoundInv
<1>2. rows[b].status = "absent" => Told(walk[b]) /\ b \notin ToSet(queue)
  BY DEF FoundInv
<1>3. CASE Ensure(a) /\ rows[a].status # "absent"
  <2>1. walk'[b] = walk[b] \/ (b = a /\ walk'[b] = NewWalk)
    BY <1>1, <1>3, EnsureKeeps
  <2>2. ToSet(queue') \subseteq ToSet(queue) \cup {a}
    BY <1>1, <1>3, EnsureKeeps
  <2>3. rows[b].status = "absent" => b # a
    BY <1>3
  <2> QED
    BY <1>1, <1>2, <2>1, <2>2, <2>3, NewFound
<1>4. CASE Stop(a)
  <2>1. b # a => walk'[b] = walk[b]
    BY <1>1, <1>4, StopKeeps
  <2>2. ToSet(queue') = ToSet(queue) \ {a}
    BY <1>1, <1>4, StopKeeps
  <2>3. CASE b # a
    BY <1>1, <1>2, <2>1, <2>2, <2>3
  <2>4. CASE b = a
    <3> DEFINE stopped == walk[a].pc # "idle"
    <3>1. walk'[a] = [walk[a] EXCEPT !.abort = stopped]
      BY <1>1, <1>4, StopKeeps
    <3>2. stopped => walk[a].pc # "idle"
      OBVIOUS
    <3>3. ~stopped => walk[a].pc = "idle"
      OBVIOUS
    <3> HIDE DEF stopped
    <3>4. /\ walk'[a].pc = walk[a].pc /\ walk'[a].cur = walk[a].cur /\ walk'[a].at = walk[a].at
          /\ walk'[a].from = walk[a].from /\ walk'[a].to = walk[a].to /\ walk'[a].abort = stopped
      BY <1>1, <2>4, <3>1 DEF Walk
    <3>5. Told(walk'[a])
      BY <3>3, <3>4 DEF Told
    <3>6. Reached(walk'[a]) = Reached(walk[a]) /\ (Stores(walk'[a]) => Stores(walk[a]))
      BY <3>3, <3>4 DEF Reached, Stores
    <3>7. WalkFound(a, rows[a], walk'[a], findings[a], wiped[a])
      BY <1>1, <2>4, <3>3, <3>4, <3>6 DEF WalkFound
    <3> QED
      BY <2>2, <2>4, <3>5, <3>7
  <2> QED
    BY <2>3, <2>4
<1>5. CASE queue' = Unqueued(a) /\ UNCHANGED walk
  <2>1. ToSet(queue') \subseteq ToSet(queue)
    BY <1>1, <1>5, Dropped DEF Registry
  <2> QED
    BY <1>1, <1>2, <1>5, <2>1
<1>6. CASE UNCHANGED <<walk, queue>>
  BY <1>1, <1>2, <1>6
<1> QED
  BY <1>3, <1>4, <1>5, <1>6 DEF RegistersRow

\* A stop leaves nothing of a walk that would go on, and nothing of a start.
LEMMA StopTells ==
  ASSUME Registry, NEW a \in Addrs, Stop(a)
  PROVE  Told(walk'[a]) /\ a \notin ToSet(queue')
<1> DEFINE stopped == walk[a].pc # "idle"
<1>1. walk'[a] = [walk[a] EXCEPT !.abort = stopped] /\ walk[a] \in Walk
  BY StopKeeps DEF Registry
<1>2. ~stopped => walk[a].pc = "idle"
  OBVIOUS
<1> HIDE DEF stopped
<1>3. walk'[a].pc = walk[a].pc /\ walk'[a].abort = stopped
  BY <1>1 DEF Walk
<1>4. a \notin ToSet(queue')
  BY StopKeeps
<1> QED
  BY <1>2, <1>3, <1>4 DEF Told

\* The only request, and what it has become.
LEMMA OnlyRequest ==
  ASSUME OneRequest, NEW h \in Handlers, RequestFound(req[h])'
  PROVE  \A g \in Handlers : RequestFound(req[g])'
BY DEF OneRequest

LEMMA AnswerFound ==
  ASSUME Requests(req), NEW h \in Handlers, Answer(h)
  PROVE  RequestFound(req[h])'
<1>1. req'[h] = NoReq
  BY DEF Answer, Requests
<1> QED
  BY <1>1 DEF RequestFound, NoReq, Replaces

LEMMA StepIs ==
  ASSUME Requests(req), NEW h \in Handlers, NEW pc, Step(h, pc)
  PROVE  req'[h].pc = pc /\ req'[h].a = req[h].a
<1>1. req'[h] = [req[h] EXCEPT !.pc = pc] /\ req[h] \in Req
  BY DEF Step, Requests
<1> QED
  BY <1>1 DEF Req

LEMMA RequestStepFound ==
  ASSUME ScanInv, FoundInv, OneRequest, NEW h \in Handlers, RequestStep(h)
  PROVE  FoundInv'
<1> DEFINE q == req[h]
           a == q.a
           row == rows[a]
<1>1. /\ Registry /\ Requests(req) /\ Tables(rows, findings, internals, wiped)
      /\ q \in Req /\ a \in Addrs /\ row \in Row /\ q.from \in Blocks /\ q.to \in Blocks
  BY Parts DEF Requests, Req, Tables
<1>2. /\ RequestFound(q) /\ RowFound(a, row, findings[a], wiped[a])
      /\ WalkFound(a, row, walk[a], findings[a], wiped[a])
      /\ row.status = "absent" => Told(walk[a]) /\ a \notin ToSet(queue)
  BY <1>1 DEF FoundInv
\* The tables stay.
<1>3. ASSUME UNCHANGED <<rows, findings, wiped>>, RegistersRow(a), RequestFound(req[h])'
      PROVE  FoundInv'
  <2>1. \A b \in Addrs : /\ WalkFound(b, rows[b], walk'[b], findings[b], wiped[b])
                         /\ rows[b].status = "absent" => Told(walk'[b]) /\ b \notin ToSet(queue')
    BY <1>1, <1>3, RegistersFound
  <2>2. \A b \in Addrs : RowFound(b, rows[b], findings[b], wiped[b])
    BY DEF FoundInv
  <2>3. \A g \in Handlers : RequestFound(req[g])'
    BY <1>3, OnlyRequest
  <2> QED
    BY <1>3, <2>1, <2>2, <2>3 DEF FoundInv
\* One row or its findings change, the registry stays.
<1>4. ASSUME NEW new, NEW stored, NEW bare,
             rows' = [rows EXCEPT ![a] = new], findings' = [findings EXCEPT ![a] = stored],
             wiped' = [wiped EXCEPT ![a] = bare], UNCHANGED <<walk, queue>>,
             RowFound(a, new, stored, bare), WalkFound(a, new, walk[a], stored, bare),
             new.status = "absent" => Told(walk[a]) /\ a \notin ToSet(queue), RequestFound(req[h])'
      PROVE  FoundInv'
  <2>1. \A b \in Addrs : /\ rows'[b] = IF b = a THEN new ELSE rows[b]
                         /\ findings'[b] = IF b = a THEN stored ELSE findings[b]
                         /\ wiped'[b] = IF b = a THEN bare ELSE wiped[b]
    BY <1>1, <1>4 DEF Tables
  <2>2. ASSUME NEW b \in Addrs
        PROVE  /\ RowFound(b, rows'[b], findings'[b], wiped'[b])
               /\ WalkFound(b, rows'[b], walk'[b], findings'[b], wiped'[b])
               /\ rows'[b].status = "absent" => Told(walk'[b]) /\ b \notin ToSet(queue')
    <3>1. CASE b = a
      BY <1>4, <2>1, <3>1
    <3>2. CASE b # a
      BY <1>4, <2>1, <3>2 DEF FoundInv
    <3> QED
      BY <3>1, <3>2
  <2>3. \A g \in Handlers : RequestFound(req[g])'
    BY <1>4, OnlyRequest
  <2> QED
    BY <2>2, <2>3 DEF FoundInv
<1>5. /\ findings = [findings EXCEPT ![a] = findings[a]]
      /\ wiped = [wiped EXCEPT ![a] = wiped[a]]
      /\ rows = [rows EXCEPT ![a] = row]
  BY <1>1 DEF Tables
<1>6. ASSUME NEW pc, Step(h, pc), pc \notin Replaces, pc # "decide" PROVE RequestFound(req[h])'
  BY <1>1, <1>6, StepIs DEF RequestFound
<1>7. q.pc \in Replaces => Told(walk[a]) /\ a \notin ToSet(queue)
  BY <1>2 DEF RequestFound
<1>8. ASSUME NEW pc, Step(h, pc), pc # "decide", Told(walk'[a]), a \notin ToSet(queue')
      PROVE  RequestFound(req[h])'
  BY <1>1, <1>8, StepIs DEF RequestFound
<1>9. CASE Decide(h)
  <2>1. q.pc = "decide" /\ UNCHANGED <<tables, head>>
    BY <1>9 DEF Decide, In
  <2>2. q.seen.status = "absent" <=> row.status = "absent"
    BY <1>2, <2>1 DEF RequestFound
  <2>3. CASE Decision(q) = "create" /\ Step(h, "upsert") /\ UNCHANGED <<walk, queue>>
    <3>1. row.status = "absent"
      BY <2>2, <2>3 DEF Decision
    <3>2. RequestFound(req[h])'
      BY <1>2, <1>8, <2>3, <3>1
    <3> QED
      BY <1>3, <2>1, <2>3, <3>2 DEF tables, RegistersRow
  <2>4. CASE Step(h, "wipe") /\ Stop(a)
    <3>1. RequestFound(req[h])'
      BY <1>1, <1>8, <2>4, StopTells
    <3> QED
      BY <1>3, <2>1, <2>4, <3>1 DEF tables, RegistersRow
  <2>5. CASE Answer(h) /\ q.seen.status \in {"pending", "error"} /\ Ensure(a)
    <3>1. RequestFound(req[h])' /\ row.status # "absent"
      BY <1>1, <2>2, <2>5, AnswerFound
    <3> QED
      BY <1>3, <2>1, <2>5, <3>1 DEF tables, RegistersRow
  <2>6. CASE Answer(h) /\ UNCHANGED <<walk, queue>>
    BY <1>1, <1>3, <2>1, <2>6, AnswerFound DEF tables, RegistersRow
  <2> QED
    BY <1>9, <2>3, <2>4, <2>5, <2>6 DEF Decide
<1>10. CASE Wipe(h)
  <2>1. /\ rows' = [rows EXCEPT ![a] = row] /\ findings' = [findings EXCEPT ![a] = {}]
        /\ wiped' = [wiped EXCEPT ![a] = TRUE] /\ UNCHANGED <<walk, queue>>
        /\ Step(h, "wipe internals") /\ q.pc = "wipe"
    BY <1>5, <1>10 DEF Wipe
  <2>2. RequestFound(req[h])'
    BY <1>7, <1>8, <2>1 DEF Replaces
  <2>3. RowFound(a, row, {}, TRUE) /\ WalkFound(a, row, walk[a], {}, TRUE)
    BY <1>2 DEF RowFound, WalkFound
  <2> QED
    BY <1>2, <1>4, <2>1, <2>2, <2>3
<1>11. CASE WipeInternals(h)
  <2>1. UNCHANGED <<rows, findings, walk, queue, wiped>> /\ q.pc = "wipe internals"
    BY <1>11 DEF WipeInternals
  <2>2. Step(h, "delete row") \/ Step(h, "upsert")
    BY <1>11 DEF WipeInternals
  <2>3. RequestFound(req[h])'
    BY <1>7, <1>8, <2>1, <2>2 DEF Replaces
  <2> QED
    BY <1>3, <2>1, <2>3 DEF RegistersRow
<1>12. CASE Upsert(h)
  <2> DEFINE new == [status |-> "pending", from |-> q.from, to |-> q.to, cur |-> q.from - 1,
                     traces |-> q.traces]
  <2>1. /\ rows' = [rows EXCEPT ![a] = new] /\ wiped' = [wiped EXCEPT ![a] = FALSE]
        /\ Step(h, "start") /\ UNCHANGED <<findings, walk, queue>> /\ q.pc \in Replaces
    BY <1>12 DEF Upsert, Replaces
  <2>2. new.status = "pending" /\ new.from = q.from /\ new.cur = q.from - 1 /\ q.from \in Int
    BY <1>1, Numbers
  <2> HIDE DEF new
  <2>3. Claims(a, new.from, new.cur) = {}
    BY <1>1, <2>2, DirectIs DEF Claims
  <2>4. RowFound(a, new, findings[a], FALSE)
    BY <2>2, <2>3 DEF RowFound
  <2>5. RequestFound(req[h])'
    BY <1>6, <2>1 DEF Replaces
  <2>6. /\ WalkFound(a, new, walk[a], findings[a], FALSE)
        /\ Told(walk[a]) /\ a \notin ToSet(queue)
    <3>1. q.pc \in Replaces
      BY <2>1
    <3>2. new.status \in {"pending", "absent"}
      BY <2>2
    <3>3. Told(walk[a]) /\ a \notin ToSet(queue)
      BY <1>7, <3>1
    <3>4. WalkFound(a, new, walk[a], findings[a], FALSE)
      BY <1>2, <3>2, <3>3 DEF WalkFound, Told
    <3> QED
      BY <3>3, <3>4
  <2> QED
    BY <1>4, <1>5, <2>1, <2>4, <2>5, <2>6
<1>13. CASE DeleteRow(h)
  <2>1. /\ rows' = [rows EXCEPT ![a] = NoRow] /\ wiped' = [wiped EXCEPT ![a] = FALSE]
        /\ Answer(h) /\ UNCHANGED <<findings, walk, queue>> /\ q.pc \in Replaces
    BY <1>13 DEF DeleteRow, Replaces
  <2>2. NoRow.status = "absent" /\ RowFound(a, NoRow, findings[a], FALSE)
    BY DEF NoRow, RowFound
  <2>3. RequestFound(req[h])'
    BY <1>1, <2>1, AnswerFound
  <2>4. /\ WalkFound(a, NoRow, walk[a], findings[a], FALSE)
        /\ Told(walk[a]) /\ a \notin ToSet(queue)
    <3>1. q.pc \in Replaces
      BY <2>1
    <3>2. NoRow.status \in {"pending", "absent"}
      BY <2>2
    <3>3. Told(walk[a]) /\ a \notin ToSet(queue)
      BY <1>7, <3>1
    <3>4. WalkFound(a, NoRow, walk[a], findings[a], FALSE)
      BY <1>2, <3>2, <3>3 DEF WalkFound, Told
    <3> QED
      BY <3>3, <3>4
  <2> QED
    BY <1>4, <1>5, <2>1, <2>2, <2>3, <2>4
<1>14. CASE Start(h) \/ Extended(h)
  <2>1. Answer(h) /\ RegistersRow(a) /\ UNCHANGED <<tables, head>>
    BY <1>14 DEF Start, Extended, RegistersRow
  <2> QED
    BY <1>1, <1>3, <2>1, AnswerFound DEF tables
<1>15. CASE Pause(h) \/ Drop(h)
  <2>1. Answer(h) /\ RegistersRow(a) /\ UNCHANGED <<tables, head>>
    BY <1>15 DEF Pause, Drop, RegistersRow
  <2> QED
    BY <1>1, <1>3, <2>1, AnswerFound DEF tables
<1>16. CASE Resume(h)
  <2>1. (Step(h, "requeue") \/ Answer(h)) /\ RegistersRow(a) /\ UNCHANGED <<tables, head>>
    BY <1>16 DEF Resume, RegistersRow
  <2>2. RequestFound(req[h])'
    BY <1>1, <1>6, <2>1, AnswerFound DEF Replaces
  <2> QED
    BY <1>3, <2>1, <2>2 DEF tables
\* The row moves on, with its start and its cursor.
<1>17. ASSUME NEW new, new.from = row.from, new.cur = row.cur,
              new.status = "absent" <=> row.status = "absent",
              new.status = "complete" => new = row, new.status = "running" => row.status = "running",
              rows' = [rows EXCEPT ![a] = new], UNCHANGED <<findings, wiped, walk, queue>>,
              RequestFound(req[h])'
       PROVE  FoundInv'
  <2>1. RowFound(a, new, findings[a], wiped[a]) /\ WalkFound(a, new, walk[a], findings[a], wiped[a])
    BY <1>2, <1>17 DEF RowFound, WalkFound
  <2> QED
    BY <1>2, <1>4, <1>5, <1>17, <2>1
<1>18. CASE Requeue(h)
  <2> DEFINE new == [row EXCEPT !.status = IF @ = "absent" THEN @ ELSE "pending"]
  <2>1. /\ new.from = row.from /\ new.cur = row.cur
        /\ new.status = IF row.status = "absent" THEN "absent" ELSE "pending"
    BY <1>1 DEF Row
  <2>2. /\ rows' = [rows EXCEPT ![a] = new] /\ Step(h, "start")
        /\ UNCHANGED <<findings, wiped, walk, queue>>
    BY <1>1, <1>18 DEF Requeue
  <2> HIDE DEF new
  <2>3. RequestFound(req[h])'
    BY <1>6, <2>2 DEF Replaces
  <2> QED
    BY <1>17, <2>1, <2>2, <2>3
<1>19. CASE Catchup(h)
  <2>1. RegistersRow(a) /\ UNCHANGED <<tables, head>>
    BY <1>19 DEF Catchup, RegistersRow
  <2>2. CASE Answer(h)
    BY <1>1, <1>3, <2>1, <2>2, AnswerFound DEF tables
  <2>3. CASE req' = [req EXCEPT ![h].pc = "extend", ![h].to = head]
    <3> DEFINE new == [q EXCEPT !.pc = "extend", !.to = head]
    <3>1. req'[h] = new /\ new.pc = "extend"
      BY <1>1, <2>3 DEF Requests, Req
    <3> HIDE DEF new
    <3>2. RequestFound(req[h])'
      BY <3>1 DEF RequestFound, Replaces
    <3> QED
      BY <1>3, <2>1, <3>2 DEF tables
  <2> QED
    BY <1>19, <2>2, <2>3 DEF Catchup
<1>20. CASE Extend(h)
  <2> DEFINE grown == [row EXCEPT !.status = Requeued(@), !.to = q.to]
             new == IF row.status = q.seen.status /\ row.to = q.seen.to THEN grown ELSE row
  <2>1. /\ grown.from = row.from /\ grown.cur = row.cur
        /\ grown.status = IF row.status = "complete" THEN "pending" ELSE row.status
    BY <1>1 DEF Row, Requeued
  <2>2. /\ rows' = [rows EXCEPT ![a] = new] /\ Step(h, "extended")
        /\ UNCHANGED <<findings, wiped, walk, queue>>
    BY <1>20 DEF Extend
  <2> HIDE DEF grown
  <2>3. /\ new.from = row.from /\ new.cur = row.cur
        /\ new.status = "absent" <=> row.status = "absent"
        /\ new.status = "complete" => new = row
        /\ new.status = "running" => row.status = "running"
    BY <2>1
  <2> HIDE DEF new
  <2>4. RequestFound(req[h])'
    BY <1>6, <2>2 DEF Replaces
  <2> QED
    BY <1>17, <2>2, <2>3, <2>4
<1> QED
  BY <1>9, <1>10, <1>11, <1>12, <1>13, <1>14, <1>15, <1>16, <1>18, <1>19, <1>20 DEF RequestStep

LEMMA ArrivesFound ==
  ASSUME ScanInv, FoundInv, OneRequest, NEW h \in Handlers, NEW a \in Addrs, Arrives(h, a)
  PROVE  FoundInv'
<1>1. Registry /\ Requests(req) /\ Tables(rows, findings, internals, wiped)
  BY Parts
<1>2. ASSUME UNCHANGED tables, RegistersRow(a), RequestFound(req[h])' PROVE FoundInv'
  <2>1. \A b \in Addrs : /\ WalkFound(b, rows[b], walk'[b], findings[b], wiped[b])
                         /\ rows[b].status = "absent" => Told(walk'[b]) /\ b \notin ToSet(queue')
    BY <1>2, RegistersFound
  <2>2. \A g \in Handlers : RequestFound(req[g])'
    BY <1>2, OnlyRequest
  <2> QED
    BY <1>2, <2>1, <2>2 DEF FoundInv, tables
<1>3. ASSUME NEW op, NEW from, NEW to, NEW traces, NEW force, Read(h, op, a, from, to, traces, force)
      PROVE  FoundInv'
  <2> DEFINE new == [pc |-> "decide", op |-> op, a |-> a, from |-> from, to |-> to,
                     traces |-> traces, force |-> force, seen |-> Seen(rows[a])]
  <2>1. req' = [req EXCEPT ![h] = new] /\ UNCHANGED <<tables, walk, queue, head>>
    BY <1>3 DEF Read
  <2>2. req'[h] = new /\ new.pc = "decide" /\ new.a = a /\ new.seen.status = rows[a].status
    BY <1>1, <2>1 DEF Requests, Seen
  <2> HIDE DEF new
  <2>3. RequestFound(req[h])'
    BY <2>1, <2>2 DEF RequestFound, Replaces, tables
  <2> QED
    BY <1>2, <2>1, <2>3 DEF RegistersRow
<1>4. CASE Post(h, a) \/ \E op \in Asks[a] \ {"delete"} : Ask(h, op, a)
  BY <1>3, <1>4 DEF Post, Ask
<1>5. CASE Delete(h, a)
  <2> DEFINE new == [NoReq EXCEPT !.pc = "wipe", !.op = "delete", !.a = a]
  <2>1. req' = [req EXCEPT ![h] = new] /\ Stop(a) /\ UNCHANGED <<tables, head>>
    BY <1>5 DEF Delete
  <2>2. req'[h] = new /\ new.pc = "wipe" /\ new.a = a
    BY <1>1, <2>1 DEF Requests, NoReq
  <2> HIDE DEF new
  <2>3. Told(walk'[a]) /\ a \notin ToSet(queue')
    BY <1>1, <2>1, StopTells
  <2>4. RequestFound(req[h])'
    BY <2>2, <2>3 DEF RequestFound
  <2> QED
    BY <1>2, <2>1, <2>4 DEF RegistersRow
<1> QED
  BY <1>4, <1>5 DEF Arrives

LEMMA FoundInit ==
  ASSUME Init
  PROVE  FoundInv
<1>1. queue = <<>> /\ \A a \in Addrs : walk[a] = NoWalk /\ rows[a] = NoRow
  BY DEF Init
<1>2. ToSet(queue) = {} /\ NoRow.status = "absent"
  BY <1>1, EmptyQueue DEF NoRow
<1>3. \A h \in Handlers : RequestFound(req[h])
  BY DEF Init, RequestFound, NoReq, Replaces
<1> QED
  BY <1>1, <1>2, <1>3, NewFound DEF FoundInv, RowFound

LEMMA RestartFound ==
  ASSUME ScanInv, FoundInv, Restart
  PROVE  FoundInv'
<1>1. queue' = <<>> /\ UNCHANGED <<findings, wiped>> /\ \A a \in Addrs : walk'[a] = NoWalk
  BY DEF Restart
<1>2. ToSet(queue') = {}
  BY <1>1, EmptyQueue
<1>3. ASSUME NEW a \in Addrs PROVE RowFound(a, rows'[a], findings[a], wiped[a])
  <2>1. rows[a] \in Row /\ RowFound(a, rows[a], findings[a], wiped[a])
    BY Parts DEF Tables, FoundInv
  <2>2. rows'[a] = rows[a] \/ (rows[a].status = "running" /\ rows'[a] = [rows[a] EXCEPT !.status = "error"])
    BY DEF Restart
  <2>3. CASE rows'[a] = rows[a]
    BY <2>1, <2>3
  <2>4. CASE rows[a].status = "running" /\ rows'[a] = [rows[a] EXCEPT !.status = "error"]
    <3>1. rows'[a].status = "error" /\ rows'[a].from = rows[a].from /\ rows'[a].cur = rows[a].cur
      BY <2>1, <2>4 DEF Row
    <3> QED
      BY <2>1, <2>4, <3>1 DEF RowFound
  <2> QED
    BY <2>2, <2>3, <2>4
<1>4. \A h \in Handlers : RequestFound(req[h])'
  BY DEF Restart, RequestFound, NoReq, Replaces
<1> QED
  BY <1>1, <1>2, <1>3, <1>4, NewFound DEF FoundInv

LEMMA FoundStep ==
  ASSUME ScanInv, FoundInv, OneRequest, [Next]_vars
  PROVE  FoundInv'
<1>1. CASE NewBlock \/ UNCHANGED vars
  <2>1. UNCHANGED <<rows, findings, wiped, walk, queue, req>>
    BY <1>1 DEF NewBlock, tables, vars
  <2>2. \A h \in Handlers : RequestFound(req[h])'
    BY <2>1 DEF FoundInv, RequestFound
  <2> QED
    BY <2>1, <2>2 DEF FoundInv
<1> QED
  BY <1>1, WalkStepFound, RequestStepFound, ArrivesFound, RestartFound DEF Next

\* CursorFound of every state, of one request at a time: whatever errors, pauses, replacements,
\* deletions, catch-ups and restarts came before, the cursor a walk has stored in
\* address_scan_jobs is not ahead of the findings that are stored for it.
THEOREM CursorFoundHolds == ASSUME OneRequest PROVE Spec => []CursorFound
<1>1. ScanInv /\ FoundInv => CursorFound
  BY DEF ScanInv, FoundInv, RowFound, Claims, CursorFound
<1>2. Init => FoundInv
  BY FoundInit
<1>3. ScanInv /\ FoundInv /\ [Next]_vars => FoundInv'
  BY FoundStep
<1> QED
  BY <1>1, <1>2, <1>3, ScanAlways, PTL DEF Spec
=============================================================================
