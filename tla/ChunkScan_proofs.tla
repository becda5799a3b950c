--------------------------- MODULE ChunkScan_proofs ---------------------------
(***************************************************************************)
(* What the scans of transfers and approvals keep, for any logs, windows,  *)
(* chunks and budgets: a complete answer misses nothing, no answer has a   *)
(* hole, and a reader that pages through complete scans skips no row.      *)
(***************************************************************************)
EXTENDS ChunkScan, FiniteSetTheorems, SequenceTheorems, TLAPS

-----------------------------------------------------------------------------
(* The order of logs.                                                       *)

\* The types of a log's place.
LEMMA LogTypes == \A l \in Logs : l.n \in Nat /\ l.i \in Nat /\ l.n \in Blocks /\ l.p \in Pairs
BY LogsAssumption, SizesAssumption DEF Blocks

\* Newer is a strict total order of the logs.
LEMMA NewerIsAnOrder ==
  /\ \A l, k \in Logs : l = k \/ Newer(l, k) \/ Newer(k, l)
  /\ \A l, k \in Logs : Newer(l, k) => l # k /\ ~Newer(k, l) /\ l.n >= k.n
  /\ \A l, k, j \in Logs : Newer(l, k) /\ Newer(k, j) => Newer(l, j)
<1>1. \A l, k \in Logs : l.n = k.n /\ l.i = k.i => l = k
  BY LogsAssumption
<1> QED
  BY <1>1, LogTypes DEF Newer

LEMMA FiniteLogs == \A S \in SUBSET Logs : IsFiniteSet(S) /\ Cardinality(S) \in Nat
BY LogsAssumption, FS_Subset, FS_CardinalityType

\* A log has a smaller rank than those it is newer than, and less than the size of its set.
LEMMA RankIs ==
  ASSUME NEW S \in SUBSET Logs
  PROVE  /\ \A l \in Logs : Rank(S, l) \in Nat
         /\ \A l \in S : Rank(S, l) < Cardinality(S)
         /\ \A k \in S, l \in Logs : Newer(k, l) => Rank(S, k) < Rank(S, l)
         /\ \A k, l \in S : Rank(S, k) = Rank(S, l) => k = l
<1> DEFINE Above(l) == {k \in S : Newer(k, l)}
<1>1. \A l : Above(l) \in SUBSET S /\ Above(l) \in SUBSET Logs
  OBVIOUS
<1>2. \A l : IsFiniteSet(Above(l)) /\ Cardinality(Above(l)) \in Nat
  BY <1>1, FiniteLogs
<1>3. \A l : Rank(S, l) = Cardinality(Above(l))
  BY DEF Rank
<1>4. ASSUME NEW A \in SUBSET S, NEW B \in SUBSET S, NEW x \in B, x \notin A, A \subseteq B
      PROVE  Cardinality(A) < Cardinality(B)
  <2>1. IsFiniteSet(B) /\ Cardinality(B) \in Nat /\ Cardinality(A) \in Nat
    BY FiniteLogs
  <2>2. Cardinality(A) <= Cardinality(B) /\ (Cardinality(B) = Cardinality(A) => B = A)
    BY <1>4, <2>1, FS_Subset
  <2> QED
    BY <1>4, <2>1, <2>2
<1>5. ASSUME NEW l \in S PROVE Cardinality(Above(l)) < Cardinality(S)
  <2>1. l \notin Above(l)
    BY NewerIsAnOrder
  <2> HIDE DEF Above
  <2> QED
    BY <1>1, <1>4, <2>1
<1>6. ASSUME NEW k \in S, NEW l \in Logs, Newer(k, l)
      PROVE  Cardinality(Above(k)) < Cardinality(Above(l))
  <2>1. k \in Above(l) /\ k \notin Above(k) /\ Above(k) \subseteq Above(l)
    BY <1>6, NewerIsAnOrder
  <2> HIDE DEF Above
  <2> QED
    BY <1>1, <1>4, <2>1
<1> HIDE DEF Above
<1>7. ASSUME NEW k \in S, NEW l \in S, Rank(S, k) = Rank(S, l) PROVE k = l
  <2>1. ~Newer(k, l) /\ ~Newer(l, k)
    BY <1>2, <1>3, <1>6, <1>7
  <2> QED
    BY <2>1, NewerIsAnOrder
<1> QED
  BY <1>2, <1>3, <1>5, <1>6, <1>7

\* Every rank below the size of a set is the rank of one of its logs.
LEMMA RankTaken ==
  ASSUME NEW S \in SUBSET Logs, NEW r \in 0..(Cardinality(S) - 1)
  PROVE  \E l \in S : Rank(S, l) = r
<1> DEFINE n == Cardinality(S)
           T == 1..n
           f == [l \in S |-> Rank(S, l) + 1]
<1>1. n \in Nat /\ IsFiniteSet(S)
  BY FiniteLogs
<1>2. f \in [S -> T]
  BY <1>1, RankIs
<1>3. \A k, l \in S : f[k] = f[l] => k = l
  BY RankIs
<1>4. f \in Injection(S, T)
  <2> HIDE DEF f, T
  <2> QED
    BY <1>2, <1>3 DEF Injection, IsInjective
<1>5. IsFiniteSet(T) /\ Cardinality(T) = n
  BY <1>1, FS_Interval
<1>6. f \in Surjection(S, T)
  BY <1>4, <1>5, FS_Injection
<1>7. r + 1 \in T /\ \A l \in S : f[l] = Rank(S, l) + 1
  BY <1>1
<1> HIDE DEF f, T
<1>8. \E l \in S : f[l] = r + 1
  BY <1>6, <1>7 DEF Surjection
<1> QED
  BY <1>7, <1>8, RankIs

\* Sorted lists the logs of a set, each once, the newer before the older, by rank.
LEMMA SortedIs ==
  ASSUME NEW S \in SUBSET Logs
  PROVE  /\ Sorted(S) \in Seq(Logs) /\ Len(Sorted(S)) = Cardinality(S)
         /\ DOMAIN Sorted(S) = 1..Cardinality(S)
         /\ \A i \in 1..Cardinality(S) : Sorted(S)[i] \in S /\ Rank(S, Sorted(S)[i]) = i - 1
         /\ \A l \in S : Sorted(S)[Rank(S, l) + 1] = l /\ Rank(S, l) + 1 \in 1..Cardinality(S)
         /\ ToSet(Sorted(S)) = S
         /\ \A i, j \in 1..Cardinality(S) : i < j => Newer(Sorted(S)[i], Sorted(S)[j])
<1> DEFINE n == Cardinality(S)
           At(i) == CHOOSE l \in S : Rank(S, l) = i - 1
<1>1. n \in Nat
  BY FiniteLogs
<1>2. \A i \in 1..n : At(i) \in S /\ Rank(S, At(i)) = i - 1
  <2> TAKE i \in 1..n
  <2>1. \E l \in S : Rank(S, l) = i - 1
    BY <1>1, RankTaken
  <2> QED
    BY <2>1
<1>3. Sorted(S) = [i \in 1..n |-> At(i)]
  BY DEF Sorted
<1> HIDE DEF At
<1>4. \A i \in 1..n : Sorted(S)[i] = At(i)
  BY <1>3
<1>5. \A i \in 1..n : Sorted(S)[i] \in S /\ Rank(S, Sorted(S)[i]) = i - 1
  BY <1>2, <1>4
<1>6. Sorted(S) \in [1..n -> S] /\ DOMAIN Sorted(S) = 1..n
  BY <1>2, <1>3
<1>7. Sorted(S) \in Seq(Logs) /\ Len(Sorted(S)) = n
  BY <1>1, <1>6
<1> HIDE DEF n
<1>8. ASSUME NEW l \in S PROVE Sorted(S)[Rank(S, l) + 1] = l /\ Rank(S, l) + 1 \in 1..n
  <2> DEFINE i == Rank(S, l) + 1
  <2>1. i \in 1..n /\ i - 1 = Rank(S, l)
    BY <1>1, RankIs DEF n
  <2> HIDE DEF i
  <2>2. Sorted(S)[i] \in S /\ Rank(S, Sorted(S)[i]) = Rank(S, l)
    BY <1>5, <2>1
  <2>3. \A k, j \in S : Rank(S, k) = Rank(S, j) => k = j
    BY RankIs
  <2>4. Sorted(S)[i] = l
    BY <2>2, <2>3
  <2> QED
    BY <2>1, <2>4 DEF i
<1>9. ToSet(Sorted(S)) = S
  <2>1. ToSet(Sorted(S)) = {Sorted(S)[i] : i \in 1..n}
    BY <1>6 DEF ToSet
  <2> QED
    BY <1>5, <1>8, <2>1
<1>10. ASSUME NEW i \in 1..n, NEW j \in 1..n, i < j PROVE Newer(Sorted(S)[i], Sorted(S)[j])
  <2> DEFINE x == Sorted(S)[i]
             y == Sorted(S)[j]
  <2>1. x \in S /\ y \in S /\ Rank(S, x) < Rank(S, y)
    BY <1>1, <1>5, <1>10
  <2> HIDE DEF x, y
  <2>2. x # y /\ ~Newer(y, x)
    BY <2>1, RankIs
  <2>3. Newer(x, y)
    BY <2>1, <2>2, NewerIsAnOrder
  <2> QED
    BY <2>3 DEF x, y
<1> QED
  BY <1>5, <1>6, <1>7, <1>8, <1>9, <1>10 DEF n

-----------------------------------------------------------------------------
(* Sequences: a slice, and the entries of a cache.                          *)

LEMMA SmallestOfTwo ==
  ASSUME NEW a \in Int, NEW b \in Int
  PROVE  Smallest({a, b}) = IF a <= b THEN a ELSE b
<1> DEFINE m == IF a <= b THEN a ELSE b
<1>1. m \in {a, b} /\ \A y \in {a, b} : m <= y
  OBVIOUS
<1>2. \A x \in {a, b} : (\A y \in {a, b} : x <= y) => x = m
  OBVIOUS
<1> HIDE DEF m
<1>3. Smallest({a, b}) \in {a, b} /\ \A y \in {a, b} : Smallest({a, b}) <= y
  BY <1>1 DEF Smallest
<1> QED
  BY <1>2, <1>3 DEF m

LEMMA SmallestOfThree ==
  ASSUME NEW a \in Int, NEW b \in Int, NEW c \in Int
  PROVE  /\ Smallest({a, b, c}) \in {a, b, c}
         /\ Smallest({a, b, c}) <= a /\ Smallest({a, b, c}) <= b /\ Smallest({a, b, c}) <= c
<1>1. \E x \in {a, b, c} : \A y \in {a, b, c} : x <= y
  <2>1. (a <= b /\ a <= c) \/ (b <= a /\ b <= c) \/ (c <= a /\ c <= b)
    OBVIOUS
  <2> QED
    BY <2>1
<1>2. /\ Smallest({a, b, c}) \in {a, b, c}
      /\ \A y \in {a, b, c} : Smallest({a, b, c}) <= y
  BY <1>1 DEF Smallest
<1> QED
  BY <1>2

\* The entries of a slice are those of the sequence from the place on, as many as are asked for.
LEMMA SliceIs ==
  ASSUME NEW T, NEW q \in Seq(T), NEW c \in Nat, NEW n \in Nat
  PROVE  /\ Slice(q, c, n) \in Seq(T)
         /\ Len(Slice(q, c, n)) = IF c + n <= Len(q) THEN n ELSE IF c <= Len(q) THEN Len(q) - c ELSE 0
         /\ \A i \in 1..Len(Slice(q, c, n)) : c + i \in 1..Len(q) /\ Slice(q, c, n)[i] = q[c + i]
<1> DEFINE l == Len(q)
           m == Smallest({c + n, l})
           d == IF c + n <= l THEN n ELSE IF c <= l THEN l - c ELSE 0
<1>1. l \in Nat /\ \A i \in 1..l : q[i] \in T
  BY ElementOfSeq
<1>2. m = IF c + n <= l THEN c + n ELSE l
  BY <1>1, SmallestOfTwo
<1>3. Slice(q, c, n) = SubSeq(q, c + 1, m)
  BY DEF Slice
<1> HIDE DEF m
<1>4. m \in Int /\ c + 1 \in Int /\ \A i \in (c + 1)..m : i \in 1..l
  BY <1>1, <1>2
<1>5. \A i \in (c + 1)..m : q[i] \in T
  BY <1>1, <1>4
<1>6. /\ SubSeq(q, c + 1, m) \in Seq(T)
      /\ Len(SubSeq(q, c + 1, m)) = IF c + 1 <= m THEN m - (c + 1) + 1 ELSE 0
      /\ \A i \in 1..(m - (c + 1) + 1) : SubSeq(q, c + 1, m)[i] = q[(c + 1) + i - 1]
  BY <1>4, <1>5, SubSeqProperties
<1>7. Len(SubSeq(q, c + 1, m)) = d
  BY <1>1, <1>2, <1>6
<1>8. d \in Nat /\ \A i \in 1..d : i \in 1..(m - (c + 1) + 1) /\ (c + 1) + i - 1 = c + i /\ c + i \in 1..l
  BY <1>1, <1>2
<1> HIDE DEF d, l
<1>9. \A i \in 1..d : SubSeq(q, c + 1, m)[i] = q[c + i]
  BY <1>6, <1>8
<1> QED
  BY <1>3, <1>6, <1>7, <1>8, <1>9 DEF d, l

\* One entry is taken out.
LEMMA RemoveAtIs ==
  ASSUME NEW T, NEW q \in Seq(T), NEW k \in 1..Len(q)
  PROVE  /\ RemoveAt(q, k) \in Seq(T) /\ Len(RemoveAt(q, k)) = Len(q) - 1
         /\ \A i \in 1..(Len(q) - 1) : RemoveAt(q, k)[i] = IF i < k THEN q[i] ELSE q[i + 1]
<1> DEFINE l == Len(q)
           p == SubSeq(q, 1, k - 1)
           r == SubSeq(q, k + 1, l)
<1>1. l \in Nat /\ k \in Int /\ 1 <= k /\ k <= l /\ \A i \in 1..l : q[i] \in T
  BY ElementOfSeq
<1>2. (\A i \in 1..(k - 1) : i \in 1..l) /\ \A i \in (k + 1)..l : i \in 1..l
  BY <1>1
<1>3. (\A i \in 1..(k - 1) : q[i] \in T) /\ \A i \in (k + 1)..l : q[i] \in T
  BY <1>1, <1>2
<1>4. /\ p \in Seq(T) /\ Len(p) = IF 1 <= k - 1 THEN (k - 1) - 1 + 1 ELSE 0
      /\ \A i \in 1..((k - 1) - 1 + 1) : p[i] = q[1 + i - 1]
  BY <1>1, <1>3, SubSeqProperties
<1>5. /\ r \in Seq(T) /\ Len(r) = IF k + 1 <= l THEN l - (k + 1) + 1 ELSE 0
      /\ \A i \in 1..(l - (k + 1) + 1) : r[i] = q[(k + 1) + i - 1]
  BY <1>1, <1>3, SubSeqProperties
<1>6. RemoveAt(q, k) = p \o r
  BY DEF RemoveAt
<1> HIDE DEF p, r
<1>7. Len(p) = k - 1 /\ Len(r) = l - k
  BY <1>1, <1>4, <1>5
<1>8. /\ p \o r \in Seq(T) /\ Len(p \o r) = Len(p) + Len(r)
      /\ \A i \in 1..(Len(p) + Len(r)) : (p \o r)[i] = IF i <= Len(p) THEN p[i] ELSE r[i - Len(p)]
  BY <1>4, <1>5, ConcatProperties
<1>9. \A i \in 1..(l - 1) : IF i < k
                            THEN i <= k - 1 /\ i \in 1..((k - 1) - 1 + 1) /\ 1 + i - 1 = i
                            ELSE /\ ~(i <= k - 1) /\ i - (k - 1) \in 1..(l - (k + 1) + 1)
                                 /\ (k + 1) + (i - (k - 1)) - 1 = i + 1
  BY <1>1
<1>10. Len(p) + Len(r) = l - 1
  BY <1>1, <1>7
<1>11. \A i \in 1..(l - 1) : (p \o r)[i] = IF i < k THEN q[i] ELSE q[i + 1]
  <2> TAKE i \in 1..(l - 1)
  <2>1. (p \o r)[i] = IF i <= k - 1 THEN p[i] ELSE r[i - (k - 1)]
    BY <1>7, <1>8, <1>10
  <2>2. CASE i < k
    BY <1>4, <1>9, <2>1, <2>2
  <2>3. CASE ~(i < k)
    BY <1>5, <1>9, <2>1, <2>3
  <2> QED
    BY <2>2, <2>3
<1> QED
  BY <1>6, <1>8, <1>10, <1>11

\* A cache that has one entry of a window.
Keyed(q) ==
  /\ q \in Seq(Result)
  /\ \A i, j \in 1..Len(q) : q[i].window = q[j].window => i = j

LEMMA Entries ==
  ASSUME NEW q \in Seq(Result)
  PROVE  /\ Len(q) \in Nat /\ DOMAIN q = 1..Len(q) /\ ToSet(q) = {q[i] : i \in 1..Len(q)}
         /\ \A i \in 1..Len(q) : q[i] \in Result
         /\ \A e \in ToSet(q) : e \in Result
<1>1. Len(q) \in Nat /\ DOMAIN q = 1..Len(q)
  OBVIOUS
<1>2. \A i \in 1..Len(q) : q[i] \in Result
  BY ElementOfSeq
<1> QED
  BY <1>1, <1>2 DEF ToSet

\* What is left when the entry of a window is deleted.
LEMMA WithoutIs ==
  ASSUME NEW k, NEW w, Keyed(cache[k])
  PROVE  /\ Keyed(Without(k, w))
         /\ \A e \in ToSet(Without(k, w)) : e \in ToSet(cache[k]) /\ e.window # w
         /\ Len(Without(k, w)) <= Len(cache[k])
         /\ (\E e \in ToSet(cache[k]) : e.window = w) => Len(Without(k, w)) = Len(cache[k]) - 1
<1> DEFINE q == cache[k]
           l == Len(q)
           o == Without(k, w)
<1>1. q \in Seq(Result) /\ \A i, j \in 1..l : q[i].window = q[j].window => i = j
  BY DEF Keyed
<1>2. l \in Nat /\ DOMAIN q = 1..l /\ ToSet(q) = {q[i] : i \in 1..l}
  BY <1>1, Entries
<1>3. CASE ~ \E i \in 1..l : q[i].window = w
  <2>1. o = q
    BY <1>2, <1>3 DEF Without
  <2> QED
    BY <1>1, <1>2, <1>3, <2>1 DEF Keyed
<1>4. CASE \E i \in 1..l : q[i].window = w
  <2> DEFINE n == CHOOSE i \in DOMAIN q : q[i].window = w
  <2>1. o = RemoveAt(q, n) /\ n \in 1..l /\ q[n].window = w
    BY <1>2, <1>4 DEF Without
  <2> HIDE DEF n
  <2>2. /\ o \in Seq(Result) /\ Len(o) = l - 1
        /\ \A i \in 1..(l - 1) : o[i] = IF i < n THEN q[i] ELSE q[i + 1]
    <3> HIDE DEF o, q
    <3>1. n \in 1..Len(q) /\ q \in Seq(Result)
      BY <1>1, <2>1
    <3>2. /\ RemoveAt(q, n) \in Seq(Result) /\ Len(RemoveAt(q, n)) = Len(q) - 1
          /\ \A i \in 1..(Len(q) - 1) : RemoveAt(q, n)[i] = IF i < n THEN q[i] ELSE q[i + 1]
      BY <3>1, RemoveAtIs
    <3> QED
      BY <2>1, <3>2
  <2> HIDE DEF o
  <2> DEFINE j(i) == IF i < n THEN i ELSE i + 1
  <2>3. \A i \in 1..(l - 1) : j(i) \in 1..l /\ j(i) # n
    BY <1>2, <2>1
  <2>4. \A i, g \in 1..(l - 1) : j(i) = j(g) => i = g
    BY <1>2, <2>1
  <2>5. \A i \in 1..(l - 1) : o[i] = q[j(i)]
    BY <2>2
  <2> HIDE DEF j, l, q
  <2>6. \A i \in 1..(l - 1) : o[i] = q[j(i)] /\ q[j(i)].window # w
    BY <1>1, <2>1, <2>3, <2>5
  <2>7. \A i, g \in 1..(l - 1) : o[i].window = o[g].window => i = g
    BY <1>1, <2>3, <2>4, <2>5
  <2>8. Keyed(o)
    BY <2>2, <2>7 DEF Keyed
  <2>9. ToSet(o) = {o[i] : i \in 1..(l - 1)}
    BY <2>2, Entries
  <2>10. \A e \in ToSet(o) : e \in ToSet(q) /\ e.window # w
    BY <1>2, <2>3, <2>6, <2>9
  <2>11. Len(o) <= l
    BY <1>2, <2>2
  <2> QED
    BY <2>2, <2>8, <2>10, <2>11 DEF o, l, q
<1> QED
  BY <1>3, <1>4

\* An entry is added at the recent end.
LEMMA AppendIs ==
  ASSUME NEW q, Keyed(q), NEW r \in Result, \A e \in ToSet(q) : e.window # r.window
  PROVE  /\ Keyed(Append(q, r)) /\ Len(Append(q, r)) = Len(q) + 1
         /\ \A e \in ToSet(Append(q, r)) : e = r \/ e \in ToSet(q)
<1> DEFINE a == Append(q, r)
           l == Len(q)
<1>1. q \in Seq(Result) /\ l \in Nat /\ ToSet(q) = {q[i] : i \in 1..l}
  BY Entries DEF Keyed
<1>2. a \in Seq(Result) /\ Len(a) = l + 1 /\ (\A i \in 1..l : a[i] = q[i]) /\ a[l + 1] = r
  BY <1>1, AppendProperties
<1>3. ToSet(a) = {a[i] : i \in 1..(l + 1)}
  BY <1>2, Entries
<1>4. \A i \in 1..(l + 1) : i \in 1..l \/ i = l + 1
  BY <1>1
<1>5. \A i, j \in 1..l : q[i].window = q[j].window => i = j
  BY DEF Keyed
<1> HIDE DEF a, l
<1>6. \A i \in 1..l : q[i].window # r.window
  BY <1>1
<1>7. \A i, j \in 1..(l + 1) : a[i].window = a[j].window => i = j
  BY <1>2, <1>4, <1>5, <1>6
<1>8. Keyed(a)
  BY <1>2, <1>7 DEF Keyed
<1>9. \A e \in ToSet(a) : e = r \/ e \in ToSet(q)
  BY <1>1, <1>2, <1>3, <1>4
<1> QED
  BY <1>2, <1>8, <1>9 DEF a, l

LEMMA TailIs ==
  ASSUME NEW q, Keyed(q), Len(q) > 0
  PROVE  /\ Keyed(Tail(q)) /\ Len(Tail(q)) = Len(q) - 1
         /\ \A e \in ToSet(Tail(q)) : e \in ToSet(q)
<1> DEFINE t == Tail(q)
           l == Len(q)
<1>1. q \in Seq(Result) /\ l \in Nat /\ ToSet(q) = {q[i] : i \in 1..l}
  BY Entries DEF Keyed
<1>2. t \in Seq(Result) /\ Len(t) = l - 1 /\ \A i \in 1..(l - 1) : t[i] = q[i + 1]
  BY <1>1, HeadTailProperties
<1>3. ToSet(t) = {t[i] : i \in 1..(l - 1)}
  BY <1>2, Entries
<1>4. \A i \in 1..(l - 1) : i + 1 \in 1..l
  BY <1>1
<1>5. \A i, j \in 1..(l - 1) : i + 1 = j + 1 => i = j
  BY <1>1
<1>6. \A i, j \in 1..l : q[i].window = q[j].window => i = j
  BY DEF Keyed
<1> HIDE DEF t, l
<1>7. \A i, j \in 1..(l - 1) : t[i].window = t[j].window => i = j
  BY <1>2, <1>4, <1>5, <1>6
<1>8. Keyed(t)
  BY <1>2, <1>7 DEF Keyed
<1>9. \A e \in ToSet(t) : e \in ToSet(q)
  BY <1>1, <1>2, <1>3, <1>4
<1> QED
  BY <1>2, <1>8, <1>9 DEF t, l

\* What a write and a read leave in a cache: the entry, and others of other windows.
Holds(q, k, r) ==
  /\ Keyed(q) /\ Len(q) <= CacheCap
  /\ \A e \in ToSet(q) : e = r \/ (e \in ToSet(cache[k]) /\ e.window # r.window)

LEMMA CachedIs ==
  ASSUME NEW k, Keyed(cache[k]), Len(cache[k]) <= CacheCap, NEW r \in Result
  PROVE  Holds(Cached(k, r), k, r)
<1> DEFINE o == Without(k, r.window)
           a == Append(o, r)
<1>1. Keyed(o) /\ Len(o) <= CacheCap /\ CacheCap \in Nat /\ CacheCap > 0 /\ Len(o) \in Nat
  <2>1. Len(o) \in Nat /\ Len(cache[k]) \in Nat
    BY WithoutIs, Entries DEF Keyed
  <2>2. CacheCap \in Nat /\ CacheCap > 0
    BY SizesAssumption
  <2> QED
    BY <2>1, <2>2, WithoutIs
<1>2. \A e \in ToSet(o) : e \in ToSet(cache[k]) /\ e.window # r.window
  BY WithoutIs
<1> HIDE DEF o
<1>3. Keyed(a) /\ Len(a) = Len(o) + 1 /\ \A e \in ToSet(a) : e = r \/ e \in ToSet(o)
  BY <1>1, <1>2, AppendIs
<1>4. Cached(k, r) = IF Len(a) > CacheCap THEN Tail(a) ELSE a
  BY DEF Cached, o
<1> HIDE DEF a
<1>5. CASE Len(a) > CacheCap
  <2>1. Keyed(Tail(a)) /\ Len(Tail(a)) = Len(a) - 1 /\ \A e \in ToSet(Tail(a)) : e \in ToSet(a)
    BY <1>1, <1>3, <1>5, TailIs
  <2> QED
    BY <1>1, <1>2, <1>3, <1>4, <1>5, <2>1 DEF Holds
<1>6. CASE ~(Len(a) > CacheCap)
  BY <1>1, <1>2, <1>3, <1>4, <1>6 DEF Holds
<1> QED
  BY <1>5, <1>6

LEMMA TouchedIs ==
  ASSUME NEW k, Keyed(cache[k]), Len(cache[k]) <= CacheCap, NEW r \in ToSet(cache[k])
  PROVE  Holds(Append(Without(k, r.window), r), k, r)
<1> DEFINE o == Without(k, r.window)
           a == Append(o, r)
<1>1. Keyed(o) /\ Len(o) = Len(cache[k]) - 1 /\ Len(cache[k]) \in Nat /\ CacheCap \in Nat
  <2>1. Len(cache[k]) \in Nat /\ CacheCap \in Nat
    BY Entries, SizesAssumption DEF Keyed
  <2> QED
    BY <2>1, WithoutIs
<1>2. r \in Result /\ \A e \in ToSet(o) : e \in ToSet(cache[k]) /\ e.window # r.window
  BY WithoutIs, Entries DEF Keyed
<1> HIDE DEF o
<1>3. Keyed(a) /\ Len(a) = Len(o) + 1 /\ \A e \in ToSet(a) : e = r \/ e \in ToSet(o)
  BY <1>1, <1>2, AppendIs
<1> QED
  BY <1>1, <1>2, <1>3 DEF Holds, o

-----------------------------------------------------------------------------
(* What the operations of a scan do to it.                                  *)

\* The scan t differs from s at most in what it has found and kept, in its calls and its coverage.
SameRange(s, t) ==
  /\ t \in Scan /\ t.pc = s.pc /\ t.kind = s.kind /\ t.window = s.window /\ t.cursor = s.cursor
  /\ t.latest = s.latest /\ t.upper = s.upper /\ t.chunk = s.chunk /\ t.ceiling = s.ceiling

LEMMA SmallConstants ==
  /\ MaxCalls \in Nat /\ MaxCalls > 0 /\ Queries \in Nat /\ Queries > 0 /\ HistoryCap \in Nat
  /\ Limit \in Nat /\ Limit > 0 /\ MinChunk \in Nat /\ MinChunk > 0 /\ InitialChunk \in Nat
  /\ MaxChunk \in Nat /\ MinChunk <= InitialChunk /\ InitialChunk <= MaxChunk /\ MaxBlock \in Nat
BY SizesAssumption

LEMMA DispatchedIs ==
  ASSUME NEW s \in Scan, ~Spent(s)
  PROVE  /\ SameRange(s, Dispatched(s)) /\ Dispatched(s).found = s.found
         /\ Dispatched(s).history = s.history /\ Dispatched(s).cut = s.cut
         /\ Dispatched(s).pairs = s.pairs /\ Dispatched(s).coverage = s.coverage
         /\ Dispatched(s).calls = s.calls + IF s.kind = "transfers" THEN Queries ELSE 1
<1> DEFINE n == s.calls + IF s.kind = "transfers" THEN Queries ELSE 1
<1>1. s.calls \in Nat /\ s.calls < MaxCalls
  BY SmallConstants DEF Spent, Scan
<1>2. n \in 0..(MaxCalls + Queries - 1)
  BY <1>1, SmallConstants
<1>3. Dispatched(s) = [s EXCEPT !.calls = n]
  BY DEF Dispatched
<1> HIDE DEF n
<1>4. SameRange(s, [s EXCEPT !.calls = n]) /\ [s EXCEPT !.calls = n].calls = n
  BY <1>2 DEF SameRange, Scan
<1>5. /\ [s EXCEPT !.calls = n].found = s.found /\ [s EXCEPT !.calls = n].history = s.history
      /\ [s EXCEPT !.calls = n].cut = s.cut /\ [s EXCEPT !.calls = n].pairs = s.pairs
      /\ [s EXCEPT !.calls = n].coverage = s.coverage
  BY DEF Scan
<1> QED
  BY <1>3, <1>4, <1>5 DEF n

LEMMA RecordedIs ==
  ASSUME NEW s \in Scan, NEW S \in SUBSET Logs
  PROVE  /\ SameRange(s, Recorded(s, S)) /\ Recorded(s, S).found = s.found
         /\ Recorded(s, S).history = s.history /\ Recorded(s, S).cut = s.cut
         /\ Recorded(s, S).pairs = s.pairs \cup {l.p : l \in S}
         /\ Recorded(s, S).coverage = s.coverage /\ Recorded(s, S).calls = s.calls
<1> DEFINE P == s.pairs \cup {l.p : l \in S}
<1>1. P \in SUBSET Pairs
  BY LogTypes DEF Scan
<1>2. Recorded(s, S) = [s EXCEPT !.pairs = P]
  BY DEF Recorded
<1> HIDE DEF P
<1>3. SameRange(s, [s EXCEPT !.pairs = P]) /\ [s EXCEPT !.pairs = P].pairs = P
  BY <1>1 DEF SameRange, Scan
<1>4. /\ [s EXCEPT !.pairs = P].found = s.found /\ [s EXCEPT !.pairs = P].history = s.history
      /\ [s EXCEPT !.pairs = P].cut = s.cut /\ [s EXCEPT !.pairs = P].coverage = s.coverage
      /\ [s EXCEPT !.pairs = P].calls = s.calls
  BY DEF Scan
<1> QED
  BY <1>2, <1>3, <1>4 DEF P

\* The events of a step that are not kept yet, and how many of them there is room for.
Unkept(s, S) == S \ ToSet(s.history)

Fitting(s, S) ==
  LET c == Cardinality(Unkept(s, S))
      n == Len(s.history)
  IN  IF n + c <= HistoryCap THEN c ELSE HistoryCap - n

\* They follow those that are kept, newest first, up to the cap; when one of them finds no room
\* the history says that it was cut.
LEMMA FlushedIs ==
  ASSUME NEW s \in Scan, Len(s.history) <= HistoryCap, NEW S \in SUBSET Logs
  PROVE  LET E == Unkept(s, S)
             n == Len(s.history)
             m == Fitting(s, S)
             t == Flushed(s, S)
         IN  /\ SameRange(s, t) /\ t.found = s.found /\ t.pairs = s.pairs
             /\ t.coverage = s.coverage /\ t.calls = s.calls
             /\ n \in Nat /\ m \in 0..Cardinality(E) /\ E \in SUBSET Logs
             /\ t.history \in Seq(Logs) /\ Len(t.history) = n + m /\ n + m <= HistoryCap
             /\ \A i \in 1..n : t.history[i] = s.history[i]
             /\ \A i \in 1..m : t.history[n + i] = Sorted(E)[i]
             /\ t.cut <=> (s.cut \/ m # Cardinality(E))
             /\ m # Cardinality(E) => n + m = HistoryCap
<1> DEFINE E == Unkept(s, S)
           n == Len(s.history)
           m == Fitting(s, S)
           t == Flushed(s, S)
           c == Cardinality(E)
           room == HistoryCap - n
           q == Sorted(E)
           o == s.history
           w == Slice(q, 0, room)
           H == o \o w
           C == s.cut \/ Len(q) > room
<1>1. o \in Seq(Logs) /\ n \in Nat /\ n = Len(o) /\ E \in SUBSET Logs /\ s.cut \in BOOLEAN
  BY DEF Scan, Unkept
<1>2. c \in Nat /\ room \in Nat
  BY <1>1, FiniteLogs, SmallConstants
<1>3. q \in Seq(Logs) /\ Len(q) = c
  BY <1>1, SortedIs
<1>4. t = [s EXCEPT !.history = H, !.cut = C]
  BY DEF Flushed, Unkept
<1>5. m = IF n + c <= HistoryCap THEN c ELSE HistoryCap - n
  BY DEF Fitting
<1> HIDE DEF c, q, o, m, n
<1>6. m \in 0..c /\ (m = IF room <= c THEN room ELSE c) /\ n + m <= HistoryCap /\ (m # c => n + m = HistoryCap)
  BY <1>1, <1>2, <1>5, SmallConstants DEF room
<1>7. C <=> (s.cut \/ m # c)
  BY <1>1, <1>2, <1>3, <1>5, SmallConstants DEF room
<1>8. 0 \in Nat /\ (\A i \in Nat : 0 + i = i)
  OBVIOUS
<1>9. /\ w \in Seq(Logs)
      /\ Len(w) = IF 0 + room <= Len(q) THEN room ELSE IF 0 <= Len(q) THEN Len(q) - 0 ELSE 0
      /\ \A i \in 1..Len(w) : w[i] = q[0 + i]
  <2> HIDE DEF w, room
  <2>1. \A k \in Nat :
          /\ Slice(q, 0, k) \in Seq(Logs)
          /\ Len(Slice(q, 0, k)) = IF 0 + k <= Len(q) THEN k ELSE IF 0 <= Len(q) THEN Len(q) - 0 ELSE 0
          /\ \A i \in 1..Len(Slice(q, 0, k)) : 0 + i \in 1..Len(q) /\ Slice(q, 0, k)[i] = q[0 + i]
    BY <1>3, <1>8, SliceIs, Zenon
  <2> QED
    BY <1>2, <2>1 DEF w
<1> HIDE DEF w, C
<1>10. Len(w) = m
  BY <1>2, <1>3, <1>6, <1>9
<1>11. \A i \in 1..m : w[i] = q[i]
  <2>1. \A i \in 1..m : 0 + i = i
    BY <1>6
  <2> QED
    BY <1>9, <1>10, <2>1
<1>12. /\ H \in Seq(Logs) /\ Len(H) = Len(o) + Len(w)
       /\ \A i \in 1..(Len(o) + Len(w)) : H[i] = IF i <= Len(o) THEN o[i] ELSE w[i - Len(o)]
  BY <1>1, <1>9, ConcatProperties
<1> HIDE DEF H
<1>13. Len(H) = n + m /\ \A i \in 1..(n + m) : H[i] = IF i <= n THEN o[i] ELSE w[i - n]
  BY <1>1, <1>10, <1>12
<1>14. C \in BOOLEAN
  BY <1>1 DEF C
<1>15. SameRange(s, t) /\ t.history = H /\ t.cut = C
  BY <1>4, <1>12, <1>14 DEF SameRange, Scan
<1>16. t.found = s.found /\ t.pairs = s.pairs /\ t.coverage = s.coverage /\ t.calls = s.calls
  BY <1>4 DEF Scan
<1>17. \A i \in 1..n : i \in 1..(n + m) /\ i <= n
  BY <1>1, <1>2, <1>6
<1>18. \A i \in 1..m : n + i \in 1..(n + m) /\ ~(n + i <= n) /\ (n + i) - n = i
  BY <1>1, <1>2, <1>6
<1>19. \A i \in 1..n : H[i] = o[i]
  BY <1>13, <1>17
<1>20. \A i \in 1..m : H[n + i] = q[i]
  <2> TAKE i \in 1..m
  <2>1. H[n + i] = w[(n + i) - n]
    BY <1>13, <1>18
  <2> QED
    BY <1>11, <1>18, <2>1
<1> QED
  BY <1>1, <1>6, <1>7, <1>12, <1>13, <1>15, <1>16, <1>19, <1>20 DEF c, q, o, m, n

\* What a flush has kept, as a set.
LEMMA FlushedKeeps ==
  ASSUME NEW s \in Scan, Len(s.history) <= HistoryCap, NEW S \in SUBSET Logs
  PROVE  /\ ToSet(s.history) \subseteq ToSet(Flushed(s, S).history)
         /\ ~Flushed(s, S).cut => ~s.cut /\ S \subseteq ToSet(Flushed(s, S).history)
<1> DEFINE E == Unkept(s, S)
           n == Len(s.history)
           c == Cardinality(E)
           m == Fitting(s, S)
           t == Flushed(s, S)
<1>1. /\ n \in Nat /\ m \in 0..c /\ E \in SUBSET Logs
      /\ t.history \in Seq(Logs) /\ Len(t.history) = n + m
      /\ \A i \in 1..n : t.history[i] = s.history[i]
      /\ \A i \in 1..m : t.history[n + i] = Sorted(E)[i]
      /\ t.cut <=> (s.cut \/ m # c)
  BY FlushedIs
<1>2. s.history \in Seq(Logs)
  BY DEF Scan
<1>3. c \in Nat
  BY <1>1, FiniteLogs
<1>4. ToSet(Sorted(E)) = E /\ DOMAIN Sorted(E) = 1..c
  BY <1>1, SortedIs
<1> HIDE DEF E, m, t, c
<1>5. ToSet(s.history) = {s.history[i] : i \in 1..n}
  BY <1>2 DEF ToSet
<1>6. ToSet(t.history) = {t.history[i] : i \in 1..(n + m)}
  <2> DEFINE H == t.history
  <2>1. H \in Seq(Logs) /\ Len(H) = n + m
    BY <1>1
  <2> HIDE DEF H
  <2>2. DOMAIN H = 1..(n + m)
    BY <2>1
  <2>3. ToSet(H) = {H[i] : i \in 1..(n + m)}
    BY <2>2, Zenon DEF ToSet
  <2> QED
    BY <2>3, Zenon DEF H
<1>7. E = {Sorted(E)[i] : i \in 1..c}
  BY <1>4 DEF ToSet
<1>8. (\A i \in 1..n : i \in 1..(n + m)) /\ \A i \in 1..m : n + i \in 1..(n + m)
  BY <1>1
<1> HIDE DEF n
<1>9. ToSet(s.history) \subseteq ToSet(t.history)
  BY <1>1, <1>5, <1>6, <1>8
<1>10. ASSUME ~t.cut PROVE ~s.cut /\ S \subseteq ToSet(t.history)
  <2>1. ~s.cut /\ m = c
    BY <1>1, <1>10
  <2>2. E \subseteq ToSet(t.history)
    BY <1>1, <1>6, <1>7, <1>8, <2>1
  <2> QED
    BY <1>9, <2>1, <2>2 DEF E, Unkept
<1> QED
  BY <1>9, <1>10 DEF t

-----------------------------------------------------------------------------
(* The inductive invariant of honest answers.                               *)

\* The logs of the blocks that a sweep has behind it.
Done(s) == {l \in Logs : s.upper < l.n /\ l.n <= s.latest}

\* A scan has all the logs of a set, or its history says that it is cut.
Collected(s, N) ==
  IF s.kind = "transfers" THEN N \subseteq s.found
  ELSE {l.p : l \in N} \subseteq s.pairs /\ (s.cut \/ N \subseteq ToSet(s.history))

Truthful(k, r) ==
  r.coverage = "complete" =>
    /\ k = "transfers" \/ ~r.cut => InWindow(r) \subseteq ToSet(r.rows)
    /\ k = "approvals" => {l.p : l \in InWindow(r)} \subseteq r.pairs

Blank(s) == s.found = {} /\ s.history = <<>> /\ s.pairs = {} /\ ~s.cut

Typed(s) ==
  /\ s \in Scan /\ s.chunk <= MaxChunk /\ Len(s.history) <= HistoryCap
  /\ s.pc # "idle" => s.window \in Windows

ScanOK(s, top) ==
  /\ Typed(s)
  /\ s.pc \in {"sweep", "read"} => s.latest \in Blocks /\ s.latest <= top
  /\ s.pc = "head" => Blank(s)
  /\ s.pc = "sweep" => Collected(s, Done(s))
  /\ s.pc = "read" => s.kind = "approvals" /\ Truthful(s.kind, Answer(s))

CachesOK ==
  /\ cache \in [Kinds -> Seq(Result)]
  /\ \A k \in Kinds : /\ Keyed(cache[k]) /\ Len(cache[k]) <= CacheCap
                      /\ \A e \in ToSet(cache[k]) : Truthful(k, e)

HonestInv ==
  /\ head \in Blocks /\ CachesOK /\ view \in View
  /\ scan \in [Handlers -> Scan] /\ \A h \in Handlers : ScanOK(scan[h], head)

\* A request that is not under way.
LEMMA IdleOK ==
  /\ Idle \in Scan /\ Idle.pc = "idle"
  /\ \A top : ScanOK(Idle, top)
<1>1. Idle \in Scan
  <2>1. 0 \in 0..(MaxCalls + Queries - 1)
    BY SmallConstants
  <2>2. <<>> \in Seq(Logs)
    OBVIOUS
  <2> QED
    BY <2>1, <2>2 DEF Idle, Scan, Kinds, Coverages
<1>2. Idle.pc = "idle" /\ Idle.chunk = 0 /\ Idle.history = <<>>
  BY DEF Idle
<1>3. Idle.chunk <= MaxChunk /\ Len(Idle.history) <= HistoryCap
  BY <1>2, SmallConstants
<1> QED
  BY <1>1, <1>2, <1>3 DEF ScanOK, Typed

LEMMA AnswerIs ==
  ASSUME NEW s \in Scan, s.window \in Windows
  PROVE  /\ Answer(s) \in Result /\ Answer(s).window = s.window /\ Answer(s).base = s.latest
         /\ Answer(s).coverage = s.coverage /\ Answer(s).cut = s.cut /\ Answer(s).pairs = s.pairs
         /\ Answer(s).rows = IF s.kind = "transfers" THEN Sorted(s.found) ELSE s.history
<1> DEFINE R == IF s.kind = "transfers" THEN Sorted(s.found) ELSE s.history
<1>1. R \in Seq(Logs)
  <2>1. s.found \in SUBSET Logs /\ s.history \in Seq(Logs)
    BY DEF Scan
  <2>2. Sorted(s.found) \in Seq(Logs)
    BY <2>1, SortedIs
  <2> QED
    BY <2>1, <2>2
<1>2. Answer(s) = [window |-> s.window, base |-> s.latest, coverage |-> s.coverage, rows |-> R,
                   cut |-> s.cut, pairs |-> s.pairs, fresh |-> TRUE]
  BY DEF Answer
<1> HIDE DEF R
<1>3. Answer(s) \in Result
  BY <1>1, <1>2 DEF Result, Scan
<1> QED
  BY <1>2, <1>3 DEF R

\* A page of the reader is well typed.
LEMMA ShownIs ==
  ASSUME view \in View, NEW r \in Result, NEW c \in Nat
  PROVE  Shown(r, c) \in View
<1> DEFINE N == IF c + Limit < Len(r.rows) THEN c + Limit ELSE None
           S == view.shown \cup ToSet(Slice(r.rows, c, Limit))
           F == IF c = 0 THEN r.base ELSE view.first
           W == view.whole /\ r.coverage = "complete"
<1>1. r.rows \in Seq(Logs) /\ r.base \in Blocks \cup {None}
  BY DEF Result
<1>2. N \in Nat \cup {None}
  BY <1>1, SmallConstants
<1>3. S \in SUBSET Logs
  <2> DEFINE q == Slice(r.rows, c, Limit)
  <2>1. q \in Seq(Logs)
    BY <1>1, SliceIs, SmallConstants
  <2>2. \A i \in 1..Len(q) : q[i] \in Logs
    BY <2>1, ElementOfSeq
  <2>3. ToSet(q) = {q[i] : i \in 1..Len(q)}
    BY <2>1 DEF ToSet
  <2> QED
    BY <2>2, <2>3 DEF View
<1>4. F \in Blocks \cup {None} /\ W \in BOOLEAN
  BY <1>1 DEF View
<1>5. Shown(r, c) = [asked |-> FALSE, next |-> N, shown |-> S, first |-> F, last |-> r.base, whole |-> W]
  BY DEF Shown
<1> HIDE DEF N, S, F, W
<1> QED
  BY <1>1, <1>2, <1>3, <1>4, <1>5 DEF View

\* The scan of one request changes.
LEMMA GoesKeeps ==
  ASSUME HonestInv, NEW h \in Handlers, NEW s, ScanOK(s, head), Goes(h, s)
  PROVE  HonestInv'
<1>1. scan' = [scan EXCEPT ![h] = s] /\ UNCHANGED <<head, cache, view>> /\ s \in Scan
  BY DEF Goes, ScanOK, Typed
<1>2. scan' \in [Handlers -> Scan] /\ \A g \in Handlers : scan'[g] = IF g = h THEN s ELSE scan[g]
  BY <1>1 DEF HonestInv
<1>3. \A g \in Handlers : ScanOK(scan'[g], head)
  BY <1>2 DEF HonestInv
<1>4. CachesOK'
  BY <1>1 DEF HonestInv, CachesOK, Keyed
<1> QED
  BY <1>1, <1>2, <1>3, <1>4 DEF HonestInv

\* One cache takes an entry.
LEMMA HoldsKeeps ==
  ASSUME CachesOK, NEW k \in Kinds, NEW q, NEW r \in Result, Holds(q, k, r), Truthful(k, r),
         cache' = [cache EXCEPT ![k] = q]
  PROVE  CachesOK'
<1>1. q \in Seq(Result) /\ Keyed(q) /\ Len(q) <= CacheCap
  BY DEF Holds, Keyed
<1>2. \A e \in ToSet(q) : Truthful(k, e)
  BY DEF Holds, CachesOK
<1>3. \A j \in Kinds : cache'[j] = IF j = k THEN q ELSE cache[j]
  BY DEF CachesOK
<1>4. cache' \in [Kinds -> Seq(Result)]
  BY <1>1 DEF CachesOK
<1>5. ASSUME NEW j \in Kinds
      PROVE  /\ Keyed(cache'[j]) /\ Len(cache'[j]) <= CacheCap
             /\ \A e \in ToSet(cache'[j]) : Truthful(j, e)
  <2>1. CASE j = k
    BY <1>1, <1>2, <1>3, <2>1
  <2>2. CASE j # k
    BY <1>3, <2>2 DEF CachesOK
  <2> QED
    BY <2>1, <2>2
<1> QED
  BY <1>4, <1>5 DEF CachesOK

LEMMA RepliesKeeps ==
  ASSUME HonestInv, NEW h \in Handlers, NEW r \in Result, Truthful(scan[h].kind, r), Replies(h, r)
  PROVE  HonestInv'
<1> DEFINE k == scan[h].kind
           c == scan[h].cursor
<1>1. scan[h] \in Scan
  BY DEF HonestInv
<1>2. k \in Kinds /\ c \in Nat \cup {None}
  BY <1>1 DEF Scan
<1>3. /\ cache' = [cache EXCEPT ![k] = Cached(k, r)] /\ scan' = [scan EXCEPT ![h] = Idle]
      /\ view' = (IF c = None THEN view ELSE Shown(r, c)) /\ head' = head
  BY DEF Replies
<1>4. Holds(Cached(k, r), k, r)
  BY <1>2, CachedIs DEF HonestInv, CachesOK
<1> HIDE DEF k, c
<1>5. CachesOK'
  BY <1>2, <1>3, <1>4, HoldsKeeps DEF HonestInv, k
<1>6. view' \in View
  BY <1>2, <1>3, ShownIs DEF HonestInv
<1>7. scan' \in [Handlers -> Scan] /\ \A g \in Handlers : ScanOK(scan'[g], head)
  BY <1>3, IdleOK DEF HonestInv
<1> QED
  BY <1>3, <1>5, <1>6, <1>7 DEF HonestInv

LEMMA FailsKeeps ==
  ASSUME HonestInv, NEW h \in Handlers, Fails(h)
  PROVE  HonestInv'
<1>1. /\ scan' = [scan EXCEPT ![h] = Idle] /\ UNCHANGED <<head, cache>>
      /\ view' = view \/ view' = [view EXCEPT !.asked = FALSE]
  BY DEF Fails
<1>2. view' \in View
  BY <1>1 DEF HonestInv, View
<1>3. scan' \in [Handlers -> Scan] /\ \A g \in Handlers : ScanOK(scan'[g], head)
  BY <1>1, IdleOK DEF HonestInv
<1>4. CachesOK'
  BY <1>1 DEF HonestInv, CachesOK, Keyed
<1> QED
  BY <1>1, <1>2, <1>3, <1>4 DEF HonestInv

\* A scan that begins.
Begun(k, w, c) == [Idle EXCEPT !.pc = "head", !.kind = k, !.window = w, !.cursor = c]

LEMMA BegunIs ==
  ASSUME NEW k \in Kinds, NEW w \in Windows, NEW c \in Nat \cup {None}
  PROVE  /\ Begun(k, w, c) \in Scan /\ \A top : ScanOK(Begun(k, w, c), top)
         /\ Begun(k, w, c).pc = "head" /\ Begun(k, w, c).kind = k /\ Begun(k, w, c).window = w
         /\ Begun(k, w, c).cursor = c /\ Begun(k, w, c).calls = 0
<1> DEFINE s == Begun(k, w, c)
<1>1. s \in Scan /\ s.pc = "head" /\ s.kind = k /\ s.window = w /\ s.cursor = c
  BY IdleOK DEF Begun, Scan
<1>2. Idle.chunk = 0 /\ Idle.history = <<>> /\ Idle.found = {} /\ Idle.pairs = {} /\ ~Idle.cut /\ Idle.calls = 0
  BY DEF Idle
<1>3. s.chunk = 0 /\ s.history = <<>> /\ s.found = {} /\ s.pairs = {} /\ ~s.cut /\ s.calls = 0
  BY <1>2, IdleOK DEF Begun, Scan
<1> HIDE DEF s
<1>4. s.chunk <= MaxChunk /\ Len(s.history) <= HistoryCap
  BY <1>3, SmallConstants
<1>5. \A top : ScanOK(s, top)
  BY <1>1, <1>3, <1>4 DEF ScanOK, Typed, Blank
<1> QED
  BY <1>1, <1>3, <1>5 DEF s

\* The cache of a kind loses the entry of a window, or stays.
LEMMA LosesKeeps ==
  ASSUME CachesOK, NEW k \in Kinds, NEW w,
         \/ cache' = cache \/ cache' = [cache EXCEPT ![k] = Without(k, w)]
  PROVE  CachesOK'
<1>1. CASE cache' = cache
  BY <1>1 DEF CachesOK, Keyed
<1>2. CASE cache' = [cache EXCEPT ![k] = Without(k, w)]
  <2> DEFINE q == Without(k, w)
  <2>1. Keyed(q) /\ Len(q) <= CacheCap /\ \A e \in ToSet(q) : e \in ToSet(cache[k])
    <3>1. Keyed(cache[k]) /\ Len(cache[k]) <= CacheCap
      BY DEF CachesOK
    <3>2. Keyed(q) /\ Len(q) <= Len(cache[k]) /\ \A e \in ToSet(q) : e \in ToSet(cache[k])
      BY <3>1, WithoutIs
    <3>3. Len(q) \in Nat /\ Len(cache[k]) \in Nat /\ CacheCap \in Nat
      BY <3>1, <3>2, Entries, SizesAssumption DEF Keyed
    <3> HIDE DEF q
    <3> QED
      BY <3>1, <3>2, <3>3
  <2> HIDE DEF q
  <2>2. \A j \in Kinds : cache'[j] = IF j = k THEN q ELSE cache[j]
    BY <1>2 DEF CachesOK, q
  <2>3. cache' \in [Kinds -> Seq(Result)]
    BY <1>2, <2>1 DEF CachesOK, Keyed, q
  <2>4. ASSUME NEW j \in Kinds
        PROVE  /\ Keyed(cache'[j]) /\ Len(cache'[j]) <= CacheCap
               /\ \A e \in ToSet(cache'[j]) : Truthful(j, e)
    <3>1. CASE j = k
      BY <2>1, <2>2, <3>1 DEF CachesOK
    <3>2. CASE j # k
      BY <2>2, <3>2 DEF CachesOK
    <3> QED
      BY <3>1, <3>2
  <2> QED
    BY <2>3, <2>4 DEF CachesOK
<1> QED
  BY <1>1, <1>2

LEMMA AsksKeeps ==
  ASSUME HonestInv, NEW h \in Handlers, NEW k \in Kinds, NEW w \in Windows, NEW c \in Nat \cup {None},
         Asks(h, k, w, c)
  PROVE  HonestInv'
<1>1. CachesOK /\ Keyed(cache[k]) /\ Len(cache[k]) <= CacheCap
  BY DEF HonestInv, CachesOK
<1>2. CASE FromCache(k, w, c)
  <2>1. PICK r \in Hit(k, w) : /\ cache' = [cache EXCEPT ![k] = Append(Without(k, w), r)]
                              /\ view' = (IF c = None THEN view ELSE Shown(r, c))
                              /\ UNCHANGED <<head, scan>>
    BY <1>2 DEF FromCache
  <2>2. r \in ToSet(cache[k]) /\ r.window = w
    BY DEF Hit
  <2>3. r \in Result /\ Truthful(k, r)
    BY <1>1, <2>2, Entries DEF Keyed, CachesOK
  <2>4. Holds(Append(Without(k, w), r), k, r)
    BY <1>1, <2>2, TouchedIs
  <2>5. CachesOK'
    BY <1>1, <2>1, <2>3, <2>4, HoldsKeeps
  <2>6. view' \in View
    BY <2>1, <2>3, ShownIs DEF HonestInv
  <2> QED
    BY <2>1, <2>5, <2>6 DEF HonestInv
<1>3. CASE ~FromCache(k, w, c)
  <2>1. /\ cache' = cache \/ cache' = [cache EXCEPT ![k] = Without(k, w)]
        /\ scan' = [scan EXCEPT ![h] = Begun(k, w, c)]
        /\ view' = view \/ view' = [view EXCEPT !.asked = TRUE]
        /\ head' = head
    BY <1>3 DEF Asks, Begun
  <2>2. CachesOK'
    BY <1>1, <2>1, LosesKeeps
  <2>3. view' \in View
    BY <2>1 DEF HonestInv, View
  <2>4. Begun(k, w, c) \in Scan /\ ScanOK(Begun(k, w, c), head)
    BY BegunIs
  <2>5. scan' \in [Handlers -> Scan] /\ \A g \in Handlers : ScanOK(scan'[g], head)
    BY <2>1, <2>4 DEF HonestInv
  <2> QED
    BY <2>1, <2>2, <2>3, <2>5 DEF HonestInv
<1> QED
  BY <1>2, <1>3

LEMMA ExpireKeeps ==
  ASSUME HonestInv, Expire
  PROVE  HonestInv'
<1>0. PICK k \in Kinds : \E i \in DOMAIN cache[k] : cache' = [cache EXCEPT ![k][i].fresh = FALSE]
  BY DEF Expire
<1>1. PICK i \in DOMAIN cache[k] : cache' = [cache EXCEPT ![k][i].fresh = FALSE]
  BY <1>0
<1>2. UNCHANGED <<head, scan, view>>
  BY DEF Expire
<1> DEFINE q == cache[k]
           e == [q[i] EXCEPT !.fresh = FALSE]
           p == [q EXCEPT ![i] = e]
<1>3. Keyed(q) /\ Len(q) <= CacheCap /\ q \in Seq(Result) /\ \A x \in ToSet(q) : Truthful(k, x)
  BY DEF HonestInv, CachesOK, Keyed
<1>4. i \in 1..Len(q) /\ DOMAIN q = 1..Len(q) /\ q[i] \in Result /\ q[i] \in ToSet(q)
  BY <1>1, <1>3, Entries
<1>5. cache' = [cache EXCEPT ![k] = p]
  BY <1>1
<1> HIDE DEF q
<1>6. /\ e \in Result /\ e.window = q[i].window /\ e.base = q[i].base /\ e.coverage = q[i].coverage
      /\ e.rows = q[i].rows /\ e.cut = q[i].cut /\ e.pairs = q[i].pairs
  BY <1>4 DEF Result
<1>7. Truthful(k, e)
  BY <1>3, <1>4, <1>6 DEF Truthful, InWindow
<1> HIDE DEF e
<1>8. p \in Seq(Result) /\ Len(p) = Len(q) /\ \A j \in 1..Len(q) : p[j] = IF j = i THEN e ELSE q[j]
  BY <1>3, <1>4, <1>6, ExceptSeq
<1> HIDE DEF p
<1>9. \A j \in 1..Len(q) : p[j].window = q[j].window
  BY <1>6, <1>8
<1>10. Keyed(p)
  BY <1>3, <1>8, <1>9 DEF Keyed
<1>11. \A x \in ToSet(p) : Truthful(k, x)
  <2>1. ToSet(p) = {p[j] : j \in 1..Len(q)} /\ ToSet(q) = {q[j] : j \in 1..Len(q)}
    BY <1>3, <1>8, Entries
  <2> QED
    BY <1>3, <1>7, <1>8, <2>1
<1>12. \A j \in Kinds : cache'[j] = IF j = k THEN p ELSE cache[j]
  BY <1>5 DEF HonestInv, CachesOK
<1>13. cache' \in [Kinds -> Seq(Result)]
  BY <1>5, <1>8 DEF HonestInv, CachesOK
<1>14. ASSUME NEW j \in Kinds
       PROVE  /\ Keyed(cache'[j]) /\ Len(cache'[j]) <= CacheCap
              /\ \A x \in ToSet(cache'[j]) : Truthful(j, x)
  <2>1. CASE j = k
    BY <1>3, <1>8, <1>10, <1>11, <1>12, <2>1
  <2>2. CASE j # k
    BY <1>12, <2>2 DEF HonestInv, CachesOK
  <2> QED
    BY <2>1, <2>2
<1>15. CachesOK'
  BY <1>13, <1>14 DEF CachesOK
<1> QED
  BY <1>2, <1>15 DEF HonestInv

\* What a sweep is about: a window below the head it has read.
Sweeps(s) ==
  /\ Typed(s) /\ s.pc = "sweep" /\ s.window \in Windows /\ s.latest \in Blocks /\ s.latest <= head

\* The logs from the chunk under way up to the head of the scan.
FromChunk(s) == {l \in Logs : Lower(s) <= l.n /\ l.n <= s.latest}

LEMMA LowerIs ==
  ASSUME NEW s, Sweeps(s), head \in Blocks
  PROVE  /\ Lower(s) \in Int /\ Oldest(s.latest, s.window) \in Nat /\ Lower(s) >= Oldest(s.latest, s.window)
         /\ Lower(s) = s.upper - s.chunk + 1 \/ Lower(s) = Oldest(s.latest, s.window)
         /\ Lower(s) >= s.upper - s.chunk + 1
         /\ s.upper \in Int /\ s.chunk \in Int /\ s.latest \in Int /\ s.latest <= head /\ head \in Int
         /\ Oldest(s.latest, s.window) <= s.latest
<1>1. /\ s.upper \in Int /\ s.chunk \in Int /\ s.latest \in Nat /\ s.window \in Nat /\ s.window > 0
      /\ head \in Nat
  <2>1. s \in Scan /\ s.window \in Windows /\ s.latest \in Blocks
    BY DEF Sweeps, Typed
  <2>2. s.upper \in Int /\ s.chunk \in Int
    BY <2>1 DEF Scan
  <2>3. (\A w \in Windows : w \in Nat /\ w > 0) /\ MaxBlock \in Nat
    <3>1. (\A w \in Windows : w \in Nat \ {0}) /\ MaxBlock \in Nat
      BY SizesAssumption
    <3> QED
      BY <3>1
  <2>4. s.window \in Nat /\ s.window > 0
    BY <2>1, <2>3
  <2>5. s.latest \in Nat /\ head \in Nat
    BY <2>1, <2>3 DEF Blocks
  <2> QED
    BY <2>2, <2>4, <2>5
<1>2. Oldest(s.latest, s.window) \in Nat /\ Oldest(s.latest, s.window) <= s.latest
  BY <1>1 DEF Oldest
<1> QED
  BY <1>1, <1>2 DEF Lower, Sweeps

LEMMA ChunkIs ==
  ASSUME NEW s, Sweeps(s), head \in Blocks
  PROVE  Chunk(s) = {l \in Logs : Lower(s) <= l.n /\ l.n <= s.upper /\ l.n <= head}
BY LowerIs, LogTypes DEF Chunk, LogsIn

\* A chunk whose queries are all answered leaves a scan with all the logs from it on.
Cleaned(s) ==
  LET S == Chunk(s) IN
  IF s.kind = "transfers" THEN [s EXCEPT !.found = @ \cup S] ELSE Flushed(Recorded(s, S), S)

LEMMA CleanedIs ==
  ASSUME NEW s, Sweeps(s), head \in Blocks, Collected(s, Done(s))
  PROVE  /\ SameRange(s, Cleaned(s)) /\ Len(Cleaned(s).history) <= HistoryCap
         /\ Cleaned(s).coverage = s.coverage /\ Cleaned(s).calls = s.calls
         /\ Collected(Cleaned(s), FromChunk(s))
<1> DEFINE S == Chunk(s)
           t == Cleaned(s)
           N == FromChunk(s)
           D == Done(s)
<1>1. s \in Scan /\ Len(s.history) <= HistoryCap /\ s.kind \in Kinds
  BY DEF Sweeps, Typed, Scan
<1>2. S \in SUBSET Logs
  BY ChunkIs
<1>3. N \subseteq D \cup S
  BY LogTypes, LowerIs, ChunkIs DEF FromChunk, Done
<1> HIDE DEF S, N, D
<1>4. CASE s.kind = "transfers"
  <2>1. t = [s EXCEPT !.found = s.found \cup S]
    BY <1>4 DEF Cleaned, S
  <2>2. SameRange(s, t) /\ t.history = s.history /\ t.coverage = s.coverage /\ t.calls = s.calls
    BY <1>1, <1>2, <2>1 DEF SameRange, Scan
  <2>3. t.found = s.found \cup S
    BY <1>1, <2>1 DEF Scan
  <2>4. D \subseteq s.found
    BY <1>4 DEF Collected, D
  <2>5. Collected(t, N)
    BY <1>3, <1>4, <2>2, <2>3, <2>4 DEF Collected, SameRange
  <2> QED
    BY <1>1, <2>2, <2>5 DEF N
<1>5. CASE s.kind # "transfers"
  <2> DEFINE r == Recorded(s, S)
  <2>1. t = Flushed(r, S)
    BY <1>5 DEF Cleaned, S
  <2>2. /\ SameRange(s, r) /\ r.history = s.history /\ r.cut = s.cut /\ r.pairs = s.pairs \cup {l.p : l \in S}
        /\ r.coverage = s.coverage /\ r.calls = s.calls
    BY <1>1, <1>2, RecordedIs
  <2> HIDE DEF r
  <2> HIDE DEF t
  <2>3. r \in Scan /\ Len(r.history) <= HistoryCap
    BY <1>1, <2>2 DEF SameRange
  <2>4. /\ SameRange(r, t) /\ t.pairs = r.pairs /\ t.coverage = r.coverage /\ t.calls = r.calls
        /\ Len(t.history) <= HistoryCap
    BY <1>2, <2>1, <2>3, FlushedIs
  <2>5. /\ ToSet(r.history) \subseteq ToSet(t.history)
        /\ ~t.cut => ~r.cut /\ S \subseteq ToSet(t.history)
    BY <1>2, <2>1, <2>3, FlushedKeeps
  <2>6. {l.p : l \in D} \subseteq s.pairs /\ (s.cut \/ D \subseteq ToSet(s.history))
    BY <1>5 DEF Collected, D
  <2>7. t.kind # "transfers" /\ SameRange(s, t)
    BY <1>5, <2>2, <2>4 DEF SameRange
  <2>8. {l.p : l \in N} \subseteq t.pairs
    BY <1>3, <2>2, <2>4, <2>6
  <2>9. t.cut \/ N \subseteq ToSet(t.history)
    BY <1>3, <2>2, <2>5, <2>6
  <2>10. Collected(t, N)
    BY <2>7, <2>8, <2>9 DEF Collected
  <2> QED
    BY <2>2, <2>4, <2>7, <2>10 DEF t, N
<1> QED
  BY <1>4, <1>5

LEMMA SameSweep ==
  ASSUME NEW s, Sweeps(s), NEW t, SameRange(s, t), Len(t.history) <= HistoryCap
  PROVE  /\ Sweeps(t) /\ Lower(t) = Lower(s) /\ Chunk(t) = Chunk(s) /\ Done(t) = Done(s)
         /\ FromChunk(t) = FromChunk(s) /\ t.kind = s.kind
BY DEF Sweeps, Typed, SameRange, Lower, Chunk, Done, FromChunk, LogsIn

\* The scan u differs from t at most in its range.
SameFinds(t, u) ==
  /\ u.pc = t.pc /\ u.kind = t.kind /\ u.window = t.window /\ u.cursor = t.cursor
  /\ u.latest = t.latest /\ u.calls = t.calls /\ u.found = t.found /\ u.history = t.history
  /\ u.cut = t.cut /\ u.pairs = t.pairs /\ u.coverage = t.coverage

LEMMA OnwardIs ==
  ASSUME NEW t, Sweeps(t), head \in Blocks
  PROVE  /\ Sweeps(Onward(t)) /\ SameFinds(t, Onward(t)) /\ Onward(t).upper = Lower(t) - 1
         /\ Onward(t).chunk \in {2 * t.chunk, t.ceiling, MaxChunk} /\ Onward(t).chunk <= t.ceiling
         /\ Onward(t).ceiling = t.ceiling
<1> DEFINE n == Lower(t) - 1
           c == Smallest({2 * t.chunk, t.ceiling, MaxChunk})
<1>1. t \in Scan /\ t.chunk \in Int /\ t.ceiling \in Int /\ MaxChunk \in Int
  BY SmallConstants DEF Sweeps, Typed, Scan
<1>2. n \in Int
  BY LowerIs
<1>3. c \in {2 * t.chunk, t.ceiling, MaxChunk} /\ c <= t.ceiling /\ c <= MaxChunk /\ c \in Int
  <2>1. 2 * t.chunk \in Int
    BY <1>1
  <2> DEFINE d == 2 * t.chunk
  <2>2. d \in Int
    BY <2>1
  <2> HIDE DEF d
  <2> QED
    BY <1>1, <2>2, SmallestOfThree DEF d
<1>4. Onward(t) = [t EXCEPT !.upper = n, !.chunk = c]
  BY DEF Onward
<1> HIDE DEF n, c
<1>5. Onward(t) \in Scan /\ SameFinds(t, Onward(t))
  BY <1>1, <1>2, <1>3, <1>4 DEF Scan, SameFinds
<1>6. Onward(t).upper = n /\ Onward(t).chunk = c /\ Onward(t).ceiling = t.ceiling
  BY <1>1, <1>4 DEF Scan
<1>7. Sweeps(Onward(t))
  BY <1>3, <1>5, <1>6 DEF Sweeps, Typed, SameFinds
<1> QED
  BY <1>3, <1>5, <1>6, <1>7 DEF n

LEMMA HalvedIs ==
  ASSUME NEW t, Sweeps(t)
  PROVE  /\ Sweeps(Halved(t)) /\ SameFinds(t, Halved(t)) /\ Halved(t).upper = t.upper
         /\ Halved(t).chunk >= MinChunk /\ Halved(t).ceiling = t.chunk - 1
         /\ Halved(t).chunk = MinChunk \/ 2 * Halved(t).chunk <= t.chunk
<1> DEFINE c == IF t.chunk \div 2 < MinChunk THEN MinChunk ELSE t.chunk \div 2
           d == t.chunk - 1
<1>1. t \in Scan /\ t.chunk \in Int /\ t.chunk <= MaxChunk
  BY DEF Sweeps, Typed, Scan
<1>2. \A x, m, y \in Int : /\ x \div 2 \in Int /\ 2 * (x \div 2) <= x
                           /\ m > 0 /\ x <= y /\ ~(x \div 2 < m) => x \div 2 <= y
  OBVIOUS
<1>3. MinChunk \in Int /\ MinChunk > 0 /\ MaxChunk \in Int /\ MinChunk <= MaxChunk
  BY SmallConstants
<1>4. /\ t.chunk \div 2 \in Int /\ 2 * (t.chunk \div 2) <= t.chunk
      /\ MinChunk > 0 /\ t.chunk <= MaxChunk /\ ~(t.chunk \div 2 < MinChunk) => t.chunk \div 2 <= MaxChunk
  BY <1>1, <1>2, <1>3, Zenon
<1>5. c \in Int /\ c >= MinChunk /\ c <= MaxChunk /\ (c = MinChunk \/ 2 * c <= t.chunk) /\ d \in Int
  BY <1>1, <1>3, <1>4
<1>6. Halved(t) = [t EXCEPT !.ceiling = d, !.chunk = c]
  BY DEF Halved
<1> HIDE DEF c, d
<1>7. Halved(t) \in Scan /\ SameFinds(t, Halved(t))
  BY <1>1, <1>5, <1>6 DEF Scan, SameFinds
<1>8. Halved(t).upper = t.upper /\ Halved(t).chunk = c /\ Halved(t).ceiling = d
  BY <1>1, <1>6 DEF Scan
<1>9. Sweeps(Halved(t))
  BY <1>5, <1>7, <1>8 DEF Sweeps, Typed, SameFinds
<1> QED
  BY <1>5, <1>7, <1>8, <1>9 DEF d

\* The end of a sweep.
LEMMA SweptKeeps ==
  ASSUME HonestInv, NEW h \in Handlers, NEW t, Sweeps(t), t.kind = scan[h].kind,
         Truthful(t.kind, Answer(t)), Swept(h, t)
  PROVE  HonestInv'
<1>1. t \in Scan /\ t.window \in Windows
  BY DEF Sweeps, Typed
<1>2. CASE t.kind = "approvals" /\ t.pairs # {}
  <2> DEFINE u == [t EXCEPT !.pc = "read"]
  <2>1. /\ u \in Scan /\ u.pc = "read" /\ u.kind = t.kind /\ u.window = t.window /\ u.chunk = t.chunk
        /\ u.history = t.history /\ u.latest = t.latest
    BY <1>1 DEF Scan
  <2>2. u.found = t.found /\ u.cut = t.cut /\ u.pairs = t.pairs /\ u.coverage = t.coverage
    BY <1>1 DEF Scan
  <2>3. Goes(h, u)
    BY <1>2 DEF Swept
  <2> HIDE DEF u
  <2>4. Answer(u) = Answer(t)
    BY <2>1, <2>2 DEF Answer
  <2>5. ScanOK(u, head)
    BY <1>2, <2>1, <2>4 DEF ScanOK, Typed, Sweeps
  <2> QED
    BY <2>3, <2>5, GoesKeeps
<1>3. CASE ~(t.kind = "approvals" /\ t.pairs # {})
  <2>1. Replies(h, Answer(t))
    BY <1>3 DEF Swept
  <2>2. Answer(t) \in Result
    BY <1>1, AnswerIs
  <2> QED
    BY <2>1, <2>2, RepliesKeeps
<1> QED
  BY <1>2, <1>3

\* The whole window is behind a scan: its answer is true.
LEMMA TruthfulIs ==
  ASSUME NEW s, Sweeps(s), head \in Blocks, Covered(s), Collected(s, FromChunk(s))
  PROVE  Truthful(s.kind, Answer(s))
<1> DEFINE a == Answer(s)
           o == Oldest(s.latest, s.window)
<1>1. /\ a.window = s.window /\ a.base = s.latest /\ a.cut = s.cut /\ a.pairs = s.pairs
      /\ a.rows = IF s.kind = "transfers" THEN Sorted(s.found) ELSE s.history
  BY AnswerIs DEF Sweeps, Typed
<1>2. s.latest \in Blocks /\ s.kind \in Kinds /\ s.found \in SUBSET Logs
  BY DEF Sweeps, Typed, Scan
<1> HIDE DEF a
<1>3. InWindow(a) \subseteq FromChunk(s)
  <2>1. Lower(s) \in Int /\ o \in Nat /\ Lower(s) <= o /\ s.latest \in Int
    BY LowerIs DEF Covered
  <2>2. InWindow(a) \subseteq {l \in Logs : l.n \in o..s.latest}
    BY <1>1 DEF InWindow
  <2> HIDE DEF o
  <2>3. \A l \in Logs : l.n \in o..s.latest => Lower(s) <= l.n /\ l.n <= s.latest
    BY <2>1, LogTypes
  <2> QED
    BY <2>2, <2>3 DEF FromChunk
<1>4. CASE s.kind = "transfers"
  <2>1. ToSet(a.rows) = s.found
    BY <1>1, <1>2, <1>4, SortedIs
  <2> QED
    BY <1>3, <1>4, <2>1 DEF Truthful, Collected, a
<1>5. CASE s.kind = "approvals"
  BY <1>1, <1>3, <1>5 DEF Truthful, Collected, a
<1> QED
  BY <1>2, <1>4, <1>5 DEF Kinds

\* A scan that reads the head.
Started(s) == [s EXCEPT !.pc = "sweep", !.latest = head, !.upper = head, !.chunk = InitialChunk,
                        !.ceiling = MaxChunk]

LEMMA StartedIs ==
  ASSUME NEW s, Typed(s), s.pc = "head", head \in Blocks
  PROVE  /\ Sweeps(Started(s)) /\ Started(s).latest = head /\ Started(s).upper = head
         /\ Started(s).chunk = InitialChunk /\ Started(s).ceiling = MaxChunk
         /\ Started(s).kind = s.kind /\ Started(s).window = s.window /\ Started(s).cursor = s.cursor
         /\ Started(s).found = s.found /\ Started(s).history = s.history /\ Started(s).cut = s.cut
         /\ Started(s).pairs = s.pairs /\ Started(s).calls = s.calls /\ Started(s).coverage = s.coverage
<1> DEFINE t == Started(s)
<1>1. s \in Scan /\ s.window \in Windows /\ Len(s.history) <= HistoryCap
  BY DEF Typed
<1>2. InitialChunk \in Int /\ MaxChunk \in Int /\ InitialChunk <= MaxChunk /\ head \in Int /\ head <= head
  BY SmallConstants DEF Blocks
<1>3. t \in Scan
  BY <1>1, <1>2 DEF Started, Scan
<1>4. /\ t.pc = "sweep" /\ t.latest = head /\ t.upper = head /\ t.chunk = InitialChunk
      /\ t.ceiling = MaxChunk /\ t.kind = s.kind /\ t.window = s.window /\ t.cursor = s.cursor
  BY <1>1 DEF Started, Scan
<1>5. /\ t.found = s.found /\ t.history = s.history /\ t.cut = s.cut /\ t.pairs = s.pairs
      /\ t.calls = s.calls /\ t.coverage = s.coverage
  BY <1>1 DEF Started, Scan
<1> HIDE DEF t
<1>6. Sweeps(t)
  BY <1>1, <1>2, <1>3, <1>4, <1>5 DEF Sweeps, Typed
<1> QED
  BY <1>4, <1>5, <1>6 DEF t

\* A scan whose coverage is settled.
LEMMA CoverageIs ==
  ASSUME NEW s, Sweeps(s), NEW c \in Coverages
  PROVE  LET t == [s EXCEPT !.coverage = c]
         IN  /\ Sweeps(t) /\ t.coverage = c /\ t.kind = s.kind /\ t.window = s.window
             /\ t.latest = s.latest /\ t.upper = s.upper /\ t.found = s.found /\ t.history = s.history
             /\ t.cut = s.cut /\ t.pairs = s.pairs /\ Lower(t) = Lower(s) /\ t.cursor = s.cursor
             /\ t.chunk = s.chunk
<1> DEFINE t == [s EXCEPT !.coverage = c]
<1>1. s \in Scan
  BY DEF Sweeps, Typed
<1>2. /\ t \in Scan /\ t.coverage = c /\ t.kind = s.kind /\ t.window = s.window /\ t.latest = s.latest
      /\ t.upper = s.upper /\ t.chunk = s.chunk /\ t.pc = s.pc
  BY <1>1 DEF Scan
<1>3. /\ t.found = s.found /\ t.history = s.history /\ t.cut = s.cut /\ t.pairs = s.pairs
      /\ t.cursor = s.cursor
  BY <1>1 DEF Scan
<1> HIDE DEF t
<1>4. Sweeps(t) /\ Lower(t) = Lower(s)
  BY <1>2, <1>3 DEF Sweeps, Typed, Lower
<1> QED
  BY <1>2, <1>3, <1>4 DEF t

\* The answer of a scan that never settled is empty.
Empty(s) ==
  [Idle EXCEPT !.kind = s.kind, !.window = s.window,
               !.coverage = IF s.kind = "transfers" THEN "partial" ELSE "scan-failed"]

LEMMA EmptyIs ==
  ASSUME NEW s, Typed(s), s.pc # "idle"
  PROVE  /\ Answer(Empty(s)) \in Result /\ Answer(Empty(s)).coverage # "complete"
         /\ Answer(Empty(s)).rows = <<>> /\ Answer(Empty(s)).window = s.window
         /\ Answer(Empty(s)).base = None
<1> DEFINE e == Empty(s)
           c == IF s.kind = "transfers" THEN "partial" ELSE "scan-failed"
<1>1. s.kind \in Kinds /\ s.window \in Windows /\ c \in Coverages /\ c # "complete"
  BY DEF Typed, Scan, Coverages
<1>2. e = [Idle EXCEPT !.kind = s.kind, !.window = s.window, !.coverage = c]
  BY DEF Empty
<1> HIDE DEF c
<1>3. Idle.latest = None /\ Idle.found = {} /\ Idle.history = <<>>
  BY DEF Idle
<1>4. /\ e \in Scan /\ e.window = s.window /\ e.coverage = c /\ e.latest = None /\ e.found = {}
      /\ e.history = <<>>
  BY <1>1, <1>2, <1>3, IdleOK DEF Scan
<1> HIDE DEF e
<1>5. Sorted({}) = <<>>
  <2>1. {} \in SUBSET Logs /\ Cardinality({}) = 0
    BY FS_EmptySet
  <2>2. Sorted({}) \in Seq(Logs) /\ Len(Sorted({})) = 0
    BY <2>1, SortedIs
  <2> QED
    BY <2>2, EmptySeq
<1> QED
  BY <1>1, <1>4, <1>5, AnswerIs DEF e

LEMMA NotComplete ==
  ASSUME NEW k, NEW r, r.coverage # "complete"
  PROVE  Truthful(k, r)
BY DEF Truthful

\* The first query of a chunk was recorded, or nothing.
LEMMA HalfIs ==
  ASSUME NEW s, Sweeps(s), head \in Blocks, NEW t \in HalfRecorded(s)
  PROVE  /\ SameRange(s, t) /\ t.found = s.found /\ t.history = s.history /\ t.cut = s.cut
         /\ s.pairs \subseteq t.pairs /\ t.calls = s.calls /\ t.coverage = s.coverage
<1> DEFINE S == OfQuery(Chunk(s), 1)
<1>1. s \in Scan /\ S \in SUBSET Logs
  BY ChunkIs DEF Sweeps, Typed, OfQuery
<1>2. t = s \/ t = Recorded(s, S)
  BY DEF HalfRecorded
<1> HIDE DEF S
<1>3. CASE t = s
  BY <1>1, <1>3 DEF SameRange
<1>4. CASE t = Recorded(s, S)
  BY <1>1, <1>4, RecordedIs
<1> QED
  BY <1>2, <1>3, <1>4

\* What an approval scan may have when its second query fails.
LEMMA HalfFlushed ==
  ASSUME NEW d, Sweeps(d), head \in Blocks,
         NEW t \in {d, Flushed(Recorded(d, OfQuery(Chunk(d), 1)), OfQuery(Chunk(d), 1))}
  PROVE  SameRange(d, t) /\ Sweeps(t)
<1> DEFINE S == OfQuery(Chunk(d), 1)
           r == Recorded(d, S)
           f == Flushed(r, S)
<1>1. S \in SUBSET Logs /\ d \in Scan /\ Len(d.history) <= HistoryCap
  BY ChunkIs DEF OfQuery, Sweeps, Typed
<1>2. t = d \/ t = f
  OBVIOUS
<1> HIDE DEF S
<1>3. SameRange(d, r) /\ r.history = d.history
  BY <1>1, RecordedIs
<1> HIDE DEF r
<1>4. r \in Scan /\ Len(r.history) <= HistoryCap
  BY <1>1, <1>3 DEF SameRange
<1>5. SameRange(r, f) /\ Len(f.history) <= HistoryCap
  BY <1>1, <1>4, FlushedIs
<1> HIDE DEF f
<1>6. SameRange(d, t) /\ Len(t.history) <= HistoryCap
  BY <1>1, <1>2, <1>3, <1>5 DEF SameRange
<1> QED
  BY <1>6, SameSweep

LEMMA ScanStepKeeps ==
  ASSUME HonestInv, NEW h \in Handlers, ScanStep(h)
  PROVE  HonestInv'
<1> DEFINE s == scan[h]
           d == Dispatched(s)
<1>1. ScanOK(s, head) /\ s \in Scan /\ head \in Blocks /\ Typed(s)
  BY DEF HonestInv, ScanOK
<1>2. s.pc = "sweep" => Sweeps(s) /\ Collected(s, Done(s))
  BY <1>1 DEF ScanOK, Typed, Sweeps
<1>3. ASSUME s.pc = "sweep", ~Spent(s)
      PROVE  /\ SameRange(s, d) /\ d.found = s.found /\ d.history = s.history /\ d.cut = s.cut
             /\ d.pairs = s.pairs /\ d.coverage = s.coverage
             /\ Sweeps(d) /\ d.kind = s.kind /\ Collected(d, Done(d))
  <2>1. /\ SameRange(s, d) /\ d.found = s.found /\ d.history = s.history /\ d.cut = s.cut
        /\ d.pairs = s.pairs /\ d.coverage = s.coverage
    BY <1>1, <1>3, DispatchedIs
  <2> HIDE DEF d
  <2>2. Sweeps(d) /\ d.kind = s.kind /\ Done(d) = Done(s)
    BY <1>1, <1>2, <1>3, <2>1, SameSweep DEF Typed
  <2> QED
    BY <1>2, <1>3, <2>1, <2>2 DEF Collected
<1>4. CASE ReadHead(h)
  <2>1. s.pc = "head" /\ Goes(h, Started(s))
    BY <1>4 DEF ReadHead, Started
  <2> DEFINE t == Started(s)
  <2>2. Sweeps(t) /\ t.latest = head /\ t.upper = head
    BY <1>1, <2>1, StartedIs
  <2> HIDE DEF t
  <2>3. Done(t) = {}
    BY <1>1, <2>2, LogTypes, LowerIs DEF Done
  <2>4. ScanOK(t, head)
    BY <2>2, <2>3 DEF ScanOK, Sweeps, Collected
  <2> QED
    BY <2>1, <2>4, GoesKeeps DEF t
<1>5. CASE NoHead(h)
  BY <1>5, FailsKeeps DEF NoHead
<1>6. CASE StopsShort(h)
  <2> DEFINE t == [s EXCEPT !.coverage = "partial"]
  <2>1. s.pc = "sweep" /\ Swept(h, t)
    BY <1>6 DEF StopsShort
  <2>2. Sweeps(t) /\ t.coverage = "partial" /\ t.kind = s.kind
    BY <1>2, <2>1, CoverageIs DEF Coverages
  <2> HIDE DEF t
  <2>3. Answer(t).coverage # "complete"
    BY <2>2, AnswerIs DEF Sweeps, Typed
  <2> QED
    BY <2>1, <2>2, <2>3, SweptKeeps, NotComplete
<1>7. CASE Clean(h)
  <2> DEFINE t == Cleaned(d)
             c == [t EXCEPT !.coverage = "complete"]
  <2>1. s.pc = "sweep" /\ ~Spent(s)
    BY <1>7 DEF Clean
  <2>2. IF Covered(d) THEN Swept(h, c) ELSE Goes(h, Onward(t))
    BY <1>7 DEF Clean, Cleaned
  <2>3. Sweeps(d) /\ d.kind = s.kind /\ Collected(d, Done(d))
    BY <1>3, <2>1
  <2> HIDE DEF d
  <2>4. SameRange(d, t) /\ Len(t.history) <= HistoryCap /\ Collected(t, FromChunk(d))
    BY <1>1, <2>3, CleanedIs
  <2> HIDE DEF t
  <2>5. /\ Sweeps(t) /\ Lower(t) = Lower(d) /\ FromChunk(t) = FromChunk(d) /\ t.kind = s.kind
        /\ t.latest = d.latest /\ t.window = d.window
    BY <2>3, <2>4, SameSweep DEF SameRange
  <2>6. CASE Covered(d)
    <3>1. /\ Sweeps(c) /\ c.kind = t.kind /\ Lower(c) = Lower(t) /\ c.latest = t.latest
          /\ c.window = t.window /\ c.found = t.found /\ c.history = t.history /\ c.cut = t.cut
          /\ c.pairs = t.pairs
      BY <2>5, CoverageIs DEF Coverages
    <3>2. Swept(h, c)
      BY <2>2, <2>6
    <3> HIDE DEF c
    <3>3. Covered(c) /\ Collected(c, FromChunk(c))
      BY <2>4, <2>5, <2>6, <3>1 DEF Covered, Collected, FromChunk
    <3>4. Truthful(c.kind, Answer(c))
      BY <1>1, <3>1, <3>3, TruthfulIs
    <3> QED
      BY <2>5, <3>1, <3>2, <3>4, SweptKeeps
  <2>7. CASE ~Covered(d)
    <3> DEFINE u == Onward(t)
    <3>1. Sweeps(u) /\ SameFinds(t, u) /\ u.upper = Lower(t) - 1
      BY <1>1, <2>5, OnwardIs
    <3>2. Goes(h, u)
      BY <2>2, <2>7
    <3> HIDE DEF u
    <3>3. Lower(t) \in Int /\ u.latest = t.latest
      BY <1>1, <2>5, <3>1, LowerIs DEF SameFinds
    <3>4. Done(u) \subseteq FromChunk(t)
      BY <3>1, <3>3, LogTypes DEF Done, FromChunk
    <3>5. Collected(u, Done(u))
      BY <2>4, <2>5, <3>1, <3>4 DEF Collected, SameFinds
    <3>6. ScanOK(u, head)
      BY <3>1, <3>5 DEF ScanOK, Sweeps
    <3> QED
      BY <3>2, <3>6, GoesKeeps
  <2> QED
    BY <2>6, <2>7
<1>8. CASE Rejected(h)
  <2>1. s.pc = "sweep" /\ ~Spent(s)
    BY <1>8, <1>1, DispatchedIs DEF Rejected, SameRange
  <2>2. PICK t \in HalfRecorded(d) : Goes(h, Halved(t))
    BY <1>8 DEF Rejected
  <2>3. Sweeps(d) /\ Collected(d, Done(d))
    BY <1>3, <2>1
  <2> HIDE DEF d
  <2>4. /\ SameRange(d, t) /\ t.found = d.found /\ t.history = d.history /\ t.cut = d.cut
        /\ d.pairs \subseteq t.pairs
    BY <1>1, <2>3, HalfIs
  <2>5. Sweeps(t) /\ Done(t) = Done(d) /\ t.kind = d.kind
    BY <2>3, <2>4, SameSweep DEF Sweeps, Typed
  <2>6. Collected(t, Done(t))
    BY <2>3, <2>4, <2>5 DEF Collected
  <2> DEFINE u == Halved(t)
  <2>7. Sweeps(u) /\ SameFinds(t, u) /\ u.upper = t.upper
    BY <2>5, HalvedIs
  <2> HIDE DEF u
  <2>8. Done(u) = Done(t)
    BY <2>7 DEF Done, SameFinds
  <2>9. ScanOK(u, head)
    BY <2>6, <2>7, <2>8 DEF ScanOK, Sweeps, Collected, SameFinds
  <2> QED
    BY <2>2, <2>9, GoesKeeps DEF u
<1>9. CASE Aborted(h)
  <2>1. s.pc = "sweep" /\ ~Spent(s)
    BY <1>9, <1>1, DispatchedIs DEF Aborted, SameRange
  <2>2. CASE Fails(h)
    BY <2>2, FailsKeeps
  <2>3. CASE ~Fails(h)
    <3>1. PICK t \in {d, Flushed(Recorded(d, OfQuery(Chunk(d), 1)), OfQuery(Chunk(d), 1))} :
            Swept(h, [t EXCEPT !.coverage = "scan-failed"])
      BY <1>9, <2>3 DEF Aborted
    <3>2. Sweeps(d) /\ d.kind = s.kind
      BY <1>3, <2>1
    <3> HIDE DEF d
    <3>3. Sweeps(t) /\ t.kind = s.kind
      BY <1>1, <3>1, <3>2, HalfFlushed DEF SameRange
    <3> DEFINE c == [t EXCEPT !.coverage = "scan-failed"]
    <3>4. Sweeps(c) /\ c.kind = s.kind /\ c.coverage = "scan-failed"
      BY <3>3, CoverageIs DEF Coverages
    <3> HIDE DEF c
    <3>5. Answer(c).coverage # "complete"
      BY <3>4, AnswerIs DEF Sweeps, Typed
    <3> QED
      BY <3>1, <3>4, <3>5, SweptKeeps, NotComplete DEF c
  <2> QED
    BY <2>2, <2>3
<1>10. CASE Hung(h)
  <2>1. s.pc # "idle" /\ Replies(h, Answer(Empty(s)))
    BY <1>10 DEF Hung, Empty
  <2>2. Answer(Empty(s)) \in Result /\ Answer(Empty(s)).coverage # "complete"
    BY <1>1, <2>1, EmptyIs
  <2> QED
    BY <2>1, <2>2, RepliesKeeps, NotComplete
<1>11. CASE ReadValues(h)
  <2>1. s.pc = "read" /\ Replies(h, Answer(s))
    BY <1>11 DEF ReadValues
  <2>2. Truthful(s.kind, Answer(s)) /\ s.window \in Windows
    BY <1>1, <2>1 DEF ScanOK, Typed
  <2>3. Answer(s) \in Result
    BY <1>1, <2>2, AnswerIs
  <2> QED
    BY <2>1, <2>2, <2>3, RepliesKeeps
<1> QED
  BY <1>4, <1>5, <1>6, <1>7, <1>8, <1>9, <1>10, <1>11 DEF ScanStep

\* The head that rises leaves every scan what it is.
LEMMA NewBlockKeeps ==
  ASSUME HonestInv, NewBlock
  PROVE  HonestInv'
<1>1. head' = head + 1 /\ UNCHANGED <<cache, scan, view>> /\ head < MaxBlock /\ head \in Blocks
  BY DEF NewBlock, HonestInv
<1>2. head \in Nat /\ head + 1 \in Blocks
  BY <1>1, SmallConstants DEF Blocks
<1>3. ASSUME NEW s, ScanOK(s, head) PROVE ScanOK(s, head + 1)
  <2>1. s.latest \in Blocks /\ s.latest <= head => s.latest <= head + 1
    BY <1>2, SmallConstants DEF Blocks
  <2> QED
    BY <1>3, <2>1 DEF ScanOK
<1>4. \A h \in Handlers : ScanOK(scan[h], head + 1)
  BY <1>3 DEF HonestInv
<1>5. CachesOK'
  BY <1>1 DEF HonestInv, CachesOK, Keyed
<1> QED
  BY <1>1, <1>2, <1>4, <1>5 DEF HonestInv

LEMMA HonestInit == Init => HonestInv
<1> SUFFICES ASSUME Init PROVE HonestInv
  OBVIOUS
<1>1. head \in Blocks /\ view \in View
  BY SizesAssumption DEF Init, NoView, View
<1>2. scan \in [Handlers -> Scan] /\ \A h \in Handlers : ScanOK(scan[h], head)
  BY IdleOK DEF Init
<1>3. <<>> \in Seq(Result) /\ Len(<<>>) = 0
  OBVIOUS
<1>4. Keyed(<<>>) /\ ToSet(<<>>) = {}
  BY <1>3 DEF Keyed, ToSet
<1>5. \A k \in Kinds : cache[k] = <<>>
  BY DEF Init
<1>6. cache \in [Kinds -> Seq(Result)]
  BY <1>3 DEF Init
<1>7. Len(<<>>) <= CacheCap
  BY <1>3, SizesAssumption
<1>8. CachesOK
  BY <1>4, <1>5, <1>6, <1>7 DEF CachesOK
<1> QED
  BY <1>1, <1>2, <1>8 DEF HonestInv

\* The pages that may be asked for.
LEMMA RequestIs ==
  ASSUME HonestInv, NEW h \in Handlers, Ask(h) \/ Turn(h)
  PROVE  \E k \in Kinds, w \in Windows, c \in Nat \cup {None} : Asks(h, k, w, c)
<1>1. CASE Ask(h)
  BY <1>1 DEF Ask
<1>2. CASE Turn(h)
  <2>1. "transfers" \in Kinds /\ Depth \in Windows /\ view.next \in Nat \cup {None}
    BY SizesAssumption DEF Kinds, HonestInv, View
  <2> QED
    BY <1>2, <2>1 DEF Turn
<1> QED
  BY <1>1, <1>2

LEMMA HonestNext == HonestInv /\ [Next]_vars => HonestInv'
<1> SUFFICES ASSUME HonestInv, [Next]_vars PROVE HonestInv'
  OBVIOUS
<1>1. CASE NewBlock
  BY <1>1, NewBlockKeeps
<1>2. CASE Expire
  BY <1>2, ExpireKeeps
<1>3. ASSUME NEW h \in Handlers, Ask(h) \/ Turn(h) PROVE HonestInv'
  <2>1. PICK k \in Kinds, w \in Windows, c \in Nat \cup {None} : Asks(h, k, w, c)
    BY <1>3, RequestIs
  <2> QED
    BY <2>1, AsksKeeps
<1>4. ASSUME NEW h \in Handlers, ScanStep(h) PROVE HonestInv'
  BY <1>4, ScanStepKeeps
<1>5. CASE UNCHANGED vars
  BY <1>5 DEF vars, HonestInv, CachesOK, Keyed
<1> QED
  BY <1>1, <1>2, <1>3, <1>4, <1>5 DEF Next

LEMMA HonestAlways == Spec => []HonestInv
BY HonestInit, HonestNext, PTL DEF Spec

\* The types hold, and an answer of either scan that says `complete' misses no log of its window
\* (an event of the approvals only when it says that its history was cut), whatever the provider
\* rejects, however often a chunk is halved and asked again, and whatever else is in flight.
THEOREM HonestHolds == Spec => []Honest
<1>1. HonestInv => Honest
  <2> SUFFICES ASSUME HonestInv PROVE Honest
    OBVIOUS
  <2>1. \A k \in Kinds : \A r \in ToSet(cache[k]) : Truthful(k, r)
    BY DEF HonestInv, CachesOK
  <2>2. \A h \in Handlers : scan[h].chunk <= MaxChunk /\ Len(scan[h].history) <= HistoryCap
    BY DEF HonestInv, ScanOK, Typed
  <2>3. TypeOK
    BY <2>2 DEF TypeOK, HonestInv, CachesOK
  <2> QED
    BY <2>1, <2>3 DEF Honest, Truthful
<1> QED
  BY <1>1, HonestAlways, PTL

-----------------------------------------------------------------------------
(* No holes.  A chunk shrinks below the floor when ranges at the floor are  *)
(* rejected, and turns negative when ranges of one block and of none are:   *)
(* then a sweep climbs instead of descending.                               *)

\* The provider takes a range of one block.
OneBlockTaken == [][\A h \in Handlers : Rejected(h) => scan[h].chunk > 1]_vars

Descending(q) == \A i, j \in 1..Len(q) : i < j => Newer(q[i], q[j])

\* A log up to block b that is newer than one of a list is in the list.
Closed(q, b) == \A i \in 1..Len(q) : \A l \in Logs : l.n <= b /\ Newer(l, q[i]) => l \in ToSet(q)

HoleFree(r) ==
  /\ \A i, j \in DOMAIN r.rows : i < j => Newer(r.rows[i], r.rows[j])
  /\ \A i \in DOMAIN r.rows : \A l \in InWindow(r) : Newer(l, r.rows[i]) => l \in ToSet(r.rows)

\* An answer has no holes, and a complete one of the transfers is the list of its window.
Sound(k, r) ==
  /\ r.coverage # "scan-failed" => HoleFree(r)
  /\ k = "transfers" /\ r.coverage = "complete" => r.base \in Blocks /\ r.rows = Sorted(InWindow(r))

\* A sweep descends from its head into its window.
Steady(s) ==
  /\ s.chunk >= 1 /\ s.ceiling >= 1
  /\ s.upper <= s.latest /\ Oldest(s.latest, s.window) <= s.upper + 1

\* What a sweep of transfers has found lies in the window and reaches up to the head of the scan.
Heap(s) ==
  /\ \A l \in s.found : Oldest(s.latest, s.window) <= l.n /\ l.n <= s.latest
  /\ \A x \in s.found : \A l \in Logs : x.n <= l.n /\ l.n <= s.latest => l \in s.found

\* The history of a sweep of approvals is a list of logs above the blocks that are still to be
\* swept, without a hole; it is cut when it is full and only then.
Tidy(s) ==
  /\ Descending(s.history) /\ Closed(s.history, s.latest)
  /\ \A i \in 1..Len(s.history) : s.upper < s.history[i].n /\ s.history[i].n <= s.latest
  /\ s.cut => Len(s.history) = HistoryCap

OrderOK(s) ==
  /\ s.pc = "sweep" => /\ Steady(s)
                       /\ IF s.kind = "transfers" THEN Heap(s) ELSE Tidy(s)
  /\ s.pc = "read" => Sound(s.kind, Answer(s))

OrderInv ==
  /\ \A k \in Kinds : \A e \in ToSet(cache[k]) : Sound(k, e)
  /\ \A h \in Handlers : OrderOK(scan[h])

\* Two entries that differ at most in their age.
Alike(e, f) ==
  /\ e.window = f.window /\ e.base = f.base /\ e.coverage = f.coverage /\ e.rows = f.rows
  /\ e.cut = f.cut /\ e.pairs = f.pairs

LEMMA AlikeSound ==
  ASSUME NEW k, NEW e, NEW f, Alike(e, f), Sound(k, f)
  PROVE  Sound(k, e)
BY DEF Alike, Sound, HoleFree, InWindow

\* An answer adds itself to a cache, and the other entries are of other windows.
LEMMA RepliesIs ==
  ASSUME HonestInv, NEW h \in Handlers, NEW r \in Result, Replies(h, r)
  PROVE  \A j \in Kinds : \A e \in ToSet(cache'[j]) :
           \/ j = scan[h].kind /\ e = r
           \/ e \in ToSet(cache[j]) /\ (j = scan[h].kind => e.window # r.window)
<1> DEFINE k == scan[h].kind
<1>1. scan[h] \in Scan
  BY DEF HonestInv
<1>2. k \in Kinds
  BY <1>1 DEF Scan
<1>3. cache' = [cache EXCEPT ![k] = Cached(k, r)]
  BY DEF Replies
<1>4. \A e \in ToSet(Cached(k, r)) : e = r \/ (e \in ToSet(cache[k]) /\ e.window # r.window)
  BY <1>2, CachedIs DEF HonestInv, CachesOK, Holds
<1> HIDE DEF k
<1>5. \A j \in Kinds : cache'[j] = IF j = k THEN Cached(k, r) ELSE cache[j]
  BY <1>3 DEF HonestInv, CachesOK
<1> QED
  BY <1>4, <1>5 DEF k

\* A step that gives no answer leaves no entry that was not there, but for its age.
LEMMA AsksRemain ==
  ASSUME HonestInv, NEW h \in Handlers, NEW k \in Kinds, NEW w \in Windows, NEW c, Asks(h, k, w, c)
  PROVE  \A j \in Kinds : \A e \in ToSet(cache'[j]) : e \in ToSet(cache[j])
<1>1. CachesOK /\ Keyed(cache[k]) /\ Len(cache[k]) <= CacheCap
  BY DEF HonestInv, CachesOK
<1>2. PICK q : /\ cache' = cache \/ cache' = [cache EXCEPT ![k] = q]
               /\ \A e \in ToSet(q) : e \in ToSet(cache[k])
  <2>1. CASE FromCache(k, w, c)
    <3>1. PICK r \in Hit(k, w) : cache' = [cache EXCEPT ![k] = Append(Without(k, w), r)]
      BY <2>1 DEF FromCache
    <3>2. r \in ToSet(cache[k]) /\ r.window = w
      BY DEF Hit
    <3>3. Holds(Append(Without(k, w), r), k, r)
      BY <1>1, <3>2, TouchedIs
    <3> QED
      BY <3>1, <3>2, <3>3 DEF Holds
  <2>2. CASE ~FromCache(k, w, c)
    <3>1. cache' = cache \/ cache' = [cache EXCEPT ![k] = Without(k, w)]
      BY <2>2 DEF Asks
    <3>2. \A e \in ToSet(Without(k, w)) : e \in ToSet(cache[k])
      BY <1>1, WithoutIs
    <3> QED
      BY <3>1, <3>2
  <2> QED
    BY <2>1, <2>2
<1>3. \A j \in Kinds : cache'[j] = cache[j] \/ (j = k /\ cache'[j] = q)
  BY <1>1, <1>2 DEF CachesOK
<1> QED
  BY <1>2, <1>3

LEMMA ExpireRemain ==
  ASSUME HonestInv, Expire
  PROVE  \A j \in Kinds : \A e \in ToSet(cache'[j]) : \E f \in ToSet(cache[j]) : Alike(e, f)
<1>0. PICK k \in Kinds : \E i \in DOMAIN cache[k] : cache' = [cache EXCEPT ![k][i].fresh = FALSE]
  BY DEF Expire
<1>1. PICK i \in DOMAIN cache[k] : cache' = [cache EXCEPT ![k][i].fresh = FALSE]
  BY <1>0
<1> DEFINE q == cache[k]
           x == [q[i] EXCEPT !.fresh = FALSE]
           p == [q EXCEPT ![i] = x]
<1>2. q \in Seq(Result)
  BY DEF HonestInv, CachesOK
<1>3. /\ i \in 1..Len(q) /\ DOMAIN q = 1..Len(q) /\ q[i] \in Result
      /\ ToSet(q) = {q[j] : j \in 1..Len(q)}
  BY <1>1, <1>2, Entries
<1>4. cache' = [cache EXCEPT ![k] = p]
  BY <1>1
<1> HIDE DEF q
<1>5. x \in Result /\ Alike(x, q[i])
  BY <1>3 DEF Result, Alike
<1> HIDE DEF x
<1>6. p \in Seq(Result) /\ Len(p) = Len(q) /\ \A j \in 1..Len(q) : p[j] = IF j = i THEN x ELSE q[j]
  BY <1>2, <1>3, <1>5, ExceptSeq
<1> HIDE DEF p
<1>7. ToSet(p) = {p[j] : j \in 1..Len(q)}
  BY <1>6, Entries
<1>8. \A e \in ToSet(p) : \E f \in ToSet(q) : Alike(e, f)
  BY <1>3, <1>5, <1>6, <1>7 DEF Alike
<1>9. \A j \in Kinds : cache'[j] = IF j = k THEN p ELSE cache[j]
  BY <1>4 DEF HonestInv, CachesOK
<1>10. \A j \in Kinds : \A e \in ToSet(cache[j]) : Alike(e, e)
  BY DEF Alike
<1> QED
  BY <1>8, <1>9, <1>10 DEF q

\* The scan of one request changes, and no answer is given.
LEMMA GoesOrder ==
  ASSUME HonestInv, OrderInv, NEW h \in Handlers, NEW s, OrderOK(s), scan' = [scan EXCEPT ![h] = s],
         \A j \in Kinds : \A e \in ToSet(cache'[j]) : e \in ToSet(cache[j])
  PROVE  OrderInv'
<1>1. \A g \in Handlers : scan'[g] = IF g = h THEN s ELSE scan[g]
  BY DEF HonestInv
<1> QED
  BY <1>1 DEF OrderInv

LEMMA RepliesOrder ==
  ASSUME HonestInv, OrderInv, NEW h \in Handlers, NEW r \in Result, Sound(scan[h].kind, r), Replies(h, r)
  PROVE  OrderInv'
<1>1. scan' = [scan EXCEPT ![h] = Idle]
  BY DEF Replies
<1>2. OrderOK(Idle)
  BY IdleOK DEF OrderOK
<1>3. \A g \in Handlers : OrderOK(scan'[g])
  BY <1>1, <1>2 DEF OrderInv, HonestInv
<1>4. \A j \in Kinds : \A e \in ToSet(cache'[j]) : Sound(j, e)
  BY RepliesIs DEF OrderInv
<1> QED
  BY <1>3, <1>4 DEF OrderInv

LEMMA SweptOrder ==
  ASSUME HonestInv, OrderInv, NEW h \in Handlers, NEW t, Sweeps(t), t.kind = scan[h].kind,
         Sound(t.kind, Answer(t)), Swept(h, t)
  PROVE  OrderInv'
<1>1. t \in Scan /\ t.window \in Windows
  BY DEF Sweeps, Typed
<1>2. CASE t.kind = "approvals" /\ t.pairs # {}
  <2> DEFINE u == [t EXCEPT !.pc = "read"]
  <2>1. /\ u \in Scan /\ u.pc = "read" /\ u.kind = t.kind /\ u.window = t.window /\ u.chunk = t.chunk
        /\ u.history = t.history /\ u.latest = t.latest
    BY <1>1 DEF Scan
  <2>2. u.found = t.found /\ u.cut = t.cut /\ u.pairs = t.pairs /\ u.coverage = t.coverage
    BY <1>1 DEF Scan
  <2>3. scan' = [scan EXCEPT ![h] = u] /\ cache' = cache
    BY <1>2 DEF Swept, Goes
  <2> HIDE DEF u
  <2>4. Answer(u) = Answer(t)
    BY <2>1, <2>2 DEF Answer
  <2>5. OrderOK(u)
    BY <2>1, <2>4 DEF OrderOK
  <2> QED
    BY <2>3, <2>5, GoesOrder
<1>3. CASE ~(t.kind = "approvals" /\ t.pairs # {})
  <2>1. Replies(h, Answer(t))
    BY <1>3 DEF Swept
  <2>2. Answer(t) \in Result
    BY <1>1, AnswerIs
  <2> QED
    BY <2>1, <2>2, RepliesOrder
<1> QED
  BY <1>2, <1>3

\* A steady sweep asks for blocks below those it has done and within its window.
LEMMA SteadyIs ==
  ASSUME NEW s, Sweeps(s), Steady(s), head \in Blocks
  PROVE  /\ Lower(s) <= s.upper + 1 /\ s.upper <= s.latest /\ Lower(s) \in Int /\ s.upper \in Int
         /\ Chunk(s) = {l \in Logs : Lower(s) <= l.n /\ l.n <= s.upper}
<1>1. /\ Lower(s) \in Int /\ s.upper \in Int /\ s.chunk \in Int /\ s.latest \in Int /\ head \in Int
      /\ s.latest <= head /\ Oldest(s.latest, s.window) \in Nat
      /\ Lower(s) = s.upper - s.chunk + 1 \/ Lower(s) = Oldest(s.latest, s.window)
  BY LowerIs
<1>2. s.chunk >= 1 /\ s.upper <= s.latest /\ Oldest(s.latest, s.window) <= s.upper + 1
  BY DEF Steady
<1>3. Lower(s) <= s.upper + 1
  BY <1>1, <1>2
<1>4. \A l \in Logs : l.n <= s.upper => l.n <= head
  BY <1>1, <1>2, LogTypes
<1> QED
  BY <1>1, <1>2, <1>3, <1>4, ChunkIs

\* A chunk of transfers joins what lies above it.
LEMMA HeapGrows ==
  ASSUME NEW s, Sweeps(s), Steady(s), head \in Blocks, s.kind = "transfers", Heap(s), Collected(s, Done(s))
  PROVE  /\ Heap(Cleaned(s))
         /\ Covered(s) => Cleaned(s).found = {l \in Logs : l.n \in Oldest(s.latest, s.window)..s.latest}
<1> DEFINE t == Cleaned(s)
           S == Chunk(s)
           o == Oldest(s.latest, s.window)
<1>1. /\ S = {l \in Logs : Lower(s) <= l.n /\ l.n <= s.upper} /\ s.upper <= s.latest /\ Lower(s) >= o
      /\ Lower(s) \in Int /\ s.upper \in Int /\ s.latest \in Int /\ o \in Nat
  BY SteadyIs, LowerIs
<1>2. t.found = s.found \cup S /\ t.latest = s.latest /\ t.window = s.window
  <2>1. s \in Scan /\ S \in SUBSET Logs
    BY <1>1 DEF Sweeps, Typed
  <2> QED
    BY <2>1 DEF Cleaned, Scan
<1>3. s.found \in SUBSET Logs
  BY DEF Sweeps, Typed, Scan
<1>4. {l \in Logs : s.upper < l.n /\ l.n <= s.latest} \subseteq s.found
  BY DEF Collected, Done
<1>5. /\ \A l \in s.found : o <= l.n /\ l.n <= s.latest
      /\ \A x \in s.found : \A l \in Logs : x.n <= l.n /\ l.n <= s.latest => l \in s.found
  BY DEF Heap
<1>6. \A l \in t.found : o <= l.n /\ l.n <= s.latest
  <2>1. \A l \in S : o <= l.n /\ l.n <= s.latest
    BY <1>1, LogTypes
  <2> QED
    BY <1>2, <1>5, <2>1
<1>7. ASSUME NEW x \in t.found, NEW l \in Logs, x.n <= l.n, l.n <= s.latest PROVE l \in t.found
  <2>1. CASE x \in s.found
    BY <1>2, <1>5, <1>7, <2>1
  <2>2. CASE x \in S
    <3>1. x \in Logs /\ Lower(s) <= x.n
      BY <1>1, <2>2
    <3>2. Lower(s) <= l.n
      BY <1>1, <1>7, <3>1, LogTypes
    <3>3. CASE l.n <= s.upper
      BY <1>1, <1>2, <3>2, <3>3
    <3>4. CASE s.upper < l.n
      BY <1>2, <1>4, <1>7, <3>4
    <3> QED
      BY <1>1, <3>3, <3>4, LogTypes
  <2> QED
    BY <1>2, <2>1, <2>2
<1>8. Heap(t)
  BY <1>2, <1>6, <1>7 DEF Heap
<1>9. ASSUME Covered(s) PROVE t.found = {l \in Logs : l.n \in o..s.latest}
  <2>1. Lower(s) <= o
    BY <1>9 DEF Covered
  <2>2. \A l \in Logs : l.n \in o..s.latest => l \in t.found
    <3> SUFFICES ASSUME NEW l \in Logs, l.n \in o..s.latest PROVE l \in t.found
      OBVIOUS
    <3>1. l.n \in Int /\ Lower(s) <= l.n /\ l.n <= s.latest
      BY <1>1, <2>1, LogTypes
    <3>2. CASE l.n <= s.upper
      BY <1>1, <1>2, <3>1, <3>2
    <3>3. CASE s.upper < l.n
      BY <1>2, <1>4, <3>1, <3>3
    <3> QED
      BY <1>1, <3>1, <3>2, <3>3
  <2>3. \A l \in t.found : l \in Logs /\ l.n \in o..s.latest
    <3>1. \A l \in t.found : l \in Logs
      BY <1>1, <1>2, <1>3
    <3> QED
      BY <1>1, <1>6, <3>1, LogTypes
  <2> QED
    BY <2>2, <2>3
<1> QED
  BY <1>8, <1>9

\* What a flush does to a list without holes: the events lie below it, and whatever is newer than
\* one of them is an event too or in the list.
LEMMA FlushedOrder ==
  ASSUME NEW s \in Scan, Len(s.history) <= HistoryCap, NEW S \in SUBSET Logs,
         Descending(s.history), Closed(s.history, s.latest),
         \A i \in 1..Len(s.history) : \A l \in S : Newer(s.history[i], l),
         s.cut => Len(s.history) = HistoryCap,
         \A x \in S : \A l \in Logs :
           l.n <= s.latest /\ Newer(l, x) => l \in S \/ l \in ToSet(s.history) \/ s.cut
  PROVE  LET t == Flushed(s, S)
         IN  /\ Descending(t.history) /\ Closed(t.history, s.latest)
             /\ t.cut => Len(t.history) = HistoryCap
             /\ \A i \in 1..Len(t.history) : t.history[i] \in ToSet(s.history) \cup S
<1> DEFINE E == Unkept(s, S)
           n == Len(s.history)
           c == Cardinality(E)
           m == Fitting(s, S)
           t == Flushed(s, S)
           H == t.history
           q == Sorted(E)
           o == s.history
<1>1. /\ n \in Nat /\ m \in 0..c /\ E \in SUBSET Logs
      /\ H \in Seq(Logs) /\ Len(H) = n + m /\ n + m <= HistoryCap
      /\ \A i \in 1..n : H[i] = o[i]
      /\ \A i \in 1..m : H[n + i] = q[i]
      /\ t.cut <=> (s.cut \/ m # c)
      /\ m # c => n + m = HistoryCap
  BY FlushedIs
<1>2. c \in Nat
  BY <1>1, FiniteLogs
<1>3. /\ DOMAIN q = 1..c /\ ToSet(q) = E
      /\ \A i \in 1..c : q[i] \in E /\ Rank(E, q[i]) = i - 1
      /\ \A l \in E : q[Rank(E, l) + 1] = l /\ Rank(E, l) + 1 \in 1..c
      /\ \A i, j \in 1..c : i < j => Newer(q[i], q[j])
  BY <1>1, SortedIs
<1>4. /\ \A k \in E, l \in Logs : Newer(k, l) => Rank(E, k) < Rank(E, l)
      /\ \A l \in Logs : Rank(E, l) \in Nat
  BY <1>1, RankIs
<1>5. E \subseteq S /\ ToSet(o) = {o[i] : i \in 1..n} /\ o \in Seq(Logs) /\ \A l \in S : l \in E \/ l \in ToSet(o)
  <2>1. o \in Seq(Logs)
    BY DEF Scan
  <2> QED
    BY <2>1 DEF Unkept, ToSet
<1>6. ToSet(H) = {H[i] : i \in 1..(n + m)}
  BY <1>1 DEF ToSet
<1>7. /\ \A i, j \in 1..n : i < j => Newer(o[i], o[j])
      /\ \A i \in 1..n : \A l \in Logs : l.n <= s.latest /\ Newer(l, o[i]) => l \in ToSet(o)
      /\ \A i \in 1..n : \A l \in S : Newer(o[i], l)
      /\ s.cut => n = HistoryCap
      /\ \A x \in S : \A l \in Logs : l.n <= s.latest /\ Newer(l, x) => l \in S \/ l \in ToSet(o) \/ s.cut
  BY DEF Descending, Closed
<1>8. HistoryCap \in Nat
  BY SmallConstants
<1> HIDE DEF E, n, c, m, t, H, q, o
<1>9. \A i \in 1..(n + m) : i \in 1..n \/ \E j \in 1..m : i = n + j
  <2> SUFFICES ASSUME NEW i \in 1..(n + m), ~(i \in 1..n) PROVE \E j \in 1..m : i = n + j
    OBVIOUS
  <2>1. i - n \in 1..m /\ i = n + (i - n)
    BY <1>1, <1>2
  <2> QED
    BY <2>1
<1>10. \A j \in 1..m : j \in 1..c /\ n + j \in 1..(n + m)
  BY <1>1, <1>2
<1>11. \A i \in 1..n : i \in 1..(n + m)
  BY <1>1, <1>2
<1>12. ToSet(o) \subseteq ToSet(H)
  BY <1>1, <1>5, <1>6, <1>11
<1>13. Descending(H)
  <2> SUFFICES ASSUME NEW i \in 1..(n + m), NEW j \in 1..(n + m), i < j PROVE Newer(H[i], H[j])
    BY <1>1 DEF Descending
  <2>1. CASE j \in 1..n
    <3>1. i \in 1..n
      BY <1>1, <2>1
    <3> QED
      BY <1>1, <1>7, <2>1, <3>1
  <2>2. CASE ~(j \in 1..n)
    <3>1. PICK b \in 1..m : j = n + b
      BY <1>9, <2>2
    <3>2. H[j] = q[b] /\ q[b] \in S
      BY <1>1, <1>3, <1>5, <1>10, <3>1
    <3>3. CASE i \in 1..n
      BY <1>1, <1>7, <3>2, <3>3
    <3>4. CASE ~(i \in 1..n)
      <4>1. PICK a \in 1..m : i = n + a
        BY <1>9, <3>4
      <4>2. a < b
        BY <1>1, <1>2, <3>1, <4>1
      <4> QED
        BY <1>1, <1>3, <1>10, <3>2, <4>1, <4>2
    <3> QED
      BY <3>3, <3>4
  <2> QED
    BY <2>1, <2>2
<1>14. Closed(H, s.latest)
  <2> SUFFICES ASSUME NEW i \in 1..(n + m), NEW l \in Logs, l.n <= s.latest, Newer(l, H[i])
               PROVE  l \in ToSet(H)
    BY <1>1 DEF Closed
  <2>1. CASE i \in 1..n
    BY <1>1, <1>7, <1>12, <2>1
  <2>2. CASE ~(i \in 1..n)
    <3>1. PICK b \in 1..m : i = n + b
      BY <1>9, <2>2
    <3>2. H[i] = q[b] /\ q[b] \in S /\ q[b] \in E /\ Rank(E, q[b]) = b - 1
      BY <1>1, <1>3, <1>5, <1>10, <3>1
    <3>3. ~s.cut
      <4>1. s.cut => m = 0
        BY <1>1, <1>2, <1>7, <1>8
      <4>2. m >= 1
        BY <1>1, <1>2
      <4> QED
        BY <4>1, <4>2
    <3>4. l \in S \/ l \in ToSet(o)
      BY <1>7, <3>2, <3>3
    <3>5. CASE l \in ToSet(o)
      BY <1>12, <3>5
    <3>6. CASE l \in E
      <4> DEFINE a == Rank(E, l) + 1
      <4>1. Rank(E, l) < Rank(E, q[b]) /\ Rank(E, l) \in Int
        <5>1. Newer(l, q[b]) /\ q[b] \in Logs
          BY <1>1, <3>2
        <5> QED
          BY <1>4, <3>6, <5>1
      <4>2. a \in 1..c /\ q[a] = l
        BY <1>3, <3>6
      <4>3. a \in 1..m
        BY <1>1, <1>2, <3>2, <4>1, <4>2
      <4> HIDE DEF a
      <4>4. H[n + a] = l /\ n + a \in 1..(n + m)
        BY <1>1, <1>10, <4>2, <4>3
      <4> QED
        BY <1>6, <4>4
    <3> QED
      BY <1>5, <3>4, <3>5, <3>6
  <2> QED
    BY <2>1, <2>2
<1>15. t.cut => Len(H) = HistoryCap
  <2>1. s.cut => n + m = HistoryCap
    BY <1>1, <1>2, <1>7, <1>8
  <2> QED
    BY <1>1, <2>1
<1>16. \A i \in 1..(n + m) : H[i] \in ToSet(o) \cup S
  <2> SUFFICES ASSUME NEW i \in 1..(n + m) PROVE H[i] \in ToSet(o) \cup S
    OBVIOUS
  <2>1. CASE i \in 1..n
    BY <1>1, <1>5, <2>1
  <2>2. CASE ~(i \in 1..n)
    <3>1. PICK b \in 1..m : i = n + b
      BY <1>9, <2>2
    <3> QED
      BY <1>1, <1>3, <1>5, <1>10, <3>1
  <2> QED
    BY <2>1, <2>2
<1> QED
  BY <1>1, <1>13, <1>14, <1>15, <1>16 DEF n, t, H, o

\* The history of approvals grows by a chunk, and stays a list without holes.
LEMMA TidyGrows ==
  ASSUME NEW s, Sweeps(s), Steady(s), head \in Blocks, s.kind # "transfers", Tidy(s),
         Collected(s, Done(s))
  PROVE  /\ Descending(Cleaned(s).history) /\ Closed(Cleaned(s).history, s.latest)
         /\ \A i \in 1..Len(Cleaned(s).history) :
              Lower(s) <= Cleaned(s).history[i].n /\ Cleaned(s).history[i].n <= s.latest
         /\ Cleaned(s).cut => Len(Cleaned(s).history) = HistoryCap
<1> DEFINE S == Chunk(s)
           r == Recorded(s, S)
           t == Flushed(r, S)
           o == s.history
<1>1. /\ S = {l \in Logs : Lower(s) <= l.n /\ l.n <= s.upper} /\ s.upper <= s.latest
      /\ Lower(s) <= s.upper + 1 /\ Lower(s) \in Int /\ s.upper \in Int /\ s.latest \in Int
  BY SteadyIs, LowerIs
<1>2. S \in SUBSET Logs /\ s \in Scan /\ Len(o) <= HistoryCap /\ o \in Seq(Logs)
  BY <1>1 DEF Sweeps, Typed, Scan
<1>3. Cleaned(s) = t
  BY DEF Cleaned
<1>4. SameRange(s, r) /\ r.history = o /\ r.cut = s.cut
  BY <1>2, RecordedIs
<1>5. r \in Scan /\ r.latest = s.latest
  BY <1>4 DEF SameRange
<1>6. /\ Descending(o) /\ Closed(o, s.latest)
      /\ s.cut => Len(o) = HistoryCap
      /\ \A i \in 1..Len(o) : s.upper < o[i].n /\ o[i].n <= s.latest
  BY DEF Tidy
<1>7. \A i \in 1..Len(o) : o[i] \in Logs
  BY <1>2, ElementOfSeq
<1>8. s.cut \/ {l \in Logs : s.upper < l.n /\ l.n <= s.latest} \subseteq ToSet(o)
  BY DEF Collected, Done
<1>9. ToSet(o) = {o[i] : i \in 1..Len(o)}
  BY <1>2 DEF ToSet
<1> HIDE DEF S, r
<1>10. \A i \in 1..Len(o) : \A l \in S : Newer(o[i], l)
  BY <1>1, <1>6, <1>7, LogTypes DEF Newer
<1>11. ASSUME NEW x \in S, NEW l \in Logs, l.n <= s.latest, Newer(l, x)
       PROVE  l \in S \/ l \in ToSet(o) \/ s.cut
  <2>1. x \in Logs /\ Lower(s) <= x.n /\ l.n >= x.n
    BY <1>1, <1>11, NewerIsAnOrder
  <2>2. l.n \in Int /\ x.n \in Int
    BY <2>1, LogTypes
  <2>3. CASE l.n <= s.upper
    BY <1>1, <2>1, <2>2, <2>3
  <2>4. CASE s.upper < l.n
    BY <1>8, <1>11, <2>4
  <2> QED
    BY <1>1, <2>2, <2>3, <2>4
<1> HIDE DEF o
<1>12. /\ Descending(t.history) /\ Closed(t.history, s.latest)
       /\ t.cut => Len(t.history) = HistoryCap
       /\ \A i \in 1..Len(t.history) : t.history[i] \in ToSet(o) \cup S
  <2> DEFINE R(u) == /\ Descending(u.history) /\ Closed(u.history, r.latest)
                     /\ u.cut => Len(u.history) = HistoryCap
                     /\ \A i \in 1..Len(u.history) : u.history[i] \in ToSet(r.history) \cup S
  <2>1. /\ Len(r.history) <= HistoryCap /\ Descending(r.history) /\ Closed(r.history, r.latest)
        /\ r.cut => Len(r.history) = HistoryCap
        /\ \A i \in 1..Len(r.history) : \A l \in S : Newer(r.history[i], l)
    <3>1. Len(r.history) <= HistoryCap /\ (r.cut => Len(r.history) = HistoryCap)
      BY <1>2, <1>4, <1>6
    <3>2. Descending(r.history) /\ Closed(r.history, r.latest)
      BY <1>4, <1>5, <1>6, Zenon
    <3>3. \A i \in 1..Len(r.history) : \A l \in S : Newer(r.history[i], l)
      BY <1>4, <1>10, Zenon
    <3> QED
      BY <3>1, <3>2, <3>3
  <2>2. \A x \in S : \A l \in Logs :
          l.n <= r.latest /\ Newer(l, x) => l \in S \/ l \in ToSet(r.history) \/ r.cut
    BY <1>4, <1>5, <1>11
  <2>3. R(t)
    BY <1>2, <1>5, <2>1, <2>2, FlushedOrder
  <2> QED
    BY <1>4, <1>5, <2>3
<1>13. \A l \in ToSet(o) \cup S : Lower(s) <= l.n /\ l.n <= s.latest
  <2>1. \A l \in ToSet(o) : l \in Logs /\ s.upper < l.n /\ l.n <= s.latest
    BY <1>6, <1>7, <1>9
  <2>2. \A l \in ToSet(o) : Lower(s) <= l.n
    BY <1>1, <2>1, LogTypes
  <2>3. \A l \in S : Lower(s) <= l.n /\ l.n <= s.latest
    BY <1>1, LogTypes
  <2> QED
    BY <2>1, <2>2, <2>3
<1> QED
  BY <1>3, <1>12, <1>13

\* A chunk that is done: the sweep goes on below it.
LEMMA OnwardOrder ==
  ASSUME NEW s, Sweeps(s), OrderOK(s), head \in Blocks, Collected(s, Done(s)), NEW t, t = Cleaned(s)
  PROVE  OrderOK(Onward(t))
<1> DEFINE u == Onward(t)
<1>1. Steady(s) /\ IF s.kind = "transfers" THEN Heap(s) ELSE Tidy(s)
  BY DEF OrderOK, Sweeps
<1>2. SameRange(s, t) /\ Len(t.history) <= HistoryCap
  BY CleanedIs
<1>3. /\ Sweeps(t) /\ Lower(t) = Lower(s) /\ t.kind = s.kind /\ t.latest = s.latest
      /\ t.window = s.window /\ t.chunk = s.chunk /\ t.ceiling = s.ceiling
  BY <1>2, SameSweep DEF SameRange
<1>4. /\ SameFinds(t, u) /\ u.upper = Lower(t) - 1 /\ u.ceiling = t.ceiling
      /\ u.chunk \in {2 * t.chunk, t.ceiling, MaxChunk}
  BY <1>3, OnwardIs
<1> HIDE DEF u
<1>5. /\ u.kind = s.kind /\ u.latest = s.latest /\ u.window = s.window /\ u.found = t.found
      /\ u.history = t.history /\ u.cut = t.cut
  BY <1>3, <1>4 DEF SameFinds
<1>6. Steady(u)
  <2>1. /\ Lower(s) <= s.upper + 1 /\ s.upper <= s.latest /\ Lower(s) \in Int /\ s.upper \in Int
        /\ s.latest \in Int /\ Oldest(s.latest, s.window) \in Nat
        /\ Lower(s) >= Oldest(s.latest, s.window)
    BY <1>1, SteadyIs, LowerIs
  <2>2. u.upper <= u.latest /\ Oldest(u.latest, u.window) <= u.upper + 1
    BY <1>3, <1>4, <1>5, <2>1
  <2>3. s.chunk >= 1 /\ s.ceiling >= 1 /\ s.chunk \in Int /\ MaxChunk >= 1
    BY <1>1, LowerIs, SmallConstants DEF Steady
  <2>4. u.chunk >= 1 /\ u.ceiling >= 1
    BY <1>3, <1>4, <2>3
  <2> QED
    BY <2>2, <2>4 DEF Steady
<1>7. CASE s.kind = "transfers"
  <2>1. Heap(t)
    BY <1>1, <1>7, HeapGrows
  <2>2. Heap(u)
    BY <1>3, <1>5, <2>1 DEF Heap
  <2> QED
    BY <1>4, <1>5, <1>6, <1>7, <2>2, <1>3 DEF OrderOK, SameFinds, Sweeps, u
<1>8. CASE s.kind # "transfers"
  <2>1. /\ Descending(t.history) /\ Closed(t.history, s.latest)
        /\ \A i \in 1..Len(t.history) : Lower(s) <= t.history[i].n /\ t.history[i].n <= s.latest
        /\ t.cut => Len(t.history) = HistoryCap
    BY <1>1, <1>8, TidyGrows
  <2>2. \A i \in 1..Len(t.history) : t.history[i] \in Logs
    BY <1>3, ElementOfSeq DEF Sweeps, Typed, Scan
  <2>3. \A i \in 1..Len(t.history) : Lower(s) - 1 < t.history[i].n
    BY <2>1, <2>2, LogTypes, LowerIs
  <2>4. Tidy(u)
    BY <1>3, <1>4, <1>5, <2>1, <2>3 DEF Tidy
  <2> QED
    BY <1>4, <1>5, <1>6, <1>8, <2>4, <1>3 DEF OrderOK, SameFinds, Sweeps, u
<1> QED
  BY <1>7, <1>8

\* The rows of transfers are in order, without a hole.
LEMMA HeapSound ==
  ASSUME NEW s, s \in Scan, s.window \in Windows, s.kind = "transfers", s.latest \in Blocks,
         Oldest(s.latest, s.window) \in Nat, Heap(s),
         s.coverage = "complete" =>
           s.found = {l \in Logs : l.n \in Oldest(s.latest, s.window)..s.latest}
  PROVE  Sound(s.kind, Answer(s))
<1> DEFINE a == Answer(s)
           F == s.found
           o == Oldest(s.latest, s.window)
<1>1. a.rows = Sorted(F) /\ a.base = s.latest /\ a.window = s.window /\ a.coverage = s.coverage
  BY AnswerIs
<1>2. F \in SUBSET Logs /\ s.latest \in Int /\ s.latest # None
  BY SmallConstants DEF Scan, Blocks, None
<1>3. /\ DOMAIN Sorted(F) = 1..Cardinality(F) /\ ToSet(Sorted(F)) = F
      /\ \A i \in 1..Cardinality(F) : Sorted(F)[i] \in F
      /\ \A i, j \in 1..Cardinality(F) : i < j => Newer(Sorted(F)[i], Sorted(F)[j])
  BY <1>2, SortedIs
<1> HIDE DEF a
<1>4. InWindow(a) = {l \in Logs : l.n \in o..s.latest}
  BY <1>1, <1>2 DEF InWindow
<1>5. \A x \in F : \A l \in Logs : x.n <= l.n /\ l.n <= s.latest => l \in F
  BY DEF Heap
<1> HIDE DEF F, o
<1>6. \A x \in F : \A l \in InWindow(a) : Newer(l, x) => l \in F
  <2>1. \A l \in InWindow(a) : l \in Logs /\ l.n <= s.latest
    BY <1>4
  <2> QED
    BY <1>2, <1>5, <2>1, NewerIsAnOrder, LogTypes
<1>7. HoleFree(a)
  BY <1>1, <1>3, <1>6 DEF HoleFree
<1>8. a.coverage = "complete" => a.base \in Blocks /\ a.rows = Sorted(InWindow(a))
  BY <1>1, <1>4 DEF F, o
<1> QED
  BY <1>7, <1>8 DEF Sound, a

\* The rows of approvals.
LEMMA TidySound ==
  ASSUME NEW s, s \in Scan, s.window \in Windows, s.kind # "transfers",
         Descending(s.history), Closed(s.history, s.latest)
  PROVE  Sound(s.kind, Answer(s))
<1> DEFINE a == Answer(s)
           o == s.history
<1>1. a.rows = o /\ a.base = s.latest /\ a.window = s.window
  BY AnswerIs
<1>2. o \in Seq(Logs) /\ DOMAIN o = 1..Len(o)
  BY DEF Scan
<1> HIDE DEF a
<1>3. \A l \in InWindow(a) : l \in Logs /\ l.n <= s.latest
  <2>1. InWindow(a) = {} \/ (s.latest \in Blocks /\ InWindow(a) = {l \in Logs : l.n \in Oldest(s.latest, s.window)..s.latest})
    BY <1>1 DEF InWindow, Scan
  <2> QED
    BY <2>1
<1>4. HoleFree(a)
  BY <1>1, <1>2, <1>3 DEF HoleFree, Descending, Closed
<1> QED
  BY <1>4 DEF Sound, a

\* A sweep that has found and kept the same.
LEMMA SameOrder ==
  ASSUME NEW s, s.pc = "sweep", OrderOK(s), NEW t, SameRange(s, t), t.found = s.found,
         t.history = s.history, t.cut = s.cut
  PROVE  OrderOK(t)
BY DEF OrderOK, SameRange, Steady, Heap, Tidy

\* The answer of a sweep that ends, with what it has.
LEMMA SweepSound ==
  ASSUME NEW s, Sweeps(s), OrderOK(s), head \in Blocks, s.coverage # "complete"
  PROVE  Sound(s.kind, Answer(s))
<1>1. s \in Scan /\ s.window \in Windows /\ s.latest \in Blocks /\ Oldest(s.latest, s.window) \in Nat
  BY LowerIs DEF Sweeps, Typed
<1>2. IF s.kind = "transfers" THEN Heap(s) ELSE Tidy(s)
  BY DEF OrderOK, Sweeps
<1>3. CASE s.kind = "transfers"
  BY <1>1, <1>2, <1>3, HeapSound
<1>4. CASE s.kind # "transfers"
  BY <1>1, <1>2, <1>4, TidySound DEF Tidy
<1> QED
  BY <1>3, <1>4

\* The answer of a sweep whose last chunk is done.
LEMMA CleanSound ==
  ASSUME NEW d, Sweeps(d), OrderOK(d), head \in Blocks, Collected(d, Done(d)), Covered(d)
  PROVE  LET c == [Cleaned(d) EXCEPT !.coverage = "complete"] IN Sound(c.kind, Answer(c))
<1> DEFINE t == Cleaned(d)
           c == [t EXCEPT !.coverage = "complete"]
<1>1. SameRange(d, t) /\ Len(t.history) <= HistoryCap
  BY CleanedIs
<1>2. Sweeps(t) /\ t.kind = d.kind /\ t.latest = d.latest /\ t.window = d.window
  BY <1>1, SameSweep DEF SameRange
<1>3. Steady(d) /\ IF d.kind = "transfers" THEN Heap(d) ELSE Tidy(d)
  BY DEF OrderOK, Sweeps
<1>4. d.kind = "transfers" =>
        Heap(t) /\ t.found = {l \in Logs : l.n \in Oldest(t.latest, t.window)..t.latest}
  BY <1>2, <1>3, HeapGrows
<1>5. d.kind # "transfers" => Descending(t.history) /\ Closed(t.history, t.latest)
  BY <1>2, <1>3, TidyGrows
<1> HIDE DEF t
<1>6. /\ Sweeps(c) /\ c.kind = t.kind /\ c.coverage = "complete" /\ c.found = t.found
      /\ c.history = t.history /\ c.latest = t.latest /\ c.window = t.window
  BY <1>2, CoverageIs DEF Coverages
<1> HIDE DEF c
<1>7. c \in Scan /\ c.window \in Windows /\ c.latest \in Blocks /\ Oldest(c.latest, c.window) \in Nat
  BY <1>6, LowerIs DEF Sweeps, Typed
<1>8. CASE d.kind = "transfers"
  <2>1. Heap(c)
    BY <1>4, <1>6, <1>8 DEF Heap
  <2>2. c.found = {l \in Logs : l.n \in Oldest(c.latest, c.window)..c.latest}
    BY <1>4, <1>6, <1>8
  <2>3. Sound(c.kind, Answer(c))
    BY <1>2, <1>6, <1>7, <1>8, <2>1, <2>2, HeapSound
  <2> QED
    BY <2>3 DEF c, t
<1>9. CASE d.kind # "transfers"
  <2>1. Descending(c.history) /\ Closed(c.history, c.latest)
    BY <1>5, <1>6, <1>9
  <2>2. Sound(c.kind, Answer(c))
    BY <1>2, <1>6, <1>7, <1>9, <2>1, TidySound
  <2> QED
    BY <2>2 DEF c, t
<1> QED
  BY <1>8, <1>9

LEMMA ScanStepOrder ==
  ASSUME HonestInv, OrderInv, NEW h \in Handlers, ScanStep(h), Rejected(h) => scan[h].chunk > 1
  PROVE  OrderInv'
<1> DEFINE s == scan[h]
           d == Dispatched(s)
<1>1. ScanOK(s, head) /\ s \in Scan /\ head \in Blocks /\ Typed(s) /\ OrderOK(s)
  BY DEF HonestInv, OrderInv, ScanOK
<1>2. s.pc = "sweep" => Sweeps(s) /\ Collected(s, Done(s))
  BY <1>1 DEF ScanOK, Typed, Sweeps
<1>3. ASSUME s.pc = "sweep", ~Spent(s)
      PROVE  /\ SameRange(s, d) /\ Sweeps(d) /\ d.kind = s.kind /\ Collected(d, Done(d)) /\ OrderOK(d)
             /\ d.chunk = s.chunk
  <2>1. /\ SameRange(s, d) /\ d.found = s.found /\ d.history = s.history /\ d.cut = s.cut
        /\ d.pairs = s.pairs /\ d.coverage = s.coverage
    BY <1>1, <1>3, DispatchedIs
  <2> HIDE DEF d
  <2>2. Sweeps(d) /\ d.kind = s.kind /\ Done(d) = Done(s)
    BY <1>1, <1>2, <1>3, <2>1, SameSweep DEF Typed
  <2>3. OrderOK(d)
    BY <1>1, <1>3, <2>1, SameOrder
  <2>4. Collected(d, Done(d))
    BY <1>2, <1>3, <2>1, <2>2 DEF Collected
  <2> QED
    BY <2>1, <2>2, <2>3, <2>4 DEF SameRange
<1>4. CASE ReadHead(h)
  <2>1. s.pc = "head" /\ Goes(h, Started(s))
    BY <1>4 DEF ReadHead, Started
  <2> DEFINE t == Started(s)
  <2>2. /\ Sweeps(t) /\ t.latest = head /\ t.upper = head /\ t.chunk = InitialChunk
        /\ t.ceiling = MaxChunk /\ t.found = {} /\ t.history = <<>> /\ ~t.cut
    BY <1>1, <2>1, StartedIs DEF ScanOK, Blank
  <2>3. scan' = [scan EXCEPT ![h] = t] /\ cache' = cache
    BY <2>1 DEF Goes
  <2> HIDE DEF t
  <2>4. Steady(t)
    BY <1>1, <2>2, SmallConstants, LowerIs DEF Steady
  <2>5. Heap(t)
    BY <2>2 DEF Heap
  <2>6. Tidy(t)
    BY <2>2 DEF Tidy, Descending, Closed
  <2>7. OrderOK(t)
    BY <2>2, <2>4, <2>5, <2>6 DEF OrderOK, Sweeps
  <2> QED
    BY <2>3, <2>7, GoesOrder
<1>5. ASSUME Fails(h) PROVE OrderInv'
  <2>1. scan' = [scan EXCEPT ![h] = Idle] /\ cache' = cache /\ OrderOK(Idle)
    BY <1>5, IdleOK DEF Fails, OrderOK
  <2> QED
    BY <2>1, GoesOrder
<1>6. CASE StopsShort(h)
  <2> DEFINE t == [s EXCEPT !.coverage = "partial"]
  <2>1. s.pc = "sweep" /\ Swept(h, t)
    BY <1>6 DEF StopsShort
  <2>2. /\ Sweeps(t) /\ t.coverage = "partial" /\ t.kind = s.kind
        /\ SameRange(s, t) /\ t.found = s.found /\ t.history = s.history /\ t.cut = s.cut
    <3>1. /\ Sweeps(t) /\ t.coverage = "partial" /\ t.kind = s.kind /\ t.found = s.found
          /\ t.history = s.history /\ t.cut = s.cut
      BY <1>2, <2>1, CoverageIs DEF Coverages
    <3>2. t.ceiling = s.ceiling /\ t.upper = s.upper /\ t.chunk = s.chunk /\ t.latest = s.latest
      BY <1>1 DEF Scan
    <3>3. t.window = s.window /\ t.cursor = s.cursor
      BY <1>1 DEF Scan
    <3> QED
      BY <2>1, <3>1, <3>2, <3>3 DEF SameRange, Sweeps, Typed
  <2> HIDE DEF t
  <2>3. OrderOK(t)
    BY <1>1, <2>1, <2>2, SameOrder
  <2>4. Sound(t.kind, Answer(t))
    BY <1>1, <2>2, <2>3, SweepSound
  <2> QED
    BY <2>1, <2>2, <2>4, SweptOrder
<1>7. CASE Clean(h)
  <2> DEFINE t == Cleaned(d)
             c == [t EXCEPT !.coverage = "complete"]
  <2>1. s.pc = "sweep" /\ ~Spent(s)
    BY <1>7 DEF Clean
  <2>2. IF Covered(d) THEN Swept(h, c) ELSE Goes(h, Onward(t))
    BY <1>7 DEF Clean, Cleaned
  <2>3. Sweeps(d) /\ d.kind = s.kind /\ Collected(d, Done(d)) /\ OrderOK(d)
    BY <1>3, <2>1
  <2> HIDE DEF d
  <2>4. SameRange(d, t) /\ Len(t.history) <= HistoryCap
    BY <1>1, <2>3, CleanedIs
  <2>5. CASE Covered(d)
    <3>1. Swept(h, c)
      BY <2>2, <2>5
    <3>2. Sweeps(t) /\ t.kind = d.kind
      BY <2>3, <2>4, SameSweep DEF SameRange
    <3>3. Sound(c.kind, Answer(c))
      BY <1>1, <2>3, <2>5, CleanSound
    <3> HIDE DEF t
    <3>4. Sweeps(c) /\ c.kind = t.kind
      BY <3>2, CoverageIs DEF Coverages
    <3> HIDE DEF c
    <3> QED
      BY <2>3, <3>1, <3>2, <3>3, <3>4, SweptOrder
  <2>6. CASE ~Covered(d)
    <3>1. scan' = [scan EXCEPT ![h] = Onward(t)] /\ cache' = cache
      BY <2>2, <2>6 DEF Goes
    <3>2. OrderOK(Onward(t))
      BY <1>1, <2>3, OnwardOrder
    <3> QED
      BY <3>1, <3>2, GoesOrder
  <2> QED
    BY <2>5, <2>6
<1>8. CASE Rejected(h)
  <2>1. s.pc = "sweep" /\ ~Spent(s) /\ s.chunk > 1
    BY <1>8, <1>1, DispatchedIs DEF Rejected, SameRange
  <2>2. PICK t \in HalfRecorded(d) : Goes(h, Halved(t))
    BY <1>8 DEF Rejected
  <2>3. Sweeps(d) /\ OrderOK(d) /\ d.chunk > 1
    BY <1>3, <2>1
  <2> HIDE DEF d
  <2>4. SameRange(d, t) /\ t.found = d.found /\ t.history = d.history /\ t.cut = d.cut
    BY <1>1, <2>3, HalfIs
  <2>5. Sweeps(t) /\ OrderOK(t) /\ t.chunk > 1 /\ t.chunk \in Int
    <3>1. Sweeps(t)
      BY <2>3, <2>4, SameSweep DEF Sweeps, Typed
    <3>2. OrderOK(t)
      BY <2>3, <2>4, SameOrder DEF Sweeps
    <3> QED
      BY <2>3, <2>4, <3>1, <3>2 DEF SameRange, Sweeps, Typed, Scan
  <2> DEFINE u == Halved(t)
  <2>6. /\ Sweeps(u) /\ SameFinds(t, u) /\ u.upper = t.upper /\ u.chunk >= MinChunk
        /\ u.ceiling = t.chunk - 1
    BY <2>5, HalvedIs
  <2>7. scan' = [scan EXCEPT ![h] = u] /\ cache' = cache
    BY <2>2 DEF Goes
  <2> HIDE DEF u
  <2>8. u.chunk >= 1 /\ u.ceiling >= 1
    BY <2>5, <2>6, SmallConstants DEF Sweeps, Typed, Scan
  <2>9. OrderOK(u)
    BY <2>5, <2>6, <2>8 DEF OrderOK, Steady, Heap, Tidy, SameFinds, Sweeps
  <2> QED
    BY <2>7, <2>9, GoesOrder
<1>9. CASE Aborted(h)
  <2>1. s.pc = "sweep" /\ ~Spent(s)
    BY <1>9, <1>1, DispatchedIs DEF Aborted, SameRange
  <2>2. CASE Fails(h)
    BY <2>2, <1>5
  <2>3. CASE ~Fails(h)
    <3>1. PICK t \in {d, Flushed(Recorded(d, OfQuery(Chunk(d), 1)), OfQuery(Chunk(d), 1))} :
            Swept(h, [t EXCEPT !.coverage = "scan-failed"])
      BY <1>9, <2>3 DEF Aborted
    <3>2. Sweeps(d) /\ d.kind = s.kind
      BY <1>3, <2>1
    <3>3. d.kind # "transfers"
      BY <1>9, <2>3 DEF Aborted
    <3> HIDE DEF d
    <3>4. Sweeps(t) /\ t.kind = s.kind
      BY <1>1, <3>1, <3>2, HalfFlushed DEF SameRange
    <3> DEFINE c == [t EXCEPT !.coverage = "scan-failed"]
    <3>5. Sweeps(c) /\ c.kind = s.kind /\ c.coverage = "scan-failed"
      BY <3>4, CoverageIs DEF Coverages
    <3> HIDE DEF c
    <3>6. Answer(c).coverage = "scan-failed"
      BY <3>5, AnswerIs DEF Sweeps, Typed
    <3>7. Sound(c.kind, Answer(c))
      BY <3>2, <3>3, <3>5, <3>6 DEF Sound
    <3> QED
      BY <3>1, <3>5, <3>7, SweptOrder DEF c
  <2> QED
    BY <2>2, <2>3
<1>10. CASE Hung(h)
  <2> DEFINE a == Answer(Empty(s))
  <2>1. s.pc # "idle" /\ Replies(h, a)
    BY <1>10 DEF Hung, Empty
  <2>2. a \in Result /\ a.coverage # "complete" /\ a.rows = <<>>
    BY <1>1, <2>1, EmptyIs
  <2> HIDE DEF a
  <2>3. Sound(s.kind, a)
    BY <2>2 DEF Sound, HoleFree
  <2> QED
    BY <2>1, <2>2, <2>3, RepliesOrder
<1>11. CASE ReadValues(h)
  <2>1. s.pc = "read" /\ Replies(h, Answer(s))
    BY <1>11 DEF ReadValues
  <2>2. Sound(s.kind, Answer(s)) /\ s.window \in Windows
    BY <1>1, <2>1 DEF OrderOK, Typed
  <2>3. Answer(s) \in Result
    BY <1>1, <2>2, AnswerIs
  <2> QED
    BY <2>1, <2>2, <2>3, RepliesOrder
<1>12. CASE NoHead(h)
  BY <1>5, <1>12 DEF NoHead
<1> QED
  BY <1>4, <1>6, <1>7, <1>8, <1>9, <1>10, <1>11, <1>12 DEF ScanStep

LEMMA OrderNext ==
  ASSUME HonestInv, OrderInv, [Next]_vars, \A h \in Handlers : Rejected(h) => scan[h].chunk > 1
  PROVE  OrderInv'
<1>1. CASE NewBlock
  BY <1>1 DEF NewBlock, OrderInv
<1>2. CASE Expire
  <2>1. \A j \in Kinds : \A e \in ToSet(cache'[j]) : Sound(j, e)
    BY <1>2, ExpireRemain, AlikeSound DEF OrderInv
  <2> QED
    BY <1>2, <2>1 DEF Expire, OrderInv
<1>3. ASSUME NEW h \in Handlers, Ask(h) \/ Turn(h) PROVE OrderInv'
  <2>1. PICK k \in Kinds, w \in Windows, c \in Nat \cup {None} : Asks(h, k, w, c)
    BY <1>3, RequestIs
  <2>2. \A j \in Kinds : \A e \in ToSet(cache'[j]) : e \in ToSet(cache[j])
    BY <2>1, AsksRemain
  <2>3. scan' = scan \/ scan' = [scan EXCEPT ![h] = Begun(k, w, c)]
    BY <2>1 DEF Asks, FromCache, Begun
  <2>4. CASE scan' = scan
    BY <2>2, <2>4 DEF OrderInv
  <2>5. CASE scan' = [scan EXCEPT ![h] = Begun(k, w, c)]
    <3>1. OrderOK(Begun(k, w, c))
      BY BegunIs DEF OrderOK
    <3> QED
      BY <2>2, <2>5, <3>1, GoesOrder
  <2> QED
    BY <2>3, <2>4, <2>5
<1>4. ASSUME NEW h \in Handlers, ScanStep(h) PROVE OrderInv'
  BY <1>4, ScanStepOrder
<1>5. CASE UNCHANGED vars
  BY <1>5 DEF vars, OrderInv
<1> QED
  BY <1>1, <1>2, <1>3, <1>4, <1>5 DEF Next

LEMMA OrderInit == Init => OrderInv
<1> SUFFICES ASSUME Init PROVE OrderInv
  OBVIOUS
<1>1. ToSet(<<>>) = {}
  BY DEF ToSet
<1>2. \A k \in Kinds : cache[k] = <<>>
  BY DEF Init
<1>3. \A h \in Handlers : scan[h] = Idle
  BY DEF Init
<1>4. OrderOK(Idle)
  BY IdleOK DEF OrderOK
<1> QED
  BY <1>1, <1>2, <1>3, <1>4 DEF OrderInv

LEMMA OrderAlways == Spec /\ OneBlockTaken => [](HonestInv /\ OrderInv)
<1> DEFINE A == \A h \in Handlers : Rejected(h) => scan[h].chunk > 1
<1>1. HonestInv /\ OrderInv /\ [Next]_vars /\ [A]_vars => (HonestInv /\ OrderInv)'
  <2> SUFFICES ASSUME HonestInv, OrderInv, [Next]_vars, [A]_vars PROVE (HonestInv /\ OrderInv)'
    OBVIOUS
  <2>1. HonestInv'
    BY HonestNext
  <2>2. CASE A
    BY <2>1, <2>2, OrderNext
  <2>3. CASE UNCHANGED vars
    BY <2>1, <2>3 DEF vars, OrderInv
  <2> QED
    BY <2>2, <2>3
<1> HIDE DEF A
<1>2. OneBlockTaken => [][A]_vars
  BY PTL DEF OneBlockTaken, A
<1> QED
  BY <1>1, <1>2, HonestInit, OrderInit, PTL DEF Spec

\* What an answer of either scan shows is newest first and has no hole, if the provider takes a
\* range of one block: however chunks shrink and grow, a sweep only descends, so that the events
\* of a step come after all that is kept.
THEOREM NoHolesHolds == Spec /\ OneBlockTaken => []NoHoles
<1>1. HonestInv /\ OrderInv => NoHoles
  BY DEF OrderInv, Sound, HoleFree, NoHoles
<1> QED
  BY <1>1, OrderAlways, PTL

-----------------------------------------------------------------------------
(* No skips.  With one request at a time the lists that a reader pages      *)
(* through follow each other, each from a head that is not below the last.  *)

OneRequest == \A g, h \in Handlers : g = h

\* The transfers of a window that ends at b.
Listed(b) == {l \in Logs : l.n \in Oldest(b, Depth)..b}

\* What a scan owes to the reader v: it is for the next page, of a list not older than the last.
ScanPage(s, v) ==
  /\ s.cursor # None =>
       s.pc # "idle" /\ s.kind = "transfers" /\ s.window = Depth /\ s.cursor = v.next
  /\ v.whole /\ s.pc = "sweep" /\ s.kind = "transfers" /\ s.window = Depth => v.last <= s.latest

EntryPage(e, v, top) ==
  e.coverage = "complete" /\ e.window = Depth => e.base <= top /\ (v.whole => v.last <= e.base)

\* A reader of complete lists has seen, up to the head of its first page, all rows before the next.
Pages(v, top) ==
  v.whole =>
    \/ v.next = 0 /\ v.last = None
    \/ /\ v.next # 0 /\ v.first \in Blocks /\ v.last \in Blocks /\ v.first <= v.last /\ v.last <= top
       /\ \A l \in Listed(v.last) :
            l.n <= v.first /\ (v.next = None \/ Rank(Listed(v.last), l) < v.next) => l \in v.shown

PageInv ==
  /\ \A h \in Handlers : ScanPage(scan[h], view)
  /\ \A e \in ToSet(cache["transfers"]) : EntryPage(e, view, head)
  /\ Pages(view, head)

SameView(v, u) ==
  /\ v.next = u.next /\ v.shown = u.shown /\ v.first = u.first /\ v.last = u.last /\ v.whole = u.whole

LEMMA RankGrows ==
  ASSUME NEW S \in SUBSET Logs, NEW T \in SUBSET Logs, NEW l \in Logs,
         \A k \in S : Newer(k, l) => k \in T
  PROVE  Rank(S, l) <= Rank(T, l) /\ Rank(S, l) \in Nat /\ Rank(T, l) \in Nat
<1> DEFINE A == {k \in S : Newer(k, l)}
           B == {k \in T : Newer(k, l)}
<1>1. IsFiniteSet(B) /\ A \in SUBSET B
  BY FiniteLogs
<1> QED
  BY <1>1, FS_Subset, RankIs DEF Rank

LEMMA ListedIs ==
  ASSUME NEW a \in Blocks, NEW b \in Blocks, a <= b
  PROVE  /\ Listed(a) \in SUBSET Logs /\ Listed(b) \in SUBSET Logs
         /\ \A l \in Listed(b) : l.n <= a => l \in Listed(a)
         /\ \A l \in Listed(b), k \in Listed(a) : Newer(k, l) => k \in Listed(b)
<1>1. Depth \in Nat /\ Depth > 0
  <2>1. Depth \in Nat \ {0}
    BY SizesAssumption
  <2> QED
    BY <2>1
<1>2. a \in Nat /\ b \in Nat
  BY SmallConstants DEF Blocks
<1> DEFINE o == Oldest(a, Depth)
           u == Oldest(b, Depth)
<1>3. o \in Nat /\ u \in Nat /\ o <= u
  BY <1>1, <1>2 DEF Oldest
<1>4. Listed(a) = {l \in Logs : l.n \in o..a} /\ Listed(b) = {l \in Logs : l.n \in u..b}
  BY DEF Listed
<1> HIDE DEF o, u
<1> QED
  BY <1>2, <1>3, <1>4, LogTypes, NewerIsAnOrder

LEMMA ShownFields ==
  ASSUME NEW r \in Result, NEW c
  PROVE  /\ Shown(r, c).next = (IF c + Limit < Len(r.rows) THEN c + Limit ELSE None)
         /\ Shown(r, c).shown = view.shown \cup ToSet(Slice(r.rows, c, Limit))
         /\ Shown(r, c).first = (IF c = 0 THEN r.base ELSE view.first)
         /\ Shown(r, c).last = r.base
         /\ Shown(r, c).whole = (view.whole /\ r.coverage = "complete")
BY DEF Shown

\* The next page of a complete list: what came before it has been seen, the rest is on it.
LEMMA PageShown ==
  ASSUME view \in View, head \in Blocks, Pages(view, head), view.whole,
         NEW r \in Result, r.coverage = "complete", r.base \in Blocks, r.rows = Sorted(Listed(r.base)),
         view.last <= r.base, r.base <= head, NEW c \in Nat, c = view.next
  PROVE  Pages(Shown(r, c), head)
<1> DEFINE v == Shown(r, c)
           b == r.base
           W == Listed(b)
           n == Cardinality(W)
           q == Slice(Sorted(W), c, Limit)
<1>1. /\ v.next = (IF c + Limit < Len(r.rows) THEN c + Limit ELSE None)
      /\ v.shown = view.shown \cup ToSet(Slice(r.rows, c, Limit))
      /\ v.first = (IF c = 0 THEN b ELSE view.first) /\ v.last = b /\ v.whole = (view.whole /\ r.coverage = "complete")
  BY ShownFields
<1> HIDE DEF v
<1>2. W \in SUBSET Logs
  BY DEF Listed
<1>3. n \in Nat /\ Limit \in Nat /\ Limit > 0 /\ b \in Nat /\ head \in Nat
  BY <1>2, FiniteLogs, SmallConstants DEF Blocks
<1>4. /\ Sorted(W) \in Seq(Logs) /\ Len(Sorted(W)) = n
      /\ \A l \in W : Sorted(W)[Rank(W, l) + 1] = l /\ Rank(W, l) + 1 \in 1..n
  BY <1>2, SortedIs
<1>5. /\ q \in Seq(Logs)
      /\ Len(q) = IF c + Limit <= n THEN Limit ELSE IF c <= n THEN n - c ELSE 0
      /\ \A i \in 1..Len(q) : q[i] = Sorted(W)[c + i]
  <2> DEFINE R == Sorted(W)
  <2>1. R \in Seq(Logs) /\ c \in Nat /\ Limit \in Nat /\ Len(R) = n
    BY <1>3, <1>4
  <2> HIDE DEF R
  <2>2. /\ Slice(R, c, Limit) \in Seq(Logs)
        /\ Len(Slice(R, c, Limit)) = IF c + Limit <= Len(R) THEN Limit ELSE IF c <= Len(R) THEN Len(R) - c ELSE 0
        /\ \A i \in 1..Len(Slice(R, c, Limit)) : c + i \in 1..Len(R) /\ Slice(R, c, Limit)[i] = R[c + i]
    BY <2>1, SliceIs, Zenon
  <2> QED
    BY <2>1, <2>2 DEF R
<1>6. ToSet(q) = {q[i] : i \in 1..Len(q)}
  BY <1>5 DEF ToSet
<1>7. v.next = (IF c + Limit < n THEN c + Limit ELSE None) /\ v.shown = view.shown \cup ToSet(q)
  BY <1>1, <1>4
<1>8. \A l \in W : Rank(W, l) \in Nat /\ Rank(W, l) < n
  BY <1>2, RankIs
<1>9. ASSUME NEW l \in W, c <= Rank(W, l), Rank(W, l) < c + Limit PROVE l \in v.shown
  <2> DEFINE i == Rank(W, l) + 1 - c
  <2>1. Rank(W, l) \in Nat /\ Rank(W, l) < n
    BY <1>8
  <2>2. i \in 1..Len(q) /\ c + i = Rank(W, l) + 1
    <3> DEFINE k == Rank(W, l)
               m == Len(q)
    <3>1. k \in Nat /\ k < n /\ c <= k /\ k < c + Limit
      BY <1>9, <2>1
    <3>2. m = IF c + Limit <= n THEN Limit ELSE IF c <= n THEN n - c ELSE 0
      BY <1>5
    <3> HIDE DEF k, m, n
    <3>3. k + 1 - c \in 1..m /\ c + (k + 1 - c) = k + 1
      BY <1>3, <3>1, <3>2
    <3> QED
      BY <3>3 DEF k, m
  <2> HIDE DEF i
  <2>3. q[i] = l
    BY <1>4, <1>5, <2>2
  <2> QED
    BY <1>6, <1>7, <2>2, <2>3
<1>10. view.next \in Nat \cup {None} /\ view.first \in Blocks \cup {None} /\ view.last \in Blocks \cup {None}
  BY DEF View
<1> HIDE DEF q, n, W
<1>11. ASSUME NEW l \in W, v.next = None \/ Rank(W, l) < v.next PROVE Rank(W, l) < c + Limit
  <2>1. CASE v.next = None
    <3>1. ~(c + Limit < n)
      BY <1>3, <1>7, <2>1 DEF None
    <3> QED
      BY <1>3, <1>8, <3>1
  <2>2. CASE v.next # None
    BY <1>7, <1>11, <2>2
  <2> QED
    BY <2>1, <2>2
<1>12. v.next # 0
  BY <1>3, <1>7 DEF None
<1>13. CASE c = 0
  <2>1. v.first = b
    BY <1>1, <1>13
  <2>2. \A l \in W : (v.next = None \/ Rank(W, l) < v.next) => l \in v.shown
    BY <1>8, <1>9, <1>11, <1>13
  <2> QED
    BY <1>1, <1>3, <1>12, <2>1, <2>2 DEF Pages, W, v
<1>14. CASE c # 0
  <2>1. /\ view.first \in Blocks /\ view.last \in Blocks /\ view.first <= view.last
        /\ \A l \in Listed(view.last) :
             l.n <= view.first /\ Rank(Listed(view.last), l) < c => l \in view.shown
    BY <1>14 DEF Pages
  <2>2. v.first = view.first
    BY <1>1, <1>14
  <2>3. v.first \in Nat /\ view.last \in Nat
    BY <2>1, <2>2, SmallConstants DEF Blocks
  <2>4. ASSUME NEW l \in W, l.n <= v.first, Rank(W, l) < c PROVE l \in view.shown
    <3>1. /\ Listed(view.last) \in SUBSET Logs /\ l \in Logs
          /\ l.n <= view.last => l \in Listed(view.last)
          /\ \A k \in Listed(view.last) : Newer(k, l) => k \in W
      BY <1>2, <2>1, ListedIs DEF W
    <3>2. l.n <= view.last
      BY <2>1, <2>2, <2>3, <2>4, <3>1, LogTypes
    <3>3. Rank(Listed(view.last), l) <= Rank(W, l) /\ Rank(Listed(view.last), l) \in Nat
      BY <1>2, <3>1, RankGrows
    <3>4. Rank(Listed(view.last), l) < c
      BY <1>8, <2>4, <3>3
    <3> QED
      BY <2>1, <2>2, <2>4, <3>1, <3>2, <3>4
  <2>5. ASSUME NEW l \in W, l.n <= v.first, v.next = None \/ Rank(W, l) < v.next PROVE l \in v.shown
    <3>1. Rank(W, l) < c + Limit /\ Rank(W, l) \in Nat
      BY <1>8, <1>11, <2>5
    <3>2. CASE Rank(W, l) < c
      BY <1>7, <2>4, <2>5, <3>2
    <3>3. CASE c <= Rank(W, l)
      BY <1>9, <3>1, <3>3
    <3> QED
      BY <3>1, <3>2, <3>3
  <2>6. v.first <= b
    BY <1>3, <2>1, <2>2, <2>3
  <2> QED
    BY <1>1, <1>3, <1>12, <2>1, <2>2, <2>5, <2>6 DEF Pages, W, v
<1> QED
  BY <1>13, <1>14

LEMMA SameViewIs ==
  ASSUME NEW v, NEW u, SameView(v, u)
  PROVE  /\ \A s : ScanPage(s, u) => ScanPage(s, v)
         /\ \A e, top : EntryPage(e, u, top) => EntryPage(e, v, top)
         /\ \A top : Pages(u, top) => Pages(v, top)
BY DEF SameView, ScanPage, EntryPage, Pages

\* A scan changes, and the reader has got nothing.
LEMMA GoesPages ==
  ASSUME HonestInv, PageInv, NEW h \in Handlers, NEW s, ScanPage(s, view),
         scan' = [scan EXCEPT ![h] = s], head' = head, SameView(view', view),
         \A e \in ToSet(cache'["transfers"]) : e \in ToSet(cache["transfers"])
  PROVE  PageInv'
<1>1. \A g \in Handlers : scan'[g] = IF g = h THEN s ELSE scan[g]
  BY DEF HonestInv
<1>2. \A g \in Handlers : ScanPage(scan'[g], view')
  BY <1>1, SameViewIs DEF PageInv
<1>3. \A e \in ToSet(cache'["transfers"]) : EntryPage(e, view', head')
  BY SameViewIs DEF PageInv
<1>4. Pages(view', head')
  BY SameViewIs DEF PageInv
<1> QED
  BY <1>2, <1>3, <1>4 DEF PageInv

\* The reader gets a page, and no scan is under way.
LEMMA GivenPages ==
  ASSUME HonestInv, PageInv, NEW r \in Result, NEW c \in Nat, c = view.next, view' = Shown(r, c),
         head' = head,
         r.coverage = "complete" =>
           /\ r.base \in Blocks /\ r.rows = Sorted(Listed(r.base)) /\ r.base <= head
           /\ view.whole => view.last <= r.base,
         \A h \in Handlers : scan'[h].cursor = None /\ scan'[h].pc # "sweep",
         \A e \in ToSet(cache'["transfers"]) :
           e = r \/ (e \in ToSet(cache["transfers"]) /\ e.window # Depth)
  PROVE  PageInv'
<1>1. view'.last = r.base /\ view'.whole = (view.whole /\ r.coverage = "complete")
  BY ShownFields
<1>2. \A h \in Handlers : ScanPage(scan'[h], view')
  BY DEF ScanPage
<1>3. EntryPage(r, view', head)
  <2>1. r.base \in Blocks => r.base <= r.base
    BY SmallConstants DEF Blocks
  <2> QED
    BY <1>1, <2>1 DEF EntryPage
<1>4. \A e : e.window # Depth => EntryPage(e, view', head)
  BY DEF EntryPage
<1>5. \A e \in ToSet(cache'["transfers"]) : EntryPage(e, view', head')
  BY <1>3, <1>4
<1>6. Pages(view', head)
  <2>1. CASE view.whole /\ r.coverage = "complete"
    <3>1. view \in View /\ head \in Blocks /\ Pages(view, head)
      BY DEF HonestInv, PageInv
    <3> QED
      BY <2>1, <3>1, PageShown
  <2>2. CASE ~(view.whole /\ r.coverage = "complete")
    BY <1>1, <2>2 DEF Pages
  <2> QED
    BY <2>1, <2>2
<1> QED
  BY <1>2, <1>5, <1>6 DEF PageInv

\* An answer of a scan.  One that is complete has the head of the scan for its base.
LEMMA RepliesPages ==
  ASSUME OneRequest, HonestInv, PageInv, NEW h \in Handlers, NEW r \in Result,
         Sound(scan[h].kind, r), r.window = scan[h].window, Replies(h, r),
         scan[h].kind = "transfers" /\ r.coverage = "complete" =>
           scan[h].pc = "sweep" /\ r.base = scan[h].latest
  PROVE  PageInv'
<1> DEFINE s == scan[h]
           c == s.cursor
<1>1. /\ s \in Scan /\ ScanOK(s, head) /\ ScanPage(s, view) /\ head \in Blocks /\ view \in View
      /\ Pages(view, head)
  BY DEF HonestInv, PageInv
<1>2. /\ scan' = [scan EXCEPT ![h] = Idle] /\ head' = head
      /\ view' = IF c = None THEN view ELSE Shown(r, c)
  BY DEF Replies
<1>3. Idle.cursor = None /\ Idle.pc = "idle"
  BY DEF Idle
<1>4. "transfers" \in Kinds
  BY DEF Kinds
<1>5. \A e \in ToSet(cache'["transfers"]) :
        \/ s.kind = "transfers" /\ e = r
        \/ e \in ToSet(cache["transfers"]) /\ (s.kind = "transfers" => e.window # r.window)
  BY <1>4, RepliesIs
<1>6. \A g \in Handlers : g = h /\ scan'[g] = Idle
  BY <1>2 DEF OneRequest, HonestInv
<1>7. s.kind = "transfers" /\ r.coverage = "complete" /\ s.window = Depth =>
        /\ r.base \in Blocks /\ r.rows = Sorted(Listed(r.base)) /\ r.base <= head
        /\ view.whole => view.last <= r.base
  <2> SUFFICES ASSUME s.kind = "transfers", r.coverage = "complete", s.window = Depth
               PROVE  /\ r.base \in Blocks /\ r.rows = Sorted(Listed(r.base)) /\ r.base <= head
                      /\ view.whole => view.last <= r.base
    OBVIOUS
  <2>1. r.base \in Blocks /\ r.rows = Sorted(InWindow(r)) /\ s.pc = "sweep" /\ r.base = s.latest
    BY DEF Sound
  <2>2. r.base # None
    BY <2>1, SmallConstants DEF Blocks, None
  <2>3. InWindow(r) = Listed(r.base)
    BY <2>2 DEF InWindow, Listed
  <2>4. s.latest <= head /\ (view.whole => view.last <= s.latest)
    BY <1>1, <2>1 DEF ScanOK, ScanPage
  <2> QED
    BY <2>1, <2>3, <2>4
<1> HIDE DEF s, c
<1>8. CASE c = None
  <2>1. view' = view
    BY <1>2, <1>8
  <2>2. \A g \in Handlers : ScanPage(scan'[g], view)
    BY <1>3, <1>6 DEF ScanPage
  <2>3. s.kind = "transfers" => EntryPage(r, view, head)
    BY <1>7 DEF EntryPage, s
  <2>4. \A e \in ToSet(cache'["transfers"]) : EntryPage(e, view, head)
    BY <1>5, <2>3 DEF PageInv
  <2> QED
    BY <1>1, <1>2, <2>1, <2>2, <2>4 DEF PageInv
<1>9. CASE c # None
  <2>1. s.kind = "transfers" /\ s.window = Depth /\ c = view.next /\ c \in Nat
    BY <1>1, <1>9 DEF ScanPage, Scan, c
  <2>2. view' = Shown(r, c)
    BY <1>2, <1>9
  <2>3. \A e \in ToSet(cache'["transfers"]) :
          e = r \/ (e \in ToSet(cache["transfers"]) /\ e.window # Depth)
    BY <1>5, <2>1 DEF s
  <2>4. \A g \in Handlers : scan'[g].cursor = None /\ scan'[g].pc # "sweep"
    BY <1>3, <1>6
  <2> QED
    BY <1>2, <1>7, <2>1, <2>2, <2>3, <2>4, GivenPages
<1> QED
  BY <1>8, <1>9

LEMMA AsksPages ==
  ASSUME OneRequest, HonestInv, OrderInv, PageInv, NEW h \in Handlers, NEW k \in Kinds, NEW w \in Windows,
         NEW c \in Nat \cup {None}, c # None => k = "transfers" /\ w = Depth /\ c = view.next,
         Asks(h, k, w, c)
  PROVE  PageInv'
<1>1. \A j \in Kinds : \A e \in ToSet(cache'[j]) : e \in ToSet(cache[j])
  BY AsksRemain
<1>2. "transfers" \in Kinds /\ scan[h].pc = "idle" /\ \A g \in Handlers : g = h
  BY DEF Kinds, Asks, OneRequest
<1>3. CASE FromCache(k, w, c)
  <2>1. PICK r \in Hit(k, w) : /\ cache' = [cache EXCEPT ![k] = Append(Without(k, w), r)]
                              /\ view' = (IF c = None THEN view ELSE Shown(r, c))
                              /\ UNCHANGED <<head, scan>>
    BY <1>3 DEF FromCache
  <2>2. CASE c = None
    <3>1. view' = view /\ scan' = scan /\ head' = head
      BY <2>1, <2>2
    <3> QED
      BY <1>1, <1>2, <3>1 DEF PageInv
  <2>3. CASE c # None
    <3>1. k = "transfers" /\ w = Depth /\ c = view.next /\ c \in Nat /\ view' = Shown(r, c)
      BY <2>1, <2>3
    <3>2. r \in ToSet(cache["transfers"]) /\ r.window = Depth
      BY <3>1 DEF Hit
    <3>3. Keyed(cache["transfers"]) /\ Len(cache["transfers"]) <= CacheCap
      BY <1>2 DEF HonestInv, CachesOK
    <3>4. r \in Result
      BY <3>2, <3>3, Entries DEF Keyed
    <3>5. Holds(Append(Without("transfers", Depth), r), "transfers", r)
      BY <3>2, <3>3, TouchedIs
    <3>6. cache'["transfers"] = Append(Without("transfers", Depth), r)
      BY <1>2, <2>1, <3>1 DEF HonestInv, CachesOK
    <3>7. \A e \in ToSet(cache'["transfers"]) :
            e = r \/ (e \in ToSet(cache["transfers"]) /\ e.window # Depth)
      BY <3>2, <3>5, <3>6 DEF Holds
    <3>8. r.coverage = "complete" =>
            /\ r.base \in Blocks /\ r.rows = Sorted(Listed(r.base)) /\ r.base <= head
            /\ view.whole => view.last <= r.base
      <4> SUFFICES ASSUME r.coverage = "complete"
                   PROVE  /\ r.base \in Blocks /\ r.rows = Sorted(Listed(r.base)) /\ r.base <= head
                          /\ view.whole => view.last <= r.base
        OBVIOUS
      <4>1. Sound("transfers", r) /\ EntryPage(r, view, head)
        BY <1>2, <3>2 DEF OrderInv, PageInv
      <4>2. r.base \in Blocks /\ r.rows = Sorted(InWindow(r))
        BY <4>1 DEF Sound
      <4>3. r.base # None
        BY <4>2, SmallConstants DEF Blocks, None
      <4>4. InWindow(r) = Listed(r.base)
        BY <3>2, <4>3 DEF InWindow, Listed
      <4> QED
        BY <3>2, <4>1, <4>2, <4>4 DEF EntryPage
    <3>9. \A g \in Handlers : scan'[g].cursor = None /\ scan'[g].pc # "sweep"
      <4>1. \A g \in Handlers : scan'[g] = scan[h]
        BY <1>2, <2>1
      <4>2. scan[h].cursor = None
        BY <1>2 DEF PageInv, ScanPage
      <4> QED
        BY <1>2, <4>1, <4>2
    <3> QED
      BY <2>1, <3>1, <3>4, <3>7, <3>8, <3>9, GivenPages
  <2> QED
    BY <2>2, <2>3
<1>4. CASE ~FromCache(k, w, c)
  <2>1. /\ scan' = [scan EXCEPT ![h] = Begun(k, w, c)] /\ head' = head
        /\ view' = view \/ view' = [view EXCEPT !.asked = TRUE]
    BY <1>4 DEF Asks, Begun
  <2>2. SameView(view', view)
    BY <2>1 DEF SameView, HonestInv, View
  <2>3. ScanPage(Begun(k, w, c), view)
    BY BegunIs DEF ScanPage
  <2> QED
    BY <1>1, <1>2, <2>1, <2>2, <2>3, GoesPages
<1> QED
  BY <1>3, <1>4

\* The end of a sweep, for the reader.
LEMMA SweptPages ==
  ASSUME OneRequest, HonestInv, PageInv, NEW h \in Handlers, NEW t, Sweeps(t), scan[h].pc = "sweep",
         t.kind = scan[h].kind, t.window = scan[h].window, t.cursor = scan[h].cursor,
         t.latest = scan[h].latest, Sound(t.kind, Answer(t)), Swept(h, t)
  PROVE  PageInv'
<1>1. t \in Scan /\ t.window \in Windows
  BY DEF Sweeps, Typed
<1>2. CASE t.kind = "approvals" /\ t.pairs # {}
  <2> DEFINE u == [t EXCEPT !.pc = "read"]
  <2>1. u.pc = "read" /\ u.kind = t.kind /\ u.window = t.window /\ u.cursor = t.cursor
    BY <1>1 DEF Scan
  <2>2. scan' = [scan EXCEPT ![h] = u] /\ cache' = cache /\ head' = head /\ view' = view
    BY <1>2 DEF Swept, Goes
  <2> HIDE DEF u
  <2>3. ScanPage(u, view)
    BY <2>1 DEF PageInv, ScanPage
  <2> QED
    BY <2>2, <2>3, GoesPages DEF SameView
<1>3. CASE ~(t.kind = "approvals" /\ t.pairs # {})
  <2>1. Replies(h, Answer(t))
    BY <1>3 DEF Swept
  <2>2. Answer(t) \in Result /\ Answer(t).window = t.window /\ Answer(t).base = t.latest
    BY <1>1, AnswerIs
  <2> QED
    BY <2>1, <2>2, RepliesPages
<1> QED
  BY <1>2, <1>3

\* A sweep that goes on.
LEMMA OnPages ==
  ASSUME HonestInv, PageInv, NEW h \in Handlers, NEW t, scan[h].pc = "sweep", t.pc = "sweep",
         t.kind = scan[h].kind, t.window = scan[h].window, t.cursor = scan[h].cursor,
         t.latest = scan[h].latest, Goes(h, t)
  PROVE  PageInv'
<1>1. ScanPage(t, view)
  BY DEF PageInv, ScanPage
<1> QED
  BY <1>1, GoesPages DEF Goes, SameView

LEMMA ScanStepPages ==
  ASSUME OneRequest, HonestInv, OrderInv, PageInv, NEW h \in Handlers, ScanStep(h)
  PROVE  PageInv'
<1> DEFINE s == scan[h]
           d == Dispatched(s)
<1>1. ScanOK(s, head) /\ s \in Scan /\ head \in Blocks /\ Typed(s) /\ OrderOK(s) /\ ScanPage(s, view)
  BY DEF HonestInv, OrderInv, PageInv, ScanOK
<1>2. s.pc = "sweep" => Sweeps(s) /\ Collected(s, Done(s))
  BY <1>1 DEF ScanOK, Typed, Sweeps
<1>3. ASSUME s.pc = "sweep", ~Spent(s)
      PROVE  SameRange(s, d) /\ Sweeps(d) /\ Collected(d, Done(d)) /\ OrderOK(d) /\ d.kind = s.kind
  <2>1. /\ SameRange(s, d) /\ d.found = s.found /\ d.history = s.history /\ d.cut = s.cut
        /\ d.pairs = s.pairs /\ d.coverage = s.coverage
    BY <1>1, <1>3, DispatchedIs
  <2> HIDE DEF d
  <2>2. Sweeps(d) /\ d.kind = s.kind /\ Done(d) = Done(s)
    BY <1>1, <1>2, <1>3, <2>1, SameSweep DEF Typed
  <2>3. OrderOK(d)
    BY <1>1, <1>3, <2>1, SameOrder
  <2>4. Collected(d, Done(d))
    BY <1>2, <1>3, <2>1, <2>2 DEF Collected
  <2> QED
    BY <2>1, <2>2, <2>3, <2>4
<1>4. CASE ReadHead(h)
  <2>1. s.pc = "head" /\ Goes(h, Started(s))
    BY <1>4 DEF ReadHead, Started
  <2> DEFINE t == Started(s)
  <2>2. Sweeps(t) /\ t.latest = head /\ t.kind = s.kind /\ t.window = s.window /\ t.cursor = s.cursor
    BY <1>1, <2>1, StartedIs
  <2>3. scan' = [scan EXCEPT ![h] = t] /\ cache' = cache /\ head' = head /\ view' = view
    BY <2>1 DEF Goes
  <2> HIDE DEF t
  <2>4. view.whole => view.last <= head
    BY <1>1, SmallConstants DEF PageInv, Pages, Blocks, None
  <2>5. ScanPage(t, view)
    BY <1>1, <2>2, <2>4 DEF ScanPage, Sweeps
  <2> QED
    BY <2>3, <2>5, GoesPages DEF SameView
<1>5. ASSUME Fails(h) PROVE PageInv'
  <2>1. /\ scan' = [scan EXCEPT ![h] = Idle] /\ cache' = cache /\ head' = head
        /\ view' = view \/ view' = [view EXCEPT !.asked = FALSE]
    BY <1>5 DEF Fails
  <2>2. SameView(view', view)
    BY <2>1 DEF SameView, HonestInv, View
  <2>3. ScanPage(Idle, view)
    BY DEF ScanPage, Idle
  <2> QED
    BY <2>1, <2>2, <2>3, GoesPages
<1>6. CASE StopsShort(h)
  <2> DEFINE t == [s EXCEPT !.coverage = "partial"]
  <2>1. s.pc = "sweep" /\ Swept(h, t)
    BY <1>6 DEF StopsShort
  <2>2. /\ Sweeps(t) /\ t.coverage = "partial" /\ t.kind = s.kind /\ t.window = s.window
        /\ t.cursor = s.cursor /\ t.latest = s.latest /\ t.found = s.found /\ t.history = s.history
        /\ t.cut = s.cut /\ t.upper = s.upper /\ t.chunk = s.chunk
    BY <1>2, <2>1, CoverageIs DEF Coverages
  <2>3. t.ceiling = s.ceiling
    BY <1>1 DEF Scan
  <2> HIDE DEF t
  <2>4. OrderOK(t)
    BY <1>1, <2>1, <2>2, <2>3, SameOrder DEF SameRange, Sweeps, Typed
  <2>5. Sound(t.kind, Answer(t))
    BY <1>1, <2>2, <2>4, SweepSound
  <2> QED
    BY <2>1, <2>2, <2>5, SweptPages
<1>7. CASE Clean(h)
  <2> DEFINE t == Cleaned(d)
             c == [t EXCEPT !.coverage = "complete"]
  <2>1. s.pc = "sweep" /\ ~Spent(s)
    BY <1>7 DEF Clean
  <2>2. IF Covered(d) THEN Swept(h, c) ELSE Goes(h, Onward(t))
    BY <1>7 DEF Clean, Cleaned
  <2>3. Sweeps(d) /\ SameRange(s, d) /\ Collected(d, Done(d)) /\ OrderOK(d)
    BY <1>3, <2>1
  <2> HIDE DEF d
  <2>4. SameRange(d, t) /\ Len(t.history) <= HistoryCap
    BY <1>1, <2>3, CleanedIs
  <2>5. Sweeps(t)
    BY <2>3, <2>4, SameSweep
  <2>6. CASE Covered(d)
    <3>1. Sound(c.kind, Answer(c))
      BY <1>1, <2>3, <2>6, CleanSound
    <3>2. Swept(h, c)
      BY <2>2, <2>6
    <3> HIDE DEF t
    <3>3. /\ Sweeps(c) /\ c.kind = t.kind /\ c.window = t.window /\ c.cursor = t.cursor
          /\ c.latest = t.latest
      BY <2>5, CoverageIs DEF Coverages
    <3> HIDE DEF c
    <3>4. c.kind = s.kind /\ c.window = s.window /\ c.cursor = s.cursor /\ c.latest = s.latest
      BY <2>3, <2>4, <3>3 DEF SameRange
    <3> QED
      BY <2>1, <3>1, <3>2, <3>3, <3>4, SweptPages
  <2>7. CASE ~Covered(d)
    <3> DEFINE u == Onward(t)
    <3>1. Goes(h, u)
      BY <2>2, <2>7
    <3>2. SameFinds(t, u)
      BY <1>1, <2>5, OnwardIs
    <3> HIDE DEF u, t
    <3>3. /\ u.kind = s.kind /\ u.window = s.window /\ u.cursor = s.cursor /\ u.latest = s.latest
          /\ u.pc = "sweep"
      BY <2>1, <2>3, <2>4, <3>2 DEF SameRange, SameFinds
    <3> QED
      BY <2>1, <3>1, <3>3, OnPages
  <2> QED
    BY <2>6, <2>7
<1>8. CASE Rejected(h)
  <2>1. s.pc = "sweep" /\ ~Spent(s)
    BY <1>8, <1>1, DispatchedIs DEF Rejected, SameRange
  <2>2. PICK t \in HalfRecorded(d) : Goes(h, Halved(t))
    BY <1>8 DEF Rejected
  <2>3. Sweeps(d) /\ SameRange(s, d)
    BY <1>3, <2>1
  <2> HIDE DEF d
  <2>4. SameRange(d, t) /\ t.history = d.history
    BY <1>1, <2>3, HalfIs
  <2>5. Sweeps(t)
    BY <2>3, <2>4, SameSweep DEF Sweeps, Typed
  <2> DEFINE u == Halved(t)
  <2>6. SameFinds(t, u) /\ Goes(h, u)
    BY <2>2, <2>5, HalvedIs
  <2> HIDE DEF u
  <2>7. /\ u.kind = s.kind /\ u.window = s.window /\ u.cursor = s.cursor /\ u.latest = s.latest
        /\ u.pc = "sweep"
    BY <2>1, <2>3, <2>4, <2>6 DEF SameRange, SameFinds
  <2> QED
    BY <2>1, <2>6, <2>7, OnPages
<1>9. CASE Aborted(h)
  <2>1. s.pc = "sweep" /\ ~Spent(s)
    BY <1>9, <1>1, DispatchedIs DEF Aborted, SameRange
  <2>2. CASE Fails(h)
    BY <2>2, <1>5
  <2>3. CASE ~Fails(h)
    <3>1. PICK t \in {d, Flushed(Recorded(d, OfQuery(Chunk(d), 1)), OfQuery(Chunk(d), 1))} :
            Swept(h, [t EXCEPT !.coverage = "scan-failed"])
      BY <1>9, <2>3 DEF Aborted
    <3>2. Sweeps(d) /\ SameRange(s, d) /\ d.kind # "transfers"
      BY <1>3, <1>9, <2>1, <2>3 DEF Aborted
    <3> HIDE DEF d
    <3>3. SameRange(d, t) /\ Sweeps(t)
      BY <1>1, <3>1, <3>2, HalfFlushed
    <3> DEFINE c == [t EXCEPT !.coverage = "scan-failed"]
    <3>4. /\ Sweeps(c) /\ c.kind = t.kind /\ c.coverage = "scan-failed" /\ c.window = t.window
          /\ c.cursor = t.cursor /\ c.latest = t.latest
      BY <3>3, CoverageIs DEF Coverages
    <3> HIDE DEF c
    <3>5. /\ c.kind = s.kind /\ c.kind # "transfers" /\ c.window = s.window /\ c.cursor = s.cursor
          /\ c.latest = s.latest
      BY <3>2, <3>3, <3>4 DEF SameRange
    <3>6. Answer(c).coverage = "scan-failed"
      BY <3>4, AnswerIs DEF Sweeps, Typed
    <3>7. Sound(c.kind, Answer(c))
      BY <3>5, <3>6 DEF Sound
    <3> QED
      BY <2>1, <3>1, <3>4, <3>5, <3>7, SweptPages DEF c
  <2> QED
    BY <2>2, <2>3
<1>10. CASE Hung(h)
  <2> DEFINE a == Answer(Empty(s))
  <2>1. s.pc # "idle" /\ Replies(h, a)
    BY <1>10 DEF Hung, Empty
  <2>2. a \in Result /\ a.coverage # "complete" /\ a.rows = <<>> /\ a.window = s.window
    BY <1>1, <2>1, EmptyIs
  <2> HIDE DEF a
  <2>3. Sound(s.kind, a)
    BY <2>2 DEF Sound, HoleFree
  <2> QED
    BY <2>1, <2>2, <2>3, RepliesPages
<1>11. CASE ReadValues(h)
  <2>1. s.pc = "read" /\ Replies(h, Answer(s))
    BY <1>11 DEF ReadValues
  <2>2. Sound(s.kind, Answer(s)) /\ s.window \in Windows /\ s.kind = "approvals"
    BY <1>1, <2>1 DEF OrderOK, ScanOK, Typed
  <2>3. Answer(s) \in Result /\ Answer(s).window = s.window
    BY <1>1, <2>2, AnswerIs
  <2> QED
    BY <2>1, <2>2, <2>3, RepliesPages
<1>12. CASE NoHead(h)
  BY <1>5, <1>12 DEF NoHead
<1> QED
  BY <1>4, <1>6, <1>7, <1>8, <1>9, <1>10, <1>11, <1>12 DEF ScanStep

LEMMA PageNext ==
  ASSUME OneRequest, HonestInv, OrderInv, PageInv, [Next]_vars
  PROVE  PageInv'
<1>1. CASE NewBlock
  <2>1. head' = head + 1 /\ UNCHANGED <<cache, scan, view>> /\ head \in Blocks
    BY <1>1 DEF NewBlock, HonestInv
  <2>2. \A b \in Blocks \cup {None} : b <= head => b <= head + 1
    BY <2>1, SmallConstants DEF Blocks, None
  <2>3. Pages(view, head + 1)
    BY <2>2 DEF PageInv, Pages
  <2>4. ASSUME NEW e \in ToSet(cache["transfers"]) PROVE EntryPage(e, view, head + 1)
    <3>1. e \in Result
      <4>1. cache["transfers"] \in Seq(Result)
        BY DEF HonestInv, CachesOK, Kinds
      <4> QED
        BY <4>1, Entries
    <3>2. e.base \in Blocks \cup {None}
      BY <3>1 DEF Result
    <3> QED
      BY <2>2, <2>4, <3>2 DEF PageInv, EntryPage
  <2> QED
    BY <2>1, <2>3, <2>4 DEF PageInv
<1>2. CASE Expire
  <2>1. "transfers" \in Kinds /\ UNCHANGED <<head, scan, view>>
    BY <1>2 DEF Kinds, Expire
  <2>2. \A e \in ToSet(cache'["transfers"]) : \E f \in ToSet(cache["transfers"]) : Alike(e, f)
    BY <1>2, <2>1, ExpireRemain
  <2>3. \A e \in ToSet(cache'["transfers"]) : EntryPage(e, view, head)
    BY <2>2 DEF PageInv, EntryPage, Alike
  <2> QED
    BY <2>1, <2>3 DEF PageInv
<1>3. ASSUME NEW h \in Handlers, Ask(h) PROVE PageInv'
  <2>1. PICK k \in Kinds, w \in Windows : Asks(h, k, w, None)
    BY <1>3 DEF Ask
  <2> QED
    BY <2>1, AsksPages
<1>4. ASSUME NEW h \in Handlers, Turn(h) PROVE PageInv'
  <2>1. "transfers" \in Kinds /\ Depth \in Windows /\ view.next \in Nat \cup {None}
    BY SizesAssumption DEF Kinds, HonestInv, View
  <2>2. Asks(h, "transfers", Depth, view.next)
    BY <1>4 DEF Turn
  <2> QED
    BY <2>1, <2>2, AsksPages
<1>5. ASSUME NEW h \in Handlers, ScanStep(h) PROVE PageInv'
  BY <1>5, ScanStepPages
<1>6. CASE UNCHANGED vars
  BY <1>6 DEF vars, PageInv
<1> QED
  BY <1>1, <1>2, <1>3, <1>4, <1>5, <1>6 DEF Next

LEMMA PageInit == Init => PageInv
<1> SUFFICES ASSUME Init PROVE PageInv
  OBVIOUS
<1>1. cache["transfers"] = <<>> /\ ToSet(<<>>) = {}
  BY DEF Init, ToSet, Kinds
<1>2. view.next = 0 /\ view.last = None
  BY DEF Init, NoView
<1>3. \A h \in Handlers : scan[h].cursor = None /\ scan[h].pc = "idle"
  BY DEF Init, Idle
<1> QED
  BY <1>1, <1>2, <1>3 DEF PageInv, ScanPage, Pages

\* A reader that pages through complete transfer scans skips no row of the window from the head of
\* its first page down, if the provider takes a range of one block and one request is served at a
\* time: each list it reads a page of has the rows of the last one in the same order, and the rows
\* that are new to it come first, so that the next page begins with a row it has not passed.
THEOREM NoSkipsHolds ==
  ASSUME OneRequest
  PROVE  Spec /\ OneBlockTaken => []NoSkips
<1>1. HonestInv /\ OrderInv /\ PageInv /\ [Next]_vars => PageInv'
  BY PageNext
<1>2. HonestInv /\ PageInv => NoSkips
  <2> SUFFICES ASSUME HonestInv, PageInv, view.next = None, view.whole
               PROVE  {l \in Logs : l.n \in Oldest(view.last, Depth)..view.first} \subseteq view.shown
    BY DEF NoSkips
  <2>1. /\ view.first \in Blocks /\ view.last \in Blocks /\ view.first <= view.last
        /\ \A l \in Listed(view.last) : l.n <= view.first => l \in view.shown
    BY DEF PageInv, Pages, None
  <2>2. Depth \in Nat /\ view.last \in Nat /\ view.first \in Nat
    <3>1. Depth \in Nat \ {0}
      BY SizesAssumption
    <3> QED
      BY <2>1, <3>1, SmallConstants DEF Blocks
  <2>3. Oldest(view.last, Depth) \in Nat
    BY <2>2 DEF Oldest
  <2> QED
    BY <2>1, <2>2, <2>3, LogTypes DEF Listed
<1> QED
  BY <1>1, <1>2, PageInit, OrderAlways, PTL DEF Spec

=============================================================================
