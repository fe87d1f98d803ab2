---------------------------- MODULE BenchProofs ----------------------------
(***************************************************************************)
(* Theorems about Bench, for any workloads, firmwares, number of runs, time a *)
(* poll steals and contents of RAM.  Three facts carry them: the insertion    *)
(* sort returns the same times in order (SortedMeans, hence NoSpread and      *)
(* MedianIsClose); every kernel returns the same checksum on every memory     *)
(* (KernelsIndependent); and a finished mailbox holds only right pairs once   *)
(* a firmware has got past board_init (SuiteInv).                            *)
(***************************************************************************)
EXTENDS Bench, SequenceTheorems, FiniteSetTheorems, WellFoundedInduction, TLAPS

(* A set of natural numbers has a least member. *)
LEMMA LeastMember ==
  ASSUME NEW T \in SUBSET Nat, T # {} PROVE \E m \in T : \A y \in T : m <= y
<1> DEFINE R == {ss \in Nat \X Nat : ss[1] < ss[2]}
<1>1. IsWellFoundedOn(R, Nat)
  BY NatLessThanWellFounded DEF OpToRel
<1>2. PICK m \in T : \A y \in T : ~(<<y, m>> \in R)
  BY <1>1, WFMin
<1>3. ASSUME NEW y \in T PROVE m <= y
  <2>1. ~(<<y, m>> \in R) /\ <<y, m>> \in Nat \X Nat /\ y \in Nat /\ m \in Nat
    BY <1>2
  <2>2. ~(y < m)
    BY <2>1
  <2>3. QED
    BY <2>1, <2>2
<1>4. QED
  BY <1>3

-----------------------------------------------------------------------------
(* The insertion sort: any times can be put in order, one more at a time. *)
Orders(n) == Bijection(1 .. n, 1 .. n)

LEMMA OrderMeans ==
  ASSUME NEW n, NEW p
  PROVE  p \in Orders(n) <=> /\ p \in [1 .. n -> 1 .. n]
                             /\ \A a, b \in 1 .. n : p[a] = p[b] => a = b
                             /\ \A c \in 1 .. n : \E a \in 1 .. n : p[a] = c
BY DEF Orders, Bijection, Injection, Surjection, IsInjective

Orderly(n) == \A t \in [1 .. n -> Nat] :
                \E p \in Orders(n) : Ascending([r \in 1 .. n |-> t[p[r]]])

LEMMA OneMore == ASSUME NEW n \in Nat, Orderly(n) PROVE Orderly(n + 1)
<1> SUFFICES ASSUME NEW t \in [1 .. n + 1 -> Nat]
             PROVE  \E p \in Orders(n + 1) : Ascending([r \in 1 .. n + 1 |-> t[p[r]]])
  BY DEF Orderly
<1>1. PICK m \in 1 .. n + 1 : \A c \in 1 .. n + 1 : t[m] <= t[c]
  <2> DEFINE T == {t[c] : c \in 1 .. n + 1}
  <2>1. T \in SUBSET Nat /\ t[1] \in T
    OBVIOUS
  <2>2. PICK v \in T : \A y \in T : v <= y
    BY <2>1, LeastMember
  <2>3. PICK c \in 1 .. n + 1 : t[c] = v
    OBVIOUS
  <2> QED
    BY <2>2, <2>3
<1> DEFINE u == [c \in 1 .. n |-> IF c = m THEN t[n + 1] ELSE t[c]]
           back(c) == IF c = m THEN n + 1 ELSE c
<1>2. u \in [1 .. n -> Nat] /\ \A c \in 1 .. n : u[c] = t[back(c)]
  OBVIOUS
<1>3. PICK o \in Orders(n) : Ascending([r \in 1 .. n |-> u[o[r]]])
  BY <1>2 DEF Orderly
<1>4. /\ o \in [1 .. n -> 1 .. n]
      /\ \A a, b \in 1 .. n : o[a] = o[b] => a = b
      /\ \A c \in 1 .. n : \E a \in 1 .. n : o[a] = c
  BY <1>3, OrderMeans
<1>5. \A a, b \in 1 .. n : a < b => t[back(o[a])] <= t[back(o[b])]
  <2> SUFFICES ASSUME NEW a \in 1 .. n, NEW b \in 1 .. n, a < b
               PROVE  t[back(o[a])] <= t[back(o[b])]
    OBVIOUS
  <2>1. u[o[a]] <= u[o[b]]
    BY <1>3 DEF Ascending
  <2> QED
    BY <1>2, <1>4, <2>1
<1> DEFINE p == [r \in 1 .. n + 1 |-> IF r = 1 THEN m ELSE back(o[r - 1])]
<1>6. \A r \in 1 .. n + 1 : r = 1 \/ (r - 1 \in 1 .. n /\ r > 1)
  OBVIOUS
<1>0. \A c \in 1 .. n : back(c) \in 1 .. n + 1 /\ back(c) # m
  OBVIOUS
<1>7. p \in [1 .. n + 1 -> 1 .. n + 1]
  <2>1. ASSUME NEW r \in 1 .. n + 1 PROVE p[r] \in 1 .. n + 1
    <3>1. CASE r = 1
      BY <3>1
    <3>2. CASE r # 1
      BY <1>0, <1>4, <1>6, <3>2
    <3> QED
      BY <3>1, <3>2
  <2> QED
    BY <2>1
<1>8. ASSUME NEW a \in 1 .. n + 1, NEW b \in 1 .. n + 1, p[a] = p[b] PROVE a = b
  <2>1. CASE a = 1
    <3>1. b = 1 \/ back(o[b - 1]) = m
      BY <1>8, <2>1
    <3> QED
      BY <1>4, <1>6, <2>1, <3>1
  <2>2. CASE a # 1
    <3>0. a - 1 \in 1 .. n /\ o[a - 1] \in 1 .. n /\ p[a] = back(o[a - 1])
      BY <1>4, <1>6, <2>2
    <3> HIDE DEF p
    <3>1. a - 1 \in 1 .. n /\ o[a - 1] \in 1 .. n /\ p[a] = back(o[a - 1]) /\ p[a] # m
      BY <1>0, <3>0, Zenon
    <3> USE DEF p
    <3>2. b # 1
      BY <1>8, <3>1
    <3>3. b - 1 \in 1 .. n /\ o[b - 1] \in 1 .. n /\ p[b] = back(o[b - 1])
      BY <1>4, <1>6, <3>2
    <3>4. o[a - 1] = o[b - 1]
      BY <1>8, <3>1, <3>3
    <3>5. a - 1 = b - 1
      BY <1>4, <3>1, <3>3, <3>4
    <3> QED
      BY <3>5
  <2> QED
    BY <2>1, <2>2
<1>9. ASSUME NEW c \in 1 .. n + 1 PROVE \E a \in 1 .. n + 1 : p[a] = c
  <2>1. CASE c = m
    <3>1. 1 \in 1 .. n + 1 /\ p[1] = c
      BY <2>1
    <3> QED
      BY <3>1
  <2>2. CASE c # m
    <3>1. PICK d \in 1 .. n : back(d) = c
      <4>1. CASE c = n + 1
        <5>1. m \in 1 .. n /\ back(m) = c
          BY <2>2, <4>1
        <5> QED
          BY <5>1
      <4>2. CASE c # n + 1
        <5>1. c \in 1 .. n /\ back(c) = c
          BY <2>2, <4>2
        <5> QED
          BY <5>1
      <4> QED
        BY <4>1, <4>2
    <3>2. PICK a \in 1 .. n : o[a] = d
      BY <1>4
    <3>3. a + 1 \in 1 .. n + 1 /\ a + 1 # 1 /\ (a + 1) - 1 = a
      OBVIOUS
    <3>4. p[a + 1] = c
      BY <3>1, <3>2, <3>3
    <3> QED
      BY <3>3, <3>4
  <2> QED
    BY <2>1, <2>2
<1>10. p \in Orders(n + 1)
  BY <1>7, <1>8, <1>9, OrderMeans
<1>11. ASSUME NEW a \in 1 .. n + 1, NEW b \in 1 .. n + 1, a < b PROVE t[p[a]] <= t[p[b]]
  <2>1. CASE a = 1
    <3>1. p[a] = m /\ p[b] \in 1 .. n + 1
      BY <1>7, <2>1
    <3> QED
      BY <1>1, <3>1
  <2>2. CASE a # 1
    <3>1. a - 1 \in 1 .. n /\ b - 1 \in 1 .. n /\ a - 1 < b - 1 /\ b # 1
      BY <1>11, <2>2
    <3>2. p[a] = back(o[a - 1]) /\ p[b] = back(o[b - 1])
      BY <2>2, <3>1
    <3> QED
      BY <1>5, <3>1, <3>2
  <2> QED
    BY <2>1, <2>2
<1> HIDE DEF p
<1>12. Ascending([r \in 1 .. n + 1 |-> t[p[r]]])
  BY <1>11 DEF Ascending
<1> QED
  BY <1>10, <1>12

LEMMA AllOrderly == \A n \in Nat : Orderly(n)
<1> DEFINE T == {n \in Nat : ~Orderly(n)}
<1> SUFFICES ASSUME T # {} PROVE FALSE
  OBVIOUS
<1>1. PICK m \in T : \A y \in T : m <= y
  BY LeastMember
<1>2. m # 0
  <2>1. 1 .. 0 = {}
    OBVIOUS
  <2>2. ASSUME NEW t \in [1 .. 0 -> Nat] PROVE \E p \in Orders(0) : Ascending([r \in 1 .. 0 |-> t[p[r]]])
    <3> DEFINE p == [r \in 1 .. 0 |-> r]
    <3>1. p \in Orders(0)
      BY <2>1, OrderMeans
    <3>2. Ascending([r \in 1 .. 0 |-> t[p[r]]])
      BY <2>1 DEF Ascending
    <3> QED
      BY <3>1, <3>2
  <2> QED
    BY <2>2 DEF Orderly
<1>3. m - 1 \in Nat /\ (m - 1) + 1 = m /\ ~(m <= m - 1)
  BY <1>2
<1>4. Orderly(m - 1)
  BY <1>1, <1>3
<1> QED
  BY <1>3, <1>4, OneMore

(* What the sort returns: the same times, from the smallest to the largest. *)
InOrder(n, t, s) ==
  /\ s \in [1 .. n -> Nat]
  /\ \A a, b \in 1 .. n : a <= b => s[a] <= s[b]
  /\ \A c \in 1 .. n : \E a \in 1 .. n : s[a] = t[c]
  /\ \A a \in 1 .. n : \E c \in 1 .. n : s[a] = t[c]

LEMMA SortedMeans ==
  ASSUME NEW n \in Nat, NEW t \in [1 .. n -> Nat] PROVE InOrder(n, t, Sorted(t))
<1> DEFINE Good(p) == Ascending([r \in 1 .. n |-> t[p[r]]])
           o == CHOOSE p \in Orders(n) : Good(p)
<1>1. o \in Orders(n) /\ Good(o)
  <2>1. \E p \in Orders(n) : Good(p)
    BY AllOrderly DEF Orderly
  <2> QED
    BY <2>1
<1>2. Sorted(t) = [r \in 1 .. n |-> t[o[r]]]
  BY DEF Sorted, Orders
<1> HIDE DEF o
<1>3. o \in [1 .. n -> 1 .. n] /\ \A c \in 1 .. n : \E a \in 1 .. n : o[a] = c
  BY <1>1, OrderMeans
<1>4. Sorted(t) \in [1 .. n -> Nat] /\ \A a \in 1 .. n : Sorted(t)[a] = t[o[a]]
  BY <1>2, <1>3
<1>5. ASSUME NEW a \in 1 .. n, NEW b \in 1 .. n, a <= b PROVE Sorted(t)[a] <= Sorted(t)[b]
  <2>1. CASE a = b
    BY <1>4, <2>1
  <2>2. CASE a < b
    BY <1>1, <1>4, <2>2 DEF Ascending
  <2> QED
    BY <1>5, <2>1, <2>2
<1>6. ASSUME NEW c \in 1 .. n PROVE \E a \in 1 .. n : Sorted(t)[a] = t[c]
  BY <1>3, <1>4
<1> QED
  BY <1>3, <1>4, <1>5, <1>6 DEF InOrder

-----------------------------------------------------------------------------
(* reduce_runs.  A poll only adds to a time, so undisturbed times have no      *)
(* spread; and if one is undisturbed it is the smallest, and what the spread  *)
(* check lets pass, the median included, lies within 2 % of it.              *)
LEMMA Constants ==
  /\ RUNS \in Nat \ {0} /\ Steal \in Nat /\ Polls \in Nat \ {0} /\ COUNT \in Nat
  /\ \A i \in 1 .. COUNT : Duration[i] \in Nat \ {0} /\ Table[i] \in Range(BMS)
<1>1. Len(Table) \in Nat /\ \A i \in 1 .. Len(Table) : Table[i] \in Range(BMS)
  BY BenchAssumption, LenProperties, ElementOfSeq
<1> QED
  BY <1>1, BenchAssumption DEF COUNT

Slowed(pairs, i) ==
  \A run \in 0 .. (RUNS - 1) :
    pairs[Index(run, i)].us \in Nat /\ Duration[i] <= pairs[Index(run, i)].us

LEMMA TimesMean ==
  ASSUME NEW pairs, NEW i \in 1 .. COUNT, Slowed(pairs, i)
  PROVE  LET t == Times(pairs, i)
         IN /\ t \in [1 .. RUNS -> Nat] /\ \A r \in 1 .. RUNS : Duration[i] <= t[r] /\ t[r] <= t[RUNS]
            /\ \A run \in 0 .. (RUNS - 1) : t[1] <= pairs[Index(run, i)].us
            /\ \E run \in 0 .. (RUNS - 1) : t[RUNS] = pairs[Index(run, i)].us
<1> DEFINE u == Measured(pairs, i)
           t == Times(pairs, i)
<1>1. RUNS \in Nat \ {0} /\ Duration[i] \in Nat \ {0}
  BY Constants
<1>2. \A r \in 1 .. RUNS : r - 1 \in 0 .. (RUNS - 1) /\ u[r] = pairs[Index(r - 1, i)].us
  BY <1>1 DEF Measured
<1>3. \A r \in 1 .. RUNS : u[r] \in Nat /\ Duration[i] <= u[r]
  BY <1>2 DEF Slowed
<1>4. u \in [1 .. RUNS -> Nat]
  BY <1>3 DEF Measured
<1>5. t = Sorted(u)
  BY DEF Times
<1> HIDE DEF u, t
<1>6. /\ t \in [1 .. RUNS -> Nat]
      /\ \A a, b \in 1 .. RUNS : a <= b => t[a] <= t[b]
      /\ \A c \in 1 .. RUNS : \E a \in 1 .. RUNS : t[a] = u[c]
      /\ \A a \in 1 .. RUNS : \E c \in 1 .. RUNS : t[a] = u[c]
  <2>1. InOrder(RUNS, u, t)
    BY <1>1, <1>4, <1>5, SortedMeans
  <2> QED
    BY <2>1 DEF InOrder
<1>7. ASSUME NEW r \in 1 .. RUNS PROVE Duration[i] <= t[r] /\ t[r] <= t[RUNS]
  <2>1. PICK c \in 1 .. RUNS : t[r] = u[c]
    BY <1>6
  <2>2. RUNS \in 1 .. RUNS /\ r <= RUNS
    BY <1>1
  <2> QED
    BY <1>3, <1>6, <2>1, <2>2
<1>8. ASSUME NEW run \in 0 .. (RUNS - 1) PROVE t[1] <= pairs[Index(run, i)].us
  <2>1. run + 1 \in 1 .. RUNS /\ (run + 1) - 1 = run
    BY <1>1
  <2>2. u[run + 1] = pairs[Index(run, i)].us
    BY <1>2, <2>1
  <2>3. PICK a \in 1 .. RUNS : t[a] = u[run + 1]
    BY <1>6, <2>1
  <2>4. 1 \in 1 .. RUNS /\ 1 <= a
    BY <1>1
  <2> QED
    BY <1>6, <2>2, <2>3, <2>4
<1>9. \E run \in 0 .. (RUNS - 1) : t[RUNS] = pairs[Index(run, i)].us
  <2>1. RUNS \in 1 .. RUNS
    BY <1>1
  <2>2. PICK c \in 1 .. RUNS : t[RUNS] = u[c]
    BY <1>6, <2>1
  <2> QED
    BY <1>2, <2>2
<1> QED
  BY <1>6, <1>7, <1>8, <1>9 DEF t

LEMMA NoSpread ==
  ASSUME NEW pairs, NEW i \in 1 .. COUNT, Slowed(pairs, i),
         \A run \in 0 .. (RUNS - 1) : pairs[Index(run, i)].us = Duration[i]
  PROVE  ~Spread(Times(pairs, i))
<1> DEFINE t == Times(pairs, i)
<1>1. RUNS \in Nat \ {0} /\ 1 \in 1 .. RUNS /\ 0 \in 0 .. (RUNS - 1)
  BY Constants
<1>2. t[RUNS] = Duration[i] /\ t[1] = Duration[i] /\ Duration[i] \in Nat \ {0}
  <2>1. Duration[i] \in Nat \ {0}
    BY Constants
  <2>2. t[RUNS] = Duration[i] /\ t[1] <= t[RUNS] /\ Duration[i] <= t[1] /\ t[1] \in Nat
    BY <1>1, TimesMean
  <2> QED
    BY <2>1, <2>2
<1>3. ((t[RUNS] - t[1]) * 100) \div t[1] = 0
  BY <1>2
<1> QED
  BY <1>3 DEF Spread

LEMMA MedianIsClose ==
  ASSUME NEW pairs, NEW i \in 1 .. COUNT, Slowed(pairs, i), ~Spread(Times(pairs, i)),
         NEW run \in 0 .. (RUNS - 1), pairs[Index(run, i)].us = Duration[i]
  PROVE  100 * Median(Times(pairs, i)) < 102 * Duration[i]
<1> DEFINE t == Times(pairs, i)
           d == Duration[i]
           m == (RUNS \div 2) + 1
<1>1. RUNS \in Nat \ {0} /\ 1 \in 1 .. RUNS /\ d \in Nat \ {0}
  BY Constants
<1>2. m \in 1 .. RUNS /\ RUNS \in 1 .. RUNS
  BY <1>1
<1>3. t[1] = d /\ t[RUNS] \in Nat /\ d <= t[RUNS] /\ t[m] \in Nat /\ t[m] <= t[RUNS]
  <2>1. d <= t[1] /\ t[1] <= d /\ t[1] \in Nat
    BY <1>1, TimesMean
  <2>2. t[RUNS] \in Nat /\ d <= t[RUNS] /\ t[m] \in Nat /\ t[m] <= t[RUNS]
    BY <1>2, TimesMean
  <2> QED
    BY <1>1, <2>1, <2>2
<1>4. ~(((t[RUNS] - d) * 100) \div d >= 2)
  BY <1>1, <1>3 DEF Spread
<1>5. Median(t) = t[m]
  BY DEF Median
<1> HIDE DEF t, d, m
<1>6. PICK h : h = (t[RUNS] - d) * 100
  OBVIOUS
<1>7. h \in Nat
  BY <1>1, <1>3, <1>6
<1>8. h < 2 * d
  BY <1>1, <1>4, <1>6, <1>7
<1>9. 100 * t[m] <= 100 * t[RUNS] /\ 100 * t[RUNS] = h + 100 * d
  BY <1>1, <1>3, <1>6
<1>10. 100 * t[m] < 102 * d
  BY <1>1, <1>3, <1>7, <1>8, <1>9
<1> QED
  BY <1>5, <1>10 DEF t, d

-----------------------------------------------------------------------------
(* The kernels: what they return does not depend on the buffers they find.    *)
Memory(m) == m = [CRC_BUF |-> m.CRC_BUF, SORT_BUF |-> m.SORT_BUF, MAT_A |-> m.MAT_A,
                  MAT_B |-> m.MAT_B, MAT_C |-> m.MAT_C, FIB_N |-> FibArg]

Fresh == [CRC_BUF |-> <<>>, SORT_BUF |-> <<>>, MAT_A |-> <<>>, MAT_B |-> <<>>, MAT_C |-> <<>>,
          FIB_N |-> FibArg]

(* bm_sort: one array after the other. *)
Array(rep) == qsort_u32[Fill(Add(Seed(192, 65518), Bits(rep - 1)), SortLen), 1, SortLen]

SortRep(s, rep) == Result([s.mem EXCEPT !.SORT_BUF = Array(rep)], Add(s.ck, Picked(Array(rep))))

SortTurns(m, n, f) ==
  f = [i \in 0 .. n |-> IF i = 0 THEN Result(m, {}) ELSE SortRep(f[i - 1], i)]

LEMMA SortIsTurns ==
  ASSUME NEW m PROVE bm_sort(m) = (CHOOSE f : SortTurns(m, SortReps, f))[SortReps]
BY DEF bm_sort, Loop, SortTurns, SortRep, Array


LEMMA SortTurnsMean ==
  ASSUME NEW m, NEW n \in Nat, NEW f
  PROVE  SortTurns(m, n, f) <=>
           /\ f \in [0 .. n -> Range(f)] /\ f[0] = Result(m, {})
           /\ \A i \in 1 .. n : f[i] = SortRep(f[i - 1], i)
<1> DEFINE e == [i \in 0 .. n |-> IF i = 0 THEN Result(m, {}) ELSE SortRep(f[i - 1], i)]
<1>1. SortTurns(m, n, f) <=> f = e
  BY DEF SortTurns
<1>2. /\ DOMAIN e = 0 .. n /\ e[0] = Result(m, {})
      /\ \A i \in 1 .. n : e[i] = SortRep(f[i - 1], i)
  OBVIOUS
<1>3. e = [i \in 0 .. n |-> e[i]]
  OBVIOUS
<1> HIDE DEF e
<1>4. ASSUME f = e PROVE f \in [0 .. n -> Range(f)]
  BY <1>2, <1>3, <1>4 DEF Range
<1>5. ASSUME f \in [0 .. n -> Range(f)], f[0] = Result(m, {}),
             \A i \in 1 .. n : f[i] = SortRep(f[i - 1], i)
      PROVE  f = e
  <2>1. f = [i \in 0 .. n |-> f[i]]
    BY <1>5
  <2>2. \A i \in 0 .. n : f[i] = e[i]
    <3>1. ASSUME NEW i \in 0 .. n PROVE f[i] = e[i]
      <4>1. i = 0 \/ i \in 1 .. n
        OBVIOUS
      <4> QED
        BY <1>2, <1>5, <4>1, Zenon
    <3> QED
      BY <3>1
  <2> QED
    BY <1>3, <2>1, <2>2
<1> QED
  BY <1>1, <1>2, <1>4, <1>5

LEMMA SortTurnsExist == ASSUME NEW m PROVE \A n \in Nat : \E f : SortTurns(m, n, f)
<1> DEFINE T == {n \in Nat : ~\E f : SortTurns(m, n, f)}
<1> SUFFICES ASSUME T # {} PROVE FALSE
  OBVIOUS
<1>1. PICK n \in T : \A y \in T : n <= y
  BY LeastMember
<1>2. n # 0
  <2> DEFINE f == [i \in 0 .. 0 |-> Result(m, {})]
  <2>1. f \in [0 .. 0 -> Range(f)] /\ f[0] = Result(m, {}) /\ 1 .. 0 = {}
    BY DEF Range
  <2>2. SortTurns(m, 0, f)
    BY <2>1, SortTurnsMean
  <2> QED
    BY <2>2
<1>3. n \in Nat /\ n - 1 \in Nat /\ ~(n <= n - 1)
  BY <1>2
<1>4. PICK f : SortTurns(m, n - 1, f)
  BY <1>1, <1>3
<1>5. f[0] = Result(m, {}) /\ \A i \in 1 .. (n - 1) : f[i] = SortRep(f[i - 1], i)
  BY <1>3, <1>4, SortTurnsMean
<1> DEFINE g == [i \in 0 .. n |-> IF i = n THEN SortRep(f[n - 1], n) ELSE f[i]]
<1>6. g \in [0 .. n -> Range(g)] /\ g[0] = Result(m, {})
  BY <1>2, <1>3, <1>5 DEF Range
<1>7. ASSUME NEW i \in 1 .. n PROVE g[i] = SortRep(g[i - 1], i)
  <2>1. i \in 0 .. n /\ i - 1 \in 0 .. n /\ i - 1 # n /\ g[i - 1] = f[i - 1]
    BY <1>3
  <2>2. CASE i = n
    BY <2>1, <2>2
  <2>3. CASE i # n
    <3>1. i \in 1 .. (n - 1) /\ g[i] = f[i]
      BY <1>3, <2>1, <2>3
    <3> QED
      BY <1>5, <2>1, <3>1, Zenon
  <2> QED
    BY <2>2, <2>3
<1> HIDE DEF g
<1>8. SortTurns(m, n, g)
  BY <1>3, <1>6, <1>7, SortTurnsMean
<1> QED
  BY <1>8

(* Each turn writes SORT_BUF and adds what it picked of it.                   *)
LEMMA SortSameForAll ==
  ASSUME NEW m, NEW w, Memory(m), Memory(w), NEW n \in Nat, NEW f, NEW g,
         SortTurns(m, n, f), SortTurns(w, n, g)
  PROVE  Memory(f[n].mem) /\ f[n].ck = g[n].ck
<1>1. f[0] = Result(m, {}) /\ \A j \in 1 .. n : f[j] = SortRep(f[j - 1], j)
  BY SortTurnsMean
<1>2. g[0] = Result(w, {}) /\ \A j \in 1 .. n : g[j] = SortRep(g[j - 1], j)
  BY SortTurnsMean
<1> DEFINE Bad == {i \in 0 .. n : ~(Memory(f[i].mem) /\ f[i].ck = g[i].ck)}
<1> SUFFICES ASSUME Bad # {} PROVE FALSE
  OBVIOUS
<1>3. Bad \in SUBSET Nat
  OBVIOUS
<1>4. PICK i \in Bad : \A y \in Bad : i <= y
  BY <1>3, LeastMember
<1>5. i # 0
  BY <1>1, <1>2 DEF Result
<1>6. i \in 1 .. n /\ i - 1 \in 0 .. n /\ ~(i <= i - 1)
  BY <1>5
<1>7. Memory(f[i - 1].mem) /\ f[i - 1].ck = g[i - 1].ck
  BY <1>4, <1>6
<1>8. f[i] = SortRep(f[i - 1], i) /\ g[i] = SortRep(g[i - 1], i)
  BY <1>1, <1>2, <1>6, Zenon
<1>9. f[i].ck = g[i].ck
  BY <1>7, <1>8 DEF SortRep, Result
<1>10. f[i].mem = [f[i - 1].mem EXCEPT !.SORT_BUF = Array(i)]
  BY <1>8 DEF SortRep, Result
<1>11. Memory(f[i].mem)
  BY <1>7, <1>10 DEF Memory
<1> QED
  BY <1>9, <1>11

LEMMA SortIndependent ==
  ASSUME NEW m, NEW w, Memory(m), Memory(w)
  PROVE  Memory(bm_sort(m).mem) /\ bm_sort(m).ck = bm_sort(w).ck
<1> DEFINE f == CHOOSE h : SortTurns(m, SortReps, h)
           g == CHOOSE h : SortTurns(w, SortReps, h)
<1>1. SortReps \in Nat
  BY WorkloadAssumption
<1>2. SortTurns(m, SortReps, f) /\ SortTurns(w, SortReps, g)
  BY <1>1, SortTurnsExist
<1>3. bm_sort(m) = f[SortReps] /\ bm_sort(w) = g[SortReps]
  BY SortIsTurns
<1> HIDE DEF f, g
<1> QED
  BY <1>1, <1>2, <1>3, SortSameForAll

-----------------------------------------------------------------------------
(* bm_mat16: seeds both matrices, then multiplies, changing A as it goes.      *)
MatTurns(m, n, f) ==
  f = [i \in 0 .. n |-> IF i = 0 THEN Result(Seeded(m), {}) ELSE MatRep(f[i - 1], i)]

LEMMA MatIsTurns ==
  ASSUME NEW m PROVE bm_mat16(m) = (CHOOSE f : MatTurns(m, MatReps, f))[MatReps]
BY DEF bm_mat16, Loop, MatTurns

LEMMA MatTurnsMean ==
  ASSUME NEW m, NEW n \in Nat, NEW f
  PROVE  MatTurns(m, n, f) <=>
           /\ f \in [0 .. n -> Range(f)] /\ f[0] = Result(Seeded(m), {})
           /\ \A i \in 1 .. n : f[i] = MatRep(f[i - 1], i)
<1> DEFINE e == [i \in 0 .. n |-> IF i = 0 THEN Result(Seeded(m), {}) ELSE MatRep(f[i - 1], i)]
<1>1. MatTurns(m, n, f) <=> f = e
  BY DEF MatTurns
<1>2. /\ DOMAIN e = 0 .. n /\ e[0] = Result(Seeded(m), {})
      /\ \A i \in 1 .. n : e[i] = MatRep(f[i - 1], i)
  OBVIOUS
<1>3. e = [i \in 0 .. n |-> e[i]]
  OBVIOUS
<1> HIDE DEF e
<1>4. ASSUME f = e PROVE f \in [0 .. n -> Range(f)]
  BY <1>2, <1>3, <1>4 DEF Range
<1>5. ASSUME f \in [0 .. n -> Range(f)], f[0] = Result(Seeded(m), {}),
             \A i \in 1 .. n : f[i] = MatRep(f[i - 1], i)
      PROVE  f = e
  <2>1. f = [i \in 0 .. n |-> f[i]]
    BY <1>5
  <2>2. \A i \in 0 .. n : f[i] = e[i]
    <3>1. ASSUME NEW i \in 0 .. n PROVE f[i] = e[i]
      <4>1. i = 0 \/ i \in 1 .. n
        OBVIOUS
      <4> QED
        BY <1>2, <1>5, <4>1, Zenon
    <3> QED
      BY <3>1
  <2> QED
    BY <1>3, <2>1, <2>2
<1> QED
  BY <1>1, <1>2, <1>4, <1>5

LEMMA MatTurnsExist == ASSUME NEW m PROVE \A n \in Nat : \E f : MatTurns(m, n, f)
<1> DEFINE T == {n \in Nat : ~\E f : MatTurns(m, n, f)}
<1> SUFFICES ASSUME T # {} PROVE FALSE
  OBVIOUS
<1>1. PICK n \in T : \A y \in T : n <= y
  BY LeastMember
<1>2. n # 0
  <2> DEFINE f == [i \in 0 .. 0 |-> Result(Seeded(m), {})]
  <2>1. f \in [0 .. 0 -> Range(f)] /\ f[0] = Result(Seeded(m), {}) /\ 1 .. 0 = {}
    BY DEF Range
  <2>2. MatTurns(m, 0, f)
    BY <2>1, MatTurnsMean
  <2> QED
    BY <2>2
<1>3. n \in Nat /\ n - 1 \in Nat /\ ~(n <= n - 1)
  BY <1>2
<1>4. PICK f : MatTurns(m, n - 1, f)
  BY <1>1, <1>3
<1>5. f[0] = Result(Seeded(m), {}) /\ \A i \in 1 .. (n - 1) : f[i] = MatRep(f[i - 1], i)
  BY <1>3, <1>4, MatTurnsMean
<1> DEFINE g == [i \in 0 .. n |-> IF i = n THEN MatRep(f[n - 1], n) ELSE f[i]]
<1>6. g \in [0 .. n -> Range(g)] /\ g[0] = Result(Seeded(m), {})
  BY <1>2, <1>3, <1>5 DEF Range
<1>7. ASSUME NEW i \in 1 .. n PROVE g[i] = MatRep(g[i - 1], i)
  <2>1. i \in 0 .. n /\ i - 1 \in 0 .. n /\ i - 1 # n /\ g[i - 1] = f[i - 1]
    BY <1>3
  <2>2. CASE i = n
    BY <2>1, <2>2
  <2>3. CASE i # n
    <3>1. i \in 1 .. (n - 1) /\ g[i] = f[i]
      BY <1>3, <2>1, <2>3
    <3> QED
      BY <1>5, <2>1, <3>1, Zenon
  <2> QED
    BY <2>2, <2>3
<1> HIDE DEF g
<1>8. MatTurns(m, n, g)
  BY <1>3, <1>6, <1>7, MatTurnsMean
<1> QED
  BY <1>8

(* A turn depends on the two seeded matrices only.                            *)
SameMatrices(s, u) ==
  /\ Memory(s.mem) /\ Memory(u.mem)
  /\ s.ck = u.ck /\ s.mem.MAT_A = u.mem.MAT_A /\ s.mem.MAT_B = u.mem.MAT_B

WithAB(m, A, B) == [m EXCEPT !.MAT_A = A, !.MAT_B = B]
WithAC(m, A, C) == [m EXCEPT !.MAT_A = A, !.MAT_C = C]

LEMMA Written ==
  ASSUME NEW m, Memory(m), NEW A, NEW B
  PROVE  /\ Memory(WithAB(m, A, B)) /\ WithAB(m, A, B).MAT_A = A /\ WithAB(m, A, B).MAT_B = B
         /\ Memory(WithAC(m, A, B)) /\ WithAC(m, A, B).MAT_A = A /\ WithAC(m, A, B).MAT_B = m.MAT_B
<1> DEFINE s == [m EXCEPT !.MAT_A = A]
           p == [s EXCEPT !.MAT_B = B]
           q == [s EXCEPT !.MAT_C = B]
<1>1. Memory(s) /\ s.MAT_A = A /\ s.MAT_B = m.MAT_B
  BY DEF Memory
<1>2. WithAB(m, A, B) = p /\ WithAC(m, A, B) = q
  BY DEF WithAB, WithAC
<1> HIDE DEF s
<1>3. Memory(p) /\ p.MAT_A = A /\ p.MAT_B = B
  BY <1>1 DEF Memory
<1>4. Memory(q) /\ q.MAT_A = A /\ q.MAT_B = m.MAT_B
  BY <1>1 DEF Memory
<1> HIDE DEF p, q
<1> QED
  BY <1>2, <1>3, <1>4

LEMMA SeedsAgree ==
  ASSUME NEW m, NEW w, Memory(m), Memory(w)
  PROVE  SameMatrices(Result(Seeded(m), {}), Result(Seeded(w), {}))
<1> DEFINE data == Fill(Seed(24589, 24301), 2 * Dim * Dim)
           A == SubSeq(data, 1, Dim * Dim)
           B == SubSeq(data, Dim * Dim + 1, 2 * Dim * Dim)
<1>1. Seeded(m) = WithAB(m, A, B) /\ Seeded(w) = WithAB(w, A, B)
  BY DEF Seeded, WithAB
<1> HIDE DEF A, B, data
<1>2. Memory(Seeded(m)) /\ Seeded(m).MAT_A = A /\ Seeded(m).MAT_B = B
  BY <1>1, Written
<1>3. Memory(Seeded(w)) /\ Seeded(w).MAT_A = A /\ Seeded(w).MAT_B = B
  BY <1>1, Written
<1> QED
  BY <1>2, <1>3 DEF SameMatrices, Result

LEMMA TurnsAgree ==
  ASSUME NEW s, NEW u, SameMatrices(s, u), NEW rep
  PROVE  SameMatrices(MatRep(s, rep), MatRep(u, rep))
<1> DEFINE C == Product(s.mem.MAT_A, s.mem.MAT_B)
           A == [s.mem.MAT_A EXCEPT ![rep] = Xor(@, C[rep])]
           new(m) == WithAC(m, A, C)
           ck == Xor(s.ck, Add(C[1], C[Dim * Dim]))
<1>1. C = Product(u.mem.MAT_A, u.mem.MAT_B) /\ s.ck = u.ck /\ s.mem.MAT_A = u.mem.MAT_A
  BY DEF SameMatrices
<1>2. MatRep(s, rep) = Result(new(s.mem), ck)
  BY DEF MatRep, SameMatrices, Memory, WithAC
<1>3. MatRep(u, rep) = Result(new(u.mem), ck)
  BY <1>1 DEF MatRep, SameMatrices, Memory, WithAC
<1> HIDE DEF C, A, ck
<1>4. /\ Memory(new(s.mem)) /\ new(s.mem).MAT_A = A /\ new(s.mem).MAT_B = s.mem.MAT_B
      /\ Memory(new(u.mem)) /\ new(u.mem).MAT_A = A /\ new(u.mem).MAT_B = u.mem.MAT_B
  BY Written DEF SameMatrices
<1> HIDE DEF new
<1> QED
  BY <1>2, <1>3, <1>4 DEF SameMatrices, Result

LEMMA MatSameForAll ==
  ASSUME NEW m, NEW w, Memory(m), Memory(w), NEW n \in Nat, NEW f, NEW g,
         MatTurns(m, n, f), MatTurns(w, n, g)
  PROVE  SameMatrices(f[n], g[n])
<1>1. f[0] = Result(Seeded(m), {}) /\ \A j \in 1 .. n : f[j] = MatRep(f[j - 1], j)
  BY MatTurnsMean
<1>2. g[0] = Result(Seeded(w), {}) /\ \A j \in 1 .. n : g[j] = MatRep(g[j - 1], j)
  BY MatTurnsMean
<1> DEFINE Bad == {i \in 0 .. n : ~SameMatrices(f[i], g[i])}
<1> SUFFICES ASSUME Bad # {} PROVE FALSE
  OBVIOUS
<1>3. Bad \in SUBSET Nat
  OBVIOUS
<1>4. PICK i \in Bad : \A y \in Bad : i <= y
  BY <1>3, LeastMember
<1>5. i # 0
  BY <1>1, <1>2, SeedsAgree
<1>6. i \in 1 .. n /\ i - 1 \in 0 .. n /\ ~(i <= i - 1)
  BY <1>5
<1>7. SameMatrices(f[i - 1], g[i - 1])
  BY <1>4, <1>6
<1>8. f[i] = MatRep(f[i - 1], i) /\ g[i] = MatRep(g[i - 1], i)
  BY <1>1, <1>2, <1>6, Zenon
<1> QED
  BY <1>7, <1>8, TurnsAgree

LEMMA MatIndependent ==
  ASSUME NEW m, NEW w, Memory(m), Memory(w)
  PROVE  Memory(bm_mat16(m).mem) /\ bm_mat16(m).ck = bm_mat16(w).ck
<1> DEFINE f == CHOOSE h : MatTurns(m, MatReps, h)
           g == CHOOSE h : MatTurns(w, MatReps, h)
<1>1. MatReps \in Nat
  BY WorkloadAssumption
<1>2. MatTurns(m, MatReps, f) /\ MatTurns(w, MatReps, g)
  BY <1>1, MatTurnsExist
<1>3. bm_mat16(m) = f[MatReps] /\ bm_mat16(w) = g[MatReps]
  BY MatIsTurns
<1> HIDE DEF f, g
<1> QED
  BY <1>1, <1>2, <1>3, MatSameForAll DEF SameMatrices

-----------------------------------------------------------------------------
(* All nine.                                                               *)
LEMMA KernelsIndependent ==
  ASSUME NEW m, NEW w, Memory(m), Memory(w), NEW name \in Range(BMS)
  PROVE  Memory(Bm(name, m).mem) /\ Bm(name, m).ck = Bm(name, w).ck
<1>1. name \in {"gpio_toggle", "xorshift", "div", "f32", "call", "crc32", "sort", "mat16", "fib"}
  BY DEF BMS, Range
<1>2. CASE name = "gpio_toggle"
  BY <1>2 DEF Bm, bm_gpio_toggle, Result
<1>3. CASE name = "xorshift"
  BY <1>3 DEF Bm, bm_xorshift, Result
<1>4. CASE name = "div"
  BY <1>4 DEF Bm, bm_div, Result
<1>5. CASE name = "f32"
  BY <1>5 DEF Bm, bm_f32, Result
<1>6. CASE name = "call"
  BY <1>6 DEF Bm, bm_call, Result
<1>7. CASE name = "crc32"
  BY <1>7 DEF Bm, bm_crc32, Result, Memory
<1>8. CASE name = "sort"
  BY <1>8, SortIndependent DEF Bm
<1>9. CASE name = "mat16"
  BY <1>9, MatIndependent DEF Bm
<1>10. CASE name = "fib"
  <2>1. m.FIB_N = FibArg /\ w.FIB_N = FibArg
    BY DEF Memory
  <2>2. bm_fib(m) = Result(m, Bits(fib[FibArg])) /\ bm_fib(w) = Result(w, Bits(fib[FibArg]))
    BY <2>1 DEF bm_fib
  <2> QED
    BY <1>10, <2>2 DEF Bm, Result
<1> QED
  BY <1>1, <1>2, <1>3, <1>4, <1>5, <1>6, <1>7, <1>8, <1>9, <1>10
-----------------------------------------------------------------------------
(* The mailbox: the pair of a run and a workload.                            *)
LEMMA ModMeans ==
  ASSUME NEW c \in Nat \ {0}, NEW r \in Nat, NEW j \in 0 .. (c - 1) PROVE (r * c + j) % c = j
<1> DEFINE x == r * c + j
           q == x \div c
           m == x % c
<1>1. x \in Nat
  OBVIOUS
<1>2. q \in Int /\ m \in 0 .. (c - 1) /\ x = c * q + m
  BY <1>1
<1> HIDE DEF q, m
<1>3. r * c + j = c * q + m
  BY <1>2
<1>4. ~(q < r)
  <2> SUFFICES ASSUME q < r PROVE FALSE
    OBVIOUS
  <2>1. PICK d \in Nat : r = q + 1 + d
    <3>1. r - q - 1 \in Nat /\ r = q + 1 + (r - q - 1)
      BY <1>2
    <3> QED
      BY <3>1
  <2>2. r * c = q * c + c + d * c /\ d * c >= 0
    BY <1>2, <2>1
  <2>3. q * c \in Int /\ d * c \in Int /\ r * c \in Int /\ c * q = q * c
    BY <1>2
  <2> QED
    BY <1>2, <1>3, <2>2, <2>3
<1>5. ~(q > r)
  <2> SUFFICES ASSUME q > r PROVE FALSE
    OBVIOUS
  <2>1. PICK d \in Nat : q = r + 1 + d
    <3>1. q - r - 1 \in Nat /\ q = r + 1 + (q - r - 1)
      BY <1>2
    <3> QED
      BY <3>1
  <2>2. q * c = r * c + c + d * c /\ d * c >= 0
    BY <1>2, <2>1
  <2>3. q * c \in Int /\ d * c \in Int /\ r * c \in Int /\ c * q = q * c
    BY <1>2
  <2> QED
    BY <1>2, <1>3, <2>2, <2>3
<1>6. q = r
  BY <1>2, <1>4, <1>5
<1>7. m = j
  <2>1. r * c \in Int /\ c * q = r * c
    BY <1>2, <1>6
  <2> QED
    BY <1>2, <1>3, <2>1
<1> QED
  BY <1>7 DEF m

LEMMA PairsMean ==
  ASSUME NEW p \in Pairs
  PROVE  p \in Nat /\ p < RUNS * COUNT /\ (p % COUNT) + 1 \in 1 .. COUNT
<1>1. RUNS \in Nat /\ COUNT \in Nat /\ RUNS * COUNT \in Nat
  BY Constants
<1>2. p \in Nat /\ p < RUNS * COUNT
  BY <1>1 DEF Pairs
<1>3. COUNT # 0
  BY <1>1, <1>2
<1> QED
  BY <1>1, <1>2, <1>3

LEMMA IndexMeans ==
  ASSUME NEW run \in 0 .. (RUNS - 1), NEW i \in 1 .. COUNT
  PROVE  Index(run, i) \in Pairs /\ (Index(run, i) % COUNT) + 1 = i
<1> DEFINE c == COUNT
<1>1. RUNS \in Nat /\ c \in Nat \ {0} /\ run \in Nat /\ i - 1 \in 0 .. (c - 1)
  BY Constants
<1>2. Index(run, i) = run * c + (i - 1)
  BY <1>1 DEF Index
<1>3. (run * c + (i - 1)) % c = i - 1
  BY <1>1, ModMeans
<1>4. run * c + (i - 1) < RUNS * c
  <2>1. PICK d \in Nat : RUNS = run + 1 + d
    <3>1. RUNS - run - 1 \in Nat /\ RUNS = run + 1 + (RUNS - run - 1)
      BY <1>1
    <3> QED
      BY <3>1
  <2>2. RUNS * c = run * c + c + d * c /\ d * c >= 0 /\ run * c \in Nat
    BY <1>1, <2>1
  <2>3. d * c \in Int
    BY <1>1
  <2> QED
    BY <1>1, <2>2, <2>3
<1>5. run * c + (i - 1) \in Nat /\ RUNS * c \in Nat
  BY <1>1
<1> QED
  BY <1>1, <1>2, <1>3, <1>4, <1>5 DEF Pairs

-----------------------------------------------------------------------------
(* What the suite writes: the kernels' own checksums, whatever was in RAM, and *)
(* times that polls have only lengthened.                                    *)
OwnChecksum(i) == Bm(Table[i], Fresh).ck

RightPair(pair, i) ==
  pair.ck = OwnChecksum(i) /\ pair.us \in Nat /\ Duration[i] <= pair.us

RightPairs(pairs, n) == \A p \in Pairs : p < n => RightPair(pairs[p], (p % COUNT) + 1)

Buffers(m) == m = [CRC_BUF |-> m.CRC_BUF, SORT_BUF |-> m.SORT_BUF, MAT_A |-> m.MAT_A,
                   MAT_B |-> m.MAT_B, MAT_C |-> m.MAT_C, FIB_N |-> m.FIB_N]

Mailbox(b) ==
  /\ b = [magic |-> b.magic, status |-> b.status, count |-> b.count, runs |-> b.runs, pairs |-> b.pairs]
  /\ b.pairs = [p \in Pairs |-> b.pairs[p]]

Types ==
  /\ lang \in 1 .. Len(Langs) /\ k \in Nat /\ steals \in Nat /\ Buffers(mem) /\ Mailbox(mb)
  /\ got = [l \in Range(Langs) |-> got[l]] /\ started \in SUBSET Range(Langs)

(* The suite at work has its header in place and its first k pairs right; a    *)
(* finished mailbox is all right, whichever firmware that started left it.    *)
SuiteInv ==
  /\ started # {} => mb.count = COUNT /\ mb.runs = RUNS /\ Memory(mem)
  /\ fw \in {"between", "measuring"} =>
       started # {} /\ mb.status = 1 /\ k <= RUNS * COUNT /\ RightPairs(mb.pairs, k)
  /\ fw = "measuring" => k \in Pairs
  /\ started # {} /\ mb.status = 2 => RightPairs(mb.pairs, RUNS * COUNT)

(* Where the host is tells how far the board is, and which results are in.    *)
Ended == {"compare", "report", "checksum mismatch"}

Accepted(l) == \A i \in 1 .. COUNT : got[l][i].ck = OwnChecksum(i)

HostInv ==
  /\ fw = "reset" => host = "sleep" /\ k = 0
  /\ host \in {"read", "spread"} => mb.status = 2
  /\ host \in Ended => lang = Len(Langs)
  /\ \A j \in 1 .. Len(Langs) :
       (j < lang \/ host \in Ended) /\ Langs[j] \in started => Accepted(Langs[j])

Blame ==
  host \in {"stale", "checksum varies", "spread", "checksum mismatch"} =>
    \/ \E j \in 1 .. lang : Langs[j] \notin started
    \/ host = "spread" /\ \E p \in Pairs : mb.pairs[p].us > Duration[(p % COUNT) + 1]

BenchInv == Types /\ SuiteInv /\ HostInv /\ Blame

-----------------------------------------------------------------------------
(* Consequences of right pairs.                                             *)
LEMMA RightIsSlowed ==
  ASSUME NEW pairs, RightPairs(pairs, RUNS * COUNT), NEW i \in 1 .. COUNT
  PROVE  /\ Slowed(pairs, i) /\ ~Deviating(pairs, i)
         /\ \A run \in 0 .. (RUNS - 1) : RightPair(pairs[Index(run, i)], i)
<1>1. ASSUME NEW run \in 0 .. (RUNS - 1) PROVE RightPair(pairs[Index(run, i)], i)
  <2> DEFINE p == Index(run, i)
  <2>1. p \in Pairs /\ (p % COUNT) + 1 = i
    BY IndexMeans
  <2>2. p < RUNS * COUNT
    BY <2>1, PairsMean
  <2> HIDE DEF p
  <2>3. RightPair(pairs[p], i)
    BY <2>1, <2>2 DEF RightPairs
  <2> QED
    BY <2>3 DEF p
<1>2. Slowed(pairs, i)
  BY <1>1 DEF Slowed, RightPair
<1>3. 0 \in 0 .. (RUNS - 1) /\ 1 .. (RUNS - 1) \subseteq 0 .. (RUNS - 1)
  BY Constants
<1>4. ~Deviating(pairs, i)
  BY <1>1, <1>3 DEF Deviating, RightPair
<1> QED
  BY <1>1, <1>2, <1>4

LEMMA FreshIsMemory == Memory(Fresh)
BY DEF Memory, Fresh

LEMMA LangCount == Len(Langs) \in Nat \ {0} /\ 1 \in 1 .. Len(Langs)
<1>1. Langs \in Seq(STRING) /\ Langs # <<>>
  BY LangAssumption
<1> QED
  BY <1>1, LenProperties, EmptySeq

LEMMA LangRange ==
  ASSUME NEW n \in 1 .. Len(Langs) PROVE n \in Nat /\ 1 \in 1 .. n /\ n <= Len(Langs)
<1> DEFINE L == Len(Langs)
<1>1. L \in Nat /\ n \in 1 .. L
  BY LangCount
<1> HIDE DEF L
<1>2. n \in Nat /\ 1 \in 1 .. n /\ n <= L
  BY <1>1
<1> QED
  BY <1>2 DEF L

LEMMA LangsMean ==
  /\ Len(Langs) \in Nat \ {0} /\ Langs \in [1 .. Len(Langs) -> STRING]
  /\ \A j, h \in 1 .. Len(Langs) : Langs[j] = Langs[h] => j = h
  /\ Range(Langs) = {Langs[j] : j \in 1 .. Len(Langs)}
<1>1. Langs \in Seq(STRING) /\ Langs # <<>> /\ IsInjective(Langs)
  BY LangAssumption
<1>2. Langs \in [1 .. Len(Langs) -> STRING] /\ Len(Langs) \in Nat
  BY <1>1, LenProperties
<1>3. DOMAIN Langs = 1 .. Len(Langs) /\ Len(Langs) # 0
  BY <1>1, <1>2, EmptySeq
<1>4. \A j, h \in 1 .. Len(Langs) : Langs[j] = Langs[h] => j = h
  BY <1>1, <1>3 DEF IsInjective
<1>5. Range(Langs) = {Langs[j] : j \in 1 .. Len(Langs)}
  BY <1>3 DEF Range
<1> QED
  BY <1>2, <1>3, <1>4, <1>5

-----------------------------------------------------------------------------
(* The invariant, step by step.                                             *)
LEMMA InitInv == Init => BenchInv
<1> SUFFICES ASSUME Init PROVE BenchInv
  OBVIOUS
<1>1. 1 \in 1 .. Len(Langs)
  BY LangsMean
<1>2. Types
  BY <1>1 DEF Init, Types, Buffers, Mailbox, Old
<1>3. SuiteInv /\ Blame
  BY DEF Init, SuiteInv, Blame
<1>4. HostInv
  BY <1>1, LangsMean DEF Init, HostInv, Ended
<1> QED
  BY <1>2, <1>3, <1>4 DEF BenchInv

LEMMA StuckKeeps == BenchInv /\ Stuck => BenchInv'
<1> SUFFICES ASSUME BenchInv, Stuck PROVE BenchInv'
  OBVIOUS
<1> USE DEF Stuck, pc
<1>1. Types'
  BY DEF BenchInv, Types, Buffers, Mailbox
<1>2. SuiteInv'
  BY DEF BenchInv, SuiteInv, Memory, RightPairs
<1>3. HostInv' /\ Blame'
  BY DEF BenchInv, HostInv, Blame, Accepted
<1> QED
  BY <1>1, <1>2, <1>3 DEF BenchInv

LEMMA AnnounceKeeps == BenchInv /\ Announce => BenchInv'
<1> SUFFICES ASSUME BenchInv, Announce PROVE BenchInv'
  OBVIOUS
<1> USE DEF Announce, pc
<1>1. Types /\ SuiteInv /\ HostInv /\ Blame
  BY DEF BenchInv
<1>2. k = 0 /\ host = "sleep" /\ lang \in 1 .. Len(Langs)
  BY <1>1 DEF HostInv, Types
<1>3. Langs[lang] \in Range(Langs) /\ started' = started \cup {Langs[lang]}
  BY <1>2, LangsMean
<1>4. Memory(mem') /\ Buffers(mem')
  BY <1>1 DEF Types, Buffers, Memory
<1>5. /\ Mailbox(mb') /\ mb'.status = 1 /\ mb'.count = COUNT /\ mb'.runs = RUNS
  BY <1>1 DEF Types, Mailbox
<1>6. Types'
  BY <1>1, <1>3, <1>4, <1>5 DEF Types
<1>7. \A p \in Pairs : ~(p < 0)
  BY PairsMean
<1>8. k' <= RUNS * COUNT
  BY <1>2, Constants
<1>9. SuiteInv'
  BY <1>2, <1>3, <1>4, <1>5, <1>7, <1>8 DEF SuiteInv, RightPairs
<1>10. HostInv'
  <2>1. ASSUME NEW j \in 1 .. Len(Langs), j < lang, Langs[j] \in started' PROVE Accepted(Langs[j])'
    <3>1. Langs[j] # Langs[lang]
      BY <1>2, <2>1, LangsMean
    <3>2. Langs[j] \in started
      BY <1>3, <2>1, <3>1
    <3> QED
      BY <1>1, <2>1, <3>2 DEF HostInv, Accepted
  <2> QED
    BY <1>1, <1>2, <2>1 DEF HostInv, Ended
<1>11. Blame'
  BY <1>2 DEF Blame
<1> QED
  BY <1>6, <1>9, <1>10, <1>11 DEF BenchInv

LEMMA CallKeeps == BenchInv /\ Call => BenchInv'
<1> SUFFICES ASSUME BenchInv, Call PROVE BenchInv'
  OBVIOUS
<1> USE DEF Call, pc
<1>1. Types'
  BY DEF BenchInv, Types, Buffers, Mailbox
<1>2. SuiteInv'
  BY DEF BenchInv, SuiteInv, Memory, RightPairs
<1>3. HostInv' /\ Blame'
  BY DEF BenchInv, HostInv, Blame, Accepted
<1> QED
  BY <1>1, <1>2, <1>3 DEF BenchInv

LEMMA DoneKeeps == BenchInv /\ Done => BenchInv'
<1> SUFFICES ASSUME BenchInv, Done PROVE BenchInv'
  OBVIOUS
<1> USE DEF Done, pc
<1>1. Types /\ SuiteInv /\ HostInv /\ Blame
  BY DEF BenchInv
<1>2. Mailbox(mb') /\ mb'.status = 2 /\ mb'.count = mb.count /\ mb'.runs = mb.runs /\ mb'.pairs = mb.pairs
  BY <1>1 DEF Types, Mailbox
<1>3. Types'
  BY <1>1, <1>2 DEF Types, Buffers
<1>4. k = RUNS * COUNT
  BY <1>1, Constants DEF Types, SuiteInv, Pairs
<1>5. SuiteInv'
  BY <1>1, <1>2, <1>4 DEF SuiteInv, Memory, RightPairs
<1>6. HostInv'
  BY <1>1, <1>2 DEF HostInv, Accepted
<1>7. Blame'
  BY <1>1, <1>2 DEF Blame
<1> QED
  BY <1>3, <1>5, <1>6, <1>7 DEF BenchInv

(* The call that returns: its checksum is the kernel's own on any memory.     *)
LEMMA ReturnKeeps == BenchInv /\ Return => BenchInv'
<1> SUFFICES ASSUME BenchInv, Return PROVE BenchInv'
  OBVIOUS
<1> DEFINE i == (k % COUNT) + 1
           r == Bm(Table[i], mem)
           us == Duration[i] + Steal * steals
<1>1. Types /\ SuiteInv /\ HostInv /\ Blame
  BY DEF BenchInv
<1>2. /\ fw = "measuring" /\ fw' = "between" /\ steals' = 0 /\ k' = k + 1 /\ mem' = r.mem
      /\ mb' = [mb EXCEPT !.pairs[k] = [us |-> us, ck |-> r.ck]]
      /\ UNCHANGED <<host, lang, polls, got, started>>
  BY DEF Return, pc
<1>3. k \in Pairs /\ started # {} /\ Memory(mem) /\ mb.status = 1
  BY <1>1, <1>2 DEF SuiteInv
<1>4. i \in 1 .. COUNT /\ k \in Nat /\ k < RUNS * COUNT
  BY <1>3, PairsMean
<1>5. Memory(r.mem) /\ r.ck = OwnChecksum(i)
  BY <1>3, <1>4, Constants, KernelsIndependent, FreshIsMemory DEF OwnChecksum
<1>6. us \in Nat /\ Duration[i] <= us
  <2>1. Duration[i] \in Nat /\ Steal \in Nat /\ steals \in Nat
    BY <1>1, <1>4, Constants DEF Types
  <2>2. Steal * steals \in Nat
    BY <2>1
  <2> QED
    BY <2>1, <2>2
<1>7. RightPair([us |-> us, ck |-> r.ck], i)
  BY <1>5, <1>6 DEF RightPair
<1> HIDE DEF r, us
<1>8. /\ Mailbox(mb') /\ mb'.status = 1 /\ mb'.count = mb.count /\ mb'.runs = mb.runs
      /\ mb'.pairs[k] = [us |-> us, ck |-> r.ck]
      /\ \A p \in Pairs \ {k} : mb'.pairs[p] = mb.pairs[p]
  BY <1>1, <1>2, <1>3 DEF Types, Mailbox
<1>9. Types'
  BY <1>1, <1>2, <1>5, <1>8 DEF Types, Memory, Buffers
<1>10. RightPairs(mb'.pairs, k + 1)
  <2> SUFFICES ASSUME NEW p \in Pairs, p < k + 1 PROVE RightPair(mb'.pairs[p], (p % COUNT) + 1)
    BY DEF RightPairs
  <2>1. CASE p = k
    BY <1>7, <1>8, <2>1
  <2>2. CASE p # k
    <3>1. p < k
      BY <1>4, <2>2, PairsMean
    <3>2. RightPair(mb.pairs[p], (p % COUNT) + 1)
      BY <1>1, <1>2, <3>1 DEF SuiteInv, RightPairs
    <3> QED
      BY <1>8, <2>2, <3>2
  <2> QED
    BY <2>1, <2>2
<1>11. k + 1 <= RUNS * COUNT
  BY <1>4, Constants
<1>12. SuiteInv'
  BY <1>1, <1>2, <1>3, <1>5, <1>8, <1>10, <1>11 DEF SuiteInv, RightPairs
<1>13. HostInv'
  BY <1>1, <1>2, <1>3, <1>8 DEF HostInv, Accepted
<1>14. Blame'
  <2>1. host # "spread"
    BY <1>1, <1>3 DEF HostInv
  <2>2. UNCHANGED <<host, lang, started>>
    BY <1>2
  <2> QED
    BY <1>1, <2>1, <2>2 DEF Blame
<1> QED
  BY <1>9, <1>12, <1>13, <1>14 DEF BenchInv

LEMMA FlashKeeps == BenchInv /\ Flash => BenchInv'
<1> SUFFICES ASSUME BenchInv, Flash PROVE BenchInv'
  OBVIOUS
<1> USE DEF Flash, At
<1>1. Types'
  BY DEF BenchInv, Types, Buffers, Mailbox
<1>2. SuiteInv'
  BY DEF BenchInv, SuiteInv, Memory, RightPairs
<1>3. HostInv' /\ Blame'
  BY DEF BenchInv, HostInv, Blame, Accepted, Ended
<1> QED
  BY <1>1, <1>2, <1>3 DEF BenchInv

(* Steps of the host that leave the board and the results alone, except that  *)
(* a poll may lengthen the measurement.                                      *)
LEMMA HostMoves ==
  ASSUME BenchInv, UNCHANGED <<fw, k, mb, mem, lang, got, started>>, steals' \in Nat,
         host' \notin Ended \/ host \in Ended, fw # "reset",
         host' \in {"read", "spread"} => mb.status = 2, Blame'
  PROVE  BenchInv'
<1>1. Types'
  BY DEF BenchInv, Types, Buffers, Mailbox
<1>2. SuiteInv'
  BY DEF BenchInv, SuiteInv, Memory, RightPairs
<1>3. HostInv'
  BY DEF BenchInv, HostInv, Accepted
<1> QED
  BY <1>1, <1>2, <1>3 DEF BenchInv

LEMMA HostKeeps ==
  BenchInv /\ (Wake \/ PollDone \/ PollAgain \/ PollGivesUp \/ CrossCheck \/ ProbeFails) => BenchInv'
<1> SUFFICES ASSUME BenchInv, Wake \/ PollDone \/ PollAgain \/ PollGivesUp \/ CrossCheck \/ ProbeFails
             PROVE  BenchInv'
  OBVIOUS
<1>1. Types /\ SuiteInv /\ HostInv /\ Blame
  BY DEF BenchInv
<1>2. steals \in Nat /\ lang \in 1 .. Len(Langs) /\ (fw = "reset" => host = "sleep")
  BY <1>1 DEF Types, HostInv
<1>3. CASE Wake
  <2> USE <1>3 DEF Wake, At, BoardKeeps, board
  <2>1. Blame'
    BY DEF Blame
  <2> QED
    BY <1>2, <2>1, HostMoves DEF Ended
<1>4. CASE PollDone
  <2> USE <1>4 DEF PollDone, Poll, At, Shown
  <2>1. steals' \in Nat
    BY <1>2
  <2>2. Blame'
    <3> SUFFICES ASSUME host' \in {"stale", "checksum varies", "spread", "checksum mismatch"}
                 PROVE  \E j \in 1 .. lang : Langs[j] \notin started
      BY DEF Blame
    <3>1. ~(mb.count = COUNT /\ mb.runs = RUNS)
      OBVIOUS
    <3>2. started = {}
      BY <1>1, <3>1 DEF SuiteInv
    <3> QED
      BY <1>2, <3>2
  <2> QED
    BY <1>2, <2>1, <2>2, HostMoves DEF Ended
<1>5. CASE PollAgain
  <2> USE <1>5 DEF PollAgain, Poll, At
  <2>1. steals' \in Nat
    BY <1>2
  <2>2. Blame'
    BY DEF Blame
  <2> QED
    BY <1>2, <2>1, <2>2, HostMoves DEF Ended
<1>6. CASE PollGivesUp
  <2> USE <1>6 DEF PollGivesUp, At, BoardKeeps, board
  <2>1. Blame'
    BY DEF Blame
  <2> QED
    BY <1>2, <2>1, HostMoves DEF Ended
<1>7. CASE CrossCheck
  <2> USE <1>7 DEF CrossCheck, At, BoardKeeps, board
  <2>1. Blame'
    <3> SUFFICES ASSUME ~Agree, \A j \in 1 .. lang : Langs[j] \in started PROVE FALSE
      BY DEF Blame
    <3>1. lang = Len(Langs)
      BY <1>1 DEF HostInv, Ended
    <3>2. \A j \in 1 .. Len(Langs) : Accepted(Langs[j])
      BY <1>1, <3>1 DEF HostInv, Ended
    <3>3. \A l \in Range(Langs) : Accepted(l)
      BY <3>2, LangsMean
    <3>4. 1 \in 1 .. Len(Langs)
      BY LangCount
    <3> QED
      BY <3>2, <3>3, <3>4 DEF Agree, Accepted
  <2> QED
    BY <1>2, <2>1, HostMoves DEF Ended
<1>8. CASE ProbeFails
  <2> USE <1>8 DEF ProbeFails, BoardKeeps, board
  <2>1. Blame'
    BY DEF Blame
  <2> QED
    BY <1>2, <2>1, HostMoves DEF Ended
<1> QED
  BY <1>3, <1>4, <1>5, <1>6, <1>7, <1>8

(* The results of a firmware: accepted, or blamed for cause.                   *)
Bad == {i \in 1 .. COUNT : Deviating(mb.pairs, i) \/ Spread(Times(mb.pairs, i))}

LEMMA MinOfBad == Bad # {} => Min(Bad) \in Bad
<1> SUFFICES ASSUME Bad # {} PROVE Min(Bad) \in Bad
  OBVIOUS
<1>1. Bad \in SUBSET Nat
  BY Constants DEF Bad
<1>2. \E m \in Bad : \A y \in Bad : m <= y
  BY <1>1, LeastMember
<1> QED
  BY <1>2, Zenon DEF Min

LEMMA Rejected ==
  ASSUME BenchInv, ReadResults, Bad # {} PROVE BenchInv'
<1>1. Types /\ SuiteInv /\ HostInv /\ Blame
  BY DEF BenchInv
<1>2. /\ host = "read" /\ mb.status = 2 /\ fw # "reset" /\ steals \in Nat /\ lang \in 1 .. Len(Langs)
      /\ host' = IF Deviating(mb.pairs, Min(Bad)) THEN "checksum varies" ELSE "spread"
      /\ UNCHANGED <<fw, k, mb, mem, lang, got, started, steals>>
  BY <1>1 DEF ReadResults, Bad, BoardKeeps, board, HostInv, Types
<1>3. Blame'
  <2> SUFFICES ASSUME \A j \in 1 .. lang : Langs[j] \in started
               PROVE  host' = "spread" /\ \E p \in Pairs : mb.pairs[p].us > Duration[(p % COUNT) + 1]
    BY <1>2 DEF Blame
  <2>1. 1 \in 1 .. lang
    BY <1>2, LangRange
  <2>2. RightPairs(mb.pairs, RUNS * COUNT)
    <3>1. started # {}
      BY <2>1
    <3> QED
      BY <1>1, <1>2, <3>1 DEF SuiteInv
  <2>3. PICK i \in 1 .. COUNT : i = Min(Bad) /\ (Deviating(mb.pairs, i) \/ Spread(Times(mb.pairs, i)))
    BY MinOfBad DEF Bad
  <2>4. /\ Slowed(mb.pairs, i) /\ ~Deviating(mb.pairs, i)
        /\ \A run \in 0 .. (RUNS - 1) : RightPair(mb.pairs[Index(run, i)], i)
    BY <2>2, RightIsSlowed
  <2>5. host' = "spread" /\ Spread(Times(mb.pairs, i))
    BY <1>2, <2>3, <2>4
  <2>6. PICK run \in 0 .. (RUNS - 1) : mb.pairs[Index(run, i)].us # Duration[i]
    BY <2>4, <2>5, NoSpread
  <2>7. Index(run, i) \in Pairs /\ (Index(run, i) % COUNT) + 1 = i
    BY IndexMeans
  <2>8. mb.pairs[Index(run, i)].us > Duration[i]
    <3>1. Duration[i] \in Nat
      BY Constants
    <3> QED
      BY <2>4, <2>6, <3>1 DEF RightPair
  <2> QED
    BY <2>5, <2>7, <2>8
<1> QED
  BY <1>2, <1>3, HostMoves DEF Ended

LEMMA Reading ==
  ASSUME BenchInv, ReadResults, Bad = {}
  PROVE  /\ host = "read" /\ mb.status = 2 /\ fw # "reset" /\ lang \in 1 .. Len(Langs)
         /\ got' = [l \in Range(Langs) |-> IF l = Langs[lang] THEN Reduced(mb.pairs) ELSE got[l]]
         /\ \/ lang < Len(Langs) /\ host' = "flash" /\ lang' = lang + 1
            \/ lang = Len(Langs) /\ host' = "compare" /\ lang' = lang
         /\ UNCHANGED <<fw, k, mb, mem, started, steals>>
<1>1. Types /\ SuiteInv /\ HostInv /\ Blame
  BY DEF BenchInv
<1>2. /\ host = "read" /\ mb.status = 2 /\ fw # "reset" /\ lang \in 1 .. Len(Langs)
      /\ got = [l \in Range(Langs) |-> got[l]]
  BY <1>1 DEF ReadResults, HostInv, Types
<1>3. /\ got' = [got EXCEPT ![Langs[lang]] = Reduced(mb.pairs)]
      /\ IF lang < Len(Langs) THEN host' = "flash" /\ lang' = lang + 1
                              ELSE host' = "compare" /\ UNCHANGED lang
      /\ UNCHANGED <<fw, k, mb, mem, started, steals>>
  BY DEF ReadResults, Bad, BoardKeeps, board
<1>4. Len(Langs) \in Nat
  BY LangsMean
<1>5. got' = [l \in Range(Langs) |-> IF l = Langs[lang] THEN Reduced(mb.pairs) ELSE got[l]]
  BY <1>2, <1>3
<1> QED
  BY <1>2, <1>3, <1>4, <1>5

LEMMA ReducedMeans ==
  ASSUME BenchInv, mb.status = 2, started # {}, NEW i \in 1 .. COUNT
  PROVE  Reduced(mb.pairs)[i].ck = OwnChecksum(i)
<1>1. RightPairs(mb.pairs, RUNS * COUNT)
  BY DEF BenchInv, SuiteInv
<1>2. 0 \in 0 .. (RUNS - 1)
  BY Constants
<1>3. RightPair(mb.pairs[Index(0, i)], i)
  BY <1>1, <1>2, RightIsSlowed
<1> QED
  BY <1>3 DEF Reduced, RightPair

LEMMA AcceptedKeeps ==
  ASSUME BenchInv, ReadResults, Bad = {} PROVE BenchInv'
<1>1. Types /\ SuiteInv /\ HostInv /\ Blame
  BY DEF BenchInv
<1>2. /\ host = "read" /\ mb.status = 2 /\ fw # "reset" /\ lang \in 1 .. Len(Langs)
      /\ got' = [l \in Range(Langs) |-> IF l = Langs[lang] THEN Reduced(mb.pairs) ELSE got[l]]
      /\ \/ lang < Len(Langs) /\ host' = "flash" /\ lang' = lang + 1
         \/ lang = Len(Langs) /\ host' = "compare" /\ lang' = lang
      /\ UNCHANGED <<fw, k, mb, mem, started, steals>>
  BY Reading
<1>3. lang' \in 1 .. Len(Langs)
  BY <1>2, LangsMean
<1>4. Types'
  <2>1. got' = [l \in Range(Langs) |-> got'[l]]
    BY <1>2
  <2> QED
    BY <1>1, <1>2, <1>3, <2>1 DEF Types, Buffers, Mailbox
<1>5. SuiteInv'
  BY <1>1, <1>2 DEF SuiteInv, Memory, RightPairs
<1>6. ASSUME NEW j \in 1 .. Len(Langs), j <= lang, Langs[j] \in started PROVE Accepted(Langs[j])'
  <2>1. Langs[j] \in Range(Langs)
    BY LangsMean
  <2>2. CASE j = lang
    <3>1. got'[Langs[j]] = Reduced(mb.pairs)
      BY <1>2, <2>1, <2>2
    <3>2. \A i \in 1 .. COUNT : Reduced(mb.pairs)[i].ck = OwnChecksum(i)
      BY <1>2, <1>6, ReducedMeans
    <3> QED
      BY <3>1, <3>2 DEF Accepted
  <2>3. CASE j # lang
    <3>0. j < lang
      BY <1>2, <1>6, <2>3, LangCount
    <3>1. j < lang /\ Langs[j] # Langs[lang]
      BY <1>2, <2>3, <3>0, LangsMean, Zenon
    <3>2. got'[Langs[j]] = got[Langs[j]] /\ Accepted(Langs[j])
      BY <1>1, <1>2, <1>6, <2>1, <3>1 DEF HostInv
    <3> QED
      BY <3>2 DEF Accepted
  <2> QED
    BY <2>2, <2>3
<1>7. HostInv'
  <2>1. ASSUME NEW j \in 1 .. Len(Langs), j < lang' \/ host' \in Ended, (Langs[j] \in started)'
        PROVE  Accepted(Langs[j])'
    <3>0. j < lang' \/ host' = "compare"
      BY <1>2, <2>1 DEF Ended
    <3>1. j <= lang
      BY <1>2, <3>0, LangCount
    <3> QED
      BY <1>2, <1>6, <2>1, <3>1
  <2>2. host' \in {"flash", "compare"} /\ (host' \in Ended => lang' = Len(Langs))
    BY <1>2 DEF Ended
  <2> QED
    BY <1>2, <2>1, <2>2 DEF HostInv
<1>8. Blame'
  BY <1>2 DEF Blame
<1> QED
  BY <1>4, <1>5, <1>7, <1>8 DEF BenchInv

LEMMA StepInv == BenchInv /\ [Next]_vars => BenchInv'
<1> SUFFICES ASSUME BenchInv, [Next]_vars PROVE BenchInv'
  OBVIOUS
<1>1. CASE Stuck \/ Announce \/ Call \/ Return \/ Done
  BY <1>1, StuckKeeps, AnnounceKeeps, CallKeeps, ReturnKeeps, DoneKeeps
<1>2. CASE Flash
  BY <1>2, FlashKeeps
<1>3. CASE Wake \/ PollDone \/ PollAgain \/ PollGivesUp \/ CrossCheck \/ ProbeFails
  BY <1>3, HostKeeps
<1>4. CASE ReadResults
  BY <1>4, Rejected, AcceptedKeeps
<1>5. CASE UNCHANGED vars
  <2> USE <1>5 DEF vars, board, pc
  <2>1. Types' /\ SuiteInv'
    BY DEF BenchInv, Types, Buffers, Mailbox, SuiteInv, Memory, RightPairs
  <2>2. HostInv' /\ Blame'
    BY DEF BenchInv, HostInv, Blame, Accepted
  <2> QED
    BY <2>1, <2>2 DEF BenchInv
<1> QED
  BY <1>1, <1>2, <1>3, <1>4, <1>5 DEF Next, Suite, Host

LEMMA InvHolds == Spec => []BenchInv
<1> QED
  BY InitInv, StepInv, PTL DEF Spec

-----------------------------------------------------------------------------
LEMMA FirstLangs ==
  ASSUME NEW n \in 1 .. Len(Langs), NEW j \in 1 .. n PROVE Langs[j] \in Range(SubSeq(Langs, 1, n))
<1> DEFINE L == Len(Langs)
           s == SubSeq(Langs, 1, n)
<1>1. L \in Nat /\ Langs \in [1 .. L -> STRING]
  BY LangCount, LangsMean
<1>2. n \in 1 .. L
  OBVIOUS
<1> HIDE DEF L
<1>3. \A h \in 1 .. n : Langs[h] \in STRING
  BY <1>1, <1>2
<1>4. n \in Int /\ 1 \in Int /\ 1 <= n
  BY <1>1, <1>2
<1>5. /\ s \in Seq(STRING) /\ Len(s) = IF 1 <= n THEN n - 1 + 1 ELSE 0
      /\ \A h \in 1 .. n - 1 + 1 : s[h] = Langs[1 + h - 1]
  BY <1>3, <1>4, SubSeqProperties
<1> HIDE DEF s
<1>6. n - 1 + 1 = n /\ 1 + j - 1 = j
  BY <1>4
<1>7. s[j] = Langs[j] /\ Len(s) = n /\ s \in Seq(STRING)
  BY <1>4, <1>5, <1>6
<1>8. DOMAIN s = 1 .. n
  BY <1>7, LenProperties
<1> QED
  BY <1>7, <1>8 DEF Range, s

(* The host blames a firmware's checksums, the spread of its times or a stale  *)
(* mailbox only if a firmware never got past board_init or, for the spread, if *)
(* a poll fell into a measurement: on any memory, whatever ran before.        *)
THEOREM BlamedOnlyForCause == Spec => []BlamedForCause
<1>1. BenchInv => BlamedForCause
  <2> SUFFICES ASSUME BenchInv, host \in Wrong \ {"never finished"},
                      Range(SubSeq(Langs, 1, lang)) \ started = {}
               PROVE  host = "spread" /\ \E p \in Pairs : mb.pairs[p].us > Duration[(p % COUNT) + 1]
    BY DEF BlamedForCause
  <2>1. lang \in 1 .. Len(Langs) /\ Blame
    BY DEF BenchInv, Types
  <2>2. ASSUME NEW j \in 1 .. lang PROVE Langs[j] \in started
    <3>3. Langs[j] \in Range(SubSeq(Langs, 1, lang))
      BY <2>1, FirstLangs
    <3> QED
      BY <3>3
  <2> QED
    BY <2>1, <2>2 DEF Blame, Wrong
<1> QED
  BY <1>1, InvHolds, PTL

(* reduce_runs: the time the host accepts of a firmware that ran is within 2 % *)
(* of the undisturbed one as soon as one of its runs was undisturbed.        *)
THEOREM AcceptedTimesAreTrue == Spec => TimesTrue
<1>1. ASSUME BenchInv, [Next]_vars, NEW l \in started, got'[l] # got[l], NEW i \in 1 .. COUNT,
             NEW run \in 0 .. (RUNS - 1), mb.pairs[Index(run, i)].us = Duration[i]
      PROVE  100 * got'[l][i].med < 102 * Duration[i]
  <2>1. ReadResults /\ Bad = {}
    <3>1. got' # got
      BY <1>1
    <3>2. ReadResults
      BY <1>1, <3>1 DEF Next, Suite, Host, vars, pc, Stuck, Announce, Call, Return, Done, Flash, Wake,
                        PollDone, PollAgain, Poll, PollGivesUp, CrossCheck, ProbeFails
    <3> QED
      BY <3>1, <3>2 DEF ReadResults, Bad
  <2>2. /\ mb.status = 2 /\ l \in Range(Langs)
        /\ got' = [h \in Range(Langs) |-> IF h = Langs[lang] THEN Reduced(mb.pairs) ELSE got[h]]
    BY <1>1, <2>1, Reading DEF BenchInv, Types
  <2>3. got'[l] = Reduced(mb.pairs)
    BY <1>1, <2>2
  <2>4. RightPairs(mb.pairs, RUNS * COUNT)
    BY <1>1, <2>2 DEF BenchInv, SuiteInv
  <2>5. Slowed(mb.pairs, i) /\ ~Spread(Times(mb.pairs, i))
    BY <2>1, <2>4, RightIsSlowed DEF Bad
  <2>6. 100 * Median(Times(mb.pairs, i)) < 102 * Duration[i]
    BY <1>1, <2>5, MedianIsClose
  <2> QED
    BY <2>3, <2>6 DEF Reduced
<1>2. BenchInv /\ [Next]_vars =>
        [\A l \in started : got'[l] # got[l] =>
           \A i \in 1 .. COUNT :
             (\E run \in 0 .. (RUNS - 1) : mb.pairs[Index(run, i)].us = Duration[i])
               => 100 * got'[l][i].med < 102 * Duration[i]]_vars
  BY <1>1
<1> QED
  BY <1>2, InvHolds, PTL DEF Spec, TimesTrue

(* "Verified by identical checksums": what is reported for a firmware that ran *)
(* is what its kernels compute, not what RAM held before.                     *)
ReportIsComputed == host = "report" => \A l \in started : Accepted(l)

THEOREM ReportedIsComputed == Spec => []ReportIsComputed
<1>1. BenchInv => ReportIsComputed
  <2> SUFFICES ASSUME BenchInv, host = "report", NEW l \in started PROVE Accepted(l)
    BY DEF ReportIsComputed
  <2>1. started \in SUBSET Range(Langs) /\ HostInv
    BY DEF BenchInv, Types
  <2>2. PICK j \in 1 .. Len(Langs) : l = Langs[j]
    BY <2>1, LangsMean
  <2> QED
    BY <2>1, <2>2 DEF HostInv, Ended
<1> QED
  BY <1>1, InvHolds, PTL
=============================================================================
