----------------------------- MODULE Workloads -----------------------------
(***************************************************************************)
(* The nine workloads of the benchmark firmwares (bench/bench.c, whose       *)
(* kernels bench.mojo, bench.rs and the RP2350 versions repeat), bit for bit  *)
(* but for f32, of whose sum only the sign of sum - 1 is kept, and with the   *)
(* loop counts and buffer sizes as parameters.  A workload takes the          *)
(* memory it finds and leaves a memory and a checksum: the scratch buffers   *)
(* are at fixed addresses and keep what the last call, run or firmware left. *)
(***************************************************************************)
EXTENDS Words, SequencesExt

CONSTANTS
  Rounds,            \* iterations of the plain loops (100000, 200000, 50000, 20000)
  CrcWords, CrcReps, \* length of CRC_BUF (1024), passes over it (4)
  SortLen, SortReps, \* length of SORT_BUF (512), arrays sorted (20)
  Dim, MatReps,      \* rows of the matrices (16), products (50)
  FibArg             \* argument of fib (24)

ASSUME WorkloadAssumption ==
  /\ {Rounds, CrcWords, CrcReps, SortReps, MatReps, FibArg} \subseteq Nat
  /\ SortLen \in Nat \ {0, 1} /\ Dim \in Nat \ {0} /\ MatReps <= Dim * Dim

(* n turns of a loop whose body takes the values so far and the turn (from 1). *)
Loop(Body(_, _), start, n) ==
  LET after[i \in 0 .. n] == IF i = 0 THEN start ELSE Body(after[i - 1], i) IN after[n]

Result(mem, ck) == [mem |-> mem, ck |-> ck]

-----------------------------------------------------------------------------
(* The generator of all test data, xorshift32, and n values of it. *)
step(x) ==
  LET a == Xor(x, Shl(x, 13))
      b == Xor(a, Shr(a, 17))
  IN Xor(b, Shl(b, 5))

Steps(seed, n) == Loop(LAMBDA x, i : step(x), seed, n)

Fill(seed, n) ==
  Tail(Loop(LAMBDA xs, i : Append(xs, step(Last(xs))), <<seed>>, n))

(* Seeds: 0xDEADBEEF, 0x12345678, 0x00C0FFEE, 0x600D5EED, by their halves. *)
Seed(high, low) == Shl(Bits(high), 16) \cup Bits(low)

-----------------------------------------------------------------------------
bm_gpio_toggle(mem) == Result(mem, {})

bm_xorshift(mem) == Result(mem, Steps(Seed(57005, 48879), Rounds))

(* The divisor grows and stays odd; the sums stay below 2^31. *)
DivSum ==
  LET Iterate(s, i) ==
        LET e == s.d + i - 1 IN [acc |-> s.acc + 1000000 \div s.d, d |-> e + 1 - (e % 2)]
  IN Loop(Iterate, [acc |-> 0, d |-> 1], Rounds).acc

bm_div(mem) == Result(mem, Bits(DivSum))

(* Of the float sum only where it lies counts: a multiple of a (1.5, and      *)
(* growing) is added each time, and infinity stays above 1.                  *)
FloatSum == Loop(LAMBDA sum, i : "above 1", "zero", Rounds)

bm_f32(mem) == Result(mem, IF FloatSum = "above 1" THEN {0} ELSE {})

add_one(x) == Add(x, {0})

Calls == Loop(LAMBDA x, i : add_one(x), {}, Rounds)

bm_call(mem) == Result(mem, Calls)

(* CRC-32, bit by bit: one byte of a word, a buffer, and all passes over it. *)
Polynomial == Seed(60856, 33568)   \* 0xEDB88320

CrcBit(crc, r) == Xor(Shr(crc, 1), IF 0 \in crc THEN Polynomial ELSE {})

CrcByte[crc \in Word, byte \in Word] == Loop(CrcBit, Xor(crc, byte), 8)

CrcWord[crc \in Word, w \in Word] ==
  Loop(LAMBDA c, b : CrcByte[c, Shr(w, 8 * (b - 1)) \cap (0 .. 7)], crc, 4)

Crc(crc, buf) == Loop(LAMBDA c, i : CrcWord[c, buf[i]], crc, Len(buf))

CrcData == Fill(Seed(4660, 22136), CrcWords)

CrcPasses ==
  LET Pass(acc, k) == Xor(acc, Not(Crc(Xor(Ones, Bits(k - 1)), CrcData)))
  IN Loop(Pass, {}, CrcReps)

bm_crc32(mem) == Result([mem EXCEPT !.CRC_BUF = CrcData], CrcPasses)

-----------------------------------------------------------------------------
(* Quicksort around the last element (indices from 1). *)
Swap(a, i, j) == [a EXCEPT ![i] = a[j], ![j] = a[i]]

Compare(s, j, hi) ==
  IF Less(s.a[j], s.a[hi]) THEN [a |-> Swap(s.a, s.i, j), i |-> s.i + 1] ELSE s

Split(a, lo, hi, n) ==
  LET end == Loop(LAMBDA s, m : Compare(s, lo + m - 1, hi), [a |-> a, i |-> lo], n)
  IN [a |-> Swap(end.a, end.i, hi), i |-> end.i]

(* Deviation: the last comparison is left out. *)
Partition_OneShort(a, lo, hi) == Split(a, lo, hi, hi - lo - 1)

Partition(a, lo, hi) == Split(a, lo, hi, hi - lo)

(* A part of the array, in place. *)
qsort_u32[a \in Seq(Word), lo \in Nat, hi \in Nat] ==
  IF lo >= hi THEN a
  ELSE LET p == Partition(a, lo, hi)
       IN qsort_u32[qsort_u32[p.a, lo, p.i - 1], p.i + 1, hi]

(* Each array is filled afresh; its smallest, median and largest element count. *)
Picked(a) == Xor(Xor(a[1], a[SortLen \div 2]), a[SortLen])

bm_sort(mem) ==
  LET Filled(rep) == Fill(Add(Seed(192, 65518), Bits(rep - 1)), SortLen)
      Rep(s, rep) ==
        LET a == qsort_u32[Filled(rep), 1, SortLen]
        IN Result([s.mem EXCEPT !.SORT_BUF = a], Add(s.ck, Picked(a)))
  IN Loop(Rep, Result(mem, {}), SortReps)

-----------------------------------------------------------------------------
(* Matrices row by row; each product changes one element of A. *)
Cell(i, j) == (i - 1) * Dim + j

Product(A, B) ==
  [c \in 1 .. Dim * Dim |->
     LET i == (c - 1) \div Dim + 1
         j == ((c - 1) % Dim) + 1
     IN Loop(LAMBDA s, k : Add(s, Mul(A[Cell(i, k)], B[Cell(k, j)])), {}, Dim)]

Seeded(mem) ==
  LET data == Fill(Seed(24589, 24301), 2 * Dim * Dim)
  IN [mem EXCEPT !.MAT_A = SubSeq(data, 1, Dim * Dim),
                 !.MAT_B = SubSeq(data, Dim * Dim + 1, 2 * Dim * Dim)]

MatRep(s, rep) ==
  LET C == Product(s.mem.MAT_A, s.mem.MAT_B)
  IN Result([s.mem EXCEPT !.MAT_C = C, !.MAT_A[rep] = Xor(@, C[rep])],
            Xor(s.ck, Add(C[1], C[Dim * Dim])))

(* Deviation: the matrices are seeded on the first call only. *)
bm_mat16_SeedOnce(mem) ==
  Loop(MatRep, Result(IF Len(mem.MAT_A) = Dim * Dim THEN mem ELSE Seeded(mem), {}), MatReps)

bm_mat16(mem) == Loop(MatRep, Result(Seeded(mem), {}), MatReps)

(* Twice recursive. *)
fib[n \in Nat] == IF n < 2 THEN n ELSE fib[n - 1] + fib[n - 2]

bm_fib(mem) == Result(mem, Bits(fib[mem.FIB_N]))

-----------------------------------------------------------------------------
BMS ==
  <<"gpio_toggle", "xorshift", "div", "f32", "call", "crc32", "sort", "mat16", "fib">>

Bm(name, mem) ==
  IF name = "gpio_toggle" THEN bm_gpio_toggle(mem) ELSE
  IF name = "xorshift"    THEN bm_xorshift(mem)    ELSE
  IF name = "div"         THEN bm_div(mem)         ELSE
  IF name = "f32"         THEN bm_f32(mem)         ELSE
  IF name = "call"        THEN bm_call(mem)        ELSE
  IF name = "crc32"       THEN bm_crc32(mem)       ELSE
  IF name = "sort"        THEN bm_sort(mem)        ELSE
  IF name = "mat16"       THEN bm_mat16(mem)       ELSE bm_fib(mem)
=============================================================================
