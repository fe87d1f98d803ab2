----------------------------- MODULE Checksums -----------------------------
(***************************************************************************)
(* What the checksums of the workloads must be, by definitions that owe      *)
(* nothing to the loops of the kernels: parities, a closed form, polynomial  *)
(* division, ranks, rank-one updates.                                       *)
(***************************************************************************)
EXTENDS Workloads

Iterated(f(_), x, n) == Loop(LAMBDA y, i : f(y), x, n)

(* One xorshift step is linear: each bit is the parity of up to eight bits.   *)
Paths == {0, 5} \X {0, 17} \X {0, 13}

ShiftMatrix(x) ==
  {i \in Bit :
     Cardinality({p \in Paths : /\ i >= p[1] /\ i - p[1] + p[2] \in Bit
                                /\ (i - p[1] + p[2]) - p[3] \in x}) % 2 = 1}

Data(seed, n) == [i \in 1 .. n |-> Iterated(ShiftMatrix, seed, i)]

(* The divisors are 1 + 2 * floor(i^2 / 4). *)
Quotients(n) == MapThenSumSet(LAMBDA i : 1000000 \div (1 + 2 * ((i * i) \div 4)), 0 .. (n - 1))

(* CRC-32 is the remainder of the message, its first word plus the initial    *)
(* value, times x^32: the first bit sent is the highest power of x.          *)
Generator == {0} \cup {b + 1 : b \in Polynomial}

Remainder(init, buf) ==
  LET last == 32 * Len(buf)
      message == UNION {{b + 32 * (i - 1) : b \in buf[i]} : i \in DOMAIN buf}
      Cancel(m, p) == IF p - 1 \in m THEN Xor(m, {g + p - 1 : g \in Generator}) ELSE m
  IN {b - last : b \in Loop(Cancel, Xor(message, init), last)}

Crcs(buf) == Loop(LAMBDA acc, k : Xor(acc, Not(Remainder(Xor(Ones, Bits(k - 1)), buf))),
                  {}, CrcReps)

(* The value of rank k: k - 1 values are smaller. *)
Ranked(a, k) ==
  CHOOSE w \in Range(a) :
    LET smaller == {i \in DOMAIN a : Less(a[i], w)}
        equal   == {i \in DOMAIN a : a[i] = w}
    IN k \in (Cardinality(smaller) + 1) .. (Cardinality(smaller) + Cardinality(equal))

Ranks(rep) ==
  LET a == Data(Add(Seed(192, 65518), Bits(rep - 1)), SortLen)
  IN Xor(Ranked(a, 1), Xor(Ranked(a, SortLen \div 2), Ranked(a, SortLen)))

(* Changing one element of A by d adds d times a row of B to a row of A * B.   *)
RankOne(s, rep) ==
  LET i == (rep - 1) \div Dim + 1
      k == ((rep - 1) % Dim) + 1
      d == Sub(Xor(s.A[rep], s.C[rep]), s.A[rep])
  IN [s EXCEPT !.A[rep] = Xor(@, s.C[rep]),
               !.C = [c \in DOMAIN s.C |->
                        IF (c - 1) \div Dim + 1 = i
                          THEN Add(s.C[c], Mul(d, s.B[Cell(k, ((c - 1) % Dim) + 1)]))
                          ELSE s.C[c]],
               !.ck = Xor(@, Add(s.C[1], s.C[Dim * Dim]))]

Products ==
  LET data == Data(Seed(24589, 24301), 2 * Dim * Dim)
      A == SubSeq(data, 1, Dim * Dim)
      B == SubSeq(data, Dim * Dim + 1, 2 * Dim * Dim)
  IN Loop(RankOne, [A |-> A, B |-> B, C |-> Product(A, B), ck |-> {}], MatReps).ck

Fibonacci(n) == Loop(LAMBDA p, i : <<p[2], p[1] + p[2]>>, <<0, 1>>, n)[1]

Checksum ==
  [gpio_toggle |-> {},
   xorshift    |-> Iterated(ShiftMatrix, Seed(57005, 48879), Rounds),
   div         |-> Bits(Quotients(Rounds)),
   f32         |-> IF Rounds > 0 THEN {0} ELSE {},
   call        |-> Bits(Rounds),
   crc32       |-> Crcs(Data(Seed(4660, 22136), CrcWords)),
   sort        |-> Loop(LAMBDA acc, rep : Add(acc, Ranks(rep)), {}, SortReps),
   mat16       |-> Products,
   fib         |-> Bits(Fibonacci(FibArg))]
=============================================================================
