----------------------------- MODULE BenchProofs -----------------------------
(***************************************************************************)
(* Proofs about Bench, for any number of ranks and rounds, any buffer, any *)
(* list of arguments, chunk and page sizes.  The five benchmarks share one *)
(* stream of collectives but differ in their prologues and in how many     *)
(* calls a round takes; two of them make none without the driver, and a    *)
(* refused attachment makes one too few.  The stream is therefore laid out *)
(* once, as a function of the job alone: where each benchmark and each of  *)
(* its rounds begins, and which collective is at each place.  That every   *)
(* rank not refused keeps to it is the inductive invariant.  From it       *)
(* follows what the file and the buffers hold, which round a latency is of *)
(* and, counting the rounds of all benchmarks, that bench implements       *)
(* Transfer.                                                               *)
(***************************************************************************)
EXTENDS Bench, MpiProofs

(* The benchmarks are counted through: benchmark s is number s % 5 of its  *)
(* block size.                                                             *)
Number(s) == s % 5

(* j, here and below, is a job: how the program was started, and where.    *)
Jobs == [argc : {1, 4}, min_bs : Nat, max_bs : Nat, depth : 1 .. BufSize,
         page : Nat \ {0}, xpmem : BOOLEAN]

(* The benchmark that runs has a driver.                                   *)
Driven(j, s) == Number(s) < 3 \/ j.xpmem

(* The chunks of the pipelined benchmark, and of a round of benchmark s.   *)
Pipelined(j) == (BufSize + j.depth - 1) \div j.depth
ChunksOf(j, s) == IF Number(s) = 1 THEN Pipelined(j) ELSE 1

(* The Bcasts before the loop.                                             *)
Prologue(j, s) == IF Number(s) >= 2 /\ Driven(j, s) THEN 1 ELSE 0

(* n rounds of c chunks, each announced by a Bcast and ended by a Gather.  *)
Calling(n, c) == n * (c + 1)

(* The collectives of benchmark s with the barrier of main, those of the   *)
(* first m benchmarks of a block size, and those before benchmark s.       *)
Whole(j, s) ==
    IF Driven(j, s) THEN Prologue(j, s) + Calling(Iters, ChunksOf(j, s)) + 2 ELSE 1
First(j, m) ==
    (IF m > 0 THEN Whole(j, 0) ELSE 0) + (IF m > 1 THEN Whole(j, 1) ELSE 0)
    + (IF m > 2 THEN Whole(j, 2) ELSE 0) + (IF m > 3 THEN Whole(j, 3) ELSE 0)
    + (IF m > 4 THEN Whole(j, 4) ELSE 0)
Sizes(j, n) == n * First(j, 5)
Base(j, s) == Sizes(j, s \div 5) + First(j, Number(s)) + 1

(* ... and before round i of benchmark s.                                  *)
Loop(j, s, i) == Base(j, s) + Prologue(j, s) + Calling(i, ChunksOf(j, s))

(* Which collective is the k-th of the program.                            *)
Ends(j, k) == \E s \in Nat, i \in 0 .. Iters - 1 : Driven(j, s) /\ k = Loop(j, s, i + 1)
Opens(j, k) == \E s \in Nat : Base(j, s) < k /\ k <= Loop(j, s, 0)
Announces(j, k) ==
    \E s \in Nat, i \in 0 .. Iters - 1 :
        Driven(j, s) /\ Loop(j, s, i) < k /\ k < Loop(j, s, i + 1)
Expected(j, k) ==
    IF Ends(j, k) THEN "gather"
    ELSE IF Opens(j, k) \/ Announces(j, k) THEN "bcast" ELSE "barrier"

-----------------------------------------------------------------------------
(* Where the round of rank r begins.                                       *)
Here(r) == Loop(job, step[r], iter[r])
After(r) == Loop(job, step[r], iter[r] + 1)

Outside == {"start", "first_barrier", "head"} \cup Stopped

(* Where a rank is, told by its pc.                                        *)
Own(r) ==
    /\ pc[r] \notin {"start"} \cup Stopped => ValidArgs
    /\ pc[r] \notin {"start", "first_barrier"} \cup Stopped => blocksize[r] > 0
    /\ pc[r] = "start" => Pos(r) = 0 /\ step[r] = 0 /\ r \notin refused
    /\ pc[r] = "first_barrier" => Pos(r) = 1 /\ step[r] = 0 /\ r \notin refused
    /\ pc[r] = "head" => Pos(r) = Base(job, step[r]) /\ Number(step[r]) = 0
    /\ pc[r] = "begin" => Pos(r) = Base(job, step[r])
    /\ pc[r] = "prologue" => Driven(job, step[r]) /\ Number(step[r]) >= 2
                             /\ Pos(r) = Base(job, step[r]) + 1
    /\ pc[r] = "loop" => Driven(job, step[r]) /\ Pos(r) = Here(r)
    /\ pc[r] \in {"pack", "rts", "copy", "fin"} =>
           Driven(job, step[r]) /\ iter[r] < Iters /\ chunk[r] <= ChunksOf(job, step[r])
    /\ pc[r] = "pack" => r = Sender /\ SharedMemory(r) /\ Pos(r) + 1 = Here(r) + chunk[r]
    /\ pc[r] \in {"rts", "copy"} => Pos(r) = Here(r) + chunk[r]
    /\ pc[r] = "copy" => r # Sender /\ Pos(Sender) >= Pos(r)
    /\ pc[r] = "fin" => Pos(r) = After(r)
    /\ pc[r] = "bench_barrier" =>
           Driven(job, step[r]) /\ iter[r] = Iters /\ Pos(r) = Here(r) + 1
    /\ pc[r] = "main_barrier" /\ r \notin refused =>
           /\ Pos(r) = Base(job, step[r] + 1)
           /\ Driven(job, step[r]) => iter[r] = Iters
    /\ pc[r] = "done" => Pos(r) <= Base(job, step[r])
    /\ pc[r] \notin Outside /\ Number(step[r]) < 3 => liov[r] = "own"

(* A receiver that was refused an attachment waits in the barrier of main  *)
(* for a call the others make as a Gather: forever.                        *)
Refusal(r) ==
    r \in refused =>
        /\ r # Sender /\ pc[r] \in {"main_barrier"} \cup Stopped
        /\ Driven(job, step[r]) /\ iter[r] < Iters /\ Pos(r) = After(r)
        /\ calls[r][Pos(r)] = "barrier"

(* What everybody has entered by the time the sender is in round i of      *)
(* benchmark s: it waits for a Gather before each round but the first, and *)
(* for a barrier before each benchmark but the first.                      *)
Floor(j, s, i) ==
    IF i > 0 THEN Loop(j, s, i) ELSE IF s > 0 THEN Base(j, s) ELSE 0
Everybody(p) == \A q \in Rank : Pos(q) >= p

(* How far the sender may be ahead, dead or alive: before the loop, in a   *)
(* round, after the loop, or in a benchmark that has none.                 *)
Before(s) == Pos(Sender) <= Loop(job, s, 0) /\ Everybody(Floor(job, s, 0))
InRound(s, i) ==
    /\ Driven(job, s) /\ i < Iters
    /\ Pos(Sender) <= Loop(job, s, i + 1) /\ Everybody(Floor(job, s, i))
Behind(s, i) ==
    /\ Pos(Sender) <= Base(job, s + 1)
    /\ IF Driven(job, s) THEN i = Iters /\ Everybody(Floor(job, s, i))
                         ELSE Everybody(Floor(job, s, 0))
Ahead ==
    \/ Before(step[Sender])
    \/ InRound(step[Sender], iter[Sender])
    \/ Behind(step[Sender], iter[Sender])

Shape(r) ==
    \A k \in 1 .. Pos(r) :
        ~(r \in refused /\ k = Pos(r)) => calls[r][k] = Expected(job, k)

Control == Ahead /\ \A r \in Rank : Own(r) /\ Refusal(r) /\ Shape(r)

IInv == job \in Jobs /\ TypeOK /\ Control

-----------------------------------------------------------------------------
(* Rounds of equal length.                                                 *)
LEMMA CallingFacts ==
    ASSUME NEW c \in Nat
    PROVE  /\ Calling(0, c) = 0
           /\ \A n \in Nat : Calling(n, c) \in Nat /\ Calling(n + 1, c) = Calling(n, c) + (c + 1)
           /\ \A n, m \in Nat : n <= m => Calling(n, c) <= Calling(m, c)
<1>1. c + 1 \in Nat
  BY SMT
<1>2. ASSUME NEW n \in Nat
      PROVE  n * (c + 1) \in Nat /\ (n + 1) * (c + 1) = n * (c + 1) + (c + 1)
  BY <1>1, MulSucc
<1>3. ASSUME NEW n \in Nat, NEW m \in Nat, n <= m PROVE n * (c + 1) <= m * (c + 1)
  BY <1>1, <1>3, MulMonotone
<1>4. 0 * (c + 1) = 0
  BY <1>1, MulZero
<1> QED BY <1>2, <1>3, <1>4 DEF Calling

(* What a benchmark is made of.                                            *)
LEMMA BenchmarkFacts ==
    ASSUME NEW j \in Jobs, NEW s \in Nat
    PROVE  /\ Pipelined(j) \in Nat \ {0}
           /\ ChunksOf(j, s) \in Nat \ {0} /\ ChunksOf(j, s) <= Pipelined(j)
           /\ Prologue(j, s) \in 0 .. 1
           /\ Number(s) \in 0 .. 4 /\ Number(Number(s)) = Number(s)
           /\ Whole(j, s) \in Nat \ {0} /\ Whole(j, s) = Whole(j, Number(s))
           /\ Driven(j, s) =>
                 Whole(j, s) = Prologue(j, s) + Calling(Iters, ChunksOf(j, s)) + 2
           /\ ~Driven(j, s) => Whole(j, s) = 1 /\ Prologue(j, s) = 0
           /\ Iters \in Nat \ {0}
<1>1. Iters \in Nat \ {0}
  BY LoopAssumption, SMT DEF Iters
<1>2. j.depth \in 1 .. BufSize /\ BufSize \in Nat
  BY BenchAssumption DEF Jobs
<1>3. Pipelined(j) \in Nat \ {0}
  <2> DEFINE d == j.depth
             c == Pipelined(j)
  <2>1. d \in Nat \ {0} /\ d <= BufSize /\ BufSize \in Nat
    BY <1>2, SMT
  <2>2. c = (BufSize + d - 1) \div d
    BY DEF Pipelined
  <2> HIDE DEF d, c
  <2>3. BufSize + d - 1 \in Nat /\ BufSize + d - 1 >= d
    BY <2>1, SMT
  <2>4. c \in Nat /\ c # 0
    BY <2>1, <2>2, <2>3, SMT
  <2> QED BY <2>4 DEF c
<1>4. ChunksOf(j, s) \in Nat \ {0} /\ ChunksOf(j, s) <= Pipelined(j)
  BY <1>3, SMT DEF ChunksOf
<1>5. Prologue(j, s) \in 0 .. 1 /\ (~Driven(j, s) => Prologue(j, s) = 0)
  BY SMT DEF Prologue
<1>6. Number(s) \in 0 .. 4 /\ Number(Number(s)) = Number(s)
  BY SMT DEF Number
<1>7. Calling(Iters, ChunksOf(j, s)) \in Nat
  <2>1. Iters \in Nat /\ ChunksOf(j, s) \in Nat
    BY <1>1, <1>4
  <2> QED BY <2>1, CallingFacts
<1>8. Whole(j, s) \in Nat \ {0}
  BY <1>5, <1>7, SMT DEF Whole
<1>9. Whole(j, s) = Whole(j, Number(s))
  BY <1>6 DEF Whole, Driven, Prologue, ChunksOf
<1> QED BY <1>1, <1>3, <1>4, <1>5, <1>6, <1>8, <1>9 DEF Whole

(* The benchmarks follow each other in the stream.                         *)
LEMMA BaseFacts ==
    ASSUME NEW j \in Jobs
    PROVE  /\ Base(j, 0) = 1
           /\ \A s \in Nat : /\ Base(j, s) \in Nat /\ Base(j, s) >= 1
                             /\ Base(j, s + 1) = Base(j, s) + Whole(j, s)
           /\ \A s, t \in Nat : s < t => Base(j, s + 1) <= Base(j, t)
<1> DEFINE F(m) == First(j, m)
           Z(n) == Sizes(j, n)
           w0 == Whole(j, 0)
           w1 == Whole(j, 1)
           w2 == Whole(j, 2)
           w3 == Whole(j, 3)
           w4 == Whole(j, 4)
<1>1. w0 \in Nat /\ w1 \in Nat /\ w2 \in Nat /\ w3 \in Nat /\ w4 \in Nat
  BY BenchmarkFacts, SMT
<1>2. /\ F(0) = 0 /\ F(1) = w0 /\ F(2) = w0 + w1 /\ F(3) = w0 + w1 + w2
      /\ F(4) = w0 + w1 + w2 + w3 /\ F(5) = w0 + w1 + w2 + w3 + w4
  <2> HIDE DEF w0, w1, w2, w3, w4
  <2>1. \A m : F(m) = (IF m > 0 THEN w0 ELSE 0) + (IF m > 1 THEN w1 ELSE 0)
                      + (IF m > 2 THEN w2 ELSE 0) + (IF m > 3 THEN w3 ELSE 0)
                      + (IF m > 4 THEN w4 ELSE 0)
    BY DEF First, w0, w1, w2, w3, w4
  <2> HIDE DEF F
  <2> QED BY <1>1, <2>1, SMT
<1>3. F(5) \in Nat
  <2> HIDE DEF F, w0, w1, w2, w3, w4
  <2> QED BY <1>1, <1>2, SMT
<1>4. /\ Z(0) = 0
      /\ \A n \in Nat : Z(n) \in Nat /\ Z(n + 1) = Z(n) + F(5)
      /\ \A m, n \in Nat : m <= n => Z(m) <= Z(n)
  <2> HIDE DEF F
  <2>1. \A n : Z(n) = n * F(5)
    BY DEF Sizes, F
  <2> HIDE DEF Z
  <2>2. ASSUME NEW n \in Nat PROVE n * F(5) \in Nat /\ (n + 1) * F(5) = n * F(5) + F(5)
    BY <1>3, MulSucc
  <2>3. ASSUME NEW n \in Nat, NEW m \in Nat, n <= m PROVE n * F(5) <= m * F(5)
    BY <1>3, <2>3, MulMonotone
  <2>4. 0 * F(5) = 0
    BY <1>3, MulZero
  <2> QED BY <2>1, <2>2, <2>3, <2>4
<1>5. ASSUME NEW s \in Nat
      PROVE  /\ s \div 5 \in Nat /\ Number(s) \in 0 .. 4
             /\ Number(s) < 4 => (s + 1) \div 5 = s \div 5 /\ Number(s + 1) = Number(s) + 1
             /\ Number(s) = 4 => (s + 1) \div 5 = (s \div 5) + 1 /\ Number(s + 1) = 0
  BY SMT DEF Number
<1>6. ASSUME NEW s \in Nat
      PROVE  /\ Base(j, s) = Z(s \div 5) + F(Number(s)) + 1
             /\ Whole(j, s) = Whole(j, Number(s))
  BY BenchmarkFacts DEF Base
<1>7. ASSUME NEW m \in 0 .. 4
      PROVE  F(m) \in Nat /\ F(m + 1) = F(m) + Whole(j, m) /\ F(m) <= F(5)
  <2>1. m = 0 \/ m = 1 \/ m = 2 \/ m = 3 \/ m = 4
    BY SMT
  <2>2. /\ m = 0 => Whole(j, m) = w0
        /\ m = 1 => Whole(j, m) = w1
        /\ m = 2 => Whole(j, m) = w2
        /\ m = 3 => Whole(j, m) = w3
        /\ m = 4 => Whole(j, m) = w4
    OBVIOUS
  <2> HIDE DEF F, w0, w1, w2, w3, w4
  <2> QED BY <1>1, <1>2, <2>1, <2>2, SMT
<1>8. ASSUME NEW m \in 0 .. 4, NEW n \in 0 .. 4, m <= n PROVE F(m) <= F(n)
  <2>1. /\ m = 0 \/ m = 1 \/ m = 2 \/ m = 3 \/ m = 4
        /\ n = 0 \/ n = 1 \/ n = 2 \/ n = 3 \/ n = 4
    BY SMT
  <2> HIDE DEF F, w0, w1, w2, w3, w4
  <2> QED BY <1>1, <1>2, <1>8, <2>1, SMT
<1> HIDE DEF F, Z
<1>9. ASSUME NEW s \in Nat
      PROVE  /\ Base(j, s) \in Nat /\ Base(j, s) >= 1
             /\ Base(j, s + 1) = Base(j, s) + Whole(j, s)
  <2> DEFINE q == s \div 5
             m == Number(s)
             w == Whole(j, s)
  <2>1. q \in Nat /\ m \in 0 .. 4 /\ Z(q) \in Nat /\ F(m) \in Nat /\ w \in Nat
    <3>1. q \in Nat /\ m \in 0 .. 4
      BY <1>5
    <3>2. w \in Nat
      BY BenchmarkFacts
    <3> QED BY <1>4, <1>7, <3>1, <3>2
  <2>2. Base(j, s) = Z(q) + F(m) + 1 /\ F(m + 1) = F(m) + w
    BY <1>6, <1>7, <2>1
  <2>3. s + 1 \in Nat
    BY SMT
  <2>4. CASE m < 4
    <3>1. Base(j, s + 1) = Z(q) + F(m + 1) + 1
      BY <1>5, <1>6, <2>3, <2>4
    <3> HIDE DEF q, m, w
    <3> QED BY <2>1, <2>2, <3>1, SMT DEF w
  <2>5. CASE m = 4
    <3>1. Base(j, s + 1) = Z(q + 1) + F(0) + 1 /\ Z(q + 1) = Z(q) + F(5)
      BY <1>4, <1>5, <1>6, <2>1, <2>3, <2>5
    <3>2. F(m + 1) = F(5) /\ F(0) = 0
      BY <1>2, <2>5, SMT
    <3> HIDE DEF q, m, w
    <3> QED BY <2>1, <2>2, <3>1, <3>2, <1>3, SMT DEF w
  <2>6. m < 4 \/ m = 4
    BY <2>1, SMT
  <2> HIDE DEF q, m, w
  <2> QED BY <2>1, <2>2, <2>4, <2>5, <2>6, SMT DEF w
<1>10. ASSUME NEW s \in Nat, NEW t \in Nat, s < t PROVE Base(j, s + 1) <= Base(j, t)
  <2> DEFINE u == s + 1
             p == u \div 5
             q == t \div 5
             m == Number(u)
             n == Number(t)
  <2>1. u \in Nat /\ u <= t
    BY <1>10, SMT
  <2> HIDE DEF u
  <2>2. /\ p \in Nat /\ q \in Nat /\ m \in 0 .. 4 /\ n \in 0 .. 4
        /\ (p < q \/ (p = q /\ m <= n))
    BY <2>1, SMT DEF Number
  <2>3. Base(j, u) = Z(p) + F(m) + 1 /\ Base(j, t) = Z(q) + F(n) + 1
    BY <1>6, <2>1
  <2>4. Z(p) \in Nat /\ Z(q) \in Nat /\ F(m) \in Nat /\ F(n) \in Nat /\ F(m) <= F(5)
    BY <1>4, <1>7, <2>2
  <2>5. CASE p < q
    <3>1. p + 1 \in Nat /\ p + 1 <= q
      BY <2>2, <2>5, SMT
    <3>2. Z(p + 1) <= Z(q) /\ Z(p + 1) = Z(p) + F(5)
      BY <1>4, <2>2, <3>1
    <3> HIDE DEF p, q, m, n
    <3>3. Base(j, u) <= Base(j, t)
      BY <1>3, <2>3, <2>4, <3>2, SMT
    <3> QED BY <3>3 DEF u
  <2>6. CASE p = q /\ m <= n
    <3>1. F(m) <= F(n) /\ Z(p) = Z(q)
      BY <1>8, <2>2, <2>6
    <3> HIDE DEF p, q, m, n
    <3>2. Base(j, u) <= Base(j, t)
      BY <2>3, <2>4, <3>1, SMT
    <3> QED BY <3>2 DEF u
  <2> QED BY <2>2, <2>5, <2>6
<1>11. Base(j, 0) = 1
  <2>1. 0 \div 5 = 0 /\ Number(0) = 0
    BY SMT DEF Number
  <2>2. Base(j, 0) = Z(0) + F(0) + 1
    BY <1>6, <2>1
  <2> QED BY <1>2, <1>4, <2>2, SMT
<1> QED BY <1>9, <1>10, <1>11

(* The rounds of a benchmark follow each other, and lie between its        *)
(* prologue and its two barriers.                                          *)
LEMMA LoopFacts ==
    ASSUME NEW j \in Jobs, NEW s \in Nat
    PROVE  /\ Base(j, s) \in Nat /\ Base(j, s) >= 1 /\ Base(j, s + 1) \in Nat
           /\ Base(j, s) < Base(j, s + 1)
           /\ Loop(j, s, 0) = Base(j, s) + Prologue(j, s)
           /\ Loop(j, s, 0) <= Base(j, s + 1)
           /\ \A i \in Nat : /\ Loop(j, s, i) \in Nat /\ Loop(j, s, 0) <= Loop(j, s, i)
                             /\ Base(j, s) <= Loop(j, s, i)
                             /\ Loop(j, s, i + 1) = Loop(j, s, i) + ChunksOf(j, s) + 1
           /\ \A i, k \in Nat : i < k => Loop(j, s, i + 1) <= Loop(j, s, k)
           /\ Driven(j, s) => Base(j, s + 1) = Loop(j, s, Iters) + 2
           /\ ~Driven(j, s) => Base(j, s + 1) = Base(j, s) + 1
<1> DEFINE b == Base(j, s)
           p == Prologue(j, s)
           c == ChunksOf(j, s)
           K(i) == Calling(i, c)
           n == Base(j, s + 1)
<1>1. b \in Nat /\ b >= 1 /\ n = b + Whole(j, s)
  BY BaseFacts
<1>2. p \in 0 .. 1 /\ c \in Nat \ {0} /\ Iters \in Nat \ {0}
  BY BenchmarkFacts
<1>3. /\ K(0) = 0
      /\ \A i \in Nat : K(i) \in Nat /\ K(i + 1) = K(i) + (c + 1)
      /\ \A i, k \in Nat : i <= k => K(i) <= K(k)
  <2>1. c \in Nat
    BY <1>2
  <2> HIDE DEF c
  <2> QED BY <2>1, CallingFacts
<1>4. /\ Driven(j, s) => Whole(j, s) = p + K(Iters) + 2
      /\ ~Driven(j, s) => Whole(j, s) = 1 /\ p = 0
  BY BenchmarkFacts
<1>5. \A i : Loop(j, s, i) = b + p + K(i)
  BY DEF Loop
<1> HIDE DEF b, p, c, n, K
<1>6. b \in Nat /\ b >= 1 /\ n \in Nat /\ b < n /\ Loop(j, s, 0) = b + p /\ Loop(j, s, 0) <= n
  <2>1. K(Iters) \in Nat
    BY <1>2, <1>3
  <2>2. Loop(j, s, 0) = b + p
    BY <1>1, <1>2, <1>3, <1>5, SMT
  <2>3. CASE Driven(j, s)
    BY <1>1, <1>2, <1>4, <2>1, <2>2, <2>3, SMT
  <2>4. CASE ~Driven(j, s)
    BY <1>1, <1>2, <1>4, <2>2, <2>4, SMT
  <2> QED BY <2>3, <2>4
<1>7. ASSUME NEW i \in Nat
      PROVE  /\ Loop(j, s, i) \in Nat /\ Loop(j, s, 0) <= Loop(j, s, i)
             /\ b <= Loop(j, s, i) /\ Loop(j, s, i + 1) = Loop(j, s, i) + c + 1
  <2>1. K(i) \in Nat /\ K(i + 1) = K(i) + (c + 1) /\ K(0) = 0
    BY <1>3
  <2>2. /\ Loop(j, s, i) = b + p + K(i) /\ Loop(j, s, i + 1) = b + p + K(i + 1)
        /\ Loop(j, s, 0) = b + p + K(0)
    BY <1>5
  <2> QED BY <1>1, <1>2, <2>1, <2>2, SMT
<1>8. ASSUME NEW i \in Nat, NEW k \in Nat, i < k PROVE Loop(j, s, i + 1) <= Loop(j, s, k)
  <2>1. i + 1 \in Nat /\ i + 1 <= k
    BY <1>8, SMT
  <2>2. K(i + 1) <= K(k) /\ K(i + 1) \in Nat /\ K(k) \in Nat
    BY <1>3, <2>1
  <2> QED BY <1>1, <1>2, <1>5, <2>2, SMT
<1>9. Driven(j, s) => n = Loop(j, s, Iters) + 2
  <2>1. K(Iters) \in Nat /\ Loop(j, s, Iters) = b + p + K(Iters)
    BY <1>2, <1>3, <1>5
  <2> QED BY <1>1, <1>2, <1>4, <2>1, SMT
<1>10. ~Driven(j, s) => n = b + 1
  BY <1>1, <1>4
<1> QED BY <1>6, <1>7, <1>8, <1>9, <1>10 DEF b, p, c, n

(* A place in the stream belongs to one benchmark ...                      *)
LEMMA OneBenchmark ==
    ASSUME NEW j \in Jobs, NEW s \in Nat, NEW t \in Nat, NEW k \in Nat,
           Base(j, s) < k, k <= Base(j, s + 1), Base(j, t) < k, k <= Base(j, t + 1)
    PROVE  s = t
<1>1. /\ Base(j, s) \in Nat /\ Base(j, s + 1) \in Nat
      /\ Base(j, t) \in Nat /\ Base(j, t + 1) \in Nat
  BY LoopFacts
<1>2. (s < t => Base(j, s + 1) <= Base(j, t)) /\ (t < s => Base(j, t + 1) <= Base(j, s))
  BY BaseFacts
<1> QED BY <1>1, <1>2, SMT

(* ... and at most one of its rounds.                                      *)
LEMMA OneRound ==
    ASSUME NEW j \in Jobs, NEW s \in Nat, NEW i \in Nat, NEW n \in Nat, NEW k \in Nat,
           Loop(j, s, i) < k, k <= Loop(j, s, i + 1),
           Loop(j, s, n) < k, k <= Loop(j, s, n + 1)
    PROVE  i = n
<1>1. /\ Loop(j, s, i) \in Nat /\ Loop(j, s, i + 1) \in Nat
      /\ Loop(j, s, n) \in Nat /\ Loop(j, s, n + 1) \in Nat
  <2>1. i + 1 \in Nat /\ n + 1 \in Nat
    BY SMT
  <2> QED BY <2>1, LoopFacts
<1>2. /\ i < n => Loop(j, s, i + 1) <= Loop(j, s, n)
      /\ n < i => Loop(j, s, n + 1) <= Loop(j, s, i)
  BY LoopFacts
<1> QED BY <1>1, <1>2, SMT

(* The rounds of a benchmark lie within it.                                *)
LEMMA RoundWithin ==
    ASSUME NEW j \in Jobs, NEW s \in Nat, NEW i \in 0 .. Iters - 1, Driven(j, s)
    PROVE  /\ i \in Nat /\ i + 1 \in Nat /\ i < Iters
           /\ Base(j, s) <= Loop(j, s, i) /\ Loop(j, s, i) + 2 <= Loop(j, s, i + 1)
           /\ Loop(j, s, i + 1) + 2 <= Base(j, s + 1)
<1>1. Iters \in Nat \ {0} /\ ChunksOf(j, s) \in Nat \ {0}
  BY BenchmarkFacts
<1>2. i \in Nat /\ i + 1 \in Nat /\ i < Iters
  BY <1>1, SMT
<1>3. /\ Loop(j, s, i) \in Nat /\ Base(j, s) <= Loop(j, s, i)
      /\ Loop(j, s, i + 1) = Loop(j, s, i) + ChunksOf(j, s) + 1
      /\ Loop(j, s, i + 1) <= Loop(j, s, Iters) /\ Loop(j, s, Iters) \in Nat
      /\ Base(j, s + 1) = Loop(j, s, Iters) + 2
  BY <1>1, <1>2, LoopFacts
<1> QED BY <1>1, <1>2, <1>3, SMT

(* What is at a place of benchmark s.                                      *)
LEMMA PlaceFacts ==
    ASSUME NEW j \in Jobs, NEW s \in Nat, NEW k \in Nat,
           Base(j, s) < k, k <= Base(j, s + 1)
    PROVE  /\ Ends(j, k) => \E i \in 0 .. Iters - 1 : Driven(j, s) /\ k = Loop(j, s, i + 1)
           /\ Opens(j, k) => k <= Loop(j, s, 0)
           /\ Announces(j, k) =>
                 \E i \in 0 .. Iters - 1 :
                     Driven(j, s) /\ Loop(j, s, i) < k /\ k < Loop(j, s, i + 1)
<1>1. ASSUME NEW t \in Nat, NEW i \in 0 .. Iters - 1, Driven(j, t), k = Loop(j, t, i + 1)
      PROVE  t = s
  <2>1. /\ Base(j, t) <= Loop(j, t, i) /\ Loop(j, t, i) + 2 <= Loop(j, t, i + 1)
        /\ Loop(j, t, i + 1) + 2 <= Base(j, t + 1) /\ i \in Nat
    BY <1>1, RoundWithin
  <2>2. Base(j, t) \in Nat /\ Loop(j, t, i) \in Nat /\ Base(j, t + 1) \in Nat
    BY <2>1, LoopFacts
  <2>3. Base(j, t) < k /\ k <= Base(j, t + 1)
    BY <1>1, <2>1, <2>2, SMT
  <2> QED BY <2>3, OneBenchmark
<1>2. ASSUME NEW t \in Nat, Base(j, t) < k, k <= Loop(j, t, 0)
      PROVE  t = s
  <2>1. Base(j, t + 1) \in Nat /\ Loop(j, t, 0) \in Nat /\ Loop(j, t, 0) <= Base(j, t + 1)
    BY LoopFacts
  <2>2. k <= Base(j, t + 1)
    BY <1>2, <2>1, SMT
  <2> QED BY <1>2, <2>2, OneBenchmark
<1>3. ASSUME NEW t \in Nat, NEW i \in 0 .. Iters - 1, Driven(j, t),
             Loop(j, t, i) < k, k < Loop(j, t, i + 1)
      PROVE  t = s
  <2>1. /\ Base(j, t) <= Loop(j, t, i) /\ Loop(j, t, i) + 2 <= Loop(j, t, i + 1)
        /\ Loop(j, t, i + 1) + 2 <= Base(j, t + 1) /\ i \in Nat /\ i + 1 \in Nat
    BY <1>3, RoundWithin
  <2>2. /\ Base(j, t) \in Nat /\ Loop(j, t, i) \in Nat /\ Base(j, t + 1) \in Nat
        /\ Loop(j, t, i + 1) \in Nat
    BY <2>1, LoopFacts
  <2>3. Base(j, t) < k /\ k <= Base(j, t + 1)
    BY <1>3, <2>1, <2>2, SMT
  <2> QED BY <2>3, OneBenchmark
<1>4. Ends(j, k) => \E i \in 0 .. Iters - 1 : Driven(j, s) /\ k = Loop(j, s, i + 1)
  BY <1>1 DEF Ends
<1>5. Opens(j, k) => k <= Loop(j, s, 0)
  BY <1>2 DEF Opens
<1>6. Announces(j, k) =>
          \E i \in 0 .. Iters - 1 : Driven(j, s) /\ Loop(j, s, i) < k /\ k < Loop(j, s, i + 1)
  BY <1>3 DEF Announces
<1> QED BY <1>4, <1>5, <1>6

(* The collectives of benchmark s, in their order, and the first of all.   *)
LEMMA ExpectedFacts ==
    ASSUME NEW j \in Jobs, NEW s \in Nat, NEW k \in Nat
    PROVE  /\ Base(j, s) < k /\ k <= Loop(j, s, 0) => Expected(j, k) = "bcast"
           /\ \A i \in 0 .. Iters - 1 : Driven(j, s) =>
                 /\ Loop(j, s, i) < k /\ k < Loop(j, s, i + 1) => Expected(j, k) = "bcast"
                 /\ k = Loop(j, s, i + 1) => Expected(j, k) = "gather"
           /\ Driven(j, s) /\ Loop(j, s, Iters) < k /\ k <= Base(j, s + 1) =>
                 Expected(j, k) = "barrier"
           /\ ~Driven(j, s) /\ k = Base(j, s + 1) => Expected(j, k) = "barrier"
           /\ k = 1 => Expected(j, k) = "barrier"
<1>1. /\ Base(j, s) \in Nat /\ Base(j, s) >= 1 /\ Base(j, s + 1) \in Nat
      /\ Base(j, s) < Base(j, s + 1)
      /\ Loop(j, s, 0) \in Nat /\ Loop(j, s, 0) <= Base(j, s + 1)
      /\ \A i \in Nat : /\ Loop(j, s, i) \in Nat /\ Loop(j, s, 0) <= Loop(j, s, i)
                        /\ Base(j, s) <= Loop(j, s, i)
      /\ Driven(j, s) => Base(j, s + 1) = Loop(j, s, Iters) + 2
      /\ ~Driven(j, s) => Base(j, s + 1) = Base(j, s) + 1
  <2>1. 0 \in Nat
    BY SMT
  <2> QED BY <2>1, LoopFacts
<1>2. Iters \in Nat \ {0}
  BY BenchmarkFacts
<1>3. ASSUME NEW i \in 0 .. Iters - 1, Driven(j, s)
      PROVE  /\ i \in Nat /\ i + 1 \in Nat /\ i < Iters
             /\ Base(j, s) <= Loop(j, s, i) /\ Loop(j, s, i) + 2 <= Loop(j, s, i + 1)
             /\ Loop(j, s, i + 1) + 2 <= Base(j, s + 1)
             /\ Loop(j, s, i + 1) + 2 <= Loop(j, s, Iters) + 2
  <2>1. /\ i \in Nat /\ i + 1 \in Nat /\ i < Iters
        /\ Base(j, s) <= Loop(j, s, i) /\ Loop(j, s, i) + 2 <= Loop(j, s, i + 1)
        /\ Loop(j, s, i + 1) + 2 <= Base(j, s + 1)
    BY <1>3, RoundWithin
  <2> QED BY <1>1, <1>3, <2>1
<1>4. ASSUME Base(j, s) < k, k <= Loop(j, s, 0) PROVE Expected(j, k) = "bcast"
  <2>1. k <= Base(j, s + 1)
    BY <1>1, <1>4, SMT
  <2>2. ASSUME Ends(j, k) PROVE FALSE
    <3>1. PICK i \in 0 .. Iters - 1 : Driven(j, s) /\ k = Loop(j, s, i + 1)
      BY <1>4, <2>1, <2>2, PlaceFacts
    <3> QED BY <1>1, <1>3, <1>4, <3>1, SMT
  <2>3. Opens(j, k)
    BY <1>4 DEF Opens
  <2> QED BY <2>2, <2>3 DEF Expected
<1>5. ASSUME NEW i \in 0 .. Iters - 1, Driven(j, s),
             Loop(j, s, i) < k, k < Loop(j, s, i + 1)
      PROVE  Expected(j, k) = "bcast"
  <2>1. /\ i \in Nat /\ i + 1 \in Nat /\ Base(j, s) <= Loop(j, s, i)
        /\ Loop(j, s, i + 1) + 2 <= Base(j, s + 1)
    BY <1>3, <1>5
  <2>2. Base(j, s) < k /\ k <= Base(j, s + 1)
    BY <1>1, <1>5, <2>1, SMT
  <2>3. ASSUME Ends(j, k) PROVE FALSE
    <3>1. PICK n \in 0 .. Iters - 1 : k = Loop(j, s, n + 1)
      BY <2>2, <2>3, PlaceFacts
    <3>2. n \in Nat /\ n + 1 \in Nat /\ Loop(j, s, n) + 2 <= Loop(j, s, n + 1)
      BY <1>3, <1>5, <3>1
    <3>3. Loop(j, s, n) < k /\ k <= Loop(j, s, n + 1) /\ k <= Loop(j, s, i + 1)
      BY <1>1, <1>5, <2>1, <3>1, <3>2, SMT
    <3>4. n = i
      BY <1>5, <2>1, <3>2, <3>3, OneRound
    <3> QED BY <1>1, <1>5, <2>1, <3>1, <3>4, SMT
  <2>4. Announces(j, k)
    BY <1>5 DEF Announces
  <2> QED BY <2>3, <2>4 DEF Expected
<1>6. ASSUME NEW i \in 0 .. Iters - 1, Driven(j, s), k = Loop(j, s, i + 1)
      PROVE  Expected(j, k) = "gather"
  BY <1>6 DEF Expected, Ends
<1>7. ASSUME (Driven(j, s) /\ Loop(j, s, Iters) < k) \/ ~Driven(j, s),
             Base(j, s) < k, k <= Base(j, s + 1), Loop(j, s, 0) < k
      PROVE  Expected(j, k) = "barrier"
  <2>1. ASSUME Ends(j, k) PROVE FALSE
    <3>1. PICK i \in 0 .. Iters - 1 : Driven(j, s) /\ k = Loop(j, s, i + 1)
      BY <1>7, <2>1, PlaceFacts
    <3>2. /\ i + 1 \in Nat /\ Loop(j, s, i + 1) + 2 <= Loop(j, s, Iters) + 2
          /\ Loop(j, s, Iters) < k
      BY <1>3, <1>7, <3>1
    <3>3. Loop(j, s, i + 1) \in Nat /\ Loop(j, s, Iters) \in Nat
      BY <1>1, <1>2, <3>2
    <3> QED BY <3>1, <3>2, <3>3, SMT
  <2>2. ~Opens(j, k)
    BY <1>1, <1>7, PlaceFacts, SMT
  <2>3. ASSUME Announces(j, k) PROVE FALSE
    <3>1. PICK i \in 0 .. Iters - 1 :
              Driven(j, s) /\ Loop(j, s, i) < k /\ k < Loop(j, s, i + 1)
      BY <1>7, <2>3, PlaceFacts
    <3> QED BY <1>1, <1>2, <1>3, <1>7, <3>1, SMT
  <2> QED BY <2>1, <2>2, <2>3 DEF Expected
<1>8. ASSUME Driven(j, s), Loop(j, s, Iters) < k, k <= Base(j, s + 1)
      PROVE  Expected(j, k) = "barrier"
  <2>1. Base(j, s) < k /\ Loop(j, s, 0) < k
    BY <1>1, <1>2, <1>8, SMT
  <2> QED BY <1>7, <1>8, <2>1
<1>9. ASSUME ~Driven(j, s), k = Base(j, s + 1)
      PROVE  Expected(j, k) = "barrier"
  <2>1. Loop(j, s, 0) = Base(j, s)
    BY <1>1, <1>9, LoopFacts, BenchmarkFacts, SMT
  <2>2. Base(j, s) < k /\ Loop(j, s, 0) < k /\ k <= Base(j, s + 1)
    BY <1>1, <1>9, <2>1, SMT
  <2> QED BY <1>7, <1>9, <2>2
<1>10. ASSUME k = 1 PROVE Expected(j, k) = "barrier"
  <2>1. ASSUME NEW t \in Nat, NEW i \in 0 .. Iters - 1, Driven(j, t), Loop(j, t, i) < k
        PROVE  FALSE
    <3>1. i \in Nat
      BY <2>1, RoundWithin
    <3>2. Loop(j, t, i) \in Nat /\ Base(j, t) <= Loop(j, t, i)
          /\ Base(j, t) \in Nat /\ Base(j, t) >= 1
      BY <3>1, LoopFacts
    <3> QED BY <1>10, <2>1, <3>2, SMT
  <2>2. ASSUME NEW t \in Nat, NEW i \in 0 .. Iters - 1, Driven(j, t), k = Loop(j, t, i + 1)
        PROVE  FALSE
    <3>1. Loop(j, t, i) + 2 <= Loop(j, t, i + 1) /\ i \in Nat
      BY <2>2, RoundWithin
    <3>2. Loop(j, t, i) \in Nat
      BY <3>1, LoopFacts
    <3>3. Loop(j, t, i) < k
      BY <2>2, <3>1, <3>2, SMT
    <3> QED BY <2>1, <2>2, <3>3
  <2>3. ASSUME NEW t \in Nat, Base(j, t) < k PROVE FALSE
    <3>1. Base(j, t) \in Nat /\ Base(j, t) >= 1
      BY LoopFacts
    <3> QED BY <1>10, <2>3, <3>1, SMT
  <2> QED BY <2>1, <2>2, <2>3 DEF Expected, Ends, Opens, Announces
<1> QED BY <1>4, <1>5, <1>6, <1>8, <1>9, <1>10

-----------------------------------------------------------------------------
(* The numbers of a rank.                                                  *)
LEMMA RankFacts ==
    ASSUME TypeOK, job \in Jobs, NEW r \in Rank
    PROVE  /\ Pos(r) \in Nat /\ step[r] \in Nat /\ iter[r] \in Nat /\ iter[r] <= Iters
           /\ chunk[r] \in Nat \ {0} /\ Iters \in Nat \ {0} /\ Sender \in Rank
           /\ NChunks = Pipelined(job)
<1>1. Pos(r) \in Nat
  BY PosNat DEF TypeOK
<1>2. step[r] \in Nat /\ iter[r] \in 0 .. Iters /\ chunk[r] \in 1 .. NChunks
  BY DEF TypeOK, Piece
<1>3. Iters \in Nat \ {0}
  BY LoopAssumption, SMT DEF Iters
<1>4. NChunks = Pipelined(job) /\ Pipelined(job) \in Nat \ {0}
  <2>1. 0 \in Nat
    BY SMT
  <2> QED BY <2>1, BenchmarkFacts DEF NChunks, Pipelined
<1> QED BY <1>1, <1>2, <1>3, <1>4, SenderAssumption, SMT

(* The bounds of Floor, in the order of the job's stream.                  *)
LEMMA FloorFacts ==
    ASSUME NEW j \in Jobs, NEW s \in Nat, NEW i \in Nat
    PROVE  /\ Floor(j, s, i) \in Nat /\ Floor(j, s, i) <= Loop(j, s, i)
           /\ s > 0 => Base(j, s) <= Floor(j, s, i)
<1>1. /\ Base(j, s) \in Nat /\ Loop(j, s, i) \in Nat /\ Base(j, s) <= Loop(j, s, i)
  BY LoopFacts
<1> QED BY <1>1, SMT DEF Floor

(* A rank inside a round the sender has announced finds the sender in that *)
(* very round.                                                             *)
LEMMA SenderIsHere ==
    ASSUME TypeOK, job \in Jobs, Ahead, NEW r \in Rank,
           Driven(job, step[r]), iter[r] < Iters,
           Here(r) < Pos(r), Pos(r) < After(r), Pos(Sender) >= Pos(r)
    PROVE  /\ step[Sender] = step[r] /\ iter[Sender] = iter[r]
           /\ InRound(step[Sender], iter[Sender])
<1> DEFINE s == step[r]
           i == iter[r]
           p == Pos(r)
           t == step[Sender]
           n == iter[Sender]
           P == Pos(Sender)
           L(x, y) == Loop(job, x, y)
           B(x) == Base(job, x)
           F(x, y) == Floor(job, x, y)
<1>1. /\ s \in Nat /\ i \in Nat /\ i < Iters /\ p \in Nat /\ Iters \in Nat \ {0}
      /\ t \in Nat /\ n \in Nat /\ n <= Iters /\ P \in Nat /\ P >= p
      /\ L(s, i) < p /\ p < L(s, i + 1) /\ Driven(job, s)
  BY RankFacts DEF Here, After
<1>2. i \in 0 .. Iters - 1
  BY <1>1, SMT
<1> HIDE DEF s, i, p, t, n, P
<1>3. /\ B(s) <= L(s, i) /\ L(s, i + 1) + 2 <= B(s + 1) /\ L(s, 0) <= L(s, i)
      /\ B(s) \in Nat /\ B(s + 1) \in Nat /\ L(s, 0) \in Nat /\ L(s, i) \in Nat
      /\ L(s, i + 1) \in Nat
  <2>1. 0 \in Nat /\ i + 1 \in Nat
    BY <1>1, SMT
  <2> QED BY <1>1, <1>2, <2>1, LoopFacts, RoundWithin
<1>4. B(s) < p /\ p < B(s + 1)
  BY <1>1, <1>3, SMT
<1>5. /\ B(t + 1) \in Nat /\ B(t) \in Nat
      /\ t < s => B(t + 1) <= B(s)
      /\ s < t => B(s + 1) <= B(t)
  BY <1>1, BaseFacts, LoopFacts
<1>6. ASSUME P <= B(t + 1) PROVE ~(t < s)
  BY <1>1, <1>4, <1>5, <1>6, <1>3, SMT
<1>7. ASSUME NEW m \in Nat, Everybody(F(t, m)) PROVE ~(s < t)
  <2>1. F(t, m) <= p
    BY <1>7 DEF Everybody, p
  <2>2. F(t, m) \in Nat /\ (t > 0 => B(t) <= F(t, m))
    BY <1>1, <1>7, FloorFacts
  <2> HIDE DEF F
  <2> QED BY <1>1, <1>3, <1>4, <1>5, <2>1, <2>2, SMT
<1>8. ASSUME Before(t) PROVE FALSE
  <2>1. P <= L(t, 0) /\ Everybody(F(t, 0)) /\ 0 \in Nat
    BY <1>8, SMT DEF Before, P
  <2>2. L(t, 0) \in Nat /\ L(t, 0) <= B(t + 1)
    BY <1>1, <2>1, LoopFacts
  <2>3. P <= B(t + 1)
    BY <1>1, <1>5, <2>1, <2>2, SMT
  <2>4. ~(t < s) /\ ~(s < t)
    BY <1>6, <1>7, <2>1, <2>3
  <2>5. t = s
    BY <1>1, <2>4, SMT
  <2> QED BY <1>1, <1>3, <2>1, <2>5, SMT
<1>9. ASSUME Behind(t, n) PROVE FALSE
  <2>1. P <= B(t + 1) /\ 0 \in Nat
    BY <1>9, SMT DEF Behind, P
  <2>2. PICK m \in Nat : Everybody(F(t, m)) /\ (Driven(job, t) => m = Iters)
    BY <1>1, <1>9, <2>1 DEF Behind
  <2>3. ~(t < s) /\ ~(s < t)
    BY <1>6, <1>7, <2>1, <2>2
  <2>4. t = s
    BY <1>1, <2>3, SMT
  <2>5. F(s, Iters) <= p
    BY <1>1, <2>2, <2>4 DEF Everybody, p
  <2>6. F(s, Iters) = L(s, Iters)
    BY <1>1, SMT DEF Floor
  <2>7. L(s, i + 1) <= L(s, Iters) /\ L(s, Iters) \in Nat
    BY <1>1, LoopFacts
  <2> HIDE DEF F, L
  <2> QED BY <1>1, <1>3, <2>5, <2>6, <2>7, SMT
<1>10. ASSUME InRound(t, n) PROVE t = s /\ n = i
  <2>1. Driven(job, t) /\ n < Iters /\ P <= L(t, n + 1) /\ Everybody(F(t, n))
    BY <1>10 DEF InRound, P
  <2>2. n \in 0 .. Iters - 1 /\ n + 1 \in Nat
    BY <1>1, <2>1, SMT
  <2>3. L(t, n + 1) + 2 <= B(t + 1) /\ L(t, n + 1) \in Nat /\ L(t, n) \in Nat
    BY <1>1, <2>1, <2>2, RoundWithin, LoopFacts
  <2>4. P <= B(t + 1)
    BY <1>1, <1>5, <2>1, <2>3, SMT
  <2>5. ~(t < s) /\ ~(s < t)
    BY <1>1, <1>6, <1>7, <2>1, <2>4
  <2>6. t = s
    BY <1>1, <2>5, SMT
  <2>7. (n < i => L(s, n + 1) <= L(s, i)) /\ (i < n => L(s, i + 1) <= L(s, n))
    BY <1>1, LoopFacts
  <2>8. F(s, n) <= p
    BY <2>1, <2>6 DEF Everybody, p
  <2>9. i < n => F(s, n) = L(s, n)
    BY <1>1, SMT DEF Floor
  <2>10. P <= L(s, n + 1) /\ L(s, n + 1) \in Nat /\ L(s, n) \in Nat
    BY <2>1, <2>3, <2>6
  <2> HIDE DEF F, L
  <2>11. ~(n < i)
    BY <1>1, <1>3, <2>7, <2>10, SMT
  <2>12. ~(i < n)
    BY <1>1, <1>3, <2>7, <2>8, <2>9, <2>10, SMT
  <2> QED BY <1>1, <2>6, <2>11, <2>12, SMT
<1>11. Before(t) \/ InRound(t, n) \/ Behind(t, n)
  BY DEF Ahead, t, n
<1> QED BY <1>8, <1>9, <1>10, <1>11 DEF s, i, t, n

(* A receiver that copies is inside its round.                             *)
LEMMA CopierIsInside ==
    ASSUME IInv, NEW r \in Rank, pc[r] = "copy"
    PROVE  /\ r # Sender /\ Pos(Sender) >= Pos(r) /\ Driven(job, step[r]) /\ iter[r] < Iters
           /\ Pos(r) = Here(r) + chunk[r] /\ chunk[r] <= ChunksOf(job, step[r])
           /\ Here(r) \in Nat /\ After(r) \in Nat
           /\ Here(r) < Pos(r) /\ Pos(r) < After(r)
           /\ step[Sender] = step[r] /\ iter[Sender] = iter[r]
<1>1. TypeOK /\ job \in Jobs /\ Ahead /\ Own(r)
  BY DEF IInv, Control
<1>2. /\ r # Sender /\ Pos(Sender) >= Pos(r) /\ Driven(job, step[r]) /\ iter[r] < Iters
      /\ Pos(r) = Here(r) + chunk[r] /\ chunk[r] <= ChunksOf(job, step[r])
  BY <1>1 DEF Own
<1>3. /\ chunk[r] \in Nat \ {0} /\ ChunksOf(job, step[r]) \in Nat
      /\ Here(r) \in Nat /\ After(r) = Here(r) + ChunksOf(job, step[r]) + 1
  <2>1. step[r] \in Nat /\ iter[r] \in Nat /\ chunk[r] \in Nat \ {0}
    BY <1>1, RankFacts
  <2>2. ChunksOf(job, step[r]) \in Nat
    BY <1>1, <2>1, BenchmarkFacts
  <2> QED BY <1>1, <2>1, <2>2, LoopFacts DEF Here, After
<1>4. Here(r) < Pos(r) /\ Pos(r) < After(r) /\ After(r) \in Nat
  BY <1>2, <1>3, SMT
<1>5. step[Sender] = step[r] /\ iter[Sender] = iter[r]
  BY <1>1, <1>2, <1>4, SenderIsHere
<1> QED BY <1>2, <1>3, <1>4, <1>5

(* ... and the sender is busy with it, or dead.                            *)
LEMMA HoldSender == IInv => ReadersHoldSender
<1> SUFFICES ASSUME IInv, NEW r \in Receiver, pc[r] = "copy"
             PROVE  /\ step[Sender] = step[r] /\ iter[Sender] = iter[r]
                    /\ pc[Sender] \in {"pack", "rts", "fin", "killed"} \cup Failed
                    /\ pc[Sender] = "pack" => chunk[r] < chunk[Sender]
  BY DEF ReadersHoldSender
<1>1. r \in Rank /\ Sender \in Rank /\ TypeOK /\ job \in Jobs /\ Own(Sender) /\ Refusal(Sender)
  BY SenderAssumption DEF Receiver, IInv, Control
<1>2. /\ Pos(Sender) >= Pos(r) /\ Driven(job, step[r]) /\ iter[r] < Iters
      /\ Pos(r) = Here(r) + chunk[r] /\ Here(r) \in Nat /\ Here(r) < Pos(r) /\ Pos(r) < After(r)
      /\ step[Sender] = step[r] /\ iter[Sender] = iter[r]
  BY <1>1, CopierIsInside
<1>3. /\ Pos(r) \in Nat /\ Pos(Sender) \in Nat /\ step[r] \in Nat /\ iter[r] \in Nat
      /\ iter[r] <= Iters /\ Iters \in Nat /\ chunk[r] \in Nat /\ chunk[Sender] \in Nat
  <2>1. \A q \in Rank : /\ Pos(q) \in Nat /\ step[q] \in Nat /\ iter[q] \in Nat
                        /\ iter[q] <= Iters /\ chunk[q] \in Nat \ {0} /\ Iters \in Nat
    BY <1>1, RankFacts
  <2> QED BY <1>1, <2>1
<1>4. /\ Here(Sender) = Here(r) /\ After(Sender) = After(r)
  BY <1>2 DEF Here, After
<1>5. /\ Base(job, step[r]) \in Nat /\ Base(job, step[r]) <= Here(r)
      /\ Loop(job, step[r], 0) = Base(job, step[r]) + Prologue(job, step[r])
      /\ Loop(job, step[r], 0) \in Nat /\ Loop(job, step[r], 0) <= Here(r)
  <2>1. 0 \in Nat
    BY SMT
  <2> QED BY <1>1, <1>3, <2>1, LoopFacts DEF Here
<1>6. pc[Sender] \in Label /\ Sender \notin refused
  BY <1>1 DEF TypeOK, Receiver
<1>7. pc[Sender] \notin {"start", "first_barrier"}
  <2>1. /\ pc[Sender] = "start" => Pos(Sender) = 0
        /\ pc[Sender] = "first_barrier" => Pos(Sender) = 1 /\ step[Sender] = 0
    BY <1>1 DEF Own
  <2>2. Base(job, step[r]) >= 1
    BY <1>1, <1>3, LoopFacts
  <2> QED BY <1>2, <1>3, <1>5, <2>1, <2>2, SMT
<1>8. pc[Sender] \notin {"head", "begin", "done"}
  <2>1. pc[Sender] \in {"head", "begin", "done"} => Pos(Sender) <= Base(job, step[r])
    <3>1. pc[Sender] \in {"head", "begin"} => Pos(Sender) = Base(job, step[r])
      BY <1>1, <1>2 DEF Own
    <3>2. pc[Sender] = "done" => Pos(Sender) <= Base(job, step[r])
      BY <1>1, <1>2 DEF Own
    <3> QED BY <1>3, <1>5, <3>1, <3>2, SMT
  <2> QED BY <1>2, <1>3, <1>5, <2>1, SMT
<1>9. pc[Sender] # "prologue"
  <2>1. pc[Sender] = "prologue" =>
            /\ Pos(Sender) = Base(job, step[r]) + 1
            /\ Number(step[r]) >= 2 /\ Driven(job, step[r])
    BY <1>1, <1>2 DEF Own
  <2>2. Number(step[r]) >= 2 /\ Driven(job, step[r]) => Prologue(job, step[r]) = 1
    BY DEF Prologue
  <2> QED BY <1>2, <1>3, <1>5, <2>1, <2>2, SMT
<1>10. pc[Sender] # "loop"
  <2>1. pc[Sender] = "loop" => Pos(Sender) = Here(r)
    BY <1>1, <1>4 DEF Own
  <2> QED BY <1>2, <1>3, <2>1, SMT
<1>11. pc[Sender] # "copy"
  BY <1>1 DEF Own
<1>12. pc[Sender] \notin {"bench_barrier", "main_barrier"}
  <2>1. pc[Sender] \in {"bench_barrier", "main_barrier"} => iter[Sender] = Iters
    BY <1>1, <1>2, <1>6 DEF Own
  <2> QED BY <1>2, <1>3, <2>1, SMT
<1>13. pc[Sender] = "pack" => chunk[r] < chunk[Sender]
  <2>1. pc[Sender] = "pack" => Pos(Sender) + 1 = Here(r) + chunk[Sender]
    BY <1>1, <1>4 DEF Own
  <2> QED BY <1>2, <1>3, <2>1, SMT
<1> QED BY <1>2, <1>6, <1>7, <1>8, <1>9, <1>10, <1>11, <1>12, <1>13 DEF Label, Stopped

-----------------------------------------------------------------------------
(* Which benchmark a rank is in.                                           *)
LEMMA PhaseFacts ==
    ASSUME TypeOK, job \in Jobs, NEW r \in Rank
    PROVE  /\ SharedMemory(r) <=> Number(step[r]) < 2
           /\ Xpmem(r) <=> Number(step[r]) >= 3
           /\ Phase(r) = "shmem_pip" <=> Number(step[r]) = 1
           /\ Phase(r) = PhaseOrder[5] <=> Number(step[r]) = 4
           /\ Chunks(r) = ChunksOf(job, step[r])
           /\ Number(step[r]) \in 0 .. 4
           /\ Number(step[r]) < 4 => Number(step[r] + 1) = Number(step[r]) + 1
           /\ Number(step[r]) = 4 => Number(step[r] + 1) = 0
<1>1. step[r] \in Nat /\ NChunks = Pipelined(job)
  BY RankFacts
<1>2. /\ Number(step[r]) \in 0 .. 4
      /\ Number(step[r]) < 4 => Number(step[r] + 1) = Number(step[r]) + 1
      /\ Number(step[r]) = 4 => Number(step[r] + 1) = 0
  BY <1>1, SMT DEF Number
<1>3. Phase(r) = Order[Number(step[r]) + 1]
  BY DEF Phase, PhaseOrder, Number
<1>4. /\ Number(step[r]) = 0 => Phase(r) = "shmem"
      /\ Number(step[r]) = 1 => Phase(r) = "shmem_pip"
      /\ Number(step[r]) = 2 => Phase(r) = "cma"
      /\ Number(step[r]) = 3 => Phase(r) = "xpmem_nocache"
      /\ Number(step[r]) = 4 => Phase(r) = "xpmem_cached"
      /\ PhaseOrder[5] = "xpmem_cached"
  BY <1>2, <1>3 DEF Order, PhaseOrder
<1> QED BY <1>1, <1>2, <1>4, SMT DEF SharedMemory, Xpmem, Chunks, ChunksOf

(* The job does not change.                                                *)
LEMMA FixedJob ==
    ASSUME NEW r \in Rank, RankStep(r) \/ Launcher(r)
    PROVE  job' = job
  BY DEF RankStep, Launcher, WrongUsage, BadArgs, Start, PassFirstBarrier, NextBlockSize, Exit,
     BeginShmem, BeginOneCopy, PassPrologue, NoDriver, StartRound, Pack, PassRts, Copy, Fault,
     Refuse, AssertFails, PassFin, OverrunAborts, EndLoop, EndPhase, PassMainBarrier

(* A rank leaves the variables of the others alone.                        *)
LEMMA OthersKeep ==
    ASSUME TypeOK, NEW r \in Rank, RankStep(r) \/ Launcher(r), NEW q \in Rank, q # r
    PROVE  /\ pc'[q] = pc[q] /\ calls'[q] = calls[q] /\ iter'[q] = iter[q]
           /\ step'[q] = step[q] /\ blocksize'[q] = blocksize[q] /\ chunk'[q] = chunk[q]
           /\ liov'[q] = liov[q] /\ Pos(q)' = Pos(q)
           /\ q \in refused' <=> q \in refused
<1>1. pc'[q] = pc[q]
  BY DEF TypeOK, RankStep, Launcher, WrongUsage, BadArgs, Start, PassFirstBarrier, NextBlockSize,
     Exit, BeginShmem, BeginOneCopy, PassPrologue, NoDriver, StartRound, Pack, PassRts, Copy,
     Fault, Refuse, AssertFails, PassFin, OverrunAborts, EndLoop, EndPhase, PassMainBarrier, Goto,
     Kill
<1>2. calls'[q] = calls[q]
  BY DEF TypeOK, RankStep, Launcher, WrongUsage, BadArgs, Start, PassFirstBarrier, NextBlockSize,
     Exit, BeginShmem, BeginOneCopy, PassPrologue, NoDriver, StartRound, Pack, PassRts, Copy,
     Fault, Refuse, AssertFails, PassFin, OverrunAborts, EndLoop, EndPhase, PassMainBarrier, Enter,
     Kill
<1>3. iter'[q] = iter[q] /\ step'[q] = step[q] /\ chunk'[q] = chunk[q]
  BY DEF TypeOK, RankStep, Launcher, WrongUsage, BadArgs, Start, PassFirstBarrier, NextBlockSize,
     Exit, BeginShmem, BeginOneCopy, PassPrologue, NoDriver, StartRound, Pack, PassRts, Copy,
     Fault, Refuse, AssertFails, PassFin, OverrunAborts, EndLoop, EndPhase, PassMainBarrier
<1>4. blocksize'[q] = blocksize[q] /\ liov'[q] = liov[q]
  BY DEF TypeOK, RankStep, Launcher, WrongUsage, BadArgs, Start, PassFirstBarrier, NextBlockSize,
     Exit, BeginShmem, BeginOneCopy, PassPrologue, NoDriver, StartRound, Pack, PassRts, Copy,
     Fault, Refuse, AssertFails, PassFin, OverrunAborts, EndLoop, EndPhase, PassMainBarrier, local
<1>5. q \in refused' <=> q \in refused
  BY DEF TypeOK, RankStep, Launcher, WrongUsage, BadArgs, Start, PassFirstBarrier, NextBlockSize,
     Exit, BeginShmem, BeginOneCopy, PassPrologue, NoDriver, StartRound, Pack, PassRts, Copy,
     Fault, Refuse, AssertFails, PassFin, OverrunAborts, EndLoop, EndPhase, PassMainBarrier
<1> QED BY <1>1, <1>2, <1>3, <1>4, <1>5 DEF Pos

Dies(r) == BadArgs(r) \/ Fault(r) \/ AssertFails(r) \/ OverrunAborts(r) \/ Launcher(r)

(* A rank that dies changes nothing but its own pc.                        *)
LEMMA DyingKeeps ==
    ASSUME TypeOK, NEW r \in Rank, Dies(r)
    PROVE  /\ UNCHANGED <<calls, iter, clock, job, step, chunk, local, bufs, refused, wild>>
           /\ pc'[r] \in Stopped \ {"done"}
           /\ pc' \in [Rank -> Label]
           /\ Pos(r)' = Pos(r)
<1>1. UNCHANGED <<calls, iter, clock, job, step, chunk, local, bufs, refused, wild>>
  BY DEF Dies, BadArgs, Fault, AssertFails, OverrunAborts, Launcher, Kill
<1>2. \/ pc' = [pc EXCEPT ![r] = "crashed"] \/ pc' = [pc EXCEPT ![r] = "killed"]
      \/ pc' = [pc EXCEPT ![r] = "aborted"]
  BY DEF Dies, BadArgs, Fault, AssertFails, OverrunAborts, Launcher, Kill, Goto
<1>3. /\ pc'[r] \in Stopped \ {"done"}
      /\ pc' \in [Rank -> Label]
  BY <1>2 DEF TypeOK, Stopped, Failed, Label
<1> QED BY <1>1, <1>3 DEF Pos

(* A refused receiver stays where it is: the sender makes the call it is   *)
(* blocked in as a Gather.                                                 *)
LEMMA RefusedBlocked ==
    ASSUME IInv, NEW r \in Rank, r \in refused
    PROVE  ~BarrierReturns(r)
<1> SUFFICES ASSUME BarrierReturns(r) PROVE FALSE
  OBVIOUS
<1> DEFINE k == Pos(r)
<1>1. TypeOK /\ job \in Jobs /\ Refusal(r) /\ Shape(Sender) /\ Sender \in Rank
  BY SenderAssumption DEF IInv, Control
<1>2. Sender \notin refused
  BY <1>1 DEF TypeOK, Receiver
<1>3. /\ Driven(job, step[r]) /\ iter[r] < Iters /\ k = Loop(job, step[r], iter[r] + 1)
      /\ calls[r][k] = "barrier"
  BY <1>1 DEF Refusal, After
<1>4. k <= Pos(Sender) /\ calls[Sender][k] = calls[r][k]
  BY <1>1 DEF BarrierReturns, Joined, Pos
<1>5. /\ k \in Nat /\ Pos(Sender) \in Nat /\ step[r] \in Nat /\ iter[r] \in 0 .. Iters - 1
  <2>1. k \in Nat /\ step[r] \in Nat /\ iter[r] \in Nat /\ Iters \in Nat
    BY <1>1, RankFacts
  <2>2. Pos(Sender) \in Nat
    BY <1>1, RankFacts
  <2> QED BY <1>3, <2>1, <2>2, SMT
<1>6. Expected(job, k) = "gather"
  BY <1>1, <1>3, <1>5, ExpectedFacts
<1>7. k >= 1
  <2>1. Base(job, step[r]) >= 1 /\ Base(job, step[r]) \in Nat
        /\ Base(job, step[r]) <= Loop(job, step[r], iter[r] + 1)
    <3>1. iter[r] + 1 \in Nat
      BY <1>5, SMT
    <3> QED BY <1>1, <1>5, <3>1, LoopFacts
  <2> QED BY <1>3, <1>5, <2>1, SMT
<1>8. calls[Sender][k] = "gather"
  <2>1. k \in 1 .. Pos(Sender)
    BY <1>4, <1>5, <1>7, SMT
  <2> QED BY <1>1, <1>2, <1>6, <2>1 DEF Shape
<1> QED BY <1>3, <1>4, <1>8

-----------------------------------------------------------------------------
(* The places a rank can be at, by name.                                   *)
LEMMA Places ==
    ASSUME TypeOK, job \in Jobs, NEW r \in Rank
    PROVE  /\ Base(job, step[r]) \in Nat /\ Base(job, step[r]) >= 1
           /\ Base(job, step[r] + 1) \in Nat
           /\ Loop(job, step[r], 0) = Base(job, step[r]) + Prologue(job, step[r])
           /\ Loop(job, step[r], 0) \in Nat /\ Loop(job, step[r], 0) <= Here(r)
           /\ Here(r) \in Nat /\ After(r) \in Nat
           /\ After(r) = Here(r) + ChunksOf(job, step[r]) + 1
           /\ Driven(job, step[r]) =>
                 /\ Base(job, step[r] + 1) = Loop(job, step[r], Iters) + 2
                 /\ iter[r] < Iters => After(r) <= Loop(job, step[r], Iters)
           /\ ~Driven(job, step[r]) => Base(job, step[r] + 1) = Base(job, step[r]) + 1
           /\ Loop(job, step[r], Iters) \in Nat
           /\ ChunksOf(job, step[r]) \in Nat \ {0}
           /\ Number(step[r]) < 2 => Driven(job, step[r]) /\ Prologue(job, step[r]) = 0
           /\ Number(step[r]) >= 2 /\ Driven(job, step[r]) => Prologue(job, step[r]) = 1
           /\ Number(step[r]) # 1 => ChunksOf(job, step[r]) = 1
           /\ Number(step[r]) < 3 => Driven(job, step[r])
           /\ job.xpmem => Driven(job, step[r])
           /\ ~job.xpmem /\ Number(step[r]) >= 3 => ~Driven(job, step[r])
           /\ step[r] = 0 => Base(job, step[r]) = 1
<1>1. /\ step[r] \in Nat /\ iter[r] \in Nat /\ iter[r] + 1 \in Nat /\ Iters \in Nat /\ 0 \in Nat
      /\ ChunksOf(job, step[r]) \in Nat \ {0} /\ Number(step[r]) \in 0 .. 4
  <2>1. step[r] \in Nat /\ iter[r] \in Nat /\ Iters \in Nat
    BY RankFacts
  <2> QED BY <2>1, BenchmarkFacts, SMT
<1>2. /\ Base(job, step[r]) \in Nat /\ Base(job, step[r]) >= 1
      /\ Base(job, step[r] + 1) \in Nat
      /\ Loop(job, step[r], 0) = Base(job, step[r]) + Prologue(job, step[r])
      /\ Loop(job, step[r], 0) \in Nat /\ Loop(job, step[r], Iters) \in Nat
      /\ Driven(job, step[r]) => Base(job, step[r] + 1) = Loop(job, step[r], Iters) + 2
      /\ ~Driven(job, step[r]) => Base(job, step[r] + 1) = Base(job, step[r]) + 1
  BY <1>1, LoopFacts
<1>3. /\ Here(r) \in Nat /\ After(r) \in Nat /\ Loop(job, step[r], 0) <= Here(r)
      /\ After(r) = Here(r) + ChunksOf(job, step[r]) + 1
      /\ iter[r] < Iters => After(r) <= Loop(job, step[r], Iters)
  BY <1>1, LoopFacts DEF Here, After
<1>4. /\ Number(step[r]) < 2 => Driven(job, step[r]) /\ Prologue(job, step[r]) = 0
      /\ Number(step[r]) >= 2 /\ Driven(job, step[r]) => Prologue(job, step[r]) = 1
      /\ Number(step[r]) # 1 => ChunksOf(job, step[r]) = 1
      /\ Number(step[r]) < 3 => Driven(job, step[r])
      /\ job.xpmem => Driven(job, step[r])
      /\ ~job.xpmem /\ Number(step[r]) >= 3 => ~Driven(job, step[r])
  BY <1>1, SMT DEF Driven, Prologue, ChunksOf
<1>5. step[r] = 0 => Base(job, step[r]) = 1
  BY BaseFacts
<1> QED BY <1>1, <1>2, <1>3, <1>4, <1>5

(* What everybody has entered when the sender is before, or inside, the    *)
(* loop.                                                                   *)
LEMMA AheadFloor ==
    ASSUME TypeOK, job \in Jobs, Ahead
    PROVE  /\ Everybody(Floor(job, step[Sender], 0))
           /\ Driven(job, step[Sender]) /\ Here(Sender) <= Pos(Sender) =>
                 Everybody(Floor(job, step[Sender], iter[Sender]))
<1> DEFINE s == step[Sender]
           n == iter[Sender]
<1>1. /\ s \in Nat /\ n \in Nat /\ n <= Iters /\ Iters \in Nat \ {0} /\ Pos(Sender) \in Nat
      /\ \A q \in Rank : Pos(q) \in Nat
  <2>1. \A q \in Rank : /\ step[q] \in Nat /\ iter[q] \in Nat /\ iter[q] <= Iters
                        /\ Iters \in Nat \ {0} /\ Pos(q) \in Nat
    BY RankFacts
  <2> QED BY <2>1, SenderAssumption
<1>2. Floor(job, s, 0) \in Nat /\ Floor(job, s, n) \in Nat /\ Floor(job, s, 0) <= Floor(job, s, n)
  <2>1. n > 0 => Floor(job, s, n) = Loop(job, s, n)
    BY <1>1, SMT DEF Floor
  <2>2. Floor(job, s, 0) <= Loop(job, s, 0) /\ Loop(job, s, 0) <= Loop(job, s, n)
        /\ Loop(job, s, 0) \in Nat /\ Loop(job, s, n) \in Nat
        /\ Floor(job, s, 0) \in Nat /\ Floor(job, s, n) \in Nat
    BY <1>1, FloorFacts, LoopFacts
  <2> HIDE DEF s, n
  <2> QED BY <1>1, <2>1, <2>2, SMT
<1>3. Everybody(Floor(job, s, n)) => Everybody(Floor(job, s, 0))
  <2> SUFFICES ASSUME Everybody(Floor(job, s, n)), NEW q \in Rank
               PROVE  Pos(q) >= Floor(job, s, 0)
    BY DEF Everybody
  <2>1. Pos(q) >= Floor(job, s, n) /\ Pos(q) \in Nat
    BY <1>1 DEF Everybody
  <2> HIDE DEF s, n
  <2> QED BY <1>2, <2>1, SMT
<1>4. Everybody(Floor(job, s, 0))
  BY <1>3 DEF Ahead, Before, InRound, Behind
<1>5. ASSUME Driven(job, s), Here(Sender) <= Pos(Sender), Before(s)
      PROVE  n = 0
  <2>1. Pos(Sender) <= Loop(job, s, 0) /\ Loop(job, s, n) <= Pos(Sender)
    BY <1>5 DEF Before, Here
  <2>2. 0 < n => Loop(job, s, 1) <= Loop(job, s, n)
    <3>1. 0 \in Nat /\ 0 + 1 = 1
      BY SMT
    <3> QED BY <1>1, <3>1, LoopFacts
  <2>3. Loop(job, s, 1) = Loop(job, s, 0) + ChunksOf(job, s) + 1 /\ ChunksOf(job, s) \in Nat
        /\ Loop(job, s, 0) \in Nat /\ Loop(job, s, n) \in Nat
    <3>1. 0 \in Nat /\ 0 + 1 = 1
      BY SMT
    <3>2. Loop(job, s, 0 + 1) = Loop(job, s, 0) + ChunksOf(job, s) + 1
          /\ Loop(job, s, 0) \in Nat /\ Loop(job, s, n) \in Nat
      BY <1>1, <3>1, LoopFacts
    <3>3. ChunksOf(job, s) \in Nat
      BY <1>1, BenchmarkFacts
    <3> QED BY <3>1, <3>2, <3>3
  <2> HIDE DEF s, n
  <2> QED BY <1>1, <2>1, <2>2, <2>3, SMT
<1>6. ASSUME Driven(job, s), Here(Sender) <= Pos(Sender)
      PROVE  Everybody(Floor(job, s, n))
  <2>1. CASE Before(s)
    BY <1>4, <1>5, <1>6, <2>1
  <2>2. CASE InRound(s, n)
    BY <2>2 DEF InRound
  <2>3. CASE Behind(s, n)
    BY <1>6, <2>3 DEF Behind
  <2> QED BY <2>1, <2>2, <2>3 DEF Ahead
<1> QED BY <1>4, <1>6

(* A rank that was not refused anything before or in a step is not refused *)
(* after it; and no step but one refuses.                                  *)
LEMMA NotRefused ==
    ASSUME IInv, NEW r \in Rank, pc[r] \notin {"main_barrier"} \cup Stopped
    PROVE  r \notin refused
  BY DEF IInv, Control, Refusal

(* Where a rank is after a step of its own.                                *)
LEMMA OwnStep ==
    ASSUME IInv, NEW r \in Rank, RankStep(r) \/ Launcher(r)
    PROVE  Own(r)' /\ Refusal(r)'
<1>1. TypeOK /\ job \in Jobs /\ Own(r) /\ Refusal(r)
  BY DEF IInv, Control
<1>2. job' = job
  BY FixedJob
<1>3. /\ Pos(r) \in Nat /\ step[r] \in Nat /\ iter[r] \in Nat /\ iter[r] <= Iters
      /\ chunk[r] \in Nat \ {0} /\ Iters \in Nat \ {0} /\ blocksize[r] \in Nat
  BY <1>1, RankFacts DEF TypeOK
<1>4. /\ Base(job, step[r]) \in Nat /\ Base(job, step[r] + 1) \in Nat
      /\ Loop(job, step[r], 0) = Base(job, step[r]) + Prologue(job, step[r])
      /\ Here(r) \in Nat /\ After(r) \in Nat
      /\ After(r) = Here(r) + ChunksOf(job, step[r]) + 1
      /\ Driven(job, step[r]) => Base(job, step[r] + 1) = Loop(job, step[r], Iters) + 2
      /\ ~Driven(job, step[r]) => Base(job, step[r] + 1) = Base(job, step[r]) + 1
      /\ ChunksOf(job, step[r]) \in Nat \ {0}
      /\ Number(step[r]) < 2 => Driven(job, step[r]) /\ Prologue(job, step[r]) = 0
      /\ Number(step[r]) >= 2 /\ Driven(job, step[r]) => Prologue(job, step[r]) = 1
      /\ Number(step[r]) # 1 => ChunksOf(job, step[r]) = 1
      /\ Number(step[r]) < 3 => Driven(job, step[r])
      /\ job.xpmem => Driven(job, step[r])
      /\ ~job.xpmem /\ Number(step[r]) >= 3 => ~Driven(job, step[r])
      /\ step[r] = 0 => Base(job, step[r]) = 1
  BY <1>1, Places
<1>5. /\ SharedMemory(r) <=> Number(step[r]) < 2
      /\ Xpmem(r) <=> Number(step[r]) >= 3
      /\ Phase(r) = PhaseOrder[5] <=> Number(step[r]) = 4
      /\ Chunks(r) = ChunksOf(job, step[r])
      /\ Number(step[r]) \in 0 .. 4
      /\ Number(step[r]) < 4 => Number(step[r] + 1) = Number(step[r]) + 1
      /\ Number(step[r]) = 4 => Number(step[r] + 1) = 0
  BY <1>1, PhaseFacts
<1>6. /\ Here(r) = Loop(job, step[r], iter[r])
      /\ Here(r)' = Loop(job, step'[r], iter'[r])
      /\ After(r) = Loop(job, step[r], iter[r] + 1)
      /\ After(r)' = Loop(job, step'[r], iter'[r] + 1)
  BY <1>2 DEF Here, After
<1>7. ASSUME pc[r] \notin {"main_barrier"} \cup Stopped, refused' = refused
      PROVE  r \notin refused /\ r \notin refused' /\ Refusal(r)'
  <2>1. r \notin refused
    BY <1>7, NotRefused
  <2> QED BY <1>7, <2>1 DEF Refusal
<1>8. ASSUME NEW op \in Collective, Enter(r, op)
      PROVE  Pos(r)' = Pos(r) + 1 /\ \A q \in Rank \ {r} : Pos(q)' = Pos(q)
  BY <1>1, <1>8, EnterPos DEF TypeOK
<1>9. ASSUME calls' = calls PROVE \A q \in Rank : Pos(q)' = Pos(q)
  BY <1>9 DEF Pos
<1>10. ValidArgs' <=> ValidArgs
  BY <1>2 DEF ValidArgs
<1>11. "bcast" \in Collective /\ "gather" \in Collective /\ "barrier" \in Collective
  BY DEF Collective
<1>12. CASE Dies(r)
  <2>1. /\ UNCHANGED <<calls, iter, job, step, refused>>
        /\ pc'[r] \in Stopped \ {"done"} /\ Pos(r)' = Pos(r)
    BY <1>1, <1>12, DyingKeeps
  <2>2. Own(r)'
    BY <2>1 DEF Own, Stopped, Failed, Outside
  <2>3. Refusal(r)'
    BY <1>1, <1>6, <2>1 DEF Refusal
  <2> QED BY <2>2, <2>3
<1>13. CASE WrongUsage(r) \/ Exit(r)
  <2>1. /\ calls' = calls /\ step' = step /\ refused' = refused /\ pc'[r] = "done"
        /\ pc[r] = "start" \/ pc[r] = "head"
    BY <1>1, <1>13 DEF WrongUsage, Exit, Goto, TypeOK
  <2>2. Pos(r)' = Pos(r) /\ pc[r] \notin {"main_barrier"} \cup Stopped
    BY <1>9, <2>1 DEF Stopped, Failed
  <2>3. Pos(r) <= Base(job, step[r])
    BY <1>1, <1>3, <1>4, <2>1, SMT DEF Own
  <2>4. Own(r)'
    BY <1>2, <2>1, <2>2, <2>3 DEF Own, Stopped, Outside
  <2> QED BY <1>7, <2>1, <2>2, <2>4
<1>14. CASE Start(r)
  <2>1. /\ Enter(r, "barrier") /\ step' = step /\ refused' = refused
        /\ pc[r] = "start" /\ pc'[r] = "first_barrier" /\ ValidArgs
    BY <1>1, <1>14 DEF Start, Goto, TypeOK
  <2>2. Pos(r)' = Pos(r) + 1 /\ pc[r] \notin {"main_barrier"} \cup Stopped
    BY <1>8, <1>11, <2>1 DEF Stopped, Failed
  <2>3. Pos(r) = 0 /\ step[r] = 0
    BY <1>1, <2>1 DEF Own
  <2>4. Refusal(r)' /\ r \notin refused'
    BY <1>7, <2>1, <2>2
  <2>5. Pos(r)' = 1 /\ step'[r] = 0
    BY <2>1, <2>2, <2>3, SMT
  <2>6. Own(r)'
    BY <1>10, <2>1, <2>4, <2>5 DEF Own, Stopped, Failed, Outside
  <2> QED BY <2>4, <2>6
<1>15. CASE PassFirstBarrier(r)
  <2>1. /\ calls' = calls /\ step' = step /\ refused' = refused
        /\ pc[r] = "first_barrier" /\ pc'[r] = "head" /\ blocksize'[r] = job.min_bs
    BY <1>1, <1>15 DEF PassFirstBarrier, Goto, TypeOK
  <2>2. Pos(r)' = Pos(r) /\ pc[r] \notin {"main_barrier"} \cup Stopped
    BY <1>9, <2>1 DEF Stopped, Failed
  <2>3. Pos(r) = 1 /\ step[r] = 0 /\ ValidArgs
    BY <1>1, <2>1 DEF Own, Stopped, Failed
  <2>4. blocksize'[r] > 0 /\ Number(0) = 0
    BY <2>1, <2>3, SMT DEF ValidArgs, Number
  <2>5. Own(r)'
    BY <1>2, <1>4, <1>10, <2>1, <2>2, <2>3, <2>4 DEF Own, Stopped, Failed, Outside
  <2> QED BY <1>7, <2>1, <2>2, <2>5
<1>16. CASE NextBlockSize(r)
  <2>1. /\ calls' = calls /\ step' = step /\ refused' = refused /\ blocksize' = blocksize
        /\ pc[r] = "head" /\ pc'[r] = "begin" /\ liov'[r] = "own"
    BY <1>1, <1>16 DEF NextBlockSize, Goto, TypeOK
  <2>2. Pos(r)' = Pos(r) /\ pc[r] \notin {"main_barrier"} \cup Stopped
    BY <1>9, <2>1 DEF Stopped, Failed
  <2>3. Pos(r) = Base(job, step[r]) /\ ValidArgs /\ blocksize[r] > 0
    BY <1>1, <2>1 DEF Own, Stopped, Failed
  <2>4. Own(r)'
    BY <1>2, <1>10, <2>1, <2>2, <2>3 DEF Own, Stopped, Failed, Outside
  <2> QED BY <1>7, <2>1, <2>2, <2>4
<1>17. CASE BeginShmem(r)
  <2>1. /\ calls' = calls /\ step' = step /\ refused' = refused /\ blocksize' = blocksize
        /\ liov' = liov /\ iter'[r] = 0
        /\ pc[r] = "begin" /\ pc'[r] = "loop" /\ SharedMemory(r)
    BY <1>1, <1>17 DEF BeginShmem, Goto, TypeOK, local
  <2>2. Pos(r)' = Pos(r) /\ pc[r] \notin {"main_barrier"} \cup Stopped
    BY <1>9, <2>1 DEF Stopped, Failed
  <2>3. /\ Pos(r) = Base(job, step[r]) /\ ValidArgs /\ blocksize[r] > 0
        /\ Number(step[r]) < 3 => liov[r] = "own"
    BY <1>1, <2>1 DEF Own, Stopped, Failed, Outside
  <2>4. Pos(r)' = Here(r)' /\ Driven(job, step[r])
    BY <1>4, <1>5, <1>6, <2>1, <2>2, <2>3, SMT
  <2>5. Own(r)'
    BY <1>2, <1>10, <2>1, <2>3, <2>4 DEF Own, Stopped, Failed, Outside
  <2> QED BY <1>7, <2>1, <2>2, <2>5
<1>18. CASE BeginOneCopy(r)
  <2>1. /\ Enter(r, "bcast") /\ step' = step /\ refused' = refused /\ blocksize' = blocksize
        /\ liov' = liov
        /\ pc[r] = "begin" /\ pc'[r] = "prologue" /\ ~SharedMemory(r)
        /\ Xpmem(r) => job.xpmem
    BY <1>1, <1>18 DEF BeginOneCopy, Goto, TypeOK, local
  <2>2. Pos(r)' = Pos(r) + 1 /\ pc[r] \notin {"main_barrier"} \cup Stopped
    BY <1>8, <1>11, <2>1 DEF Stopped, Failed
  <2>3. /\ Pos(r) = Base(job, step[r]) /\ ValidArgs /\ blocksize[r] > 0
        /\ Number(step[r]) < 3 => liov[r] = "own"
    BY <1>1, <2>1 DEF Own, Stopped, Failed, Outside
  <2>4. Number(step[r]) >= 2 /\ Driven(job, step[r]) /\ Pos(r)' = Base(job, step[r]) + 1
    BY <1>4, <1>5, <2>1, <2>2, <2>3, SMT
  <2>5. Own(r)'
    BY <1>2, <1>10, <2>1, <2>3, <2>4 DEF Own, Stopped, Failed, Outside
  <2> QED BY <1>7, <2>1, <2>2, <2>5
<1>19. CASE PassPrologue(r)
  <2>1. /\ calls' = calls /\ step' = step /\ refused' = refused /\ blocksize' = blocksize
        /\ liov' = liov /\ iter'[r] = 0
        /\ pc[r] = "prologue" /\ pc'[r] = "loop"
    BY <1>1, <1>19 DEF PassPrologue, Goto, TypeOK, local
  <2>2. Pos(r)' = Pos(r) /\ pc[r] \notin {"main_barrier"} \cup Stopped
    BY <1>9, <2>1 DEF Stopped, Failed
  <2>3. /\ Pos(r) = Base(job, step[r]) + 1 /\ ValidArgs /\ blocksize[r] > 0
        /\ Driven(job, step[r]) /\ Number(step[r]) >= 2
        /\ Number(step[r]) < 3 => liov[r] = "own"
    BY <1>1, <2>1 DEF Own, Stopped, Failed, Outside
  <2>4. Pos(r)' = Here(r)'
    BY <1>4, <1>6, <2>1, <2>2, <2>3, SMT
  <2>5. Own(r)'
    BY <1>2, <1>10, <2>1, <2>3, <2>4 DEF Own, Stopped, Failed, Outside
  <2> QED BY <1>7, <2>1, <2>2, <2>5
<1>20. CASE NoDriver(r)
  <2>1. /\ Enter(r, "barrier") /\ step' = step /\ refused' = refused /\ blocksize' = blocksize
        /\ liov' = liov
        /\ pc[r] = "begin" /\ pc'[r] = "main_barrier" /\ Xpmem(r) /\ ~job.xpmem
    BY <1>1, <1>20 DEF NoDriver, Goto, TypeOK, local
  <2>2. Pos(r)' = Pos(r) + 1 /\ pc[r] \notin {"main_barrier"} \cup Stopped
    BY <1>8, <1>11, <2>1 DEF Stopped, Failed
  <2>3. /\ Pos(r) = Base(job, step[r]) /\ ValidArgs /\ blocksize[r] > 0
        /\ Number(step[r]) < 3 => liov[r] = "own"
    BY <1>1, <2>1 DEF Own, Stopped, Failed, Outside
  <2>4. ~Driven(job, step[r]) /\ Pos(r)' = Base(job, step[r] + 1)
    BY <1>4, <1>5, <2>1, <2>2, <2>3, SMT
  <2>5. Own(r)'
    BY <1>2, <1>10, <2>1, <2>3, <2>4 DEF Own, Stopped, Failed, Outside
  <2> QED BY <1>7, <2>1, <2>2, <2>5
<1>21. CASE StartRound(r)
  <2>1. /\ step' = step /\ refused' = refused /\ blocksize' = blocksize /\ iter' = iter
        /\ liov' = liov /\ chunk'[r] = 1 /\ pc[r] = "loop" /\ iter[r] < Iters
        /\ \/ r = Sender /\ SharedMemory(r) /\ pc'[r] = "pack" /\ calls' = calls
           \/ pc'[r] = "rts" /\ Enter(r, "bcast")
    BY <1>1, <1>21 DEF StartRound, BeginRound, MoreRounds, Goto, TypeOK, local
  <2>2. pc[r] \notin {"main_barrier"} \cup Stopped
    BY <2>1 DEF Stopped, Failed
  <2>3. /\ Pos(r) = Here(r) /\ ValidArgs /\ blocksize[r] > 0 /\ Driven(job, step[r])
        /\ Number(step[r]) < 3 => liov[r] = "own"
    BY <1>1, <2>1 DEF Own, Stopped, Failed, Outside
  <2>4. Here(r)' = Here(r) /\ chunk'[r] <= ChunksOf(job, step[r])
    BY <1>4, <1>6, <2>1, SMT
  <2>5. CASE r = Sender /\ SharedMemory(r) /\ pc'[r] = "pack" /\ calls' = calls
    <3>1. Pos(r)' + 1 = Here(r)' + chunk'[r] /\ SharedMemory(r)'
      BY <1>9, <2>1, <2>3, <2>4, <2>5 DEF SharedMemory, Phase
    <3> QED BY <1>2, <1>7, <1>10, <2>1, <2>2, <2>3, <2>4, <2>5, <3>1
           DEF Own, Stopped, Failed, Outside
  <2>6. CASE pc'[r] = "rts" /\ Enter(r, "bcast")
    <3>1. Pos(r)' = Here(r)' + chunk'[r]
      BY <1>8, <1>11, <2>1, <2>3, <2>4, <2>6
    <3> QED BY <1>2, <1>7, <1>10, <2>1, <2>2, <2>3, <2>4, <2>6, <3>1
           DEF Own, Stopped, Failed, Outside
  <2> QED BY <2>1, <2>5, <2>6
<1>22. CASE Pack(r)
  <2>1. /\ step' = step /\ refused' = refused /\ blocksize' = blocksize /\ iter' = iter
        /\ liov' = liov /\ chunk' = chunk /\ pc[r] = "pack" /\ pc'[r] = "rts"
        /\ Enter(r, "bcast")
    BY <1>1, <1>22 DEF Pack, Goto, TypeOK, local
  <2>2. Pos(r)' = Pos(r) + 1 /\ pc[r] \notin {"main_barrier"} \cup Stopped
    BY <1>8, <1>11, <2>1 DEF Stopped, Failed
  <2>3. /\ Pos(r) + 1 = Here(r) + chunk[r] /\ ValidArgs /\ blocksize[r] > 0
        /\ Driven(job, step[r]) /\ iter[r] < Iters /\ chunk[r] <= ChunksOf(job, step[r])
        /\ Number(step[r]) < 3 => liov[r] = "own"
    BY <1>1, <2>1 DEF Own, Stopped, Failed, Outside
  <2>4. Pos(r)' = Here(r)' + chunk'[r]
    BY <1>6, <2>1, <2>2, <2>3
  <2> QED BY <1>2, <1>7, <1>10, <2>1, <2>2, <2>3, <2>4 DEF Own, Stopped, Failed, Outside
<1>23. CASE PassRts(r)
  <2>1. /\ step' = step /\ refused' = refused /\ blocksize' = blocksize /\ iter' = iter
        /\ pc[r] = "rts" /\ BcastReturns(r)
        /\ Number(step[r]) < 3 => liov' = liov
        /\ \/ r # Sender /\ pc'[r] = "copy" /\ calls' = calls /\ chunk' = chunk
           \/ /\ r = Sender /\ chunk[r] < ChunksOf(job, step[r])
              /\ pc'[r] = "pack" /\ calls' = calls /\ chunk'[r] = chunk[r] + 1
           \/ /\ r = Sender /\ ~(chunk[r] < ChunksOf(job, step[r]))
              /\ pc'[r] = "fin" /\ Enter(r, "gather") /\ chunk' = chunk
    <3>1. /\ step' = step /\ refused' = refused /\ blocksize' = blocksize /\ iter' = iter
          /\ pc[r] = "rts" /\ BcastReturns(r)
      BY <1>1, <1>23 DEF PassRts, RtsReturns
    <3>2. Number(step[r]) < 3 => liov' = liov
      BY <1>5, <1>23 DEF PassRts
    <3>3. \/ r # Sender /\ pc'[r] = "copy" /\ calls' = calls /\ chunk' = chunk
          \/ /\ r = Sender /\ chunk[r] < ChunksOf(job, step[r])
             /\ pc'[r] = "pack" /\ calls' = calls /\ chunk'[r] = chunk[r] + 1
          \/ /\ r = Sender /\ ~(chunk[r] < ChunksOf(job, step[r]))
             /\ pc'[r] = "fin" /\ Enter(r, "gather") /\ chunk' = chunk
      BY <1>1, <1>5, <1>23 DEF PassRts, Goto, TypeOK
    <3> QED BY <3>1, <3>2, <3>3
  <2>2. pc[r] \notin {"main_barrier"} \cup Stopped
    BY <2>1 DEF Stopped, Failed
  <2>3. /\ Pos(r) = Here(r) + chunk[r] /\ ValidArgs /\ blocksize[r] > 0
        /\ Driven(job, step[r]) /\ iter[r] < Iters /\ chunk[r] <= ChunksOf(job, step[r])
        /\ Number(step[r]) < 3 => liov[r] = "own"
    BY <1>1, <2>1 DEF Own, Stopped, Failed, Outside
  <2>4. Here(r)' = Here(r) /\ After(r)' = After(r)
    BY <1>6, <2>1
  <2>5. CASE r # Sender /\ pc'[r] = "copy" /\ calls' = calls /\ chunk' = chunk
    <3>1. Pos(r)' = Here(r)' + chunk'[r] /\ Pos(Sender)' >= Pos(r)'
      BY <1>9, <2>1, <2>3, <2>4, <2>5, ReturnsPos, SenderAssumption
    <3> QED BY <1>2, <1>7, <1>10, <2>1, <2>2, <2>3, <2>5, <3>1
           DEF Own, Stopped, Failed, Outside
  <2>6. CASE /\ r = Sender /\ chunk[r] < ChunksOf(job, step[r])
             /\ pc'[r] = "pack" /\ calls' = calls /\ chunk'[r] = chunk[r] + 1
    <3>1. SharedMemory(r)
      BY <1>3, <1>4, <1>5, <2>6, SMT
    <3>2. SharedMemory(r)'
      BY <2>1, <3>1 DEF SharedMemory, Phase
    <3>3. Pos(r)' + 1 = Here(r)' + chunk'[r] /\ chunk'[r] <= ChunksOf(job, step[r])
      <4>1. Pos(r)' = Pos(r)
        BY <1>9, <2>6
      <4> QED BY <1>3, <1>4, <2>3, <2>4, <2>6, <4>1, SMT
    <3> QED BY <1>2, <1>7, <1>10, <2>1, <2>2, <2>3, <2>6, <3>2, <3>3
           DEF Own, Stopped, Failed, Outside
  <2>7. CASE /\ r = Sender /\ ~(chunk[r] < ChunksOf(job, step[r]))
             /\ pc'[r] = "fin" /\ Enter(r, "gather") /\ chunk' = chunk
    <3>1. Pos(r)' = After(r)'
      <4>1. Pos(r)' = Pos(r) + 1
        BY <1>8, <1>11, <2>7
      <4> QED BY <1>3, <1>4, <2>3, <2>4, <2>7, <4>1, SMT
    <3> QED BY <1>2, <1>7, <1>10, <2>1, <2>2, <2>3, <2>7, <3>1
           DEF Own, Stopped, Failed, Outside
  <2> QED BY <2>1, <2>5, <2>6, <2>7
<1>24. CASE Copy(r)
  <2>1. /\ step' = step /\ refused' = refused /\ blocksize' = blocksize /\ iter' = iter
        /\ liov' = liov /\ pc[r] = "copy"
        /\ \/ /\ chunk[r] < ChunksOf(job, step[r])
              /\ pc'[r] = "rts" /\ Enter(r, "bcast") /\ chunk'[r] = chunk[r] + 1
           \/ /\ ~(chunk[r] < ChunksOf(job, step[r]))
              /\ pc'[r] = "fin" /\ Enter(r, "gather") /\ chunk' = chunk
    BY <1>1, <1>5, <1>24 DEF Copy, Goto, TypeOK, local
  <2>2. Pos(r)' = Pos(r) + 1 /\ pc[r] \notin {"main_barrier"} \cup Stopped
    BY <1>8, <1>11, <2>1 DEF Stopped, Failed
  <2>3. /\ Pos(r) = Here(r) + chunk[r] /\ ValidArgs /\ blocksize[r] > 0
        /\ Driven(job, step[r]) /\ iter[r] < Iters /\ chunk[r] <= ChunksOf(job, step[r])
        /\ Number(step[r]) < 3 => liov[r] = "own"
    BY <1>1, <2>1 DEF Own, Stopped, Failed, Outside
  <2>4. Here(r)' = Here(r) /\ After(r)' = After(r)
    BY <1>6, <2>1
  <2>5. CASE /\ chunk[r] < ChunksOf(job, step[r])
             /\ pc'[r] = "rts" /\ Enter(r, "bcast") /\ chunk'[r] = chunk[r] + 1
    <3>1. Pos(r)' = Here(r)' + chunk'[r] /\ chunk'[r] <= ChunksOf(job, step[r])
      BY <1>3, <1>4, <2>2, <2>3, <2>4, <2>5, SMT
    <3> QED BY <1>2, <1>7, <1>10, <2>1, <2>2, <2>3, <2>5, <3>1
           DEF Own, Stopped, Failed, Outside
  <2>6. CASE /\ ~(chunk[r] < ChunksOf(job, step[r]))
             /\ pc'[r] = "fin" /\ Enter(r, "gather") /\ chunk' = chunk
    <3>1. Pos(r)' = After(r)'
      BY <1>3, <1>4, <2>2, <2>3, <2>4, <2>6, SMT
    <3> QED BY <1>2, <1>7, <1>10, <2>1, <2>2, <2>3, <2>6, <3>1
           DEF Own, Stopped, Failed, Outside
  <2> QED BY <2>1, <2>5, <2>6
<1>25. CASE Refuse(r)
  <2>1. /\ step' = step /\ refused' = refused \cup {r} /\ blocksize' = blocksize /\ iter' = iter
        /\ liov' = liov /\ pc[r] = "copy" /\ Xpmem(r)
        /\ pc'[r] = "main_barrier" /\ Enter(r, "barrier")
    BY <1>1, <1>25 DEF Refuse, Attaches, Goto, TypeOK, local
  <2>2. Pos(r)' = Pos(r) + 1
    BY <1>8, <1>11, <2>1
  <2>3. /\ Pos(r) = Here(r) + chunk[r] /\ ValidArgs /\ blocksize[r] > 0 /\ r # Sender
        /\ Driven(job, step[r]) /\ iter[r] < Iters /\ chunk[r] <= ChunksOf(job, step[r])
        /\ Number(step[r]) < 3 => liov[r] = "own"
    BY <1>1, <2>1 DEF Own, Stopped, Failed, Outside
  <2>4. Pos(r)' = After(r)' /\ r \in refused'
    <3>1. chunk[r] = 1 /\ ChunksOf(job, step[r]) = 1
      BY <1>3, <1>4, <1>5, <2>1, <2>3, SMT
    <3>2. After(r)' = After(r)
      BY <1>6, <2>1
    <3> QED BY <1>3, <1>4, <2>1, <2>2, <2>3, <3>1, <3>2, SMT
  <2>5. calls'[r][Pos(r)'] = "barrier"
    <3>1. calls[r] \in Seq(Collective) /\ calls'[r] = Append(calls[r], "barrier")
      BY <1>1, <2>1 DEF Enter, TypeOK
    <3>2. Len(Append(calls[r], "barrier")) = Len(calls[r]) + 1
          /\ Append(calls[r], "barrier")[Len(calls[r]) + 1] = "barrier"
      BY <3>1, <1>11, SMT
    <3> QED BY <3>1, <3>2 DEF Pos
  <2>6. Own(r)'
    BY <1>2, <1>10, <2>1, <2>3, <2>4 DEF Own, Stopped, Failed, Outside
  <2>7. Refusal(r)'
    BY <1>2, <2>1, <2>3, <2>4, <2>5 DEF Refusal
  <2> QED BY <2>6, <2>7
<1>26. CASE PassFin(r)
  <2>1. /\ step' = step /\ refused' = refused /\ blocksize' = blocksize /\ calls' = calls
        /\ liov' = liov /\ pc[r] = "fin" /\ pc'[r] = "loop" /\ iter'[r] = iter[r] + 1
    BY <1>1, <1>26 DEF PassFin, Goto, TypeOK, local
  <2>2. Pos(r)' = Pos(r) /\ pc[r] \notin {"main_barrier"} \cup Stopped
    BY <1>9, <2>1 DEF Stopped, Failed
  <2>3. /\ Pos(r) = After(r) /\ ValidArgs /\ blocksize[r] > 0 /\ Driven(job, step[r])
        /\ Number(step[r]) < 3 => liov[r] = "own"
    BY <1>1, <2>1 DEF Own, Stopped, Failed, Outside
  <2>4. Pos(r)' = Here(r)'
    BY <1>6, <2>1, <2>2, <2>3
  <2> QED BY <1>2, <1>7, <1>10, <2>1, <2>2, <2>3, <2>4 DEF Own, Stopped, Failed, Outside
<1>27. CASE EndLoop(r)
  <2>1. /\ step' = step /\ refused' = refused /\ blocksize' = blocksize /\ iter' = iter
        /\ liov' = liov /\ pc[r] = "loop" /\ pc'[r] = "bench_barrier" /\ ~(iter[r] < Iters)
        /\ Enter(r, "barrier")
    BY <1>1, <1>27 DEF EndLoop, LeaveLoop, MoreRounds, Goto, TypeOK, local
  <2>2. Pos(r)' = Pos(r) + 1 /\ pc[r] \notin {"main_barrier"} \cup Stopped
    BY <1>8, <1>11, <2>1 DEF Stopped, Failed
  <2>3. /\ Pos(r) = Here(r) /\ ValidArgs /\ blocksize[r] > 0 /\ Driven(job, step[r])
        /\ Number(step[r]) < 3 => liov[r] = "own"
    BY <1>1, <2>1 DEF Own, Stopped, Failed, Outside
  <2>4. Pos(r)' = Here(r)' + 1 /\ iter[r] = Iters
    BY <1>3, <1>6, <2>1, <2>2, <2>3, SMT
  <2> QED BY <1>2, <1>7, <1>10, <2>1, <2>2, <2>3, <2>4 DEF Own, Stopped, Failed, Outside
<1>28. CASE EndPhase(r)
  <2>1. /\ step' = step /\ refused' = refused /\ blocksize' = blocksize /\ iter' = iter
        /\ liov' = liov /\ pc[r] = "bench_barrier" /\ pc'[r] = "main_barrier"
        /\ Enter(r, "barrier")
    BY <1>1, <1>28 DEF EndPhase, Goto, TypeOK
  <2>2. Pos(r)' = Pos(r) + 1 /\ pc[r] \notin {"main_barrier"} \cup Stopped
    BY <1>8, <1>11, <2>1 DEF Stopped, Failed
  <2>3. /\ Pos(r) = Here(r) + 1 /\ ValidArgs /\ blocksize[r] > 0 /\ Driven(job, step[r])
        /\ iter[r] = Iters
        /\ Number(step[r]) < 3 => liov[r] = "own"
    BY <1>1, <2>1 DEF Own, Stopped, Failed, Outside
  <2>4. Pos(r)' = Base(job, step[r] + 1)
    BY <1>3, <1>4, <1>6, <2>2, <2>3, SMT
  <2> QED BY <1>2, <1>7, <1>10, <2>1, <2>2, <2>3, <2>4 DEF Own, Stopped, Failed, Outside
<1>29. CASE PassMainBarrier(r)
  <2>1. /\ step'[r] = step[r] + 1 /\ refused' = refused /\ calls' = calls
        /\ pc[r] = "main_barrier" /\ BarrierReturns(r)
        /\ IF Number(step[r]) = 4
           THEN pc'[r] = "head" /\ blocksize'[r] = 2 * blocksize[r]
           ELSE pc'[r] = "begin" /\ blocksize' = blocksize /\ liov' = liov
    BY <1>1, <1>5, <1>29 DEF PassMainBarrier, Goto, TypeOK
  <2>2. Pos(r)' = Pos(r) /\ r \notin refused
    BY <1>9, <2>1, RefusedBlocked
  <2>3. /\ Pos(r) = Base(job, step[r] + 1) /\ ValidArgs /\ blocksize[r] > 0
        /\ Number(step[r]) < 3 => liov[r] = "own"
    BY <1>1, <2>1, <2>2 DEF Own, Stopped, Failed, Outside
  <2>4. Refusal(r)'
    BY <2>1, <2>2 DEF Refusal
  <2>5. CASE Number(step[r]) = 4
    <3>1. blocksize'[r] > 0 /\ Number(step[r] + 1) = 0
      BY <1>3, <1>5, <2>1, <2>3, <2>5, SMT
    <3> QED BY <1>2, <1>10, <2>1, <2>2, <2>3, <2>4, <2>5, <3>1
           DEF Own, Stopped, Failed, Outside
  <2>6. CASE Number(step[r]) # 4
    <3>1. Number(step[r] + 1) < 3 => Number(step[r]) < 3
      BY <1>5, <2>6, SMT
    <3> QED BY <1>2, <1>10, <2>1, <2>2, <2>3, <2>4, <2>6, <3>1
           DEF Own, Stopped, Failed, Outside
  <2> QED BY <2>5, <2>6
<1> QED
  BY <1>12, <1>13, <1>14, <1>15, <1>16, <1>17, <1>18, <1>19, <1>20, <1>21, <1>22, <1>23, <1>24,
     <1>25, <1>26, <1>27, <1>28, <1>29 DEF RankStep, Dies

-----------------------------------------------------------------------------
(* The counters stay within their bounds.                                  *)
LEMMA TypeCounters ==
    ASSUME IInv, NEW r \in Rank, RankStep(r) \/ Launcher(r)
    PROVE  /\ iter' \in [Rank -> 0 .. Iters] /\ step' \in [Rank -> Nat]
           /\ chunk' \in [Rank -> Piece]' /\ blocksize' \in [Rank -> Nat]
<1>1. TypeOK /\ job \in Jobs /\ Own(r)
  BY DEF IInv, Control
<1>2. job' = job
  BY FixedJob
<1>3. Piece' = Piece /\ 1 \in Piece /\ Piece = 1 .. Pipelined(job)
  <2>1. NChunks' = NChunks
    BY <1>2 DEF NChunks
  <2>2. NChunks = Pipelined(job) /\ Pipelined(job) \in Nat \ {0}
    BY <1>1, RankFacts, BenchmarkFacts
  <2>3. Piece = 1 .. Pipelined(job) /\ Piece' = Piece
    BY <2>1, <2>2 DEF Piece
  <2> QED BY <2>2, <2>3, SMT
<1>4. iter[r] \in 0 .. Iters /\ step[r] \in Nat /\ chunk[r] \in Nat \ {0}
      /\ blocksize[r] \in Nat /\ Iters \in Nat \ {0}
  BY <1>1, RankFacts DEF TypeOK
<1>5. /\ Chunks(r) = ChunksOf(job, step[r]) /\ ChunksOf(job, step[r]) \in Nat
      /\ ChunksOf(job, step[r]) <= Pipelined(job) /\ Pipelined(job) \in Nat
  BY <1>1, <1>4, PhaseFacts, BenchmarkFacts
<1>6. iter' \in [Rank -> 0 .. Iters]
  <2>1. iter' = iter \/ iter' = [iter EXCEPT ![r] = 0]
        \/ (pc[r] = "fin" /\ iter' = [iter EXCEPT ![r] = iter[r] + 1])
    BY DEF RankStep, Launcher, WrongUsage, BadArgs, Start, PassFirstBarrier, NextBlockSize,
       Exit, BeginShmem, BeginOneCopy, PassPrologue, NoDriver, StartRound, Pack, PassRts, Copy,
       Fault, Refuse, AssertFails, PassFin, OverrunAborts, EndLoop, EndPhase, PassMainBarrier
  <2>2. pc[r] = "fin" => iter[r] + 1 \in 0 .. Iters
    <3>1. pc[r] = "fin" => iter[r] < Iters
      BY <1>1 DEF Own
    <3> QED BY <1>4, <3>1, SMT
  <2>3. 0 \in 0 .. Iters
    BY <1>4, SMT
  <2> QED BY <1>1, <2>1, <2>2, <2>3 DEF TypeOK
<1>7. step' \in [Rank -> Nat]
  <2>1. step' = step \/ step' = [step EXCEPT ![r] = step[r] + 1]
    BY DEF RankStep, Launcher, WrongUsage, BadArgs, Start, PassFirstBarrier, NextBlockSize,
       Exit, BeginShmem, BeginOneCopy, PassPrologue, NoDriver, StartRound, Pack, PassRts, Copy,
       Fault, Refuse, AssertFails, PassFin, OverrunAborts, EndLoop, EndPhase, PassMainBarrier
  <2>2. step[r] + 1 \in Nat
    BY <1>4, SMT
  <2> QED BY <1>1, <2>1, <2>2 DEF TypeOK
<1>8. chunk' \in [Rank -> Piece]
  <2>1. chunk' = chunk \/ chunk' = [chunk EXCEPT ![r] = 1]
        \/ (chunk[r] < Chunks(r) /\ chunk' = [chunk EXCEPT ![r] = chunk[r] + 1])
    BY DEF RankStep, Launcher, WrongUsage, BadArgs, Start, PassFirstBarrier, NextBlockSize,
       Exit, BeginShmem, BeginOneCopy, PassPrologue, NoDriver, StartRound, Pack, PassRts, Copy,
       Fault, Refuse, AssertFails, PassFin, OverrunAborts, EndLoop, EndPhase, PassMainBarrier
  <2>2. chunk[r] < Chunks(r) => chunk[r] + 1 \in Piece
    BY <1>3, <1>4, <1>5, SMT
  <2> QED BY <1>1, <1>3, <2>1, <2>2 DEF TypeOK
<1>9. blocksize' \in [Rank -> Nat]
  <2>1. \/ blocksize' = blocksize \/ blocksize' = [blocksize EXCEPT ![r] = job.min_bs]
        \/ blocksize' = [blocksize EXCEPT ![r] = 2 * blocksize[r]]
    BY DEF RankStep, Launcher, WrongUsage, BadArgs, Start, PassFirstBarrier, NextBlockSize,
       Exit, BeginShmem, BeginOneCopy, PassPrologue, NoDriver, StartRound, Pack, PassRts, Copy,
       Fault, Refuse, AssertFails, PassFin, OverrunAborts, EndLoop, EndPhase, PassMainBarrier,
       local
  <2>2. 2 * blocksize[r] \in Nat /\ job.min_bs \in Nat
    BY <1>1, <1>4, SMT DEF Jobs
  <2> QED BY <1>1, <2>1, <2>2 DEF TypeOK
<1> QED BY <1>3, <1>6, <1>7, <1>8, <1>9

(* A piece of a buffer holds the data of a round, or none.                 *)
LEMMA TypeBuffers ==
    ASSUME IInv, NEW r \in Rank, RankStep(r) \/ Launcher(r)
    PROVE  /\ shm' \in [Piece -> Nat \X (0 .. Iters)]'
           /\ lbuf' \in [Receiver -> [Piece -> Nat \X (0 .. Iters)]]'
<1>1. TypeOK /\ job \in Jobs /\ Own(r)
  BY DEF IInv, Control
<1>2. Piece' = Piece
  BY FixedJob DEF Piece, NChunks
<1> DEFINE D == Nat \X (0 .. Iters)
<1>3. Junk \in D
  <2>1. 0 \in 0 .. Iters /\ 0 \in Nat
    BY <1>1, RankFacts, SMT
  <2> QED BY <2>1 DEF Junk
<1>4. ASSUME NEW q \in Rank, iter[q] < Iters PROVE Stamp(q) \in D
  <2>1. step[q] \in Nat /\ iter[q] \in Nat /\ Iters \in Nat
    BY <1>1, RankFacts
  <2>2. step[q] + 1 \in Nat /\ iter[q] + 1 \in 0 .. Iters
    BY <1>4, <2>1, SMT
  <2> QED BY <2>2 DEF Stamp
<1>5. shm \in [Piece -> D] /\ lbuf \in [Receiver -> [Piece -> D]]
  BY <1>1 DEF TypeOK
<1> HIDE DEF D
<1>6. shm' \in [Piece -> D]
  <2>1. CASE Pack(r)
    <3>1. Stamp(r) \in D
      <4>1. iter[r] < Iters
        BY <1>1, <2>1 DEF Own, Pack
      <4> QED BY <1>4, <4>1
    <3>2. \/ shm' = shm
          \/ shm' = [p \in Piece |-> IF p \in Pieces(r) THEN Stamp(r) ELSE shm[p]]
      BY <2>1 DEF Pack
    <3>3. \A p \in Piece : shm[p] \in D
      BY <1>5
    <3> QED BY <1>5, <3>1, <3>2, <3>3, Zenon
  <2>2. CASE ~Pack(r)
    <3>1. shm' = shm
      BY <2>2 DEF RankStep, Launcher, WrongUsage, BadArgs, Start, PassFirstBarrier, NextBlockSize,
         Exit, BeginShmem, BeginOneCopy, PassPrologue, NoDriver, StartRound, PassRts, Copy,
         Fault, Refuse, AssertFails, PassFin, OverrunAborts, EndLoop, EndPhase, PassMainBarrier,
         bufs
    <3> QED BY <1>5, <3>1
  <2> QED BY <2>1, <2>2
<1>7. lbuf' \in [Receiver -> [Piece -> D]]
  <2>1. CASE Copy(r)
    <3>1. Stamp(Sender) \in D /\ r \in Receiver
      <4>1. pc[r] = "copy"
        BY <2>1 DEF Copy
      <4>2. r # Sender /\ iter[Sender] = iter[r] /\ iter[r] < Iters
        BY <4>1, CopierIsInside
      <4> QED BY <1>4, <4>2, SenderAssumption DEF Receiver
    <3>2. PICK right : lbuf' = [lbuf EXCEPT ![r] = [p \in Piece |->
               IF p \notin Pieces(r) THEN lbuf[r][p]
               ELSE IF ~SharedMemory(r) THEN IF p \in right THEN Stamp(Sender) ELSE Junk
               ELSE IF shmem_ptr[r] = "mapped" THEN shm[p] ELSE Junk]]
      BY <2>1 DEF Copy
    <3> DEFINE new(p) ==
               IF p \notin Pieces(r) THEN lbuf[r][p]
               ELSE IF ~SharedMemory(r) THEN IF p \in right THEN Stamp(Sender) ELSE Junk
               ELSE IF shmem_ptr[r] = "mapped" THEN shm[p] ELSE Junk
    <3>3. \A p \in Piece : new(p) \in D
      <4>1. \A p \in Piece : shm[p] \in D /\ lbuf[r][p] \in D
        BY <1>5, <3>1
      <4> QED BY <1>3, <3>1, <4>1
    <3>4. lbuf' = [lbuf EXCEPT ![r] = [p \in Piece |-> new(p)]]
      BY <3>2
    <3> HIDE DEF new
    <3>5. [p \in Piece |-> new(p)] \in [Piece -> D]
      BY <3>3, Zenon
    <3> QED BY <1>5, <3>1, <3>4, <3>5
  <2>2. CASE ~Copy(r)
    <3>1. lbuf' = lbuf
          \/ lbuf' = [q \in Receiver |-> IF q = r THEN [p \in Piece |-> Junk] ELSE lbuf[q]]
      BY <2>2 DEF RankStep, Launcher, WrongUsage, BadArgs, Start, PassFirstBarrier, NextBlockSize,
         Exit, BeginShmem, BeginOneCopy, PassPrologue, NoDriver, StartRound, Pack, PassRts,
         Fault, Refuse, AssertFails, PassFin, OverrunAborts, EndLoop, EndPhase, PassMainBarrier,
         bufs, ClearBuffer
    <3>2. [p \in Piece |-> Junk] \in [Piece -> D]
      BY <1>3, Zenon
    <3>3. \A q \in Receiver : lbuf[q] \in [Piece -> D]
      BY <1>5
    <3> DEFINE blank == [p \in Piece |-> Junk]
    <3> HIDE DEF blank
    <3>4. [q \in Receiver |-> IF q = r THEN blank ELSE lbuf[q]] \in [Receiver -> [Piece -> D]]
      BY <3>2, <3>3, Zenon DEF blank
    <3> QED BY <1>5, <3>1, <3>4 DEF blank
  <2> QED BY <2>1, <2>2
<1>8. Iters' = Iters /\ Receiver' = Receiver
  BY DEF Iters, Receiver
<1> QED BY <1>2, <1>6, <1>7 DEF D

(* Every variable keeps its type.                                          *)
LEMMA TypeStep ==
    ASSUME IInv, NEW r \in Rank, RankStep(r) \/ Launcher(r)
    PROVE  TypeOK'
<1>1. TypeOK /\ job \in Jobs /\ Own(r)
  BY DEF IInv, Control
<1>2. job' = job
  BY FixedJob
<1>3. pc' \in [Rank -> Label]
  <2>1. \E l \in Label : pc' = [pc EXCEPT ![r] = l]
    BY DEF RankStep, Launcher, WrongUsage, BadArgs, Start, PassFirstBarrier, NextBlockSize,
       Exit, BeginShmem, BeginOneCopy, PassPrologue, NoDriver, StartRound, Pack, PassRts, Copy,
       Fault, Refuse, AssertFails, PassFin, OverrunAborts, EndLoop, EndPhase, PassMainBarrier,
       Goto, Kill, Label, Stopped, Failed
  <2> QED BY <1>1, <2>1 DEF TypeOK
<1>4. calls' \in [Rank -> Seq(Collective)]
  <2>1. calls' = calls \/ Enter(r, "bcast") \/ Enter(r, "gather") \/ Enter(r, "barrier")
    BY DEF RankStep, Launcher, WrongUsage, BadArgs, Start, PassFirstBarrier, NextBlockSize,
       Exit, BeginShmem, BeginOneCopy, PassPrologue, NoDriver, StartRound, Pack, PassRts, Copy,
       Fault, Refuse, AssertFails, PassFin, OverrunAborts, EndLoop, EndPhase, PassMainBarrier,
       Kill
  <2>2. "bcast" \in Collective /\ "gather" \in Collective /\ "barrier" \in Collective
        /\ calls \in [Rank -> Seq(Collective)]
    BY <1>1 DEF Collective, TypeOK
  <2> QED BY <2>1, <2>2, EnterPos
<1>5. /\ iter' \in [Rank -> 0 .. Iters] /\ step' \in [Rank -> Nat]
      /\ chunk' \in [Rank -> Piece]' /\ blocksize' \in [Rank -> Nat]
  BY TypeCounters
<1>6. clock' \in {"off", "running", "stopped"}
  <2>1. clock' \in {clock, "running", "stopped"}
    BY DEF RankStep, Launcher, WrongUsage, BadArgs, Start, PassFirstBarrier, NextBlockSize,
       Exit, BeginShmem, BeginOneCopy, PassPrologue, NoDriver, StartRound, Pack, PassRts, Copy,
       Fault, Refuse, AssertFails, PassFin, OverrunAborts, EndLoop, EndPhase, PassMainBarrier,
       BeginRound, LeaveLoop
  <2> QED BY <1>1, <2>1 DEF TypeOK
<1>7. liov' \in [Rank -> {"none", "own", "sender"}]
  <2>1. liov' = liov \/ \E l \in {"none", "own", "sender"} : liov' = [liov EXCEPT ![r] = l]
    BY DEF RankStep, Launcher, WrongUsage, BadArgs, Start, PassFirstBarrier, NextBlockSize,
       Exit, BeginShmem, BeginOneCopy, PassPrologue, NoDriver, StartRound, Pack, PassRts, Copy,
       Fault, Refuse, AssertFails, PassFin, OverrunAborts, EndLoop, EndPhase, PassMainBarrier,
       local
  <2> QED BY <1>1, <2>1 DEF TypeOK
<1>8. shmem_ptr' \in [Rank -> {"bad", "mapped", "stale"}]
  <2>1. shmem_ptr' = shmem_ptr
        \/ \E l \in {"bad", "mapped", "stale"} : shmem_ptr' = [shmem_ptr EXCEPT ![r] = l]
    BY DEF RankStep, Launcher, WrongUsage, BadArgs, Start, PassFirstBarrier, NextBlockSize,
       Exit, BeginShmem, BeginOneCopy, PassPrologue, NoDriver, StartRound, Pack, PassRts, Copy,
       Fault, Refuse, AssertFails, PassFin, OverrunAborts, EndLoop, EndPhase, PassMainBarrier,
       local, InitShmem
  <2> QED BY <1>1, <2>1 DEF TypeOK
<1>9. /\ shm' \in [Piece -> Nat \X (0 .. Iters)]'
      /\ lbuf' \in [Receiver -> [Piece -> Nat \X (0 .. Iters)]]'
  BY TypeBuffers
<1>10. refused' \subseteq Receiver /\ wild' \in Nat
  <2>1. refused' = refused \/ (pc[r] = "copy" /\ refused' = refused \cup {r})
    BY DEF RankStep, Launcher, WrongUsage, BadArgs, Start, PassFirstBarrier, NextBlockSize,
       Exit, BeginShmem, BeginOneCopy, PassPrologue, NoDriver, StartRound, Pack, PassRts, Copy,
       Fault, Refuse, AssertFails, PassFin, OverrunAborts, EndLoop, EndPhase, PassMainBarrier
  <2>2. pc[r] = "copy" => r \in Receiver
    BY <1>1 DEF Own, Receiver
  <2>3. wild' = wild \/ wild' = step[r] + 1
    BY DEF RankStep, Launcher, WrongUsage, BadArgs, Start, PassFirstBarrier, NextBlockSize,
       Exit, BeginShmem, BeginOneCopy, PassPrologue, NoDriver, StartRound, Pack, PassRts, Copy,
       Fault, Refuse, AssertFails, PassFin, OverrunAborts, EndLoop, EndPhase, PassMainBarrier
  <2>4. step[r] + 1 \in Nat /\ wild \in Nat /\ refused \subseteq Receiver
    BY <1>1, SMT DEF TypeOK
  <2> QED BY <2>1, <2>2, <2>3, <2>4
<1>11. ASSUME NEW q \in Rank, pc'[q] \notin {"start", "first_barrier", "head"} \cup Stopped
       PROVE  blocksize'[q] \in 1 .. BufSize
  <2>1. CASE q # r
    <3>1. pc'[q] = pc[q] /\ blocksize'[q] = blocksize[q]
      BY <1>1, <2>1, OthersKeep
    <3> QED BY <1>1, <1>11, <3>1 DEF TypeOK
  <2>2. CASE q = r /\ NextBlockSize(r)
    <3>1. /\ pc[r] = "head" /\ blocksize' = blocksize /\ blocksize[r] <= job.max_bs
      BY <2>2 DEF NextBlockSize
    <3>2. ValidArgs /\ blocksize[r] > 0
      BY <1>1, <3>1 DEF Own, Stopped, Failed
    <3>3. blocksize[r] \in Nat /\ job.max_bs \in Nat /\ BufSize \in Nat
      BY <1>1, BenchAssumption DEF TypeOK, Jobs
    <3> QED BY <2>2, <3>1, <3>2, <3>3, SMT DEF ValidArgs
  <2>3. CASE q = r /\ ~NextBlockSize(r)
    <3>1. /\ pc[r] \notin {"start", "first_barrier", "head"} \cup Stopped
          /\ blocksize'[r] = blocksize[r]
      BY <1>1, <1>11, <2>3 DEF TypeOK, RankStep, Launcher, WrongUsage, BadArgs, Start,
         PassFirstBarrier,
         Exit, BeginShmem, BeginOneCopy, PassPrologue, NoDriver, StartRound, Pack, PassRts, Copy,
         Fault, Refuse, AssertFails, PassFin, OverrunAborts, EndLoop, EndPhase, PassMainBarrier,
         local, Goto, Kill, Stopped, Failed
    <3> QED BY <1>1, <2>3, <3>1 DEF TypeOK
  <2> QED BY <2>1, <2>2, <2>3
<1> QED
  BY <1>3, <1>4, <1>5, <1>6, <1>7, <1>8, <1>9, <1>10, <1>11 DEF TypeOK

-----------------------------------------------------------------------------
(* The collective rank r is blocked in, told by its pc.                     *)
Called(r) ==
    /\ pc[r] \in {"first_barrier", "bench_barrier"} => Expected(job, Pos(r)) = "barrier"
    /\ pc[r] = "main_barrier" /\ r \notin refused => Expected(job, Pos(r)) = "barrier"
    /\ pc[r] \in {"prologue", "rts"} => Expected(job, Pos(r)) = "bcast"
    /\ pc[r] = "fin" => Expected(job, Pos(r)) = "gather"

AllOwn == job \in Jobs /\ TypeOK /\ \A r \in Rank : Own(r)
AllCalled == \A r \in Rank : Called(r)

(* The collective a rank is blocked in is the one the job has at its place.*)
LEMMA CalledHere == AllOwn => AllCalled
<1> SUFFICES ASSUME job \in Jobs, TypeOK, NEW r \in Rank, Own(r)
             PROVE  Called(r)
  BY DEF AllOwn, AllCalled
<1> DEFINE k == Pos(r)
           s == step[r]
<1>1. /\ k \in Nat /\ s \in Nat /\ iter[r] \in Nat /\ Iters \in Nat \ {0}
      /\ chunk[r] \in Nat \ {0} /\ iter[r] <= Iters
  BY RankFacts
<1>2. /\ Base(job, s) \in Nat /\ Base(job, s) >= 1 /\ Base(job, s + 1) \in Nat
      /\ Loop(job, s, 0) = Base(job, s) + Prologue(job, s)
      /\ Here(r) \in Nat /\ After(r) = Here(r) + ChunksOf(job, s) + 1
      /\ Driven(job, s) => Base(job, s + 1) = Loop(job, s, Iters) + 2
      /\ Loop(job, s, Iters) \in Nat /\ ChunksOf(job, s) \in Nat
      /\ Number(s) >= 2 /\ Driven(job, s) => Prologue(job, s) = 1
  BY Places
<1>3. Here(r) = Loop(job, s, iter[r]) /\ After(r) = Loop(job, s, iter[r] + 1)
  BY DEF Here, After
<1>4. /\ Base(job, s) < k /\ k <= Loop(job, s, 0) => Expected(job, k) = "bcast"
      /\ \A i \in 0 .. Iters - 1 : Driven(job, s) =>
            /\ Loop(job, s, i) < k /\ k < Loop(job, s, i + 1) => Expected(job, k) = "bcast"
            /\ k = Loop(job, s, i + 1) => Expected(job, k) = "gather"
      /\ Driven(job, s) /\ Loop(job, s, Iters) < k /\ k <= Base(job, s + 1) =>
            Expected(job, k) = "barrier"
      /\ ~Driven(job, s) /\ k = Base(job, s + 1) => Expected(job, k) = "barrier"
      /\ k = 1 => Expected(job, k) = "barrier"
  BY <1>1, ExpectedFacts
<1>5. iter[r] < Iters => iter[r] \in 0 .. Iters - 1
  BY <1>1, SMT
<1>6. ASSUME pc[r] = "first_barrier" PROVE Expected(job, k) = "barrier"
  BY <1>4, <1>6 DEF Own
<1>7. ASSUME pc[r] = "bench_barrier" PROVE Expected(job, k) = "barrier"
  <2>1. Driven(job, s) /\ k = Loop(job, s, Iters) + 1
    BY <1>3, <1>7 DEF Own
  <2>2. Loop(job, s, Iters) < k /\ k <= Base(job, s + 1)
    BY <1>2, <2>1, SMT
  <2> QED BY <1>4, <2>1, <2>2
<1>8. ASSUME pc[r] = "main_barrier", r \notin refused PROVE Expected(job, k) = "barrier"
  <2>1. k = Base(job, s + 1)
    BY <1>8 DEF Own
  <2>2. Driven(job, s) => Loop(job, s, Iters) < k
    BY <1>2, <2>1, SMT
  <2>3. k <= Base(job, s + 1)
    BY <1>2, <2>1, SMT
  <2> QED BY <1>4, <2>1, <2>2, <2>3
<1>9. ASSUME pc[r] = "prologue" PROVE Expected(job, k) = "bcast"
  <2>1. Driven(job, s) /\ Number(s) >= 2 /\ k = Base(job, s) + 1
    BY <1>9 DEF Own
  <2>2. Base(job, s) < k /\ k <= Loop(job, s, 0)
    BY <1>2, <2>1, SMT
  <2> QED BY <1>4, <2>2
<1>10. ASSUME pc[r] = "rts" PROVE Expected(job, k) = "bcast"
  <2>1. /\ Driven(job, s) /\ iter[r] < Iters /\ chunk[r] <= ChunksOf(job, s)
        /\ k = Here(r) + chunk[r]
    BY <1>10 DEF Own
  <2>2. Here(r) < k /\ k < After(r)
    BY <1>1, <1>2, <2>1, SMT
  <2> QED BY <1>3, <1>4, <1>5, <2>1, <2>2
<1>11. ASSUME pc[r] = "fin" PROVE Expected(job, k) = "gather"
  <2>1. Driven(job, s) /\ iter[r] < Iters /\ k = After(r)
    BY <1>11 DEF Own
  <2> QED BY <1>3, <1>4, <1>5, <2>1
<1> QED BY <1>6, <1>7, <1>8, <1>9, <1>10, <1>11 DEF Called

(* A step makes at most one call, and only a rank that is, or has just     *)
(* been, refused an attachment makes another than it should.               *)
LEMMA OneCall ==
    ASSUME IInv, NEW r \in Rank, RankStep(r) \/ Launcher(r), Called(r)'
    PROVE  \/ calls' = calls /\ refused' = refused
           \/ \E op \in Collective :
                 /\ Enter(r, op) /\ r \notin refused /\ refused \subseteq refused'
                 /\ r \in refused' \/ Expected(job, Pos(r)') = op
<1>1. TypeOK /\ job' = job
  BY FixedJob DEF IInv
<1>2. /\ "bcast" \in Collective /\ "gather" \in Collective /\ "barrier" \in Collective
      /\ Stopped = {"crashed", "aborted", "killed", "done"}
  BY DEF Collective, Stopped, Failed
<1>3. r \in refused => pc[r] \in {"main_barrier"} \cup Stopped
  BY NotRefused
<1>4. CASE Refuse(r)
  BY <1>2, <1>3, <1>4 DEF Refuse
<1>5. CASE ~Refuse(r)
  <2>1. refused' = refused
    BY <1>5 DEF RankStep, Launcher, WrongUsage, BadArgs, Start, PassFirstBarrier, NextBlockSize,
       Exit, BeginShmem, BeginOneCopy, PassPrologue, NoDriver, StartRound, Pack, PassRts, Copy,
       Fault, AssertFails, PassFin, OverrunAborts, EndLoop, EndPhase, PassMainBarrier
  <2>2. \/ calls' = calls
        \/ /\ Enter(r, "bcast") /\ pc'[r] \in {"prologue", "rts"}
           /\ pc[r] \notin {"main_barrier"} \cup Stopped
        \/ /\ Enter(r, "gather") /\ pc'[r] = "fin"
           /\ pc[r] \notin {"main_barrier"} \cup Stopped
        \/ /\ Enter(r, "barrier") /\ pc[r] \notin {"main_barrier"} \cup Stopped
           /\ pc'[r] \in {"first_barrier", "bench_barrier", "main_barrier"}
    BY <1>1, <1>2, <1>5 DEF RankStep, Launcher, WrongUsage, BadArgs, Start, PassFirstBarrier,
       NextBlockSize,
       Exit, BeginShmem, BeginOneCopy, PassPrologue, NoDriver, StartRound, Pack, PassRts, Copy,
       Fault, AssertFails, PassFin, OverrunAborts, EndLoop, EndPhase, PassMainBarrier,
       Kill, Goto, TypeOK
  <2>3. CASE Enter(r, "bcast") /\ pc'[r] \in {"prologue", "rts"}
             /\ pc[r] \notin {"main_barrier"} \cup Stopped
    BY <1>1, <1>2, <1>3, <2>1, <2>3 DEF Called
  <2>4. CASE Enter(r, "gather") /\ pc'[r] = "fin"
             /\ pc[r] \notin {"main_barrier"} \cup Stopped
    BY <1>1, <1>2, <1>3, <2>1, <2>4 DEF Called
  <2>5. CASE Enter(r, "barrier") /\ pc[r] \notin {"main_barrier"} \cup Stopped
             /\ pc'[r] \in {"first_barrier", "bench_barrier", "main_barrier"}
    BY <1>1, <1>2, <1>3, <2>1, <2>5 DEF Called
  <2> QED BY <2>1, <2>2, <2>3, <2>4, <2>5
<1> QED BY <1>4, <1>5

(* The histories keep to the stream of the job.                            *)
LEMMA ShapeStep ==
    ASSUME IInv, NEW r \in Rank, RankStep(r) \/ Launcher(r), Called(r)'
    PROVE  Shape(r)'
<1>1. TypeOK /\ job' = job /\ Shape(r) /\ Pos(r) \in Nat
  BY FixedJob, RankFacts DEF IInv, Control
<1>2. CASE calls' = calls /\ refused' = refused
  <2>1. Pos(r)' = Pos(r)
    BY <1>2 DEF Pos
  <2> QED BY <1>1, <1>2, <2>1 DEF Shape
<1>3. CASE \E op \in Collective :
               /\ Enter(r, op) /\ r \notin refused /\ refused \subseteq refused'
               /\ r \in refused' \/ Expected(job, Pos(r)') = op
  <2>1. PICK op \in Collective :
            /\ Enter(r, op) /\ r \notin refused
            /\ r \in refused' \/ Expected(job, Pos(r)') = op
    BY <1>3
  <2>2. Pos(r)' = Pos(r) + 1
    BY <1>1, <2>1, EnterPos DEF TypeOK
  <2>3. calls[r] \in Seq(Collective) /\ calls'[r] = Append(calls[r], op)
    BY <1>1, <2>1 DEF Enter, TypeOK
  <2>4. /\ calls'[r][Pos(r) + 1] = op
        /\ \A k \in 1 .. Pos(r) : calls'[r][k] = calls[r][k]
    <3>1. /\ Append(calls[r], op)[Len(calls[r]) + 1] = op
          /\ \A k \in 1 .. Len(calls[r]) : Append(calls[r], op)[k] = calls[r][k]
      BY <2>3, SMT
    <3> QED BY <2>3, <3>1 DEF Pos
  <2> SUFFICES ASSUME NEW k \in 1 .. Pos(r)', ~(r \in refused' /\ k = Pos(r)')
               PROVE  calls'[r][k] = Expected(job, k)
    BY <1>1 DEF Shape
  <2>5. CASE k \in 1 .. Pos(r)
    <3>1. calls[r][k] = Expected(job, k)
      BY <1>1, <2>1, <2>5 DEF Shape
    <3> QED BY <2>4, <2>5, <3>1
  <2>6. CASE k = Pos(r) + 1
    BY <2>1, <2>2, <2>4, <2>6
  <2> QED BY <1>1, <2>2, <2>5, <2>6, SMT
<1> QED BY <1>2, <1>3, OneCall

-----------------------------------------------------------------------------
(* What everybody has entered, told by the pc of the sender.               *)
Looping == {"loop", "pack", "rts", "fin", "bench_barrier"}
Met ==
    /\ pc[Sender] \notin Stopped => Everybody(Floor(job, step[Sender], 0))
    /\ (pc[Sender] \in Looping \/ (pc[Sender] = "main_barrier" /\ Driven(job, step[Sender])))
           => Everybody(Floor(job, step[Sender], iter[Sender]))

(* The sender at the head of a benchmark or of a round has everybody with it. *)
LEMMA MetHere == ASSUME IInv PROVE Met
<1>1. TypeOK /\ job \in Jobs /\ Ahead /\ Own(Sender) /\ Sender \in Rank /\ Sender \notin refused
  BY SenderAssumption DEF IInv, Control, TypeOK, Receiver
<1>2. /\ Everybody(Floor(job, step[Sender], 0))
      /\ Driven(job, step[Sender]) /\ Here(Sender) <= Pos(Sender) =>
            Everybody(Floor(job, step[Sender], iter[Sender]))
  BY <1>1, AheadFloor
<1>3. /\ Pos(Sender) \in Nat /\ chunk[Sender] \in Nat \ {0}
      /\ Here(Sender) \in Nat /\ After(Sender) = Here(Sender) + ChunksOf(job, step[Sender]) + 1
      /\ ChunksOf(job, step[Sender]) \in Nat
      /\ Driven(job, step[Sender]) =>
            /\ Base(job, step[Sender] + 1) = Loop(job, step[Sender], Iters) + 2
      /\ Loop(job, step[Sender], Iters) \in Nat
  BY <1>1, RankFacts, Places
<1>4. ASSUME pc[Sender] \in Looping
      PROVE  Driven(job, step[Sender]) /\ Here(Sender) <= Pos(Sender)
  <2>1. /\ Driven(job, step[Sender])
        /\ \/ Pos(Sender) = Here(Sender) \/ Pos(Sender) + 1 = Here(Sender) + chunk[Sender]
           \/ Pos(Sender) = Here(Sender) + chunk[Sender] \/ Pos(Sender) = After(Sender)
           \/ Pos(Sender) = Here(Sender) + 1
    BY <1>1, <1>4 DEF Own, Looping
  <2> QED BY <1>3, <2>1, SMT
<1>5. ASSUME pc[Sender] = "main_barrier", Driven(job, step[Sender])
      PROVE  Here(Sender) <= Pos(Sender)
  <2>1. Pos(Sender) = Base(job, step[Sender] + 1) /\ iter[Sender] = Iters
    BY <1>1, <1>5 DEF Own
  <2>2. Here(Sender) = Loop(job, step[Sender], Iters)
    BY <2>1 DEF Here
  <2> QED BY <1>3, <1>5, <2>1, <2>2, SMT
<1> QED BY <1>2, <1>4, <1>5 DEF Met

(* ... which says how far the sender is ahead, as long as it runs.         *)
LEMMA AheadHere ==
    job \in Jobs /\ TypeOK /\ Own(Sender) /\ Met /\ pc[Sender] \notin Stopped => Ahead
<1> SUFFICES ASSUME job \in Jobs, TypeOK, Own(Sender), Met, pc[Sender] \notin Stopped
             PROVE  Ahead
  OBVIOUS
<1> DEFINE s == step[Sender]
           i == iter[Sender]
           k == Pos(Sender)
<1>1. /\ Sender \in Rank /\ Sender \notin refused /\ pc[Sender] \in Label
  BY SenderAssumption DEF TypeOK, Receiver
<1>2. /\ k \in Nat /\ s \in Nat /\ i \in Nat /\ Iters \in Nat \ {0}
      /\ chunk[Sender] \in Nat \ {0} /\ i <= Iters
  BY <1>1, RankFacts
<1>3. /\ Base(job, s) \in Nat /\ Base(job, s) >= 1 /\ Base(job, s + 1) \in Nat
      /\ Loop(job, s, 0) = Base(job, s) + Prologue(job, s) /\ Loop(job, s, 0) \in Nat
      /\ Here(Sender) \in Nat /\ After(Sender) = Here(Sender) + ChunksOf(job, s) + 1
      /\ Driven(job, s) => Base(job, s + 1) = Loop(job, s, Iters) + 2
      /\ Loop(job, s, Iters) \in Nat /\ ChunksOf(job, s) \in Nat
      /\ Number(s) >= 2 /\ Driven(job, s) => Prologue(job, s) = 1
      /\ s = 0 => Base(job, s) = 1
  BY <1>1, Places
<1>4. Here(Sender) = Loop(job, s, i) /\ After(Sender) = Loop(job, s, i + 1)
  BY DEF Here, After
<1>5. Prologue(job, s) \in Nat
  BY <1>2, BenchmarkFacts
<1>6. CASE pc[Sender] \in {"start", "first_barrier", "head", "begin", "prologue"}
  <2>1. \/ k = 0 \/ (k = 1 /\ s = 0) \/ k = Base(job, s)
        \/ (k = Base(job, s) + 1 /\ Number(s) >= 2 /\ Driven(job, s))
    BY <1>6 DEF Own
  <2>2. k <= Loop(job, s, 0)
    BY <1>2, <1>3, <1>5, <2>1, SMT
  <2>3. Everybody(Floor(job, s, 0))
    BY DEF Met
  <2> QED BY <2>2, <2>3 DEF Ahead, Before
<1>7. CASE pc[Sender] \in {"loop", "pack", "rts", "fin"}
  <2>1. /\ Driven(job, s) /\ Everybody(Floor(job, s, i))
    BY <1>7 DEF Own, Met, Looping
  <2>2. \/ k = Here(Sender)
        \/ /\ k + 1 = Here(Sender) + chunk[Sender] \/ k = Here(Sender) + chunk[Sender]
           /\ chunk[Sender] <= ChunksOf(job, s) /\ i < Iters
        \/ k = After(Sender) /\ i < Iters
    BY <1>7 DEF Own
  <2>3. i < Iters => k <= Loop(job, s, i + 1)
    BY <1>2, <1>3, <1>4, <2>2, SMT
  <2>4. CASE i < Iters
    BY <2>1, <2>3, <2>4 DEF Ahead, InRound
  <2>5. CASE i = Iters
    <3>1. k <= Base(job, s + 1)
      BY <1>2, <1>3, <1>4, <2>1, <2>2, <2>5, SMT
    <3> QED BY <2>1, <2>5, <3>1 DEF Ahead, Behind
  <2> QED BY <1>2, <2>4, <2>5, SMT
<1>8. CASE pc[Sender] = "bench_barrier"
  <2>1. /\ Driven(job, s) /\ Everybody(Floor(job, s, i)) /\ i = Iters /\ k = Here(Sender) + 1
    BY <1>8 DEF Own, Met, Looping
  <2>2. k <= Base(job, s + 1)
    BY <1>2, <1>3, <1>4, <2>1, SMT
  <2> QED BY <2>1, <2>2 DEF Ahead, Behind
<1>9. CASE pc[Sender] = "main_barrier"
  <2>1. k = Base(job, s + 1) /\ (Driven(job, s) => i = Iters)
    BY <1>1, <1>9 DEF Own
  <2>2. k <= Base(job, s + 1)
    BY <1>2, <2>1, SMT
  <2>3. Everybody(Floor(job, s, 0)) /\ (Driven(job, s) => Everybody(Floor(job, s, i)))
    BY <1>9 DEF Met
  <2> QED BY <2>1, <2>2, <2>3 DEF Ahead, Behind
<1>10. pc[Sender] # "copy"
  BY DEF Own
<1> QED BY <1>1, <1>6, <1>7, <1>8, <1>9, <1>10 DEF Label

(* Histories only grow.                                                    *)
LEMMA Grows ==
    ASSUME IInv, NEW r \in Rank, RankStep(r) \/ Launcher(r), Called(r)'
    PROVE  /\ \A q \in Rank : Pos(q)' >= Pos(q) /\ Pos(q) \in Nat /\ Pos(q)' \in Nat
           /\ \A p \in Nat : Everybody(p) => \A q \in Rank : Pos(q)' >= p
<1>1. TypeOK /\ calls \in [Rank -> Seq(Collective)]
  BY DEF IInv, TypeOK
<1>2. \A q \in Rank : Pos(q) \in Nat
  BY <1>1, PosNat
<1>3. ASSUME NEW q \in Rank PROVE Pos(q)' = Pos(q) \/ Pos(q)' = Pos(q) + 1
  <2>1. CASE calls' = calls
    BY <2>1 DEF Pos
  <2>2. CASE \E op \in Collective : Enter(r, op)
    BY <1>1, <2>2, EnterPos
  <2> QED BY <2>1, <2>2, OneCall
<1>4. ASSUME NEW q \in Rank PROVE Pos(q)' >= Pos(q) /\ Pos(q)' \in Nat
  <2> DEFINE k == Pos(q)
             n == Pos(q)'
  <2>1. k \in Nat /\ (n = k \/ n = k + 1)
    BY <1>2, <1>3
  <2> HIDE DEF k, n
  <2>2. n >= k /\ n \in Nat
    BY <2>1, SMT
  <2> QED BY <2>2 DEF k, n
<1>5. ASSUME NEW p \in Nat, Everybody(p), NEW q \in Rank PROVE Pos(q)' >= p
  <2>1. Pos(q) >= p
    BY <1>5 DEF Everybody
  <2> QED BY <1>2, <1>4, <2>1, SMT
<1> QED BY <1>2, <1>4, <1>5

(* What everybody has entered after a step of the sender that leaves it    *)
(* running.                                                                *)
LEMMA MetStep ==
    ASSUME IInv, RankStep(Sender), pc'[Sender] \notin Stopped, Called(Sender)'
    PROVE  Met'
<1> DEFINE s == step[Sender]
           i == iter[Sender]
<1>1. /\ TypeOK /\ job \in Jobs /\ Ahead /\ Own(Sender) /\ Met
      /\ Sender \in Rank /\ Sender \notin refused /\ job' = job
  BY SenderAssumption, FixedJob, MetHere DEF IInv, Control, TypeOK, Receiver
<1>2. /\ s \in Nat /\ i \in Nat /\ s + 1 \in Nat /\ i + 1 \in Nat /\ 0 \in Nat
      /\ Pos(Sender) \in Nat
  BY <1>1, RankFacts, SMT
<1>3. /\ \A q \in Rank : Pos(q)' >= Pos(q) /\ Pos(q) \in Nat /\ Pos(q)' \in Nat
      /\ \A p \in Nat : Everybody(p) => \A q \in Rank : Pos(q)' >= p
  BY <1>1, Grows
<1>4. Floor(job, s, 0) \in Nat /\ Floor(job, s, i) \in Nat
  BY <1>1, <1>2, FloorFacts
<1>5. \A q \in Rank : Pos(q)' >= Floor(job, s, 0)
  BY <1>1, <1>3, <1>4, AheadFloor
<1>6. pc[Sender] \in Looping => \A q \in Rank : Pos(q)' >= Floor(job, s, i)
  BY <1>1, <1>3, <1>4 DEF Met
<1>7. ASSUME NEW p \in Nat, Pos(Sender) = p, \A q \in Rank : Pos(q) >= Pos(Sender)
      PROVE  \A q \in Rank : Pos(q)' >= p
  <2>1. Everybody(p)
    BY <1>7 DEF Everybody
  <2> QED BY <1>3, <1>7, <2>1
<1>8. CASE PassMainBarrier(Sender)
  <2>1. /\ step'[Sender] = s + 1 /\ pc[Sender] = "main_barrier" /\ BarrierReturns(Sender)
        /\ pc'[Sender] \in {"head", "begin"}
    BY <1>1, <1>8 DEF PassMainBarrier, Goto, TypeOK
  <2>2. Pos(Sender) = Base(job, s + 1)
    BY <1>1, <2>1 DEF Own
  <2>3. Floor(job, s + 1, 0) = Pos(Sender)
    BY <1>2, <2>2, SMT DEF Floor
  <2>4. \A q \in Rank : Pos(q) >= Pos(Sender)
    BY <1>1, <2>1, ReturnsPos
  <2>5. \A q \in Rank : Pos(q)' >= Floor(job, s + 1, 0)
    BY <1>2, <1>7, <2>3, <2>4
  <2> QED BY <1>1, <2>1, <2>5 DEF Met, Everybody, Looping
<1>9. CASE PassFin(Sender)
  <2>1. /\ step' = step /\ iter'[Sender] = i + 1 /\ pc[Sender] = "fin" /\ GatherReturns(Sender)
        /\ pc'[Sender] = "loop"
    BY <1>1, <1>9 DEF PassFin, FinReturns, Goto, TypeOK
  <2>2. Pos(Sender) = Loop(job, s, i + 1)
    BY <1>1, <2>1 DEF Own, After
  <2>3. Floor(job, s, i + 1) = Pos(Sender)
    BY <1>2, <2>2, SMT DEF Floor
  <2>4. \A q \in Rank : Pos(q) >= Pos(Sender)
    BY <1>1, <2>1, ReturnsPos
  <2>5. \A q \in Rank : Pos(q)' >= Floor(job, s, i + 1)
    BY <1>2, <1>7, <2>3, <2>4
  <2> QED BY <1>1, <1>5, <2>1, <2>5 DEF Met, Everybody
<1>10. CASE BeginShmem(Sender) \/ PassPrologue(Sender)
  <2>1. step' = step /\ iter'[Sender] = 0 /\ pc'[Sender] = "loop"
    BY <1>1, <1>10 DEF BeginShmem, PassPrologue, Goto, TypeOK
  <2> QED BY <1>1, <1>5, <2>1 DEF Met, Everybody
<1>11. CASE NoDriver(Sender)
  <2>1. step' = step /\ pc'[Sender] = "main_barrier" /\ Xpmem(Sender) /\ ~job.xpmem
    BY <1>1, <1>11 DEF NoDriver, Goto, TypeOK
  <2>2. ~Driven(job, s)
    BY <1>1, <2>1, PhaseFacts, Places
  <2> QED BY <1>1, <1>5, <2>1, <2>2 DEF Met, Everybody, Looping
<1>12. CASE StartRound(Sender) \/ Pack(Sender) \/ PassRts(Sender) \/ EndLoop(Sender)
            \/ EndPhase(Sender)
  <2>1. step' = step /\ iter' = iter /\ pc[Sender] \in Looping
    BY <1>12 DEF StartRound, Pack, PassRts, EndLoop, EndPhase, Looping
  <2> QED BY <1>1, <1>5, <1>6, <2>1 DEF Met, Everybody
<1>13. CASE Start(Sender) \/ PassFirstBarrier(Sender) \/ NextBlockSize(Sender)
            \/ BeginOneCopy(Sender)
  <2>1. /\ step' = step
        /\ pc'[Sender] \in {"first_barrier", "head", "begin", "prologue"}
    BY <1>1, <1>13 DEF Start, PassFirstBarrier, NextBlockSize, BeginOneCopy, Goto, TypeOK
  <2> QED BY <1>1, <1>5, <2>1 DEF Met, Everybody, Looping
<1>14. ~Copy(Sender) /\ ~Refuse(Sender)
  BY <1>1 DEF Own, Copy, Refuse
<1>15. ~WrongUsage(Sender) /\ ~BadArgs(Sender) /\ ~Exit(Sender) /\ ~Fault(Sender)
       /\ ~AssertFails(Sender) /\ ~OverrunAborts(Sender)
  BY <1>1 DEF WrongUsage, BadArgs, Exit, Fault, AssertFails, OverrunAborts, Goto, TypeOK,
     Stopped, Failed
<1> QED
  BY <1>8, <1>9, <1>10, <1>11, <1>12, <1>13, <1>14, <1>15 DEF RankStep

(* The sender stays within its limits.                                     *)
LEMMA AheadStep ==
    ASSUME IInv, NEW r \in Rank, RankStep(r) \/ Launcher(r), Called(r)',
           TypeOK', job' \in Jobs, Own(Sender)'
    PROVE  Ahead'
<1> DEFINE s == step[Sender]
           i == iter[Sender]
<1>1. TypeOK /\ job \in Jobs /\ Ahead /\ job' = job /\ Sender \in Rank
  BY SenderAssumption, FixedJob DEF IInv, Control
<1>2. s \in Nat /\ i \in Nat /\ 0 \in Nat
  BY <1>1, RankFacts, SMT
<1>3. \A p \in Nat : Everybody(p) => \A q \in Rank : Pos(q)' >= p
  BY Grows
<1>4. ASSUME step'[Sender] = s, iter'[Sender] = i, Pos(Sender)' = Pos(Sender) PROVE Ahead'
  <2>1. Floor(job, s, 0) \in Nat /\ Floor(job, s, i) \in Nat
    BY <1>1, <1>2, FloorFacts
  <2>2. /\ Everybody(Floor(job, s, 0)) => \A q \in Rank : Pos(q)' >= Floor(job, s, 0)
        /\ Everybody(Floor(job, s, i)) => \A q \in Rank : Pos(q)' >= Floor(job, s, i)
    BY <1>3, <2>1
  <2>3. CASE Before(s)
    BY <1>1, <1>4, <2>2, <2>3 DEF Ahead, Before, Everybody
  <2>4. CASE InRound(s, i)
    BY <1>1, <1>4, <2>2, <2>4 DEF Ahead, InRound, Everybody
  <2>5. CASE Behind(s, i)
    BY <1>1, <1>4, <2>2, <2>5 DEF Ahead, Behind, Everybody
  <2> QED BY <1>1, <2>3, <2>4, <2>5 DEF Ahead
<1>5. CASE r # Sender
  <2>1. step'[Sender] = s /\ iter'[Sender] = i /\ Pos(Sender)' = Pos(Sender)
    BY <1>1, <1>5, OthersKeep
  <2> QED BY <1>4, <2>1
<1>6. CASE r = Sender /\ pc'[Sender] \in Stopped
  <2>1. WrongUsage(r) \/ Exit(r) \/ Dies(r)
    <3>1. /\ ~Start(r) /\ ~PassFirstBarrier(r) /\ ~NextBlockSize(r) /\ ~BeginShmem(r)
          /\ ~BeginOneCopy(r) /\ ~PassPrologue(r) /\ ~NoDriver(r)
      BY <1>1, <1>6 DEF Start, PassFirstBarrier, NextBlockSize, BeginShmem, BeginOneCopy,
         PassPrologue, NoDriver, Goto, TypeOK, Stopped, Failed
    <3>2. ~StartRound(r) /\ ~Pack(r) /\ ~PassRts(r)
      <4>1. ~StartRound(r)
        BY <1>1, <1>6 DEF StartRound, Goto, TypeOK, Stopped, Failed
      <4>2. ~Pack(r)
        BY <1>1, <1>6 DEF Pack, Goto, TypeOK, Stopped, Failed
      <4>3. ~PassRts(r)
        BY <1>1, <1>6 DEF PassRts, Goto, TypeOK, Stopped, Failed
      <4> QED BY <4>1, <4>2, <4>3
    <3>3. ~Copy(r) /\ ~Refuse(r)
      BY <1>1, <1>6 DEF Copy, Refuse, Goto, TypeOK, Stopped, Failed
    <3>4. ~PassFin(r) /\ ~EndLoop(r) /\ ~EndPhase(r) /\ ~PassMainBarrier(r)
      BY <1>1, <1>6 DEF PassFin, EndLoop, EndPhase, PassMainBarrier, Goto, TypeOK, Stopped,
         Failed
    <3> QED BY <3>1, <3>2, <3>3, <3>4 DEF RankStep, Dies
  <2>2. step' = step /\ iter' = iter /\ calls' = calls
    BY <1>1, <2>1, DyingKeeps DEF WrongUsage, Exit
  <2> QED BY <1>4, <2>2 DEF Pos
<1>7. CASE r = Sender /\ pc'[Sender] \notin Stopped
  <2>1. RankStep(Sender)
    BY <1>1, <1>7 DEF Launcher, Kill, Goto, TypeOK, Stopped
  <2>2. Met'
    BY <1>7, <2>1, MetStep
  <2>3. (job \in Jobs /\ TypeOK /\ Own(Sender) /\ Met /\ pc[Sender] \notin Stopped => Ahead)'
    BY AheadHere, PTL
  <2> QED BY <1>7, <2>2, <2>3 DEF Stopped, Failed
<1> QED BY <1>5, <1>6, <1>7

-----------------------------------------------------------------------------
(* The invariant holds at the start ...                                    *)
LEMMA InitIInv == Init => IInv
<1> SUFFICES ASSUME Init PROVE IInv
  OBVIOUS
<1>1. /\ job.argc \in {1, 4} /\ job.xpmem \in BOOLEAN /\ job.min_bs \in Nat /\ job.max_bs \in Nat
      /\ job.depth \in 1 .. BufSize /\ job.page \in Nat \ {0}
      /\ job \in [argc : {1, 4}, min_bs : {a[1] : a \in ArgLists},
                  max_bs : {a[2] : a \in ArgLists}, depth : Depths, page : PageSizes,
                  xpmem : BOOLEAN]
  <2>1. \A a \in ArgLists : a[1] \in Nat /\ a[2] \in Nat
    BY BenchAssumption
  <2> QED BY <2>1, BenchAssumption DEF Init
<1>2. job \in Jobs
  BY <1>1 DEF Jobs
<1>3. Pipelined(job) \in Nat \ {0} /\ NChunks = Pipelined(job) /\ Iters \in Nat
  <2>1. 0 \in Nat
    BY SMT
  <2> QED BY <1>2, <2>1, BenchmarkFacts DEF NChunks, Pipelined
<1>4. \A r \in Rank : /\ pc[r] = "start" /\ calls[r] = <<>> /\ Pos(r) = 0
                      /\ step[r] = 0 /\ iter[r] = 0 /\ r \notin refused
  <2>1. Len(<<>>) = 0
    BY SMT
  <2> QED BY <2>1 DEF Init, Pos
<1>5. TypeOK
  <2>1. /\ pc \in [Rank -> Label] /\ calls \in [Rank -> Seq(Collective)]
        /\ clock \in {"off", "running", "stopped"}
        /\ liov \in [Rank -> {"none", "own", "sender"}]
        /\ shmem_ptr \in [Rank -> {"bad", "mapped", "stale"}]
        /\ refused \subseteq Receiver /\ wild \in Nat
    <3>1. <<>> \in Seq(Collective) /\ 0 \in Nat /\ "start" \in Label
      BY SMT DEF Label
    <3> QED BY <3>1, Zenon DEF Init
  <2>2. /\ iter \in [Rank -> 0 .. Iters] /\ step \in [Rank -> Nat]
        /\ blocksize \in [Rank -> Nat] /\ chunk \in [Rank -> Piece]
    <3>1. 0 \in 0 .. Iters /\ 0 \in Nat /\ 4 \in Nat /\ 1 \in Piece
      BY <1>3, SMT DEF Piece
    <3> QED BY <3>1, Zenon DEF Init
  <2>3. /\ shm \in [Piece -> Nat \X (0 .. Iters)]
        /\ lbuf \in [Receiver -> [Piece -> Nat \X (0 .. Iters)]]
    <3>1. Junk \in Nat \X (0 .. Iters)
      BY <1>3, SMT DEF Junk
    <3>2. [p \in Piece |-> Junk] \in [Piece -> Nat \X (0 .. Iters)]
      BY <3>1, Zenon
    <3> QED BY <3>2, Zenon DEF Init
  <2>4. \A r \in Rank : pc[r] \notin {"start", "first_barrier", "head"} \cup Stopped =>
            blocksize[r] \in 1 .. BufSize
    BY <1>4
  <2> QED BY <2>1, <2>2, <2>3, <2>4 DEF TypeOK
<1>6. ASSUME NEW r \in Rank PROVE Own(r) /\ Refusal(r) /\ Shape(r)
  <2>1. pc[r] = "start" /\ Pos(r) = 0 /\ step[r] = 0 /\ r \notin refused
    BY <1>4
  <2>2. Own(r)
    BY <2>1 DEF Own, Outside
  <2>3. Shape(r)
    <3>1. 1 .. 0 = {}
      BY SMT
    <3> QED BY <2>1, <3>1 DEF Shape
  <2> QED BY <2>1, <2>2, <2>3 DEF Refusal
<1>7. Ahead
  <2>1. Sender \in Rank /\ Pos(Sender) = 0 /\ step[Sender] = 0
    BY <1>4, SenderAssumption
  <2>2. Floor(job, 0, 0) = 0
    BY SMT DEF Floor
  <2>3. Everybody(0)
    <3>1. 0 >= 0
      BY SMT
    <3> QED BY <1>4, <3>1 DEF Everybody
  <2>4. Pos(Sender) <= Loop(job, 0, 0)
    <3>1. 0 \in Nat
      BY SMT
    <3>2. Loop(job, 0, 0) \in Nat
      BY <1>2, <3>1, LoopFacts
    <3> QED BY <2>1, <3>2, SMT
  <2> QED BY <2>1, <2>2, <2>3, <2>4 DEF Ahead, Before
<1> QED BY <1>2, <1>5, <1>6, <1>7 DEF IInv, Control

(* ... and every step keeps it.                                            *)
LEMMA NextIInv == IInv /\ [Next]_vars => IInv'
<1> SUFFICES ASSUME IInv, [Next]_vars PROVE IInv'
  OBVIOUS
<1>1. CASE UNCHANGED vars
  <2>1. /\ UNCHANGED <<pc, calls, iter, clock, job, step, chunk, blocksize, liov, shmem_ptr,
                       shm, lbuf, refused, wild>>
    BY <1>1 DEF vars, local, bufs
  <2>2. TypeOK'
    BY <2>1 DEF IInv, TypeOK, Piece, NChunks
  <2>3. \A r \in Rank : Pos(r)' = Pos(r) /\ Here(r)' = Here(r) /\ After(r)' = After(r)
                        /\ (SharedMemory(r)' <=> SharedMemory(r))
    BY <2>1 DEF Pos, Here, After, SharedMemory, Phase
  <2>4. Ahead'
    BY <2>1, <2>3, SenderAssumption
       DEF IInv, Control, Ahead, Before, InRound, Behind, Everybody
  <2>5. \A r \in Rank : Own(r)' /\ Refusal(r)' /\ Shape(r)'
    <3>1. ValidArgs' <=> ValidArgs
      BY <2>1 DEF ValidArgs
    <3> SUFFICES ASSUME NEW r \in Rank PROVE Own(r)' /\ Refusal(r)' /\ Shape(r)'
      OBVIOUS
    <3>2. Own(r) /\ Refusal(r) /\ Shape(r)
      BY DEF IInv, Control
    <3>3. Own(r)'
      BY <2>1, <2>3, <3>1, <3>2, SenderAssumption DEF Own
    <3>4. Refusal(r)' /\ Shape(r)'
      BY <2>1, <2>3, <3>2 DEF Refusal, Shape
    <3> QED BY <3>3, <3>4
  <2> QED BY <2>1, <2>2, <2>4, <2>5 DEF IInv, Control
<1>2. ASSUME NEW r \in Rank, RankStep(r) \/ Launcher(r) PROVE IInv'
  <2>1. /\ TypeOK /\ job \in Jobs /\ job' = job /\ Sender \in Rank
        /\ \A q \in Rank : Own(q) /\ Refusal(q) /\ Shape(q)
    BY <1>2, FixedJob, SenderAssumption DEF IInv, Control
  <2>2. TypeOK'
    BY <1>2, TypeStep
  <2>3. Pos(Sender)' >= Pos(Sender)
    <3>1. calls' = calls \/ Enter(r, "bcast") \/ Enter(r, "gather") \/ Enter(r, "barrier")
      BY <1>2 DEF RankStep, Launcher, WrongUsage, BadArgs, Start, PassFirstBarrier, NextBlockSize,
         Exit, BeginShmem, BeginOneCopy, PassPrologue, NoDriver, StartRound, Pack, PassRts, Copy,
         Fault, Refuse, AssertFails, PassFin, OverrunAborts, EndLoop, EndPhase, PassMainBarrier,
         Kill
    <3>2. Pos(Sender) \in Nat /\ calls \in [Rank -> Seq(Collective)]
      BY <2>1, RankFacts DEF TypeOK
    <3>3. "bcast" \in Collective /\ "gather" \in Collective /\ "barrier" \in Collective
      BY DEF Collective
    <3>4. Pos(Sender)' = Pos(Sender) \/ Pos(Sender)' = Pos(Sender) + 1
      <4>1. CASE calls' = calls
        BY <4>1 DEF Pos
      <4>2. CASE Enter(r, "bcast") \/ Enter(r, "gather") \/ Enter(r, "barrier")
        BY <2>1, <3>2, <3>3, <4>2, EnterPos
      <4> QED BY <3>1, <4>1, <4>2
    <3> DEFINE k == Pos(Sender)
               n == Pos(Sender)'
    <3>5. k \in Nat /\ (n = k \/ n = k + 1)
      BY <3>2, <3>4
    <3> HIDE DEF k, n
    <3>6. n >= k
      BY <3>5, SMT
    <3> QED BY <3>6 DEF k, n
  <2>4. ASSUME NEW q \in Rank PROVE Own(q)' /\ Refusal(q)'
    <3>1. CASE q = r
      BY <1>2, <3>1, OwnStep
    <3>2. CASE q # r
      <4>1. /\ pc'[q] = pc[q] /\ calls'[q] = calls[q] /\ iter'[q] = iter[q]
            /\ step'[q] = step[q] /\ blocksize'[q] = blocksize[q] /\ chunk'[q] = chunk[q]
            /\ liov'[q] = liov[q] /\ Pos(q)' = Pos(q)
            /\ q \in refused' <=> q \in refused
        BY <1>2, <2>1, <3>2, OthersKeep
      <4>2. /\ Here(q)' = Here(q) /\ After(q)' = After(q)
            /\ SharedMemory(q)' <=> SharedMemory(q)
            /\ ValidArgs' <=> ValidArgs
        BY <2>1, <4>1 DEF Here, After, SharedMemory, Phase, ValidArgs
      <4>3. pc[q] = "copy" => Pos(Sender)' >= Pos(q)
        <5>1. pc[q] = "copy" => Pos(Sender) >= Pos(q)
          BY <2>1 DEF Own
        <5>2. Pos(Sender) \in Nat /\ Pos(q) \in Nat /\ Pos(Sender)' \in Nat
          <6>1. \A x \in Rank : Pos(x) \in Nat
            BY <2>1, PosNat DEF TypeOK
          <6>2. calls' \in [Rank -> Seq(Collective)]
            BY <2>2 DEF TypeOK
          <6>3. calls'[Sender] \in Seq(Collective)
            BY <2>1, <6>2
          <6>4. Len(calls'[Sender]) \in Nat
            BY <6>3
          <6> QED BY <2>1, <6>1, <6>4 DEF Pos
        <5> DEFINE k == Pos(Sender)
                   n == Pos(Sender)'
                   m == Pos(q)
        <5>3. /\ pc[q] = "copy" => k >= m
              /\ n >= k /\ k \in Nat /\ n \in Nat /\ m \in Nat
          BY <2>3, <5>1, <5>2
        <5> HIDE DEF k, n, m
        <5>4. pc[q] = "copy" => n >= m
          BY <5>3, SMT
        <5> QED BY <5>4 DEF n, m
      <4>4. Own(q)'
        BY <2>1, <4>1, <4>2, <4>3 DEF Own
      <4>5. Refusal(q)'
        BY <2>1, <4>1, <4>2 DEF Refusal
      <4> QED BY <4>4, <4>5
    <3> QED BY <3>1, <3>2
  <2>5. \A q \in Rank : Called(q)'
    <3>1. (AllOwn => AllCalled)'
      BY CalledHere, PTL
    <3> QED BY <2>1, <2>2, <2>4, <3>1 DEF AllOwn, AllCalled
  <2>6. ASSUME NEW q \in Rank PROVE Shape(q)'
    <3>1. CASE q = r
      BY <1>2, <2>5, <3>1, ShapeStep
    <3>2. CASE q # r
      <4>1. /\ calls'[q] = calls[q] /\ Pos(q)' = Pos(q)
            /\ q \in refused' <=> q \in refused
        BY <1>2, <2>1, <3>2, OthersKeep
      <4> QED BY <2>1, <4>1 DEF Shape
    <3> QED BY <3>1, <3>2
  <2>7. Ahead'
    BY <1>2, <2>1, <2>2, <2>4, <2>5, AheadStep
  <2> QED BY <2>1, <2>2, <2>4, <2>6, <2>7 DEF IInv, Control
<1> QED BY <1>1, <1>2 DEF Next, Terminating

(* Whatever the arguments, the machine, the faults and the refusals, the   *)
(* ranks keep to the stream of the job.                                    *)
THEOREM Inductive == Spec => []IInv
<1>1. Init => IInv
  BY InitIInv
<1>2. IInv /\ [Next]_vars => IInv'
  BY NextIInv
<1> QED BY <1>1, <1>2, PTL DEF Spec

(* Every variable keeps its type, and inside main's loop the block size is *)
(* one the buffer holds.                                                   *)
THEOREM TypeCorrect == Spec => []TypeOK
<1>1. IInv => TypeOK
  BY DEF IInv
<1> QED BY <1>1, Inductive, PTL

(* While a receiver copies, the sender is in the same round of the same    *)
(* benchmark, or dead: also after an attachment was refused.               *)
THEOREM ReadersHoldSenderHolds == Spec => []ReadersHoldSender
<1>1. IInv => ReadersHoldSender
  BY HoldSender
<1> QED BY <1>1, Inductive, PTL

(* The benchmarks that copy into the own buffer through liov find their own*)
(* list there, although XPMEM overwrites it.                               *)
THEOREM OwnListsHolds == Spec => []OwnLists
<1>1. IInv => OwnLists
  <2> SUFFICES ASSUME IInv, NEW r \in Rank, pc[r] \in {"pack", "copy"}, ~Xpmem(r)
               PROVE  liov[r] = "own"
    BY DEF OwnLists
  <2>1. TypeOK /\ job \in Jobs /\ Own(r)
    BY DEF IInv, Control
  <2>2. Number(step[r]) < 3
    <3>1. (Xpmem(r) <=> Number(step[r]) >= 3) /\ Number(step[r]) \in 0 .. 4
      BY <2>1, PhaseFacts
    <3> QED BY <3>1, SMT
  <2> QED BY <2>1, <2>2 DEF Own, Outside, Stopped, Failed
<1> QED BY <1>1, Inductive, PTL

(* Unless an attachment was refused, all ranks make the same collectives in*)
(* the same order, across the five benchmarks and all block sizes.         *)
THEOREM CallsAgreeIfAttachedHolds == Spec => []CallsAgreeIfAttached
<1>1. IInv => CallsAgreeIfAttached
  <2> SUFFICES ASSUME IInv, refused = {}, NEW q \in Rank, NEW r \in Rank,
                      NEW k \in 1 .. Len(calls[r]), k <= Len(calls[q])
               PROVE  calls[q][k] = calls[r][k]
    BY DEF CallsAgreeIfAttached, CallsAgree
  <2>1. k \in 1 .. Pos(r) /\ k \in 1 .. Pos(q)
    <3>1. Pos(q) \in Nat /\ Pos(r) \in Nat
      BY PosNat DEF IInv, TypeOK
    <3> QED BY <3>1, SMT DEF Pos
  <2>2. Shape(r) /\ Shape(q)
    BY DEF IInv, Control
  <2> QED BY <2>1, <2>2 DEF Shape
<1> QED BY <1>1, Inductive, PTL

-----------------------------------------------------------------------------
(* What the buffers hold.  A step of a rank is one of few kinds, as far as *)
(* its place in the stream and the data are concerned.                     *)
Cleared(r) == lbuf' = lbuf \/ ClearBuffer(r)
Idle(r) == UNCHANGED <<calls, iter, step, bufs, refused, wild>>
Preparing(r) ==                 \* a call before the loop, or instead of it
    /\ UNCHANGED <<iter, step, shm, refused, wild>>
    /\ Enter(r, "bcast") \/ Enter(r, "barrier")
    /\ \/ Pos(r) = 0 /\ step[r] = 0 /\ UNCHANGED lbuf
       \/ Pos(r) = Base(job, step[r]) /\ Loop(job, step[r], 0) = Pos(r) + 1 /\ Cleared(r)
       \/ Pos(r) = Base(job, step[r]) /\ ~Driven(job, step[r]) /\ UNCHANGED lbuf
Beginning(r) ==                 \* iter = 0
    /\ UNCHANGED <<calls, step, shm, refused, wild>>
    /\ iter' = [iter EXCEPT ![r] = 0]
    /\ Driven(job, step[r]) /\ Pos(r) = Loop(job, step[r], 0) /\ Cleared(r)
Announcing(r) ==
    /\ UNCHANGED <<iter, step, bufs, refused, wild>>
    /\ Enter(r, "bcast") /\ Driven(job, step[r]) /\ iter[r] < Iters /\ Pos(r) = Here(r)
    /\ r = Sender => ~SharedMemory(r)
    /\ pc[r] \notin Outside
Packing(r) ==
    /\ UNCHANGED <<iter, step, lbuf, refused>>
    /\ Enter(r, "bcast") /\ Driven(job, step[r]) /\ iter[r] < Iters
    /\ r = Sender /\ SharedMemory(r) /\ Pos(r) + 1 = Here(r) + chunk[r]
    /\ chunk[r] <= ChunksOf(job, step[r]) /\ pc[r] \notin Outside
    /\ \/ wild' = step[r] + 1 /\ shm' = shm
       \/ wild' = wild /\ shm' = [p \in Piece |-> IF p \in Pieces(r) THEN Stamp(r) ELSE shm[p]]
Gathering(r) ==
    /\ UNCHANGED <<iter, step, bufs, refused, wild>>
    /\ Enter(r, "gather") /\ Driven(job, step[r]) /\ iter[r] < Iters
    /\ r = Sender /\ Pos(r) = Here(r) + ChunksOf(job, step[r])
Copying(r) ==
    /\ UNCHANGED <<iter, step, shm, refused>>
    /\ pc[r] = "copy" /\ chunk[r] <= ChunksOf(job, step[r])
    /\ IF chunk[r] < ChunksOf(job, step[r]) THEN Enter(r, "bcast") ELSE Enter(r, "gather")
    /\ \E new : /\ lbuf' = [lbuf EXCEPT ![r] = [p \in Piece |->
                               IF p \notin Pieces(r) THEN lbuf[r][p] ELSE new[p]]]
                /\ \/ wild' = step[r] + 1
                   \/ wild' = wild /\ \A p \in Piece :
                         new[p] = IF SharedMemory(r) THEN shm[p] ELSE Stamp(Sender)
Refusing(r) ==
    /\ UNCHANGED <<iter, step, bufs, wild>>
    /\ pc[r] = "copy" /\ Xpmem(r) /\ refused' = refused \cup {r} /\ Enter(r, "barrier")
Returning(r) ==                 \* the Gather returns
    /\ UNCHANGED <<calls, step, bufs, refused, wild>>
    /\ iter' = [iter EXCEPT ![r] = iter[r] + 1]
    /\ Driven(job, step[r]) /\ iter[r] < Iters /\ Pos(r) = After(r)
    /\ GatherReturns(r)
Leaving(r) ==                   \* the two barriers after the loop
    /\ UNCHANGED <<iter, step, bufs, refused, wild>>
    /\ Enter(r, "barrier") /\ Driven(job, step[r]) /\ iter[r] = Iters
    /\ Pos(r) \in {Here(r), Here(r) + 1}
Advancing(r) ==
    /\ UNCHANGED <<calls, iter, bufs, refused, wild>>
    /\ step' = [step EXCEPT ![r] = step[r] + 1]
    /\ r \notin refused /\ Pos(r) = Base(job, step[r] + 1)
    /\ Driven(job, step[r]) => iter[r] = Iters
    /\ Everybody(Pos(r))

(* These are all.                                                          *)
LEMMA Kinds ==
    ASSUME IInv, NEW r \in Rank, RankStep(r) \/ Launcher(r)
    PROVE  \/ Idle(r) \/ Preparing(r) \/ Beginning(r) \/ Announcing(r) \/ Packing(r)
           \/ Gathering(r) \/ Copying(r) \/ Refusing(r) \/ Returning(r) \/ Leaving(r)
           \/ Advancing(r)
<1>1. /\ TypeOK /\ job \in Jobs /\ Own(r) /\ Sender \in Rank
  BY SenderAssumption DEF IInv, Control
<1>2. /\ Pos(r) \in Nat /\ step[r] \in Nat /\ iter[r] \in Nat /\ iter[r] <= Iters
      /\ chunk[r] \in Nat /\ Iters \in Nat
  BY <1>1, RankFacts
<1>3. /\ SharedMemory(r) <=> Number(step[r]) < 2
      /\ Xpmem(r) <=> Number(step[r]) >= 3
      /\ Chunks(r) = ChunksOf(job, step[r])
      /\ Number(step[r]) \in 0 .. 4
  BY <1>1, PhaseFacts
<1>4. /\ Base(job, step[r]) \in Nat
      /\ Loop(job, step[r], 0) = Base(job, step[r]) + Prologue(job, step[r])
      /\ ChunksOf(job, step[r]) \in Nat \ {0}
      /\ Number(step[r]) < 2 => Driven(job, step[r]) /\ Prologue(job, step[r]) = 0
      /\ Number(step[r]) >= 2 /\ Driven(job, step[r]) => Prologue(job, step[r]) = 1
      /\ Number(step[r]) < 3 => Driven(job, step[r])
      /\ job.xpmem => Driven(job, step[r])
      /\ ~job.xpmem /\ Number(step[r]) >= 3 => ~Driven(job, step[r])
  BY <1>1, Places
<1>5. CASE \/ WrongUsage(r) \/ PassFirstBarrier(r) \/ NextBlockSize(r) \/ Exit(r) \/ Dies(r)
  BY <1>1, <1>5, DyingKeeps DEF WrongUsage, PassFirstBarrier, NextBlockSize, Exit, Idle
<1>6. CASE Start(r)
  BY <1>1, <1>6 DEF Start, Own, Preparing, bufs
<1>7. CASE BeginShmem(r)
  <2>1. Driven(job, step[r]) /\ Loop(job, step[r], 0) = Base(job, step[r])
    BY <1>3, <1>4, <1>7, SMT DEF BeginShmem
  <2> QED BY <1>1, <1>7, <2>1 DEF BeginShmem, Own, Beginning, Cleared
<1>8. CASE BeginOneCopy(r)
  <2>1. Number(step[r]) >= 2 /\ (Number(step[r]) >= 3 => job.xpmem)
    BY <1>3, <1>8, SMT DEF BeginOneCopy
  <2>2. Driven(job, step[r])
    BY <1>3, <1>4, <2>1, SMT
  <2>3. pc[r] = "begin" /\ Pos(r) = Base(job, step[r])
    BY <1>1, <1>8 DEF BeginOneCopy, Own
  <2>4. Loop(job, step[r], 0) = Pos(r) + 1
    BY <1>4, <2>1, <2>2, <2>3, SMT
  <2> QED BY <1>8, <2>3, <2>4 DEF BeginOneCopy, Preparing, Cleared
<1>9. CASE PassPrologue(r)
  <2>1. /\ Driven(job, step[r]) /\ Number(step[r]) >= 2 /\ Pos(r) = Base(job, step[r]) + 1
    BY <1>1, <1>9 DEF PassPrologue, Own
  <2>2. Pos(r) = Loop(job, step[r], 0)
    BY <1>4, <2>1, SMT
  <2> QED BY <1>9, <2>1, <2>2 DEF PassPrologue, Beginning, Cleared
<1>10. CASE NoDriver(r)
  BY <1>1, <1>3, <1>4, <1>10 DEF NoDriver, Own, Preparing, bufs
<1>11. CASE StartRound(r)
  <2>1. Driven(job, step[r]) /\ Pos(r) = Here(r) /\ iter[r] < Iters /\ pc[r] = "loop"
    BY <1>1, <1>11 DEF StartRound, Own, BeginRound, MoreRounds
  <2>2. pc[r] \notin Outside
    BY <2>1 DEF Outside, Stopped, Failed
  <2> QED BY <1>11, <2>1, <2>2 DEF StartRound, Idle, Announcing
<1>12. CASE Pack(r)
  BY <1>1, <1>12 DEF Pack, Own, Packing, Outside, Stopped, Failed
<1>13. CASE PassRts(r)
  <2>1. /\ pc[r] = "rts" /\ Driven(job, step[r]) /\ iter[r] < Iters
        /\ chunk[r] <= ChunksOf(job, step[r]) /\ Pos(r) = Here(r) + chunk[r]
    BY <1>1, <1>13 DEF PassRts, Own
  <2>2. CASE calls' = calls
    BY <1>13, <2>2 DEF PassRts, Idle
  <2>3. CASE calls' # calls
    <3>1. r = Sender /\ ~(chunk[r] < Chunks(r)) /\ Enter(r, "gather")
      BY <1>13, <2>3 DEF PassRts
    <3>2. chunk[r] = ChunksOf(job, step[r])
      BY <1>2, <1>3, <1>4, <2>1, <3>1, SMT
    <3> QED BY <1>13, <2>1, <3>1, <3>2 DEF PassRts, Gathering
  <2> QED BY <2>2, <2>3
<1>14. CASE Copy(r)
  <2>1. /\ pc[r] = "copy" /\ chunk[r] <= ChunksOf(job, step[r])
    BY <1>1, <1>14 DEF Copy, Own
  <2>2. UNCHANGED <<iter, step, shm, refused>>
    BY <1>14 DEF Copy
  <2>3. IF chunk[r] < ChunksOf(job, step[r]) THEN Enter(r, "bcast") ELSE Enter(r, "gather")
    BY <1>3, <1>14 DEF Copy
  <2>4. PICK right \in IF Xpmem(r) /\ Astray(r) THEN SUBSET Piece ELSE {Piece} :
            lbuf' = [lbuf EXCEPT ![r] = [p \in Piece |->
               IF p \notin Pieces(r) THEN lbuf[r][p]
               ELSE IF ~SharedMemory(r) THEN IF p \in right THEN Stamp(Sender) ELSE Junk
               ELSE IF shmem_ptr[r] = "mapped" THEN shm[p] ELSE Junk]]
    BY <1>14 DEF Copy
  <2> DEFINE new == [p \in Piece |->
               IF ~SharedMemory(r) THEN IF p \in right THEN Stamp(Sender) ELSE Junk
               ELSE IF shmem_ptr[r] = "mapped" THEN shm[p] ELSE Junk]
  <2>5. lbuf' = [lbuf EXCEPT ![r] = [p \in Piece |->
                    IF p \notin Pieces(r) THEN lbuf[r][p] ELSE new[p]]]
    BY <2>4, Zenon
  <2>6. CASE Astray(r)
    BY <1>14, <2>1, <2>2, <2>3, <2>5, <2>6 DEF Copy, Copying
  <2>7. CASE ~Astray(r)
    <3>1. right = Piece /\ wild' = wild
      BY <1>14, <2>7 DEF Copy
    <3>2. SharedMemory(r) => shmem_ptr[r] = "mapped"
      BY <2>7 DEF Astray
    <3>3. \A p \in Piece : new[p] = IF SharedMemory(r) THEN shm[p] ELSE Stamp(Sender)
      BY <3>1, <3>2
    <3> HIDE DEF new
    <3> QED BY <2>1, <2>2, <2>3, <2>5, <3>1, <3>3 DEF Copying
  <2> QED BY <2>6, <2>7
<1>15. CASE Refuse(r)
  BY <1>15 DEF Refuse, Refusing, Attaches
<1>16. CASE PassFin(r)
  <2>1. Driven(job, step[r]) /\ iter[r] < Iters /\ Pos(r) = After(r)
    BY <1>1, <1>16 DEF PassFin, Own
  <2> QED BY <1>16, <2>1 DEF PassFin, FinReturns, Returning
<1>17. CASE EndLoop(r)
  <2>1. Driven(job, step[r]) /\ Pos(r) = Here(r) /\ ~(iter[r] < Iters)
    BY <1>1, <1>17 DEF EndLoop, Own, LeaveLoop, MoreRounds
  <2>2. iter[r] = Iters
    BY <1>2, <2>1, SMT
  <2> QED BY <1>17, <2>1, <2>2 DEF EndLoop, Leaving
<1>18. CASE EndPhase(r)
  <2>1. Driven(job, step[r]) /\ Pos(r) = Here(r) + 1 /\ iter[r] = Iters
    BY <1>1, <1>18 DEF EndPhase, Own
  <2> QED BY <1>18, <2>1 DEF EndPhase, Leaving
<1>19. CASE PassMainBarrier(r)
  <2>1. pc[r] = "main_barrier" /\ BarrierReturns(r)
    BY <1>19 DEF PassMainBarrier
  <2>2. r \notin refused /\ Everybody(Pos(r))
    BY <1>1, <2>1, RefusedBlocked, ReturnsPos DEF Everybody
  <2>3. Pos(r) = Base(job, step[r] + 1) /\ (Driven(job, step[r]) => iter[r] = Iters)
    BY <1>1, <2>1, <2>2 DEF Own
  <2> QED BY <1>19, <2>2, <2>3 DEF PassMainBarrier, Advancing
<1> QED BY <1>5, <1>6, <1>7, <1>8, <1>9, <1>10, <1>11, <1>12, <1>13, <1>14, <1>15, <1>16, <1>17,
           <1>18, <1>19 DEF RankStep, Dies

(* A rank that was refused an attachment does nothing any more.            *)
LEMMA RefusedIdle ==
    ASSUME IInv, NEW r \in Rank, RankStep(r) \/ Launcher(r), r \in refused
    PROVE  Idle(r)
<1>1. TypeOK /\ pc[r] \in {"main_barrier"} \cup Stopped /\ ~BarrierReturns(r)
  BY RefusedBlocked DEF IInv, Control, Refusal
<1>2. Launcher(r)
  BY <1>1 DEF RankStep, Stopped, Failed, WrongUsage, BadArgs, Start, PassFirstBarrier,
     NextBlockSize, Exit, BeginShmem, BeginOneCopy, PassPrologue, NoDriver, StartRound, Pack,
     PassRts, Copy, Fault, Refuse, AssertFails, PassFin, OverrunAborts, EndLoop, EndPhase,
     PassMainBarrier
<1> QED BY <1>1, <1>2, DyingKeeps DEF Dies, Idle

Entering(r) ==
    \/ Preparing(r) \/ Announcing(r) \/ Packing(r) \/ Gathering(r) \/ Copying(r) \/ Refusing(r)
    \/ Leaving(r)

(* What each kind does to the place of the rank.                           *)
LEMMA Moves ==
    ASSUME IInv, NEW r \in Rank
    PROVE  /\ Idle(r) => step' = step /\ iter' = iter /\ Pos(r)' = Pos(r)
           /\ Entering(r) => step' = step /\ iter' = iter /\ Pos(r)' = Pos(r) + 1
           /\ Beginning(r) => step' = step /\ iter'[r] = 0 /\ Pos(r)' = Pos(r)
           /\ Returning(r) => step' = step /\ iter'[r] = iter[r] + 1 /\ Pos(r)' = Pos(r)
           /\ Advancing(r) => step'[r] = step[r] + 1 /\ iter' = iter /\ Pos(r)' = Pos(r)
<1>1. calls \in [Rank -> Seq(Collective)] /\ iter \in [Rank -> 0 .. Iters]
      /\ step \in [Rank -> Nat]
  BY DEF IInv, TypeOK
<1>2. calls' = calls => Pos(r)' = Pos(r)
  BY DEF Pos
<1>3. /\ Enter(r, "bcast") => Pos(r)' = Pos(r) + 1
      /\ Enter(r, "gather") => Pos(r)' = Pos(r) + 1
      /\ Enter(r, "barrier") => Pos(r)' = Pos(r) + 1
  <2>1. "bcast" \in Collective /\ "gather" \in Collective /\ "barrier" \in Collective
    BY DEF Collective
  <2> QED BY <1>1, <2>1, EnterPos
<1>4. Idle(r) => step' = step /\ iter' = iter /\ Pos(r)' = Pos(r)
  BY <1>2 DEF Idle
<1>5. Entering(r) => step' = step /\ iter' = iter /\ Pos(r)' = Pos(r) + 1
  BY <1>3 DEF Entering, Preparing, Announcing, Packing, Gathering, Copying, Refusing, Leaving
<1>6. Beginning(r) => step' = step /\ iter'[r] = 0 /\ Pos(r)' = Pos(r)
  BY <1>1, <1>2 DEF Beginning
<1>7. Returning(r) => step' = step /\ iter'[r] = iter[r] + 1 /\ Pos(r)' = Pos(r)
  BY <1>1, <1>2 DEF Returning
<1>8. Advancing(r) => step'[r] = step[r] + 1 /\ iter' = iter /\ Pos(r)' = Pos(r)
  BY <1>1, <1>2 DEF Advancing
<1> QED BY <1>4, <1>5, <1>6, <1>7, <1>8

(* The places of benchmark s around its round i.                           *)
Ordered(j, s, i) ==
    /\ Iters \in Nat \ {0} /\ ChunksOf(j, s) \in Nat \ {0}
    /\ Base(j, s) \in Nat /\ Base(j, s) >= 1 /\ Base(j, s + 1) \in Nat
    /\ Loop(j, s, 0) \in Nat /\ Base(j, s) <= Loop(j, s, 0)
    /\ Loop(j, s, i) \in Nat /\ Loop(j, s, i + 1) \in Nat /\ Loop(j, s, Iters) \in Nat
    /\ i = 0 => Loop(j, s, i) = Loop(j, s, 0)
    /\ i > 0 => Loop(j, s, i) > Loop(j, s, 0) + 1
    /\ Loop(j, s, i) >= Loop(j, s, 0)
    /\ Loop(j, s, i + 1) = Loop(j, s, i) + ChunksOf(j, s) + 1
    /\ i < Iters => Loop(j, s, i + 1) <= Loop(j, s, Iters)
    /\ Loop(j, s, i) <= Loop(j, s, Iters)
    /\ Base(j, s) < Base(j, s + 1) /\ Loop(j, s, 0) <= Base(j, s + 1)
    /\ Driven(j, s) => Base(j, s + 1) = Loop(j, s, Iters) + 2
    /\ ~Driven(j, s) => Base(j, s + 1) = Base(j, s) + 1 /\ Loop(j, s, 0) = Base(j, s)
    /\ s = 0 => Base(j, s) = 1

(* They are in this order.                                                 *)
LEMMA Around ==
    ASSUME NEW j \in Jobs, NEW s \in Nat, NEW i \in Nat, i <= Iters
    PROVE  Ordered(j, s, i)
<1>1. /\ Iters \in Nat \ {0} /\ ChunksOf(j, s) \in Nat \ {0} /\ Prologue(j, s) \in 0 .. 1
      /\ ~Driven(j, s) => Prologue(j, s) = 0
  BY BenchmarkFacts
<1>2. /\ Base(j, s) \in Nat /\ Base(j, s) >= 1 /\ Base(j, s + 1) \in Nat
      /\ Base(j, s) < Base(j, s + 1)
      /\ Loop(j, s, 0) = Base(j, s) + Prologue(j, s)
      /\ Loop(j, s, 0) <= Base(j, s + 1)
      /\ \A n \in Nat : /\ Loop(j, s, n) \in Nat /\ Loop(j, s, 0) <= Loop(j, s, n)
                        /\ Loop(j, s, n + 1) = Loop(j, s, n) + ChunksOf(j, s) + 1
      /\ \A n, k \in Nat : n < k => Loop(j, s, n + 1) <= Loop(j, s, k)
      /\ Driven(j, s) => Base(j, s + 1) = Loop(j, s, Iters) + 2
      /\ ~Driven(j, s) => Base(j, s + 1) = Base(j, s) + 1
  BY LoopFacts
<1>3. 0 \in Nat /\ i + 1 \in Nat /\ 0 + 1 = 1 /\ 1 \in Nat
  BY SMT
<1>4. /\ Loop(j, s, 0) \in Nat /\ Loop(j, s, i) \in Nat /\ Loop(j, s, i + 1) \in Nat
      /\ Loop(j, s, Iters) \in Nat /\ Loop(j, s, 1) \in Nat
      /\ Loop(j, s, 1) = Loop(j, s, 0) + ChunksOf(j, s) + 1
      /\ Loop(j, s, i + 1) = Loop(j, s, i) + ChunksOf(j, s) + 1
      /\ Loop(j, s, i) >= Loop(j, s, 0)
      /\ 0 < i => Loop(j, s, 1) <= Loop(j, s, i)
      /\ i < Iters => Loop(j, s, i + 1) <= Loop(j, s, Iters)
  <2>1. Loop(j, s, 0 + 1) = Loop(j, s, 0) + ChunksOf(j, s) + 1
        /\ (0 < i => Loop(j, s, 0 + 1) <= Loop(j, s, i))
    BY <1>2, <1>3
  <2>2. Loop(j, s, i) >= Loop(j, s, 0)
    BY <1>2, <1>3, SMT
  <2> QED BY <1>1, <1>2, <1>3, <2>1, <2>2
<1>5. i > 0 => Loop(j, s, i) > Loop(j, s, 0) + 1
  BY <1>1, <1>4, SMT
<1>6. Loop(j, s, i) <= Loop(j, s, Iters)
  <2>1. i < Iters \/ i = Iters
    BY <1>1, SMT
  <2> QED BY <1>1, <1>4, <2>1, SMT
<1>7. Base(j, s) <= Loop(j, s, 0) /\ (~Driven(j, s) => Loop(j, s, 0) = Base(j, s))
  BY <1>1, <1>2, SMT
<1>8. s = 0 => Base(j, s) = 1
  BY BaseFacts
<1> QED BY <1>1, <1>2, <1>4, <1>5, <1>6, <1>7, <1>8 DEF Ordered

(* Where a rank not refused is that has k calls, in round i of benchmark s,*)
(* when the sender has m: within the benchmark, once in its loop within the*)
(* round, and at most one call ahead of the sender.                        *)
Inside(j, s, k) == Driven(j, s) /\ k > Loop(j, s, 0)
NearTo(j, s, i, k, m) ==
    /\ k <= Base(j, s + 1)
    /\ s > 0 => m >= Base(j, s) /\ k >= Base(j, s)
    /\ Inside(j, s, k) =>
          /\ Loop(j, s, i) <= k
          /\ i < Iters => k <= Loop(j, s, i + 1)
          /\ i > 0 => m + 1 >= Loop(j, s, i)
          /\ i < Iters /\ k > Loop(j, s, i) + 1 => m + 1 >= k
Near(r) == NearTo(job, step[r], iter[r], Pos(r), Pos(Sender))

(* Calls before the loop, or instead of it.                                *)
LEMMA NearPreparing ==
    ASSUME NEW j \in Jobs, NEW s \in Nat, NEW i \in Nat, i <= Iters, NEW k \in Nat, NEW m \in Nat,
           NearTo(j, s, i, k, m), NEW n \in Nat, n >= m,
           \/ k = 0 /\ s = 0
           \/ k = Base(j, s) /\ Loop(j, s, 0) = k + 1
           \/ k = Base(j, s) /\ ~Driven(j, s)
    PROVE  NearTo(j, s, i, k + 1, n)
<1>1. Ordered(j, s, i)
  BY Around
<1> QED BY <1>1, SMT DEF Ordered, NearTo, Inside

(* The loop begins.                                                        *)
LEMMA NearBeginning ==
    ASSUME NEW j \in Jobs, NEW s \in Nat, NEW i \in Nat, i <= Iters, NEW k \in Nat, NEW m \in Nat,
           NearTo(j, s, i, k, m), NEW n \in Nat, n >= m,
           k = Loop(j, s, 0)
    PROVE  NearTo(j, s, 0, k, n)
<1>1. Ordered(j, s, i)
  BY Around
<1> QED BY <1>1, SMT DEF Ordered, NearTo, Inside

(* A call within a round.                                                  *)
LEMMA NearCalling ==
    ASSUME NEW j \in Jobs, NEW s \in Nat, NEW i \in Nat, i < Iters, NEW k \in Nat, NEW m \in Nat,
           NearTo(j, s, i, k, m), NEW n \in Nat, n >= m, Driven(j, s),
           Loop(j, s, i) <= k, k < Loop(j, s, i + 1), k = Loop(j, s, i) \/ n >= k
    PROVE  NearTo(j, s, i, k + 1, n)
<1>1. i <= Iters
  BY LoopAssumption, SMT DEF Iters
<1>2. Ordered(j, s, i)
  BY <1>1, Around
<1> QED BY <1>1, <1>2, SMT DEF Ordered, NearTo, Inside

(* The end of a round.                                                     *)
LEMMA NearReturning ==
    ASSUME NEW j \in Jobs, NEW s \in Nat, NEW i \in Nat, i < Iters, NEW k \in Nat, NEW m \in Nat,
           NearTo(j, s, i, k, m), NEW n \in Nat, n >= m, Driven(j, s),
           k = Loop(j, s, i + 1)
    PROVE  NearTo(j, s, i + 1, k, n)
<1>1. i <= Iters /\ i + 1 \in Nat /\ i + 1 <= Iters /\ Iters \in Nat
  BY LoopAssumption, SMT DEF Iters
<1>2. i + 1 < Iters => k <= Loop(j, s, (i + 1) + 1)
  <2>1. Ordered(j, s, i + 1)
    BY <1>1, Around
  <2> QED BY <2>1, SMT DEF Ordered
<1>3. /\ ChunksOf(j, s) \in Nat \ {0}
      /\ Loop(j, s, i + 1) = Loop(j, s, i) + ChunksOf(j, s) + 1
      /\ Loop(j, s, i) \in Nat /\ Loop(j, s, 0) \in Nat /\ Loop(j, s, i) >= Loop(j, s, 0)
  BY <1>1, Around DEF Ordered
<1>4. k > Loop(j, s, i) + 1 /\ k > Loop(j, s, 0)
  BY <1>3, SMT
<1>5. n + 1 >= k
  BY <1>4, SMT DEF NearTo, Inside
<1>6. k <= Base(j, s + 1) /\ (s > 0 => n >= Base(j, s) /\ k >= Base(j, s))
  <2>1. Base(j, s) \in Nat
    BY <1>1, Around DEF Ordered
  <2> QED BY <2>1, SMT DEF NearTo
<1> DEFINE t == i + 1
<1>7. t \in Nat /\ k = Loop(j, s, t) /\ (t < Iters => k <= Loop(j, s, t + 1))
  BY <1>1, <1>2
<1> HIDE DEF t
<1>8. NearTo(j, s, t, k, n)
  BY <1>5, <1>6, <1>7, SMT DEF NearTo, Inside
<1> QED BY <1>8 DEF t

(* The two barriers after the loop.                                        *)
LEMMA NearLeaving ==
    ASSUME NEW j \in Jobs, NEW s \in Nat, NEW k \in Nat, NEW m \in Nat,
           NearTo(j, s, Iters, k, m), NEW n \in Nat, n >= m, Driven(j, s),
           k = Loop(j, s, Iters) \/ k = Loop(j, s, Iters) + 1
    PROVE  NearTo(j, s, Iters, k + 1, n)
<1>1. Iters \in Nat
  BY LoopAssumption, SMT DEF Iters
<1>2. Ordered(j, s, Iters)
  BY <1>1, Around
<1> QED BY <1>1, <1>2, SMT DEF Ordered, NearTo, Inside

(* The next benchmark.                                                     *)
LEMMA NearAdvancing ==
    ASSUME NEW j \in Jobs, NEW s \in Nat, NEW i \in Nat, i <= Iters, NEW k \in Nat, NEW m \in Nat,
           NEW n \in Nat, n >= k, k = Base(j, s + 1)
    PROVE  NearTo(j, s + 1, i, k, n)
<1>1. s + 1 \in Nat
  BY SMT
<1>2. /\ Loop(j, s + 1, 0) \in Nat /\ Base(j, s + 1) <= Loop(j, s + 1, 0)
      /\ Base(j, s + 1) < Base(j, (s + 1) + 1) /\ Base(j, (s + 1) + 1) \in Nat
  BY <1>1, Around DEF Ordered
<1> QED BY <1>2, SMT DEF NearTo, Inside

(* Nothing of its own, while the sender may go on.                         *)
LEMMA NearIdle ==
    ASSUME NEW j \in Jobs, NEW s \in Nat, NEW i \in Nat, i <= Iters, NEW k \in Nat, NEW m \in Nat,
           NearTo(j, s, i, k, m), NEW n \in Nat, n >= m
    PROVE  NearTo(j, s, i, k, n)
<1>1. Ordered(j, s, i)
  BY Around
<1> QED BY <1>1, SMT DEF Ordered, NearTo, Inside

(* The counters of a rank that steps, before and after.                    *)
LEMMA Counters ==
    ASSUME IInv, NEW r \in Rank, RankStep(r) \/ Launcher(r)
    PROVE  /\ TypeOK /\ job \in Jobs /\ job' = job /\ Sender \in Rank /\ Own(r)
           /\ step[r] \in Nat /\ iter[r] \in Nat /\ iter[r] <= Iters /\ Pos(r) \in Nat
           /\ step[Sender] \in Nat /\ iter[Sender] \in Nat /\ iter[Sender] <= Iters
           /\ Pos(Sender) \in Nat /\ Iters \in Nat \ {0}
           /\ Pos(r)' \in Nat /\ Pos(r)' >= Pos(r)
           /\ Pos(Sender)' \in Nat /\ Pos(Sender)' >= Pos(Sender)
           /\ \A q \in Rank : q # r => Pos(q)' = Pos(q)
           /\ chunk[r] \in Nat \ {0}
<1>1. TypeOK /\ job \in Jobs /\ job' = job /\ Sender \in Rank /\ Own(r)
  BY SenderAssumption, FixedJob DEF IInv, Control
<1>2. /\ step[r] \in Nat /\ iter[r] \in Nat /\ iter[r] <= Iters /\ Pos(r) \in Nat
      /\ step[Sender] \in Nat /\ iter[Sender] \in Nat /\ iter[Sender] <= Iters
      /\ Pos(Sender) \in Nat /\ Iters \in Nat \ {0} /\ chunk[r] \in Nat \ {0}
  BY <1>1, RankFacts
<1>3. \A q \in Rank : q # r => Pos(q)' = Pos(q)
  BY <1>1, OthersKeep
<1>4. Pos(r)' = Pos(r) \/ Pos(r)' = Pos(r) + 1
  BY Kinds, Moves DEF Entering
<1>5. Pos(r)' \in Nat /\ Pos(r)' >= Pos(r)
  BY <1>2, <1>4, SMT
<1>6. Pos(Sender)' \in Nat /\ Pos(Sender)' >= Pos(Sender)
  BY <1>1, <1>2, <1>3, <1>5, SMT
<1> QED BY <1>1, <1>2, <1>3, <1>5, <1>6

NearAll == \A r \in Rank \ refused : Near(r)

(* A rank that steps stays near the sender.                                *)
LEMMA NearOwn ==
    ASSUME IInv, NEW r \in Rank, RankStep(r) \/ Launcher(r), Near(r), r \notin refused'
    PROVE  Near(r)'
<1> DEFINE s == step[r]
           i == iter[r]
           k == Pos(r)
           m == Pos(Sender)
           n == Pos(Sender)'
<1>1. /\ TypeOK /\ job \in Jobs /\ job' = job /\ Own(r)
      /\ s \in Nat /\ i \in Nat /\ i <= Iters /\ k \in Nat /\ m \in Nat /\ n \in Nat /\ n >= m
      /\ Iters \in Nat \ {0} /\ chunk[r] \in Nat \ {0}
  BY Counters
<1>2. NearTo(job, s, i, k, m)
  BY DEF Near
<1>3. Near(r)' <=> NearTo(job, step'[r], iter'[r], Pos(r)', n)
  BY <1>1 DEF Near
<1>4. /\ Here(r) = Loop(job, s, i) /\ After(r) = Loop(job, s, i + 1)
      /\ Ordered(job, s, i)
  BY <1>1, Around DEF Here, After
<1>5. r = Sender => m = k /\ n = Pos(r)'
  OBVIOUS
<1>6. CASE Idle(r)
  <2>1. step'[r] = s /\ iter'[r] = i /\ Pos(r)' = k
    BY <1>6, Moves
  <2> QED BY <1>1, <1>2, <1>3, <2>1, NearIdle
<1>7. CASE Preparing(r)
  <2>1. step'[r] = s /\ iter'[r] = i /\ Pos(r)' = k + 1
    BY <1>7, Moves DEF Entering
  <2>2. \/ k = 0 /\ s = 0
        \/ k = Base(job, s) /\ Loop(job, s, 0) = k + 1
        \/ k = Base(job, s) /\ ~Driven(job, s)
    BY <1>7 DEF Preparing
  <2> QED BY <1>1, <1>2, <1>3, <2>1, <2>2, NearPreparing
<1>8. CASE Beginning(r)
  <2>1. step'[r] = s /\ iter'[r] = 0 /\ Pos(r)' = k
    BY <1>8, Moves
  <2>2. k = Loop(job, s, 0)
    BY <1>8 DEF Beginning
  <2> QED BY <1>1, <1>2, <1>3, <2>1, <2>2, NearBeginning
<1>9. ASSUME step'[r] = s, iter'[r] = i, Pos(r)' = k + 1, i < Iters, Driven(job, s),
             Here(r) <= k, k < After(r), k = Here(r) \/ n >= k
      PROVE  Near(r)'
  <2>1. NearTo(job, s, i, k + 1, n)
    BY <1>1, <1>2, <1>4, <1>9, NearCalling
  <2> QED BY <1>3, <1>9, <2>1
<1>10. CASE Announcing(r)
  <2>1. step'[r] = s /\ iter'[r] = i /\ Pos(r)' = k + 1
    BY <1>10, Moves DEF Entering
  <2>2. i < Iters /\ Driven(job, s) /\ k = Here(r)
    BY <1>10 DEF Announcing
  <2>3. k < After(r)
    BY <1>1, <1>4, <2>2, SMT DEF Ordered
  <2> QED BY <1>1, <1>9, <2>1, <2>2, <2>3, SMT
<1>11. CASE Packing(r)
  <2>1. step'[r] = s /\ iter'[r] = i /\ Pos(r)' = k + 1
    BY <1>11, Moves DEF Entering
  <2>2. /\ i < Iters /\ Driven(job, s) /\ k + 1 = Here(r) + chunk[r] /\ r = Sender
        /\ chunk[r] <= ChunksOf(job, s)
    BY <1>11 DEF Packing
  <2>3. Here(r) <= k /\ k < After(r)
    BY <1>1, <1>4, <2>2, SMT DEF Ordered
  <2>4. n >= k
    BY <1>1, <2>2, SMT
  <2> QED BY <1>9, <2>1, <2>2, <2>3, <2>4
<1>12. CASE Gathering(r)
  <2>1. step'[r] = s /\ iter'[r] = i /\ Pos(r)' = k + 1
    BY <1>12, Moves DEF Entering
  <2>2. i < Iters /\ Driven(job, s) /\ k = Here(r) + ChunksOf(job, s) /\ r = Sender
    BY <1>12 DEF Gathering
  <2>3. Here(r) <= k /\ k < After(r)
    BY <1>1, <1>4, <2>2, SMT DEF Ordered
  <2>4. n >= k
    BY <1>1, <2>2, SMT
  <2> QED BY <1>9, <2>1, <2>2, <2>3, <2>4
<1>13. CASE Copying(r)
  <2>1. step'[r] = s /\ iter'[r] = i /\ Pos(r)' = k + 1
    BY <1>13, Moves DEF Entering
  <2>2. i < Iters /\ Driven(job, s) /\ Here(r) < k /\ k < After(r) /\ m >= k
    BY <1>13, CopierIsInside DEF Copying
  <2>3. Here(r) <= k /\ n >= k
    BY <1>1, <1>4, <2>2, SMT DEF Ordered
  <2> QED BY <1>9, <2>1, <2>2, <2>3
<1>14. ~Refusing(r)
  BY DEF Refusing
<1>15. CASE Returning(r)
  <2>1. step'[r] = s /\ iter'[r] = i + 1 /\ Pos(r)' = k
    BY <1>15, Moves
  <2>2. i < Iters /\ Driven(job, s) /\ k = Loop(job, s, i + 1)
    BY <1>4, <1>15 DEF Returning
  <2>3. NearTo(job, s, i + 1, k, n)
    BY <1>1, <1>2, <2>2, NearReturning
  <2> QED BY <1>3, <2>1, <2>3
<1>16. CASE Leaving(r)
  <2>1. step'[r] = s /\ iter'[r] = i /\ Pos(r)' = k + 1
    BY <1>16, Moves DEF Entering
  <2>2. i = Iters /\ Driven(job, s) /\ (k = Loop(job, s, Iters) \/ k = Loop(job, s, Iters) + 1)
    BY <1>4, <1>16 DEF Leaving
  <2>3. NearTo(job, s, Iters, k + 1, n)
    BY <1>1, <1>2, <2>2, NearLeaving
  <2> QED BY <1>3, <2>1, <2>2, <2>3
<1>17. CASE Advancing(r)
  <2>1. step'[r] = s + 1 /\ iter'[r] = i /\ Pos(r)' = k
    BY <1>17, Moves
  <2>2. k = Base(job, s + 1) /\ m >= k
    BY <1>17, SenderAssumption DEF Advancing, Everybody
  <2>3. n >= k
    BY <1>1, <2>2, SMT
  <2>4. NearTo(job, s + 1, i, k, n)
    BY <1>1, <2>2, <2>3, NearAdvancing
  <2> QED BY <1>3, <2>1, <2>4
<1> QED BY <1>6, <1>7, <1>8, <1>10, <1>11, <1>12, <1>13, <1>14, <1>15, <1>16, <1>17, Kinds

(* All ranks do.                                                           *)
LEMMA NearStep ==
    ASSUME IInv, NEW r \in Rank, RankStep(r) \/ Launcher(r), NearAll
    PROVE  NearAll'
<1> SUFFICES ASSUME NEW q \in Rank, q \notin refused' PROVE Near(q)'
  BY DEF NearAll
<1>1. CASE q = r
  <2>1. r \notin refused
    BY <1>1, Kinds DEF Idle, Preparing, Beginning, Announcing, Packing, Gathering, Copying,
       Refusing, Returning, Leaving, Advancing
  <2> QED BY <1>1, <2>1, NearOwn DEF NearAll
<1>2. CASE q # r
  <2>1. TypeOK /\ job \in Jobs /\ job' = job /\ Pos(Sender) \in Nat
        /\ Pos(Sender)' \in Nat /\ Pos(Sender)' >= Pos(Sender)
    BY Counters
  <2>2. /\ iter'[q] = iter[q] /\ step'[q] = step[q] /\ Pos(q)' = Pos(q) /\ q \notin refused
    BY <1>2, <2>1, OthersKeep
  <2>3. step[q] \in Nat /\ iter[q] \in Nat /\ iter[q] <= Iters /\ Pos(q) \in Nat
    BY <2>1, RankFacts
  <2>4. NearTo(job, step[q], iter[q], Pos(q), Pos(Sender))
    BY <2>2 DEF NearAll, Near
  <2>5. NearTo(job, step[q], iter[q], Pos(q), Pos(Sender)')
    BY <2>1, <2>3, <2>4, NearIdle
  <2> QED BY <2>1, <2>2, <2>5 DEF Near
<1> QED BY <1>1, <1>2

(* Since an attachment was refused the sender has been in that round, and  *)
(* waits in its Gather at the latest.                                      *)
Stuck(r) ==
    /\ step[Sender] = step[r] /\ iter[Sender] = iter[r] /\ Number(step[Sender]) >= 3
    /\ Here(Sender) < Pos(Sender) /\ Pos(Sender) <= After(Sender)
StuckAll == \A r \in refused : Stuck(r)

(* A refusal finds the sender there.                                       *)
LEMMA StuckRefusing ==
    ASSUME IInv, NEW r \in Rank, RankStep(r) \/ Launcher(r), Refusing(r)
    PROVE  Stuck(r)'
<1>1. /\ TypeOK /\ job \in Jobs /\ job' = job /\ Ahead /\ pc[r] = "copy" /\ Xpmem(r)
      /\ step' = step /\ iter' = iter /\ Pos(Sender) \in Nat
  BY Counters DEF Refusing, IInv, Control
<1>2. /\ r # Sender /\ Pos(Sender) >= Pos(r) /\ Driven(job, step[r]) /\ iter[r] < Iters
      /\ Here(r) \in Nat /\ Pos(r) \in Nat /\ Here(r) < Pos(r) /\ Pos(r) < After(r)
      /\ step[Sender] = step[r] /\ iter[Sender] = iter[r]
  BY <1>1, CopierIsInside, Counters
<1>3. Pos(Sender) <= After(Sender)
  BY <1>1, <1>2, SenderIsHere DEF InRound, After
<1>4. Here(Sender) = Here(r)
  BY <1>2 DEF Here
<1>5. Here(Sender) < Pos(Sender)
  BY <1>1, <1>2, <1>4, SMT
<1>6. Number(step[Sender]) >= 3
  BY <1>1, <1>2, PhaseFacts
<1>7. Pos(Sender)' = Pos(Sender)
  BY <1>2, Counters
<1> QED BY <1>1, <1>2, <1>3, <1>5, <1>6, <1>7 DEF Stuck, Here, After

(* The sender does not get past that Gather.                               *)
LEMMA StuckSender ==
    ASSUME IInv, RankStep(Sender) \/ Launcher(Sender), NEW q \in Rank, q \in refused, Stuck(q)
    PROVE  Stuck(q)'
<1> DEFINE s == step[Sender]
           i == iter[Sender]
           k == Pos(Sender)
<1>1. /\ TypeOK /\ job \in Jobs /\ job' = job /\ Sender \in Rank
      /\ s \in Nat /\ i \in Nat /\ i <= Iters /\ k \in Nat /\ Iters \in Nat \ {0}
      /\ chunk[Sender] \in Nat \ {0}
  BY SenderAssumption, Counters
<1>2. /\ q # Sender /\ Driven(job, s) /\ i < Iters /\ Pos(q) = After(Sender)
      /\ calls[q][Pos(q)] = "barrier" /\ s = step[q] /\ i = iter[q] /\ Number(s) >= 3
  BY DEF IInv, Control, Refusal, Stuck, After
<1>3. /\ Here(Sender) = Loop(job, s, i) /\ After(Sender) = Loop(job, s, i + 1)
      /\ Ordered(job, s, i) /\ Here(Sender) < k /\ k <= After(Sender)
  BY <1>1, Around DEF Here, After, Stuck
<1>4. step'[q] = step[q] /\ iter'[q] = iter[q]
  BY <1>1, <1>2, OthersKeep
<1>5. ASSUME step'[Sender] = s, iter'[Sender] = i, Pos(Sender)' <= After(Sender)
      PROVE  Stuck(q)'
  <2>1. Pos(Sender)' \in Nat /\ Pos(Sender)' >= k
    BY <1>1, Counters
  <2>2. Here(Sender)' = Here(Sender) /\ After(Sender)' = After(Sender)
    BY <1>1, <1>5 DEF Here, After
  <2>3. Here(Sender) < Pos(Sender)'
    BY <1>1, <1>3, <2>1, SMT DEF Ordered
  <2> QED BY <1>2, <1>4, <1>5, <2>2, <2>3 DEF Stuck
<1>6. CASE Idle(Sender)
  <2>1. step'[Sender] = s /\ iter'[Sender] = i /\ Pos(Sender)' = k
    BY <1>1, <1>6, Moves
  <2> QED BY <1>3, <1>5, <2>1
<1>7. ~Preparing(Sender)
  <2> SUFFICES ASSUME k = 0 \/ k = Base(job, s) PROVE FALSE
    BY DEF Preparing
  <2> QED BY <1>1, <1>3, SMT DEF Ordered
<1>8. ~Beginning(Sender)
  <2> SUFFICES ASSUME k = Loop(job, s, 0) PROVE FALSE
    BY DEF Beginning
  <2> QED BY <1>1, <1>3, SMT DEF Ordered
<1>9. ~Announcing(Sender)
  <2> SUFFICES ASSUME k = Here(Sender) PROVE FALSE
    BY DEF Announcing
  <2> QED BY <1>1, <1>3, SMT DEF Ordered
<1>10. ~Packing(Sender)
  <2> SUFFICES ASSUME SharedMemory(Sender) PROVE FALSE
    BY DEF Packing
  <2>1. Number(s) < 2 /\ Number(s) \in 0 .. 4
    BY <1>1, PhaseFacts
  <2> QED BY <1>2, <2>1, SMT
<1>11. CASE Gathering(Sender)
  <2>1. step'[Sender] = s /\ iter'[Sender] = i /\ Pos(Sender)' = k + 1
    BY <1>1, <1>11, Moves DEF Entering
  <2>2. k = Here(Sender) + ChunksOf(job, s)
    BY <1>11 DEF Gathering
  <2>3. Pos(Sender)' <= After(Sender)
    BY <1>1, <1>3, <2>1, <2>2, SMT DEF Ordered
  <2> QED BY <1>5, <2>1, <2>3
<1>12. ~Copying(Sender) /\ ~Refusing(Sender)
  BY <1>1, CopierIsInside DEF Copying, Refusing
<1>13. ~Returning(Sender)
  <2> SUFFICES ASSUME k = After(Sender), GatherReturns(Sender) PROVE FALSE
    BY DEF Returning
  <2>1. calls[q][k] = calls[Sender][k]
    <3>1. Joined(q, Sender)
      BY DEF GatherReturns
    <3> QED BY <3>1 DEF Joined, Pos
  <2>2. Shape(Sender) /\ Sender \notin refused
    BY <1>1 DEF IInv, Control, Refusal
  <2>3. k \in 1 .. k
    BY <1>1, <1>3, SMT DEF Ordered
  <2>4. calls[Sender][k] = Expected(job, k)
    BY <2>2, <2>3 DEF Shape
  <2>5. i \in 0 .. Iters - 1
    BY <1>1, <1>2, SMT
  <2>6. Expected(job, k) = "gather"
    BY <1>1, <1>2, <1>3, <2>5, ExpectedFacts
  <2> QED BY <1>2, <2>1, <2>4, <2>6
<1>14. ~Leaving(Sender)
  <2> SUFFICES ASSUME i = Iters PROVE FALSE
    BY DEF Leaving
  <2> QED BY <1>1, <1>2, SMT
<1>15. ~Advancing(Sender)
  <2> SUFFICES ASSUME k = Base(job, s + 1) PROVE FALSE
    BY DEF Advancing
  <2> QED BY <1>1, <1>2, <1>3, SMT DEF Ordered
<1> QED BY <1>1, <1>6, <1>7, <1>8, <1>9, <1>10, <1>11, <1>12, <1>13, <1>14, <1>15, Kinds

(* So it stays.                                                            *)
LEMMA StuckStep ==
    ASSUME IInv, NEW r \in Rank, RankStep(r) \/ Launcher(r), StuckAll
    PROVE  StuckAll'
<1> SUFFICES ASSUME NEW q \in refused' PROVE Stuck(q)'
  BY DEF StuckAll
<1>1. CASE q \notin refused
  <2>1. Refusing(r) /\ q = r
    BY <1>1, Kinds DEF Idle, Preparing, Beginning, Announcing, Packing, Gathering, Copying,
       Refusing, Returning, Leaving, Advancing
  <2> QED BY <2>1, StuckRefusing
<1>2. CASE q \in refused
  <2>1. /\ TypeOK /\ q \in Rank /\ q # Sender /\ job' = job /\ Sender \in Rank /\ Stuck(q)
    BY <1>2, Counters DEF IInv, TypeOK, Receiver, StuckAll
  <2>2. CASE r = Sender
    BY <1>2, <2>1, <2>2, StuckSender
  <2>3. CASE r # Sender
    <3>1. /\ iter'[Sender] = iter[Sender] /\ step'[Sender] = step[Sender]
          /\ Pos(Sender)' = Pos(Sender)
      BY <2>1, <2>3, OthersKeep
    <3>2. iter'[q] = iter[q] /\ step'[q] = step[q]
      <4>1. CASE q = r
        BY <1>2, <4>1, RefusedIdle DEF Idle
      <4>2. CASE q # r
        BY <2>1, <4>2, OthersKeep
      <4> QED BY <4>1, <4>2
    <3> QED BY <2>1, <3>1, <3>2 DEF Stuck, Here, After
  <2> QED BY <2>2, <2>3
<1> QED BY <1>1, <1>2

(* The chunk piece p of a buffer is copied in, and whether it is there     *)
(* after k calls, in round i.                                              *)
Last(s, p) == IF Number(s) = 1 THEN p ELSE 1
There(j, s, i, k, p) == i < Iters /\ k > Loop(j, s, i) + Last(s, p)

(* What a receiver in its loop holds if no copy went astray: the round it  *)
(* copies, piece by piece, on top of the one before.                       *)
HoldsIn(j, s, i, k, w, b) ==
    w <= s /\ Driven(j, s) /\ k >= Loop(j, s, i) =>
        \A p \in 1 .. Pipelined(j) :
            /\ There(j, s, i, k, p) => b[p] = <<s + 1, i + 1>>
            /\ ~There(j, s, i, k, p) /\ i > 0 => b[p] = <<s + 1, i>>
Holds(r) == HoldsIn(job, step[r], iter[r], Pos(r), wild, lbuf[r])
HoldAll == \A r \in Receiver \ refused : Holds(r)

(* What the sender has packed into the file.                               *)
WrittenIn(j, s, i, k, w, b) ==
    w <= s /\ Number(s) < 2 /\ i < Iters =>
        \A p \in 1 .. Pipelined(j) :
            k >= Loop(j, s, i) + Last(s, p) => b[p] = <<s + 1, i + 1>>
Written == WrittenIn(job, step[Sender], iter[Sender], Pos(Sender), wild, shm)

(* Where the last copy went astray, if any did.                            *)
Recent == wild <= step[Sender] + 1

(* A round takes as many calls as its last piece.                          *)
LEMMA LastFacts ==
    ASSUME NEW j \in Jobs, NEW s \in Nat, NEW p \in 1 .. Pipelined(j)
    PROVE  /\ Last(s, p) \in Nat \ {0} /\ Last(s, p) <= ChunksOf(j, s)
           /\ Number(s) = 1 => Last(s, p) = p
           /\ Number(s) # 1 => Last(s, p) = 1 /\ ChunksOf(j, s) = 1
<1>1. Pipelined(j) \in Nat
  BY BenchmarkFacts
<1> QED BY <1>1, SMT DEF Last, ChunksOf

(* Before the loop nothing is promised.                                    *)
LEMMA HoldsBefore ==
    ASSUME NEW j \in Jobs, NEW s \in Nat, NEW i \in Nat, i <= Iters, NEW k \in Nat,
           k <= Loop(j, s, 0), NEW w, NEW b
    PROVE  HoldsIn(j, s, i, k, w, b)
<1>1. Ordered(j, s, i)
  BY Around
<1>2. ASSUME k >= Loop(j, s, i), NEW p \in 1 .. Pipelined(j)
      PROVE  ~There(j, s, i, k, p) /\ ~(i > 0)
  <2>1. Last(s, p) \in Nat
    BY LastFacts
  <2> QED BY <1>1, <1>2, <2>1, SMT DEF Ordered, There
<1> QED BY <1>2 DEF HoldsIn

(* An RTS brings nothing.                                                  *)
LEMMA HoldsAnnouncing ==
    ASSUME NEW j \in Jobs, NEW s \in Nat, NEW i \in Nat, i <= Iters, NEW w, NEW b,
           NEW k \in Nat, k = Loop(j, s, i), HoldsIn(j, s, i, k, w, b)
    PROVE  HoldsIn(j, s, i, k + 1, w, b)
<1>1. ASSUME NEW p \in 1 .. Pipelined(j)
      PROVE  ~There(j, s, i, k, p) /\ ~There(j, s, i, k + 1, p)
  <2>1. Last(s, p) \in Nat \ {0}
    BY LastFacts
  <2> QED BY <2>1, SMT DEF There
<1>2. k >= Loop(j, s, i)
  BY SMT
<1> QED BY <1>1, <1>2 DEF HoldsIn

(* A copy brings the pieces of its chunk.                                  *)
LEMMA HoldsCopying ==
    ASSUME NEW j \in Jobs, NEW s \in Nat, NEW i \in Nat, i < Iters, NEW w, NEW b, NEW d,
           NEW c \in Nat \ {0}, c <= ChunksOf(j, s), NEW k \in Nat, k = Loop(j, s, i) + c,
           Loop(j, s, i) \in Nat,
           w <= s => HoldsIn(j, s, i, k, w, b),
           w <= s => \A p \in 1 .. Pipelined(j) :
                  d[p] = IF Number(s) = 1 /\ p # c THEN b[p] ELSE <<s + 1, i + 1>>
    PROVE  HoldsIn(j, s, i, k + 1, w, d)
<1> SUFFICES ASSUME w <= s, Driven(j, s), NEW p \in 1 .. Pipelined(j)
             PROVE  /\ There(j, s, i, k + 1, p) => d[p] = <<s + 1, i + 1>>
                    /\ ~There(j, s, i, k + 1, p) /\ i > 0 => d[p] = <<s + 1, i>>
  BY DEF HoldsIn
<1>1. /\ Last(s, p) \in Nat \ {0} /\ Last(s, p) <= ChunksOf(j, s)
      /\ Number(s) = 1 => Last(s, p) = p
      /\ Number(s) # 1 => Last(s, p) = 1 /\ ChunksOf(j, s) = 1
  BY LastFacts
<1>2. ChunksOf(j, s) \in Nat
  BY BenchmarkFacts
<1>3. k >= Loop(j, s, i)
  BY SMT
<1>4. /\ There(j, s, i, k, p) => b[p] = <<s + 1, i + 1>>
      /\ ~There(j, s, i, k, p) /\ i > 0 => b[p] = <<s + 1, i>>
  BY <1>3 DEF HoldsIn
<1>5. d[p] = IF Number(s) = 1 /\ p # c THEN b[p] ELSE <<s + 1, i + 1>>
  OBVIOUS
<1>6. There(j, s, i, k, p) <=> Last(s, p) < c
  BY <1>1, SMT DEF There
<1>7. There(j, s, i, k + 1, p) <=> Last(s, p) <= c
  BY <1>1, SMT DEF There
<1>8. CASE Number(s) = 1 /\ p # c
  <2>1. There(j, s, i, k + 1, p) <=> There(j, s, i, k, p)
    BY <1>1, <1>6, <1>7, <1>8, SMT
  <2>2. d[p] = b[p]
    BY <1>5, <1>8
  <2> QED BY <1>4, <2>1, <2>2
<1>9. CASE ~(Number(s) = 1 /\ p # c)
  <2>1. There(j, s, i, k + 1, p)
    BY <1>1, <1>2, <1>7, <1>9, SMT
  <2>2. d[p] = <<s + 1, i + 1>>
    BY <1>5, <1>9
  <2> QED BY <2>1, <2>2
<1> QED BY <1>8, <1>9

(* The next round starts with what this one brought.                       *)
LEMMA HoldsReturning ==
    ASSUME NEW j \in Jobs, NEW s \in Nat, NEW i \in Nat, i < Iters, NEW w, NEW b,
           NEW k \in Nat, k = Loop(j, s, i + 1), HoldsIn(j, s, i, k, w, b)
    PROVE  HoldsIn(j, s, i + 1, k, w, b)
<1> SUFFICES ASSUME w <= s, Driven(j, s), NEW p \in 1 .. Pipelined(j)
             PROVE  /\ ~There(j, s, i + 1, k, p)
                    /\ b[p] = <<s + 1, i + 1>>
  BY DEF HoldsIn
<1>1. Last(s, p) \in Nat \ {0} /\ Last(s, p) <= ChunksOf(j, s)
  BY LastFacts
<1>2. Ordered(j, s, i)
  <2>1. i <= Iters
    BY LoopAssumption, SMT DEF Iters
  <2> QED BY <2>1, Around
<1>3. k \in Nat /\ k = Loop(j, s, i) + ChunksOf(j, s) + 1 /\ Loop(j, s, i) \in Nat
      /\ ChunksOf(j, s) \in Nat
  BY <1>2 DEF Ordered
<1>4. ~There(j, s, i + 1, k, p)
  BY <1>1, SMT DEF There
<1>5. There(j, s, i, k, p) /\ k >= Loop(j, s, i)
  BY <1>1, <1>3, SMT DEF There
<1> QED BY <1>4, <1>5 DEF HoldsIn

(* The barriers after the last round bring nothing.                        *)
LEMMA HoldsLeaving ==
    ASSUME NEW j \in Jobs, NEW s \in Nat, NEW w, NEW b, NEW k \in Nat,
           k >= Loop(j, s, Iters), HoldsIn(j, s, Iters, k, w, b)
    PROVE  HoldsIn(j, s, Iters, k + 1, w, b)
<1>1. ~(Iters < Iters)
  BY LoopAssumption, SMT DEF Iters
<1> QED BY <1>1 DEF HoldsIn, There

-----------------------------------------------------------------------------
(* A step touches the buffer of its rank only.                             *)
LEMMA OthersBuffers ==
    ASSUME IInv, NEW r \in Rank, RankStep(r) \/ Launcher(r), NEW q \in Receiver, q # r
    PROVE  lbuf'[q] = lbuf[q]
<1>1. DOMAIN lbuf = Receiver
  BY DEF IInv, TypeOK
<1>2. Cleared(r) => lbuf'[q] = lbuf[q]
  BY DEF Cleared, ClearBuffer
<1>3. Copying(r) => lbuf'[q] = lbuf[q]
  BY <1>1 DEF Copying
<1> QED BY <1>2, <1>3, Kinds DEF bufs, Idle, Preparing, Beginning, Announcing, Packing, Gathering,
        Copying, Refusing, Returning, Leaving, Advancing

(* A copy that goes astray does so in the benchmark the sender is in, and  *)
(* the sender is not through with it.                                      *)
LEMMA Astrays ==
    ASSUME IInv, NEW r \in Rank, RankStep(r) \/ Launcher(r), wild' # wild
    PROVE  /\ wild' = step[Sender] + 1 /\ step' = step /\ step[r] = step[Sender]
           /\ Pos(Sender) < Base(job, step[Sender] + 1)
<1>1. Copying(r) \/ Packing(r)
  BY Kinds DEF Idle, Preparing, Beginning, Announcing, Gathering, Refusing, Returning, Leaving,
     Advancing
<1>2. /\ TypeOK /\ job \in Jobs /\ job' = job /\ Sender \in Rank /\ Ahead
      /\ step[Sender] \in Nat /\ iter[Sender] \in Nat /\ iter[Sender] <= Iters
      /\ Pos(Sender) \in Nat /\ Iters \in Nat \ {0} /\ chunk[r] \in Nat \ {0}
  BY Counters DEF IInv, Control
<1>3. Ordered(job, step[Sender], iter[Sender])
  BY <1>2, Around
<1>4. CASE Copying(r)
  <2>1. /\ wild' = step[r] + 1 /\ step' = step /\ pc[r] = "copy"
    BY <1>4 DEF Copying
  <2>2. /\ Driven(job, step[r]) /\ iter[r] < Iters /\ Here(r) < Pos(r) /\ Pos(r) < After(r)
        /\ Pos(Sender) >= Pos(r) /\ step[Sender] = step[r] /\ iter[Sender] = iter[r]
    BY <2>1, CopierIsInside
  <2>3. Pos(Sender) <= Loop(job, step[Sender], iter[Sender] + 1)
    BY <1>2, <2>2, SenderIsHere DEF InRound
  <2>4. Pos(Sender) < Base(job, step[Sender] + 1)
    BY <1>2, <1>3, <2>2, <2>3, SMT DEF Ordered
  <2> QED BY <2>1, <2>2, <2>4
<1>5. CASE Packing(r)
  <2>1. /\ wild' = step[r] + 1 /\ step' = step /\ r = Sender /\ Driven(job, step[r])
        /\ iter[r] < Iters /\ Pos(r) + 1 = Here(r) + chunk[r] /\ chunk[r] <= ChunksOf(job, step[r])
    BY <1>5 DEF Packing
  <2>2. Here(r) = Loop(job, step[Sender], iter[Sender])
    BY <2>1 DEF Here
  <2>3. Pos(Sender) < Base(job, step[Sender] + 1)
    BY <1>2, <1>3, <2>1, <2>2, SMT DEF Ordered
  <2> QED BY <2>1, <2>3
<1> QED BY <1>1, <1>4, <1>5

(* Nobody is in a later benchmark then.                                    *)
LEMMA AstrayForAll ==
    ASSUME IInv, NEW r \in Rank, RankStep(r) \/ Launcher(r), wild' # wild,
           NEW q \in Rank, Near(q)
    PROVE  ~(wild' <= step[q])
<1>1. /\ wild' = step[Sender] + 1 /\ Pos(Sender) < Base(job, step[Sender] + 1)
  BY Astrays
<1>2. /\ TypeOK /\ job \in Jobs /\ step[Sender] \in Nat /\ Pos(Sender) \in Nat
  BY Counters
<1>3. step[q] \in Nat
  BY <1>2, RankFacts
<1>4. /\ Base(job, step[Sender] + 1) \in Nat /\ Base(job, step[q]) \in Nat
      /\ step[Sender] < step[q] => Base(job, step[Sender] + 1) <= Base(job, step[q])
  BY <1>2, <1>3, BaseFacts, LoopFacts
<1>5. step[q] > 0 => Pos(Sender) >= Base(job, step[q])
  BY DEF Near, NearTo
<1> QED BY <1>1, <1>2, <1>3, <1>4, <1>5, SMT

(* The mark of a copy gone astray is not of a benchmark to come.           *)
LEMMA RecentStep ==
    ASSUME IInv, NEW r \in Rank, RankStep(r) \/ Launcher(r), Recent
    PROVE  Recent'
<1>1. /\ TypeOK /\ step[Sender] \in Nat /\ Sender \in Rank /\ wild \in Nat
  BY Counters DEF TypeOK
<1>2. CASE wild' # wild
  BY <1>2, Astrays, <1>1, SMT DEF Recent
<1>3. CASE wild' = wild
  <2>1. step'[Sender] = step[Sender] \/ step'[Sender] = step[Sender] + 1
    <3>1. CASE r = Sender
      BY <3>1, Kinds, Moves DEF Entering
    <3>2. CASE r # Sender
      BY <1>1, <3>2, OthersKeep
    <3> QED BY <3>1, <3>2
  <2> QED BY <1>1, <1>3, <2>1, SMT DEF Recent
<1> QED BY <1>2, <1>3

(* Until the sender packs there is nothing to ask of the file.             *)
LEMMA WrittenBefore ==
    ASSUME NEW j \in Jobs, NEW s \in Nat, NEW i \in Nat, NEW k \in Nat, k <= Loop(j, s, i),
           Loop(j, s, i) \in Nat, NEW w, NEW b
    PROVE  WrittenIn(j, s, i, k, w, b)
<1>1. ASSUME NEW p \in 1 .. Pipelined(j) PROVE ~(k >= Loop(j, s, i) + Last(s, p))
  <2>1. Last(s, p) \in Nat \ {0}
    BY LastFacts
  <2> QED BY <2>1, SMT
<1> QED BY <1>1 DEF WrittenIn

(* Packing a chunk writes its pieces.                                      *)
LEMMA WrittenPacking ==
    ASSUME NEW j \in Jobs, NEW s \in Nat, NEW i \in Nat, NEW w, NEW b, NEW d,
           NEW c \in Nat \ {0}, c <= ChunksOf(j, s), NEW k \in Nat, k + 1 = Loop(j, s, i) + c,
           Loop(j, s, i) \in Nat, WrittenIn(j, s, i, k, w, b),
           \A p \in 1 .. Pipelined(j) :
               d[p] = IF Number(s) = 1 /\ p # c THEN b[p] ELSE <<s + 1, i + 1>>
    PROVE  WrittenIn(j, s, i, k + 1, w, d)
<1> SUFFICES ASSUME w <= s, Number(s) < 2, i < Iters, NEW p \in 1 .. Pipelined(j),
                    k + 1 >= Loop(j, s, i) + Last(s, p)
             PROVE  d[p] = <<s + 1, i + 1>>
  BY DEF WrittenIn
<1>1. Last(s, p) \in Nat \ {0} /\ (Number(s) = 1 => Last(s, p) = p)
  BY LastFacts
<1>2. CASE Number(s) = 1 /\ p # c
  <2>1. k >= Loop(j, s, i) + Last(s, p)
    BY <1>1, <1>2, SMT
  <2>2. b[p] = <<s + 1, i + 1>>
    BY <2>1 DEF WrittenIn
  <2>3. d[p] = b[p]
    BY <1>2
  <2> QED BY <2>2, <2>3
<1>3. CASE ~(Number(s) = 1 /\ p # c)
  <2>1. d[p] = IF Number(s) = 1 /\ p # c THEN b[p] ELSE <<s + 1, i + 1>>
    OBVIOUS
  <2> QED BY <1>3, <2>1
<1> QED BY <1>2, <1>3

(* The pieces of the chunk a rank is in.                                   *)
LEMMA PiecesFacts ==
    ASSUME IInv, NEW r \in Rank, NEW p \in Piece
    PROVE  /\ p \in 1 .. Pipelined(job)
           /\ p \in Pieces(r) <=> ~(Number(step[r]) = 1 /\ p # chunk[r])
<1>1. TypeOK /\ job \in Jobs
  BY DEF IInv
<1>2. (Phase(r) = "shmem_pip" <=> Number(step[r]) = 1) /\ NChunks = Pipelined(job)
  BY <1>1, PhaseFacts, RankFacts
<1> QED BY <1>2 DEF Pieces, Piece

(* While the sender does not step the file stays.                          *)
LEMMA WrittenOthers ==
    ASSUME IInv, NEW r \in Rank, RankStep(r) \/ Launcher(r), Written, r # Sender
    PROVE  Written'
<1>1. TypeOK /\ job' = job /\ Sender \in Rank /\ step[Sender] \in Nat
  BY Counters
<1>2. shm' = shm
  BY Kinds DEF bufs, Idle, Preparing, Beginning, Announcing, Packing, Gathering, Copying,
     Refusing, Returning, Leaving, Advancing
<1>3. step'[Sender] = step[Sender] /\ iter'[Sender] = iter[Sender] /\ Pos(Sender)' = Pos(Sender)
  BY <1>1, OthersKeep
<1>4. wild' = wild \/ ~(wild' <= step[Sender])
  <2>1. wild' # wild => wild' = step[Sender] + 1
    BY Astrays
  <2> QED BY <1>1, <2>1, SMT
<1> QED BY <1>1, <1>2, <1>3, <1>4 DEF Written, WrittenIn

(* The sender packs what it announces.                                     *)
LEMMA WrittenOwn ==
    ASSUME IInv, RankStep(Sender) \/ Launcher(Sender), Written
    PROVE  Written'
<1> DEFINE s == step[Sender]
           i == iter[Sender]
           k == Pos(Sender)
<1>1. /\ TypeOK /\ job \in Jobs /\ job' = job /\ Sender \in Rank
      /\ s \in Nat /\ i \in Nat /\ i <= Iters /\ k \in Nat /\ Iters \in Nat \ {0}
      /\ chunk[Sender] \in Nat \ {0} /\ wild \in Nat
  BY SenderAssumption, Counters DEF TypeOK
<1>2. /\ Here(Sender) = Loop(job, s, i) /\ After(Sender) = Loop(job, s, i + 1)
      /\ Ordered(job, s, i)
  BY <1>1, Around DEF Here, After
<1>3. WrittenIn(job, s, i, k, wild, shm)
  BY DEF Written
<1>4. Written' <=> WrittenIn(job, step'[Sender], iter'[Sender], Pos(Sender)', wild', shm')
  BY <1>1 DEF Written
<1>5. CASE Idle(Sender)
  BY <1>1, <1>3, <1>4, <1>5, Moves DEF Idle, bufs
<1>6. CASE Preparing(Sender)
  <2>1. step'[Sender] = s /\ iter'[Sender] = i /\ Pos(Sender)' = k + 1
    BY <1>1, <1>6, Moves DEF Entering
  <2>2. CASE ~Driven(job, s)
    <3>1. ~(Number(s) < 2)
      <4>1. Number(s) \in 0 .. 4
        BY <1>1, PhaseFacts
      <4> QED BY <2>2, <4>1, SMT DEF Driven
    <3> QED BY <1>4, <2>1, <3>1 DEF WrittenIn
  <2>3. CASE Driven(job, s)
    <3>1. \/ k = 0 /\ s = 0
          \/ k = Base(job, s) /\ Loop(job, s, 0) = k + 1
      BY <1>6, <2>3 DEF Preparing
    <3>2. k + 1 <= Loop(job, s, i) /\ Loop(job, s, i) \in Nat /\ k + 1 \in Nat
      BY <1>1, <1>2, <3>1, SMT DEF Ordered
    <3>3. WrittenIn(job, s, i, k + 1, wild', shm')
      BY <1>1, <3>2, WrittenBefore
    <3> QED BY <1>4, <2>1, <3>3
  <2> QED BY <2>2, <2>3
<1>7. CASE Beginning(Sender)
  <2>1. step'[Sender] = s /\ iter'[Sender] = 0 /\ Pos(Sender)' = k
    BY <1>1, <1>7, Moves
  <2>2. k = Loop(job, s, 0) /\ k <= Loop(job, s, 0) /\ 0 \in Nat
    BY <1>1, <1>7, SMT DEF Beginning
  <2>3. WrittenIn(job, s, 0, k, wild', shm')
    BY <1>1, <2>2, WrittenBefore
  <2> QED BY <1>4, <2>1, <2>3
<1>8. CASE Announcing(Sender)
  <2>1. step'[Sender] = s
    BY <1>1, <1>8, Moves DEF Entering
  <2>2. ~(Number(s) < 2)
    BY <1>1, <1>8, PhaseFacts DEF Announcing
  <2> QED BY <1>4, <2>1, <2>2 DEF WrittenIn
<1>9. CASE Packing(Sender)
  <2>1. step'[Sender] = s /\ iter'[Sender] = i /\ Pos(Sender)' = k + 1
    BY <1>1, <1>9, Moves DEF Entering
  <2>2. /\ k + 1 = Loop(job, s, i) + chunk[Sender] /\ chunk[Sender] <= ChunksOf(job, s)
        /\ \/ wild' = s + 1
           \/ wild' = wild
              /\ shm' = [p \in Piece |-> IF p \in Pieces(Sender) THEN Stamp(Sender) ELSE shm[p]]
    BY <1>2, <1>9 DEF Packing
  <2>3. CASE wild' = s + 1
    <3>1. ~(wild' <= s)
      BY <1>1, <2>3, SMT
    <3> QED BY <1>4, <2>1, <3>1 DEF WrittenIn
  <2>4. CASE /\ wild' = wild
             /\ shm' = [p \in Piece |-> IF p \in Pieces(Sender) THEN Stamp(Sender) ELSE shm[p]]
    <3>1. ASSUME NEW p \in 1 .. Pipelined(job)
          PROVE  shm'[p] = IF Number(s) = 1 /\ p # chunk[Sender] THEN shm[p] ELSE <<s + 1, i + 1>>
      <4>1. p \in Piece
        BY <1>1, RankFacts DEF Piece
      <4>2. p \in Pieces(Sender) <=> ~(Number(s) = 1 /\ p # chunk[Sender])
        BY <1>1, <4>1, PiecesFacts
      <4>3. shm'[p] = IF p \in Pieces(Sender) THEN Stamp(Sender) ELSE shm[p]
        BY <2>4, <4>1
      <4> QED BY <4>2, <4>3 DEF Stamp
    <3>2. Loop(job, s, i) \in Nat
      BY <1>2 DEF Ordered
    <3>3. WrittenIn(job, s, i, k + 1, wild, shm')
      BY <1>1, <1>3, <2>2, <3>1, <3>2, WrittenPacking
    <3> QED BY <1>4, <2>1, <2>4, <3>3
  <2> QED BY <2>2, <2>3, <2>4
<1>10. CASE Gathering(Sender)
  <2>1. step'[Sender] = s /\ iter'[Sender] = i /\ Pos(Sender)' = k + 1
    BY <1>1, <1>10, Moves DEF Entering
  <2>2. k = Loop(job, s, i) + ChunksOf(job, s) /\ wild' = wild /\ shm' = shm
    BY <1>2, <1>10 DEF Gathering, bufs
  <2>3. ASSUME NEW p \in 1 .. Pipelined(job) PROVE k >= Loop(job, s, i) + Last(s, p)
    <3>1. /\ Last(s, p) \in Nat /\ Last(s, p) <= ChunksOf(job, s)
          /\ Loop(job, s, i) \in Nat /\ ChunksOf(job, s) \in Nat
      BY <1>1, <1>2, LastFacts DEF Ordered
    <3> QED BY <2>2, <3>1, SMT
  <2>4. WrittenIn(job, s, i, k + 1, wild, shm)
    BY <1>3, <2>3 DEF WrittenIn
  <2> QED BY <1>4, <2>1, <2>2, <2>4
<1>11. ~Copying(Sender) /\ ~Refusing(Sender)
  BY <1>1, CopierIsInside DEF Copying, Refusing
<1>12. CASE Returning(Sender)
  <2>1. step'[Sender] = s /\ iter'[Sender] = i + 1 /\ Pos(Sender)' = k
    BY <1>1, <1>12, Moves
  <2>2. k = Loop(job, s, i + 1) /\ k <= Loop(job, s, i + 1) /\ i + 1 \in Nat
    BY <1>1, <1>2, <1>12, SMT DEF Returning
  <2>3. WrittenIn(job, s, i + 1, k, wild', shm')
    BY <1>1, <2>2, WrittenBefore
  <2> QED BY <1>4, <2>1, <2>3
<1>13. CASE Leaving(Sender)
  <2>1. iter'[Sender] = i /\ ~(i < Iters)
    BY <1>1, <1>13, Moves, SMT DEF Entering, Leaving
  <2> QED BY <1>4, <2>1 DEF WrittenIn
<1>14. CASE Advancing(Sender)
  <2>1. step'[Sender] = s + 1 /\ iter'[Sender] = i /\ Pos(Sender)' = k
    BY <1>1, <1>14, Moves
  <2>2. k = Base(job, s + 1) /\ s + 1 \in Nat
    BY <1>1, <1>14, SMT DEF Advancing
  <2>3. k <= Loop(job, s + 1, i) /\ Loop(job, s + 1, i) \in Nat
    <3>1. Ordered(job, s + 1, i)
      BY <1>1, <2>2, Around
    <3> QED BY <1>1, <2>2, <3>1, SMT DEF Ordered
  <2>4. WrittenIn(job, s + 1, i, k, wild', shm')
    BY <1>1, <2>2, <2>3, WrittenBefore
  <2> QED BY <1>4, <2>1, <2>4
<1> QED BY <1>1, <1>5, <1>6, <1>7, <1>8, <1>9, <1>10, <1>11, <1>12, <1>13, <1>14, Kinds

(* The file always shows what was announced last, if nothing went astray.  *)
LEMMA WrittenStep ==
    ASSUME IInv, NEW r \in Rank, RankStep(r) \/ Launcher(r), Written
    PROVE  Written'
  BY WrittenOthers, WrittenOwn

(* While a receiver does nothing its buffer stays.                         *)
LEMMA HoldsOthers ==
    ASSUME IInv, NEW r \in Rank, RankStep(r) \/ Launcher(r), NEW q \in Receiver, q # r,
           Near(q), Holds(q)
    PROVE  Holds(q)'
<1>1. TypeOK /\ job' = job /\ q \in Rank
  BY Counters DEF Receiver
<1>2. /\ step'[q] = step[q] /\ iter'[q] = iter[q] /\ Pos(q)' = Pos(q) /\ lbuf'[q] = lbuf[q]
  BY <1>1, OthersKeep, OthersBuffers
<1>3. wild' = wild \/ ~(wild' <= step[q])
  BY <1>1, AstrayForAll
<1> QED BY <1>1, <1>2, <1>3 DEF Holds, HoldsIn

(* A receiver copies what the sender announced.                            *)
LEMMA HoldsCopy ==
    ASSUME IInv, NEW r \in Receiver, RankStep(r) \/ Launcher(r), Holds(r), Written, Copying(r)
    PROVE  Holds(r)'
<1> DEFINE s == step[r]
           i == iter[r]
           k == Pos(r)
           c == chunk[r]
<1>1. /\ TypeOK /\ job \in Jobs /\ job' = job /\ r \in Rank
      /\ s \in Nat /\ i \in Nat /\ i <= Iters /\ k \in Nat /\ c \in Nat \ {0} /\ wild \in Nat
  BY Counters DEF Receiver, TypeOK
<1>2. step'[r] = s /\ iter'[r] = i /\ Pos(r)' = k + 1
  BY <1>1, Moves DEF Entering
<1>3. /\ i < Iters /\ k = Here(r) + c /\ c <= ChunksOf(job, s) /\ Here(r) \in Nat
      /\ step[Sender] = s /\ iter[Sender] = i /\ Pos(Sender) >= k
  BY <1>1, CopierIsInside DEF Copying
<1>4. Here(r) = Loop(job, s, i)
  BY DEF Here
<1>5. PICK new : /\ lbuf' = [lbuf EXCEPT ![r] = [p \in Piece |->
                               IF p \notin Pieces(r) THEN lbuf[r][p] ELSE new[p]]]
                 /\ \/ wild' = s + 1
                    \/ wild' = wild /\ \A p \in Piece :
                          new[p] = IF SharedMemory(r) THEN shm[p] ELSE Stamp(Sender)
  BY DEF Copying
<1>6. HoldsIn(job, s, i, k, wild, lbuf[r])
  BY DEF Holds
<1>7. CASE wild' = s + 1
  <2>1. ~(wild' <= s)
    BY <1>1, <1>7, SMT
  <2> QED BY <1>2, <2>1 DEF Holds, HoldsIn
<1>8. CASE wild' = wild /\ \A p \in Piece :
               new[p] = IF SharedMemory(r) THEN shm[p] ELSE Stamp(Sender)
  <2>1. ASSUME wild <= s, NEW p \in 1 .. Pipelined(job)
        PROVE  lbuf'[r][p] = IF Number(s) = 1 /\ p # c THEN lbuf[r][p] ELSE <<s + 1, i + 1>>
    <3>1. p \in Piece
      BY <1>1, RankFacts DEF Piece
    <3>2. lbuf'[r][p] = IF p \notin Pieces(r) THEN lbuf[r][p] ELSE new[p]
      <4>1. lbuf'[r] = [x \in Piece |-> IF x \notin Pieces(r) THEN lbuf[r][x] ELSE new[x]]
        BY <1>1, <1>5 DEF TypeOK
      <4> QED BY <3>1, <4>1
    <3>3. p \in Pieces(r) <=> ~(Number(s) = 1 /\ p # c)
      BY <1>1, <3>1, PiecesFacts
    <3>4. ASSUME p \in Pieces(r) PROVE new[p] = <<s + 1, i + 1>>
      <4>1. CASE SharedMemory(r)
        <5>1. Number(s) < 2
          BY <1>1, <4>1, PhaseFacts
        <5>2. /\ Last(s, p) \in Nat /\ Last(s, p) <= ChunksOf(job, s)
              /\ Number(s) = 1 => Last(s, p) = p
              /\ Number(s) # 1 => Last(s, p) = 1
          BY <1>1, LastFacts
        <5>3. Last(s, p) <= c
          BY <1>1, <3>3, <3>4, <5>2, SMT
        <5>4. Pos(Sender) \in Nat
          BY <1>1, Counters
        <5>5. Pos(Sender) >= Loop(job, s, i) + Last(s, p)
          BY <1>1, <1>3, <1>4, <5>2, <5>3, <5>4, SMT
        <5>6. shm[p] = <<s + 1, i + 1>>
          BY <1>3, <2>1, <5>1, <5>5 DEF Written, WrittenIn
        <5> QED BY <1>8, <3>1, <4>1, <5>6
      <4>2. CASE ~SharedMemory(r)
        BY <1>3, <1>8, <3>1, <4>2 DEF Stamp
      <4> QED BY <4>1, <4>2
    <3> QED BY <3>2, <3>3, <3>4
  <2>2. HoldsIn(job, s, i, k + 1, wild, lbuf'[r])
    BY <1>1, <1>3, <1>4, <1>6, <2>1, HoldsCopying
  <2> QED BY <1>1, <1>2, <1>8, <2>2 DEF Holds
<1> QED BY <1>5, <1>7, <1>8

(* And keeps it until the next round, or the next benchmark.               *)
LEMMA HoldsOwn ==
    ASSUME IInv, NEW r \in Receiver, RankStep(r) \/ Launcher(r), Holds(r), Written, r \notin refused'
    PROVE  Holds(r)'
<1> DEFINE s == step[r]
           i == iter[r]
           k == Pos(r)
<1>1. /\ TypeOK /\ job \in Jobs /\ job' = job /\ r \in Rank /\ r # Sender
      /\ s \in Nat /\ i \in Nat /\ i <= Iters /\ k \in Nat /\ Iters \in Nat \ {0}
  BY Counters DEF Receiver
<1>2. /\ Here(r) = Loop(job, s, i) /\ After(r) = Loop(job, s, i + 1)
      /\ Ordered(job, s, i)
  BY <1>1, Around DEF Here, After
<1>3. HoldsIn(job, s, i, k, wild, lbuf[r])
  BY DEF Holds
<1>4. Holds(r)' <=> HoldsIn(job, step'[r], iter'[r], Pos(r)', wild', lbuf'[r])
  BY <1>1 DEF Holds
<1>5. CASE Idle(r)
  BY <1>1, <1>3, <1>4, <1>5, Moves DEF Idle, bufs
<1>6. CASE Preparing(r)
  <2>1. step'[r] = s /\ iter'[r] = i /\ Pos(r)' = k + 1
    BY <1>1, <1>6, Moves DEF Entering
  <2>2. CASE ~Driven(job, s)
    BY <1>4, <2>1, <2>2 DEF HoldsIn
  <2>3. CASE Driven(job, s)
    <3>1. \/ k = 0 /\ s = 0
          \/ k = Base(job, s) /\ Loop(job, s, 0) = k + 1
      BY <1>6, <2>3 DEF Preparing
    <3>2. k + 1 <= Loop(job, s, 0) /\ k + 1 \in Nat
      BY <1>1, <1>2, <3>1, SMT DEF Ordered
    <3>3. HoldsIn(job, s, i, k + 1, wild', lbuf'[r])
      BY <1>1, <3>2, HoldsBefore
    <3> QED BY <1>4, <2>1, <3>3
  <2> QED BY <2>2, <2>3
<1>7. CASE Beginning(r)
  <2>1. step'[r] = s /\ iter'[r] = 0 /\ Pos(r)' = k
    BY <1>1, <1>7, Moves
  <2>2. k <= Loop(job, s, 0) /\ 0 \in Nat /\ 0 <= Iters
    BY <1>1, <1>7, SMT DEF Beginning
  <2>3. HoldsIn(job, s, 0, k, wild', lbuf'[r])
    BY <1>1, <2>2, HoldsBefore
  <2> QED BY <1>4, <2>1, <2>3
<1>8. CASE Announcing(r)
  <2>1. step'[r] = s /\ iter'[r] = i /\ Pos(r)' = k + 1 /\ wild' = wild /\ lbuf' = lbuf
    BY <1>1, <1>8, Moves DEF Entering, Announcing, bufs
  <2>2. k = Loop(job, s, i)
    BY <1>2, <1>8 DEF Announcing
  <2>3. HoldsIn(job, s, i, k + 1, wild, lbuf[r])
    BY <1>1, <1>3, <2>2, HoldsAnnouncing
  <2> QED BY <1>4, <2>1, <2>3
<1>9. ~Packing(r) /\ ~Gathering(r)
  BY <1>1 DEF Packing, Gathering
<1>10. CASE Copying(r)
  BY <1>10, HoldsCopy
<1>11. ~Refusing(r)
  BY DEF Refusing
<1>12. CASE Returning(r)
  <2>1. step'[r] = s /\ iter'[r] = i + 1 /\ Pos(r)' = k /\ wild' = wild /\ lbuf' = lbuf
    BY <1>1, <1>12, Moves DEF Returning, bufs
  <2>2. k = Loop(job, s, i + 1) /\ i < Iters
    BY <1>2, <1>12 DEF Returning
  <2>3. HoldsIn(job, s, i + 1, k, wild, lbuf[r])
    BY <1>1, <1>3, <2>2, HoldsReturning
  <2> QED BY <1>4, <2>1, <2>3
<1>13. CASE Leaving(r)
  <2>1. step'[r] = s /\ iter'[r] = i /\ Pos(r)' = k + 1 /\ wild' = wild /\ lbuf' = lbuf
    BY <1>1, <1>13, Moves DEF Entering, Leaving, bufs
  <2>2. i = Iters /\ k >= Loop(job, s, Iters)
    <3>1. i = Iters /\ (k = Loop(job, s, i) \/ k = Loop(job, s, i) + 1) /\ Loop(job, s, i) \in Nat
      BY <1>2, <1>13 DEF Leaving, Ordered
    <3> QED BY <3>1, SMT
  <2>3. HoldsIn(job, s, Iters, k + 1, wild, lbuf[r])
    BY <1>1, <1>3, <2>2, HoldsLeaving
  <2> QED BY <1>4, <2>1, <2>2, <2>3
<1>14. CASE Advancing(r)
  <2>1. step'[r] = s + 1 /\ iter'[r] = i /\ Pos(r)' = k
    BY <1>1, <1>14, Moves
  <2>2. k = Base(job, s + 1) /\ s + 1 \in Nat
    BY <1>1, <1>14, SMT DEF Advancing
  <2>3. k <= Loop(job, s + 1, 0)
    <3>1. Ordered(job, s + 1, i)
      BY <1>1, <2>2, Around
    <3> QED BY <1>1, <2>2, <3>1, SMT DEF Ordered
  <2>4. HoldsIn(job, s + 1, i, k, wild', lbuf'[r])
    BY <1>1, <2>2, <2>3, HoldsBefore
  <2> QED BY <1>4, <2>1, <2>4
<1> QED BY <1>1, <1>5, <1>6, <1>7, <1>8, <1>9, <1>10, <1>11, <1>12, <1>13, <1>14, Kinds

(* All receivers do.                                                       *)
LEMMA HoldStep ==
    ASSUME IInv, NEW r \in Rank, RankStep(r) \/ Launcher(r), NearAll, Written, HoldAll
    PROVE  HoldAll'
<1> SUFFICES ASSUME NEW q \in Receiver, q \notin refused' PROVE Holds(q)'
  BY DEF HoldAll
<1>1. q \in Rank
  BY DEF Receiver
<1>2. q \notin refused
  BY Kinds DEF Idle, Preparing, Beginning, Announcing, Packing, Gathering, Copying,
     Refusing, Returning, Leaving, Advancing
<1>3. Near(q) /\ Holds(q)
  BY <1>1, <1>2 DEF NearAll, HoldAll
<1>4. CASE q = r
  BY <1>3, <1>4, HoldsOwn
<1>5. CASE q # r
  BY <1>3, <1>5, HoldsOthers
<1> QED BY <1>4, <1>5

-----------------------------------------------------------------------------
(* The invariant of the data.                                              *)
Data == NearAll /\ StuckAll /\ Recent /\ Written /\ HoldAll

(* It holds at the start ...                                               *)
LEMMA DataInit == Init => Data
<1> SUFFICES ASSUME Init PROVE Data
  OBVIOUS
<1>1. IInv /\ TypeOK /\ job \in Jobs /\ Sender \in Rank
  BY InitIInv, SenderAssumption DEF IInv
<1>2. /\ refused = {} /\ wild = 0
      /\ \A r \in Rank : Pos(r) = 0 /\ step[r] = 0 /\ iter[r] = 0
  BY DEF Init, Pos
<1>3. 0 \in Nat /\ 0 <= Iters
  BY LoopAssumption, SMT DEF Iters
<1>4. Ordered(job, 0, 0)
  BY <1>1, <1>3, Around
<1>5. NearAll
  <2>1. NearTo(job, 0, 0, 0, 0)
    BY <1>4, SMT DEF Ordered, NearTo, Inside
  <2> QED BY <1>1, <1>2, <2>1 DEF NearAll, Near
<1>6. StuckAll
  BY <1>2 DEF StuckAll
<1>7. Recent
  BY <1>1, <1>2, SMT DEF Recent
<1>8. Written
  <2>1. 0 <= Loop(job, 0, 0) /\ Loop(job, 0, 0) \in Nat
    BY <1>4, SMT DEF Ordered
  <2>2. WrittenIn(job, 0, 0, 0, wild, shm)
    BY <1>1, <1>3, <2>1, WrittenBefore
  <2> QED BY <1>1, <1>2, <2>2 DEF Written
<1>9. HoldAll
  <2>1. 0 <= Loop(job, 0, 0)
    BY <1>4, SMT DEF Ordered
  <2>2. \A b : HoldsIn(job, 0, 0, 0, wild, b)
    BY <1>1, <1>3, <2>1, HoldsBefore
  <2> QED BY <1>2, <2>2 DEF HoldAll, Holds, Receiver
<1> QED BY <1>5, <1>6, <1>7, <1>8, <1>9 DEF Data

(* ... and every step keeps it.                                            *)
LEMMA DataNext == IInv /\ Data /\ [Next]_vars => Data'
<1> SUFFICES ASSUME IInv, Data, [Next]_vars PROVE Data'
  OBVIOUS
<1>1. ASSUME UNCHANGED vars PROVE Data'
  <2>1. UNCHANGED <<calls, iter, job, step, shm, lbuf, refused, wild>>
    BY <1>1 DEF vars, bufs
  <2> QED BY <2>1 DEF Data, NearAll, Near, StuckAll, Stuck, Recent, Written, HoldAll, Holds,
          Here, After, Pos
<1>2. ASSUME NEW r \in Rank, RankStep(r) \/ Launcher(r) PROVE Data'
  BY <1>2, NearStep, StuckStep, RecentStep, WrittenStep, HoldStep DEF Data
<1> QED BY <1>1, <1>2 DEF Next, Terminating

(* Where a rank is when the sender is about to begin round i of benchmark  *)
(* s: in that round but not through with a copy, at the end of the one     *)
(* before, before the loop, or in the barrier that precedes the benchmark. *)
Gathered(j, s, i, t, n, k) ==
    \/ t = s /\ n = i /\ k >= Loop(j, s, i) /\ (i < Iters => k <= Loop(j, s, i) + 1)
    \/ t = s /\ n + 1 = i /\ k = Loop(j, s, i)
    \/ t = s /\ i = 0 /\ k < Loop(j, t, n) /\ k <= Loop(j, s, 0)
    \/ t + 1 = s /\ i = 0 /\ k = Base(j, s) /\ (Driven(j, t) => n = Iters)

(* A rank near the sender, with all the calls the sender waits for, is.    *)
LEMMA GatheredAt ==
    ASSUME NEW j \in Jobs, NEW s \in Nat, NEW i \in Nat, i <= Iters, NEW t \in Nat, NEW n \in Nat,
           n <= Iters, NEW k \in Nat, NEW m \in Nat, NearTo(j, t, n, k, m), m = Loop(j, s, i),
           Driven(j, s), k >= Floor(j, s, i)
    PROVE  Gathered(j, s, i, t, n, k)
<1>1. Ordered(j, s, i) /\ Ordered(j, t, n)
  BY Around
<1>2. Iters \in Nat /\ s + 1 \in Nat /\ t + 1 \in Nat
  BY LoopAssumption, SMT DEF Iters
<1>3. /\ s < t => Base(j, s + 1) <= Base(j, t)
      /\ t < s => Base(j, t + 1) <= Base(j, s)
      /\ t + 1 < s => Base(j, (t + 1) + 1) <= Base(j, s)
      /\ Base(j, t + 1) < Base(j, (t + 1) + 1) /\ Base(j, (t + 1) + 1) \in Nat
      /\ Base(j, t + 1) \in Nat /\ Base(j, s) \in Nat
  BY <1>2, BaseFacts, LoopFacts
<1>4. ~(s < t)
  <2>1. m < Base(j, s + 1) /\ Base(j, s + 1) \in Nat
    BY <1>1, SMT DEF Ordered
  <2>2. t > 0 => m >= Base(j, t)
    BY DEF NearTo
  <2> QED BY <1>1, <1>3, <2>1, <2>2, SMT DEF Ordered
<1>5. CASE t < s
  <2>1. k <= Base(j, t + 1)
    BY DEF NearTo
  <2>2. i = 0
    <3>1. i > 0 => k >= Loop(j, s, i)
      BY SMT DEF Floor
    <3> QED BY <1>1, <1>3, <1>5, <2>1, <3>1, SMT DEF Ordered
  <2>3. k >= Base(j, s)
    BY <1>5, <2>2, SMT DEF Floor
  <2>4. k = Base(j, s) /\ ~(t + 1 < s) /\ k = Base(j, t + 1)
    BY <1>3, <1>5, <2>1, <2>3, SMT
  <2>5. t + 1 = s
    BY <1>5, <2>4, SMT
  <2>6. ASSUME Driven(j, t) PROVE n = Iters
    <3>1. k = Loop(j, t, Iters) + 2 /\ k > Loop(j, t, 0)
      BY <1>1, <2>4, <2>6, SMT DEF Ordered
    <3>2. n < Iters => k <= Loop(j, t, n + 1)
      BY <2>6, <3>1 DEF NearTo, Inside
    <3> QED BY <1>1, <1>2, <3>1, <3>2, SMT DEF Ordered
  <2> QED BY <2>2, <2>4, <2>5, <2>6 DEF Gathered
<1>6. CASE t = s
  <2>1. /\ n < i => Loop(j, s, n + 1) <= Loop(j, s, i)
        /\ i < n => Loop(j, s, i + 1) <= Loop(j, s, n)
        /\ n + 1 < i => Loop(j, s, (n + 1) + 1) <= Loop(j, s, i)
        /\ Loop(j, s, (n + 1) + 1) = Loop(j, s, n + 1) + ChunksOf(j, s) + 1
        /\ n + 1 \in Nat
    <3>1. n + 1 \in Nat
      BY SMT
    <3> QED BY <3>1, LoopFacts
  <2>2. CASE i > 0
    <3>1. k >= Loop(j, s, i) /\ k > Loop(j, s, 0)
      BY <1>1, <2>2, SMT DEF Floor, Ordered
    <3>2. /\ Loop(j, s, n) <= k
          /\ n < Iters => k <= Loop(j, s, n + 1)
          /\ n > 0 => m + 1 >= Loop(j, s, n)
          /\ n < Iters /\ k > Loop(j, s, n) + 1 => m + 1 >= k
      BY <1>6, <3>1 DEF NearTo, Inside
    <3>3. ~(i < n)
      BY <1>1, <1>6, <2>1, <3>2, SMT DEF Ordered
    <3>4. CASE n < i
      <4>1. k = Loop(j, s, n + 1) /\ k = Loop(j, s, i)
        BY <1>1, <1>2, <1>6, <2>1, <3>1, <3>2, <3>4, SMT DEF Ordered
      <4>2. ~(n + 1 < i)
        BY <1>1, <1>6, <2>1, <4>1, SMT DEF Ordered
      <4>3. n + 1 = i
        BY <3>4, <4>2, SMT
      <4> QED BY <1>6, <4>1, <4>3 DEF Gathered
    <3>5. CASE n = i
      <4>1. i < Iters => k <= Loop(j, s, i) + 1
        BY <1>1, <3>2, <3>5, SMT DEF Ordered
      <4> QED BY <1>6, <3>1, <3>5, <4>1 DEF Gathered
    <3> QED BY <3>3, <3>4, <3>5, SMT
  <2>3. CASE i = 0
    <3>1. m = Loop(j, s, 0)
      BY <2>3
    <3>2. CASE k < Loop(j, t, n) /\ k <= Loop(j, s, 0)
      BY <1>6, <2>3, <3>2 DEF Gathered
    <3>3. CASE ~(k < Loop(j, t, n)) \/ ~(k <= Loop(j, s, 0))
      <4>1. n = 0
        <5>1. k > Loop(j, s, 0) => /\ Loop(j, s, n) <= k
                                   /\ n > 0 => m + 1 >= Loop(j, s, n)
          BY <1>6 DEF NearTo, Inside
        <5> QED BY <1>1, <1>6, <3>1, <3>3, <5>1, SMT DEF Ordered
      <4>2. k >= Loop(j, s, 0)
        BY <1>1, <1>6, <3>3, <4>1, SMT DEF Ordered
      <4>3. k <= Loop(j, s, 0) + 1
        <5>1. k > Loop(j, s, 0) /\ 0 < Iters /\ k > Loop(j, s, 0) + 1 => m + 1 >= k
          BY <1>6, <4>1 DEF NearTo, Inside
        <5>2. 0 < Iters
          BY LoopAssumption, SMT DEF Iters
        <5> QED BY <1>1, <3>1, <5>1, <5>2, SMT DEF Ordered
      <4> QED BY <1>6, <2>3, <4>1, <4>2, <4>3 DEF Gathered
    <3> QED BY <3>2, <3>3
  <2> QED BY <2>2, <2>3, SMT
<1> QED BY <1>4, <1>5, <1>6, SMT

(* Nobody has been refused an attachment when the sender begins a round,   *)
(* and everybody is there.                                                 *)
LEMMA AllGathered ==
    ASSUME IInv, Data, Driven(job, step[Sender]), Pos(Sender) = Here(Sender), NEW r \in Rank
    PROVE  /\ r \notin refused
           /\ Gathered(job, step[Sender], iter[Sender], step[r], iter[r], Pos(r))
<1>1. TypeOK /\ job \in Jobs /\ Ahead /\ Sender \in Rank
  BY SenderAssumption DEF IInv, Control
<1>2. /\ step[Sender] \in Nat /\ iter[Sender] \in Nat /\ iter[Sender] <= Iters
      /\ step[r] \in Nat /\ iter[r] \in Nat /\ iter[r] <= Iters /\ Pos(r) \in Nat
      /\ Pos(Sender) \in Nat
  BY <1>1, RankFacts
<1>3. r \notin refused
  <2>1. r \in refused => Here(Sender) < Pos(Sender)
    BY DEF Data, StuckAll, Stuck
  <2> QED BY <1>2, <2>1, SMT
<1>4. NearTo(job, step[r], iter[r], Pos(r), Pos(Sender))
  BY <1>3 DEF Data, NearAll, Near
<1>5. Pos(r) >= Floor(job, step[Sender], iter[Sender])
  <2>1. Here(Sender) <= Pos(Sender)
    BY <1>2, SMT
  <2>2. Everybody(Floor(job, step[Sender], iter[Sender]))
    BY <1>1, <2>1, AheadFloor
  <2> QED BY <2>2 DEF Everybody
<1>6. Pos(Sender) = Loop(job, step[Sender], iter[Sender])
  BY DEF Here
<1> QED BY <1>1, <1>2, <1>3, <1>4, <1>5, <1>6, GatheredAt

(* So everybody holds the last round then, if nothing went astray.         *)
LEMMA RoundHeld ==
    ASSUME IInv, Data, Driven(job, step[Sender]), Pos(Sender) = Here(Sender),
           wild <= step[Sender], iter[Sender] > 0, NEW r \in Receiver, NEW p \in Piece
    PROVE  lbuf[r][p] = <<step[Sender] + 1, iter[Sender]>>
<1> DEFINE s == step[Sender]
           i == iter[Sender]
           n == iter[r]
           k == Pos(r)
<1>1. TypeOK /\ job \in Jobs /\ Sender \in Rank /\ r \in Rank
  BY SenderAssumption DEF IInv, Receiver
<1>2. /\ s \in Nat /\ i \in Nat /\ i <= Iters /\ n \in Nat /\ k \in Nat /\ Iters \in Nat
      /\ p \in 1 .. Pipelined(job)
  BY <1>1, RankFacts DEF Piece
<1>3. r \notin refused /\ Gathered(job, s, i, step[r], n, k)
  BY <1>1, AllGathered
<1>4. HoldsIn(job, step[r], n, k, wild, lbuf[r])
  BY <1>3 DEF Data, HoldAll, Holds
<1>5. Last(s, p) \in Nat \ {0} /\ Last(s, p) <= ChunksOf(job, s)
  BY <1>1, <1>2, LastFacts
<1>6. Ordered(job, s, i)
  BY <1>1, <1>2, Around
<1>7. \/ step[r] = s /\ n = i /\ k >= Loop(job, s, i) /\ (i < Iters => k <= Loop(job, s, i) + 1)
      \/ step[r] = s /\ n + 1 = i /\ k = Loop(job, s, i)
  BY <1>2, <1>3, SMT DEF Gathered
<1>8. CASE step[r] = s /\ n = i /\ k >= Loop(job, s, i) /\ (i < Iters => k <= Loop(job, s, i) + 1)
  <2>1. ~There(job, s, i, k, p)
    BY <1>2, <1>5, <1>6, <1>8, SMT DEF There, Ordered
  <2> QED BY <1>4, <1>2, <1>8, <2>1 DEF HoldsIn
<1>9. CASE step[r] = s /\ n + 1 = i /\ k = Loop(job, s, i)
  <2>1. Ordered(job, s, n)
    <3>1. n <= Iters
      BY <1>2, <1>9, SMT
    <3> QED BY <1>1, <1>2, <3>1, Around
  <2>2. Loop(job, s, i) = Loop(job, s, n + 1)
    BY <1>9
  <2>3. n < Iters
    BY <1>2, <1>9, SMT
  <2>4. There(job, s, n, k, p) /\ k >= Loop(job, s, n)
    BY <1>2, <1>5, <1>9, <2>1, <2>2, <2>3, SMT DEF There, Ordered
  <2>5. lbuf[r][p] = <<s + 1, n + 1>>
    BY <1>2, <1>4, <1>9, <2>4 DEF HoldsIn
  <2> QED BY <1>9, <2>5
<1> QED BY <1>7, <1>8, <1>9

(* The clock is read between complete rounds of the benchmark it times.    *)
LEMMA ClockStep ==
    ASSUME IInv, Data, NEW q \in Rank, RankStep(q) \/ Launcher(q), clock' # clock,
           wild # step[Sender] + 1,
           NEW n, n = IF clock' = "running" THEN SkipIter ELSE Iters, n > 0,
           NEW r \in Receiver, NEW p \in Piece
    PROVE  lbuf[r][p] = <<step[Sender] + 1, n>>
<1>1. /\ TypeOK /\ job \in Jobs /\ Own(q) /\ step[Sender] \in Nat /\ wild \in Nat
      /\ iter[Sender] \in Nat /\ iter[Sender] <= Iters /\ Iters \in Nat
  BY Counters DEF TypeOK
<1>2. q = Sender /\ (StartRound(q) \/ EndLoop(q))
  BY DyingKeeps, <1>1 DEF RankStep, Dies, WrongUsage, Start, PassFirstBarrier, NextBlockSize, Exit,
     BeginShmem, BeginOneCopy, PassPrologue, NoDriver, StartRound, BeginRound, Pack, PassRts, Copy,
     Refuse, PassFin, EndLoop, LeaveLoop, EndPhase, PassMainBarrier
<1>3. pc[q] = "loop" /\ iter[Sender] = n
  <2>1. CASE StartRound(q)
    <3>1. clock' = "running" /\ iter[Sender] = SkipIter /\ pc[q] = "loop"
      BY <1>2, <2>1 DEF StartRound, BeginRound, StartsClock
    <3> QED BY <3>1
  <2>2. CASE EndLoop(q)
    <3>1. clock' = "stopped" /\ ~(iter[Sender] < Iters) /\ pc[q] = "loop"
      BY <1>2, <2>2 DEF EndLoop, LeaveLoop, MoreRounds
    <3>2. iter[Sender] = Iters
      BY <1>1, <3>1, SMT
    <3> QED BY <3>1, <3>2
  <2> QED BY <1>2, <2>1, <2>2
<1>4. Driven(job, step[Sender]) /\ Pos(Sender) = Here(Sender)
  BY <1>1, <1>2, <1>3 DEF Own
<1>5. wild <= step[Sender]
  BY <1>1, SMT DEF Data, Recent
<1> QED BY <1>3, <1>4, <1>5, RoundHeld

(* Each latency is that of its own benchmark and of complete rounds.       *)
THEOREM MeasuredRoundsHold == Spec => MeasuredRounds
<1> DEFINE A == clock' # clock /\ wild # step[Sender] + 1 =>
                    LET round == IF clock' = "running" THEN SkipIter ELSE Iters
                    IN  round > 0 => \A r \in Receiver : \A p \in Piece :
                            lbuf[r][p] = <<step[Sender] + 1, round>>
<1>1. Init => Data
  BY DataInit
<1>2. IInv /\ Data /\ [Next]_vars => Data'
  BY DataNext
<1>3. IInv /\ Data /\ [Next]_vars => A \/ UNCHANGED vars
  <2> SUFFICES ASSUME IInv, Data, Next, clock' # clock, wild # step[Sender] + 1,
                      NEW n, n = IF clock' = "running" THEN SkipIter ELSE Iters, n > 0,
                      NEW r \in Receiver, NEW p \in Piece
               PROVE  lbuf[r][p] = <<step[Sender] + 1, n>>
    OBVIOUS
  <2>1. PICK q \in Rank : RankStep(q) \/ Launcher(q)
    BY DEF Next, Terminating, vars
  <2> QED BY <2>1, ClockStep
<1>4. Spec => [][A]_vars
  BY <1>1, <1>2, <1>3, Inductive, PTL DEF Spec
<1> QED BY <1>4 DEF MeasuredRounds

-----------------------------------------------------------------------------
(* The rounds of all benchmarks, one after the other.                      *)
LEMMA MinPair ==
    ASSUME NEW a \in Nat, NEW b \in Nat
    PROVE  Min({a, b}) = IF a <= b THEN a ELSE b
<1>1. CASE a <= b
  <2>1. a \in {a, b} /\ \A y \in {a, b} : a <= y
    BY <1>1, SMT
  <2>2. \A x \in {a, b} : (\A y \in {a, b} : x <= y) => x = a
    BY <1>1, SMT
  <2> QED BY <1>1, <2>1, <2>2 DEF Min
<1>2. CASE ~(a <= b)
  <2>1. b \in {a, b} /\ \A y \in {a, b} : b <= y
    BY <1>2, SMT
  <2>2. \A x \in {a, b} : (\A y \in {a, b} : x <= y) => x = b
    BY <1>2, SMT
  <2> QED BY <1>2, <2>1, <2>2 DEF Min
<1> QED BY <1>1, <1>2

(* The benchmarks before the n-th that run, and their rounds.              *)
Ran(j, n) == IF j.xpmem THEN n ELSE 3 * (n \div 5) + Min({3, n % 5})
Full(j, n) == Ran(j, n) * Iters

(* Each benchmark that runs adds one.                                      *)
LEMMA RanFacts ==
    ASSUME NEW j \in Jobs, NEW n \in Nat
    PROVE  /\ Ran(j, n) \in Nat /\ Ran(j, n) <= n /\ Ran(j, 0) = 0
           /\ Ran(j, n + 1) = Ran(j, n) + (IF Driven(j, n) THEN 1 ELSE 0)
<1>1. ASSUME NEW m \in Nat
      PROVE  Min({3, m % 5}) = (IF m % 5 < 3 THEN m % 5 ELSE 3) /\ m % 5 \in 0 .. 4
  <2>1. m % 5 \in Nat /\ 3 \in Nat /\ m % 5 \in 0 .. 4
    BY SMT
  <2>2. Min({3, m % 5}) = IF 3 <= m % 5 THEN 3 ELSE m % 5
    BY <2>1, MinPair
  <2> QED BY <2>1, <2>2, SMT
<1>2. /\ n \div 5 \in Nat /\ n = 5 * (n \div 5) + (n % 5)
      /\ n % 5 < 4 => (n + 1) \div 5 = n \div 5 /\ (n + 1) % 5 = (n % 5) + 1
      /\ n % 5 = 4 => (n + 1) \div 5 = (n \div 5) + 1 /\ (n + 1) % 5 = 0
  BY SMT
<1>3. 0 \div 5 = 0 /\ 0 % 5 = 0 /\ 0 \in Nat /\ n + 1 \in Nat
  BY SMT
<1>4. CASE j.xpmem
  BY <1>4, SMT DEF Ran, Driven
<1>5. CASE ~j.xpmem
  <2>1. /\ Ran(j, n) = 3 * (n \div 5) + (IF n % 5 < 3 THEN n % 5 ELSE 3)
        /\ Ran(j, n + 1) = 3 * ((n + 1) \div 5) + (IF (n + 1) % 5 < 3 THEN (n + 1) % 5 ELSE 3)
        /\ Ran(j, 0) = 0
    <3>1. Ran(j, n) = 3 * (n \div 5) + (IF n % 5 < 3 THEN n % 5 ELSE 3)
      BY <1>1, <1>5 DEF Ran
    <3>2. Ran(j, n + 1) = 3 * ((n + 1) \div 5) + (IF (n + 1) % 5 < 3 THEN (n + 1) % 5 ELSE 3)
      BY <1>1, <1>3, <1>5 DEF Ran
    <3>3. Min({3, 0 % 5}) = 0
      BY <1>1, <1>3, SMT
    <3>4. Ran(j, 0) = 0
      BY <1>3, <1>5, <3>3, SMT DEF Ran
    <3> QED BY <3>1, <3>2, <3>4
  <2>2. Driven(j, n) <=> n % 5 < 3
    BY <1>5 DEF Driven, Number
  <2>3. n % 5 \in 0 .. 4
    BY <1>1
  <2> QED BY <1>2, <2>1, <2>2, <2>3, SMT
<1> QED BY <1>4, <1>5

(* ... and the rounds of its loop.                                         *)
LEMMA FullFacts ==
    ASSUME NEW j \in Jobs, NEW n \in Nat
    PROVE  /\ Full(j, n) \in Nat /\ Full(j, 0) = 0
           /\ Full(j, n + 1) = Full(j, n) + (IF Driven(j, n) THEN Iters ELSE 0)
           /\ \A m \in Nat : n < m => Full(j, n) + Iters <= m * Iters
<1>1. /\ Ran(j, n) \in Nat /\ Ran(j, n) <= n /\ Ran(j, 0) = 0
      /\ Ran(j, n + 1) = Ran(j, n) + (IF Driven(j, n) THEN 1 ELSE 0)
  BY RanFacts
<1>2. Iters \in Nat
  BY LoopAssumption, SMT DEF Iters
<1>3. /\ 0 * Iters = 0 /\ Ran(j, n) * Iters \in Nat
      /\ (Ran(j, n) + 1) * Iters = Ran(j, n) * Iters + Iters
  BY <1>1, <1>2, MulZero, MulSucc
<1>4. Full(j, n) \in Nat /\ Full(j, 0) = 0
  BY <1>1, <1>3 DEF Full
<1>5. Full(j, n + 1) = Full(j, n) + (IF Driven(j, n) THEN Iters ELSE 0)
  <2>1. CASE Driven(j, n)
    BY <1>1, <1>3, <2>1 DEF Full
  <2>2. CASE ~Driven(j, n)
    <3>1. Ran(j, n + 1) = Ran(j, n)
      BY <1>1, <2>2, SMT
    <3> QED BY <1>4, <2>2, <3>1, SMT DEF Full
  <2> QED BY <2>1, <2>2
<1>6. ASSUME NEW m \in Nat, n < m PROVE Full(j, n) + Iters <= m * Iters
  <2>1. Ran(j, n) + 1 \in Nat /\ Ran(j, n) + 1 <= m
    BY <1>1, <1>6, SMT
  <2>2. (Ran(j, n) + 1) * Iters <= m * Iters
    BY <1>2, <2>1, MulMonotone
  <2> QED BY <1>3, <2>2 DEF Full
<1> QED BY <1>4, <1>5, <1>6

(* The rounds a rank is through with that has k calls, in round i of       *)
(* benchmark s; those the sender has announced; and those a receiver holds,*)
(* or the sender has entered a Gather for.                                 *)
Through(j, s, i, k) == Full(j, s) + (IF Driven(j, s) /\ k >= Loop(j, s, i) THEN i ELSE 0)
SentBy(j, s, i, k) ==
    Through(j, s, i, k) + (IF Driven(j, s) /\ i < Iters /\ k > Loop(j, s, i) THEN 1 ELSE 0)
HeldBy(j, s, i, k) ==
    Through(j, s, i, k) + (IF Driven(j, s) /\ i < Iters /\ k >= Loop(j, s, i + 1) THEN 1 ELSE 0)

(* Before the loop, or without a driver: those of the benchmarks before.   *)
LEMMA CountBefore ==
    ASSUME NEW j \in Jobs, NEW s \in Nat, NEW i \in Nat, i <= Iters, NEW k \in Nat,
           k <= Loop(j, s, 0) \/ ~Driven(j, s)
    PROVE  /\ SentBy(j, s, i, k) = Full(j, s) /\ HeldBy(j, s, i, k) = Full(j, s)
           /\ Through(j, s, i, k) = Full(j, s)
<1>1. Ordered(j, s, i) /\ Full(j, s) \in Nat
  BY Around, FullFacts
<1> QED BY <1>1, SMT DEF Ordered, Through, SentBy, HeldBy

(* Within round i.                                                         *)
LEMMA CountInside ==
    ASSUME NEW j \in Jobs, NEW s \in Nat, NEW i \in Nat, i < Iters, NEW k \in Nat, Driven(j, s),
           k >= Loop(j, s, i)
    PROVE  /\ SentBy(j, s, i, k) = Full(j, s) + i + (IF k = Loop(j, s, i) THEN 0 ELSE 1)
           /\ HeldBy(j, s, i, k) = Full(j, s) + i + (IF k < Loop(j, s, i + 1) THEN 0 ELSE 1)
<1>1. i <= Iters
  BY LoopAssumption, SMT DEF Iters
<1>2. Ordered(j, s, i) /\ Full(j, s) \in Nat
  BY <1>1, Around, FullFacts
<1> QED BY <1>2, SMT DEF Ordered, Through, SentBy, HeldBy

(* At the end of a round, seen from the next.                              *)
LEMMA CountAfter ==
    ASSUME NEW j \in Jobs, NEW s \in Nat, NEW i \in Nat, i <= Iters, NEW k \in Nat, Driven(j, s),
           k = Loop(j, s, i)
    PROVE  SentBy(j, s, i, k) = Full(j, s) + i /\ HeldBy(j, s, i, k) = Full(j, s) + i
<1>1. Ordered(j, s, i) /\ Full(j, s) \in Nat
  BY Around, FullFacts
<1> QED BY <1>1, SMT DEF Ordered, Through, SentBy, HeldBy

(* After the loop.                                                         *)
LEMMA CountBehind ==
    ASSUME NEW j \in Jobs, NEW s \in Nat, NEW k \in Nat, Driven(j, s), k >= Loop(j, s, Iters)
    PROVE  /\ SentBy(j, s, Iters, k) = Full(j, s) + Iters
           /\ HeldBy(j, s, Iters, k) = Full(j, s) + Iters
<1>1. Iters \in Nat /\ Full(j, s) \in Nat
  BY FullFacts, LoopAssumption, SMT DEF Iters
<1> QED BY <1>1, SMT DEF Through, SentBy, HeldBy

(* At the end of a benchmark, seen from the next.                          *)
LEMMA CountNext ==
    ASSUME NEW j \in Jobs, NEW s \in Nat, NEW i \in Nat, i <= Iters, NEW k \in Nat,
           k = Base(j, s + 1), Driven(j, s) => i = Iters
    PROVE  /\ SentBy(j, s, i, k) = Full(j, s + 1) /\ HeldBy(j, s, i, k) = Full(j, s + 1)
           /\ SentBy(j, s + 1, i, k) = Full(j, s + 1) /\ HeldBy(j, s + 1, i, k) = Full(j, s + 1)
<1>1. s + 1 \in Nat
  BY SMT
<1>2. Ordered(j, s, i) /\ Ordered(j, s + 1, i)
  BY <1>1, Around
<1>3. Full(j, s) \in Nat /\ Full(j, s + 1) = Full(j, s) + (IF Driven(j, s) THEN Iters ELSE 0)
  BY FullFacts
<1>4. k <= Loop(j, s + 1, 0)
  BY <1>2, SMT DEF Ordered
<1>5. CASE Driven(j, s)
  <2>1. k >= Loop(j, s, Iters)
    BY <1>2, <1>5, SMT DEF Ordered
  <2>2. SentBy(j, s, i, k) = Full(j, s) + Iters /\ HeldBy(j, s, i, k) = Full(j, s) + Iters
    BY <1>5, <2>1, CountBehind
  <2> QED BY <1>1, <1>3, <1>4, <1>5, <2>2, CountBefore
<1>6. CASE ~Driven(j, s)
  <2>1. Full(j, s + 1) = Full(j, s)
    BY <1>3, <1>6, SMT
  <2>2. SentBy(j, s, i, k) = Full(j, s) /\ HeldBy(j, s, i, k) = Full(j, s)
    BY <1>6, CountBefore
  <2> QED BY <1>1, <1>4, <2>1, <2>2, CountBefore
<1> QED BY <1>5, <1>6

SentOf(r) == SentBy(job, step[r], iter[r], Pos(r))
HeldOf(r) == HeldBy(job, step[r], iter[r], Pos(r))

Quiet(r) ==
    Idle(r) \/ Preparing(r) \/ Beginning(r) \/ Returning(r) \/ Leaving(r) \/ Advancing(r)

(* They are counts.                                                        *)
LEMMA CountNat ==
    ASSUME TypeOK, job \in Jobs, NEW r \in Rank
    PROVE  SentOf(r) \in Nat /\ HeldOf(r) \in Nat
<1>1. step[r] \in Nat /\ iter[r] \in Nat
  BY RankFacts
<1>2. Full(job, step[r]) \in Nat
  BY <1>1, FullFacts
<1>3. Through(job, step[r], iter[r], Pos(r)) \in Nat
  BY <1>1, <1>2, SMT DEF Through
<1> QED BY <1>3, SMT DEF SentOf, HeldOf, SentBy, HeldBy

(* Only an RTS announces, and only the last copy, or the sender's Gather,  *)
(* completes a round.                                                      *)
LEMMA QuietCounts ==
    ASSUME IInv, NEW r \in Rank, RankStep(r) \/ Launcher(r), Quiet(r)
    PROVE  SentOf(r)' = SentOf(r) /\ HeldOf(r)' = HeldOf(r)
<1> DEFINE s == step[r]
           i == iter[r]
           k == Pos(r)
<1>1. /\ TypeOK /\ job \in Jobs /\ job' = job
      /\ s \in Nat /\ i \in Nat /\ i <= Iters /\ k \in Nat /\ Iters \in Nat \ {0}
  BY Counters
<1>2. /\ Here(r) = Loop(job, s, i) /\ After(r) = Loop(job, s, i + 1)
      /\ Ordered(job, s, i)
  BY <1>1, Around DEF Here, After
<1>3. /\ SentOf(r) = SentBy(job, s, i, k) /\ HeldOf(r) = HeldBy(job, s, i, k)
      /\ SentOf(r)' = SentBy(job, step'[r], iter'[r], Pos(r)')
      /\ HeldOf(r)' = HeldBy(job, step'[r], iter'[r], Pos(r)')
  BY <1>1 DEF SentOf, HeldOf
<1>4. CASE Idle(r)
  BY <1>3, <1>4, Moves
<1>5. CASE Preparing(r)
  <2>1. step'[r] = s /\ iter'[r] = i /\ Pos(r)' = k + 1
    BY <1>1, <1>5, Moves DEF Entering
  <2>2. /\ k \in Nat /\ k + 1 \in Nat
        /\ \/ k <= Loop(job, s, 0) /\ k + 1 <= Loop(job, s, 0)
           \/ ~Driven(job, s)
    <3>1. \/ k = 0 /\ s = 0
          \/ k = Base(job, s) /\ Loop(job, s, 0) = k + 1
          \/ ~Driven(job, s)
      BY <1>5 DEF Preparing
    <3> QED BY <1>1, <1>2, <3>1, SMT DEF Ordered
  <2> QED BY <1>1, <1>3, <2>1, <2>2, CountBefore
<1>6. CASE Beginning(r)
  <2>1. step'[r] = s /\ iter'[r] = 0 /\ Pos(r)' = k
    BY <1>1, <1>6, Moves
  <2>2. k <= Loop(job, s, 0) /\ 0 \in Nat /\ 0 <= Iters
    BY <1>1, <1>6, SMT DEF Beginning
  <2> QED BY <1>1, <1>3, <2>1, <2>2, CountBefore
<1>7. CASE Returning(r)
  <2>1. step'[r] = s /\ iter'[r] = i + 1 /\ Pos(r)' = k
    BY <1>1, <1>7, Moves
  <2>2. k = Loop(job, s, i + 1) /\ i < Iters /\ Driven(job, s)
    BY <1>2, <1>7 DEF Returning
  <2>3. i + 1 \in Nat /\ i + 1 <= Iters
    BY <1>1, <2>2, SMT
  <2>4. k >= Loop(job, s, i) /\ k # Loop(job, s, i) /\ ~(k < Loop(job, s, i + 1))
    BY <1>1, <1>2, <2>2, SMT DEF Ordered
  <2>5. SentBy(job, s, i, k) = Full(job, s) + i + 1 /\ HeldBy(job, s, i, k) = Full(job, s) + i + 1
    BY <1>1, <2>2, <2>4, CountInside
  <2>6. /\ SentBy(job, s, i + 1, k) = Full(job, s) + (i + 1)
        /\ HeldBy(job, s, i + 1, k) = Full(job, s) + (i + 1)
    BY <1>1, <2>2, <2>3, CountAfter
  <2>7. Full(job, s) + i + 1 = Full(job, s) + (i + 1)
    <3>1. Full(job, s) \in Nat
      BY <1>1, FullFacts
    <3> QED BY <1>1, <3>1, SMT
  <2> QED BY <1>3, <2>1, <2>5, <2>6, <2>7
<1>8. CASE Leaving(r)
  <2>1. step'[r] = s /\ iter'[r] = i /\ Pos(r)' = k + 1
    BY <1>1, <1>8, Moves DEF Entering
  <2>2. i = Iters /\ Driven(job, s) /\ k >= Loop(job, s, Iters) /\ k + 1 >= Loop(job, s, Iters)
        /\ k + 1 \in Nat
    <3>1. /\ i = Iters /\ (k = Loop(job, s, i) \/ k = Loop(job, s, i) + 1)
          /\ Loop(job, s, i) \in Nat /\ Driven(job, s)
      BY <1>2, <1>8 DEF Leaving, Ordered
    <3> QED BY <3>1, SMT
  <2> QED BY <1>1, <1>3, <2>1, <2>2, CountBehind
<1>9. CASE Advancing(r)
  <2>1. step'[r] = s + 1 /\ iter'[r] = i /\ Pos(r)' = k
    BY <1>1, <1>9, Moves
  <2>2. k = Base(job, s + 1) /\ (Driven(job, s) => i = Iters)
    BY <1>9 DEF Advancing
  <2> QED BY <1>1, <1>3, <2>1, <2>2, CountNext
<1> QED BY <1>4, <1>5, <1>6, <1>7, <1>8, <1>9 DEF Quiet

(* ... and each of these calls counts once.                                *)
LEMMA CallCounts ==
    ASSUME IInv, NEW r \in Rank, RankStep(r) \/ Launcher(r)
    PROVE  /\ Announcing(r) => SentOf(r)' = SentOf(r) + 1 /\ HeldOf(r)' = HeldOf(r)
           /\ Packing(r) => /\ SentOf(r)' = SentOf(r) + (IF chunk[r] = 1 THEN 1 ELSE 0)
                            /\ HeldOf(r)' = HeldOf(r)
           /\ Gathering(r) => SentOf(r)' = SentOf(r) /\ HeldOf(r)' = HeldOf(r) + 1
           /\ Copying(r) =>
                 /\ SentOf(r)' = SentOf(r)
                 /\ HeldOf(r)' = HeldOf(r) + (IF chunk[r] = ChunksOf(job, step[r]) THEN 1 ELSE 0)
<1> DEFINE s == step[r]
           i == iter[r]
           k == Pos(r)
           c == chunk[r]
           f == Full(job, s)
<1>1. /\ TypeOK /\ job \in Jobs /\ job' = job
      /\ s \in Nat /\ i \in Nat /\ i <= Iters /\ k \in Nat /\ Iters \in Nat \ {0}
      /\ c \in Nat \ {0}
  BY Counters
<1>2. /\ Here(r) = Loop(job, s, i) /\ After(r) = Loop(job, s, i + 1)
      /\ Ordered(job, s, i) /\ f \in Nat
  BY <1>1, Around, FullFacts DEF Here, After
<1>3. /\ SentOf(r) = SentBy(job, s, i, k) /\ HeldOf(r) = HeldBy(job, s, i, k)
      /\ SentOf(r)' = SentBy(job, step'[r], iter'[r], Pos(r)')
      /\ HeldOf(r)' = HeldBy(job, step'[r], iter'[r], Pos(r)')
  BY <1>1 DEF SentOf, HeldOf
<1>4. ASSUME Announcing(r) \/ Packing(r) \/ Gathering(r) \/ Copying(r)
      PROVE  step'[r] = s /\ iter'[r] = i /\ Pos(r)' = k + 1
  BY <1>1, <1>4, Moves DEF Entering
<1>5. ASSUME i < Iters, Driven(job, s), k >= Loop(job, s, i)
      PROVE  /\ SentBy(job, s, i, k) = f + i + (IF k = Loop(job, s, i) THEN 0 ELSE 1)
             /\ HeldBy(job, s, i, k) = f + i + (IF k < Loop(job, s, i + 1) THEN 0 ELSE 1)
             /\ SentBy(job, s, i, k + 1) = f + i + 1
             /\ HeldBy(job, s, i, k + 1) = f + i + (IF k + 1 < Loop(job, s, i + 1) THEN 0 ELSE 1)
  <2>1. k + 1 \in Nat /\ k + 1 >= Loop(job, s, i) /\ k + 1 # Loop(job, s, i)
    BY <1>1, <1>2, <1>5, SMT DEF Ordered
  <2> QED BY <1>1, <1>5, <2>1, CountInside
<1> HIDE DEF f
<1>6. ASSUME Announcing(r) PROVE SentOf(r)' = SentOf(r) + 1 /\ HeldOf(r)' = HeldOf(r)
  <2>1. i < Iters /\ Driven(job, s) /\ k = Loop(job, s, i)
    BY <1>2, <1>6 DEF Announcing
  <2>2. k >= Loop(job, s, i) /\ k < Loop(job, s, i + 1) /\ k + 1 < Loop(job, s, i + 1)
    BY <1>1, <1>2, <2>1, SMT DEF Ordered
  <2> QED BY <1>1, <1>2, <1>3, <1>4, <1>5, <1>6, <2>1, <2>2, SMT
<1>7. ASSUME Packing(r)
      PROVE  /\ SentOf(r)' = SentOf(r) + (IF c = 1 THEN 1 ELSE 0)
             /\ HeldOf(r)' = HeldOf(r)
  <2>1. i < Iters /\ Driven(job, s) /\ k + 1 = Loop(job, s, i) + c /\ c <= ChunksOf(job, s)
    BY <1>2, <1>7 DEF Packing
  <2>2. /\ k >= Loop(job, s, i) /\ k < Loop(job, s, i + 1) /\ k + 1 < Loop(job, s, i + 1)
        /\ k = Loop(job, s, i) <=> c = 1
    BY <1>1, <1>2, <2>1, SMT DEF Ordered
  <2> QED BY <1>1, <1>2, <1>3, <1>4, <1>5, <1>7, <2>1, <2>2, SMT
<1>8. ASSUME Gathering(r) PROVE SentOf(r)' = SentOf(r) /\ HeldOf(r)' = HeldOf(r) + 1
  <2>1. i < Iters /\ Driven(job, s) /\ k = Loop(job, s, i) + ChunksOf(job, s)
    BY <1>2, <1>8 DEF Gathering
  <2>2. /\ k >= Loop(job, s, i) /\ k < Loop(job, s, i + 1) /\ ~(k + 1 < Loop(job, s, i + 1))
        /\ k # Loop(job, s, i)
    BY <1>1, <1>2, <2>1, SMT DEF Ordered
  <2> QED BY <1>1, <1>2, <1>3, <1>4, <1>5, <1>8, <2>1, <2>2, SMT
<1>9. ASSUME Copying(r)
      PROVE  /\ SentOf(r)' = SentOf(r)
             /\ HeldOf(r)' = HeldOf(r) + (IF c = ChunksOf(job, s) THEN 1 ELSE 0)
  <2>1. /\ i < Iters /\ Driven(job, s) /\ k = Loop(job, s, i) + c /\ c <= ChunksOf(job, s)
    BY <1>2, <1>9, CopierIsInside DEF Copying
  <2>2. /\ k >= Loop(job, s, i) /\ k < Loop(job, s, i + 1) /\ k # Loop(job, s, i)
        /\ k + 1 < Loop(job, s, i + 1) <=> c # ChunksOf(job, s)
    BY <1>1, <1>2, <2>1, SMT DEF Ordered
  <2> QED BY <1>1, <1>2, <1>3, <1>4, <1>5, <1>9, <2>1, <2>2, SMT
<1> QED BY <1>6, <1>7, <1>8, <1>9

-----------------------------------------------------------------------------
(* How many Gathers the sender has entered.                                *)
Gathers == Cardinality(Calls(1, calls[Sender], "gather"))
Counted == Gathers = HeldOf(Sender)

(* Entering a call counts if it is a Gather.                               *)
LEMMA GatherCounts ==
    ASSUME TypeOK, NEW op \in Collective, Enter(Sender, op)
    PROVE  Gathers' = Gathers + (IF op = "gather" THEN 1 ELSE 0)
<1>1. calls[Sender] \in Seq(Collective) /\ calls'[Sender] = Append(calls[Sender], op)
  BY SenderAssumption DEF Enter, TypeOK
<1>2. 1 \in Nat \ {0} /\ 1 <= Len(calls[Sender]) + 1
  BY <1>1, SMT
<1>3. /\ Gathers = Cardinality(Calls(1, calls[Sender], "gather"))
      /\ Gathers' = Cardinality(Calls(1, calls'[Sender], "gather"))
  BY DEF Gathers, Calls
<1> QED BY <1>1, <1>2, <1>3, AppendCounts

(* It is one for every round it is through with, or waits for the end of.  *)
LEMMA CountedStep ==
    ASSUME IInv, NEW r \in Rank, RankStep(r) \/ Launcher(r), Counted
    PROVE  Counted'
<1>1. TypeOK /\ job' = job /\ Sender \in Rank
  BY Counters
<1>2. CASE r # Sender
  <2>1. calls'[Sender] = calls[Sender] /\ step'[Sender] = step[Sender]
        /\ iter'[Sender] = iter[Sender] /\ Pos(Sender)' = Pos(Sender)
    BY <1>1, <1>2, OthersKeep
  <2> QED BY <1>1, <2>1 DEF Counted, Gathers, Calls, HeldOf
<1>3. CASE r = Sender
  <2>1. /\ "bcast" \in Collective /\ "gather" \in Collective /\ "barrier" \in Collective
    BY DEF Collective
  <2>2. /\ Enter(Sender, "bcast") \/ Enter(Sender, "barrier") => Gathers' = Gathers + 0
        /\ Enter(Sender, "gather") => Gathers' = Gathers + 1
        /\ calls' = calls => Gathers' = Gathers
    <3>1. calls' = calls => Gathers' = Gathers
      BY DEF Gathers, Calls
    <3> QED BY <1>1, <2>1, <3>1, GatherCounts
  <2>3. Gathers \in Nat /\ Gathers + 0 = Gathers
    <3>1. HeldOf(Sender) \in Nat
      BY <1>1, CountNat DEF IInv
    <3> QED BY <3>1, SMT DEF Counted
  <2>4. CASE Quiet(r)
    <3>1. Gathers' = Gathers
      BY <1>3, <2>2, <2>3, <2>4 DEF Quiet, Idle, Preparing, Beginning, Returning, Leaving, Advancing
    <3> QED BY <1>3, <2>4, <3>1, QuietCounts DEF Counted
  <2>5. CASE Announcing(r) \/ Packing(r)
    <3>1. Gathers' = Gathers
      BY <1>3, <2>2, <2>3, <2>5 DEF Announcing, Packing
    <3> QED BY <1>3, <2>5, <3>1, CallCounts DEF Counted
  <2>6. CASE Gathering(r)
    <3>1. Gathers' = Gathers + 1
      BY <1>3, <2>2, <2>6 DEF Gathering
    <3> QED BY <1>3, <2>6, <3>1, CallCounts DEF Counted
  <2>7. ~Copying(r) /\ ~Refusing(r)
    BY <1>1, <1>3, CopierIsInside DEF Copying, Refusing
  <2> QED BY <2>4, <2>5, <2>6, <2>7, Kinds DEF Quiet
<1> QED BY <1>2, <1>3

-----------------------------------------------------------------------------
(* Which round of all a piece of a buffer is of, in benchmark s: an empty  *)
(* one stands for the benchmarks before.                                   *)
Value(j, s, x) == IF x = Junk THEN Full(j, s) ELSE Full(j, x[1] - 1) + x[2]

(* What a receiver holds outside of its loop, and in its first round until *)
(* the copy: the benchmarks before, if no copy went astray.                *)
Fresh(j, s, i, k, p) ==
    ~Driven(j, s) \/ k < Loop(j, s, i) \/ (i = 0 /\ ~There(j, s, i, k, p))
KeptIn(j, s, i, k, b) ==
    \A p \in 1 .. Pipelined(j) : Fresh(j, s, i, k, p) => Value(j, s, b[p]) = Full(j, s)
Kept(r) == KeptIn(job, step[r], iter[r], Pos(r), lbuf[r])
KeptAll == wild = 0 => \A r \in Receiver \ refused : Kept(r)

(* A call makes nothing fresh.                                             *)
LEMMA FreshEntering ==
    ASSUME NEW j \in Jobs, NEW s \in Nat, NEW i \in Nat, i <= Iters, NEW k \in Nat,
           NEW p \in 1 .. Pipelined(j), Fresh(j, s, i, k + 1, p)
    PROVE  Fresh(j, s, i, k, p)
<1>1. Ordered(j, s, i) /\ Last(s, p) \in Nat
  BY Around, LastFacts
<1> QED BY <1>1, SMT DEF Ordered, Fresh, There

(* ... nor does the start of the loop, or a round that ends.               *)
LEMMA FreshBeginning ==
    ASSUME NEW j \in Jobs, NEW s \in Nat, NEW i \in Nat, i <= Iters, NEW k \in Nat,
           NEW p \in 1 .. Pipelined(j), k = Loop(j, s, 0)
    PROVE  Fresh(j, s, i, k, p)
<1>1. Ordered(j, s, i) /\ Last(s, p) \in Nat
  BY Around, LastFacts
<1> QED BY <1>1, SMT DEF Ordered, Fresh, There

(* Nothing is fresh at the end of a round.                                 *)
LEMMA FreshReturning ==
    ASSUME NEW j \in Jobs, NEW s \in Nat, NEW i \in Nat, i < Iters, NEW k \in Nat,
           NEW p \in 1 .. Pipelined(j), k = Loop(j, s, i + 1), Driven(j, s)
    PROVE  ~Fresh(j, s, i + 1, k, p)
BY SMT DEF Fresh

(* A piece that has just been copied is not fresh.                         *)
LEMMA FreshCopying ==
    ASSUME NEW j \in Jobs, NEW s \in Nat, NEW i \in Nat, i < Iters, NEW k \in Nat, Driven(j, s),
           NEW p \in 1 .. Pipelined(j), NEW c \in Nat \ {0}, c <= ChunksOf(j, s),
           k = Loop(j, s, i) + c, ~(Number(s) = 1 /\ p # c)
    PROVE  ~Fresh(j, s, i, k + 1, p)
<1>1. i <= Iters
  BY LoopAssumption, SMT DEF Iters
<1>2. Ordered(j, s, i)
  BY <1>1, Around
<1>3. /\ Last(s, p) \in Nat \ {0} /\ Last(s, p) <= ChunksOf(j, s)
      /\ Number(s) = 1 => Last(s, p) = p
      /\ Number(s) # 1 => Last(s, p) = 1 /\ ChunksOf(j, s) = 1
  BY LastFacts
<1>4. Last(s, p) <= c
  BY <1>3, SMT
<1> QED BY <1>2, <1>3, <1>4, SMT DEF Ordered, Fresh, There

(* An empty buffer is one that holds the benchmarks before.                *)
LEMMA KeptCleared ==
    ASSUME NEW j, NEW s, NEW i, NEW k, NEW b, \A p \in 1 .. Pipelined(j) : b[p] = Junk
    PROVE  KeptIn(j, s, i, k, b)
BY DEF KeptIn, Value

(* The next benchmark starts with what the last one brought.               *)
LEMMA KeptAdvancing ==
    ASSUME NEW j \in Jobs, NEW s \in Nat, NEW i \in Nat, i <= Iters, NEW k \in Nat, NEW b,
           HoldsIn(j, s, i, k, 0, b), KeptIn(j, s, i, k, b),
           k = Base(j, s + 1), Driven(j, s) => i = Iters
    PROVE  KeptIn(j, s + 1, i, k, b)
<1>1. Ordered(j, s, i) /\ Iters \in Nat \ {0} /\ 0 <= s
  BY Around, LoopAssumption, SMT DEF Iters
<1>2. Full(j, s) \in Nat /\ Full(j, s + 1) = Full(j, s) + (IF Driven(j, s) THEN Iters ELSE 0)
  BY FullFacts
<1> SUFFICES ASSUME NEW p \in 1 .. Pipelined(j) PROVE Value(j, s + 1, b[p]) = Full(j, s + 1)
  BY DEF KeptIn
<1>3. CASE Driven(j, s)
  <2>1. k >= Loop(j, s, i) /\ ~There(j, s, i, k, p) /\ i > 0
    BY <1>1, <1>3, SMT DEF Ordered, There
  <2>2. b[p] = <<s + 1, i>>
    BY <1>1, <1>3, <2>1 DEF HoldsIn
  <2>3. b[p] # Junk /\ b[p][1] = s + 1 /\ b[p][2] = i
    BY <2>2, SMT DEF Junk
  <2>4. (s + 1) - 1 = s
    BY SMT
  <2>5. Value(j, s + 1, b[p]) = Full(j, s) + i
    BY <2>3, <2>4 DEF Value
  <2> QED BY <1>2, <1>3, <2>5
<1>4. CASE ~Driven(j, s)
  <2>1. Value(j, s, b[p]) = Full(j, s)
    BY <1>4 DEF KeptIn, Fresh
  <2>2. Full(j, s + 1) = Full(j, s)
    BY <1>2, <1>4, SMT
  <2> QED BY <2>1, <2>2 DEF Value
<1> QED BY <1>3, <1>4

-----------------------------------------------------------------------------
(* A step keeps it, whatever the rank does.                                *)
LEMMA KeptOwn ==
    ASSUME IInv, NEW r \in Receiver, RankStep(r) \/ Launcher(r), Holds(r), Kept(r),
           wild = 0, wild' = 0, r \notin refused'
    PROVE  Kept(r)'
<1> DEFINE s == step[r]
           i == iter[r]
           k == Pos(r)
           c == chunk[r]
           b == lbuf[r]
<1>1. /\ TypeOK /\ job \in Jobs /\ job' = job /\ r \in Rank /\ r # Sender
      /\ s \in Nat /\ i \in Nat /\ i <= Iters /\ k \in Nat /\ Iters \in Nat \ {0}
      /\ c \in Nat \ {0}
  BY Counters DEF Receiver
<1>2. /\ Here(r) = Loop(job, s, i) /\ After(r) = Loop(job, s, i + 1)
      /\ Ordered(job, s, i)
  BY <1>1, Around DEF Here, After
<1>3. HoldsIn(job, s, i, k, 0, b) /\ KeptIn(job, s, i, k, b)
  BY DEF Holds, Kept
<1>4. Kept(r)' <=> KeptIn(job, step'[r], iter'[r], Pos(r)', lbuf'[r])
  BY <1>1 DEF Kept
<1>5. Cleared(r) => lbuf'[r] = b \/ \A p \in 1 .. Pipelined(job) : lbuf'[r][p] = Junk
  <2>1. Piece = 1 .. Pipelined(job)
    BY <1>1, RankFacts DEF Piece
  <2> QED BY <2>1 DEF Cleared, ClearBuffer
<1>6. Entering(r) => step'[r] = s /\ iter'[r] = i /\ Pos(r)' = k + 1
  BY <1>1, Moves
<1>7. KeptIn(job, s, i, k + 1, b)
  BY <1>1, <1>3, FreshEntering DEF KeptIn
<1>8. CASE Idle(r)
  BY <1>3, <1>4, <1>8, Moves, <1>1 DEF Idle, bufs
<1>9. CASE Preparing(r)
  <2>1. lbuf'[r] = b \/ \A p \in 1 .. Pipelined(job) : lbuf'[r][p] = Junk
    BY <1>5, <1>9 DEF Preparing
  <2> QED BY <1>4, <1>6, <1>7, <1>9, <2>1, KeptCleared DEF Entering
<1>10. CASE Beginning(r)
  <2>1. step'[r] = s /\ iter'[r] = 0 /\ Pos(r)' = k
    BY <1>1, <1>10, Moves
  <2>2. k = Loop(job, s, 0) /\ Cleared(r)
    BY <1>10 DEF Beginning
  <2>3. KeptIn(job, s, 0, k, b)
    BY <1>1, <1>3, <2>2, FreshBeginning DEF KeptIn
  <2> QED BY <1>4, <1>5, <2>1, <2>2, <2>3, KeptCleared
<1>11. CASE Announcing(r) \/ Leaving(r)
  <2>1. lbuf'[r] = b
    BY <1>11 DEF Announcing, Leaving, bufs
  <2> QED BY <1>4, <1>6, <1>7, <1>11, <2>1 DEF Entering
<1>12. CASE Copying(r)
  <2>1. i < Iters /\ k = Loop(job, s, i) + c /\ c <= ChunksOf(job, s) /\ Driven(job, s)
    BY <1>1, <1>2, <1>12, CopierIsInside DEF Copying
  <2>2. ASSUME NEW p \in 1 .. Pipelined(job), Fresh(job, s, i, k + 1, p)
        PROVE  lbuf'[r][p] = b[p]
    <3>1. p \in Piece
      BY <1>1, RankFacts DEF Piece
    <3>2. Number(s) = 1 /\ p # c
      BY <1>1, <2>1, <2>2, FreshCopying
    <3>3. p \notin Pieces(r)
      BY <1>1, <3>1, <3>2, PiecesFacts
    <3>4. PICK new : lbuf' = [lbuf EXCEPT ![r] = [x \in Piece |->
                                 IF x \notin Pieces(r) THEN lbuf[r][x] ELSE new[x]]]
      BY <1>12 DEF Copying
    <3>5. lbuf'[r] = [x \in Piece |-> IF x \notin Pieces(r) THEN lbuf[r][x] ELSE new[x]]
      BY <1>1, <3>4 DEF TypeOK
    <3> QED BY <3>1, <3>3, <3>5
  <2>3. KeptIn(job, s, i, k + 1, lbuf'[r])
    BY <1>7, <2>2 DEF KeptIn
  <2> QED BY <1>4, <1>6, <1>12, <2>3 DEF Entering
<1>13. CASE Returning(r)
  <2>1. step'[r] = s /\ iter'[r] = i + 1 /\ Pos(r)' = k
    BY <1>1, <1>13, Moves
  <2>2. k = Loop(job, s, i + 1) /\ i < Iters /\ Driven(job, s)
    BY <1>2, <1>13 DEF Returning
  <2>3. KeptIn(job, s, i + 1, k, lbuf'[r])
    BY <1>1, <2>2, FreshReturning DEF KeptIn
  <2> QED BY <1>4, <2>1, <2>3
<1>14. CASE Advancing(r)
  <2>1. step'[r] = s + 1 /\ iter'[r] = i /\ Pos(r)' = k /\ lbuf'[r] = b
    BY <1>1, <1>14, Moves DEF Advancing, bufs
  <2>2. k = Base(job, s + 1) /\ (Driven(job, s) => i = Iters)
    BY <1>14 DEF Advancing
  <2> QED BY <1>1, <1>3, <1>4, <2>1, <2>2, KeptAdvancing
<1>15. ~Packing(r) /\ ~Gathering(r)
  BY <1>1 DEF Packing, Gathering
<1>16. ~Refusing(r)
  BY DEF Refusing
<1> QED BY <1>1, <1>8, <1>9, <1>10, <1>11, <1>12, <1>13, <1>14, <1>15, <1>16, Kinds

(* Refusals, and copies gone astray, are not undone.                       *)
LEMMA MarksStay ==
    ASSUME IInv, NEW r \in Rank, RankStep(r) \/ Launcher(r)
    PROVE  refused \subseteq refused' /\ (wild' = 0 => wild = 0)
<1>1. step[Sender] \in Nat /\ (wild' # wild => wild' = step[Sender] + 1)
  BY Counters, Astrays
<1>2. wild' = 0 => wild = 0
  BY <1>1, SMT
<1>3. refused \subseteq refused'
  BY Kinds DEF Idle, Preparing, Beginning, Announcing, Packing, Gathering, Copying,
     Refusing, Returning, Leaving, Advancing
<1> QED BY <1>2, <1>3

(* All receivers keep it.                                                  *)
LEMMA KeptStep ==
    ASSUME IInv, NEW r \in Rank, RankStep(r) \/ Launcher(r), HoldAll, KeptAll
    PROVE  KeptAll'
<1> SUFFICES ASSUME wild' = 0, NEW q \in Receiver, q \notin refused' PROVE Kept(q)'
  BY DEF KeptAll
<1>1. q \in Rank /\ TypeOK /\ job' = job
  BY Counters DEF Receiver
<1>2. q \notin refused /\ wild = 0
  BY MarksStay
<1>3. Holds(q) /\ Kept(q)
  BY <1>1, <1>2 DEF HoldAll, KeptAll
<1>4. CASE q = r
  BY <1>2, <1>3, <1>4, KeptOwn
<1>5. CASE q # r
  <2>1. step'[q] = step[q] /\ iter'[q] = iter[q] /\ Pos(q)' = Pos(q) /\ lbuf'[q] = lbuf[q]
    BY <1>1, <1>5, OthersKeep, OthersBuffers
  <2> QED BY <1>1, <1>3, <2>1 DEF Kept
<1> QED BY <1>4, <1>5

(* So every piece of a receiver's buffer is of the last round it is through*)
(* with, or, once it is copied, of the one it is in.                       *)
LEMMA ValueIs ==
    ASSUME NEW j \in Jobs, NEW s \in Nat, NEW i \in Nat, i <= Iters, NEW k \in Nat, NEW b,
           NEW p \in 1 .. Pipelined(j), HoldsIn(j, s, i, k, 0, b), KeptIn(j, s, i, k, b)
    PROVE  Value(j, s, b[p]) =
               Through(j, s, i, k) + (IF Driven(j, s) /\ There(j, s, i, k, p) THEN 1 ELSE 0)
<1>1. Ordered(j, s, i) /\ Iters \in Nat \ {0} /\ 0 <= s /\ Full(j, s) \in Nat
  BY Around, FullFacts, LoopAssumption, SMT DEF Iters
<1>2. Last(s, p) \in Nat \ {0} /\ (There(j, s, i, k, p) => k >= Loop(j, s, i))
  <2>1. Last(s, p) \in Nat \ {0}
    BY LastFacts
  <2> QED BY <1>1, <2>1, SMT DEF There, Ordered
<1>3. ASSUME NEW n \in Nat, b[p] = <<s + 1, n>> PROVE Value(j, s, b[p]) = Full(j, s) + n
  <2>1. b[p] # Junk /\ b[p][1] = s + 1 /\ b[p][2] = n
    BY <1>3, SMT DEF Junk
  <2>2. (s + 1) - 1 = s
    BY SMT
  <2> QED BY <2>1, <2>2 DEF Value
<1>4. CASE Fresh(j, s, i, k, p)
  <2>1. Value(j, s, b[p]) = Full(j, s)
    BY <1>4 DEF KeptIn
  <2>2. /\ ~(Driven(j, s) /\ There(j, s, i, k, p))
        /\ Driven(j, s) /\ k >= Loop(j, s, i) => i = 0
    BY <1>1, <1>2, <1>4, SMT DEF Fresh, Ordered
  <2> QED BY <1>1, <2>1, <2>2, SMT DEF Through
<1>5. CASE ~Fresh(j, s, i, k, p)
  <2>1. Driven(j, s) /\ k >= Loop(j, s, i) /\ (i > 0 \/ There(j, s, i, k, p))
    BY <1>1, <1>5, SMT DEF Fresh, Ordered
  <2>2. CASE There(j, s, i, k, p)
    <3>1. b[p] = <<s + 1, i + 1>> /\ i + 1 \in Nat
      BY <1>1, <2>1, <2>2, SMT DEF HoldsIn
    <3>2. Value(j, s, b[p]) = Full(j, s) + (i + 1)
      BY <1>3, <3>1
    <3> QED BY <1>1, <2>1, <2>2, <3>2, SMT DEF Through
  <2>3. CASE ~There(j, s, i, k, p)
    <3>1. b[p] = <<s + 1, i>>
      BY <1>1, <2>1, <2>3 DEF HoldsIn
    <3>2. Value(j, s, b[p]) = Full(j, s) + i
      BY <1>3, <3>1
    <3> QED BY <1>1, <2>1, <2>3, <3>2, SMT DEF Through
  <2> QED BY <2>2, <2>3
<1> QED BY <1>4, <1>5

(* The last piece to be copied is of the oldest round.                     *)
LEMMA OldestPiece ==
    ASSUME NEW j \in Jobs, NEW s \in Nat, NEW i \in Nat, i <= Iters, NEW k \in Nat, NEW b,
           HoldsIn(j, s, i, k, 0, b), KeptIn(j, s, i, k, b)
    PROVE  /\ Pipelined(j) \in 1 .. Pipelined(j)
           /\ Value(j, s, b[Pipelined(j)]) = HeldBy(j, s, i, k)
           /\ \A p \in 1 .. Pipelined(j) : HeldBy(j, s, i, k) <= Value(j, s, b[p])
<1> DEFINE t == Through(j, s, i, k)
           z == Pipelined(j)
<1>1. Ordered(j, s, i) /\ Full(j, s) \in Nat /\ z \in Nat \ {0}
  BY Around, FullFacts, BenchmarkFacts
<1>2. t \in Nat
  BY <1>1, SMT DEF Through
<1>3. z \in 1 .. z
  BY <1>1, SMT
<1>4. \A p \in 1 .. z : /\ Last(s, p) \in Nat \ {0} /\ Last(s, p) <= ChunksOf(j, s)
                        /\ Number(s) = 1 => Last(s, p) = p
                        /\ Number(s) # 1 => Last(s, p) = 1 /\ ChunksOf(j, s) = 1
  BY LastFacts
<1>5. Last(s, z) = ChunksOf(j, s)
  BY <1>3, <1>4 DEF ChunksOf
<1>6. There(j, s, i, k, z) <=> i < Iters /\ k >= Loop(j, s, i + 1)
  BY <1>1, <1>5, SMT DEF There, Ordered
<1>7. \A p \in 1 .. z : There(j, s, i, k, z) => There(j, s, i, k, p)
  <2> TAKE p \in 1 .. z
  <2>1. Last(s, p) \in Nat /\ Last(s, p) <= ChunksOf(j, s)
    BY <1>4
  <2> QED BY <1>1, <1>5, <2>1, SMT DEF There, Ordered
<1>8. \A p \in 1 .. z :
          Value(j, s, b[p]) = t + (IF Driven(j, s) /\ There(j, s, i, k, p) THEN 1 ELSE 0)
  BY ValueIs
<1>9. HeldBy(j, s, i, k) = t + (IF Driven(j, s) /\ There(j, s, i, k, z) THEN 1 ELSE 0)
  BY <1>6 DEF HeldBy
<1> HIDE DEF t
<1>10. \A p \in 1 .. z : HeldBy(j, s, i, k) <= Value(j, s, b[p])
  <2> TAKE p \in 1 .. z
  <2>1. /\ Value(j, s, b[p]) = t + (IF Driven(j, s) /\ There(j, s, i, k, p) THEN 1 ELSE 0)
        /\ There(j, s, i, k, z) => There(j, s, i, k, p)
    BY <1>7, <1>8
  <2> QED BY <1>2, <1>9, <2>1, SMT
<1> QED BY <1>3, <1>8, <1>9, <1>10

(* So what a receiver holds completely is what its place says.             *)
HeldAsCounted == \A r \in Receiver \ refused : Held(r) = HeldOf(r)
(* The place of a receiver tells what it holds completely.                 *)
LEMMA HeldIs == IInv /\ Data /\ KeptAll /\ wild = 0 => HeldAsCounted
<1> SUFFICES ASSUME IInv, Data, KeptAll, wild = 0, NEW r \in Receiver, r \notin refused
             PROVE  Held(r) = HeldOf(r)
  BY DEF HeldAsCounted
<1> DEFINE s == step[r]
           b == lbuf[r]
           v(x) == IF x = Junk THEN RunBefore(s) * Iters ELSE RunBefore(x[1] - 1) * Iters + x[2]
           S == {v(x) : x \in {b[p] : p \in Piece}}
           m == HeldBy(job, s, iter[r], Pos(r))
           z == Pipelined(job)
<1>1. /\ TypeOK /\ job \in Jobs /\ r \in Rank /\ s \in Nat /\ iter[r] \in Nat
      /\ iter[r] <= Iters /\ Pos(r) \in Nat /\ Piece = 1 .. z
  BY RankFacts DEF IInv, Receiver, Piece
<1>2. HoldsIn(job, s, iter[r], Pos(r), 0, b) /\ KeptIn(job, s, iter[r], Pos(r), b)
  BY DEF Data, HoldAll, Holds, KeptAll, Kept
<1>3. \A x : v(x) = Value(job, s, x)
  BY DEF Value, Full, RunBefore, Ran
<1>4. /\ z \in Piece /\ Value(job, s, b[z]) = m
      /\ \A p \in Piece : m <= Value(job, s, b[p])
  BY <1>1, <1>2, OldestPiece
<1>5. Held(r) = Min(S)
  BY DEF Held
<1> HIDE DEF v
<1>6. m \in S /\ \A y \in S : m <= y
  BY <1>3, <1>4
<1>7. S \subseteq Int /\ m \in Int
  <2>1. ASSUME NEW p \in Piece PROVE Value(job, s, b[p]) \in Int
    <3>1. Full(job, s) \in Nat /\ Through(job, s, iter[r], Pos(r)) \in Nat
      <4>1. Full(job, s) \in Nat
        BY <1>1, FullFacts
      <4> QED BY <1>1, <4>1, SMT DEF Through
    <3>2. Value(job, s, b[p]) = Through(job, s, iter[r], Pos(r))
              + (IF Driven(job, s) /\ There(job, s, iter[r], Pos(r), p) THEN 1 ELSE 0)
      BY <1>1, <1>2, <2>1, ValueIs
    <3> QED BY <3>1, <3>2, SMT
  <2> QED BY <1>3, <1>4, <2>1
<1> HIDE DEF S, m
<1>8. \A x \in S : (\A y \in S : x <= y) => x = m
  BY <1>6, <1>7, SMT
<1>9. Min(S) = m
  BY <1>6, <1>8 DEF Min
<1> QED BY <1>5, <1>9 DEF m, HeldOf

-----------------------------------------------------------------------------
(* What the sender's last two calls tell: the last is the RTS of a round   *)
(* exactly if it is a Bcast that does not follow a barrier, or any Bcast of*)
(* a shared-memory benchmark, which has no prologue.                       *)
Telling(j, s, k) ==
    /\ k > 1 /\ Expected(j, k) = "bcast"
    /\ Number(s) < 2 \/ Expected(j, k - 1) # "barrier"
(* These are the places within a round, after its RTS.                     *)
LEMMA TellingIs ==
    ASSUME NEW j \in Jobs, NEW s \in Nat, NEW i \in Nat, i <= Iters, NEW k \in Nat,
           NearTo(j, s, i, k, k)
    PROVE  Telling(j, s, k) <=>
               Driven(j, s) /\ i < Iters /\ Loop(j, s, i) < k /\ k < Loop(j, s, i + 1)
<1>1. Ordered(j, s, i) /\ Number(s) \in 0 .. 4
  BY Around, BenchmarkFacts
<1>2. /\ k <= Base(j, s + 1) /\ (s > 0 => k >= Base(j, s))
      /\ Driven(j, s) /\ k > Loop(j, s, 0) =>
            Loop(j, s, i) <= k /\ (i < Iters => k <= Loop(j, s, i + 1))
  BY DEF NearTo, Inside
<1>3. Iters \in Nat \ {0} /\ (i > 0 => i - 1 \in 0 .. Iters - 1 /\ (i - 1) + 1 = i)
      /\ (i < Iters => i \in 0 .. Iters - 1)
  BY LoopAssumption, SMT DEF Iters
<1>4. CASE k <= 1
  <2>1. ~(Loop(j, s, i) < k)
    BY <1>1, <1>4, SMT DEF Ordered
  <2> QED BY <1>4, <2>1, SMT DEF Telling
<1>5. ASSUME NEW n \in Nat, n = Base(j, s), n > 1 PROVE Expected(j, n) = "barrier"
  <2>1. s > 0 /\ s - 1 \in Nat /\ (s - 1) + 1 = s
    BY <1>1, <1>5, SMT DEF Ordered
  <2>2. Ordered(j, s - 1, 0)
    <3>1. 0 \in Nat /\ 0 <= Iters
      BY <1>3, SMT
    <3> QED BY <2>1, <3>1, Around
  <2>3. Driven(j, s - 1) => Loop(j, s - 1, Iters) < n
    BY <1>5, <2>1, <2>2, SMT DEF Ordered
  <2>4. n <= Base(j, (s - 1) + 1) /\ n = Base(j, (s - 1) + 1)
    BY <1>5, <2>1, SMT
  <2>5. /\ Driven(j, s - 1) /\ Loop(j, s - 1, Iters) < n /\ n <= Base(j, (s - 1) + 1) =>
               Expected(j, n) = "barrier"
        /\ ~Driven(j, s - 1) /\ n = Base(j, (s - 1) + 1) => Expected(j, n) = "barrier"
    BY <2>1, ExpectedFacts
  <2> QED BY <2>3, <2>4, <2>5
<1>6. CASE k > 1 /\ k <= Base(j, s)
  <2>1. k = Base(j, s)
    BY <1>1, <1>2, <1>6, SMT DEF Ordered
  <2>2. Expected(j, k) = "barrier"
    BY <1>5, <1>6, <2>1
  <2>3. ~(Loop(j, s, i) < k)
    BY <1>1, <2>1, SMT DEF Ordered
  <2> QED BY <2>2, <2>3 DEF Telling
<1>7. CASE k > 1 /\ k > Base(j, s) /\ k <= Loop(j, s, 0)
  <2>1. Loop(j, s, 0) = Base(j, s) + Prologue(j, s) /\ Prologue(j, s) \in 0 .. 1
    BY LoopFacts, BenchmarkFacts
  <2>2. k = Base(j, s) + 1 /\ Prologue(j, s) = 1 /\ k - 1 = Base(j, s) /\ k - 1 \in Nat
    BY <1>1, <1>7, <2>1, SMT DEF Ordered
  <2>3. ~(Number(s) < 2)
    <3>1. Number(s) >= 2
      BY <2>2 DEF Prologue
    <3> QED BY <1>1, <3>1, SMT
  <2>4. Expected(j, k - 1) = "barrier"
    <3>1. CASE k - 1 = 1
      BY <2>2, <3>1, ExpectedFacts
    <3>2. CASE k - 1 # 1
      <4>1. k - 1 > 1
        BY <1>7, <3>2, SMT
      <4> QED BY <1>5, <2>2, <4>1
    <3> QED BY <3>1, <3>2
  <2>5. ~(Loop(j, s, i) < k)
    BY <1>1, <1>7, SMT DEF Ordered
  <2> QED BY <2>3, <2>4, <2>5 DEF Telling
<1>8. CASE k > 1 /\ k > Loop(j, s, 0) /\ ~Driven(j, s)
  <2>1. k = Base(j, s + 1)
    BY <1>1, <1>2, <1>8, SMT DEF Ordered
  <2>2. Expected(j, k) = "barrier"
    BY <1>8, <2>1, ExpectedFacts
  <2> QED BY <1>8, <2>2 DEF Telling
<1>9. CASE k > 1 /\ k > Loop(j, s, 0) /\ Driven(j, s)
  <2>1. Loop(j, s, i) <= k /\ (i < Iters => k <= Loop(j, s, i + 1))
    BY <1>2, <1>9
  <2>2. \A n \in 0 .. Iters - 1 :
            /\ Loop(j, s, n) < k /\ k < Loop(j, s, n + 1) => Expected(j, k) = "bcast"
            /\ k = Loop(j, s, n + 1) => Expected(j, k) = "gather"
    BY <1>9, ExpectedFacts
  <2>3. CASE k = Loop(j, s, i)
    <3>1. i > 0
      BY <1>1, <1>9, <2>3, SMT DEF Ordered
    <3>2. Expected(j, k) = "gather"
      BY <1>3, <2>2, <2>3, <3>1
    <3>3. ~(Loop(j, s, i) < k)
      BY <1>1, <2>3, SMT DEF Ordered
    <3> QED BY <3>2, <3>3 DEF Telling
  <2>4. CASE i < Iters /\ k = Loop(j, s, i + 1)
    <3>1. Expected(j, k) = "gather"
      BY <1>3, <2>2, <2>4
    <3>2. ~(k < Loop(j, s, i + 1))
      BY <1>1, <2>4, SMT DEF Ordered
    <3> QED BY <3>1, <3>2 DEF Telling
  <2>5. CASE ~(i < Iters) /\ k # Loop(j, s, i)
    <3>1. i = Iters /\ Loop(j, s, Iters) < k
      <4>1. i = Iters
        BY <1>3, <2>5, SMT
      <4> QED BY <1>1, <2>1, <2>5, <4>1, SMT DEF Ordered
    <3>2. Expected(j, k) = "barrier"
      BY <1>2, <1>9, <3>1, ExpectedFacts
    <3> QED BY <2>5, <3>2 DEF Telling
  <2>6. CASE i < Iters /\ Loop(j, s, i) < k /\ k < Loop(j, s, i + 1)
    <3>1. Expected(j, k) = "bcast" /\ k - 1 \in Nat
      BY <1>3, <1>9, <2>2, <2>6, SMT
    <3>2. \A n \in 0 .. Iters - 1 :
              /\ Loop(j, s, n) < k - 1 /\ k - 1 < Loop(j, s, n + 1) => Expected(j, k - 1) = "bcast"
              /\ k - 1 = Loop(j, s, n + 1) => Expected(j, k - 1) = "gather"
      BY <1>9, <3>1, ExpectedFacts
    <3>3. Number(s) < 2 \/ Expected(j, k - 1) # "barrier"
      <4>1. CASE k - 1 > Loop(j, s, i)
        <5>1. Loop(j, s, i) < k - 1 /\ k - 1 < Loop(j, s, i + 1)
          BY <1>1, <2>6, <4>1, SMT DEF Ordered
        <5>2. Expected(j, k - 1) = "bcast"
          BY <1>3, <2>6, <3>2, <5>1
        <5> QED BY <5>2
      <4>2. CASE k - 1 = Loop(j, s, i) /\ i > 0
        <5>1. Expected(j, k - 1) = "gather"
          BY <1>3, <3>2, <4>2
        <5> QED BY <5>1
      <4>3. CASE k - 1 = Loop(j, s, i) /\ ~(i > 0)
        <5>1. k - 1 <= Loop(j, s, 0) /\ k - 1 = Loop(j, s, 0)
          BY <1>1, <4>3, SMT DEF Ordered
        <5>2. CASE Number(s) < 2
          BY <5>2
        <5>3. CASE ~(Number(s) < 2)
          <6>1. Prologue(j, s) = 1
            <7>1. Number(s) >= 2
              BY <1>1, <5>3, SMT
            <7> QED BY <1>9, <7>1 DEF Prologue
          <6>2. Base(j, s) < k - 1
            <7>1. Loop(j, s, 0) = Base(j, s) + Prologue(j, s)
              BY LoopFacts
            <7> QED BY <1>1, <5>1, <6>1, <7>1, SMT DEF Ordered
          <6>3. Expected(j, k - 1) = "bcast"
            BY <3>1, <5>1, <6>2, ExpectedFacts
          <6> QED BY <6>3
        <5> QED BY <5>2, <5>3
      <4> QED BY <1>1, <2>6, <4>1, <4>2, <4>3, SMT DEF Ordered
    <3> QED BY <1>9, <2>6, <3>1, <3>3 DEF Telling
  <2> QED BY <1>1, <2>1, <2>3, <2>4, <2>5, <2>6, SMT DEF Ordered
<1> QED BY <1>1, <1>4, <1>6, <1>7, <1>8, <1>9, SMT DEF Ordered

-----------------------------------------------------------------------------
(* So what the sender has announced is what its place says.                *)
AnnouncedAsCounted == Announced = SentOf(Sender)
(* The sender's calls say what its place does.                             *)
LEMMA AnnouncedIs == IInv /\ Data /\ Counted => AnnouncedAsCounted
<1> SUFFICES ASSUME IInv, Data, Counted PROVE Announced = SentOf(Sender)
  BY DEF AnnouncedAsCounted
<1> DEFINE s == step[Sender]
           i == iter[Sender]
           k == Pos(Sender)
           mine == calls[Sender]
           B == k > 1 /\ mine[k] = "bcast" /\ (SharedMemory(Sender) \/ mine[k - 1] # "barrier")
<1>1. /\ TypeOK /\ job \in Jobs /\ Sender \in Rank /\ s \in Nat /\ i \in Nat /\ i <= Iters
      /\ k \in Nat /\ Sender \notin refused /\ Shape(Sender)
      /\ SharedMemory(Sender) <=> Number(s) < 2
  <2>1. TypeOK /\ job \in Jobs /\ Sender \in Rank /\ Shape(Sender) /\ Refusal(Sender)
    BY SenderAssumption DEF IInv, Control
  <2> QED BY <2>1, RankFacts, PhaseFacts DEF Refusal
<1>2. NearTo(job, s, i, k, k)
  BY <1>1 DEF Data, NearAll, Near
<1>3. B <=> Telling(job, s, k)
  <2>1. k > 1 => mine[k] = Expected(job, k) /\ mine[k - 1] = Expected(job, k - 1)
    <3>1. k > 1 => k \in 1 .. k /\ k - 1 \in 1 .. k
      BY <1>1, SMT
    <3> QED BY <1>1, <3>1 DEF Shape
  <2> QED BY <1>1, <2>1 DEF Telling
<1>4. Announced = Gathers + (IF B THEN 1 ELSE 0)
  BY DEF Announced, Gathers, Calls, Pos
<1>5. SentOf(Sender) = HeldOf(Sender) + (IF B THEN 1 ELSE 0)
  <2>1. Ordered(job, s, i) /\ Full(job, s) \in Nat
    BY <1>1, Around, FullFacts
  <2>2. B <=> Driven(job, s) /\ i < Iters /\ Loop(job, s, i) < k /\ k < Loop(job, s, i + 1)
    BY <1>1, <1>2, <1>3, TellingIs
  <2>3. Through(job, s, i, k) \in Nat
    BY <1>1, <2>1, SMT DEF Through
  <2> HIDE DEF B
  <2> QED BY <1>1, <2>1, <2>2, <2>3, SMT DEF Ordered, SentOf, HeldOf, SentBy, HeldBy
<1> QED BY <1>4, <1>5 DEF Counted

(* Nothing is announced or held at the start.                              *)
LEMMA CountedInit == Init => Counted /\ KeptAll
<1> SUFFICES ASSUME Init PROVE Counted /\ KeptAll
  OBVIOUS
<1>1. IInv /\ TypeOK /\ job \in Jobs /\ Sender \in Rank
  BY InitIInv, SenderAssumption DEF IInv
<1>2. /\ calls[Sender] = <<>>
      /\ \A r \in Rank : Pos(r) = 0 /\ step[r] = 0 /\ iter[r] = 0
      /\ \A r \in Receiver : \A p \in Piece : lbuf[r][p] = Junk
      /\ Piece = 1 .. Pipelined(job)
  BY <1>1, RankFacts DEF Init, Pos, Piece
<1>3. 0 \in Nat /\ 0 <= Iters
  BY LoopAssumption, SMT DEF Iters
<1>4. HeldOf(Sender) = 0
  <2>1. Ordered(job, 0, 0)
    BY <1>1, <1>3, Around
  <2>2. 0 <= Loop(job, 0, 0)
    BY <2>1, SMT DEF Ordered
  <2>3. HeldBy(job, 0, 0, 0) = Full(job, 0)
    BY <1>1, <1>3, <2>2, CountBefore
  <2>4. Full(job, 0) = 0
    BY <1>1, <1>3, FullFacts
  <2> QED BY <1>1, <1>2, <2>3, <2>4 DEF HeldOf
<1>5. Gathers = 0
  <2>1. Calls(1, calls[Sender], "gather") = {}
    BY <1>2, SMT DEF Calls
  <2> QED BY <2>1, FS_EmptySet DEF Gathers
<1>6. KeptAll
  BY <1>2, KeptCleared DEF KeptAll, Kept, Receiver
<1> QED BY <1>4, <1>5, <1>6 DEF Counted

-----------------------------------------------------------------------------
(* The block size at least grows by one after every five benchmarks, so    *)
(* there are fewer than 5 * BufSize of them.                               *)
Big == pc[Sender] \notin {"start", "first_barrier"} \cup Stopped =>
           blocksize[Sender] >= (step[Sender] \div 5) + 1

(* It does so when the last benchmark of a block size is through.          *)
LEMMA BigStep ==
    ASSUME IInv, NEW r \in Rank, RankStep(r) \/ Launcher(r), Big
    PROVE  Big'
<1>1. /\ TypeOK /\ job \in Jobs /\ job' = job /\ Sender \in Rank /\ Own(r)
      /\ step[r] \in Nat /\ blocksize[r] \in Nat
  BY Counters DEF TypeOK
<1>2. CASE r # Sender
  <2>1. pc'[Sender] = pc[Sender] /\ step'[Sender] = step[Sender]
        /\ blocksize'[Sender] = blocksize[Sender]
    BY <1>1, <1>2, OthersKeep
  <2> QED BY <2>1 DEF Big
<1>3. CASE r = Sender
  <2>1. CASE Dies(r)
    BY <1>1, <1>3, <2>1, DyingKeeps DEF Big
  <2>2. CASE WrongUsage(r) \/ Exit(r) \/ Start(r)
    BY <1>1, <1>3, <2>2 DEF WrongUsage, Exit, Start, Goto, Big, Stopped, TypeOK
  <2>3. CASE PassFirstBarrier(r)
    <3>1. step' = step /\ step[r] = 0 /\ blocksize'[r] = job.min_bs /\ job.min_bs > 0
      BY <1>1, <2>3 DEF PassFirstBarrier, Own, Stopped, Failed, ValidArgs, TypeOK
    <3>2. job.min_bs \in Nat
      BY <1>1 DEF Jobs
    <3>3. blocksize'[r] >= (0 \div 5) + 1
      BY <3>1, <3>2, SMT
    <3> QED BY <1>3, <3>1, <3>3 DEF Big
  <2>4. CASE PassMainBarrier(r)
    <3>1. /\ pc[r] = "main_barrier" /\ step'[r] = step[r] + 1
          /\ Phase(r) = PhaseOrder[5] => blocksize'[r] = 2 * blocksize[r]
          /\ Phase(r) # PhaseOrder[5] => blocksize'[r] = blocksize[r]
      BY <1>1, <2>4 DEF PassMainBarrier, TypeOK
    <3>2. Phase(r) = PhaseOrder[5] <=> Number(step[r]) = 4
      BY <1>1, PhaseFacts
    <3>3. blocksize[r] >= (step[r] \div 5) + 1
      BY <1>3, <3>1 DEF Big, Stopped, Failed
    <3>4. /\ step[r] % 5 = 4 => (step[r] + 1) \div 5 = (step[r] \div 5) + 1
          /\ step[r] % 5 # 4 => (step[r] + 1) \div 5 = step[r] \div 5
          /\ step[r] \div 5 \in Nat
      BY <1>1, SMT
    <3>5. blocksize'[r] >= ((step[r] + 1) \div 5) + 1
      BY <1>1, <3>1, <3>2, <3>3, <3>4, SMT DEF Number
    <3> QED BY <1>3, <3>1, <3>5 DEF Big
  <2>5. CASE \/ NextBlockSize(r) \/ BeginShmem(r) \/ BeginOneCopy(r) \/ PassPrologue(r)
             \/ NoDriver(r) \/ StartRound(r) \/ Pack(r) \/ PassRts(r) \/ Copy(r) \/ Refuse(r)
             \/ PassFin(r) \/ EndLoop(r) \/ EndPhase(r)
    <3>1. /\ step' = step /\ blocksize' = blocksize
          /\ pc[r] \notin {"start", "first_barrier"} \cup Stopped
      BY <2>5 DEF NextBlockSize, BeginShmem, BeginOneCopy, PassPrologue, NoDriver, StartRound,
         Pack, PassRts, Copy, Refuse, PassFin, EndLoop, EndPhase, local, Stopped, Failed
    <3> QED BY <1>3, <3>1 DEF Big
  <2> QED BY <2>1, <2>2, <2>3, <2>4, <2>5 DEF RankStep, Dies
<1> QED BY <1>2, <1>3

(* So there is a next round whenever the sender begins one.                *)
LEMMA RoundsRemain ==
    ASSUME IInv, Big, pc[Sender] \notin Outside, Driven(job, step[Sender]), iter[Sender] < Iters
    PROVE  Full(job, step[Sender]) + iter[Sender] < 5 * BufSize * Iters
<1>1. /\ TypeOK /\ job \in Jobs /\ Sender \in Rank /\ BufSize \in Nat
      /\ step[Sender] \in Nat /\ iter[Sender] \in Nat /\ Iters \in Nat \ {0}
  BY SenderAssumption, BenchAssumption, RankFacts DEF IInv
<1>2. /\ blocksize[Sender] \in 1 .. BufSize
      /\ blocksize[Sender] >= (step[Sender] \div 5) + 1
  BY <1>1 DEF TypeOK, Big, Outside
<1>3. step[Sender] < 5 * BufSize /\ 5 * BufSize \in Nat
  <2>1. step[Sender] \div 5 < BufSize
    BY <1>1, <1>2, SMT
  <2> QED BY <1>1, <2>1, SMT
<1>4. Full(job, step[Sender]) + Iters <= (5 * BufSize) * Iters /\ Full(job, step[Sender]) \in Nat
  BY <1>1, <1>3, FullFacts
<1>5. 5 * BufSize * Iters \in Nat
  <2>1. (5 * BufSize) * Iters \in Nat
    BY <1>1, <1>3, SMT
  <2> QED BY <2>1
<1> QED BY <1>1, <1>4, <1>5, SMT

-----------------------------------------------------------------------------
(* When the sender begins a round everybody holds the rounds before.       *)
LEMMA HeldAtRts ==
    ASSUME IInv, Data, Driven(job, step[Sender]), iter[Sender] < Iters,
           Pos(Sender) = Here(Sender), NEW r \in Rank
    PROVE  /\ r \notin refused
           /\ HeldOf(r) = Full(job, step[Sender]) + iter[Sender]
           /\ SentOf(r) \in Nat
           /\ SentOf(Sender) = Full(job, step[Sender]) + iter[Sender]
<1> DEFINE s == step[Sender]
           i == iter[Sender]
           t == step[r]
           n == iter[r]
           k == Pos(r)
<1>1. /\ TypeOK /\ job \in Jobs /\ Sender \in Rank /\ s \in Nat /\ i \in Nat /\ i <= Iters
      /\ t \in Nat /\ n \in Nat /\ n <= Iters /\ k \in Nat /\ Iters \in Nat \ {0}
      /\ Pos(Sender) \in Nat
  BY SenderAssumption, RankFacts DEF IInv
<1>2. r \notin refused /\ Gathered(job, s, i, t, n, k)
  BY AllGathered
<1>3. Ordered(job, s, i) /\ Full(job, s) \in Nat
  BY <1>1, Around, FullFacts
<1>4. HeldOf(r) = HeldBy(job, t, n, k)
  BY DEF HeldOf
<1>5. SentOf(Sender) = Full(job, s) + i
  BY <1>1, CountAfter DEF SentOf, Here
<1>6. CASE t = s /\ n = i /\ k >= Loop(job, s, i) /\ (i < Iters => k <= Loop(job, s, i) + 1)
  <2>1. k < Loop(job, s, i + 1)
    BY <1>1, <1>3, <1>6, SMT DEF Ordered
  <2>2. HeldBy(job, s, i, k) = Full(job, s) + i + 0
    BY <1>1, <1>6, <2>1, CountInside
  <2> QED BY <1>1, <1>2, <1>3, <1>4, <1>5, <1>6, <2>2, CountNat, SMT
<1>7. CASE t = s /\ n + 1 = i /\ k = Loop(job, s, i)
  <2>1. n < Iters
    BY <1>1, <1>7, SMT
  <2>2. Ordered(job, s, n) /\ k = Loop(job, s, n + 1)
    BY <1>1, <1>7, Around
  <2>3. k >= Loop(job, s, n) /\ ~(k < Loop(job, s, n + 1))
    BY <1>1, <2>2, SMT DEF Ordered
  <2>4. HeldBy(job, s, n, k) = Full(job, s) + n + 1
    BY <1>1, <2>1, <2>3, CountInside
  <2> QED BY <1>1, <1>2, <1>3, <1>4, <1>5, <1>7, <2>4, CountNat, SMT
<1>8. CASE t = s /\ i = 0 /\ k < Loop(job, t, n) /\ k <= Loop(job, s, 0)
  <2>1. HeldBy(job, t, n, k) = Full(job, s)
    BY <1>1, <1>8, CountBefore
  <2> QED BY <1>1, <1>2, <1>3, <1>4, <1>5, <1>8, <2>1, CountNat, SMT
<1>9. CASE t + 1 = s /\ i = 0 /\ k = Base(job, s) /\ (Driven(job, t) => n = Iters)
  <2>1. HeldBy(job, t, n, k) = Full(job, t + 1)
    BY <1>1, <1>9, CountNext
  <2> QED BY <1>1, <1>2, <1>3, <1>4, <1>5, <1>9, <2>1, CountNat, SMT
<1> QED BY <1>2, <1>6, <1>7, <1>8, <1>9 DEF Gathered

(* What a receiver holds is told by its buffer and its benchmark.          *)
HeldIn(j, s, b) ==
    Min({IF piece = Junk THEN Full(j, s) ELSE Full(j, piece[1] - 1) + piece[2] :
             piece \in {b[p] : p \in 1 .. Pipelined(j)}})
HeldByBuffer == \A r \in Receiver : Held(r) = HeldIn(job, step[r], lbuf[r])
(* Nothing else matters.                                                   *)
LEMMA HeldInIs == HeldByBuffer
<1>1. Piece = 1 .. Pipelined(job)
  BY DEF Piece, NChunks, Pipelined
<1> SUFFICES ASSUME NEW r \in Receiver PROVE Held(r) = HeldIn(job, step[r], lbuf[r])
  BY DEF HeldByBuffer
<1> QED BY <1>1 DEF Held, HeldIn, RunBefore, Full, Ran

(* The others, and those refused, hold what they held.                     *)
LEMMA OthersHeld ==
    ASSUME IInv, NEW r \in Rank, RankStep(r) \/ Launcher(r), NEW q \in Receiver,
           q # r \/ q \in refused'
    PROVE  Held(q)' = Held(q)
<1>1. job' = job /\ TypeOK /\ q \in Rank
  BY Counters DEF Receiver
<1>2. step'[q] = step[q] /\ lbuf'[q] = lbuf[q]
  <2>1. CASE q # r
    BY <1>1, <2>1, OthersKeep, OthersBuffers
  <2>2. CASE q = r /\ r \in refused
    BY <2>2, RefusedIdle DEF Idle, bufs
  <2>3. CASE q = r /\ r \notin refused /\ r \in refused'
    BY <2>3, Kinds DEF Idle, Preparing, Beginning, Announcing, Packing, Gathering, Copying,
       Refusing, Returning, Leaving, Advancing, bufs
  <2> QED BY <2>1, <2>2, <2>3
<1>3. Held(q) = HeldIn(job, step[q], lbuf[q])
  BY HeldInIs DEF HeldByBuffer
<1>4. Held(q)' = HeldIn(job', step'[q], lbuf'[q])
  <2>1. HeldByBuffer'
    BY HeldInIs, PTL
  <2> QED BY <2>1 DEF HeldByBuffer, Receiver
<1> QED BY <1>1, <1>2, <1>3, <1>4

(* What holds of the counts on both sides of a step.                       *)
Tallied == AnnouncedAsCounted /\ HeldAsCounted

(* Nothing is taken if the rank that steps does not complete a round.      *)
LEMMA NothingTaken ==
    ASSUME IInv, NEW r \in Rank, RankStep(r) \/ Launcher(r), Tallied, Tallied',
           r \in Receiver /\ r \notin refused' => HeldOf(r)' = HeldOf(r)
    PROVE  held' = held
<1>1. ASSUME NEW q \in Receiver PROVE Held(q)' = Held(q)
  <2>1. CASE q # r \/ q \in refused'
    BY <2>1, OthersHeld
  <2>2. CASE q = r /\ q \notin refused'
    <3>1. q \notin refused
      BY <2>2, MarksStay
    <3> QED BY <2>2, <3>1 DEF Tallied, HeldAsCounted, Receiver
  <2> QED BY <2>1, <2>2
<1> QED BY <1>1 DEF held, Receiver

(* Nothing is announced if it is not the sender, or calls for no more.     *)
LEMMA NothingAnnounced ==
    ASSUME IInv, NEW r \in Rank, RankStep(r) \/ Launcher(r), Tallied, Tallied',
           r # Sender \/ SentOf(r)' = SentOf(r)
    PROVE  Announced' = Announced
<1>1. job' = job /\ TypeOK /\ Sender \in Rank
  BY Counters
<1>2. SentOf(Sender)' = SentOf(Sender)
  <2>1. CASE r # Sender
    <3>1. step'[Sender] = step[Sender] /\ iter'[Sender] = iter[Sender]
          /\ Pos(Sender)' = Pos(Sender)
      BY <1>1, <2>1, OthersKeep
    <3> QED BY <1>1, <3>1 DEF SentOf
  <2> QED BY <2>1
<1> QED BY <1>2 DEF Tallied, AnnouncedAsCounted

(* The RTS of a round publishes it, at a time when all receivers hold the  *)
(* last one of all benchmarks.                                             *)
LEMMA RtsPublishes ==
    ASSUME IInv, Data, Big, Tallied, Tallied', RankStep(Sender) \/ Launcher(Sender),
           Driven(job, step[Sender]), iter[Sender] < Iters, Pos(Sender) = Here(Sender),
           pc[Sender] \notin Outside, SentOf(Sender)' = SentOf(Sender) + 1
    PROVE  Abstract!Publish
<1> DEFINE n == Full(job, step[Sender]) + iter[Sender]
<1>1. Sender \in Rank /\ Sender \notin Receiver
  BY SenderAssumption DEF Receiver
<1>2. SentOf(Sender) = n
  BY <1>1, HeldAtRts
<1>3. Announced = n /\ Announced' = n + 1
  BY <1>2 DEF Tallied, AnnouncedAsCounted
<1>4. \A r \in Receiver : Held(r) = n
  BY HeldAtRts DEF Tallied, HeldAsCounted, Receiver
<1>5. n < 5 * BufSize * Iters
  BY RoundsRemain
<1>6. held' = held
  BY <1>1, NothingTaken
<1> QED BY <1>3, <1>4, <1>5, <1>6 DEF Abstract!Publish, held

(* The last chunk of a copy takes the round the sender announced.          *)
LEMMA CopyTakes ==
    ASSUME IInv, Tallied, Tallied', NEW r \in Rank, RankStep(r) \/ Launcher(r), Copying(r),
           chunk[r] = ChunksOf(job, step[r])
    PROVE  r \in Receiver /\ Abstract!Take(r)
<1> DEFINE s == step[r]
           i == iter[r]
           k == Pos(r)
           n == Full(job, s) + i
<1>1. /\ TypeOK /\ job \in Jobs /\ Sender \in Rank /\ s \in Nat /\ i \in Nat /\ i <= Iters
      /\ k \in Nat /\ Pos(Sender) \in Nat /\ Iters \in Nat \ {0}
  BY Counters
<1>2. /\ r # Sender /\ Pos(Sender) >= k /\ Driven(job, s) /\ i < Iters
      /\ Loop(job, s, i) < k /\ k < Loop(job, s, i + 1)
      /\ step[Sender] = s /\ iter[Sender] = i
  BY CopierIsInside DEF Copying, Here, After
<1>3. r \in Receiver /\ r \notin refused /\ refused' = refused
  BY <1>2 DEF Copying, Receiver, IInv, Control, Refusal, Stopped, Failed
<1>4. Ordered(job, s, i) /\ Full(job, s) \in Nat
  BY <1>1, Around, FullFacts
<1>5. SentOf(Sender) = n + 1
  <2>1. Pos(Sender) >= Loop(job, s, i) /\ Pos(Sender) # Loop(job, s, i)
    BY <1>1, <1>2, <1>4, SMT DEF Ordered
  <2> QED BY <1>1, <1>2, <2>1, CountInside DEF SentOf
<1>6. HeldOf(r) = n
  <2>1. k >= Loop(job, s, i)
    BY <1>1, <1>2, <1>4, SMT DEF Ordered
  <2>2. HeldBy(job, s, i, k) = n + 0
    BY <1>1, <1>2, <2>1, CountInside
  <2> QED BY <1>1, <1>4, <2>2, SMT DEF HeldOf
<1>7. HeldOf(r)' = n + 1
  BY <1>6, CallCounts
<1>8. Announced = n + 1 /\ Announced' = Announced
  BY <1>2, <1>5, NothingAnnounced DEF Tallied, AnnouncedAsCounted
<1>9. Held(r) = n /\ Held(r)' = n + 1
  <2>1. r \notin refused' /\ r \in Receiver'
    BY <1>3 DEF Receiver
  <2> QED BY <1>3, <1>6, <1>7, <2>1 DEF Tallied, HeldAsCounted
<1>10. \A q \in Receiver : q # r => Held(q)' = Held(q)
  BY OthersHeld
<1>11. n < n + 1
  BY <1>1, <1>4, SMT
<1> HIDE DEF n
<1>12. held[r] < Announced
  BY <1>3, <1>8, <1>9, <1>11 DEF held
<1>13. held' = [held EXCEPT ![r] = Announced]
  <2>1. held' = [q \in Receiver |-> Held(q)']
    BY DEF held, Receiver
  <2> QED BY <1>3, <1>8, <1>9, <1>10, <2>1 DEF held
<1> QED BY <1>3, <1>8, <1>12, <1>13 DEF Abstract!Take

(* Every step is one of the abstract specification, or changes nothing it  *)
(* speaks of.                                                              *)
LEMMA StepSimulates ==
    ASSUME IInv, Data, Big, Tallied, Tallied', NEW r \in Rank, RankStep(r) \/ Launcher(r)
    PROVE  Abstract!Next \/ UNCHANGED <<Announced, held>>
<1>1. /\ TypeOK /\ job \in Jobs /\ Sender \in Rank /\ chunk[r] \in Nat \ {0}
      /\ step[r] \in Nat /\ Pos(r) \in Nat /\ Here(r) \in Nat
      /\ ChunksOf(job, step[r]) \in Nat
  BY Counters, Places
<1>2. ASSUME Quiet(r) PROVE UNCHANGED <<Announced, held>>
  BY <1>2, QuietCounts, NothingTaken, NothingAnnounced
<1>3. ASSUME Refusing(r) PROVE UNCHANGED <<Announced, held>>
  <2>1. r \in refused' /\ r # Sender
    BY <1>3, CopierIsInside DEF Refusing
  <2> QED BY <2>1, NothingTaken, NothingAnnounced
<1>4. CASE Announcing(r)
  <2>1. SentOf(r)' = SentOf(r) + 1 /\ HeldOf(r)' = HeldOf(r)
    BY <1>4, CallCounts
  <2>2. CASE r = Sender
    <3>1. Abstract!Publish
      BY <1>4, <2>1, <2>2, RtsPublishes DEF Announcing
    <3> QED BY <3>1 DEF Abstract!Next
  <2>3. CASE r # Sender
    BY <2>1, <2>3, NothingTaken, NothingAnnounced
  <2> QED BY <2>2, <2>3
<1>5. CASE Packing(r)
  <2>1. SentOf(r)' = SentOf(r) + (IF chunk[r] = 1 THEN 1 ELSE 0) /\ HeldOf(r)' = HeldOf(r)
    BY <1>5, CallCounts
  <2>2. CASE chunk[r] = 1
    <3>1. Pos(r) = Here(r)
      BY <1>1, <1>5, <2>2, SMT DEF Packing
    <3>2. Abstract!Publish
      BY <1>5, <2>1, <2>2, <3>1, RtsPublishes DEF Packing
    <3> QED BY <3>2 DEF Abstract!Next
  <2>3. CASE chunk[r] # 1
    <3>1. SentOf(r)' = SentOf(r)
      <4>1. SentOf(r) \in Nat
        BY <1>1, CountNat
      <4> QED BY <2>1, <2>3, <4>1, SMT
    <3> QED BY <2>1, <3>1, NothingTaken, NothingAnnounced
  <2> QED BY <2>2, <2>3
<1>6. CASE Gathering(r)
  <2>1. SentOf(r)' = SentOf(r) /\ r \notin Receiver
    BY <1>6, CallCounts DEF Gathering, Receiver
  <2> QED BY <2>1, NothingTaken, NothingAnnounced
<1>7. CASE Copying(r)
  <2>1. CASE chunk[r] = ChunksOf(job, step[r])
    BY <1>7, <2>1, CopyTakes DEF Abstract!Next
  <2>2. CASE chunk[r] # ChunksOf(job, step[r])
    <3>1. HeldOf(r) \in Nat /\ HeldOf(r)' = HeldOf(r) + 0
      BY <1>1, <1>7, <2>2, CallCounts, CountNat
    <3>2. HeldOf(r)' = HeldOf(r)
      BY <3>1, SMT
    <3>3. r # Sender
      BY <1>7, CopierIsInside DEF Copying
    <3> QED BY <3>2, <3>3, NothingTaken, NothingAnnounced
  <2> QED BY <2>1, <2>2
<1> QED BY <1>2, <1>3, <1>4, <1>5, <1>6, <1>7, Kinds DEF Quiet

-----------------------------------------------------------------------------
(* The invariant of the refinement.                                        *)
RInv == IInv /\ Data /\ Counted /\ KeptAll /\ Big

(* It says what is announced and what is held.                             *)
LEMMA RInvTallies == RInv => AnnouncedAsCounted /\ (wild = 0 => HeldAsCounted)
BY AnnouncedIs, HeldIs DEF RInv

(* Every step keeps it ...                                                 *)
LEMMA RInvNext == RInv /\ [Next]_vars => RInv'
<1> SUFFICES ASSUME RInv, [Next]_vars PROVE RInv'
  OBVIOUS
<1>1. IInv' /\ Data'
  BY NextIInv, DataNext DEF RInv
<1>2. CASE UNCHANGED vars
  <2>1. UNCHANGED <<pc, calls, iter, job, step, blocksize, lbuf, refused, wild>>
    BY <1>2 DEF vars, local, bufs
  <2>2. Counted' /\ KeptAll' /\ Big'
    BY <2>1 DEF RInv, Counted, Gathers, Calls, HeldOf, Pos, KeptAll, Kept, Big
  <2> QED BY <1>1, <2>2 DEF RInv
<1>3. ASSUME NEW r \in Rank, RankStep(r) \/ Launcher(r) PROVE RInv'
  BY <1>1, <1>3, CountedStep, KeptStep, BigStep DEF RInv, Data
<1> QED BY <1>2, <1>3 DEF Next, Terminating

(* ... and it holds at the start, where nothing is announced or held.      *)
LEMMA RInvInit == Init => RInv /\ Abstract!Init
<1> SUFFICES ASSUME Init PROVE RInv /\ Abstract!Init
  OBVIOUS
<1>1. IInv /\ Data /\ Counted /\ KeptAll
  BY InitIInv, DataInit, CountedInit
<1>2. Big
  BY SenderAssumption DEF Init, Big
<1>3. AnnouncedAsCounted /\ HeldAsCounted
  BY <1>1, <1>2, RInvTallies DEF RInv, Init
<1>4. /\ \A r \in Rank : Pos(r) = 0 /\ step[r] = 0 /\ iter[r] = 0
      /\ refused = {} /\ job \in Jobs /\ Sender \in Rank
  BY <1>1, SenderAssumption DEF Init, Pos, IInv
<1>5. SentBy(job, 0, 0, 0) = 0 /\ HeldBy(job, 0, 0, 0) = 0
  <2>1. 0 \in Nat /\ 0 <= Iters
    BY LoopAssumption, SMT DEF Iters
  <2>2. Ordered(job, 0, 0)
    BY <1>4, <2>1, Around
  <2>3. 0 <= Loop(job, 0, 0)
    BY <2>2, SMT DEF Ordered
  <2>4. SentBy(job, 0, 0, 0) = Full(job, 0) /\ HeldBy(job, 0, 0, 0) = Full(job, 0)
    BY <1>4, <2>1, <2>3, CountBefore
  <2>5. Full(job, 0) = 0
    BY <1>4, <2>1, FullFacts
  <2> QED BY <2>4, <2>5
<1>6. Announced = 0 /\ \A r \in Receiver : Held(r) = 0
  BY <1>3, <1>4, <1>5 DEF AnnouncedAsCounted, HeldAsCounted, SentOf, HeldOf, Receiver
<1> QED BY <1>1, <1>2, <1>6 DEF RInv, Abstract!Init, held

(* bench as a whole keeps the promise of every transport, across all five  *)
(* benchmarks and all block sizes, as long as no copy has gone astray.     *)
THEOREM Implements == Spec => ImplementsTransfer
<1> DEFINE A == wild' = 0 => Abstract!Next \/ UNCHANGED <<Announced, held>>
<1>1. Init => RInv /\ Abstract!Init
  BY RInvInit
<1>2. RInv /\ [Next]_vars => RInv'
  BY RInvNext
<1>3. RInv => AnnouncedAsCounted /\ (wild = 0 => HeldAsCounted)
  BY RInvTallies
<1>4. ASSUME RInv, Next, AnnouncedAsCounted, wild = 0 => HeldAsCounted,
             AnnouncedAsCounted', (wild = 0 => HeldAsCounted)'
      PROVE  A \/ UNCHANGED vars
  <2> SUFFICES ASSUME wild' = 0, ~UNCHANGED vars
               PROVE  Abstract!Next \/ UNCHANGED <<Announced, held>>
    OBVIOUS
  <2>1. PICK r \in Rank : RankStep(r) \/ Launcher(r)
    BY <1>4 DEF Next, Terminating
  <2>2. wild = 0
    BY <1>4, <2>1, MarksStay DEF RInv
  <2>3. Tallied /\ Tallied'
    BY <1>4, <2>2 DEF Tallied
  <2> QED BY <1>4, <2>1, <2>3, StepSimulates DEF RInv
<1> HIDE DEF A
<1>5. RInv /\ [Next]_vars /\ (AnnouncedAsCounted /\ (wild = 0 => HeldAsCounted))
          /\ (AnnouncedAsCounted /\ (wild = 0 => HeldAsCounted))' => [A]_vars
  BY <1>4
<1>6. Spec => Abstract!Init /\ [][A]_vars
  BY <1>1, <1>2, <1>3, <1>5, PTL DEF Spec
<1> QED BY <1>6 DEF ImplementsTransfer, A
=============================================================================
