------------------------ MODULE ShmemPipelineDtProofs ------------------------
(***************************************************************************)
(* Proofs about ShmemPipelineDt, for any number of ranks, rounds, block,   *)
(* chunk and file sizes, whether or not the chunks end where the blocks do.*)
(* Sender and receivers count the chunks of a round for themselves; that   *)
(* they agree is a matter of arithmetic: each chunk moves a cursor by      *)
(* exactly depth bytes, so the blocks of a round make Chunks of them, and  *)
(* the number of collectives a rank has entered tells where it is.         *)
(***************************************************************************)
EXTENDS ShmemPipelineDt, MpiProofs

(* The bytes the blocks of a round hold, and the chunks they make.         *)
Total == NBlocks * blocksize
Chunks == (Total + depth - 1) \div depth

(* n chunks of d bytes.                                                    *)
Bytes(d, n) == n * d

(* How many collectives a rank has entered before round i, with c chunks to*)
(* a round: a barrier, and c announcements and a gather for each round.    *)
Start(c, i) == i * (c + 1) + 1

(* ... and how many of the current round.                                  *)
Entered(r) == Pos(r) - Start(Chunks, iter[r])

InRound == {"chunk", "pack", "bcast", "unpack", "gather"}

(* Where a rank is, told by its pc.                                        *)
Own(r) ==
    /\ pc[r] \notin {"setup", "crashed", "killed"} => blocksize > 0
    /\ blocksize = 0 => Pos(r) = 0 /\ iter[r] = 0
    /\ pc[r] = "setup" => Pos(r) = 0 /\ iter[r] = 0
    /\ pc[r] = "start_barrier" => Pos(r) = 1 /\ iter[r] = 0
    /\ pc[r] = "loop" => Entered(r) = 0
    /\ pc[r] \in InRound => iter[r] < Iters
    /\ pc[r] = "chunk" =>
           Entered(r) \in 0 .. Chunks /\ shmoff[r] = Bytes(depth, Entered(r))
    /\ pc[r] = "pack" =>
           /\ r = Sender /\ Entered(r) \in 0 .. Chunks /\ Entered(r) < Chunks
           /\ shmoff[r] + capacity[r] = Bytes(depth, Entered(r) + 1)
    /\ pc[r] = "bcast" =>
           /\ Entered(r) \in 1 .. Chunks
           /\ shmoff[r] = Bytes(depth, IF r = Sender THEN Entered(r) ELSE Entered(r) - 1)
    /\ pc[r] = "unpack" =>
           /\ r # Sender /\ Entered(r) \in 1 .. Chunks /\ Pos(Sender) >= Pos(r)
           /\ shmoff[r] + capacity[r] = Bytes(depth, Entered(r))
    /\ pc[r] = "gather" => Entered(r) = Chunks + 1
    /\ pc[r] \in {"end_barrier", "done"} => iter[r] = Iters /\ Entered(r) = 1

(* Within the blocks the cursor is inside one of them; past them the bytes *)
(* of all the blocks are behind it.                                        *)
Cursor(r) ==
    blocksize > 0 =>
        /\ iovcnt[r] < NBlocks => iovoff[r] < blocksize
        /\ iovcnt[r] >= NBlocks => shmoff[r] >= Total

(* The sender waits for everybody's FIN.                                   *)
Lag(r) == iter[Sender] > 0 => Pos(r) >= Start(Chunks, iter[Sender])

(* The k-th collective of every rank.                                      *)
Expected(k) ==
    IF k = 1 \/ k = Start(Chunks, Iters) + 1 THEN "barrier"
    ELSE IF \E j \in 1 .. Iters : k = Start(Chunks, j) THEN "gather" ELSE "bcast"
Shape(r) == \A k \in 1 .. Pos(r) : calls[r][k] = Expected(k)

Control == \A r \in Rank : Own(r) /\ Cursor(r) /\ Lag(r) /\ Shape(r)

IInv == TypeOK /\ Control

-----------------------------------------------------------------------------
(* The numbers the proofs are about, and how they are related.             *)
LEMMA Numbers ==
    ASSUME TypeOK
    PROVE  /\ blocksize \in Nat /\ depth \in Nat \ {0} /\ BufSize \in Nat \ {0}
           /\ Iters \in Nat \ {0} /\ Sender \in Rank
<1>1. blocksize \in Nat /\ depth \in Nat \ {0} /\ BufSize \in Nat \ {0}
  BY ArgsAssumption, DepthAssumption DEF TypeOK
<1>2. Iters \in Nat \ {0}
  BY LoopAssumption, SMT DEF Iters
<1> QED BY <1>1, <1>2, SenderAssumption

(* The blocks lie in the buffer, one behind the other.                     *)
LEMMA TotalFits ==
    ASSUME TypeOK, blocksize > 0
    PROVE  /\ NBlocks \in Nat /\ NBlocks <= BufSize /\ Total \in Nat /\ Total <= BufSize
           /\ \A k \in Nat : /\ k * blocksize \in Nat
                             /\ (k + 1) * blocksize = k * blocksize + blocksize
                             /\ k < NBlocks => (k + 1) * blocksize <= Total
<1>1. blocksize \in Nat \ {0} /\ BufSize \in Nat
  BY Numbers, SMT
<1>2. NBlocks \in Nat /\ NBlocks <= BufSize
  <2>1. NBlocks \in Nat
    BY <1>1, SMT DEF NBlocks
  <2>2. CASE NBlocks = 0
    BY <1>1, <2>2, SMT
  <2>3. CASE NBlocks # 0
    <3>1. NBlocks - 1 \in Nat /\ NBlocks - 1 < BufSize \div blocksize
      BY <2>1, <2>3, SMT DEF NBlocks
    <3>2. (NBlocks - 1) + 1 <= BufSize
      BY <1>1, <3>1, BlockFits
    <3> QED BY <1>1, <2>1, <3>2, SMT
  <2> QED BY <2>1, <2>2, <2>3
<1>3. Total \in Nat /\ Total <= BufSize
  BY <1>1, <1>2, SMT DEF Total, NBlocks
<1>4. ASSUME NEW k \in Nat
      PROVE  /\ k * blocksize \in Nat
             /\ (k + 1) * blocksize = k * blocksize + blocksize
             /\ k < NBlocks => (k + 1) * blocksize <= Total
  <2>1. k * blocksize \in Nat /\ (k + 1) * blocksize = k * blocksize + blocksize
    BY <1>1, MulSucc
  <2>2. ASSUME k < NBlocks PROVE (k + 1) * blocksize <= NBlocks * blocksize
    <3>1. k + 1 \in Nat /\ k + 1 <= NBlocks
      BY <1>2, <2>2, SMT
    <3> QED BY <1>1, <1>2, <3>1, MulMonotone
  <2> QED BY <2>1, <2>2 DEF Total
<1> QED BY <1>2, <1>3, <1>4

(* A chunk begins below the end of the blocks until Chunks of them are     *)
(* done.                                                                   *)
LEMMA ChunkFacts ==
    ASSUME TypeOK, blocksize > 0
    PROVE  /\ Chunks \in Nat
           /\ Bytes(depth, 0) = 0
           /\ \A n \in Nat : /\ Bytes(depth, n) \in Nat
                             /\ Bytes(depth, n + 1) = Bytes(depth, n) + depth
                             /\ Bytes(depth, n) < Total <=> n < Chunks
           /\ \A m, n \in Nat : m <= n => Bytes(depth, m) <= Bytes(depth, n)
<1> DEFINE d == depth
           t == Total
           c == Chunks
<1>1. d \in Nat \ {0} /\ t \in Nat
  BY Numbers, TotalFits
<1>2. c = (t + d - 1) \div d
  BY DEF Chunks
<1> HIDE DEF d, t, c
<1>3. t + d - 1 \in Nat
  BY <1>1, SMT
<1>4. c \in Nat /\ c * d <= t + d - 1 /\ t + d - 1 < (c + 1) * d
  BY <1>1, <1>2, <1>3, SMT
<1>5. (c + 1) * d = c * d + d /\ c * d \in Nat
  BY <1>1, <1>4, MulSucc
<1>6. ASSUME NEW m \in Nat, NEW n \in Nat, m <= n PROVE m * d <= n * d
  BY <1>1, <1>6, MulMonotone
<1>7. ASSUME NEW n \in Nat PROVE n * d \in Nat /\ (n + 1) * d = n * d + d
  BY <1>1, MulSucc
<1>8. ASSUME NEW n \in Nat PROVE n * d < t <=> n < c
  <2>1. n < c => (n + 1) * d <= c * d
    <3>1. n < c => n + 1 <= c /\ n + 1 \in Nat
      BY <1>4, SMT
    <3> QED BY <1>4, <1>6, <3>1
  <2>2. ~(n < c) => c * d <= n * d
    <3>1. ~(n < c) => c <= n
      BY <1>4, SMT
    <3> QED BY <1>4, <1>6, <3>1
  <2> QED BY <1>1, <1>4, <1>5, <1>7, <2>1, <2>2, SMT
<1>9. 0 * d = 0
  BY <1>1, MulZero
<1> QED BY <1>4, <1>6, <1>7, <1>8, <1>9 DEF Bytes, d, t, c

(* Where the rounds begin.                                                 *)
LEMMA StartFacts ==
    ASSUME NEW c \in Nat
    PROVE  /\ Start(c, 0) = 1
           /\ \A j \in Nat : /\ Start(c, j) \in Nat /\ Start(c, j) >= 1
                             /\ Start(c, j + 1) = Start(c, j) + c + 1
           /\ \A j, k \in Nat : j < k => Start(c, j + 1) <= Start(c, k)
<1>1. c + 1 \in Nat
  BY SMT
<1>2. ASSUME NEW j \in Nat
      PROVE  j * (c + 1) \in Nat /\ (j + 1) * (c + 1) = j * (c + 1) + (c + 1)
  BY <1>1, MulSucc
<1>3. ASSUME NEW j \in Nat, NEW k \in Nat, j < k PROVE (j + 1) * (c + 1) <= k * (c + 1)
  <2>1. j + 1 \in Nat /\ j + 1 <= k
    BY <1>3, SMT
  <2> QED BY <1>1, <2>1, MulMonotone
<1>4. 0 * (c + 1) = 0
  BY <1>1, MulZero
<1>5. ASSUME NEW j \in Nat
      PROVE  /\ Start(c, j) \in Nat /\ Start(c, j) >= 1
             /\ Start(c, j + 1) = Start(c, j) + c + 1
  <2> DEFINE p == j * (c + 1)
             q == (j + 1) * (c + 1)
  <2>1. p \in Nat /\ q = p + (c + 1) /\ Start(c, j) = p + 1 /\ Start(c, j + 1) = q + 1
    BY <1>2 DEF Start
  <2> HIDE DEF p, q
  <2> QED BY <2>1, SMT
<1>6. ASSUME NEW j \in Nat, NEW k \in Nat, j < k PROVE Start(c, j + 1) <= Start(c, k)
  <2> DEFINE p == k * (c + 1)
             q == (j + 1) * (c + 1)
  <2>1. /\ p \in Nat /\ q \in Nat /\ q <= p
        /\ Start(c, k) = p + 1 /\ Start(c, j + 1) = q + 1
    <3>1. p \in Nat /\ q \in Nat
      BY <1>1, <1>2, SMT
    <3> QED BY <1>3, <1>6, <3>1 DEF Start
  <2> HIDE DEF p, q
  <2> QED BY <2>1, SMT
<1>7. Start(c, 0) = 1
  BY <1>4, SMT DEF Start
<1> QED BY <1>5, <1>6, <1>7

(* The smaller of two numbers.                                             *)
LEMMA MinOfTwo ==
    ASSUME NEW a \in Nat, NEW b \in Nat
    PROVE  Min({a, b}) = IF a <= b THEN a ELSE b
<1>1. \E x \in {a, b} : \A y \in {a, b} : x <= y
  BY SMT
<1>2. Min({a, b}) \in {a, b} /\ \A y \in {a, b} : Min({a, b}) <= y
  BY <1>1, Zenon DEF Min
<1> QED BY <1>2, SMT

(* A copy that has a block left stays inside it, and inside the buffer, and*)
(* moves every byte to its own place.                                      *)
LEMMA Piece ==
    ASSUME TypeOK, NEW r \in Rank, Cursor(r), blocksize > 0
    PROVE  /\ iovcnt[r] < NBlocks <=> shmoff[r] < Total
           /\ iovcnt[r] < NBlocks =>
                 /\ Left(r) \in Nat \ {0} /\ Length(r) \in Nat
                 /\ Length(r) = IF capacity[r] >= Left(r) THEN Left(r) ELSE capacity[r]
                 /\ shmoff[r] + Length(r) <= Total
                 /\ (iovcnt[r] + 1) * blocksize = shmoff[r] + Left(r)
                 /\ Window(r) \subseteq Byte
                 /\ \A x \in Window(r) :
                       x \in Nat /\ shmoff[r] <= x /\ x < shmoff[r] + Length(r) /\ Partner(r, x) = x
<1> DEFINE k == iovcnt[r]
           b == blocksize
           o == iovoff[r]
           s == shmoff[r]
           w == capacity[r]
<1>1. /\ b \in Nat /\ b > 0 /\ k \in Nat /\ o \in Nat /\ s \in Nat /\ w \in Nat
      /\ BufSize \in Nat
  <2>1. k \in Nat /\ w \in Nat
    BY Numbers, DepthAssumption, SMT DEF TypeOK
  <2> QED BY <2>1, Numbers DEF TypeOK
<1>2. /\ NBlocks \in Nat /\ Total \in Nat /\ Total <= BufSize /\ k * b \in Nat
      /\ (k + 1) * b = k * b + b
      /\ k < NBlocks => (k + 1) * b <= Total
  BY <1>1, TotalFits
<1>3. /\ k < NBlocks => o < b /\ s = k * b + o
      /\ k >= NBlocks => s >= Total
  BY DEF Cursor, TypeOK
<1>4. Left(r) = b - o
  BY DEF Left
<1> HIDE DEF k, b, o, s, w
<1>5. k < NBlocks => s < Total
  <2> DEFINE p == k * b
             q == (k + 1) * b
  <2>1. /\ p \in Nat /\ q = p + b
        /\ k < NBlocks => q <= Total /\ s = p + o /\ o < b
    BY <1>2, <1>3
  <2> HIDE DEF p, q
  <2> QED BY <1>1, <1>2, <2>1, SMT
<1>6. ~(k < NBlocks) => ~(s < Total)
  BY <1>1, <1>2, <1>3, SMT
<1>7. ASSUME k < NBlocks
      PROVE  /\ Left(r) \in Nat \ {0} /\ Length(r) \in Nat
             /\ Length(r) = IF w >= Left(r) THEN Left(r) ELSE w
             /\ s + Length(r) <= Total
             /\ (k + 1) * b = s + Left(r)
             /\ Window(r) \subseteq Byte
             /\ \A x \in Window(r) : x \in Nat /\ s <= x /\ x < s + Length(r) /\ Partner(r, x) = x
  <2>1. Left(r) \in Nat \ {0}
    BY <1>1, <1>3, <1>4, <1>7, SMT
  <2>2. Length(r) = IF w <= Left(r) THEN w ELSE Left(r)
    <3>1. Length(r) = Min({w, Left(r)})
      BY DEF Length, w
    <3> QED BY <1>1, <2>1, <3>1, MinOfTwo
  <2>3. Length(r) = (IF w >= Left(r) THEN Left(r) ELSE w) /\ Length(r) <= Left(r)
        /\ Length(r) \in Nat
    BY <1>1, <2>1, <2>2, SMT
  <2>4. (k + 1) * b = s + Left(r) /\ s + Left(r) <= Total
    <3> DEFINE p == k * b
               q == (k + 1) * b
    <3>1. /\ p \in Nat /\ q = p + b /\ q <= Total /\ s = p + o /\ o < b
      BY <1>2, <1>3, <1>7
    <3> HIDE DEF p, q
    <3>2. q = s + Left(r) /\ s + Left(r) <= Total
      BY <1>1, <1>2, <1>4, <3>1, SMT
    <3> QED BY <3>2 DEF q
  <2>5. s + Length(r) <= Total
    BY <1>1, <1>2, <2>1, <2>3, <2>4, SMT
  <2>6. Window(r) = s .. s + Length(r) - 1
    BY DEF Window, s
  <2>7. \A x \in Window(r) : x \in Nat /\ s <= x /\ x < s + Length(r)
    BY <1>1, <2>3, <2>6, SMT
  <2>8. Window(r) \subseteq Byte
    BY <1>1, <1>2, <2>3, <2>5, <2>6, SMT DEF Byte
  <2>9. \A x \in Window(r) : Partner(r, x) = x
    <3> DEFINE p == k * b
    <3>1. p \in Nat /\ s = p + o /\ \A x : Partner(r, x) = p + o + (x - s)
      BY <1>2, <1>3, <1>7 DEF Partner, k, b, o, s
    <3> HIDE DEF p
    <3> QED BY <1>1, <2>7, <3>1, SMT
  <2> QED BY <2>1, <2>3, <2>4, <2>5, <2>7, <2>8, <2>9
<1> QED BY <1>5, <1>6, <1>7 DEF k, b, o, s, w

-----------------------------------------------------------------------------
(* A rank that dies changes nothing but its own pc.                        *)
Dies(r) == DivideByZero(r) \/ Fault(r) \/ OverrunFault(r) \/ AssertFails(r) \/ Launcher(r)

(* The rest of the state, and every other rank, is as before.              *)
LEMMA DyingKeeps ==
    ASSUME TypeOK, NEW r \in Rank, Dies(r)
    PROVE  /\ UNCHANGED <<calls, iter, clock, iovcnt, iovoff, shmoff, capacity, shm, lbuf,
                          blocksize, mapped, fsize, depth>>
           /\ pc'[r] \in Stopped \ {"done"}
           /\ pc'[r] = "aborted" => pc[r] = "gather"
           /\ \A q \in Rank \ {r} : pc'[q] = pc[q]
<1>1. UNCHANGED <<calls, iter, clock, iovcnt, iovoff, shmoff, capacity, shm, lbuf,
                  blocksize, mapped, fsize, depth>>
  BY DEF Dies, DivideByZero, Fault, OverrunFault, AssertFails, Launcher, Kill, cursor, mem, args,
     file
<1>2. \/ pc' = [pc EXCEPT ![r] = "crashed"] \/ pc' = [pc EXCEPT ![r] = "killed"]
      \/ pc' = [pc EXCEPT ![r] = "aborted"] /\ pc[r] = "gather"
  BY DEF Dies, DivideByZero, Fault, OverrunFault, AssertFails, Launcher, Kill, Goto
<1> QED BY <1>1, <1>2 DEF TypeOK, Stopped, Failed

(* The arguments do not change, nor the numbers that depend on them.       *)
LEMMA FixedArgs ==
    ASSUME NEW r \in Rank, RankStep(r) \/ Launcher(r)
    PROVE  /\ blocksize' = blocksize /\ depth' = depth
           /\ NBlocks' = NBlocks /\ Total' = Total /\ Chunks' = Chunks
<1>1. blocksize' = blocksize /\ depth' = depth
  BY DEF RankStep, Launcher, DivideByZero, Setup, OpenAndMap, PassStartBarrier, StartRound,
     BeginChunk, PackPiece, UnpackPiece, Fault, Overrun, OverrunFault, EndChunk, PassBcast, SendFin,
     PassFin, AssertFails, EndLoop, Finish, Unmap, args, file
<1> QED BY <1>1 DEF NBlocks, Total, Chunks

(* A rank leaves the variables of the others alone.                        *)
LEMMA OthersKeep ==
    ASSUME TypeOK, NEW r \in Rank, RankStep(r) \/ Launcher(r), NEW q \in Rank, q # r
    PROVE  /\ pc'[q] = pc[q] /\ calls'[q] = calls[q] /\ iter'[q] = iter[q] /\ Pos(q)' = Pos(q)
           /\ iovcnt'[q] = iovcnt[q] /\ iovoff'[q] = iovoff[q]
           /\ shmoff'[q] = shmoff[q] /\ capacity'[q] = capacity[q]
<1>1. CASE Dies(r)
  BY <1>1, DyingKeeps DEF Pos
<1>2. CASE ~Dies(r)
  <2>1. pc'[q] = pc[q]
    BY <1>2 DEF TypeOK, RankStep, Dies, Setup, PassStartBarrier, StartRound, BeginChunk, PackPiece,
       UnpackPiece, Overrun, EndChunk, PassBcast, SendFin, PassFin, EndLoop, Finish, Goto
  <2>2. calls'[q] = calls[q]
    BY <1>2 DEF TypeOK, RankStep, Dies, Setup, PassStartBarrier, StartRound, BeginChunk, PackPiece,
       UnpackPiece, Overrun, EndChunk, PassBcast, SendFin, PassFin, EndLoop, Finish, Enter
  <2>3. iter'[q] = iter[q]
    BY <1>2 DEF TypeOK, RankStep, Dies, Setup, PassStartBarrier, StartRound, BeginChunk, PackPiece,
       UnpackPiece, Overrun, EndChunk, PassBcast, SendFin, PassFin, EndLoop, Finish
  <2>4. iovcnt'[q] = iovcnt[q] /\ iovoff'[q] = iovoff[q]
    BY <1>2 DEF TypeOK, RankStep, Dies, Setup, PassStartBarrier, StartRound, BeginChunk, PackPiece,
       UnpackPiece, Overrun, EndChunk, PassBcast, SendFin, PassFin, EndLoop, Finish, cursor,
       ResetCursor, AdvanceCursor
  <2>5. shmoff'[q] = shmoff[q] /\ capacity'[q] = capacity[q]
    BY <1>2 DEF TypeOK, RankStep, Dies, Setup, PassStartBarrier, StartRound, BeginChunk, PackPiece,
       UnpackPiece, Overrun, EndChunk, PassBcast, SendFin, PassFin, EndLoop, Finish, cursor,
       ResetCursor, AdvanceCursor
  <2> QED BY <2>1, <2>2, <2>3, <2>4, <2>5 DEF Pos
<1> QED BY <1>1, <1>2

(* Which collective a step enters, if any.                                 *)
LEMMA Enters ==
    ASSUME TypeOK, NEW r \in Rank, RankStep(r) \/ Launcher(r)
    PROVE  /\ calls' \in [Rank -> Seq(Collective)]
           /\ \A q \in Rank : Pos(q)' \in Nat /\ Pos(q)' >= Pos(q)
           /\ \/ calls' = calls /\ \A q \in Rank : Pos(q)' = Pos(q)
              \/ \E op \in Collective :
                     /\ Enter(r, op)
                     /\ Pos(r)' = Pos(r) + 1
                     /\ \A q \in Rank \ {r} : Pos(q)' = Pos(q)
<1>1. calls \in [Rank -> Seq(Collective)] /\ \A q \in Rank : Pos(q) \in Nat
  BY PosNat DEF TypeOK
<1>2. calls' = calls \/ \E op \in Collective : Enter(r, op)
  BY DEF RankStep, Launcher, Kill, DivideByZero, Setup, PassStartBarrier, StartRound, BeginChunk,
     PackPiece, UnpackPiece, Fault, Overrun, OverrunFault, EndChunk, PassBcast, SendFin, PassFin,
     AssertFails, EndLoop, Finish, Collective
<1>3. CASE calls' = calls
  <2>1. \A q \in Rank : Pos(q)' = Pos(q)
    BY <1>3 DEF Pos
  <2> QED BY <1>1, <1>3, <2>1, SMT
<1>4. ASSUME NEW op \in Collective, Enter(r, op)
      PROVE  /\ calls' \in [Rank -> Seq(Collective)]
             /\ \A q \in Rank : Pos(q)' \in Nat /\ Pos(q)' >= Pos(q)
             /\ Pos(r)' = Pos(r) + 1
             /\ \A q \in Rank \ {r} : Pos(q)' = Pos(q)
  <2>1. /\ calls' \in [Rank -> Seq(Collective)]
        /\ Pos(r)' = Pos(r) + 1
        /\ \A q \in Rank \ {r} : Pos(q)' = Pos(q)
    BY <1>1, <1>4, EnterPos
  <2>2. Pos(r)' \in Nat /\ Pos(r)' >= Pos(r) /\ \A q \in Rank \ {r} : Pos(q)' >= Pos(q)
    BY <1>1, <2>1, SMT
  <2> QED BY <1>1, <2>1, <2>2
<1> QED BY <1>2, <1>3, <1>4

-----------------------------------------------------------------------------
(* A piece, copied or not, moves the cursor on within the chunk.           *)
LEMMA Advances ==
    ASSUME TypeOK, NEW r \in Rank, Cursor(r), blocksize > 0,
           PackPiece(r) \/ UnpackPiece(r) \/ Overrun(r)
    PROVE  /\ shmoff'[r] \in Nat /\ capacity'[r] \in Nat /\ capacity'[r] <= capacity[r]
           /\ shmoff'[r] + capacity'[r] = shmoff[r] + capacity[r]
           /\ shmoff'[r] >= shmoff[r]
           /\ UNCHANGED <<pc, calls, iter>>
<1>1. shmoff[r] \in Nat /\ capacity[r] \in Nat
  BY Numbers, SMT DEF TypeOK
<1>2. UNCHANGED <<pc, calls, iter>>
  BY DEF PackPiece, UnpackPiece, Overrun
<1>3. PICK g \in Nat : /\ g <= capacity[r]
                       /\ shmoff' = [shmoff EXCEPT ![r] = shmoff[r] + g]
                       /\ capacity' = [capacity EXCEPT ![r] = capacity[r] - g]
  <2>1. CASE PackPiece(r) \/ UnpackPiece(r)
    <3>1. /\ shmoff' = [shmoff EXCEPT ![r] = shmoff[r] + Length(r)]
          /\ capacity' = [capacity EXCEPT ![r] = capacity[r] - Length(r)]
          /\ iovcnt[r] < NBlocks
      BY <2>1 DEF PackPiece, UnpackPiece, AdvanceCursor
    <3>2. Length(r) \in Nat /\ Length(r) <= capacity[r]
      BY <1>1, <3>1, Piece, SMT
    <3> QED BY <3>1, <3>2
  <2>2. CASE Overrun(r)
    <3>1. PICK g \in 0 .. capacity[r] :
              /\ shmoff' = [shmoff EXCEPT ![r] = shmoff[r] + g]
              /\ capacity' = [capacity EXCEPT ![r] = capacity[r] - g]
      BY <2>2 DEF Overrun
    <3>2. g \in Nat /\ g <= capacity[r]
      BY <1>1, <3>1, SMT
    <3> QED BY <3>1, <3>2
  <2> QED BY <2>1, <2>2
<1>4. shmoff'[r] = shmoff[r] + g /\ capacity'[r] = capacity[r] - g
  BY <1>3 DEF TypeOK
<1> QED BY <1>1, <1>2, <1>3, <1>4, SMT

(* Where a rank is, step by step.                                          *)
LEMMA OwnStep ==
    ASSUME IInv, NEW r \in Rank, RankStep(r) \/ Launcher(r)
    PROVE  Own(r)'
<1>1. /\ TypeOK /\ Own(r) /\ Cursor(r) /\ Pos(r) \in Nat /\ iter[r] \in Nat
      /\ shmoff[r] \in Nat /\ capacity[r] \in Nat
      /\ blocksize \in Nat /\ depth \in Nat \ {0} /\ Iters \in Nat \ {0} /\ iter[r] <= Iters
  <2>1. TypeOK /\ Own(r) /\ Cursor(r)
    BY DEF IInv, Control
  <2>2. Iters \in Nat \ {0} /\ blocksize \in Nat /\ depth \in Nat \ {0}
    BY <2>1, Numbers
  <2>3. iter[r] \in 0 .. Iters /\ capacity[r] \in 0 .. depth /\ shmoff[r] \in Nat
        /\ Pos(r) \in Nat
    BY <2>1, PosNat DEF TypeOK
  <2> QED BY <2>1, <2>2, <2>3, SMT
<1>2. blocksize' = blocksize /\ depth' = depth /\ Chunks' = Chunks
  BY FixedArgs
<1>3. CASE Dies(r)
  <2>1. /\ calls' = calls /\ iter' = iter /\ pc'[r] \in {"crashed", "aborted", "killed"}
        /\ pc'[r] = "aborted" => pc[r] = "gather"
    BY <1>1, <1>3, DyingKeeps DEF Stopped, Failed
  <2>2. Pos(r)' = Pos(r)
    BY <2>1 DEF Pos
  <2> QED BY <1>1, <1>2, <2>1, <2>2 DEF Own, InRound
<1>4. CASE ~Dies(r)
  <2>1. RankStep(r) /\ blocksize > 0
    <3>1. RankStep(r)
      BY <1>4 DEF Dies
    <3>2. pc[r] = "setup" => Setup(r)
      BY <1>4, <3>1 DEF Dies, RankStep, Setup, PassStartBarrier, StartRound, BeginChunk, PackPiece,
         UnpackPiece, Overrun, EndChunk, PassBcast, SendFin, PassFin, EndLoop, Finish
    <3>3. pc[r] \notin Stopped
      BY <1>4, <3>1 DEF Dies, RankStep, Setup, PassStartBarrier, StartRound, BeginChunk, PackPiece,
         UnpackPiece, Overrun, EndChunk, PassBcast, SendFin, PassFin, EndLoop, Finish, Stopped,
         Failed
    <3> QED BY <1>1, <3>1, <3>2, <3>3 DEF Own, Setup, Stopped, Failed
  <2> DEFINE c == Chunks
             d == depth
             E == Entered(r)
  <2>2. c \in Nat /\ d \in Nat \ {0} /\ Start(c, 0) = 1 /\ Bytes(d, 0) = 0
    BY <1>1, <2>1, ChunkFacts, StartFacts
  <2>3. /\ Start(c, iter[r]) \in Nat /\ E = Pos(r) - Start(c, iter[r])
        /\ Start(c, iter[r] + 1) = Start(c, iter[r]) + c + 1
    BY <1>1, <2>2, StartFacts DEF Entered
  <2>4. \A n \in Nat : Bytes(d, n) \in Nat /\ Bytes(d, n + 1) = Bytes(d, n) + d
    BY <1>1, <2>1, ChunkFacts
  <2>5. Entered(r)' = Pos(r)' - Start(c, iter'[r])
    BY <1>2 DEF Entered
  <2>6. iovcnt[r] < NBlocks <=> shmoff[r] < Total
    BY <1>1, <2>1, Piece
  <2>7. \A n \in Nat : Bytes(d, n) < Total <=> n < c
    BY <1>1, <2>1, ChunkFacts
  <2>8. CASE Setup(r) \/ PassStartBarrier(r)
    <3>1. /\ iter' = iter /\ iter[r] = 0
          /\ \/ pc'[r] = "start_barrier" /\ Pos(r) = 0 /\ Enter(r, "barrier")
             \/ pc'[r] = "loop" /\ Pos(r) = 1 /\ calls' = calls
      BY <1>1, <2>8 DEF Setup, PassStartBarrier, Goto, TypeOK, Own
    <3>2. Pos(r)' = 1
      <4>1. CASE calls' = calls /\ Pos(r) = 1
        BY <4>1 DEF Pos
      <4>2. CASE Enter(r, "barrier") /\ Pos(r) = 0
        <5>1. Pos(r)' = Pos(r) + 1
          BY <1>1, <4>2, EnterPos DEF TypeOK, Collective
        <5> QED BY <4>2, <5>1
      <4> QED BY <3>1, <4>1, <4>2
    <3>3. Entered(r)' = 0
      BY <2>2, <2>5, <3>1, <3>2, SMT
    <3> QED BY <1>2, <2>1, <3>1, <3>2, <3>3, SMT DEF Own, InRound
  <2>9. CASE StartRound(r)
    <3>1. /\ pc[r] = "loop" /\ pc'[r] = "chunk" /\ iter' = iter /\ calls' = calls
          /\ shmoff'[r] = 0 /\ iter[r] < Iters
      BY <1>1, <2>9 DEF StartRound, BeginRound, MoreRounds, ResetCursor, Goto, TypeOK
    <3>2. Entered(r)' = 0 /\ 0 \in 0 .. c
      BY <1>1, <2>2, <2>3, <2>5, <3>1, SMT DEF Own, Pos
    <3> QED BY <1>2, <2>1, <2>2, <3>1, <3>2 DEF Own, InRound
  <2>10. CASE BeginChunk(r)
    <3>1. /\ pc[r] = "chunk" /\ iter' = iter /\ shmoff' = shmoff /\ iter[r] < Iters
          /\ \/ /\ r = Sender /\ pc'[r] = "pack" /\ calls' = calls /\ capacity'[r] = d
             \/ /\ r # Sender /\ pc'[r] = "bcast" /\ Enter(r, "bcast")
          /\ E \in 0 .. c /\ shmoff[r] = Bytes(d, E) /\ iovcnt[r] < NBlocks
      BY <1>1, <2>10 DEF BeginChunk, MoreBlocks, Goto, TypeOK, Own, InRound
    <3>2. E \in Nat /\ E < c /\ Bytes(d, E) \in Nat /\ Bytes(d, E + 1) = Bytes(d, E) + d
      <4>1. E \in Nat
        BY <2>2, <3>1, SMT
      <4> QED BY <2>4, <2>6, <2>7, <3>1, <4>1
    <3>3. CASE r = Sender
      <4>1. Entered(r)' = E
        BY <2>3, <2>5, <3>1, <3>3 DEF Pos
      <4>2. shmoff'[r] + capacity'[r] = Bytes(d, E + 1)
        BY <3>1, <3>2, <3>3
      <4> HIDE DEF E
      <4> QED BY <1>2, <2>1, <3>1, <3>2, <3>3, <4>1, <4>2 DEF Own, InRound
    <3>4. CASE r # Sender
      <4>1. Pos(r)' = Pos(r) + 1
        BY <1>1, <3>1, <3>4, EnterPos DEF TypeOK, Collective
      <4>2. Entered(r)' = E + 1
        BY <1>1, <2>3, <2>5, <3>1, <4>1, SMT
      <4>3. E + 1 \in 1 .. c /\ (E + 1) - 1 = E
        BY <2>2, <3>2, SMT
      <4> HIDE DEF E
      <4> QED BY <1>2, <2>1, <3>1, <3>2, <3>4, <4>2, <4>3 DEF Own, InRound
    <3> QED BY <3>3, <3>4
  <2>11. CASE PackPiece(r) \/ UnpackPiece(r) \/ Overrun(r)
    <3>1. /\ UNCHANGED <<pc, calls, iter>> /\ pc[r] \in {"pack", "unpack"}
          /\ shmoff'[r] + capacity'[r] = shmoff[r] + capacity[r]
      BY <1>1, <2>1, <2>11, Advances DEF PackPiece, UnpackPiece, Overrun
    <3>2. Entered(r)' = E /\ Pos(r)' = Pos(r) /\ Pos(Sender)' = Pos(Sender)
      BY <2>3, <2>5, <3>1 DEF Pos
    <3> HIDE DEF E
    <3> QED BY <1>1, <1>2, <2>1, <3>1, <3>2 DEF Own, InRound, E
  <2>12. CASE EndChunk(r)
    <3>1. /\ pc[r] \in {"pack", "unpack"} /\ iter' = iter /\ shmoff' = shmoff /\ iter[r] < Iters
          /\ \/ r = Sender /\ pc'[r] = "bcast" /\ Enter(r, "bcast")
             \/ r # Sender /\ pc'[r] = "chunk" /\ calls' = calls
          /\ capacity[r] = 0
      BY <1>1, <2>12 DEF EndChunk, cursor, Goto, TypeOK, Own, InRound
    <3>2. shmoff[r] + capacity[r] = shmoff[r]
      BY <1>1, <3>1, SMT
    <3>3. CASE r = Sender
      <4>1. Pos(r)' = Pos(r) + 1
        BY <1>1, <3>1, <3>3, EnterPos DEF TypeOK, Collective
      <4>2. Entered(r)' = E + 1
        BY <1>1, <2>3, <2>5, <3>1, <4>1, SMT
      <4>3. E \in 0 .. c /\ E < c /\ shmoff[r] = Bytes(d, E + 1)
        BY <1>1, <3>1, <3>2, <3>3 DEF Own
      <4> HIDE DEF E
      <4>4. E + 1 \in 1 .. c
        BY <2>2, <4>3, SMT
      <4> QED BY <1>2, <2>1, <3>1, <3>3, <4>2, <4>3, <4>4 DEF Own, InRound
    <3>4. CASE r # Sender
      <4>1. Entered(r)' = E
        BY <2>3, <2>5, <3>1, <3>4 DEF Pos
      <4>2. E \in 1 .. c /\ shmoff[r] = Bytes(d, E)
        BY <1>1, <3>1, <3>2, <3>4 DEF Own
      <4> HIDE DEF E
      <4>3. E \in 0 .. c
        BY <2>2, <4>2, SMT
      <4> QED BY <1>2, <2>1, <3>1, <3>4, <4>1, <4>2, <4>3 DEF Own, InRound
    <3> QED BY <3>3, <3>4
  <2>13. CASE PassBcast(r)
    <3>1. /\ pc[r] = "bcast" /\ UNCHANGED <<calls, iter, shmoff>> /\ iter[r] < Iters
          /\ \/ r = Sender /\ pc'[r] = "chunk"
             \/ r # Sender /\ pc'[r] = "unpack" /\ capacity'[r] = d
          /\ Pos(Sender) >= Pos(r)
      BY <1>1, <2>13, ReturnsPos DEF PassBcast, RtsReturns, Goto, TypeOK, Own, InRound
    <3>2. Entered(r)' = E /\ Pos(r)' = Pos(r) /\ Pos(Sender)' = Pos(Sender)
      BY <2>3, <2>5, <3>1 DEF Pos
    <3>3. /\ E \in 1 .. c
          /\ shmoff[r] = Bytes(d, IF r = Sender THEN E ELSE E - 1)
      BY <1>1, <3>1 DEF Own
    <3> HIDE DEF E
    <3>4. E \in 0 .. c /\ E - 1 \in Nat /\ (E - 1) + 1 = E
      BY <2>2, <3>3, SMT
    <3>5. Bytes(d, E - 1) \in Nat /\ Bytes(d, E) = Bytes(d, E - 1) + d
      BY <2>4, <3>4
    <3> QED BY <1>2, <2>1, <3>1, <3>2, <3>3, <3>4, <3>5 DEF Own, InRound
  <2>14. CASE SendFin(r)
    <3>1. /\ pc[r] = "chunk" /\ pc'[r] = "gather" /\ iter' = iter /\ iter[r] < Iters
          /\ Enter(r, "gather") /\ ~(iovcnt[r] < NBlocks)
          /\ E \in 0 .. c /\ shmoff[r] = Bytes(d, E)
      BY <1>1, <2>14 DEF SendFin, MoreBlocks, Goto, TypeOK, Own, InRound
    <3>2. Pos(r)' = Pos(r) + 1
      BY <1>1, <3>1, EnterPos DEF TypeOK, Collective
    <3>3. E \in Nat
      BY <2>2, <3>1, SMT
    <3>4. E = c
      BY <2>2, <2>6, <2>7, <3>1, <3>3, SMT
    <3>5. Entered(r)' = c + 1
      BY <1>1, <2>3, <2>5, <3>1, <3>2, <3>4, SMT
    <3> QED BY <1>2, <2>1, <3>1, <3>5 DEF Own, InRound
  <2>15. CASE PassFin(r)
    <3>1. /\ pc[r] = "gather" /\ pc'[r] = "loop" /\ calls' = calls /\ iter'[r] = iter[r] + 1
          /\ E = c + 1
      BY <1>1, <2>15 DEF PassFin, Goto, TypeOK, Own
    <3>2. Pos(r)' = Pos(r)
      BY <3>1 DEF Pos
    <3>3. Entered(r)' = 0
      BY <1>1, <2>2, <2>3, <2>5, <3>1, <3>2, SMT
    <3> QED BY <1>2, <2>1, <3>1, <3>3 DEF Own, InRound
  <2>16. CASE EndLoop(r) \/ Finish(r)
    <3>1. /\ iter' = iter
          /\ \/ /\ pc[r] = "loop" /\ pc'[r] = "end_barrier" /\ ~(iter[r] < Iters) /\ E = 0
                /\ Enter(r, "barrier")
             \/ /\ pc[r] = "end_barrier" /\ pc'[r] = "done" /\ iter[r] = Iters /\ E = 1
                /\ calls' = calls
      BY <1>1, <2>16 DEF EndLoop, LeaveLoop, MoreRounds, Finish, Goto, TypeOK, Own
    <3>2. \/ pc[r] = "loop" /\ Pos(r)' = Pos(r) + 1
          \/ pc[r] = "end_barrier" /\ Pos(r)' = Pos(r)
      BY <1>1, <3>1, EnterPos DEF TypeOK, Collective, Pos
    <3>3. Entered(r)' = 1 /\ iter[r] = Iters
      BY <1>1, <2>3, <2>5, <3>1, <3>2, SMT
    <3> QED BY <1>2, <2>1, <3>1, <3>3 DEF Own, InRound
  <2> QED BY <1>4, <2>1, <2>8, <2>9, <2>10, <2>11, <2>12, <2>13, <2>14, <2>15, <2>16
          DEF RankStep, Dies
<1> QED BY <1>3, <1>4

(* The cursor, step by step: byte n of the buffer keeps going to byte n of *)
(* the region, however the chunks cut the blocks.                          *)
Placed(r) ==
    blocksize > 0 /\ iovcnt[r] < NBlocks => shmoff[r] = iovcnt[r] * blocksize + iovoff[r]

(* Whatever a rank does, its cursor stays where the blocks put it.         *)
LEMMA CursorStep ==
    ASSUME IInv, NEW r \in Rank, RankStep(r) \/ Launcher(r)
    PROVE  /\ iovcnt'[r] \in 0 .. BufSize + MaxOverrun /\ iovoff'[r] \in Nat
           /\ shmoff'[r] \in Nat /\ capacity'[r] \in 0 .. depth
           /\ Cursor(r)' /\ Placed(r)'
<1>1. /\ TypeOK /\ Own(r) /\ Cursor(r) /\ Placed(r) /\ MaxOverrun \in Nat
      /\ BufSize \in Nat \ {0} /\ blocksize \in Nat /\ depth \in Nat \ {0}
      /\ iovcnt[r] \in 0 .. BufSize + MaxOverrun /\ iovoff[r] \in Nat
      /\ shmoff[r] \in Nat /\ capacity[r] \in 0 .. depth
  BY Numbers, DepthAssumption DEF IInv, Control, TypeOK, Placed
<1>2. blocksize' = blocksize /\ NBlocks' = NBlocks /\ Total' = Total
  BY FixedArgs
<1> DEFINE k == iovcnt[r]
           b == blocksize
           o == iovoff[r]
           s == shmoff[r]
           w == capacity[r]
<1>3. k \in Nat /\ o \in Nat /\ s \in Nat /\ w \in Nat /\ w <= depth
  BY <1>1, SMT
<1>4. CASE StartRound(r)
  <2>1. iovcnt'[r] = 0 /\ iovoff'[r] = 0 /\ shmoff'[r] = 0 /\ capacity'[r] = depth /\ b > 0
    BY <1>1, <1>4 DEF StartRound, ResetCursor, TypeOK, Own
  <2>2. 0 * b = 0 /\ NBlocks \in Nat /\ (NBlocks = 0 => Total = 0)
    BY <1>1, <2>1, TotalFits, MulZero DEF Total
  <2>3. 0 + 0 = 0 /\ 0 \in 0 .. BufSize + MaxOverrun /\ depth \in 0 .. depth
        /\ (0 >= NBlocks => NBlocks = 0)
    BY <1>1, <2>2, SMT
  <2> QED BY <1>2, <2>1, <2>2, <2>3, SMT DEF Cursor, Placed
<1>5. CASE PackPiece(r) \/ UnpackPiece(r)
  <2>1. /\ iovcnt' = [iovcnt EXCEPT ![r] = IF w >= Left(r) THEN k + 1 ELSE k]
        /\ iovoff' = [iovoff EXCEPT ![r] = IF w >= Left(r) THEN 0 ELSE o + w]
        /\ shmoff' = [shmoff EXCEPT ![r] = s + Length(r)]
        /\ capacity' = [capacity EXCEPT ![r] = w - Length(r)]
        /\ k < NBlocks /\ b > 0
    BY <1>1, <1>5 DEF PackPiece, UnpackPiece, AdvanceCursor, Own
  <2>2. /\ iovcnt'[r] = (IF w >= Left(r) THEN k + 1 ELSE k)
        /\ iovoff'[r] = (IF w >= Left(r) THEN 0 ELSE o + w)
        /\ shmoff'[r] = s + Length(r)
        /\ capacity'[r] = w - Length(r)
    BY <1>1, <2>1 DEF TypeOK
  <2>3. /\ Left(r) \in Nat \ {0} /\ Left(r) = b - o
        /\ Length(r) = IF w >= Left(r) THEN Left(r) ELSE w
        /\ (k + 1) * b = s + Left(r)
    BY <1>1, <2>1, Piece DEF Left
  <2>4. /\ NBlocks \in Nat /\ NBlocks <= BufSize /\ Total = NBlocks * b
    BY <1>1, <2>1, TotalFits DEF Total
  <2>5. s = k * b + o /\ k * b \in Nat
    BY <1>1, <1>3, <2>1, MulSucc DEF Placed
  <2>6. k + 1 = NBlocks => (k + 1) * b = Total
    BY <2>4
  <2> HIDE DEF k, b, o, s, w
  <2>7. CASE w >= Left(r)
    <3>1. iovcnt'[r] = k + 1 /\ iovoff'[r] = 0 /\ shmoff'[r] = (k + 1) * b
          /\ capacity'[r] = w - Left(r)
      BY <2>2, <2>3, <2>7
    <3>2. (k + 1) * b \in Nat /\ (k + 1) * b = (k + 1) * b + 0
      BY <1>3, <2>3, SMT
    <3>3. /\ k + 1 \in 0 .. BufSize + MaxOverrun /\ w - Left(r) \in 0 .. depth
          /\ k + 1 >= NBlocks => k + 1 = NBlocks
          /\ b > 0 /\ b \in Nat
      BY <1>1, <1>3, <2>1, <2>3, <2>4, <2>7, SMT DEF k, b, w
    <3>4. Total >= Total
      BY <2>4, <2>6, <3>2, <1>1, TotalFits, <3>3, SMT DEF b
    <3> QED BY <1>2, <2>6, <3>1, <3>2, <3>3, <3>4 DEF Cursor, Placed, b
  <2>8. CASE ~(w >= Left(r))
    <3>1. iovcnt'[r] = k /\ iovoff'[r] = o + w /\ shmoff'[r] = s + w /\ capacity'[r] = w - w
      BY <2>2, <2>3, <2>8
    <3> DEFINE p == k * b
    <3>2. s = p + o /\ p \in Nat
      BY <2>5
    <3> HIDE DEF p
    <3>3. /\ o + w \in Nat /\ s + w \in Nat /\ w - w \in 0 .. depth /\ o + w < b
          /\ s + w = p + (o + w) /\ ~(k >= NBlocks)
      BY <1>1, <1>3, <2>1, <2>3, <2>4, <2>8, <3>2, SMT DEF k, b
    <3> QED BY <1>1, <1>2, <3>1, <3>3 DEF Cursor, Placed, p, k, b
  <2> QED BY <2>7, <2>8
<1>6. CASE Overrun(r)
  <2>1. PICK g \in 0 .. w :
            /\ iovcnt' \in {iovcnt, [iovcnt EXCEPT ![r] = k + 1]}
            /\ iovoff' = [iovoff EXCEPT ![r] = IF iovcnt' = iovcnt THEN o + g ELSE 0]
            /\ shmoff' = [shmoff EXCEPT ![r] = s + g]
            /\ capacity' = [capacity EXCEPT ![r] = w - g]
    BY <1>6 DEF Overrun
  <2>2. k >= NBlocks /\ k < NBlocks + MaxOverrun /\ b > 0
    BY <1>1, <1>6 DEF Overrun, Own
  <2>3. /\ iovcnt'[r] \in {k, k + 1} /\ iovoff'[r] \in {o + g, 0}
        /\ shmoff'[r] = s + g /\ capacity'[r] = w - g
    BY <1>1, <2>1 DEF TypeOK
  <2>4. NBlocks \in Nat /\ NBlocks <= BufSize /\ Total \in Nat /\ s >= Total
    BY <1>1, <2>2, TotalFits DEF Cursor
  <2> HIDE DEF k, b, o, s, w
  <2>5. /\ o + g \in Nat /\ s + g \in Nat /\ w - g \in 0 .. depth /\ s + g >= Total
        /\ k + 1 \in 0 .. BufSize + MaxOverrun /\ k + 1 >= NBlocks
        /\ ~(k < NBlocks) /\ ~(k + 1 < NBlocks)
    BY <1>1, <1>3, <2>2, <2>4, SMT
  <2> QED BY <1>1, <1>2, <2>2, <2>3, <2>5 DEF Cursor, Placed, k
<1>7. CASE ~StartRound(r) /\ ~PackPiece(r) /\ ~UnpackPiece(r) /\ ~Overrun(r)
  <2>1. iovcnt' = iovcnt /\ iovoff' = iovoff /\ shmoff' = shmoff
    BY <1>7 DEF RankStep, Launcher, DivideByZero, Setup, PassStartBarrier, BeginChunk, Fault,
       OverrunFault, EndChunk, PassBcast, SendFin, PassFin, AssertFails, EndLoop, Finish, cursor
  <2>2. capacity' = capacity \/ capacity' = [capacity EXCEPT ![r] = depth]
    BY <1>7 DEF RankStep, Launcher, DivideByZero, Setup, PassStartBarrier, BeginChunk, Fault,
       OverrunFault, EndChunk, PassBcast, SendFin, PassFin, AssertFails, EndLoop, Finish, cursor
  <2>3. depth \in 0 .. depth
    BY <1>1, SMT
  <2>4. capacity'[r] \in 0 .. depth
    BY <1>1, <2>2, <2>3 DEF TypeOK
  <2> QED BY <1>1, <1>2, <2>1, <2>4 DEF Cursor, Placed
<1> QED BY <1>4, <1>5, <1>6, <1>7

(* The sender begins no round before everybody has finished the previous.  *)
LEMMA LagStep ==
    ASSUME IInv, NEW r \in Rank, RankStep(r) \/ Launcher(r), NEW q \in Rank
    PROVE  Lag(q)'
<1>1. /\ TypeOK /\ Own(r) /\ Lag(q) /\ Sender \in Rank /\ Pos(q) \in Nat /\ Pos(Sender) \in Nat
      /\ iter[Sender] \in Nat /\ Chunks' = Chunks
  <2>1. TypeOK /\ Own(r) /\ Lag(q) /\ Chunks' = Chunks
    BY FixedArgs DEF IInv, Control
  <2>2. Sender \in Rank /\ Pos(q) \in Nat /\ Pos(Sender) \in Nat /\ Iters \in Nat
    BY <2>1, Numbers, PosNat DEF TypeOK
  <2>3. iter[Sender] \in 0 .. Iters
    BY <2>1, <2>2 DEF TypeOK
  <2> QED BY <2>1, <2>2, <2>3, SMT
<1>2. Pos(q)' \in Nat /\ Pos(q)' >= Pos(q)
  BY <1>1, Enters
<1>3. CASE PassFin(r) /\ r = Sender
  <2>1. /\ pc[r] = "gather" /\ iter'[r] = iter[r] + 1 /\ Pos(q) >= Pos(r) /\ blocksize > 0
        /\ Entered(r) = Chunks + 1
    BY <1>1, <1>3, ReturnsPos DEF PassFin, FinReturns, TypeOK, Own
  <2>2. Chunks \in Nat
    BY <1>1, <2>1, ChunkFacts
  <2>3. /\ Start(Chunks, iter[r]) \in Nat /\ Start(Chunks, iter[r] + 1) \in Nat
        /\ Start(Chunks, iter[r] + 1) = Start(Chunks, iter[r]) + Chunks + 1
    <3>1. iter[r] \in Nat /\ iter[r] + 1 \in Nat
      BY <1>1, <1>3, SMT
    <3> QED BY <2>2, <3>1, StartFacts
  <2>4. Pos(q)' >= Start(Chunks, iter[r] + 1)
    BY <1>1, <1>2, <1>3, <2>1, <2>2, <2>3, SMT DEF Entered
  <2> QED BY <1>1, <1>3, <2>1, <2>4 DEF Lag
<1>4. CASE ~(PassFin(r) /\ r = Sender)
  <2>1. iter'[Sender] = iter[Sender]
    BY <1>1, <1>4 DEF RankStep, Launcher, DivideByZero, Setup, PassStartBarrier, StartRound,
       BeginChunk, PackPiece, UnpackPiece, Fault, Overrun, OverrunFault, EndChunk, PassBcast,
       SendFin, PassFin, AssertFails, EndLoop, Finish, TypeOK
  <2>2. CASE iter[Sender] > 0
    <3>1. Start(Chunks, iter[Sender]) \in Nat /\ Pos(q) >= Start(Chunks, iter[Sender])
      <4>1. blocksize > 0
        BY <1>1, <2>2, Numbers, SMT DEF IInv, Control, Own
      <4>2. Chunks \in Nat
        BY <1>1, <4>1, ChunkFacts
      <4> QED BY <1>1, <2>2, <4>2, StartFacts DEF Lag
    <3>2. Pos(q)' >= Start(Chunks, iter[Sender])
      BY <1>1, <1>2, <3>1, SMT
    <3> QED BY <1>1, <2>1, <3>2 DEF Lag
  <2>3. CASE ~(iter[Sender] > 0)
    BY <2>1, <2>3 DEF Lag
  <2> QED BY <2>2, <2>3
<1> QED BY <1>3, <1>4

-----------------------------------------------------------------------------
(* The announcements of a round lie strictly between two gathers.          *)
LEMMA ExpectedFacts ==
    ASSUME NEW c \in Nat, c = Chunks, NEW j \in Nat, j < Iters, Iters \in Nat
    PROVE  /\ \A k \in Nat : Start(c, j) < k /\ k < Start(c, j + 1) => Expected(k) = "bcast"
           /\ Expected(Start(c, j + 1)) = "gather"
           /\ Expected(1) = "barrier" /\ Expected(Start(c, Iters) + 1) = "barrier"
<1>1. \A m \in Nat : /\ Start(c, m) \in Nat /\ Start(c, m) >= 1
                     /\ Start(c, m + 1) = Start(c, m) + c + 1
  BY StartFacts
<1>2. \A m, n \in Nat : m < n => Start(c, m + 1) <= Start(c, n)
  BY StartFacts
<1>3. j + 1 \in Nat /\ j + 1 \in 1 .. Iters /\ j + 1 <= Iters
  BY SMT
<1>4. Start(c, j + 1) \in Nat /\ Start(c, j + 1) <= Start(c, Iters)
  <2>1. j + 1 < Iters \/ j + 1 = Iters
    BY <1>3, SMT
  <2>2. CASE j + 1 < Iters
    <3>1. Start(c, (j + 1) + 1) = Start(c, j + 1) + c + 1 /\ Start(c, (j + 1) + 1) <= Start(c, Iters)
          /\ Start(c, j + 1) \in Nat /\ Start(c, Iters) \in Nat
      BY <1>1, <1>2, <1>3, <2>2
    <3> QED BY <3>1, SMT
  <2>3. CASE j + 1 = Iters
    BY <1>1, <2>3, SMT
  <2> QED BY <2>1, <2>2, <2>3
<1>5. ASSUME NEW k \in Nat, Start(c, j) < k, k < Start(c, j + 1), NEW m \in 1 .. Iters
      PROVE  k # Start(c, m)
  <2>1. m \in Nat /\ (m < j \/ m = j \/ j < m)
    BY SMT
  <2>2. CASE m < j
    <3>1. /\ Start(c, m + 1) <= Start(c, j) /\ Start(c, m + 1) = Start(c, m) + c + 1
          /\ Start(c, m) \in Nat /\ Start(c, j) \in Nat
      BY <1>1, <1>2, <2>1, <2>2
    <3> QED BY <1>5, <3>1, SMT
  <2>3. CASE m = j
    BY <1>1, <1>5, <2>3, SMT
  <2>4. CASE j < m
    <3>1. Start(c, j + 1) <= Start(c, m) /\ Start(c, m) \in Nat
      BY <1>1, <1>2, <2>1, <2>4
    <3> QED BY <1>4, <1>5, <3>1, SMT
  <2> QED BY <2>1, <2>2, <2>3, <2>4
<1>6. ASSUME NEW k \in Nat, Start(c, j) < k, k < Start(c, j + 1) PROVE Expected(k) = "bcast"
  <2>1. Start(c, j) \in Nat /\ Start(c, j) >= 1 /\ Start(c, Iters) \in Nat
    BY <1>1
  <2>2. k # 1 /\ k # Start(c, Iters) + 1
    BY <1>4, <1>6, <2>1, SMT
  <2>3. \A m \in 1 .. Iters : k # Start(c, m)
    BY <1>5, <1>6
  <2> QED BY <2>2, <2>3 DEF Expected
<1>7. Expected(Start(c, j + 1)) = "gather"
  <2>1. Start(c, j + 1) = Start(c, j) + c + 1 /\ Start(c, j) \in Nat /\ Start(c, j) >= 1
        /\ Start(c, Iters) \in Nat
    BY <1>1
  <2>2. Start(c, j + 1) # 1 /\ Start(c, j + 1) # Start(c, Iters) + 1
    BY <1>4, <2>1, SMT
  <2> QED BY <1>3, <2>2 DEF Expected
<1>8. Expected(1) = "barrier" /\ Expected(Start(c, Iters) + 1) = "barrier"
  BY DEF Expected
<1> QED BY <1>6, <1>7, <1>8

(* Every collective a rank enters is the one expected of it.               *)
LEMMA ShapeStep ==
    ASSUME IInv, NEW r \in Rank, RankStep(r) \/ Launcher(r), NEW q \in Rank
    PROVE  Shape(q)'
<1>1. /\ TypeOK /\ Own(r) /\ Cursor(r) /\ Shape(q) /\ Shape(r) /\ iter[r] \in Nat
      /\ iter[r] <= Iters /\ Iters \in Nat \ {0} /\ calls[r] \in Seq(Collective)
      /\ Pos(r) \in Nat
  <2>1. TypeOK /\ Own(r) /\ Cursor(r) /\ Shape(q) /\ Shape(r)
    BY DEF IInv, Control
  <2>2. Iters \in Nat \ {0} /\ iter[r] \in 0 .. Iters /\ calls[r] \in Seq(Collective)
        /\ Pos(r) \in Nat
    BY <2>1, Numbers, PosNat DEF TypeOK
  <2> QED BY <2>1, <2>2, SMT
<1>2. Chunks' = Chunks /\ \A k : Expected(k)' = Expected(k)
  BY FixedArgs DEF Expected
<1>3. CASE calls'[q] = calls[q]
  BY <1>1, <1>2, <1>3 DEF Shape, Pos
<1>4. CASE calls'[q] # calls[q]
  <2>1. q = r
    BY <1>1, <1>4, OthersKeep
  <2>2. ASSUME NEW op \in Collective, Enter(r, op), Expected(Pos(r) + 1) = op
        PROVE  Shape(q)'
    <3>1. calls'[r] = Append(calls[r], op)
      BY <1>1, <2>2 DEF Enter, TypeOK
    <3>2. /\ Len(calls'[r]) = Len(calls[r]) + 1 /\ calls'[r][Len(calls[r]) + 1] = op
          /\ \A k \in 1 .. Len(calls[r]) : calls'[r][k] = calls[r][k]
          /\ \A k \in 1 .. Len(calls[r]) + 1 : k \in 1 .. Len(calls[r]) \/ k = Len(calls[r]) + 1
      BY <1>1, <2>2, <3>1, SMT DEF Collective
    <3> QED BY <1>1, <1>2, <2>1, <2>2, <3>2 DEF Shape, Pos
  <2>3. ~Dies(r) /\ RankStep(r)
    BY <1>4, <1>1, <2>1, DyingKeeps DEF Dies
  <2>4. CASE Setup(r)
    <3>1. Enter(r, "barrier") /\ Pos(r) + 1 = 1
      BY <1>1, <2>4, SMT DEF Setup, Own
    <3> QED BY <2>2, <3>1 DEF Collective, Expected
  <2>5. CASE ~Setup(r)
    <3>1. blocksize > 0
      BY <1>1, <2>3, <2>5 DEF Own, RankStep, Dies, PassStartBarrier, StartRound, BeginChunk,
         PackPiece, UnpackPiece, Overrun, EndChunk, PassBcast, SendFin, PassFin, EndLoop, Finish
    <3>2. Chunks \in Nat
      BY <1>1, <3>1, ChunkFacts
    <3> DEFINE c == Chunks
               E == Entered(r)
    <3>3. /\ Start(c, iter[r]) \in Nat /\ E = Pos(r) - Start(c, iter[r])
          /\ Start(c, iter[r] + 1) = Start(c, iter[r]) + c + 1
      BY <1>1, <3>2, StartFacts DEF Entered
    <3>4. pc[r] = "chunk" => (iovcnt[r] < NBlocks <=> E < c)
      <4>1. ASSUME pc[r] = "chunk" PROVE E \in 0 .. c /\ shmoff[r] = Bytes(depth, E)
        BY <1>1, <4>1 DEF Own
      <4>2. ASSUME pc[r] = "chunk" PROVE E \in Nat
        BY <3>2, <4>1, <4>2, SMT
      <4> QED BY <1>1, <3>1, <4>1, <4>2, Piece, ChunkFacts
    <3>5. CASE BeginChunk(r) \/ EndChunk(r)
      <4>1. /\ Enter(r, "bcast") /\ iter[r] < Iters /\ E \in 0 .. c /\ E < c
        <5>1. CASE BeginChunk(r)
          BY <1>1, <1>4, <2>1, <3>4, <5>1 DEF BeginChunk, MoreBlocks, Own, InRound
        <5>2. CASE EndChunk(r)
          BY <1>1, <1>4, <2>1, <5>2 DEF EndChunk, Own, InRound
        <5> QED BY <3>5, <5>1, <5>2
      <4> HIDE DEF c, E
      <4>2. /\ Start(c, iter[r]) < Pos(r) + 1 /\ Pos(r) + 1 < Start(c, iter[r] + 1)
            /\ Pos(r) + 1 \in Nat
        BY <1>1, <3>2, <3>3, <4>1, SMT DEF c
      <4>3. Expected(Pos(r) + 1) = "bcast"
        BY <1>1, <3>2, <4>1, <4>2, ExpectedFacts DEF c
      <4> QED BY <2>2, <4>1, <4>3 DEF Collective
    <3>6. CASE SendFin(r)
      <4>1. Enter(r, "gather") /\ iter[r] < Iters /\ E \in 0 .. c /\ ~(E < c)
        BY <1>1, <3>4, <3>6 DEF SendFin, MoreBlocks, Own, InRound
      <4> HIDE DEF c, E
      <4>2. Pos(r) + 1 = Start(c, iter[r] + 1)
        BY <1>1, <3>2, <3>3, <4>1, SMT DEF c
      <4>3. Expected(Pos(r) + 1) = "gather"
        BY <1>1, <3>2, <4>1, <4>2, ExpectedFacts DEF c
      <4> QED BY <2>2, <4>1, <4>3 DEF Collective
    <3>7. CASE EndLoop(r)
      <4>1. Enter(r, "barrier") /\ ~(iter[r] < Iters) /\ E = 0
        BY <1>1, <3>7 DEF EndLoop, LeaveLoop, MoreRounds, Own
      <4> HIDE DEF E
      <4>2. iter[r] = Iters /\ Pos(r) + 1 = Start(c, Iters) + 1
        BY <1>1, <3>3, <4>1, SMT
      <4>3. Expected(Pos(r) + 1) = "barrier"
        BY <4>2 DEF Expected
      <4> QED BY <2>2, <4>1, <4>3 DEF Collective
    <3> QED BY <1>4, <2>1, <2>3, <2>5, <3>5, <3>6, <3>7
            DEF RankStep, Dies, PassStartBarrier, StartRound, PackPiece, UnpackPiece, Overrun,
                PassBcast, PassFin, Finish
  <2> QED BY <2>4, <2>5
<1> QED BY <1>3, <1>4

-----------------------------------------------------------------------------
(* Types.                                                                  *)
LEMMA TypeStep ==
    ASSUME IInv, NEW r \in Rank, RankStep(r) \/ Launcher(r)
    PROVE  TypeOK'
<1> USE ArgsAssumption, FileAssumption, DepthAssumption, SenderAssumption
<1>1. TypeOK /\ Own(r) /\ Cursor(r) /\ Iters \in Nat \ {0} /\ BufSize \in Nat \ {0}
  BY Numbers DEF IInv, Control
<1>2. pc' \in [Rank -> Label]
  <2>1. \E l \in Label : pc' = [pc EXCEPT ![r] = l] \/ pc' = pc
    BY DEF RankStep, Launcher, Kill, DivideByZero, Setup, PassStartBarrier, StartRound, BeginChunk,
       PackPiece, UnpackPiece, Fault, Overrun, OverrunFault, EndChunk, PassBcast, SendFin, PassFin,
       AssertFails, EndLoop, Finish, Goto, Label, Stopped, Failed
  <2> QED BY <1>1, <2>1 DEF TypeOK
<1>3. calls' \in [Rank -> Seq(Collective)]
  BY <1>1, Enters
<1>4. /\ blocksize' = blocksize /\ depth' = depth /\ NBlocks' = NBlocks
  BY FixedArgs
<1>5. iter' \in [Rank -> 0 .. Iters]
  <2>1. CASE PassFin(r)
    <3>1. iter[r] \in 0 .. Iters /\ iter[r] < Iters /\ iter' = [iter EXCEPT ![r] = iter[r] + 1]
      BY <1>1, <2>1 DEF TypeOK, PassFin, Own, InRound
    <3>2. iter[r] + 1 \in 0 .. Iters
      BY <1>1, <3>1, SMT
    <3> QED BY <1>1, <3>1, <3>2 DEF TypeOK
  <2>2. CASE ~PassFin(r)
    BY <1>1, <2>2 DEF TypeOK, RankStep, Launcher, DivideByZero, Setup, PassStartBarrier, StartRound,
       BeginChunk, PackPiece, UnpackPiece, Fault, Overrun, OverrunFault, EndChunk, PassBcast,
       SendFin, AssertFails, EndLoop, Finish
  <2> QED BY <2>1, <2>2
<1>6. clock' \in {"off", "running", "stopped"}
  BY <1>1 DEF TypeOK, RankStep, Launcher, DivideByZero, Setup, PassStartBarrier, StartRound,
     BeginRound, BeginChunk, PackPiece, UnpackPiece, Fault, Overrun, OverrunFault, EndChunk,
     PassBcast, SendFin, PassFin, AssertFails, EndLoop, LeaveLoop, Finish
<1>7. fsize' \in FileSizes \cup {BufSize} /\ mapped' \in [Rank -> BOOLEAN]
  BY <1>1 DEF TypeOK, RankStep, Launcher, DivideByZero, Setup, OpenAndMap, PassStartBarrier,
     StartRound, BeginChunk, PackPiece, UnpackPiece, Fault, Overrun, OverrunFault, EndChunk,
     PassBcast, SendFin, PassFin, AssertFails, EndLoop, Finish, Unmap, args, file
<1>8. \A q \in Rank : /\ iovcnt'[q] \in 0 .. BufSize + MaxOverrun /\ iovoff'[q] \in Nat
                      /\ shmoff'[q] \in Nat /\ capacity'[q] \in 0 .. depth
                      /\ Placed(q)'
  <2> TAKE q \in Rank
  <2>1. CASE q = r
    BY <2>1, CursorStep
  <2>2. CASE q # r
    BY <1>1, <1>4, <2>2, OthersKeep DEF TypeOK, Placed
  <2> QED BY <2>1, <2>2
<1>9. /\ iovcnt' = [q \in Rank |-> iovcnt'[q]] /\ iovoff' = [q \in Rank |-> iovoff'[q]]
      /\ shmoff' = [q \in Rank |-> shmoff'[q]] /\ capacity' = [q \in Rank |-> capacity'[q]]
  BY <1>1 DEF TypeOK, RankStep, Launcher, DivideByZero, Setup, PassStartBarrier, StartRound,
     ResetCursor, BeginChunk, PackPiece, UnpackPiece, AdvanceCursor, Fault, Overrun, OverrunFault,
     EndChunk, PassBcast, SendFin, PassFin, AssertFails, EndLoop, Finish, cursor
<1>10. shm' \in [Byte -> Datum]
  <2>1. CASE PackPiece(r)
    <3>1. /\ pc[r] = "pack" /\ iovcnt[r] < NBlocks /\ blocksize > 0 /\ iter[r] < Iters
          /\ iter[r] \in 0 .. Iters
      BY <1>1, <2>1 DEF PackPiece, Own, InRound, TypeOK
    <3>2. iter[r] + 1 \in 0 .. Iters
      BY <1>1, <3>1, SMT
    <3>3. \A x \in Window(r) : Partner(r, x) = x /\ x \in Byte
      BY <1>1, <3>1, Piece
    <3>4. Byte \subseteq 0 .. BufSize
      BY <1>1, SMT DEF Byte
    <3>5. \A x \in Window(r) : <<iter[r] + 1, Partner(r, x)>> \in Datum
      BY <3>2, <3>3, <3>4 DEF Datum
    <3>6. shm \in [Byte -> Datum]
      BY <1>1 DEF TypeOK
    <3>7. shm' = [x \in Byte |-> IF x \in Window(r) THEN <<iter[r] + 1, Partner(r, x)>> ELSE shm[x]]
      BY <2>1 DEF PackPiece
    <3> QED BY <3>5, <3>6, <3>7, Zenon
  <2>2. CASE Overrun(r)
    <3>1. Junk \in Datum
      BY <1>1, SMT DEF Junk, Datum
    <3>2. shm \in [Byte -> Datum]
      BY <1>1 DEF TypeOK
    <3>3. \E S : shm' = [x \in Byte |-> IF x \in S THEN Junk ELSE shm[x]] \/ shm' = shm
      BY <2>2 DEF Overrun
    <3> QED BY <3>1, <3>2, <3>3, Zenon
  <2>3. CASE ~PackPiece(r) /\ ~Overrun(r)
    BY <1>1, <2>3 DEF TypeOK, RankStep, Launcher, DivideByZero, Setup, PassStartBarrier, StartRound,
       BeginChunk, UnpackPiece, Fault, OverrunFault, EndChunk, PassBcast, SendFin, PassFin,
       AssertFails, EndLoop, Finish, mem
  <2> QED BY <2>1, <2>2, <2>3
<1>11. lbuf' \in [Receiver -> [Byte -> Datum]]
  <2>1. CASE UnpackPiece(r)
    <3>1. r \in Receiver /\ iovcnt[r] < NBlocks /\ blocksize > 0
      BY <1>1, <2>1 DEF UnpackPiece, Own, Receiver
    <3>2. \A x \in Window(r) : Partner(r, x) = x /\ x \in Byte
      BY <1>1, <3>1, Piece
    <3> DEFINE copied == [y \in Byte |-> IF \E x \in Window(r) : Partner(r, x) = y
                                        THEN shm[CHOOSE x \in Window(r) : Partner(r, x) = y]
                                        ELSE lbuf[r][y]]
    <3>3. copied \in [Byte -> Datum]
      <4> SUFFICES ASSUME NEW y \in Byte PROVE copied[y] \in Datum
        OBVIOUS
      <4>1. CASE \E x \in Window(r) : Partner(r, x) = y
        <5>1. (CHOOSE x \in Window(r) : Partner(r, x) = y) \in Window(r)
          BY <4>1
        <5> QED BY <1>1, <3>2, <4>1, <5>1 DEF TypeOK
      <4>2. CASE ~\E x \in Window(r) : Partner(r, x) = y
        BY <1>1, <3>1, <4>2 DEF TypeOK
      <4> QED BY <4>1, <4>2
    <3>4. lbuf' = [lbuf EXCEPT ![r] = copied]
      BY <2>1 DEF UnpackPiece
    <3> HIDE DEF copied
    <3> QED BY <1>1, <3>1, <3>3, <3>4 DEF TypeOK
  <2>2. CASE ~UnpackPiece(r)
    BY <1>1, <2>2 DEF TypeOK, RankStep, Launcher, DivideByZero, Setup, PassStartBarrier, StartRound,
       BeginChunk, PackPiece, Fault, Overrun, OverrunFault, EndChunk, PassBcast, SendFin, PassFin,
       AssertFails, EndLoop, Finish, mem
  <2> QED BY <2>1, <2>2
<1>12. /\ iovcnt' \in [Rank -> 0 .. BufSize + MaxOverrun] /\ iovoff' \in [Rank -> Nat]
       /\ shmoff' \in [Rank -> Nat] /\ capacity' \in [Rank -> 0 .. depth']
  BY <1>4, <1>8, <1>9
<1>13. blocksize' \in BlockSizes /\ depth' \in Depths
  BY <1>1, <1>4 DEF TypeOK
<1>14. \A q \in Rank : blocksize' > 0 /\ iovcnt'[q] < NBlocks' =>
           shmoff'[q] = iovcnt'[q] * blocksize' + iovoff'[q]
  BY <1>8 DEF Placed
<1> QED BY <1>2, <1>3, <1>5, <1>6, <1>7, <1>10, <1>11, <1>12, <1>13, <1>14 DEF TypeOK

-----------------------------------------------------------------------------
(* The initial states: nobody has entered anything or copied anything.     *)
LEMMA InitIInv == Init => IInv
<1> SUFFICES ASSUME Init PROVE IInv
  OBVIOUS
<1> USE ArgsAssumption, FileAssumption, DepthAssumption, LoopAssumption, SenderAssumption
<1>1. calls \in [Rank -> Seq(Collective)] /\ \A r \in Rank : calls[r] = <<>> /\ Pos(r) = 0
  BY SMT DEF Init, Pos
<1>2. /\ Iters \in Nat \ {0} /\ blocksize \in Nat /\ depth \in Nat \ {0} /\ BufSize \in Nat \ {0}
      /\ 0 \in 0 .. Iters /\ 0 \in 0 .. depth /\ 0 \in 0 .. BufSize + MaxOverrun
      /\ \A x \in Byte : <<0, x>> \in Datum
  BY SMT DEF Init, Iters, Byte, Datum
<1>3. \A r \in Rank : /\ pc[r] = "setup" /\ iter[r] = 0 /\ iovcnt[r] = 0 /\ iovoff[r] = 0
                      /\ shmoff[r] = 0 /\ capacity[r] = 0
  BY DEF Init
<1>4. 0 * blocksize = 0 /\ 0 = 0 + 0
  BY <1>2, MulZero, SMT
<1>5. TypeOK
  <2>1. \A r \in Rank : shmoff[r] = iovcnt[r] * blocksize + iovoff[r]
    BY <1>3, <1>4
  <2>2. shm \in [Byte -> Datum] /\ lbuf \in [Receiver -> [Byte -> Datum]]
    BY <1>2 DEF Init
  <2>3. /\ iter \in [Rank -> 0 .. Iters] /\ iovcnt \in [Rank -> 0 .. BufSize + MaxOverrun]
        /\ iovoff \in [Rank -> Nat] /\ shmoff \in [Rank -> Nat] /\ capacity \in [Rank -> 0 .. depth]
        /\ pc \in [Rank -> Label] /\ mapped \in [Rank -> BOOLEAN]
        /\ blocksize \in BlockSizes /\ depth \in Depths /\ fsize \in FileSizes
        /\ clock \in {"off", "running", "stopped"}
    BY <1>2 DEF Init, Label
  <2> QED BY <1>1, <2>1, <2>2, <2>3 DEF TypeOK
<1>6. ASSUME NEW r \in Rank PROVE Own(r) /\ Lag(r) /\ Shape(r)
  <2>1. Own(r) /\ Lag(r)
    BY <1>1, <1>2, <1>3 DEF Own, Lag, InRound
  <2>2. Shape(r)
    BY <1>1, SMT DEF Shape
  <2> QED BY <2>1, <2>2
<1>7. ASSUME NEW r \in Rank PROVE Cursor(r)
  <2>1. ASSUME blocksize > 0, 0 >= NBlocks PROVE Total = 0
    <3>1. NBlocks \in Nat
      BY <1>5, <2>1, TotalFits
    <3>2. NBlocks = 0
      BY <2>1, <3>1, SMT
    <3> QED BY <1>4, <3>2 DEF Total
  <2> QED BY <1>2, <1>3, <2>1, SMT DEF Cursor
<1> QED BY <1>5, <1>6, <1>7 DEF IInv, Control

(* The invariant is inductive.                                             *)
LEMMA NextIInv == IInv /\ [Next]_vars => IInv'
<1> SUFFICES ASSUME IInv, [Next]_vars PROVE IInv'
  OBVIOUS
<1>1. CASE UNCHANGED vars
  <2>1. \A r \in Rank : /\ Own(r)' = Own(r) /\ Cursor(r)' = Cursor(r) /\ Lag(r)' = Lag(r)
                        /\ Shape(r)' = Shape(r)
    BY <1>1 DEF vars, Own, Cursor, Lag, Shape, Expected, Pos, Entered, Chunks, Total, NBlocks
  <2>2. TypeOK' = TypeOK
    BY <1>1 DEF vars, TypeOK, NBlocks
  <2> QED BY <2>1, <2>2 DEF IInv, Control
<1>2. ASSUME NEW r \in Rank, RankStep(r) \/ Launcher(r) PROVE IInv'
  <2>1. TypeOK'
    BY <1>2, TypeStep
  <2>2. ASSUME NEW q \in Rank PROVE Own(q)' /\ Cursor(q)'
    <3>1. CASE q = r
      BY <1>2, <3>1, OwnStep, CursorStep
    <3>2. CASE q # r
      <4>1. /\ TypeOK /\ Own(q) /\ Cursor(q) /\ Pos(q) \in Nat /\ Pos(Sender) \in Nat
        BY <2>2, PosNat, SenderAssumption DEF IInv, Control, TypeOK
      <4>2. /\ pc'[q] = pc[q] /\ iter'[q] = iter[q] /\ Pos(q)' = Pos(q)
            /\ iovcnt'[q] = iovcnt[q] /\ iovoff'[q] = iovoff[q]
            /\ shmoff'[q] = shmoff[q] /\ capacity'[q] = capacity[q]
        BY <1>2, <3>2, <4>1, OthersKeep
      <4>3. /\ blocksize' = blocksize /\ depth' = depth /\ NBlocks' = NBlocks /\ Total' = Total
            /\ Chunks' = Chunks
        BY <1>2, FixedArgs
      <4>4. Pos(Sender) >= Pos(q) => Pos(Sender)' >= Pos(q)'
        <5>1. Pos(Sender)' \in Nat /\ Pos(Sender)' >= Pos(Sender)
          BY <1>2, <4>1, Enters, SenderAssumption
        <5> QED BY <4>1, <4>2, <5>1, SMT
      <4>5. Entered(q)' = Entered(q)
        BY <4>2, <4>3 DEF Entered
      <4>6. Own(q)'
        BY <4>1, <4>2, <4>3, <4>4, <4>5 DEF Own
      <4>7. Cursor(q)'
        BY <4>1, <4>2, <4>3 DEF Cursor
      <4> QED BY <4>6, <4>7
    <3> QED BY <3>1, <3>2
  <2>3. ASSUME NEW q \in Rank PROVE Lag(q)' /\ Shape(q)'
    BY <1>2, LagStep, ShapeStep
  <2> QED BY <2>1, <2>2, <2>3 DEF IInv, Control
<1> QED BY <1>1, <1>2 DEF Next, Terminating

(* The inductive invariant behind all the others.                          *)
THEOREM Inductive == Spec => []IInv
<1> QED BY InitIInv, NextIInv, PTL DEF Spec

-----------------------------------------------------------------------------
(* Types, and: as long as a rank is within its blocks, the byte its cursor *)
(* is at in the shared region is the byte it is at in its own buffer.      *)
THEOREM TypeCorrect == Spec => []TypeOK
<1>1. IInv => TypeOK
  BY DEF IInv
<1> QED BY <1>1, Inductive, PTL

(* Nobody waits in a collective that its peers pass by: whatever the block *)
(* and chunk sizes, all ranks make the same chunks of a round.             *)
LEMMA ShapesAgree == IInv => CallsAgree
<1> SUFFICES ASSUME IInv, NEW q \in Rank, NEW r \in Rank, NEW k \in 1 .. Len(calls[r]),
                    k <= Len(calls[q])
             PROVE  calls[q][k] = calls[r][k]
  BY DEF CallsAgree
<1>1. Shape(q) /\ Shape(r) /\ Len(calls[q]) \in Nat /\ Len(calls[r]) \in Nat
  BY PosNat DEF IInv, Control, TypeOK, Pos
<1>2. k \in 1 .. Len(calls[q])
  BY <1>1, SMT
<1> QED BY <1>1, <1>2 DEF Shape, Pos

(* Any two ranks' k-th calls are the same collective: no Bcast meets a Gather. *)
THEOREM CallsAgreeHolds == Spec => []CallsAgree
<1> QED BY ShapesAgree, Inductive, PTL

-----------------------------------------------------------------------------
(* A receiver in a chunk is behind the sender packing the next: it has     *)
(* heard of a chunk the sender announced in this very round.               *)
LEMMA Apart == IInv => NoRace
<1> SUFFICES ASSUME IInv, pc[Sender] = "pack", iovcnt[Sender] < NBlocks,
                    NEW r \in Receiver, pc[r] = "unpack", iovcnt[r] < NBlocks
             PROVE  Window(Sender) \cap Window(r) = {}
  BY DEF NoRace
<1> DEFINE c == Chunks
           d == depth
           a == Entered(Sender)
           e == Entered(r)
<1>1. /\ TypeOK /\ Own(Sender) /\ Own(r) /\ Cursor(Sender) /\ Cursor(r) /\ Lag(r)
      /\ r \in Rank /\ Sender \in Rank /\ iter[Sender] \in Nat /\ iter[r] \in Nat
      /\ Pos(Sender) \in Nat /\ Pos(r) \in Nat
  <2>1. TypeOK /\ Sender \in Rank /\ r \in Rank
    BY SenderAssumption DEF IInv, Receiver
  <2>2. /\ Own(Sender) /\ Own(r) /\ Cursor(Sender) /\ Cursor(r) /\ Lag(r)
        /\ iter[Sender] \in 0 .. Iters /\ iter[r] \in 0 .. Iters /\ Iters \in Nat
        /\ Pos(Sender) \in Nat /\ Pos(r) \in Nat
    BY <2>1, Numbers, PosNat DEF IInv, Control, TypeOK
  <2> QED BY <2>1, <2>2, SMT
<1>2. /\ blocksize > 0 /\ a \in 0 .. c /\ a < c /\ e \in 1 .. c /\ Pos(Sender) >= Pos(r)
      /\ shmoff[Sender] + capacity[Sender] = Bytes(d, a + 1)
      /\ shmoff[r] + capacity[r] = Bytes(d, e)
  BY <1>1 DEF Own
<1>3. c \in Nat
  BY <1>1, <1>2, ChunkFacts
<1>4. /\ Start(c, iter[Sender]) \in Nat /\ Start(c, iter[r]) \in Nat
      /\ Start(c, iter[Sender] + 1) = Start(c, iter[Sender]) + c + 1
      /\ Start(c, iter[r] + 1) = Start(c, iter[r]) + c + 1
      /\ iter[Sender] < iter[r] => Start(c, iter[Sender] + 1) <= Start(c, iter[r])
      /\ iter[r] < iter[Sender] => Start(c, iter[r] + 1) <= Start(c, iter[Sender])
      /\ a = Pos(Sender) - Start(c, iter[Sender]) /\ e = Pos(r) - Start(c, iter[r])
      /\ iter[Sender] > 0 => Pos(r) >= Start(c, iter[Sender])
  BY <1>1, <1>3, StartFacts DEF Lag, Entered
<1> HIDE DEF c, a, e
<1>5. iter[Sender] = iter[r]
  <2>1. ~(iter[Sender] < iter[r])
    BY <1>1, <1>2, <1>3, <1>4, SMT
  <2>2. ~(iter[r] < iter[Sender])
    BY <1>1, <1>2, <1>3, <1>4, SMT
  <2> QED BY <1>1, <2>1, <2>2, SMT
<1>6. e <= a /\ a \in Nat /\ e \in Nat
  <2>1. Pos(Sender) - Start(c, iter[r]) >= Pos(r) - Start(c, iter[r])
    BY <1>1, <1>2, <1>4, SMT
  <2> QED BY <1>2, <1>3, <1>4, <1>5, <2>1, SMT
<1>7. /\ Bytes(d, e) \in Nat /\ Bytes(d, a) \in Nat /\ Bytes(d, a + 1) = Bytes(d, a) + d
      /\ Bytes(d, e) <= Bytes(d, a)
  BY <1>1, <1>2, <1>6, ChunkFacts
<1>8. /\ shmoff[Sender] \in Nat /\ shmoff[r] \in Nat /\ d \in Nat \ {0}
      /\ capacity[Sender] \in 0 .. d /\ capacity[r] \in 0 .. d
  BY <1>1, Numbers DEF TypeOK
<1>9. shmoff[r] + Length(r) <= Bytes(d, e)
  <2>1. /\ Left(r) \in Nat \ {0} /\ Length(r) \in Nat
        /\ Length(r) = IF capacity[r] >= Left(r) THEN Left(r) ELSE capacity[r]
    BY <1>1, <1>2, Piece
  <2> HIDE DEF d
  <2>2. Length(r) <= capacity[r] /\ capacity[r] \in Nat
    BY <1>8, <2>1, SMT
  <2> QED BY <1>2, <1>7, <1>8, <2>1, <2>2, SMT
<1>10. shmoff[Sender] >= Bytes(d, a)
  BY <1>2, <1>7, <1>8, SMT
<1>11. ASSUME NEW x \in Window(Sender), x \in Window(r) PROVE FALSE
  <2>1. /\ x \in Nat /\ shmoff[Sender] <= x /\ x < shmoff[r] + Length(r) /\ Length(r) \in Nat
    BY <1>1, <1>2, <1>11, Piece
  <2> QED BY <1>7, <1>8, <1>9, <1>10, <2>1, SMT
<1> QED BY <1>11

(* The sender never writes where a receiver is still reading, although it  *)
(* packs the next chunks before anybody has acknowledged the last.         *)
THEOREM NoRaceHolds == Spec => []NoRace
<1> QED BY Apart, Inductive, PTL

-----------------------------------------------------------------------------
(* The first q bytes, of those the blocks cover, are of round i + 1, the   *)
(* others of round i, and each is in its place.                            *)
Filled(cov, buf, i, q) == \A x \in cov : buf[x] = <<IF x < q THEN i + 1 ELSE i, x>>

Outside == {"setup", "start_barrier", "loop", "end_barrier", "done"}
Dead == Failed \cup {"killed"}

(* What the rank's position tells of its round, even once it is dead.      *)
Bound(r) == blocksize > 0 /\ iter[r] < Iters => Pos(r) <= Start(Chunks, iter[r] + 1)
Reach(r) ==
    /\ Bound(r)
    /\ blocksize > 0 /\ Chunks = 0 => iter[r] = 0
    /\ pc[r] = "gather" => shmoff[r] = Bytes(depth, Chunks)

(* A receiver is past no announcement the sender has not made.             *)
Heard(r) ==
    /\ blocksize > 0 /\ iter[r] > 0 => Pos(Sender) >= Start(Chunks, iter[r]) - 1
    /\ pc[r] = "chunk" /\ Entered(r) > 0 => Pos(Sender) >= Pos(r)
    /\ pc[r] \in {"bcast", "gather"} /\ Entered(r) > 1 => Pos(Sender) >= Pos(r) - 1

(* What a live rank has copied: the sender into the shared region, a       *)
(* receiver into its own buffer.                                           *)
Buffer(r) == IF r = Sender THEN shm ELSE lbuf[r]
Copied(r) ==
    /\ pc[r] \in InRound => Filled(Covered, Buffer(r), iter[r], shmoff[r])
    /\ pc[r] \in Outside => Filled(Covered, Buffer(r), iter[r], 0)

(* What the position of a receiver tells of its buffer, dead or alive: it  *)
(* has all of a round it has acknowledged and nothing of one not announced.*)
Whole(r) ==
    /\ iter[r] < Iters /\ Pos(r) >= Start(Chunks, iter[r] + 1) =>
           Filled(Covered, lbuf[r], iter[r] + 1, 0)
    /\ Pos(Sender) <= Start(Chunks, iter[r]) => Filled(Covered, lbuf[r], iter[r], 0)

(* Likewise for the region: the chunks the sender has announced are there. *)
Sent ==
    iter[Sender] < Iters =>
        \A n \in 1 .. Chunks : n <= Entered(Sender) =>
            \A x \in Covered : x < Bytes(depth, n) => shm[x] = <<iter[Sender] + 1, x>>

Places == (\A r \in Rank : Reach(r)) /\ (\A r \in Receiver : Heard(r))
Data ==
    blocksize > 0 => Sent /\ (\A r \in Rank : Copied(r)) /\ (\A r \in Receiver : Whole(r))

AnnouncedInv ==
    blocksize > 0 =>
        Announced = IF iter[Sender] < Iters /\ Entered(Sender) > 0 /\ Chunks > 0
                    THEN iter[Sender] + 1 ELSE iter[Sender]
ClockInv == clock = "stopped" => iter[Sender] = Iters

DInv == IInv /\ Places /\ Data
RInv == DInv /\ AnnouncedInv /\ ClockInv

(* The covered bytes are those of all the blocks.                          *)
LEMMA CoveredIs ==
    ASSUME TypeOK, blocksize > 0
    PROVE  /\ Covered = 0 .. Total - 1 /\ Covered \subseteq Byte
           /\ \A x \in Covered : x \in Nat /\ x < Total
           /\ Chunks = 0 <=> Total = 0
           /\ Bytes(depth, Chunks) >= Total /\ Bytes(depth, Chunks) \in Nat
<1>1. /\ Total \in Nat /\ Total <= BufSize /\ BufSize \in Nat
      /\ Chunks \in Nat /\ Bytes(depth, 0) = 0 /\ Bytes(depth, Chunks) \in Nat
      /\ Bytes(depth, 0) < Total <=> 0 < Chunks
      /\ ~(Bytes(depth, Chunks) < Total)
  <2>1. Chunks \in Nat /\ 0 \in Nat
    BY ChunkFacts, SMT
  <2>2. ~(Chunks < Chunks)
    BY <2>1, SMT
  <2> QED BY <2>1, <2>2, ChunkFacts, TotalFits, Numbers
<1>2. Covered = 0 .. Total - 1
  BY Numbers, SMT DEF Covered, Total
<1> QED BY <1>1, <1>2, SMT DEF Byte

(* What Own says, with the numbers it is about.                            *)
LEMMA OwnFacts ==
    ASSUME IInv, NEW r \in Rank
    PROVE  /\ TypeOK /\ Own(r) /\ Cursor(r) /\ Lag(r) /\ Pos(r) \in Nat /\ iter[r] \in Nat
           /\ iter[r] <= Iters /\ Iters \in Nat \ {0} /\ Sender \in Rank
           /\ shmoff[r] \in Nat /\ capacity[r] \in Nat /\ capacity[r] <= depth
           /\ blocksize \in Nat /\ depth \in Nat \ {0}
           /\ blocksize > 0 =>
                 /\ Chunks \in Nat /\ Start(Chunks, iter[r]) \in Nat
                 /\ Start(Chunks, iter[r]) >= 1
                 /\ Entered(r) = Pos(r) - Start(Chunks, iter[r])
                 /\ Start(Chunks, iter[r] + 1) = Start(Chunks, iter[r]) + Chunks + 1
                 /\ Start(Chunks, 0) = 1 /\ Bytes(depth, 0) = 0
<1>1. TypeOK /\ Own(r) /\ Cursor(r) /\ Lag(r)
  BY DEF IInv, Control
<1>2. Iters \in Nat \ {0} /\ blocksize \in Nat /\ depth \in Nat \ {0} /\ Sender \in Rank
  BY <1>1, Numbers
<1>3. iter[r] \in 0 .. Iters /\ capacity[r] \in 0 .. depth /\ shmoff[r] \in Nat /\ Pos(r) \in Nat
  BY <1>1, PosNat DEF TypeOK
<1>4. iter[r] \in Nat /\ iter[r] <= Iters /\ capacity[r] \in Nat /\ capacity[r] <= depth
  BY <1>2, <1>3, SMT
<1>5. blocksize > 0 =>
         /\ Chunks \in Nat /\ Start(Chunks, iter[r]) \in Nat
         /\ Start(Chunks, iter[r]) >= 1
         /\ Start(Chunks, iter[r] + 1) = Start(Chunks, iter[r]) + Chunks + 1
         /\ Start(Chunks, 0) = 1 /\ Bytes(depth, 0) = 0
  BY <1>1, <1>4, ChunkFacts, StartFacts
<1> QED BY <1>1, <1>2, <1>3, <1>4, <1>5 DEF Entered

(* A live rank is within its round.                                        *)
Standing == \A r \in Rank : pc[r] \notin Dead => Bound(r)
(* A rank that is not dead stands within its round.                        *)
LEMMA Stands == IInv => Standing
<1> SUFFICES ASSUME IInv, NEW r \in Rank, pc[r] \notin Dead, blocksize > 0, iter[r] < Iters
             PROVE  Pos(r) <= Start(Chunks, iter[r] + 1)
  BY DEF Standing, Bound
<1> DEFINE c == Chunks
           p == Pos(r)
           s == Start(c, iter[r])
<1>1. /\ Own(r) /\ p \in Nat /\ c \in Nat /\ s \in Nat /\ s >= 1 /\ Entered(r) = p - s
      /\ Start(c, iter[r] + 1) = s + c + 1 /\ iter[r] \in Nat /\ TypeOK
  BY OwnFacts
<1>2. \/ Entered(r) \in 0 .. c \/ Entered(r) = c + 1 \/ Entered(r) = 0 \/ p = 0 \/ p = 1
      \/ Entered(r) \in 1 .. c \/ iter[r] = Iters
  BY <1>1 DEF Own, TypeOK, Label, Dead, Stopped
<1>3. iter[r] # Iters
  BY <1>1, SMT
<1> HIDE DEF c, p, s
<1>4. p <= s + c + 1
  BY <1>1, <1>2, <1>3, SMT
<1> QED BY <1>1, <1>4 DEF c, p, s

(* Steps other than a death, and the part of the state they are about.     *)
LEMMA LiveStep ==
    ASSUME IInv, NEW r \in Rank, RankStep(r), ~Dies(r)
    PROVE  /\ blocksize > 0 /\ pc[r] \notin Stopped
           /\ \/ Setup(r) \/ PassStartBarrier(r) \/ StartRound(r) \/ BeginChunk(r) \/ PackPiece(r)
              \/ UnpackPiece(r) \/ Overrun(r) \/ EndChunk(r) \/ PassBcast(r) \/ SendFin(r)
              \/ PassFin(r) \/ EndLoop(r) \/ Finish(r)
<1>1. \/ Setup(r) \/ PassStartBarrier(r) \/ StartRound(r) \/ BeginChunk(r) \/ PackPiece(r)
      \/ UnpackPiece(r) \/ Overrun(r) \/ EndChunk(r) \/ PassBcast(r) \/ SendFin(r)
      \/ PassFin(r) \/ EndLoop(r) \/ Finish(r)
  BY DEF RankStep, Dies
<1>2. pc[r] \notin Stopped
  BY <1>1 DEF Setup, PassStartBarrier, StartRound, BeginChunk, PackPiece, UnpackPiece, Overrun,
     EndChunk, PassBcast, SendFin, PassFin, EndLoop, Finish, Stopped, Failed
<1>3. pc[r] = "setup" => Setup(r)
  BY <1>1 DEF Setup, PassStartBarrier, StartRound, BeginChunk, PackPiece, UnpackPiece, Overrun,
     EndChunk, PassBcast, SendFin, PassFin, EndLoop, Finish
<1>4. Own(r)
  BY OwnFacts
<1>5. blocksize > 0
  BY <1>2, <1>3, <1>4 DEF Own, Setup, Stopped, Failed
<1> QED BY <1>1, <1>2, <1>5

(* The position of the rank that steps.                                    *)
LEMMA ReachOwn ==
    ASSUME IInv, IInv', NEW r \in Rank, Reach(r), RankStep(r) \/ Launcher(r)
    PROVE  Reach(r)'
<1>1. /\ TypeOK /\ Own(r) /\ Chunks' = Chunks /\ depth' = depth /\ blocksize' = blocksize
  BY OwnFacts, FixedArgs
<1>2. CASE Dies(r)
  <2>1. /\ UNCHANGED <<calls, iter, shmoff>> /\ pc'[r] # "gather"
    BY <1>1, <1>2, DyingKeeps DEF Stopped, Failed
  <2> QED BY <1>1, <2>1 DEF Reach, Bound, Pos
<1>3. CASE ~Dies(r)
  <2>1. RankStep(r)
    BY <1>3 DEF Dies
  <2>2. pc'[r] \notin Dead
    BY <1>1, <1>3, <2>1, LiveStep DEF Setup, PassStartBarrier, StartRound, BeginChunk, PackPiece, UnpackPiece,
       Overrun, EndChunk, PassBcast, SendFin, PassFin, EndLoop, Finish, Goto, TypeOK, Dead, Failed,
       Stopped
  <2>3. Standing'
    BY Stands, PTL
  <2>4. Bound(r)'
    BY <2>2, <2>3 DEF Standing
  <2>5. pc'[r] = "gather" => shmoff'[r] = Bytes(depth, Chunks)
    <3>1. CASE SendFin(r)
      <4>1. /\ pc[r] = "chunk" /\ shmoff' = shmoff /\ ~(iovcnt[r] < NBlocks)
        BY <3>1 DEF SendFin, MoreBlocks, cursor
      <4>2. /\ blocksize > 0 /\ Chunks \in Nat /\ shmoff[r] = Bytes(depth, Entered(r))
            /\ Entered(r) \in 0 .. Chunks /\ ~(shmoff[r] < Total)
        BY <1>1, <4>1, OwnFacts, Piece DEF Own
      <4>3. Entered(r) \in Nat
        BY <4>2, SMT
      <4>4. ~(Entered(r) < Chunks)
        BY <1>1, <4>2, <4>3, ChunkFacts
      <4>5. Entered(r) = Chunks
        BY <4>2, <4>3, <4>4, SMT
      <4> QED BY <1>1, <4>1, <4>2, <4>5
    <3>2. CASE ~SendFin(r)
      <4>1. pc'[r] = "gather" => pc[r] = "gather" /\ shmoff' = shmoff
        BY <1>1, <1>3, <2>1, <3>2, LiveStep DEF Setup, PassStartBarrier, StartRound, BeginChunk, PackPiece,
         UnpackPiece, Overrun, EndChunk, PassBcast, PassFin, EndLoop, Finish, Goto, TypeOK
      <4> QED BY <1>1, <4>1 DEF Reach
    <3> QED BY <3>1, <3>2
  <2>6. blocksize > 0 /\ Chunks = 0 => iter'[r] = 0
    <3> SUFFICES ASSUME blocksize > 0, Chunks = 0 PROVE iter'[r] = 0
      OBVIOUS
    <3>1. CASE PassFin(r)
      <4>1. shmoff[r] = BufSize /\ pc[r] = "gather"
        BY <3>1 DEF PassFin, AllRead
      <4>2. shmoff[r] = 0
        BY <4>1, OwnFacts DEF Reach
      <4> QED BY <4>1, <4>2, ArgsAssumption
    <3>2. CASE ~PassFin(r)
      <4>1. iter' = iter
        BY <1>1, <1>3, <2>1, <3>2, LiveStep DEF Setup, PassStartBarrier, StartRound, BeginChunk, PackPiece,
         UnpackPiece, Overrun, EndChunk, PassBcast, SendFin, EndLoop, Finish
      <4> QED BY <4>1 DEF Reach
    <3> QED BY <3>1, <3>2
  <2> QED BY <1>1, <2>4, <2>5, <2>6 DEF Reach
<1> QED BY <1>2, <1>3

(* What the receiver that steps has heard of the sender.                   *)
LEMMA HeardOwn ==
    ASSUME IInv, IInv', NEW r \in Receiver, Reach(r), Reach(r)', Heard(r),
           RankStep(r) \/ Launcher(r)
    PROVE  Heard(r)'
<1>1. /\ TypeOK /\ Own(r) /\ Chunks' = Chunks /\ depth' = depth /\ blocksize' = blocksize
      /\ r \in Rank /\ r # Sender /\ Sender \in Rank
  BY OwnFacts, FixedArgs DEF Receiver
<1>2. Pos(Sender)' = Pos(Sender) /\ Pos(Sender) \in Nat
  BY <1>1, OthersKeep, OwnFacts
<1>3. CASE Dies(r)
  <2>1. UNCHANGED <<calls, iter>> /\ pc'[r] \notin {"chunk", "bcast", "gather"}
    BY <1>1, <1>3, DyingKeeps DEF Stopped, Failed
  <2> QED BY <1>1, <1>2, <2>1 DEF Heard, Pos
<1>4. CASE ~Dies(r)
  <2> DEFINE c == Chunks
             s == Start(c, iter[r])
             p == Pos(r)
             E == Entered(r)
  <2>1. RankStep(r) /\ blocksize > 0
    BY <1>1, <1>4, LiveStep DEF Dies
  <2>2. /\ c \in Nat /\ s \in Nat /\ s >= 1 /\ E = p - s /\ p \in Nat /\ iter[r] \in Nat
        /\ Start(c, iter[r] + 1) = s + c + 1
    BY <1>1, <2>1, OwnFacts
  <2>3. Entered(r)' = Pos(r)' - Start(c, iter'[r])
    BY <1>1 DEF Entered
  <2>4. CASE PassFin(r)
    <3>1. pc[r] = "gather" /\ pc'[r] = "loop" /\ iter'[r] = iter[r] + 1
      BY <1>1, <2>4 DEF PassFin, Goto, TypeOK
    <3>2. c # 0
      <4>1. iter'[r] # 0
        BY <2>2, <3>1, SMT
      <4> QED BY <1>1, <2>1, <4>1 DEF Reach
    <3>3. E = c + 1 /\ (E > 1 => Pos(Sender) >= p - 1)
      BY <1>1, <3>1 DEF Own, Heard
    <3>4. Pos(Sender) >= Start(c, iter[r] + 1) - 1
      <4> HIDE DEF c, s, p, E
      <4> QED BY <1>2, <2>2, <3>2, <3>3, SMT
    <3> QED BY <1>1, <1>2, <3>1, <3>4 DEF Heard
  <2>5. CASE BeginChunk(r) \/ SendFin(r)
    <3>1. /\ pc[r] = "chunk" /\ iter' = iter /\ pc'[r] # "chunk" /\ Pos(r)' = p + 1
      <4>1. /\ pc[r] = "chunk" /\ iter' = iter /\ pc'[r] # "chunk"
            /\ \E op \in Collective : Enter(r, op)
        BY <1>1, <2>5 DEF BeginChunk, SendFin, Goto, TypeOK, Collective
      <4> QED BY <1>1, <4>1, EnterPos DEF TypeOK
    <3>2. Entered(r)' = E + 1 /\ (E > 0 => Pos(Sender) >= p)
      <4>1. E > 0 => Pos(Sender) >= p
        BY <3>1 DEF Heard
      <4> QED BY <2>2, <2>3, <3>1, <4>1, SMT
    <3>3. Entered(r)' > 1 => Pos(Sender) >= Pos(r)' - 1
      <4> HIDE DEF c, s, p, E
      <4> QED BY <1>2, <2>2, <3>1, <3>2, SMT
    <3> QED BY <1>1, <1>2, <3>1, <3>3 DEF Heard
  <2>6. CASE EndChunk(r)
    <3>1. pc[r] \in {"pack", "unpack"} /\ UNCHANGED <<calls, iter>> /\ pc'[r] = "chunk"
      BY <1>1, <2>6 DEF EndChunk, Goto, TypeOK
    <3>2. Pos(Sender) >= p
      BY <1>1, <3>1 DEF Own
    <3>3. Pos(r)' = p
      BY <3>1 DEF Pos
    <3> QED BY <1>1, <1>2, <3>1, <3>2, <3>3 DEF Heard
  <2>7. CASE StartRound(r)
    <3>1. /\ pc[r] = "loop" /\ UNCHANGED <<calls, iter>> /\ pc'[r] = "chunk"
      BY <1>1, <2>7 DEF StartRound, Goto, TypeOK
    <3>2. E = 0 /\ Entered(r)' = E
      BY <1>1, <2>2, <2>3, <3>1 DEF Own, Pos
    <3>3. ~(E > 0)
      BY <3>2, SMT
    <3> QED BY <1>1, <1>2, <3>1, <3>2, <3>3 DEF Heard
  <2>8. CASE PackPiece(r) \/ UnpackPiece(r) \/ Overrun(r) \/ PassBcast(r)
             \/ Setup(r) \/ PassStartBarrier(r) \/ EndLoop(r) \/ Finish(r)
    <3>1. iter' = iter /\ pc'[r] \notin {"chunk", "bcast", "gather"}
      BY <1>1, <2>8 DEF PackPiece, UnpackPiece, Overrun, PassBcast, Setup, PassStartBarrier,
         EndLoop, Finish, Goto, TypeOK
    <3> QED BY <1>1, <1>2, <3>1 DEF Heard
  <2> QED BY <1>1, <1>4, <2>1, <2>4, <2>5, <2>6, <2>7, <2>8, LiveStep
<1> QED BY <1>3, <1>4

(* Where the ranks are in their rounds, in every step of any of them.      *)
LEMMA PlacesStep ==
    ASSUME IInv, IInv', Places, NEW r \in Rank, RankStep(r) \/ Launcher(r)
    PROVE  Places'
<1>1. /\ TypeOK /\ Chunks' = Chunks /\ depth' = depth /\ blocksize' = blocksize /\ Sender \in Rank
      /\ \A q \in Rank : Pos(q)' \in Nat /\ Pos(q)' >= Pos(q) /\ Pos(q) \in Nat
  BY OwnFacts, FixedArgs, Enters
<1>2. ASSUME NEW q \in Rank PROVE Reach(q)'
  <2>1. CASE q = r
    BY <2>1, ReachOwn DEF Places
  <2>2. CASE q # r
    <3>1. /\ pc'[q] = pc[q] /\ iter'[q] = iter[q] /\ Pos(q)' = Pos(q) /\ shmoff'[q] = shmoff[q]
      BY <1>1, <2>2, OthersKeep
    <3> QED BY <1>1, <3>1 DEF Places, Reach, Bound
  <2> QED BY <2>1, <2>2
<1>3. ASSUME NEW q \in Receiver PROVE Heard(q)'
  <2>1. q \in Rank /\ Reach(q) /\ Reach(q)' /\ Heard(q)
    BY <1>2 DEF Places, Receiver
  <2>2. CASE q = r
    BY <2>1, <2>2, HeardOwn
  <2>3. CASE q # r
    <3>1. /\ pc'[q] = pc[q] /\ iter'[q] = iter[q] /\ Pos(q)' = Pos(q)
      BY <1>1, <2>1, <2>3, OthersKeep
    <3>2. Entered(q)' = Entered(q)
      BY <1>1, <3>1 DEF Entered
    <3>3. \A k \in Int : Pos(Sender) >= k => Pos(Sender)' >= k
      BY <1>1, SMT
    <3>4. /\ Pos(q) \in Int /\ Pos(q) - 1 \in Int
          /\ blocksize > 0 => Start(Chunks, iter[q]) - 1 \in Int
      <4>1. Pos(q) \in Nat /\ (blocksize > 0 => Start(Chunks, iter[q]) \in Nat)
        BY <2>1, OwnFacts
      <4> QED BY <4>1, SMT
    <3> QED BY <1>1, <2>1, <3>1, <3>2, <3>3, <3>4 DEF Heard
  <2> QED BY <2>2, <2>3
<1> QED BY <1>2, <1>3 DEF Places

-----------------------------------------------------------------------------
(* A receiver that copies is in the round the sender is in, and finds the  *)
(* chunks it has heard of.                                                 *)
LEMMA UnpacksRound ==
    ASSUME DInv, NEW r \in Receiver, pc[r] = "unpack"
    PROVE  /\ blocksize > 0 /\ r \in Rank /\ iter[r] = iter[Sender] /\ iter[r] < Iters
           /\ Entered(r) \in 1 .. Chunks /\ Entered(Sender) >= Entered(r)
           /\ Entered(Sender) \in Int
<1> DEFINE c == Chunks
           s == Start(c, iter[r])
           t == Start(c, iter[Sender])
           p == Pos(r)
           q == Pos(Sender)
<1>1. /\ IInv /\ r \in Rank /\ r # Sender /\ Sender \in Rank /\ Reach(Sender)
      /\ TypeOK /\ Own(r) /\ Lag(r)
  BY SenderAssumption, OwnFacts DEF DInv, Places, Receiver
<1>2. /\ blocksize > 0 /\ Entered(r) \in 1 .. c /\ q >= p /\ iter[r] < Iters
  BY <1>1 DEF Own, InRound
<1>3. /\ c \in Nat /\ s \in Nat /\ t \in Nat /\ t >= 1 /\ p \in Nat /\ q \in Nat
      /\ iter[r] \in Nat /\ iter[Sender] \in Nat /\ Iters \in Nat /\ iter[Sender] <= Iters
      /\ Entered(r) = p - s /\ Entered(Sender) = q - t
      /\ Start(c, iter[r] + 1) = s + c + 1 /\ Start(c, iter[Sender] + 1) = t + c + 1
  BY <1>1, <1>2, OwnFacts
<1>4. /\ iter[r] < iter[Sender] => s + c + 1 <= t
      /\ iter[Sender] < iter[r] => t + c + 1 <= s
  <2>1. /\ iter[r] < iter[Sender] => Start(c, iter[r] + 1) <= Start(c, iter[Sender])
        /\ iter[Sender] < iter[r] => Start(c, iter[Sender] + 1) <= Start(c, iter[r])
    BY <1>3, StartFacts
  <2> QED BY <1>3, <2>1
<1>5. /\ iter[Sender] > 0 => p >= t
      /\ iter[Sender] < Iters => q <= t + c + 1
  BY <1>1, <1>2, <1>3 DEF Lag, Reach, Bound
<1>6. Entered(r) = p - s /\ Entered(r) \in 1 .. c
  BY <1>2, <1>3
<1> HIDE DEF c, s, t, p, q
<1>7. 1 <= p - s /\ p - s <= c
  BY <1>3, <1>6, SMT
<1>8. ~(iter[r] < iter[Sender])
  BY <1>3, <1>4, <1>5, <1>7, SMT
<1>9. ~(iter[Sender] < iter[r])
  BY <1>2, <1>3, <1>4, <1>5, <1>7, SMT
<1>10. iter[r] = iter[Sender]
  BY <1>3, <1>8, <1>9, SMT
<1>11. s = t
  BY <1>10 DEF s, t
<1>12. Entered(Sender) >= Entered(r) /\ Entered(Sender) \in Int
  BY <1>2, <1>3, <1>11, SMT
<1> QED BY <1>1, <1>2, <1>10, <1>12 DEF c

(* What a receiver is about to copy is the data of its round, each byte in *)
(* its place.                                                              *)
LEMMA WindowFresh ==
    ASSUME DInv, NEW r \in Receiver, pc[r] = "unpack", iovcnt[r] < NBlocks
    PROVE  \A x \in Window(r) : shm[x] = <<iter[r] + 1, x>>
<1>1. /\ blocksize > 0 /\ r \in Rank /\ iter[r] = iter[Sender] /\ iter[r] < Iters
      /\ Entered(r) \in 1 .. Chunks /\ Entered(Sender) >= Entered(r)
      /\ IInv /\ Sent
  BY UnpacksRound DEF DInv, Data
<1>2. /\ TypeOK /\ Cursor(r) /\ shmoff[r] \in Nat /\ capacity[r] \in Nat /\ depth \in Nat \ {0}
      /\ Chunks \in Nat /\ r # Sender
      /\ shmoff[r] + capacity[r] = Bytes(depth, Entered(r))
  BY <1>1, OwnFacts DEF Own, Receiver
<1>3. TAKE x \in Window(r)
<1>4. /\ x \in Nat /\ x < shmoff[r] + Length(r) /\ shmoff[r] + Length(r) <= Total
      /\ Length(r) \in Nat /\ Left(r) \in Nat
      /\ Length(r) = IF capacity[r] >= Left(r) THEN Left(r) ELSE capacity[r]
  BY <1>1, <1>2, Piece
<1>5. Length(r) <= capacity[r]
  BY <1>2, <1>4, SMT
<1>6. x < Bytes(depth, Entered(r)) /\ x < Total
  <2>1. Entered(r) \in Nat
    BY <1>1, <1>2, SMT
  <2>2. Bytes(depth, Entered(r)) \in Nat /\ Total \in Nat
    BY <1>1, <1>2, <2>1, ChunkFacts, TotalFits
  <2> QED BY <1>2, <1>4, <1>5, <2>2, SMT
<1>7. x \in Covered
  <2>1. Covered = 0 .. Total - 1 /\ Total \in Nat
    BY <1>1, <1>2, CoveredIs, TotalFits
  <2> QED BY <1>4, <1>6, <2>1, SMT
<1> QED BY <1>1, <1>6, <1>7 DEF Sent

(* A piece brings the bytes of the window to their places, and leaves the  *)
(* others alone.                                                           *)
LEMMA PieceBrings ==
    ASSUME DInv, NEW r \in Rank, blocksize > 0, PackPiece(r) \/ UnpackPiece(r)
    PROVE  /\ iovcnt[r] < NBlocks /\ shmoff'[r] = shmoff[r] + Length(r)
           /\ UNCHANGED <<pc, iter, blocksize>> /\ pc[r] \in InRound
           /\ \A x \in Covered :
                 Buffer(r)'[x] = IF x \in Window(r) THEN <<iter[r] + 1, x>> ELSE Buffer(r)[x]
<1>1. TypeOK /\ Own(r) /\ Cursor(r)
  BY OwnFacts DEF DInv
<1>2. /\ iovcnt[r] < NBlocks /\ shmoff'[r] = shmoff[r] + Length(r)
      /\ UNCHANGED <<pc, iter, blocksize>> /\ pc[r] \in {"pack", "unpack"}
  BY <1>1 DEF PackPiece, UnpackPiece, AdvanceCursor, TypeOK, args, file
<1>3. Covered \subseteq Byte
  BY <1>1, CoveredIs
<1>4. \A x \in Window(r) : Partner(r, x) = x
  BY <1>1, <1>2, Piece
<1>5. CASE PackPiece(r)
  <2>1. r = Sender
    BY <1>1, <1>5 DEF PackPiece, Own
  <2>2. \A x \in Byte : shm'[x] = IF x \in Window(r) THEN <<iter[r] + 1, Partner(r, x)>> ELSE shm[x]
    BY <1>5 DEF PackPiece
  <2> QED BY <1>2, <1>3, <1>4, <2>1, <2>2 DEF Buffer, InRound
<1>6. CASE UnpackPiece(r)
  <2>1. r # Sender /\ r \in Receiver /\ pc[r] = "unpack"
    BY <1>1, <1>6 DEF UnpackPiece, Own, Receiver
  <2>2. \A y \in Byte : lbuf'[r][y] = IF \E x \in Window(r) : Partner(r, x) = y
                                      THEN shm[CHOOSE x \in Window(r) : Partner(r, x) = y]
                                      ELSE lbuf[r][y]
    BY <1>1, <1>6, <2>1 DEF UnpackPiece, TypeOK
  <2>3. ASSUME NEW y \in Byte
        PROVE  lbuf'[r][y] = IF y \in Window(r) THEN <<iter[r] + 1, y>> ELSE lbuf[r][y]
    <3>1. CASE y \in Window(r)
      <4>1. Partner(r, y) = y /\ \A x \in Window(r) : Partner(r, x) = y => x = y
        BY <1>4, <3>1
      <4>2. (CHOOSE x \in Window(r) : Partner(r, x) = y) = y
        BY <3>1, <4>1
      <4>3. lbuf'[r][y] = shm[y]
        BY <2>2, <3>1, <4>1, <4>2
      <4> QED BY <1>2, <2>1, <3>1, <4>3, WindowFresh
    <3>2. CASE y \notin Window(r)
      <4>1. ~(\E x \in Window(r) : Partner(r, x) = y)
        BY <1>4, <3>2
      <4> QED BY <2>2, <3>2, <4>1
    <3> QED BY <3>1, <3>2
  <2> QED BY <1>2, <1>3, <2>1, <2>3 DEF Buffer, InRound
<1> QED BY <1>5, <1>6

(* What a live rank has copied, in every step of its own.                  *)
LEMMA CopiedOwn ==
    ASSUME DInv, IInv', Places', NEW r \in Rank, blocksize > 0, RankStep(r) \/ Launcher(r)
    PROVE  Copied(r)'
<1>1. /\ IInv /\ TypeOK /\ Own(r) /\ Cursor(r) /\ Copied(r) /\ Reach(r)
      /\ blocksize' = blocksize /\ Chunks' = Chunks
      /\ shmoff[r] \in Nat /\ iter[r] \in Nat
  BY OwnFacts, FixedArgs DEF DInv, Data, Places
<1>2. Covered' = Covered /\ \A x \in Covered : x \in Nat /\ x < Total
  BY <1>1, CoveredIs DEF Covered, NBlocks, Byte
<1>3. CASE Dies(r)
  <2>1. pc'[r] \notin InRound \cup Outside
    BY <1>1, <1>3, DyingKeeps DEF Stopped, Failed, InRound, Outside
  <2> QED BY <2>1 DEF Copied
<1>4. CASE ~Dies(r)
  <2>1. RankStep(r)
    BY <1>4 DEF Dies
  <2>2. CASE PackPiece(r) \/ UnpackPiece(r)
    <3>1. /\ iovcnt[r] < NBlocks /\ shmoff'[r] = shmoff[r] + Length(r)
          /\ UNCHANGED <<pc, iter>> /\ pc[r] \in InRound
          /\ \A x \in Covered :
                Buffer(r)'[x] = IF x \in Window(r) THEN <<iter[r] + 1, x>> ELSE Buffer(r)[x]
      BY <2>2, PieceBrings
    <3>2. \A x \in Covered : Buffer(r)[x] = <<IF x < shmoff[r] THEN iter[r] + 1 ELSE iter[r], x>>
      BY <1>1, <3>1 DEF Copied, Filled
    <3>3. Length(r) \in Nat /\ Window(r) = shmoff[r] .. shmoff[r] + Length(r) - 1
      BY <1>1, <3>1, Piece DEF Window
    <3>4. ASSUME NEW x \in Covered
          PROVE  x < shmoff'[r] <=> x \in Window(r) \/ x < shmoff[r]
      BY <1>1, <1>2, <3>1, <3>3, SMT
    <3>5. ASSUME NEW x \in Covered
          PROVE  Buffer(r)'[x] = <<IF x < shmoff'[r] THEN iter[r] + 1 ELSE iter[r], x>>
      BY <3>1, <3>2, <3>4
    <3> QED BY <1>2, <3>1, <3>5 DEF Copied, Filled, InRound, Outside
  <2>3. CASE Overrun(r)
    <3>1. /\ UNCHANGED <<pc, iter>> /\ pc[r] \in InRound /\ shmoff'[r] >= shmoff[r]
          /\ shmoff'[r] \in Nat
      BY <1>1, <2>3, Advances DEF Overrun, InRound
    <3>2. ~(shmoff[r] < Total) /\ Total \in Nat
      <4>1. ~(iovcnt[r] < NBlocks)
        <5>1. /\ iovcnt[r] \in 0 .. BufSize + MaxOverrun /\ NBlocks \in Nat
              /\ iovcnt[r] >= NBlocks /\ MaxOverrun \in Nat
          BY <1>1, <2>3, TotalFits, DepthAssumption DEF Overrun, TypeOK
        <5> QED BY <5>1, SMT
      <4> QED BY <1>1, <4>1, Piece, TotalFits
    <3>3. \A x \in Covered : x < shmoff[r] /\ x < shmoff'[r]
      BY <1>1, <1>2, <3>1, <3>2, SMT
    <3>4. \A x \in Covered : Buffer(r)'[x] = Buffer(r)[x]
      <4>1. CASE r = Sender
        <5>1. PICK g \in 0 .. capacity[r] :
                shm' = [x \in Byte |-> IF x \in shmoff[r] .. shmoff[r] + g - 1 THEN Junk ELSE shm[x]]
          BY <2>3, <4>1 DEF Overrun
        <5>2. \A x \in Covered : x \in Byte /\ x \notin shmoff[r] .. shmoff[r] + g - 1
          <6>1. Covered \subseteq Byte /\ g \in Int
            BY <1>1, CoveredIs, SMT
          <6> QED BY <1>1, <1>2, <3>3, <6>1, SMT
        <5> QED BY <4>1, <5>1, <5>2 DEF Buffer
      <4>2. CASE r # Sender
        BY <2>3, <4>2 DEF Overrun, Buffer
      <4> QED BY <4>1, <4>2
    <3> QED BY <1>1, <1>2, <3>1, <3>3, <3>4 DEF Copied, Filled, InRound, Outside
  <2>4. CASE ~(PackPiece(r) \/ UnpackPiece(r) \/ Overrun(r))
    <3>1. UNCHANGED mem
      BY <1>4, <1>1, <2>1, <2>4, LiveStep DEF Setup, PassStartBarrier, StartRound, BeginChunk,
         EndChunk, PassBcast, SendFin, PassFin, EndLoop, Finish
    <3>2. Buffer(r)' = Buffer(r)
      BY <3>1 DEF Buffer, mem
    <3>3. CASE StartRound(r)
      <4>1. pc[r] = "loop" /\ pc'[r] = "chunk" /\ shmoff'[r] = 0 /\ iter' = iter
        BY <1>1, <3>3 DEF StartRound, ResetCursor, Goto, TypeOK
      <4> QED BY <1>1, <1>2, <3>2, <4>1 DEF Copied, InRound, Outside
    <3>4. CASE PassFin(r)
      <4>1. pc[r] = "gather" /\ pc'[r] = "loop" /\ iter'[r] = iter[r] + 1
        BY <1>1, <3>4 DEF PassFin, Goto, TypeOK
      <4>2. shmoff[r] = Bytes(depth, Chunks) /\ Bytes(depth, Chunks) >= Total /\ Total \in Nat
        BY <1>1, <4>1, CoveredIs, TotalFits DEF Reach
      <4>3. \A x \in Covered : x < shmoff[r] /\ ~(x < 0)
        BY <1>1, <1>2, <4>2, SMT
      <4>4. \A x \in Covered : Buffer(r)[x] = <<iter[r] + 1, x>>
        BY <1>1, <4>1, <4>3 DEF Copied, Filled, InRound
      <4> QED BY <1>2, <3>2, <4>1, <4>3, <4>4 DEF Copied, Filled, InRound, Outside
    <3>5. CASE BeginChunk(r) \/ EndChunk(r) \/ PassBcast(r) \/ SendFin(r)
      <4>1. UNCHANGED <<iter, shmoff>> /\ pc[r] \in InRound /\ pc'[r] \in InRound
        BY <1>1, <3>5 DEF BeginChunk, EndChunk, PassBcast, SendFin, Goto, TypeOK, InRound, cursor
      <4> QED BY <1>1, <1>2, <3>2, <4>1 DEF Copied, InRound, Outside
    <3>6. CASE Setup(r) \/ PassStartBarrier(r) \/ EndLoop(r) \/ Finish(r)
      <4>1. iter' = iter /\ pc[r] \in Outside /\ pc'[r] \in Outside
        BY <1>1, <3>6 DEF Setup, PassStartBarrier, EndLoop, Finish, Goto, TypeOK, Outside
      <4> QED BY <1>1, <1>2, <3>2, <4>1 DEF Copied, InRound, Outside
    <3> QED BY <1>1, <1>4, <2>1, <2>4, <3>3, <3>4, <3>5, <3>6, LiveStep
  <2> QED BY <2>2, <2>3, <2>4
<1> QED BY <1>3, <1>4

(* What a live receiver has copied is what its position tells.             *)
Ready == IInv /\ blocksize > 0 /\ Places /\ \A r \in Rank : Copied(r)
Known == \A r \in Receiver : pc[r] \notin Dead => Whole(r)
(* A live receiver knows as much as its position tells.                    *)
LEMMA WholeIfLive == Ready => Known
<1> SUFFICES ASSUME IInv, blocksize > 0, Places, \A r \in Rank : Copied(r),
                    NEW r \in Receiver, pc[r] \notin Dead
             PROVE  Whole(r)
  BY DEF Known, Ready
<1> DEFINE c == Chunks
           s == Start(c, iter[r])
           p == Pos(r)
           q == Pos(Sender)
           E == Entered(r)
<1>1. /\ r \in Rank /\ r # Sender /\ Sender \in Rank /\ TypeOK /\ Own(r) /\ Heard(r) /\ Reach(r)
      /\ Copied(r) /\ Buffer(r) = lbuf[r] /\ q \in Nat
  BY SenderAssumption, OwnFacts DEF Receiver, Places, Buffer
<1>2. /\ c \in Nat /\ s \in Nat /\ s >= 1 /\ p \in Nat /\ E = p - s /\ iter[r] \in Nat
      /\ Start(c, iter[r] + 1) = s + c + 1 /\ Start(c, 0) = 1 /\ Bytes(depth, 0) = 0
      /\ iter[r] <= Iters /\ Iters \in Nat \ {0}
  BY <1>1, OwnFacts
<1>3. /\ \A x \in Covered : x \in Nat /\ x < Total
      /\ c = 0 <=> Total = 0
      /\ Bytes(depth, c) >= Total /\ Bytes(depth, c) \in Nat /\ Total \in Nat
  BY <1>1, CoveredIs, TotalFits
<1>4. ASSUME iter[r] < Iters, p >= s + c + 1
      PROVE  Filled(Covered, lbuf[r], iter[r] + 1, 0)
  <2>1. ~(E \in 0 .. c) /\ ~(E \in 1 .. c) /\ E # 0 /\ p # 0 /\ iter[r] # Iters
        /\ (iter[r] = 0 => p # 1)
    <3>1. iter[r] = 0 => s = 1
      BY <1>2
    <3> HIDE DEF c, s, p, q, E
    <3> QED BY <1>2, <1>4, <3>1, SMT
  <2>2. pc[r] = "gather"
    BY <1>1, <2>1 DEF Own, TypeOK, Label, Dead, Stopped
  <2>3. shmoff[r] = Bytes(depth, c)
    BY <1>1, <2>2 DEF Reach
  <2>4. \A x \in Covered : x < shmoff[r] /\ ~(x < 0)
    <3> HIDE DEF c
    <3> QED BY <1>3, <2>3, SMT
  <2>5. \A x \in Covered : lbuf[r][x] = <<iter[r] + 1, x>>
    BY <1>1, <2>2, <2>4 DEF Copied, Filled, InRound
  <2> QED BY <2>4, <2>5 DEF Filled
<1>5. ASSUME q <= s PROVE Filled(Covered, lbuf[r], iter[r], 0)
  <2>1. CASE pc[r] \in Outside
    BY <1>1, <2>1 DEF Copied
  <2>2. CASE pc[r] \in InRound /\ shmoff[r] = 0
    BY <1>1, <2>2 DEF Copied
  <2>3. CASE Covered = {}
    BY <2>3 DEF Filled
  <2>4. E > 0 => ~(q >= p)
    <3> HIDE DEF c, s, p, q, E
    <3> QED BY <1>1, <1>2, <1>5, SMT
  <2>5. E > 1 => ~(q >= p - 1)
    <3> HIDE DEF c, s, p, q, E
    <3> QED BY <1>1, <1>2, <1>5, SMT
  <2>6. CASE pc[r] = "chunk"
    <3>1. E \in 0 .. c /\ shmoff[r] = Bytes(depth, E) /\ ~(E > 0)
      BY <1>1, <2>4, <2>6 DEF Own, Heard
    <3>2. E = 0
      <4> HIDE DEF c, s, p, q, E
      <4> QED BY <1>2, <3>1, SMT
    <3> QED BY <1>2, <2>2, <2>6, <3>1, <3>2 DEF InRound
  <2>7. CASE pc[r] = "bcast"
    <3>1. E \in 1 .. c /\ shmoff[r] = Bytes(depth, E - 1) /\ ~(E > 1)
      BY <1>1, <2>5, <2>7 DEF Own, Heard
    <3>2. E - 1 = 0
      <4> HIDE DEF c, s, p, q, E
      <4> QED BY <1>2, <3>1, SMT
    <3> QED BY <1>2, <2>2, <2>7, <3>1, <3>2 DEF InRound
  <2>8. CASE pc[r] = "unpack"
    <3>1. E \in 1 .. c /\ q >= p
      BY <1>1, <2>8 DEF Own
    <3>2. E > 0
      <4> HIDE DEF c, s, p, q, E
      <4> QED BY <1>2, <3>1, SMT
    <3> QED BY <2>4, <3>1, <3>2
  <2>9. CASE pc[r] = "gather"
    <3>1. E = c + 1 /\ ~(E > 1)
      BY <1>1, <2>5, <2>9 DEF Own, Heard
    <3>2. c = 0
      <4> HIDE DEF c, s, p, q, E
      <4> QED BY <1>2, <3>1, SMT
    <3>3. Covered = {}
      BY <1>3, <3>2, SMT
    <3> QED BY <2>3, <3>3
  <2>10. pc[r] # "pack"
    BY <1>1 DEF Own
  <2> QED BY <1>1, <2>1, <2>6, <2>7, <2>8, <2>9, <2>10 DEF TypeOK, Label, Dead, Stopped, Outside
<1> QED BY <1>2, <1>4, <1>5 DEF Whole

(* Likewise for the chunks a live sender has announced.                    *)
SentIfLive == pc[Sender] \notin Dead => Sent
(* The chunks a live sender has announced are in the region.               *)
LEMMA SentHolds == Ready => SentIfLive
<1> SUFFICES ASSUME IInv, blocksize > 0, Places, Copied(Sender), pc[Sender] \notin Dead,
                    iter[Sender] < Iters, NEW n \in 1 .. Chunks, n <= Entered(Sender),
                    NEW x \in Covered, x < Bytes(depth, n)
             PROVE  shm[x] = <<iter[Sender] + 1, x>>
  BY SenderAssumption DEF SentIfLive, Sent, Ready
<1> DEFINE c == Chunks
           s == Start(c, iter[Sender])
           p == Pos(Sender)
           E == Entered(Sender)
           o == shmoff[Sender]
           w == capacity[Sender]
<1>1. /\ Sender \in Rank /\ TypeOK /\ Own(Sender) /\ Reach(Sender) /\ Buffer(Sender) = shm
  BY SenderAssumption, OwnFacts DEF Places, Buffer
<1>2. /\ c \in Nat /\ s \in Nat /\ s >= 1 /\ p \in Nat /\ E = p - s /\ iter[Sender] \in Nat
      /\ Iters \in Nat \ {0} /\ o \in Nat /\ w \in Nat /\ w <= depth /\ depth \in Nat \ {0}
      /\ Start(c, 0) = 1
  BY <1>1, OwnFacts
<1>3. /\ \A k \in Nat : Bytes(depth, k) \in Nat /\ Bytes(depth, k + 1) = Bytes(depth, k) + depth
      /\ \A k, l \in Nat : k <= l => Bytes(depth, k) <= Bytes(depth, l)
  BY <1>1, ChunkFacts
<1>4. n \in Nat /\ n >= 1 /\ n <= c /\ E \in Nat /\ n <= E /\ E # 0 /\ iter[Sender] # Iters
      /\ p # 0 /\ (iter[Sender] = 0 => p # 1)
  <2>1. iter[Sender] = 0 => s = 1
    BY <1>2
  <2>2. n <= E
    OBVIOUS
  <2> HIDE DEF c, s, p, E
  <2> QED BY <1>2, <2>1, <2>2, SMT DEF c
<1>5. /\ pc[Sender] \in {"chunk", "pack", "bcast", "gather"}
  BY <1>1, <1>4 DEF Own, TypeOK, Label, Dead, Stopped
<1>6. Bytes(depth, n) <= o
  <2>1. Bytes(depth, n) \in Nat /\ Bytes(depth, n) <= Bytes(depth, E)
        /\ Bytes(depth, n) <= Bytes(depth, c)
        /\ Bytes(depth, E + 1) = Bytes(depth, E) + depth /\ Bytes(depth, E) \in Nat
    BY <1>2, <1>3, <1>4
  <2>2. \/ o = Bytes(depth, E) \/ o = Bytes(depth, c) \/ o + w = Bytes(depth, E + 1)
    BY <1>1, <1>5 DEF Own, Reach
  <2> HIDE DEF c, s, p, E, o, w
  <2> QED BY <1>2, <2>1, <2>2, SMT
<1>7. x < o
  <2>1. x \in Nat /\ Bytes(depth, n) \in Nat
    BY <1>1, <1>3, <1>4, CoveredIs
  <2> QED BY <1>2, <1>6, <2>1, SMT
<1> QED BY <1>1, <1>5, <1>7 DEF Copied, Filled, InRound

(* What is in the buffers, in every step.                                  *)
LEMMA DataStep ==
    ASSUME DInv, IInv', Places', NEW r \in Rank, RankStep(r) \/ Launcher(r)
    PROVE  Data'
<1>1. /\ IInv /\ TypeOK /\ Places /\ Sender \in Rank
      /\ blocksize' = blocksize /\ Chunks' = Chunks /\ depth' = depth
      /\ \A q \in Rank : Pos(q)' \in Nat /\ Pos(q)' >= Pos(q) /\ Pos(q) \in Nat
  BY OwnFacts, FixedArgs, Enters DEF DInv
<1>2. SUFFICES ASSUME blocksize > 0
               PROVE  Sent' /\ (\A q \in Rank : Copied(q)') /\ (\A q \in Receiver : Whole(q)')
  BY <1>1 DEF Data
<1>3. Covered' = Covered
  BY <1>1 DEF Covered, NBlocks, Byte
<1>4. ASSUME NEW q \in Rank, q # r PROVE Buffer(q)' = Buffer(q)
  <2>1. CASE q = Sender
    <3>1. shm' = shm
      <4>1. Own(r) /\ r # Sender
        BY <1>1, <1>4, <2>1, OwnFacts
      <4> QED BY <4>1 DEF RankStep, Launcher, DivideByZero, Setup, PassStartBarrier, StartRound,
         BeginChunk, PackPiece, UnpackPiece, Fault, Overrun, OverrunFault, EndChunk, PassBcast, SendFin,
         PassFin, AssertFails, EndLoop, Finish, mem, Own
    <3> QED BY <2>1, <3>1 DEF Buffer
  <2>2. CASE q # Sender
    <3>1. lbuf'[q] = lbuf[q]
      BY <1>1, <1>4, <2>2 DEF RankStep, Launcher, DivideByZero, Setup, PassStartBarrier, StartRound,
         BeginChunk, PackPiece, UnpackPiece, Fault, Overrun, OverrunFault, EndChunk, PassBcast, SendFin,
         PassFin, AssertFails, EndLoop, Finish, mem, TypeOK, Receiver
    <3> QED BY <2>2, <3>1 DEF Buffer
  <2> QED BY <2>1, <2>2
<1>5. ASSUME NEW q \in Rank PROVE Copied(q)'
  <2>1. CASE q = r
    BY <1>2, <2>1, CopiedOwn
  <2>2. CASE q # r
    <3>1. pc'[q] = pc[q] /\ iter'[q] = iter[q] /\ shmoff'[q] = shmoff[q]
      BY <1>1, <2>2, OthersKeep
    <3> QED BY <1>2, <1>3, <1>4, <2>2, <3>1 DEF DInv, Data, Copied
  <2> QED BY <2>1, <2>2
<1>6. Known' /\ SentIfLive'
  <2>1. Ready'
    BY <1>1, <1>2, <1>5 DEF Ready
  <2> QED BY <2>1, WholeIfLive, SentHolds, PTL
<1>7. ASSUME NEW q \in Rank, pc'[q] \in Dead
      PROVE  iter'[q] = iter[q] /\ Pos(q)' = Pos(q) /\ Buffer(q)' = Buffer(q)
  <2>1. CASE q # r
    BY <1>1, <1>4, <2>1, OthersKeep
  <2>2. CASE q = r
    <3>1. Dies(r)
      <4>1. ASSUME ~Dies(r) PROVE FALSE
        <5>1. RankStep(r)
          BY <4>1 DEF Dies
        <5> QED BY <1>1, <1>7, <2>2, <4>1, <5>1, LiveStep DEF Setup, PassStartBarrier, StartRound,
           BeginChunk, PackPiece, UnpackPiece, Overrun, EndChunk, PassBcast, SendFin, PassFin, EndLoop,
           Finish, Goto, TypeOK, Dead, Failed, Stopped
      <4> QED BY <4>1
    <3>2. UNCHANGED <<calls, iter, shm, lbuf>>
      BY <1>1, <3>1, DyingKeeps
    <3> QED BY <3>2 DEF Pos, Buffer
  <2> QED BY <2>1, <2>2
<1>8. Sent'
  <2>1. CASE pc'[Sender] \notin Dead
    BY <1>6, <2>1 DEF SentIfLive
  <2>2. CASE pc'[Sender] \in Dead
    <3>1. iter'[Sender] = iter[Sender] /\ Pos(Sender)' = Pos(Sender) /\ shm' = shm
      BY <1>1, <1>7, <2>2 DEF Buffer
    <3>2. Entered(Sender)' = Entered(Sender)
      BY <1>1, <3>1 DEF Entered
    <3> QED BY <1>1, <1>2, <1>3, <3>1, <3>2 DEF Sent, DInv, Data
  <2> QED BY <2>1, <2>2
<1>9. ASSUME NEW q \in Receiver PROVE Whole(q)'
  <2>1. CASE pc'[q] \notin Dead
    BY <1>6, <2>1 DEF Known
  <2>2. CASE pc'[q] \in Dead
    <3>1. /\ iter'[q] = iter[q] /\ Pos(q)' = Pos(q) /\ lbuf'[q] = lbuf[q] /\ q \in Rank
      BY <1>1, <1>7, <2>2 DEF Buffer, Receiver
    <3>2. Pos(Sender)' <= Start(Chunks, iter[q]) => Pos(Sender) <= Start(Chunks, iter[q])
      <4>1. Start(Chunks, iter[q]) \in Nat
        BY <1>1, <1>2, <3>1, OwnFacts
      <4> QED BY <1>1, <4>1, SMT
    <3> QED BY <1>1, <1>2, <1>3, <3>1, <3>2 DEF Whole, DInv, Data
  <2> QED BY <2>1, <2>2
<1> QED BY <1>5, <1>8, <1>9

-----------------------------------------------------------------------------
(* The Bcasts of a history that follow another collective: the first chunk *)
(* of each round.                                                          *)
FirstChunks(s) == {k \in 2 .. Len(s) : s[k] = "bcast" /\ s[k-1] # "bcast"}

(* One more call adds one of them if it is a Bcast after another call.     *)
LEMMA AppendChunks ==
    ASSUME NEW s \in Seq(Collective), NEW e \in Collective, Len(s) >= 1
    PROVE  /\ Cardinality(FirstChunks(s)) \in Nat
           /\ Cardinality(FirstChunks(Append(s, e))) =
                  IF e = "bcast" /\ s[Len(s)] # "bcast" THEN Cardinality(FirstChunks(s)) + 1
                                                       ELSE Cardinality(FirstChunks(s))
<1> DEFINE t == Append(s, e)
           n == Len(s)
<1>1. n \in Nat /\ Len(t) = n + 1 /\ t[n + 1] = e /\ \A k \in 1 .. n : t[k] = s[k]
  BY SMT
<1>2. IsFiniteSet(FirstChunks(s)) /\ Cardinality(FirstChunks(s)) \in Nat
  <2>1. IsFiniteSet(2 .. n)
    BY <1>1, FS_Interval
  <2>2. FirstChunks(s) \in SUBSET (2 .. n)
    BY DEF FirstChunks
  <2> QED BY <2>1, <2>2, FS_Subset, FS_CardinalityType
<1>3. n + 1 \notin FirstChunks(s)
  BY <1>1, SMT DEF FirstChunks
<1>4. \A k \in 2 .. n : t[k] = s[k] /\ t[k-1] = s[k-1]
  <2>1. \A k \in 2 .. n : k \in 1 .. n /\ k - 1 \in 1 .. n
    BY <1>1, SMT
  <2> QED BY <1>1, <2>1
<1>5. (n + 1) - 1 = n /\ n \in 1 .. n /\ 2 .. n + 1 = (2 .. n) \cup {n + 1}
  BY <1>1, SMT
<1> HIDE DEF t, n
<1>6. CASE e = "bcast" /\ s[n] # "bcast"
  <2>1. FirstChunks(t) = FirstChunks(s) \cup {n + 1}
    <3>1. t[(n + 1) - 1] = s[n]
      BY <1>1, <1>5
    <3> QED BY <1>1, <1>4, <1>5, <1>6, <3>1 DEF FirstChunks, n
  <2> QED BY <1>2, <1>3, <1>6, <2>1, FS_AddElement DEF t, n
<1>7. CASE ~(e = "bcast" /\ s[n] # "bcast")
  <2>1. FirstChunks(t) = FirstChunks(s)
    <3>1. t[(n + 1) - 1] = s[n]
      BY <1>1, <1>5
    <3> QED BY <1>1, <1>4, <1>5, <1>7, <3>1 DEF FirstChunks, n
  <2> QED BY <1>2, <1>7, <2>1 DEF t, n
<1> QED BY <1>6, <1>7

(* A call of the sender announces a round if it is the Bcast of its first  *)
(* chunk.                                                                  *)
LEMMA EnterAnnounces ==
    ASSUME IInv, blocksize > 0, NEW op \in Collective, Enter(Sender, op), Pos(Sender) >= 1
    PROVE  /\ op # "bcast" => Announced' = Announced
           /\ op = "bcast" /\ iter[Sender] < Iters /\ Entered(Sender) \in 0 .. Chunks =>
                 Announced' = IF Entered(Sender) = 0 THEN Announced + 1 ELSE Announced
<1> DEFINE c == Chunks
           i == iter[Sender]
           s == calls[Sender]
           p == Pos(Sender)
           E == Entered(Sender)
<1>1. /\ TypeOK /\ Sender \in Rank /\ p \in Nat /\ i \in Nat /\ i <= Iters /\ Iters \in Nat \ {0}
      /\ c \in Nat /\ Start(c, i) \in Nat /\ Start(c, i) >= 1 /\ E = p - Start(c, i)
      /\ Start(c, i + 1) = Start(c, i) + c + 1 /\ Start(c, 0) = 1
  BY SenderAssumption, OwnFacts
<1>2. /\ s \in Seq(Collective) /\ calls'[Sender] = Append(s, op) /\ Len(s) = p
  BY <1>1 DEF TypeOK, Enter, Pos
<1>3. /\ Announced = Cardinality(FirstChunks(s)) /\ Announced' = Cardinality(FirstChunks(calls'[Sender]))
  BY DEF Announced, FirstChunks
<1>4. Announced' = IF op = "bcast" /\ s[p] # "bcast" THEN Announced + 1 ELSE Announced
  BY <1>2, <1>3, AppendChunks
<1>5. ASSUME i < Iters, E \in 0 .. c
      PROVE  s[p] = "bcast" <=> E # 0
  <2>1. p \in 1 .. p
    BY <1>1, SMT
  <2>2. s[p] = Expected(p)
    BY <1>1, <2>1 DEF IInv, Control, Shape
  <2>3. CASE E = 0
    <3>1. p = Start(c, i)
      <4> HIDE DEF c, p, E, i
      <4> QED BY <1>1, <2>3, SMT
    <3>2. Expected(p) \in {"gather", "barrier"}
      <4>1. CASE i = 0
        <5>1. Expected(1) = "barrier"
          BY DEF Expected
        <5> QED BY <1>1, <3>1, <4>1, <5>1
      <4>2. CASE i # 0
        <5> DEFINE j == i - 1
        <5>1. j \in Nat /\ j < Iters /\ j + 1 = i
          <6> HIDE DEF i
          <6> QED BY <1>1, <4>2, SMT
        <5> HIDE DEF j
        <5>2. Expected(Start(c, j + 1)) = "gather"
          BY <1>1, <5>1, ExpectedFacts
        <5> QED BY <3>1, <5>1, <5>2
      <4> QED BY <4>1, <4>2
    <3> QED BY <2>2, <2>3, <3>2
  <2>4. CASE E # 0
    <3>1. Start(c, i) < p /\ p < Start(c, i + 1)
      <4> DEFINE a == Start(c, i)
      <4> HIDE DEF c, p, E, i, a
      <4>1. a \in Nat /\ E = p - a /\ Start(c, i + 1) = a + c + 1
        BY <1>1 DEF a
      <4>2. a < p /\ p < a + c + 1
        BY <1>1, <1>5, <2>4, <4>1, SMT
      <4> QED BY <4>1, <4>2 DEF a
    <3>2. Expected(p) = "bcast"
      BY <1>1, <1>5, <3>1, ExpectedFacts
    <3> QED BY <2>2, <2>4, <3>2
  <2> QED BY <2>3, <2>4
<1> QED BY <1>4, <1>5

(* The rounds announced, and the clock, step by step.                      *)
LEMMA AnnouncedStep ==
    ASSUME RInv, IInv', Places', NEW r \in Rank, RankStep(r) \/ Launcher(r)
    PROVE  AnnouncedInv' /\ ClockInv'
<1> USE SenderAssumption
<1> DEFINE c == Chunks
           i == iter[Sender]
           E == Entered(Sender)
           p == Pos(Sender)
<1>1. /\ IInv /\ TypeOK /\ Own(Sender) /\ i \in Nat /\ i <= Iters /\ Iters \in Nat \ {0} /\ p \in Nat
      /\ blocksize' = blocksize /\ Chunks' = Chunks /\ AnnouncedInv /\ ClockInv
  BY OwnFacts, FixedArgs DEF RInv, DInv
<1>2. CASE r # Sender
  <2>1. /\ iter'[Sender] = iter[Sender] /\ calls'[Sender] = calls[Sender] /\ Pos(Sender)' = p
    BY <1>1, <1>2, OthersKeep
  <2>2. clock' = clock
    BY <1>2 DEF RankStep, Launcher, DivideByZero, Setup, PassStartBarrier, StartRound, BeginRound,
       BeginChunk, PackPiece, UnpackPiece, Fault, Overrun, OverrunFault, EndChunk, PassBcast, SendFin,
       PassFin, AssertFails, EndLoop, LeaveLoop, Finish
  <2>3. Announced' = Announced
    BY <2>1 DEF Announced
  <2> QED BY <1>1, <2>1, <2>2, <2>3 DEF AnnouncedInv, ClockInv, Entered
<1>3. CASE r = Sender /\ UNCHANGED <<calls, iter>>
  <2>1. Announced' = Announced /\ Pos(Sender)' = p
    BY <1>3 DEF Announced, Pos
  <2>2. clock' = "stopped" => i = Iters
    <3>1. CASE EndLoop(r)
      BY <1>1, <1>3, <3>1, SMT DEF EndLoop, LeaveLoop, MoreRounds
    <3>2. CASE ~EndLoop(r)
      <4>1. clock' \in {clock, "running"}
        BY <1>3, <3>2 DEF RankStep, Launcher, DivideByZero, Setup, PassStartBarrier, StartRound, BeginRound,
           BeginChunk, PackPiece, UnpackPiece, Fault, Overrun, OverrunFault, EndChunk, PassBcast, SendFin,
           PassFin, AssertFails, Finish
      <4> QED BY <1>1, <4>1 DEF ClockInv
    <3> QED BY <3>1, <3>2
  <2> QED BY <1>1, <1>3, <2>1, <2>2 DEF AnnouncedInv, ClockInv, Entered
<1>4. CASE r = Sender /\ (Setup(r) \/ EndChunk(r) \/ SendFin(r) \/ EndLoop(r) \/ PassFin(r))
  <2>1. blocksize > 0
    BY <1>1, <1>4 DEF Setup, EndChunk, SendFin, EndLoop, PassFin, Own
  <2>2. /\ c \in Nat /\ Start(c, i) \in Nat /\ E = p - Start(c, i) /\ Start(c, 0) = 1
        /\ Start(c, i + 1) = Start(c, i) + c + 1
        /\ Entered(Sender)' = Pos(Sender)' - Start(c, iter'[Sender])
        /\ Announced = IF i < Iters /\ E > 0 /\ c > 0 THEN i + 1 ELSE i
    BY <1>1, <2>1, OwnFacts DEF Entered, AnnouncedInv
  <2>3. CASE Setup(r)
    <3>1. /\ iter' = iter /\ clock' = clock /\ i = 0 /\ p = 0 /\ Enter(Sender, "barrier")
      BY <1>1, <1>4, <2>3 DEF Setup, Own
    <3>2. Pos(Sender)' = 1
      <4>1. Pos(Sender)' = Pos(Sender) + 1
        BY <1>1, <3>1, EnterPos DEF TypeOK, Collective
      <4> QED BY <3>1, <4>1
    <3>3. Announced' = 0
      <4>1. Len(calls'[Sender]) = 1
        BY <3>2 DEF Pos
      <4>2. {k \in 2 .. Len(calls'[Sender]) :
               calls'[Sender][k] = "bcast" /\ calls'[Sender][k-1] # "bcast"} = {}
        BY <4>1, SMT
      <4> QED BY <4>2, FS_EmptySet DEF Announced
    <3>4. Entered(Sender)' = 0
      BY <2>2, <3>1, <3>2, SMT
    <3>5. ~(0 > 0)
      BY SMT
    <3> QED BY <1>1, <3>1, <3>3, <3>4, <3>5 DEF AnnouncedInv, ClockInv
  <2>4. CASE EndChunk(r)
    <3>1. /\ pc[Sender] = "pack" /\ iter' = iter /\ clock' = clock /\ Enter(Sender, "bcast")
          /\ E \in 0 .. c /\ E < c /\ i < Iters
      BY <1>1, <1>4, <2>4 DEF EndChunk, Own, InRound
    <3>2. Pos(Sender)' = p + 1
      BY <1>1, <3>1, EnterPos DEF TypeOK, Collective
    <3>3. Entered(Sender)' = E + 1 /\ p >= 1
      <4>1. Start(c, i) >= 1
        BY <1>1, <2>1, OwnFacts
      <4>2. iter'[Sender] = i
        BY <3>1
      <4> HIDE DEF c, i, E, p
      <4> QED BY <1>1, <2>2, <3>1, <3>2, <4>1, <4>2, SMT
    <3>4. Announced' = IF E = 0 THEN Announced + 1 ELSE Announced
      BY <1>1, <2>1, <3>1, <3>3, EnterAnnounces DEF Collective
    <3>5. Announced' = i + 1 /\ E + 1 > 0 /\ c > 0
      <4> HIDE DEF c, i, E, p
      <4> QED BY <1>1, <2>2, <3>1, <3>4, SMT
    <3> QED BY <1>1, <3>1, <3>3, <3>5 DEF AnnouncedInv, ClockInv
  <2>5. CASE SendFin(r)
    <3>1. /\ pc[Sender] = "chunk" /\ iter' = iter /\ clock' = clock /\ Enter(Sender, "gather")
          /\ E \in 0 .. c /\ shmoff[r] = Bytes(depth, E) /\ ~(iovcnt[r] < NBlocks) /\ i < Iters
      BY <1>1, <1>4, <2>5 DEF SendFin, MoreBlocks, Own, InRound
    <3>2. Pos(Sender)' = p + 1
      BY <1>1, <3>1, EnterPos DEF TypeOK, Collective
    <3>3. Entered(Sender)' = E + 1 /\ p >= 1 /\ E \in Nat
      <4>1. Start(c, i) >= 1
        BY <1>1, <2>1, OwnFacts
      <4>2. iter'[Sender] = i
        BY <3>1
      <4> HIDE DEF c, i, E, p
      <4> QED BY <1>1, <2>2, <3>1, <3>2, <4>1, <4>2, SMT
    <3>4. Announced' = Announced
      BY <1>1, <2>1, <3>1, <3>3, EnterAnnounces DEF Collective
    <3>5. ~(E < c)
      <4>1. ~(shmoff[Sender] < Total)
        BY <1>1, <1>4, <2>1, <3>1, OwnFacts, Piece
      <4> QED BY <1>1, <1>4, <2>1, <3>1, <3>3, <4>1, ChunkFacts
    <3>6. E + 1 > 0 /\ (c > 0 => E > 0)
      <4> HIDE DEF c, i, E, p
      <4> QED BY <2>2, <3>3, <3>5, SMT
    <3> QED BY <1>1, <2>2, <3>1, <3>3, <3>4, <3>6 DEF AnnouncedInv, ClockInv
  <2>6. CASE EndLoop(r)
    <3>1. /\ pc[Sender] = "loop" /\ iter' = iter /\ Enter(Sender, "barrier")
          /\ E = 0 /\ ~(i < Iters) /\ i = Iters
      BY <1>1, <1>4, <2>6, SMT DEF EndLoop, LeaveLoop, MoreRounds, Own
    <3>2. p >= 1
      <4>1. Start(c, i) >= 1
        BY <1>1, <2>1, OwnFacts
      <4> HIDE DEF c, i, E, p
      <4> QED BY <1>1, <2>2, <3>1, <4>1, SMT
    <3>3. Announced' = Announced
      BY <1>1, <2>1, <3>1, <3>2, EnterAnnounces DEF Collective
    <3> QED BY <1>1, <2>2, <3>1, <3>3 DEF AnnouncedInv, ClockInv
  <2>7. CASE PassFin(r)
    <3>1. /\ pc[Sender] = "gather" /\ calls' = calls /\ clock' = clock /\ iter'[Sender] = i + 1
          /\ E = c + 1 /\ i < Iters
      BY <1>1, <1>4, <2>7 DEF PassFin, Own, InRound, TypeOK
    <3>2. Announced' = Announced /\ Pos(Sender)' = p
      BY <3>1 DEF Announced, Pos
    <3>3. c # 0
      <4>1. iter'[Sender] # 0
        BY <1>1, <3>1, SMT
      <4> QED BY <1>1, <2>1, <4>1 DEF Places, Reach
    <3>4. Announced = i + 1 /\ Entered(Sender)' = 0 /\ ~(0 > 0)
      <4> HIDE DEF c, i, E, p
      <4> QED BY <1>1, <2>2, <3>1, <3>2, <3>3, SMT
    <3>5. clock # "stopped"
      <4>1. i # Iters
        BY <1>1, <3>1, SMT
      <4> QED BY <1>1, <4>1 DEF ClockInv
    <3> QED BY <1>1, <3>1, <3>2, <3>4, <3>5 DEF AnnouncedInv, ClockInv
  <2> QED BY <1>4, <2>3, <2>4, <2>5, <2>6, <2>7
<1>5. r = Sender => \/ UNCHANGED <<calls, iter>> 
                    \/ Setup(r) \/ EndChunk(r) \/ SendFin(r) \/ EndLoop(r) \/ PassFin(r)
  BY DEF RankStep, Launcher, Kill, DivideByZero, PassStartBarrier, StartRound,
     BeginChunk, PackPiece, UnpackPiece, Fault, Overrun, OverrunFault, PassBcast, AssertFails, Finish
<1> QED BY <1>2, <1>3, <1>4, <1>5

-----------------------------------------------------------------------------
(* While the sender has announced nothing of its round every receiver holds*)
(* exactly the rounds before it.                                           *)
LEMMA AtHead ==
    ASSUME DInv, blocksize > 0, Pos(Sender) = Start(Chunks, iter[Sender]), NEW q \in Receiver
    PROVE  Filled(Covered, lbuf[q], iter[Sender], 0)
<1> DEFINE c == Chunks
           i == iter[Sender]
           j == iter[q]
           p == Pos(q)
           h == Pos(Sender)
<1>1. /\ IInv /\ q \in Rank /\ Sender \in Rank /\ Lag(q) /\ Bound(q) /\ Heard(q) /\ Whole(q)
      /\ TypeOK
  BY SenderAssumption, OwnFacts DEF DInv, Places, Data, Receiver, Reach
<1>2. /\ c \in Nat /\ i \in Nat /\ j \in Nat /\ p \in Nat /\ h \in Nat
      /\ i <= Iters /\ j <= Iters /\ Iters \in Nat
  BY <1>1, OwnFacts
<1>3. /\ \A k \in Nat : /\ Start(c, k) \in Nat /\ Start(c, k) >= 1
                        /\ Start(c, k + 1) = Start(c, k) + c + 1
      /\ \A k, m \in Nat : k < m => Start(c, k + 1) <= Start(c, m)
  BY <1>2, StartFacts
<1>4. CASE c = 0
  <2>1. Covered = {}
    <3>1. Total = 0 /\ Covered = 0 .. Total - 1
      BY <1>1, <1>4, CoveredIs
    <3> QED BY <3>1, SMT
  <2> QED BY <2>1 DEF Filled
<1>5. CASE j = i
  <2>1. h <= Start(c, j)
    <3>1. h = Start(c, j) /\ Start(c, j) \in Nat
      BY <1>2, <1>3, <1>5
    <3> HIDE DEF c, h, j
    <3> QED BY <3>1, SMT
  <2> QED BY <1>1, <1>5, <2>1 DEF Whole
<1>6. CASE j < i
  <2> DEFINE a == Start(c, j + 1)
             b == Start(c, i)
  <2>1. /\ j < Iters /\ i > 0 /\ a \in Nat /\ b \in Nat /\ j + 1 \in Nat /\ a <= b
        /\ (j + 1 < i => a + c + 1 <= b)
    <3>1. j < Iters /\ i > 0 /\ j + 1 \in Nat
      <4> HIDE DEF i, j
      <4> QED BY <1>2, <1>6, SMT
    <3>2. /\ Start(c, j + 1) \in Nat /\ Start(c, i) \in Nat /\ Start(c, j + 1) <= Start(c, i)
          /\ Start(c, (j + 1) + 1) = Start(c, j + 1) + c + 1
      BY <1>2, <1>3, <1>6, <3>1
    <3>3. j + 1 < i => Start(c, (j + 1) + 1) <= Start(c, i)
      BY <1>2, <1>3, <3>1
    <3> QED BY <3>1, <3>2, <3>3
  <2>2. p >= b /\ p <= a
    BY <1>1, <2>1 DEF Lag, Bound
  <2> HIDE DEF a, b
  <2>3. p >= a /\ j + 1 = i
    <3> HIDE DEF c, i, j, p
    <3> QED BY <1>2, <1>6, <2>1, <2>2, SMT
  <2> QED BY <1>1, <2>1, <2>3 DEF Whole, a
<1>7. CASE j > i /\ c # 0
  <2> DEFINE a == Start(c, j)
             b == Start(c, i)
  <2>1. /\ j > 0 /\ a \in Nat /\ b \in Nat /\ b + c + 1 <= a /\ h = b
    <3>1. j > 0 /\ i < j
      <4> HIDE DEF i, j
      <4> QED BY <1>2, <1>7, SMT
    <3>2. Start(c, i + 1) <= Start(c, j) /\ Start(c, i + 1) = Start(c, i) + c + 1
      BY <1>2, <1>3, <3>1
    <3> QED BY <1>2, <1>3, <3>1, <3>2
  <2>2. h >= a - 1
    BY <1>1, <2>1 DEF Heard
  <2> HIDE DEF a, b
  <2>3. FALSE
    <3> HIDE DEF c, i, j, p, h
    <3> QED BY <1>2, <1>7, <2>1, <2>2, SMT
  <2> QED BY <2>3
<1>8. j = i \/ j < i \/ j > i
  <2> HIDE DEF i, j
  <2> QED BY <1>2, SMT
<1> QED BY <1>4, <1>5, <1>6, <1>7, <1>8

(* The oldest round among the covered bytes, from a lower bound it reaches.*)
LEMMA OldestIs ==
    ASSUME NEW buf, NEW v \in Nat, \A x \in Covered : Round(buf, x) \in Nat /\ Round(buf, x) >= v,
           NEW y \in Covered, Round(buf, y) = v
    PROVE  Oldest(buf) = v
<1> DEFINE S == {Round(buf, x) : x \in Covered}
           M(w) == w \in S /\ \A z \in S : w <= z
<1>1. M(v)
  BY SMT
<1>2. \A w : M(w) => w = v
  <2> SUFFICES ASSUME NEW w, M(w) PROVE w = v
    OBVIOUS
  <2>1. w \in Nat /\ w <= v /\ v <= w
    BY <1>1
  <2> QED BY <2>1, SMT
<1>3. Oldest(buf) = CHOOSE w \in S : \A z \in S : w <= z
  <2>1. Covered # {}
    OBVIOUS
  <2> QED BY <2>1 DEF Oldest, Min
<1> HIDE DEF S
<1>4. (CHOOSE w \in S : \A z \in S : w <= z) = v
  BY <1>1, <1>2
<1> QED BY <1>3, <1>4

(* A buffer holds its round once all of its blocks are filled.             *)
LEMMA FilledOldest ==
    ASSUME TypeOK, blocksize > 0, Total # 0, NEW buf, NEW i \in Nat, NEW q \in Nat,
           Filled(Covered, buf, i, q)
    PROVE  Oldest(buf) = IF q >= Total THEN i + 1 ELSE i
<1>1. /\ Covered = 0 .. Total - 1 /\ Total \in Nat
      /\ \A x \in Covered : x \in Nat /\ x < Total
  BY CoveredIs, TotalFits
<1>2. \A x \in Covered : Round(buf, x) = IF x < q THEN i + 1 ELSE i
  BY DEF Filled, Round
<1>3. CASE q >= Total
  <2>1. \A x \in Covered : Round(buf, x) = i + 1
    <3>1. \A x \in Covered : x < q
      BY <1>1, <1>3, SMT
    <3> QED BY <1>2, <3>1
  <2>2. 0 \in Covered /\ i + 1 \in Nat
    BY <1>1, SMT
  <2>3. \A x \in Covered : Round(buf, x) \in Nat /\ Round(buf, x) >= i + 1
    BY <2>1, <2>2, SMT
  <2> QED BY <1>3, <2>1, <2>2, <2>3, OldestIs
<1>4. CASE ~(q >= Total)
  <2>1. Total - 1 \in Covered /\ ~(Total - 1 < q)
    BY <1>1, <1>4, SMT
  <2>2. Round(buf, Total - 1) = i
    BY <1>2, <2>1
  <2>3. \A x \in Covered : Round(buf, x) \in Nat /\ Round(buf, x) >= i
    BY <1>2, SMT
  <2> QED BY <1>4, <2>1, <2>2, <2>3, OldestIs
<1> QED BY <1>3, <1>4

(* A step that leaves a buffer alone leaves its round.                     *)
LEMMA OldestKeeps ==
    ASSUME blocksize' = blocksize
    PROVE  /\ Covered' = Covered
           /\ \A r \in Receiver : Oldest(lbuf[r])' = Oldest(lbuf'[r])
BY DEF Covered, NBlocks, Byte, Oldest, Round

Held == [r \in Receiver |-> Oldest(lbuf[r])]
tvars == <<Announced, [r \in Receiver |-> Oldest(lbuf[r])], clock = "stopped">>

(* A piece a receiver copies brings it the whole round, or leaves it with  *)
(* the one before.                                                         *)
LEMMA UnpackSimulates ==
    ASSUME RInv, RInv', NEW r \in Rank, UnpackPiece(r)
    PROVE  (\E q \in Receiver : Abstract!Take(q)) \/ UNCHANGED tvars
<1>1. IInv /\ TypeOK /\ DInv /\ DInv' /\ IInv' /\ Own(r)
  BY OwnFacts DEF RInv, DInv
<1>2. /\ r \in Receiver /\ r # Sender /\ pc[r] = "unpack" /\ iovcnt[r] < NBlocks
      /\ UNCHANGED <<pc, calls, iter, clock, blocksize>>
      /\ lbuf' = [lbuf EXCEPT ![r] = lbuf'[r]]
  <2>1. pc[r] = "unpack" /\ iovcnt[r] < NBlocks /\ UNCHANGED <<pc, calls, iter, clock, blocksize>>
    BY DEF UnpackPiece, args, file
  <2>2. r # Sender /\ r \in Receiver
    BY <1>1, <2>1 DEF Own, Receiver
  <2>3. lbuf' = [lbuf EXCEPT ![r] = lbuf'[r]]
    BY <1>1, <2>2 DEF UnpackPiece, TypeOK
  <2> QED BY <2>1, <2>2, <2>3
<1>3. /\ blocksize > 0 /\ iter[r] = iter[Sender] /\ iter[r] < Iters
      /\ Entered(r) \in 1 .. Chunks /\ Entered(Sender) >= Entered(r)
      /\ Entered(Sender) \in Int
  BY <1>1, <1>2, UnpacksRound
<1>4. /\ Chunks \in Nat /\ iter[r] \in Nat /\ shmoff[r] \in Nat /\ shmoff'[r] \in Nat
      /\ Total \in Nat /\ Total' = Total /\ Covered' = Covered
      /\ \A q \in Receiver : Oldest(lbuf[q])' = Oldest(lbuf'[q])
  <2>1. shmoff'[r] \in Nat
    BY <1>1, OwnFacts, Advances, <1>3
  <2>2. Total' = Total
    BY FixedArgs DEF RankStep
  <2> QED BY <1>1, <1>2, <1>3, <2>1, <2>2, OwnFacts, TotalFits, OldestKeeps
<1>5. Announced = iter[r] + 1 /\ Announced' = Announced /\ Total # 0
  <2>1. Entered(Sender) > 0 /\ Chunks > 0
    BY <1>3, <1>4, SMT
  <2>2. Announced = iter[Sender] + 1
    BY <1>3, <2>1 DEF RInv, AnnouncedInv
  <2>3. Total # 0
    <3>1. Chunks # 0
      BY <1>4, <2>1, SMT
    <3> QED BY <1>1, <1>3, <3>1, CoveredIs
  <2> QED BY <1>2, <1>3, <2>2, <2>3 DEF Announced
<1>6. Filled(Covered, lbuf[r], iter[r], shmoff[r]) /\ Filled(Covered, lbuf'[r], iter[r], shmoff'[r])
  <2>1. Copied(r) /\ Copied(r)' /\ pc[r] \in InRound /\ blocksize' > 0
    BY <1>1, <1>2, <1>3 DEF DInv, Data, InRound
  <2> QED BY <1>2, <1>4, <2>1 DEF Copied, Buffer, Filled, InRound
<1>7. Oldest(lbuf[r]) = iter[r]
  <2>1. ~(shmoff[r] >= Total)
    <3>1. shmoff[r] < Total
      BY <1>1, <1>2, <1>3, OwnFacts, Piece
    <3> QED BY <1>4, <3>1, SMT
  <2> QED BY <1>1, <1>3, <1>4, <1>5, <1>6, <2>1, FilledOldest
<1>8. Oldest(lbuf'[r]) \in {iter[r], iter[r] + 1}
  BY <1>1, <1>3, <1>4, <1>5, <1>6, FilledOldest
<1>9. \A q \in Receiver \ {r} : lbuf'[q] = lbuf[q]
  BY <1>1, <1>2 DEF TypeOK
<1>10. CASE Oldest(lbuf'[r]) = iter[r]
  BY <1>2, <1>4, <1>5, <1>7, <1>9, <1>10 DEF tvars
<1>11. CASE Oldest(lbuf'[r]) = iter[r] + 1
  <2>1. Held' = [Held EXCEPT ![r] = Announced]
    BY <1>2, <1>4, <1>5, <1>9, <1>11 DEF Held
  <2>2. Held[r] < Announced
    BY <1>2, <1>4, <1>5, <1>7, SMT DEF Held
  <2>3. Abstract!Take(r)
    BY <1>2, <1>5, <2>1, <2>2 DEF Abstract!Take, Held
  <2> QED BY <1>2, <2>3
<1> QED BY <1>8, <1>10, <1>11

(* Every step is a step of Transfer, or one it does not see.               *)
LEMMA StepSimulates ==
    ASSUME RInv, RInv', [Next]_vars
    PROVE  Abstract!Next \/ UNCHANGED tvars
<1> USE SenderAssumption
<1>1. IInv /\ TypeOK /\ DInv /\ AnnouncedInv /\ ClockInv /\ Own(Sender)
      /\ Pos(Sender) \in Nat /\ iter[Sender] \in Nat /\ iter[Sender] <= Iters
      /\ Iters \in Nat \ {0}
  BY OwnFacts DEF RInv, DInv
<1>2. CASE UNCHANGED vars
  BY <1>2 DEF vars, tvars, Announced, Oldest, Covered, NBlocks, Byte, Round
<1>3. SUFFICES ASSUME NEW r \in Rank, RankStep(r) \/ Launcher(r)
               PROVE  Abstract!Next \/ UNCHANGED tvars
  BY <1>2 DEF Next, Terminating
<1>4. blocksize' = blocksize /\ \A q \in Receiver : Oldest(lbuf[q])' = Oldest(lbuf'[q])
  BY <1>3, FixedArgs, OldestKeeps
<1>5. lbuf' = lbuf => Held' = Held
  BY <1>4 DEF Held
<1>6. CASE UnpackPiece(r)
  BY <1>6, UnpackSimulates DEF Abstract!Next
<1>7. ASSUME blocksize > 0, Pos(Sender) = Start(Chunks, iter[Sender]), Chunks # 0,
             NEW q \in Receiver
      PROVE  Held[q] = iter[Sender]
  <2>1. Filled(Covered, lbuf[q], iter[Sender], 0)
    BY <1>1, <1>7, AtHead
  <2>2. Total # 0 /\ Total \in Nat /\ 0 \in Nat
    BY <1>1, <1>7, CoveredIs, TotalFits
  <2>3. ~(0 >= Total)
    BY <2>2, SMT
  <2>4. Oldest(lbuf[q]) = iter[Sender]
    BY <1>1, <1>7, <2>1, <2>2, <2>3, FilledOldest
  <2> QED BY <2>4 DEF Held
<1>8. blocksize > 0 =>
        /\ Chunks \in Nat /\ Start(Chunks, iter[Sender]) \in Nat /\ Start(Chunks, iter[Sender]) >= 1
        /\ Entered(Sender) = Pos(Sender) - Start(Chunks, iter[Sender])
        /\ Announced = IF iter[Sender] < Iters /\ Entered(Sender) > 0 /\ Chunks > 0
                       THEN iter[Sender] + 1 ELSE iter[Sender]
  BY <1>1, OwnFacts DEF AnnouncedInv
<1>9. CASE EndChunk(r) /\ r = Sender
  <2>1. /\ pc[r] = "pack" /\ UNCHANGED <<lbuf, clock>> /\ Enter(Sender, "bcast")
        /\ blocksize > 0 /\ iter[Sender] < Iters
        /\ Entered(Sender) \in 0 .. Chunks /\ Entered(Sender) < Chunks
    BY <1>1, <1>9 DEF EndChunk, Own, InRound, mem
  <2>2. Pos(Sender) >= 1
    <3> DEFINE a == Start(Chunks, iter[Sender])
               e == Entered(Sender)
               c == Chunks
    <3>1. a \in Nat /\ a >= 1 /\ e = Pos(Sender) - a /\ e \in 0 .. c /\ c \in Nat
      BY <1>8, <2>1
    <3> HIDE DEF a, e, c
    <3> QED BY <1>1, <3>1, SMT
  <2>3. Announced' = IF Entered(Sender) = 0 THEN Announced + 1 ELSE Announced
    BY <1>1, <2>1, <2>2, EnterAnnounces DEF Collective
  <2>4. CASE Entered(Sender) # 0
    BY <1>5, <2>1, <2>3, <2>4 DEF tvars, Held
  <2>5. CASE Entered(Sender) = 0
    <3>1. Pos(Sender) = Start(Chunks, iter[Sender]) /\ Chunks # 0 /\ Announced = iter[Sender]
      <4> DEFINE a == Start(Chunks, iter[Sender])
                 e == Entered(Sender)
                 c == Chunks
      <4>1. /\ a \in Nat /\ e = Pos(Sender) - a /\ e = 0 /\ c \in Nat /\ e < c
            /\ Announced = IF iter[Sender] < Iters /\ e > 0 /\ c > 0
                           THEN iter[Sender] + 1 ELSE iter[Sender]
        BY <1>8, <2>1, <2>5
      <4> HIDE DEF a, e, c
      <4>2. Pos(Sender) = a /\ c # 0 /\ Announced = iter[Sender]
        BY <1>1, <4>1, SMT
      <4> QED BY <4>2 DEF a, c
    <3>2. Abstract!Publish
      BY <1>5, <1>7, <2>1, <2>3, <2>5, <3>1 DEF Abstract!Publish, Held
    <3> QED BY <3>2 DEF Abstract!Next
  <2> QED BY <2>4, <2>5
<1>10. CASE EndLoop(r) /\ r = Sender
  <2>1. /\ pc[Sender] = "loop" /\ UNCHANGED <<iter, lbuf>> /\ Enter(Sender, "barrier")
        /\ iter[Sender] = Iters /\ clock' = "stopped"
    BY <1>1, <1>10, SMT DEF EndLoop, LeaveLoop, MoreRounds, mem
  <2>2. blocksize > 0 /\ Entered(Sender) = 0
    BY <1>1, <2>1 DEF Own
  <2>3. Pos(Sender) = Start(Chunks, iter[Sender]) /\ Pos(Sender) >= 1 /\ Announced = iter[Sender]
    <3> DEFINE a == Start(Chunks, iter[Sender])
               e == Entered(Sender)
               c == Chunks
    <3>1. /\ a \in Nat /\ a >= 1 /\ e = Pos(Sender) - a /\ e = 0 /\ c \in Nat
          /\ Announced = IF iter[Sender] < Iters /\ e > 0 /\ c > 0
                         THEN iter[Sender] + 1 ELSE iter[Sender]
      BY <1>8, <2>2
    <3> HIDE DEF a, e, c
    <3>2. Pos(Sender) = a /\ Pos(Sender) >= 1 /\ Announced = iter[Sender]
      BY <1>1, <3>1, SMT
    <3> QED BY <3>2 DEF a
  <2>4. Announced' = Announced
    BY <1>1, <2>1, <2>2, <2>3, EnterAnnounces DEF Collective
  <2>5. Chunks # 0
    <3>1. iter[Sender] # 0 /\ Reach(Sender)
      BY <1>1, <2>1 DEF DInv, Places
    <3> QED BY <2>2, <3>1 DEF Reach
  <2>6. Abstract!Report
    BY <1>5, <1>7, <2>1, <2>2, <2>3, <2>4, <2>5 DEF Abstract!Report, Held
  <2> QED BY <2>6 DEF Abstract!Next
<1>11. CASE (Setup(r) \/ SendFin(r)) /\ r = Sender
  <2>1. /\ UNCHANGED <<lbuf, clock>> /\ (Enter(Sender, "barrier") \/ Enter(Sender, "gather"))
    BY <1>11 DEF Setup, SendFin, mem
  <2>2. Announced' = Announced
    <3>1. CASE SendFin(r)
      <4>1. /\ pc[Sender] = "chunk" /\ blocksize > 0 /\ Entered(Sender) \in 0 .. Chunks
            /\ Enter(Sender, "gather")
        BY <1>1, <1>11, <3>1 DEF SendFin, Own
      <4>2. Pos(Sender) >= 1
        <5> DEFINE a == Start(Chunks, iter[Sender])
                   e == Entered(Sender)
                   c == Chunks
        <5>1. a \in Nat /\ a >= 1 /\ e = Pos(Sender) - a /\ e \in 0 .. c /\ c \in Nat
          BY <1>8, <4>1
        <5> HIDE DEF a, e, c
        <5> QED BY <1>1, <5>1, SMT
      <4> QED BY <1>1, <4>1, <4>2, EnterAnnounces DEF Collective
    <3>2. CASE Setup(r)
      <4>1. /\ blocksize > 0 /\ iter' = iter /\ iter[Sender] = 0 /\ Pos(Sender) = 0
            /\ Enter(Sender, "barrier")
        BY <1>1, <1>11, <3>2 DEF Setup, Own
      <4>2. Pos(Sender)' = 1 /\ calls'[Sender] = Append(calls[Sender], "barrier")
        <5>1. Pos(Sender)' = Pos(Sender) + 1
          BY <1>1, <4>1, EnterPos DEF TypeOK, Collective
        <5> QED BY <1>1, <4>1, <5>1 DEF Enter, TypeOK
      <4>3. Announced' = 0
        <5>1. Len(calls'[Sender]) = 1
          BY <4>2 DEF Pos
        <5>2. {k \in 2 .. Len(calls'[Sender]) :
                 calls'[Sender][k] = "bcast" /\ calls'[Sender][k-1] # "bcast"} = {}
          BY <5>1, SMT
        <5> QED BY <5>2, FS_EmptySet DEF Announced
      <4>4. Announced = 0
        <5>1. Len(calls[Sender]) = 0
          BY <4>1 DEF Pos
        <5>2. {k \in 2 .. Len(calls[Sender]) :
                 calls[Sender][k] = "bcast" /\ calls[Sender][k-1] # "bcast"} = {}
          BY <5>1, SMT
        <5> QED BY <5>2, FS_EmptySet DEF Announced
      <4> QED BY <4>3, <4>4
    <3> QED BY <1>11, <3>1, <3>2
  <2> QED BY <1>5, <2>1, <2>2 DEF tvars, Held
<1>12. CASE StartRound(r) /\ r = Sender
  <2>1. UNCHANGED <<lbuf, calls>> /\ iter[Sender] < Iters /\ clock' \in {clock, "running"}
    BY <1>12 DEF StartRound, BeginRound, MoreRounds, mem
  <2>2. clock # "stopped"
    <3>1. iter[Sender] # Iters
      BY <1>1, <2>1, SMT
    <3> QED BY <1>1, <3>1 DEF ClockInv
  <2> QED BY <1>5, <2>1, <2>2 DEF tvars, Announced, Held
<1>13. CASE r # Sender /\ ~UnpackPiece(r)
  <2>1. UNCHANGED <<lbuf, clock>>
    BY <1>3, <1>13 DEF RankStep, Launcher, DivideByZero, Setup, PassStartBarrier, StartRound, BeginRound,
       BeginChunk, PackPiece, Fault, Overrun, OverrunFault, EndChunk, PassBcast, SendFin,
       PassFin, AssertFails, EndLoop, LeaveLoop, Finish, mem
  <2>2. calls'[Sender] = calls[Sender]
    BY <1>1, <1>3, <1>13, OthersKeep
  <2> QED BY <1>5, <2>1, <2>2 DEF tvars, Announced, Held
<1>14. CASE \/ DivideByZero(r) \/ PassStartBarrier(r) \/ PackPiece(r) \/ Fault(r) \/ Overrun(r)
            \/ OverrunFault(r) \/ PassBcast(r) \/ AssertFails(r) \/ PassFin(r) \/ Finish(r)
            \/ Launcher(r) \/ (BeginChunk(r) /\ r = Sender)
  <2>1. UNCHANGED <<lbuf, clock, calls>>
    BY <1>14 DEF DivideByZero, PassStartBarrier, PackPiece, Fault, Overrun, OverrunFault, PassBcast,
       AssertFails, PassFin, Finish, Launcher, Kill, BeginChunk, mem
  <2> QED BY <1>5, <2>1 DEF tvars, Announced, Held
<1> QED BY <1>3, <1>6, <1>9, <1>10, <1>11, <1>12, <1>13, <1>14 DEF RankStep

(* Nothing is announced and nothing copied before the first step.          *)
LEMMA InitRInv == Init => RInv /\ Abstract!Init
<1> SUFFICES ASSUME Init PROVE RInv /\ Abstract!Init
  OBVIOUS
<1> USE SenderAssumption
<1>1. IInv /\ TypeOK /\ Iters \in Nat \ {0}
  BY InitIInv, Numbers DEF IInv
<1>2. /\ clock = "off" /\ calls[Sender] = <<>>
      /\ \A r \in Rank : pc[r] = "setup" /\ iter[r] = 0 /\ calls[r] = <<>> /\ Pos(r) = 0
  BY SMT DEF Init, Pos
<1>3. Announced = 0
  <2>1. Len(calls[Sender]) = 0
    BY <1>2 DEF Pos
  <2>2. {k \in 2 .. Len(calls[Sender]) :
            calls[Sender][k] = "bcast" /\ calls[Sender][k-1] # "bcast"} = {}
    BY <2>1, SMT
  <2> QED BY <2>2, FS_EmptySet DEF Announced
<1>4. \A r \in Receiver : \A x \in Byte : lbuf[r][x] = <<0, x>>
  BY DEF Init
<1>5. Covered # {} => Covered \subseteq Byte
  <2>1. CASE blocksize > 0
    BY <1>1, <2>1, CoveredIs
  <2>2. CASE blocksize = 0
    BY <2>2 DEF Covered
  <2> QED BY <1>1, <2>1, <2>2, Numbers, SMT
<1>6. ASSUME NEW r \in Receiver PROVE Oldest(lbuf[r]) = 0
  <2>1. CASE Covered = {}
    BY <2>1 DEF Oldest
  <2>2. CASE Covered # {}
    <3>1. \A x \in Covered : Round(lbuf[r], x) = 0
      BY <1>4, <1>5 DEF Round
    <3>2. PICK y \in Covered : TRUE
      BY <2>2
    <3>3. 0 \in Nat /\ \A x \in Covered : Round(lbuf[r], x) \in Nat /\ Round(lbuf[r], x) >= 0
      BY <3>1, SMT
    <3> QED BY <3>1, <3>2, <3>3, OldestIs
  <2> QED BY <2>1, <2>2
<1>7. Abstract!Init
  <2>1. ~(clock = "stopped")
    BY <1>2
  <2> QED BY <1>3, <1>6, <2>1 DEF Abstract!Init
<1>8. ASSUME blocksize > 0
      PROVE  /\ Chunks \in Nat /\ Start(Chunks, 0) = 1 /\ Start(Chunks, 0 + 1) = 1 + Chunks + 1
             /\ \A r \in Rank : Entered(r) = 0 - 1
  <2>1. /\ Chunks \in Nat /\ Start(Chunks, 0) = 1
        /\ Start(Chunks, 0 + 1) = Start(Chunks, 0) + Chunks + 1
    <3>1. Chunks \in Nat /\ 0 \in Nat
      BY <1>1, <1>8, ChunkFacts, SMT
    <3> QED BY <3>1, StartFacts
  <2> QED BY <1>2, <2>1 DEF Entered
<1>9. Places
  <2>1. ASSUME NEW r \in Rank PROVE Reach(r)
    <3>1. ASSUME blocksize > 0 PROVE Pos(r) <= Start(Chunks, iter[r] + 1)
      <4>1. Pos(r) = 0 /\ iter[r] = 0 /\ Start(Chunks, 0 + 1) = 1 + Chunks + 1 /\ Chunks \in Nat
        BY <1>2, <1>8, <3>1
      <4>2. 0 <= 1 + Chunks + 1
        BY <4>1, SMT
      <4> QED BY <4>1, <4>2
    <3> QED BY <1>2, <3>1 DEF Reach, Bound
  <2>2. ASSUME NEW r \in Receiver PROVE Heard(r)
    <3>1. ~(0 > 0)
      BY SMT
    <3> QED BY <1>2, <3>1 DEF Heard, Receiver
  <2> QED BY <2>1, <2>2 DEF Places
<1>10. Data
  <2> SUFFICES ASSUME blocksize > 0
               PROVE  Sent /\ (\A r \in Rank : Copied(r)) /\ (\A r \in Receiver : Whole(r))
    BY DEF Data
  <2>1. Covered \subseteq Byte /\ \A x \in Covered : x \in Nat
    BY <1>1, CoveredIs
  <2>2. ASSUME NEW r \in Rank PROVE Filled(Covered, Buffer(r), 0, 0)
    <3>1. \A x \in Byte : Buffer(r)[x] = <<0, x>>
      BY <1>4 DEF Buffer, Init, Receiver
    <3>2. \A x \in Covered : ~(x < 0)
      BY <2>1, SMT
    <3> QED BY <2>1, <3>1, <3>2 DEF Filled
  <2>3. ASSUME NEW r \in Rank PROVE Copied(r)
    BY <1>2, <2>2 DEF Copied, InRound, Outside
  <2>4. ASSUME NEW r \in Receiver PROVE Whole(r)
    <3>1. r \in Rank /\ Buffer(r) = lbuf[r]
      BY DEF Receiver, Buffer
    <3>2. ~(0 >= 1 + Chunks + 1)
      BY <1>8, SMT
    <3> QED BY <1>2, <1>8, <2>2, <3>1, <3>2 DEF Whole
  <2>5. Sent
    <3>1. \A n \in 1 .. Chunks : ~(n <= 0 - 1)
      BY <1>8, SMT
    <3> QED BY <1>8, <3>1 DEF Sent
  <2> QED BY <2>3, <2>4, <2>5
<1>11. AnnouncedInv /\ ClockInv
  <2>1. ~(0 - 1 > 0)
    BY SMT
  <2> QED BY <1>2, <1>3, <1>8, <2>1 DEF AnnouncedInv, ClockInv
<1> QED BY <1>1, <1>7, <1>9, <1>10, <1>11 DEF RInv, DInv

(* The invariant of the data is inductive.                                 *)
LEMMA NextRInv == RInv /\ [Next]_vars => RInv'
<1> SUFFICES ASSUME RInv, [Next]_vars PROVE RInv'
  OBVIOUS
<1>1. IInv'
  BY NextIInv DEF RInv, DInv
<1>2. CASE UNCHANGED vars
  <2>1. /\ Chunks' = Chunks /\ Total' = Total /\ Covered' = Covered /\ Announced' = Announced
        /\ \A r \in Rank : Pos(r)' = Pos(r)
        /\ UNCHANGED <<pc, calls, iter, clock, shmoff, shm, lbuf, blocksize, depth>>
    BY <1>2 DEF vars, Chunks, Total, NBlocks, Covered, Byte, Announced, Pos
  <2>2. /\ \A r \in Rank : Entered(r)' = Entered(r) /\ Buffer(r)' = Buffer(r)
    BY <2>1 DEF Entered, Buffer
  <2>3. Places'
    <3>1. \A r \in Rank : Reach(r)
      BY DEF RInv, DInv, Places
    <3>2. \A r \in Rank : Reach(r)'
      BY <2>1, <3>1 DEF Reach, Bound
    <3>3. \A r \in Receiver : Heard(r)'
      BY <2>1, <2>2, SenderAssumption DEF RInv, DInv, Places, Heard, Receiver
    <3> QED BY <3>2, <3>3 DEF Places
  <2>4. Data'
    <3> SUFFICES ASSUME blocksize > 0
                 PROVE  Sent' /\ (\A r \in Rank : Copied(r)') /\ (\A r \in Receiver : Whole(r)')
      BY <2>1 DEF Data
    <3>1. Sent /\ (\A r \in Rank : Copied(r)) /\ (\A r \in Receiver : Whole(r))
      BY DEF RInv, DInv, Data
    <3>2. Sent'
      BY <2>1, <2>2, <3>1, SenderAssumption DEF Sent
    <3>3. \A r \in Rank : Copied(r)'
      BY <2>1, <2>2, <3>1 DEF Copied
    <3>4. \A r \in Receiver : Whole(r)'
      BY <2>1, <3>1, SenderAssumption DEF Whole, Receiver
    <3> QED BY <3>2, <3>3, <3>4
  <2>5. AnnouncedInv' /\ ClockInv'
    BY <2>1, <2>2, SenderAssumption DEF RInv, AnnouncedInv, ClockInv
  <2> QED BY <1>1, <2>3, <2>4, <2>5 DEF RInv, DInv
<1>3. ASSUME NEW r \in Rank, RankStep(r) \/ Launcher(r) PROVE RInv'
  <2>1. Places'
    BY <1>1, <1>3, PlacesStep DEF RInv, DInv
  <2>2. Data'
    BY <1>1, <1>3, <2>1, DataStep DEF RInv
  <2>3. AnnouncedInv' /\ ClockInv'
    BY <1>1, <1>3, <2>1, AnnouncedStep
  <2> QED BY <1>1, <2>1, <2>2, <2>3 DEF RInv, DInv
<1> QED BY <1>2, <1>3 DEF Next, Terminating

(* The pipeline implements the transfer every transport promises, as far as*)
(* the blocks cover the buffer: whatever the block, chunk and file sizes,  *)
(* the sender publishes a round only when all receivers hold the previous  *)
(* one, each takes it once, whole and in place, and the latency is reported*)
(* only when all of them hold the last.                                    *)
THEOREM Implements == Spec => ImplementsTransfer
<1>1. RInv /\ RInv' /\ [Next]_vars
        => [Abstract!Next]_<<Announced, [r \in Receiver |-> Oldest(lbuf[r])], clock = "stopped">>
  BY StepSimulates DEF tvars
<1> QED BY <1>1, InitRInv, NextRInv, PTL DEF Spec, ImplementsTransfer, Abstract!Spec
=============================================================================
