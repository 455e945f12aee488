--------------------------- MODULE ShmemDtProofs ---------------------------
(***************************************************************************)
(* Proofs about ShmemDt, for any number of ranks, rounds, block sizes and  *)
(* file sizes.  The argument counts collectives: in round i a rank has     *)
(* entered 2i+1 of them before its RTS, 2i+2 before its FIN and 2i+3 after *)
(* it, so the histories of two ranks tell how far apart they can be.       *)
(***************************************************************************)
EXTENDS ShmemDt, MpiProofs

(* Where a rank is, told by its pc.                                        *)
Position(r) ==
    /\ pc[r] = "setup" => Pos(r) = 0 /\ iter[r] = 0 /\ blk[r] = 0
    /\ pc[r] = "start_barrier" => Pos(r) = 1 /\ iter[r] = 0 /\ blk[r] = 0
    /\ pc[r] = "loop" => Pos(r) = 2 * iter[r] + 1 /\ blk[r] = 0
    /\ pc[r] = "pack" => r = Sender /\ Pos(r) = 2 * iter[r] + 1 /\ iter[r] < Iters
    /\ pc[r] = "bcast" => Pos(r) = 2 * iter[r] + 2 /\ blk[r] = 0 /\ iter[r] < Iters
    /\ pc[r] = "unpack" => /\ r # Sender /\ iter[r] < Iters
                           /\ Pos(r) = 2 * iter[r] + 2
                           /\ Pos(Sender) >= 2 * iter[r] + 2
    /\ pc[r] = "gather" => Pos(r) = 2 * iter[r] + 3 /\ blk[r] = 0 /\ iter[r] < Iters
    /\ pc[r] \in {"end_barrier", "done"} =>
           Pos(r) = 2 * Iters + 2 /\ iter[r] = Iters /\ blk[r] = 0
    /\ pc[r] \notin {"setup", "crashed", "killed"} => blocksize > 0

(* What stays true of a rank after it has died as well.                    *)
Bounds(r) ==
    /\ Pos(r) <= 2 * iter[r] + 3
    /\ iter[r] = Iters => Pos(r) <= 2 * Iters + 2
    /\ blk[r] > 0 => /\ iter[r] < Iters
                     /\ r = Sender => Pos(r) = 2 * iter[r] + 1
                     /\ r # Sender => /\ Pos(r) = 2 * iter[r] + 2
                                      /\ Pos(Sender) >= 2 * iter[r] + 2

(* The sender waits for everybody's FIN, a receiver for the sender's RTS.  *)
Lag(r) == iter[Sender] > 0 => Pos(r) >= 2 * iter[Sender] + 1
Ahead(r) ==
    /\ Pos(Sender) >= 2 * iter[r]
    /\ r # Sender /\ iter[r] < Iters /\ Pos(r) >= 2 * iter[r] + 3 =>
           Pos(Sender) >= 2 * iter[r] + 2

Control == \A r \in Rank : Position(r) /\ Bounds(r) /\ Lag(r) /\ Ahead(r)

(* The shared region holds the round being announced, or the sender's      *)
(* progress in packing it over the previous one.                           *)
ShmInv ==
    \A x \in Byte :
        shm[x] = IF \/ iter[Sender] < Iters /\ Pos(Sender) >= 2 * iter[Sender] + 2
                    \/ x < Offset(Sender)
                 THEN iter[Sender] + 1 ELSE iter[Sender]

(* Likewise each receiver's buffer.                                        *)
LbufInv ==
    \A r \in Receiver : \A x \in Byte :
        lbuf[r][x] = IF \/ iter[r] < Iters /\ Pos(r) >= 2 * iter[r] + 3
                        \/ x < Offset(r)
                     THEN iter[r] + 1 ELSE iter[r]

IInv == TypeOK /\ Control /\ ShmInv /\ LbufInv

-----------------------------------------------------------------------------
(* A copy loop that has a block left stays inside the buffers.             *)
LEMMA NBlocksFit ==
    ASSUME TypeOK, NEW r \in Rank, blocksize > 0, blk[r] < NBlocks
    PROVE  /\ (blk[r] + 1) * blocksize = Offset(r) + blocksize
           /\ (blk[r] + 1) * blocksize <= BufSize
           /\ blk[r] + 1 \in 0 .. BufSize
<1>1. blocksize \in Nat \ {0} /\ BufSize \in Nat /\ blk[r] \in Nat
  BY ArgsAssumption, FileAssumption, LoopAssumption DEF TypeOK
<1>2. (blk[r] + 1) * blocksize <= BufSize /\ blk[r] + 1 <= BufSize
  BY <1>1, BlockFits DEF NBlocks
<1>3. (blk[r] + 1) * blocksize = blk[r] * blocksize + blocksize
  BY <1>1, MulSucc
<1> QED BY <1>1, <1>2, <1>3, SMT DEF Offset

-----------------------------------------------------------------------------
(* The initial states: nobody has entered anything or copied anything.     *)
LEMMA InitIInv == Init => IInv
<1> SUFFICES ASSUME Init PROVE IInv
  OBVIOUS
<1> USE ArgsAssumption, FileAssumption, LoopAssumption, SenderAssumption
<1>1. blocksize \in Nat
  BY DEF Init
<1>2. \A r \in Rank : Offset(r) = 0
  BY <1>1, MulZero DEF Init, Offset
<1>3. calls \in [Rank -> Seq(Collective)] /\ \A r \in Rank : calls[r] = <<>> /\ Pos(r) = 0
  BY SMT DEF Init, Pos
<1>4. TypeOK
  <2>1. Iters \in Nat
    BY SMT DEF Iters
  <2> QED BY <1>2, <1>3, <2>1, SMT DEF Init, TypeOK, Label, Stopped, Failed, Byte
<1>5. Control
  <2> SUFFICES ASSUME NEW r \in Rank
               PROVE  Position(r) /\ Bounds(r) /\ Lag(r) /\ Ahead(r)
    BY DEF Control
  <2>1. pc[r] = "setup" /\ iter[r] = 0 /\ blk[r] = 0 /\ iter[Sender] = 0
    BY DEF Init
  <2>2. Pos(r) = 0 /\ Pos(Sender) = 0 /\ Iters \in Nat \ {0}
    BY <1>3, SMT DEF Iters
  <2> QED BY <2>1, <2>2, SMT DEF Position, Bounds, Lag, Ahead
<1>6. ShmInv
  BY <1>2, <1>3, SMT DEF Init, ShmInv, Byte
<1>7. LbufInv
  BY <1>2, <1>3, SMT DEF Init, LbufInv, Byte, Receiver
<1> QED BY <1>4, <1>5, <1>6, <1>7 DEF IInv

-----------------------------------------------------------------------------
(* Types.                                                                  *)
LEMMA TypeStep ==
    ASSUME IInv, [Next]_vars
    PROVE  TypeOK'
<1> USE ArgsAssumption, FileAssumption, LoopAssumption, SenderAssumption
<1>1. TypeOK /\ Control /\ blocksize \in Nat /\ Iters \in Nat /\ BufSize \in Nat
  BY SMT DEF IInv, TypeOK, Iters
<1>2. CASE UNCHANGED vars
  BY <1>1, <1>2 DEF TypeOK, vars, Offset
<1>3. ASSUME NEW r \in Rank, Launcher(r)
      PROVE  TypeOK'
  BY <1>1, <1>3 DEF TypeOK, Launcher, Kill, Goto, mem, file, Offset, Label, Stopped
<1>4. ASSUME NEW r \in Rank, RankStep(r)
      PROVE  TypeOK'
  <2>1. CASE DivideByZero(r)
    BY <1>1, <2>1 DEF TypeOK, DivideByZero, Goto, mem, file, Offset, Label, Stopped, Failed
  <2>2. CASE Setup(r)
    <3>1. calls' \in [Rank -> Seq(Collective)]
      BY <1>1, <2>2, EnterPos DEF TypeOK, Setup, OpenAndMap, Collective
    <3>2. fsize' \in FileSizes \cup {BufSize} /\ mapped' \in [Rank -> BOOLEAN]
      BY <1>1, <2>2 DEF TypeOK, Setup, OpenAndMap
    <3> QED BY <1>1, <2>2, <3>1, <3>2 DEF TypeOK, Setup, OpenAndMap, Goto, mem, Offset, Label
  <2>3. CASE PassStartBarrier(r)
    BY <1>1, <2>3 DEF TypeOK, PassStartBarrier, Goto, mem, file, Offset, Label
  <2>4. CASE StartRound(r)
    <3>1. calls' \in [Rank -> Seq(Collective)]
      BY <1>1, <2>4, EnterPos DEF TypeOK, StartRound, BeginRound, Collective
    <3>2. pc' \in [Rank -> Label]
      <4>1. pc' = [pc EXCEPT ![r] = "pack"] \/ pc' = [pc EXCEPT ![r] = "bcast"]
        BY <2>4 DEF StartRound, BeginRound, Goto
      <4> QED BY <1>1, <4>1 DEF TypeOK, Label
    <3> QED BY <1>1, <2>4, <3>1, <3>2 DEF TypeOK, StartRound, BeginRound, mem, file, Offset
  <2>5. CASE PackBlock(r)
    <3>1. blocksize > 0 /\ r = Sender /\ iter[r] + 1 \in 0 .. Iters
      <4>1. Position(r) /\ pc[r] = "pack" /\ iter[r] \in 0 .. Iters
        BY <1>1, <2>5 DEF Control, PackBlock, TypeOK
      <4> QED BY <1>1, <4>1, SMT DEF Position
    <3>2. /\ (blk[r] + 1) * blocksize <= BufSize
          /\ blk[r] + 1 \in 0 .. BufSize
      BY <1>1, <2>5, <3>1, NBlocksFit DEF PackBlock
    <3>3. blk' \in [Rank -> 0 .. BufSize] /\ blk' = [blk EXCEPT ![r] = blk[r] + 1]
      BY <1>1, <2>5, <3>2 DEF PackBlock, TypeOK
    <3>4. \A q \in Rank : Offset(q)' <= BufSize
      BY <1>1, <2>5, <3>2, <3>3 DEF PackBlock, TypeOK, Offset, file
    <3>5. shm' \in [Byte -> 0 .. Iters]
      BY <1>1, <2>5, <3>1 DEF PackBlock, TypeOK
    <3> QED BY <1>1, <2>5, <3>3, <3>4, <3>5 DEF TypeOK, PackBlock, file
  <2>6. CASE UnpackBlock(r)
    <3>1. blocksize > 0
      BY <1>1, <2>6, SMT DEF Control, Position, UnpackBlock
    <3>2. /\ (blk[r] + 1) * blocksize <= BufSize
          /\ blk[r] + 1 \in 0 .. BufSize
      BY <1>1, <2>6, <3>1, NBlocksFit DEF UnpackBlock
    <3>3. blk' \in [Rank -> 0 .. BufSize] /\ blk' = [blk EXCEPT ![r] = blk[r] + 1]
      BY <1>1, <2>6, <3>2 DEF UnpackBlock, TypeOK
    <3>4. \A q \in Rank : Offset(q)' <= BufSize
      BY <1>1, <2>6, <3>2, <3>3 DEF UnpackBlock, TypeOK, Offset, file
    <3>5. lbuf' \in [Receiver -> [Byte -> 0 .. Iters]]
      <4>1. r \in Receiver => [x \in Byte |-> IF x \in BlockBytes(r) THEN shm[x] ELSE lbuf[r][x]]
                                  \in [Byte -> 0 .. Iters]
        BY <1>1 DEF TypeOK
      <4> QED BY <1>1, <2>6, <4>1 DEF UnpackBlock, TypeOK
    <3> QED BY <1>1, <2>6, <3>3, <3>4, <3>5 DEF TypeOK, UnpackBlock, file
  <2>7. CASE Fault(r)
    BY <1>1, <2>7 DEF TypeOK, Fault, Goto, mem, file, Offset, Label, Stopped, Failed
  <2>8. CASE AssertFails(r)
    BY <1>1, <2>8 DEF TypeOK, AssertFails, Goto, mem, file, Offset, Label, Stopped, Failed
  <2>9. CASE SendRts(r) \/ SendFin(r)
    <3>1. calls' \in [Rank -> Seq(Collective)]
      BY <1>1, <2>9, EnterPos DEF TypeOK, SendRts, SendFin, Collective
    <3>2. blk' \in [Rank -> 0 .. BufSize] /\ blk' = [blk EXCEPT ![r] = 0]
      <4>1. blk' = [blk EXCEPT ![r] = 0]
        BY <2>9 DEF SendRts, SendFin
      <4> QED BY <1>1, <4>1 DEF TypeOK
    <3>3. \A q \in Rank : Offset(q)' <= BufSize
      BY <1>1, <2>9, <3>2, MulZero DEF SendRts, SendFin, TypeOK, Offset, file
    <3> QED BY <1>1, <2>9, <3>1, <3>2, <3>3 DEF TypeOK, SendRts, SendFin, Goto, mem, file, Label
  <2>10. CASE PassRts(r)
    <3>1. calls' \in [Rank -> Seq(Collective)]
      BY <1>1, <2>10, EnterPos DEF TypeOK, PassRts, Collective
    <3>2. pc' \in [Rank -> Label]
      <4>1. pc' = [pc EXCEPT ![r] = "gather"] \/ pc' = [pc EXCEPT ![r] = "unpack"]
        BY <2>10 DEF PassRts, Goto
      <4> QED BY <1>1, <4>1 DEF TypeOK, Label
    <3> QED BY <1>1, <2>10, <3>1, <3>2 DEF TypeOK, PassRts, mem, file, Offset
  <2>11. CASE PassFin(r)
    <3>1. Position(r) /\ pc[r] = "gather" /\ iter[r] \in 0 .. Iters
      BY <1>1, <2>11 DEF Control, PassFin, TypeOK
    <3>2. iter[r] + 1 \in 0 .. Iters
      BY <1>1, <3>1, SMT DEF Position
    <3>3. iter' \in [Rank -> 0 .. Iters]
      BY <1>1, <2>11, <3>2 DEF PassFin, TypeOK
    <3> QED BY <1>1, <2>11, <3>3 DEF TypeOK, PassFin, Goto, mem, file, Offset, Label
  <2>12. CASE EndLoop(r)
    <3>1. calls' \in [Rank -> Seq(Collective)]
      BY <1>1, <2>12, EnterPos DEF TypeOK, EndLoop, LeaveLoop, Collective
    <3> QED BY <1>1, <2>12, <3>1 DEF TypeOK, EndLoop, LeaveLoop, Goto, mem, file, Offset, Label
  <2>13. CASE Finish(r)
    BY <1>1, <2>13 DEF TypeOK, Finish, Unmap, Goto, mem, Offset, Label, Stopped
  <2> QED BY <1>4, <2>1, <2>2, <2>3, <2>4, <2>5, <2>6, <2>7, <2>8, <2>9, <2>10,
             <2>11, <2>12, <2>13 DEF RankStep
<1> QED BY <1>2, <1>3, <1>4 DEF Next, Terminating

-----------------------------------------------------------------------------
(* Control.  Only rank r moves: what its step does to its own counters,    *)
(* and that nobody else's change, is all the bounds depend on.             *)
LEMMA ControlStep ==
    ASSUME IInv, [Next]_vars
    PROVE  Control'
<1> USE ArgsAssumption, FileAssumption, LoopAssumption, SenderAssumption
<1>0. Iters \in Nat \ {0}
  BY SMT DEF Iters
<1>1. TypeOK /\ Control /\ Iters \in Nat \ {0}
  BY <1>0 DEF IInv
<1>2. \A q \in Rank : /\ Pos(q) \in Nat /\ iter[q] \in 0 .. Iters /\ blk[q] \in Nat
                       /\ Position(q) /\ Bounds(q) /\ Lag(q) /\ Ahead(q)
  BY <1>1, PosNat DEF TypeOK, Control
<1>3. CASE UNCHANGED vars
  BY <1>1, <1>3 DEF Control, Position, Bounds, Lag, Ahead, Pos, vars
<1>4. SUFFICES ASSUME NEW r \in Rank, RankStep(r) \/ Launcher(r), NEW q \in Rank
               PROVE  Position(q)' /\ Bounds(q)' /\ Lag(q)' /\ Ahead(q)'
  BY <1>3 DEF Next, Terminating, Control
<1>5. blocksize' = blocksize
  BY <1>4 DEF RankStep, Launcher, DivideByZero, Setup, OpenAndMap, PassStartBarrier, StartRound, BeginRound,
          PackBlock, UnpackBlock, Fault, AssertFails, SendRts, PassRts, SendFin,
          PassFin, EndLoop, LeaveLoop, Finish, Unmap, file
<1> USE DEF Position, Bounds, Lag, Ahead
(* The rank stops where it is. *)
<1>6. CASE DivideByZero(r) \/ Fault(r) \/ AssertFails(r) \/ Launcher(r)
  <2>1. /\ calls' = calls /\ iter' = iter /\ blk' = blk
        /\ pc' \in {[pc EXCEPT ![r] = "crashed"], [pc EXCEPT ![r] = "aborted"],
                     [pc EXCEPT ![r] = "killed"]}
        /\ AssertFails(r) => pc[r] \in {"pack", "unpack"}
        /\ pc'[r] = "aborted" => AssertFails(r)
    BY <1>1, <1>6 DEF DivideByZero, Fault, AssertFails, Launcher, Kill, Goto, mem, TypeOK
  <2>2. Pos(q)' = Pos(q) /\ Pos(Sender)' = Pos(Sender)
    BY <2>1 DEF Pos
  <2>3. /\ q # r => pc'[q] = pc[q]
        /\ q = r => /\ pc'[q] \in {"crashed", "killed", "aborted"}
                    /\ pc'[q] = "aborted" => blocksize > 0
    BY <1>1, <1>2, <2>1 DEF TypeOK
  <2> QED BY <1>1, <1>2, <1>5, <2>1, <2>2, <2>3, SMT
<1>7. CASE Setup(r)
  <2>1. /\ pc[r] = "setup"
        /\ pc' = [pc EXCEPT ![r] = "start_barrier"]
        /\ iter' = iter
        /\ blk' = blk
        /\ blocksize > 0
    BY <1>1, <1>2, <1>7 DEF Setup, OpenAndMap, Goto, mem, TypeOK
  <2>2. Pos(r)' = Pos(r) + 1 /\ \A p \in Rank \ {r} : Pos(p)' = Pos(p)
    BY <1>1, <1>7, EnterPos DEF TypeOK, Collective, Setup, OpenAndMap
  <2>3. /\ pc'[r] = "start_barrier" /\ iter'[r] = iter[r] /\ blk'[r] = blk[r]
        /\ \A p \in Rank \ {r} : pc'[p] = pc[p] /\ iter'[p] = iter[p] /\ blk'[p] = blk[p]
    BY <1>1, <2>1 DEF TypeOK
  <2>4. CASE q = r
    BY <1>0, <1>2, <1>5, <2>1, <2>2, <2>3, <2>4, SMT
  <2>5. CASE q # r
    BY <1>0, <1>2, <1>5, <2>1, <2>2, <2>3, <2>5, SMT
  <2> QED BY <2>4, <2>5
<1>8. CASE PassStartBarrier(r)
  <2>1. /\ pc[r] = "start_barrier"
        /\ pc' = [pc EXCEPT ![r] = "loop"]
        /\ iter' = iter
        /\ blk' = blk
        /\ calls' = calls
    BY <1>1, <1>2, <1>8 DEF PassStartBarrier, Goto, mem, TypeOK
  <2>2. \A p \in Rank : Pos(p)' = Pos(p)
    BY <2>1 DEF Pos
  <2>3. /\ pc'[r] = "loop" /\ iter'[r] = iter[r] /\ blk'[r] = blk[r]
        /\ \A p \in Rank \ {r} : pc'[p] = pc[p] /\ iter'[p] = iter[p] /\ blk'[p] = blk[p]
    BY <1>1, <2>1 DEF TypeOK
  <2>4. CASE q = r
    BY <1>0, <1>2, <1>5, <2>1, <2>2, <2>3, <2>4, SMT
  <2>5. CASE q # r
    BY <1>0, <1>2, <1>5, <2>1, <2>2, <2>3, <2>5, SMT
  <2> QED BY <2>4, <2>5
<1>9. CASE StartRound(r) /\ r = Sender
  <2>1. /\ pc[r] = "loop"
        /\ pc' = [pc EXCEPT ![r] = "pack"]
        /\ iter' = iter
        /\ blk' = blk
        /\ calls' = calls
        /\ r = Sender
        /\ iter[r] < Iters
    BY <1>1, <1>2, <1>9 DEF StartRound, BeginRound, MoreRounds, Goto, mem, TypeOK
  <2>2. \A p \in Rank : Pos(p)' = Pos(p)
    BY <2>1 DEF Pos
  <2>3. /\ pc'[r] = "pack" /\ iter'[r] = iter[r] /\ blk'[r] = blk[r]
        /\ \A p \in Rank \ {r} : pc'[p] = pc[p] /\ iter'[p] = iter[p] /\ blk'[p] = blk[p]
    BY <1>1, <2>1 DEF TypeOK
  <2>4. CASE q = r
    BY <1>0, <1>2, <1>5, <2>1, <2>2, <2>3, <2>4, SMT
  <2>5. CASE q # r
    BY <1>0, <1>2, <1>5, <2>1, <2>2, <2>3, <2>5, SMT
  <2> QED BY <2>4, <2>5
<1>10. CASE StartRound(r) /\ r # Sender
  <2>1. /\ pc[r] = "loop"
        /\ pc' = [pc EXCEPT ![r] = "bcast"]
        /\ iter' = iter
        /\ blk' = blk
        /\ r # Sender
        /\ iter[r] < Iters
    BY <1>1, <1>2, <1>10 DEF StartRound, BeginRound, MoreRounds, Goto, mem, TypeOK
  <2>2. Pos(r)' = Pos(r) + 1 /\ \A p \in Rank \ {r} : Pos(p)' = Pos(p)
    BY <1>1, <1>10, EnterPos DEF TypeOK, Collective, StartRound, BeginRound
  <2>3. /\ pc'[r] = "bcast" /\ iter'[r] = iter[r] /\ blk'[r] = blk[r]
        /\ \A p \in Rank \ {r} : pc'[p] = pc[p] /\ iter'[p] = iter[p] /\ blk'[p] = blk[p]
    BY <1>1, <2>1 DEF TypeOK
  <2>4. CASE q = r
    BY <1>0, <1>2, <1>5, <2>1, <2>2, <2>3, <2>4, SMT
  <2>5. CASE q # r
    BY <1>0, <1>2, <1>5, <2>1, <2>2, <2>3, <2>5, SMT
  <2> QED BY <2>4, <2>5
<1>11. CASE PackBlock(r)
  <2>1. /\ pc[r] = "pack"
        /\ pc' = pc
        /\ iter' = iter
        /\ blk' = [blk EXCEPT ![r] = blk[r] + 1]
        /\ calls' = calls
    BY <1>1, <1>2, <1>11 DEF PackBlock, mem, TypeOK
  <2>2. \A p \in Rank : Pos(p)' = Pos(p)
    BY <2>1 DEF Pos
  <2>3. /\ pc'[r] = pc[r] /\ iter'[r] = iter[r] /\ blk'[r] = blk[r] + 1
        /\ \A p \in Rank \ {r} : pc'[p] = pc[p] /\ iter'[p] = iter[p] /\ blk'[p] = blk[p]
    BY <1>1, <2>1 DEF TypeOK
  <2>4. CASE q = r
    BY <1>0, <1>2, <1>5, <2>1, <2>2, <2>3, <2>4, SMT
  <2>5. CASE q # r
    BY <1>0, <1>2, <1>5, <2>1, <2>2, <2>3, <2>5, SMT
  <2> QED BY <2>4, <2>5
<1>12. CASE UnpackBlock(r)
  <2>1. /\ pc[r] = "unpack"
        /\ pc' = pc
        /\ iter' = iter
        /\ blk' = [blk EXCEPT ![r] = blk[r] + 1]
        /\ calls' = calls
    BY <1>1, <1>2, <1>12 DEF UnpackBlock, mem, TypeOK
  <2>2. \A p \in Rank : Pos(p)' = Pos(p)
    BY <2>1 DEF Pos
  <2>3. /\ pc'[r] = pc[r] /\ iter'[r] = iter[r] /\ blk'[r] = blk[r] + 1
        /\ \A p \in Rank \ {r} : pc'[p] = pc[p] /\ iter'[p] = iter[p] /\ blk'[p] = blk[p]
    BY <1>1, <2>1 DEF TypeOK
  <2>4. CASE q = r
    <3>1. /\ Pos(q)' = Pos(q) /\ Pos(Sender)' = Pos(Sender)
          /\ iter'[q] = iter[q] /\ iter'[Sender] = iter[Sender] /\ pc'[q] = "unpack"
      BY <2>1, <2>2, <2>4
    <3>2. Position(q)'
      BY <1>2, <1>5, <2>1, <2>4, <3>1
    <3>3. Bounds(q)'
      BY <1>2, <2>1, <2>4, <3>1
    <3>4. Lag(q)' /\ Ahead(q)'
      BY <1>2, <3>1
    <3> QED BY <3>2, <3>3, <3>4
  <2>5. CASE q # r
    BY <1>0, <1>2, <1>5, <2>1, <2>2, <2>3, <2>5, SMT
  <2> QED BY <2>4, <2>5
<1>13. CASE SendRts(r)
  <2>1. /\ pc[r] = "pack"
        /\ pc' = [pc EXCEPT ![r] = "bcast"]
        /\ iter' = iter
        /\ blk' = [blk EXCEPT ![r] = 0]
    BY <1>1, <1>2, <1>13 DEF SendRts, Goto, mem, TypeOK
  <2>2. Pos(r)' = Pos(r) + 1 /\ \A p \in Rank \ {r} : Pos(p)' = Pos(p)
    BY <1>1, <1>13, EnterPos DEF TypeOK, Collective, SendRts
  <2>3. /\ pc'[r] = "bcast" /\ iter'[r] = iter[r] /\ blk'[r] = 0
        /\ \A p \in Rank \ {r} : pc'[p] = pc[p] /\ iter'[p] = iter[p] /\ blk'[p] = blk[p]
    BY <1>1, <2>1 DEF TypeOK
  <2>4. CASE q = r
    BY <1>0, <1>2, <1>5, <2>1, <2>2, <2>3, <2>4, SMT
  <2>5. CASE q # r
    BY <1>0, <1>2, <1>5, <2>1, <2>2, <2>3, <2>5, SMT
  <2> QED BY <2>4, <2>5
<1>14. CASE PassRts(r) /\ r = Sender
  <2>1. /\ pc[r] = "bcast"
        /\ pc' = [pc EXCEPT ![r] = "gather"]
        /\ iter' = iter
        /\ blk' = blk
        /\ r = Sender
    BY <1>1, <1>2, <1>14 DEF PassRts, Goto, mem, TypeOK
  <2>2. Pos(r)' = Pos(r) + 1 /\ \A p \in Rank \ {r} : Pos(p)' = Pos(p)
    BY <1>1, <1>14, EnterPos DEF TypeOK, Collective, PassRts
  <2>3. /\ pc'[r] = "gather" /\ iter'[r] = iter[r] /\ blk'[r] = blk[r]
        /\ \A p \in Rank \ {r} : pc'[p] = pc[p] /\ iter'[p] = iter[p] /\ blk'[p] = blk[p]
    BY <1>1, <2>1 DEF TypeOK
  <2>4. CASE q = r
    BY <1>0, <1>2, <1>5, <2>1, <2>2, <2>3, <2>4, SMT
  <2>5. CASE q # r
    BY <1>0, <1>2, <1>5, <2>1, <2>2, <2>3, <2>5, SMT
  <2> QED BY <2>4, <2>5
<1>15. CASE PassRts(r) /\ r # Sender
  <2>1. /\ pc[r] = "bcast"
        /\ pc' = [pc EXCEPT ![r] = "unpack"]
        /\ iter' = iter
        /\ blk' = blk
        /\ calls' = calls
        /\ r # Sender
        /\ Pos(Sender) >= Pos(r)
    BY <1>1, <1>2, <1>15, ReturnsPos DEF PassRts, RtsReturns, Goto, mem, TypeOK
  <2>2. \A p \in Rank : Pos(p)' = Pos(p)
    BY <2>1 DEF Pos
  <2>3. /\ pc'[r] = "unpack" /\ iter'[r] = iter[r] /\ blk'[r] = blk[r]
        /\ \A p \in Rank \ {r} : pc'[p] = pc[p] /\ iter'[p] = iter[p] /\ blk'[p] = blk[p]
    BY <1>1, <2>1 DEF TypeOK
  <2>4. CASE q = r
    BY <1>0, <1>2, <1>5, <2>1, <2>2, <2>3, <2>4, SMT
  <2>5. CASE q # r
    BY <1>0, <1>2, <1>5, <2>1, <2>2, <2>3, <2>5, SMT
  <2> QED BY <2>4, <2>5
<1>16. CASE SendFin(r)
  <2>1. /\ pc[r] = "unpack"
        /\ pc' = [pc EXCEPT ![r] = "gather"]
        /\ iter' = iter
        /\ blk' = [blk EXCEPT ![r] = 0]
    BY <1>1, <1>2, <1>16 DEF SendFin, Goto, mem, TypeOK
  <2>2. Pos(r)' = Pos(r) + 1 /\ \A p \in Rank \ {r} : Pos(p)' = Pos(p)
    BY <1>1, <1>16, EnterPos DEF TypeOK, Collective, SendFin
  <2>3. /\ pc'[r] = "gather" /\ iter'[r] = iter[r] /\ blk'[r] = 0
        /\ \A p \in Rank \ {r} : pc'[p] = pc[p] /\ iter'[p] = iter[p] /\ blk'[p] = blk[p]
    BY <1>1, <2>1 DEF TypeOK
  <2>4. CASE q = r
    BY <1>0, <1>2, <1>5, <2>1, <2>2, <2>3, <2>4, SMT
  <2>5. CASE q # r
    BY <1>0, <1>2, <1>5, <2>1, <2>2, <2>3, <2>5, SMT
  <2> QED BY <2>4, <2>5
<1>17. CASE PassFin(r)
  <2>1. /\ pc[r] = "gather"
        /\ pc' = [pc EXCEPT ![r] = "loop"]
        /\ iter' = [iter EXCEPT ![r] = iter[r] + 1]
        /\ blk' = blk
        /\ calls' = calls
        /\ r = Sender => \A p \in Rank : Pos(p) >= Pos(r)
    BY <1>1, <1>2, <1>17, ReturnsPos DEF PassFin, FinReturns, Goto, mem, TypeOK
  <2>2. \A p \in Rank : Pos(p)' = Pos(p)
    BY <2>1 DEF Pos
  <2>3. /\ pc'[r] = "loop" /\ iter'[r] = iter[r] + 1 /\ blk'[r] = blk[r]
        /\ \A p \in Rank \ {r} : pc'[p] = pc[p] /\ iter'[p] = iter[p] /\ blk'[p] = blk[p]
    BY <1>1, <2>1 DEF TypeOK
  <2>4. CASE q = r
    BY <1>0, <1>2, <1>5, <2>1, <2>2, <2>3, <2>4, SMT
  <2>5. CASE q # r
    BY <1>0, <1>2, <1>5, <2>1, <2>2, <2>3, <2>5, SMT
  <2> QED BY <2>4, <2>5
<1>18. CASE EndLoop(r)
  <2>1. /\ pc[r] = "loop"
        /\ pc' = [pc EXCEPT ![r] = "end_barrier"]
        /\ iter' = iter
        /\ blk' = blk
        /\ iter[r] = Iters
    BY <1>1, <1>2, <1>18 DEF EndLoop, LeaveLoop, MoreRounds, Goto, mem, TypeOK
  <2>2. Pos(r)' = Pos(r) + 1 /\ \A p \in Rank \ {r} : Pos(p)' = Pos(p)
    BY <1>1, <1>18, EnterPos DEF TypeOK, Collective, EndLoop, LeaveLoop
  <2>3. /\ pc'[r] = "end_barrier" /\ iter'[r] = iter[r] /\ blk'[r] = blk[r]
        /\ \A p \in Rank \ {r} : pc'[p] = pc[p] /\ iter'[p] = iter[p] /\ blk'[p] = blk[p]
    BY <1>1, <2>1 DEF TypeOK
  <2>4. CASE q = r
    BY <1>0, <1>2, <1>5, <2>1, <2>2, <2>3, <2>4, SMT
  <2>5. CASE q # r
    BY <1>0, <1>2, <1>5, <2>1, <2>2, <2>3, <2>5, SMT
  <2> QED BY <2>4, <2>5
<1>19. CASE Finish(r)
  <2>1. /\ pc[r] = "end_barrier"
        /\ pc' = [pc EXCEPT ![r] = "done"]
        /\ iter' = iter
        /\ blk' = blk
        /\ calls' = calls
    BY <1>1, <1>2, <1>19 DEF Finish, Unmap, Goto, mem, TypeOK
  <2>2. \A p \in Rank : Pos(p)' = Pos(p)
    BY <2>1 DEF Pos
  <2>3. /\ pc'[r] = "done" /\ iter'[r] = iter[r] /\ blk'[r] = blk[r]
        /\ \A p \in Rank \ {r} : pc'[p] = pc[p] /\ iter'[p] = iter[p] /\ blk'[p] = blk[p]
    BY <1>1, <2>1 DEF TypeOK
  <2>4. CASE q = r
    BY <1>0, <1>2, <1>5, <2>1, <2>2, <2>3, <2>4, SMT
  <2>5. CASE q # r
    BY <1>0, <1>2, <1>5, <2>1, <2>2, <2>3, <2>5, SMT
  <2> QED BY <2>4, <2>5
<1> QED BY <1>4, <1>6, <1>7, <1>8, <1>9, <1>10, <1>11, <1>12, <1>13, <1>14, <1>15,
           <1>16, <1>17, <1>18, <1>19 DEF RankStep

-----------------------------------------------------------------------------
(* Data.  A step of rank r leaves the counters of the others alone, ...    *)
LEMMA OthersKeep ==
    ASSUME TypeOK, NEW r \in Rank, RankStep(r) \/ Launcher(r)
    PROVE  /\ blocksize' = blocksize
           /\ \A p \in Rank \ {r} : /\ Pos(p)' = Pos(p) /\ iter'[p] = iter[p]
                                    /\ blk'[p] = blk[p] /\ Offset(p)' = Offset(p)
<1>1. /\ blocksize' = blocksize
      /\ \/ calls' = calls
         \/ \E op \in Collective : Enter(r, op)
  BY DEF RankStep, Launcher, DivideByZero, Setup, OpenAndMap, PassStartBarrier, StartRound, BeginRound,
         PackBlock, UnpackBlock, Fault, AssertFails, SendRts, PassRts, SendFin,
         PassFin, EndLoop, LeaveLoop, Finish, Unmap, file, Collective, Kill
<1>2. iter' = iter \/ iter' = [iter EXCEPT ![r] = iter[r] + 1]
  BY DEF RankStep, Launcher, DivideByZero, Setup, OpenAndMap, PassStartBarrier, StartRound, BeginRound,
         PackBlock, UnpackBlock, Fault, AssertFails, SendRts, PassRts, SendFin,
         PassFin, EndLoop, LeaveLoop, Finish, Unmap
<1>3. blk' = blk \/ \E k : blk' = [blk EXCEPT ![r] = k]
  BY DEF RankStep, Launcher, DivideByZero, Setup, OpenAndMap, PassStartBarrier, StartRound, BeginRound,
         PackBlock, UnpackBlock, Fault, AssertFails, SendRts, PassRts, SendFin,
         PassFin, EndLoop, LeaveLoop, Finish, Unmap
<1>4. \A p \in Rank \ {r} : Pos(p)' = Pos(p)
  <2>1. CASE calls' = calls
    BY <2>1 DEF Pos
  <2>2. ASSUME NEW op \in Collective, Enter(r, op)
        PROVE  \A p \in Rank \ {r} : Pos(p)' = Pos(p)
    BY <2>2, EnterPos DEF TypeOK
  <2> QED BY <1>1, <2>1, <2>2
<1>5. \A p \in Rank \ {r} : iter'[p] = iter[p] /\ blk'[p] = blk[p]
  BY <1>2, <1>3 DEF TypeOK
<1> QED BY <1>1, <1>4, <1>5 DEF Offset

(* ... and outside the two copy loops its own counters change only where   *)
(* a collective is entered, a copy loop is complete or a round ends.       *)
LEMMA OwnCounters ==
    ASSUME IInv, NEW r \in Rank, RankStep(r) \/ Launcher(r),
           ~PackBlock(r), ~UnpackBlock(r)
    PROVE  \/ /\ iter'[r] = iter[r] /\ blk'[r] = blk[r]
              /\ \/ Pos(r)' = Pos(r)
                 \/ Setup(r) /\ Pos(r) = 0 /\ Pos(r)' = 1 /\ iter[r] = 0
                 \/ /\ StartRound(r) /\ r # Sender
                    /\ Pos(r) = 2 * iter[r] + 1 /\ Pos(r)' = 2 * iter[r] + 2
                 \/ /\ PassRts(r) /\ r = Sender
                    /\ Pos(r) = 2 * iter[r] + 2 /\ Pos(r)' = 2 * iter[r] + 3
                 \/ EndLoop(r) /\ iter[r] = Iters
           \/ /\ SendRts(r) \/ SendFin(r)
              /\ iter'[r] = iter[r] /\ blk'[r] = 0 /\ Offset(r) = BufSize
              /\ iter[r] < Iters
              /\ SendRts(r) => r = Sender /\ Pos(r)' = 2 * iter[r] + 2
              /\ SendFin(r) => r # Sender /\ Pos(r)' = 2 * iter[r] + 3
           \/ /\ PassFin(r)
              /\ iter'[r] = iter[r] + 1 /\ blk[r] = 0 /\ blk'[r] = 0
              /\ Pos(r) = 2 * iter[r] + 3 /\ Pos(r)' = Pos(r) /\ iter[r] < Iters
<1>0. /\ TypeOK /\ Position(r) /\ iter[r] \in Nat /\ Pos(r) \in Nat
      /\ Iters \in Nat /\ iter[r] <= Iters
  BY PosNat, ArgsAssumption, FileAssumption, LoopAssumption, SMT DEF IInv, Control, TypeOK, Iters
<1>1. CASE DivideByZero(r) \/ PassStartBarrier(r) \/ Fault(r) \/ AssertFails(r) \/ Finish(r)
           \/ Launcher(r)
  BY <1>1 DEF DivideByZero, PassStartBarrier, Fault, AssertFails, Finish, Unmap, Launcher, Kill, Pos
<1>2. CASE Setup(r)
  <2>1. Pos(r)' = Pos(r) + 1 /\ iter' = iter /\ blk' = blk /\ pc[r] = "setup"
    BY <1>0, <1>2, EnterPos DEF Setup, OpenAndMap, TypeOK, Collective
  <2> QED BY <1>0, <1>2, <2>1 DEF Position
<1>3. CASE StartRound(r)
  <2>1. CASE r = Sender
    BY <1>3, <2>1 DEF StartRound, BeginRound, Pos
  <2>2. CASE r # Sender
    <3>1. Pos(r)' = Pos(r) + 1 /\ iter' = iter /\ blk' = blk /\ pc[r] = "loop"
      BY <1>0, <1>3, <2>2, EnterPos DEF StartRound, BeginRound, TypeOK, Collective
    <3> QED BY <1>0, <1>3, <2>2, <3>1 DEF Position
  <2> QED BY <2>1, <2>2
<1>4. CASE SendRts(r)
  <2>1. /\ Pos(r)' = Pos(r) + 1 /\ iter' = iter /\ blk'[r] = 0 /\ pc[r] = "pack"
        /\ Offset(r) = BufSize
    BY <1>0, <1>4, EnterPos DEF SendRts, TypeOK, Collective, CopiedAll
  <2>2. ~SendFin(r)
    BY <2>1 DEF SendFin
  <2> QED BY <1>0, <1>4, <2>1, <2>2 DEF Position
<1>5. CASE SendFin(r)
  <2>1. /\ Pos(r)' = Pos(r) + 1 /\ iter' = iter /\ blk'[r] = 0 /\ pc[r] = "unpack"
        /\ Offset(r) = BufSize
    BY <1>0, <1>5, EnterPos DEF SendFin, TypeOK, Collective, CopiedAll
  <2>2. ~SendRts(r)
    BY <2>1 DEF SendRts
  <2> QED BY <1>0, <1>5, <2>1, <2>2 DEF Position
<1>6. CASE PassRts(r)
  <2>1. CASE r # Sender
    BY <1>6, <2>1 DEF PassRts, Pos
  <2>2. CASE r = Sender
    <3>1. Pos(r)' = Pos(r) + 1 /\ iter' = iter /\ blk' = blk /\ pc[r] = "bcast"
      BY <1>0, <1>6, <2>2, EnterPos DEF PassRts, TypeOK, Collective
    <3> QED BY <1>0, <1>6, <2>2, <3>1 DEF Position
  <2> QED BY <2>1, <2>2
<1>7. CASE PassFin(r)
  <2>1. /\ Pos(r)' = Pos(r) /\ iter'[r] = iter[r] + 1 /\ blk' = blk /\ pc[r] = "gather"
    BY <1>0, <1>7 DEF PassFin, TypeOK, Pos
  <2> QED BY <1>0, <1>7, <2>1 DEF Position
<1>8. CASE EndLoop(r)
  <2>1. iter[r] = Iters
    BY <1>0, <1>8 DEF EndLoop, LeaveLoop, MoreRounds
  <2> QED BY <1>8, <2>1 DEF EndLoop, LeaveLoop
<1> QED BY <1>1, <1>2, <1>3, <1>4, <1>5, <1>6, <1>7, <1>8 DEF RankStep

-----------------------------------------------------------------------------
(* The shared region, one byte at a time.                                  *)
LEMMA ShmStep ==
    ASSUME IInv, [Next]_vars
    PROVE  ShmInv'
<1> USE ArgsAssumption, FileAssumption, LoopAssumption, SenderAssumption
<1>1. TypeOK /\ Control /\ ShmInv /\ Iters \in Nat /\ blocksize \in Nat /\ BufSize \in Nat
  BY SMT DEF IInv, Iters, TypeOK
<1>2. CASE UNCHANGED vars
  BY <1>1, <1>2 DEF ShmInv, Pos, vars, Offset
<1>3. SUFFICES ASSUME NEW r \in Rank, RankStep(r) \/ Launcher(r), NEW x \in Byte
               PROVE  shm'[x] = IF \/ iter'[Sender] < Iters /\ Pos(Sender)' >= 2 * iter'[Sender] + 2
                                   \/ x < Offset(Sender)'
                                THEN iter'[Sender] + 1 ELSE iter'[Sender]
  BY <1>2 DEF Next, Terminating, ShmInv
<1>4. /\ Position(Sender) /\ Pos(Sender) \in Nat /\ iter[Sender] \in Nat
      /\ blk[Sender] \in Nat /\ Offset(Sender) \in Nat /\ x \in Nat /\ x < BufSize
      /\ shm[x] = IF \/ iter[Sender] < Iters /\ Pos(Sender) >= 2 * iter[Sender] + 2
                     \/ x < Offset(Sender)
                  THEN iter[Sender] + 1 ELSE iter[Sender]
  <2>1. /\ Position(Sender) /\ Pos(Sender) \in Nat /\ iter[Sender] \in Nat
        /\ blk[Sender] \in Nat
    BY <1>1, PosNat, SMT DEF Control, TypeOK
  <2>2. Offset(Sender) \in Nat
    BY <1>1, <2>1, MulSucc DEF Offset
  <2> QED BY <1>1, <2>1, <2>2, SMT DEF ShmInv, Byte
<1>5. CASE PackBlock(r)
  <2>1. /\ r = Sender /\ blocksize > 0 /\ pc[r] = "pack" /\ blk[r] < NBlocks
        /\ Pos(r) = 2 * iter[r] + 1
    <3>1. Position(r) /\ pc[r] = "pack" /\ blk[r] < NBlocks
      BY <1>1, <1>5 DEF Control, PackBlock
    <3> QED BY <3>1 DEF Position
  <2>2. Offset(r)' = Offset(r) + blocksize
    <3>1. blk'[r] = blk[r] + 1 /\ blocksize' = blocksize
      BY <1>1, <1>5 DEF PackBlock, TypeOK, file
    <3>2. (blk[r] + 1) * blocksize = blk[r] * blocksize + blocksize
      BY <1>1, <1>4, <2>1, MulSucc
    <3> QED BY <3>1, <3>2 DEF Offset
  <2>3. iter' = iter /\ Pos(Sender)' = Pos(Sender)
    BY <1>5 DEF PackBlock, Pos
  <2>4. shm'[x] = IF Offset(r) <= x /\ x < Offset(r) + blocksize THEN iter[r] + 1 ELSE shm[x]
    <3>1. shm'[x] = IF x \in BlockBytes(r) THEN iter[r] + 1 ELSE shm[x]
      BY <1>5 DEF PackBlock
    <3>2. x \in BlockBytes(r) <=> Offset(r) <= x /\ x < Offset(r) + blocksize
      BY <1>1, <1>4, <2>1, SMT DEF BlockBytes
    <3> QED BY <3>1, <3>2
  <2> QED BY <1>1, <1>4, <2>1, <2>2, <2>3, <2>4, SMT
<1>6. ASSUME ~PackBlock(r)
      PROVE  shm' = shm
  BY <1>3, <1>6 DEF RankStep, Launcher, DivideByZero, Setup, OpenAndMap, PassStartBarrier, StartRound, BeginRound,
          UnpackBlock, Fault, AssertFails, SendRts, PassRts, SendFin,
          PassFin, EndLoop, LeaveLoop, Finish, Unmap, mem
<1>7. CASE r # Sender /\ ~PackBlock(r)
  BY <1>1, <1>3, <1>4, <1>6, <1>7, OthersKeep
<1>8. CASE r = Sender /\ ~PackBlock(r)
  <2>1. ~UnpackBlock(r) /\ ~SendFin(r)
    BY <1>4, <1>8 DEF UnpackBlock, SendFin, Position
  <2>2. blocksize' = blocksize
    BY <1>1, <1>3, OthersKeep
  <2>3. /\ blk'[r] = blk[r] => Offset(r)' = Offset(r)
        /\ blk'[r] = 0 => Offset(r)' = 0
        /\ blk[r] = 0 => Offset(r) = 0
    BY <1>1, <2>2, MulZero DEF Offset
  <2>4. EndLoop(r) => Offset(r) = 0
    BY <1>4, <1>8, <2>3 DEF EndLoop, LeaveLoop, Position
  <2>5. IF SendRts(r) THEN Pos(r) = 2 * iter[r] + 1 ELSE TRUE
    BY <1>4, <1>8 DEF SendRts, Position
  <2> HIDE DEF Position
  <2>6. \/ /\ iter'[r] = iter[r] /\ blk'[r] = blk[r]
           /\ \/ Pos(r)' = Pos(r)
              \/ Pos(r) = 0 /\ Pos(r)' = 1 /\ iter[r] = 0
              \/ Pos(r) = 2 * iter[r] + 2 /\ Pos(r)' = 2 * iter[r] + 3
              \/ EndLoop(r) /\ iter[r] = Iters
        \/ /\ iter'[r] = iter[r] /\ blk'[r] = 0 /\ Offset(r) = BufSize
           /\ iter[r] < Iters /\ Pos(r)' = 2 * iter[r] + 2
        \/ /\ iter'[r] = iter[r] + 1 /\ blk[r] = 0 /\ blk'[r] = 0
           /\ Pos(r) = 2 * iter[r] + 3 /\ Pos(r)' = Pos(r) /\ iter[r] < Iters
    BY <1>3, <1>8, <2>1, OwnCounters
  <2> QED BY <1>1, <1>4, <1>6, <1>8, <2>3, <2>4, <2>6, SMT
<1> QED BY <1>5, <1>7, <1>8

(* A receiver's buffer, one byte at a time.  A block is copied only when   *)
(* the shared region holds the receiver's own round.                       *)
LEMMA UnpackReadsRound ==
    ASSUME IInv, NEW r \in Rank, pc[r] = "unpack", NEW x \in Byte
    PROVE  r \in Receiver /\ iter[r] = iter[Sender] /\ shm[x] = iter[r] + 1
<1>1. /\ r # Sender /\ iter[r] < Iters /\ Pos(r) = 2 * iter[r] + 2
      /\ Pos(Sender) >= 2 * iter[r] + 2
  BY DEF IInv, Control, Position
<1>2. /\ Lag(r) /\ Pos(Sender) <= 2 * iter[Sender] + 3
  BY SenderAssumption DEF IInv, Control, Bounds
<1>3. iter[r] \in Nat /\ iter[Sender] \in Nat /\ Pos(r) \in Nat /\ Pos(Sender) \in Nat
  BY SenderAssumption, PosNat, SMT DEF IInv, TypeOK
<1>4. iter[r] = iter[Sender]
  BY <1>1, <1>2, <1>3, SMT DEF Lag
<1> QED BY <1>1, <1>4 DEF IInv, ShmInv, Receiver

(* Every step keeps the receivers' buffers in their rounds.                *)
LEMMA LbufStep ==
    ASSUME IInv, [Next]_vars
    PROVE  LbufInv'
<1> USE ArgsAssumption, FileAssumption, LoopAssumption, SenderAssumption
<1>1. TypeOK /\ Control /\ LbufInv /\ Iters \in Nat /\ blocksize \in Nat /\ BufSize \in Nat
  BY SMT DEF IInv, Iters, TypeOK
<1>2. CASE UNCHANGED vars
  BY <1>1, <1>2 DEF LbufInv, Pos, vars, Offset
<1>3. SUFFICES ASSUME NEW r \in Rank, RankStep(r) \/ Launcher(r),
                      NEW q \in Receiver, NEW x \in Byte
               PROVE  lbuf'[q][x] = IF \/ iter'[q] < Iters /\ Pos(q)' >= 2 * iter'[q] + 3
                                       \/ x < Offset(q)'
                                    THEN iter'[q] + 1 ELSE iter'[q]
  BY <1>2 DEF Next, Terminating, LbufInv
<1>4. /\ q \in Rank /\ q # Sender
      /\ Position(q) /\ Pos(q) \in Nat /\ iter[q] \in Nat
      /\ blk[q] \in Nat /\ Offset(q) \in Nat /\ x \in Nat /\ x < BufSize
      /\ lbuf[q][x] = IF \/ iter[q] < Iters /\ Pos(q) >= 2 * iter[q] + 3
                         \/ x < Offset(q)
                      THEN iter[q] + 1 ELSE iter[q]
  <2>1. q \in Rank /\ q # Sender
    BY DEF Receiver
  <2>2. /\ Position(q) /\ Pos(q) \in Nat /\ iter[q] \in Nat
        /\ blk[q] \in Nat
    BY <1>1, <2>1, PosNat, SMT DEF Control, TypeOK
  <2>3. Offset(q) \in Nat
    BY <1>1, <2>2, MulSucc DEF Offset
  <2> QED BY <1>1, <2>1, <2>2, <2>3, SMT DEF LbufInv, Byte
<1>5. CASE UnpackBlock(r) /\ r = q
  <2>1. /\ blocksize > 0 /\ pc[r] = "unpack" /\ blk[r] < NBlocks
        /\ iter[r] < Iters /\ Pos(r) = 2 * iter[r] + 2
    <3>1. pc[r] = "unpack" /\ blk[r] < NBlocks
      BY <1>5 DEF UnpackBlock
    <3> QED BY <1>4, <1>5, <3>1 DEF Position
  <2>2. Offset(r)' = Offset(r) + blocksize
    <3>1. blk'[r] = blk[r] + 1 /\ blocksize' = blocksize
      BY <1>1, <1>5 DEF UnpackBlock, TypeOK, file
    <3>2. (blk[r] + 1) * blocksize = blk[r] * blocksize + blocksize
      BY <1>1, <1>4, <1>5, MulSucc
    <3> QED BY <3>1, <3>2 DEF Offset
  <2>3. iter' = iter /\ Pos(r)' = Pos(r)
    BY <1>5 DEF UnpackBlock, Pos
  <2>4. lbuf'[r][x] = IF Offset(r) <= x /\ x < Offset(r) + blocksize
                      THEN iter[r] + 1 ELSE lbuf[r][x]
    <3>1. lbuf'[r][x] = IF x \in BlockBytes(r) THEN shm[x] ELSE lbuf[r][x]
      BY <1>1, <1>5 DEF UnpackBlock, TypeOK
    <3>2. x \in BlockBytes(r) <=> Offset(r) <= x /\ x < Offset(r) + blocksize
      BY <1>1, <1>4, <1>5, <2>1, SMT DEF BlockBytes
    <3>3. shm[x] = iter[r] + 1
      BY <2>1, UnpackReadsRound
    <3> QED BY <3>1, <3>2, <3>3
  <2> QED BY <1>1, <1>4, <1>5, <2>1, <2>2, <2>3, <2>4, SMT
<1>6. ASSUME ~UnpackBlock(r) \/ r # q
      PROVE  lbuf'[q] = lbuf[q]
  <2>1. CASE ~UnpackBlock(r)
    BY <1>3, <2>1 DEF RankStep, Launcher, DivideByZero, Setup, OpenAndMap, PassStartBarrier, StartRound, BeginRound,
          PackBlock, Fault, AssertFails, SendRts, PassRts, SendFin,
          PassFin, EndLoop, LeaveLoop, Finish, Unmap, mem
  <2>2. CASE UnpackBlock(r) /\ r # q
    BY <1>1, <2>2 DEF UnpackBlock, TypeOK
  <2> QED BY <1>6, <2>1, <2>2
<1>7. CASE r # q
  BY <1>1, <1>3, <1>4, <1>6, <1>7, OthersKeep
<1>8. CASE r = q /\ ~UnpackBlock(r)
  <2>1. ~PackBlock(r) /\ ~SendRts(r)
    BY <1>4, <1>8 DEF PackBlock, SendRts, Position
  <2>2. blocksize' = blocksize
    BY <1>1, <1>3, OthersKeep
  <2>3. /\ blk'[r] = blk[r] => Offset(r)' = Offset(r)
        /\ blk'[r] = 0 => Offset(r)' = 0
        /\ blk[r] = 0 => Offset(r) = 0
    BY <1>1, <2>2, MulZero DEF Offset
  <2>4. EndLoop(r) => Offset(r) = 0
    BY <1>4, <1>8, <2>3 DEF EndLoop, LeaveLoop, Position
  <2>5. \/ /\ iter'[r] = iter[r] /\ blk'[r] = blk[r]
           /\ \/ Pos(r)' = Pos(r)
              \/ Pos(r) = 0 /\ Pos(r)' = 1 /\ iter[r] = 0
              \/ Pos(r) = 2 * iter[r] + 1 /\ Pos(r)' = 2 * iter[r] + 2
              \/ EndLoop(r) /\ iter[r] = Iters
        \/ /\ iter'[r] = iter[r] /\ blk'[r] = 0 /\ Offset(r) = BufSize
           /\ iter[r] < Iters /\ Pos(r)' = 2 * iter[r] + 3
        \/ /\ iter'[r] = iter[r] + 1 /\ blk[r] = 0 /\ blk'[r] = 0
           /\ Pos(r) = 2 * iter[r] + 3 /\ Pos(r)' = Pos(r) /\ iter[r] < Iters
    BY <1>3, <1>4, <1>8, <2>1, OwnCounters
  <2> QED BY <1>1, <1>4, <1>6, <1>8, <2>3, <2>4, <2>5, SMT
<1> QED BY <1>5, <1>7, <1>8

-----------------------------------------------------------------------------
(* The inductive invariant.                                                *)
THEOREM Inductive == Spec => []IInv
<1>1. Init => IInv
  BY InitIInv
<1>2. IInv /\ [Next]_vars => IInv'
  BY TypeStep, ControlStep, ShmStep, LbufStep DEF IInv
<1> QED BY <1>1, <1>2, PTL DEF Spec

(* Every variable keeps its type, and no copy loop of any rank leaves the  *)
(* buffers, whatever the block size.                                       *)
THEOREM TypeCorrect == Spec => []TypeOK
<1>1. IInv => TypeOK
  BY DEF IInv
<1> QED BY <1>1, Inductive, PTL

(* The sender never packs while a receiver unpacks.                        *)
THEOREM NoOverlapHolds == Spec => []NoOverlap
<1>1. IInv => NoOverlap
  <2> SUFFICES ASSUME IInv, pc[Sender] = "pack", NEW r \in Receiver, pc[r] = "unpack"
               PROVE  FALSE
    BY DEF NoOverlap
  <2>1. Pos(Sender) = 2 * iter[Sender] + 1
    BY SenderAssumption DEF IInv, Control, Position
  <2>2. Pos(Sender) >= 2 * iter[r] + 2 /\ iter[r] \in Nat
    BY SMT DEF IInv, Control, Position, Receiver, TypeOK
  <2>3. iter[r] = iter[Sender]
    <3>1. 0 \in Byte
      BY ArgsAssumption, FileAssumption, LoopAssumption, SMT DEF Byte
    <3> QED BY <3>1, UnpackReadsRound DEF Receiver
  <2> QED BY <2>1, <2>2, <2>3, SMT
<1> QED BY <1>1, Inductive, PTL

(* A receiver's partial copy consists of the current round's bytes only.   *)
THEOREM FreshRoundsHold == Spec => []FreshRounds
<1>1. IInv => FreshRounds
  BY DEF IInv, LbufInv, FreshRounds
<1> QED BY <1>1, Inductive, PTL

(* How the buffer of a receiver relates to the sender's position.          *)
LEMMA HeldRounds ==
    ASSUME IInv, NEW r \in Receiver, NEW x \in Byte
    PROVE  /\ lbuf[r][x] >= iter[Sender]
           /\ Pos(Sender) = 2 * iter[Sender] + 1 => lbuf[r][x] = iter[Sender]
<1>1. r \in Rank /\ r # Sender
  BY DEF Receiver
<1>2. /\ iter[r] \in Nat /\ iter[Sender] \in Nat /\ Pos(r) \in Nat /\ Pos(Sender) \in Nat
      /\ blk[r] \in Nat /\ Iters \in Nat /\ iter[r] <= Iters /\ iter[Sender] <= Iters
      /\ blocksize \in Nat /\ x \in Nat
  BY <1>1, SenderAssumption, ArgsAssumption, FileAssumption, LoopAssumption, PosNat, SMT DEF IInv, TypeOK, Iters, Byte
<1>3. Bounds(r) /\ Lag(r) /\ Ahead(r)
  BY <1>1 DEF IInv, Control
<1>4. blk[r] = 0 => ~(x < Offset(r))
  BY <1>2, MulZero, SMT DEF Offset
<1>5. lbuf[r][x] = IF \/ iter[r] < Iters /\ Pos(r) >= 2 * iter[r] + 3
                      \/ x < Offset(r)
                   THEN iter[r] + 1 ELSE iter[r]
  BY DEF IInv, LbufInv
<1> QED BY <1>1, <1>2, <1>3, <1>4, <1>5, SMT DEF Bounds, Lag, Ahead

(* When the sender's Gather has returned everyone has the round.           *)
THEOREM FinMeansCopiedHolds == Spec => []FinMeansCopied
<1>1. IInv => FinMeansCopied
  <2> SUFFICES ASSUME IInv, NEW r \in Receiver, NEW x \in Byte
               PROVE  /\ lbuf[r][x] >= iter[Sender]
                      /\ pc[r] = "done" => lbuf[r][x] = Iters
    BY DEF FinMeansCopied
  <2>1. pc[r] = "done" => iter[r] = Iters /\ Offset(r) = 0
    BY ArgsAssumption, FileAssumption, LoopAssumption, MulZero, SMT DEF IInv, Control, Position, Receiver, Offset, TypeOK
  <2>2. x \in Nat /\ Iters \in Nat
    BY ArgsAssumption, FileAssumption, LoopAssumption, SMT DEF Byte, Iters
  <2>3. pc[r] = "done" => lbuf[r][x] = Iters
    BY <2>1, <2>2, SMT DEF IInv, LbufInv
  <2> QED BY <2>3, HeldRounds
<1> QED BY <1>1, Inductive, PTL

(* The timed interval holds exactly the NumIter timed rounds.              *)
THEOREM TimedRoundsHold == Spec => TimedRounds
<1>1. IInv /\ [Next]_vars =>
        [clock' # clock =>
           \A r \in Receiver : \A x \in Byte :
             lbuf[r][x] = IF clock' = "running" THEN SkipIter ELSE Iters]_vars
  <2> SUFFICES ASSUME IInv, NEW s \in Rank, RankStep(s) \/ Launcher(s), clock' # clock,
                      NEW r \in Receiver, NEW x \in Byte
               PROVE  lbuf[r][x] = IF clock' = "running" THEN SkipIter ELSE Iters
    BY DEF Next, Terminating, vars
  <2>1. \/ StartRound(s) /\ s = Sender /\ iter[s] = SkipIter /\ clock' = "running"
        \/ EndLoop(s) /\ s = Sender /\ clock' = "stopped"
    BY DEF RankStep, Launcher, DivideByZero, Setup, OpenAndMap, PassStartBarrier, StartRound, BeginRound,
           PackBlock, UnpackBlock, Fault, AssertFails, SendRts, PassRts, SendFin,
           PassFin, EndLoop, LeaveLoop, Finish, Unmap, StartsClock
  <2>2. s = Sender /\ pc[Sender] = "loop"
    BY <2>1 DEF StartRound, BeginRound, EndLoop, LeaveLoop
  <2>3. Pos(Sender) = 2 * iter[Sender] + 1
    BY <2>2, SenderAssumption DEF IInv, Control, Position
  <2>4. lbuf[r][x] = iter[Sender]
    BY <2>3, HeldRounds
  <2>5. EndLoop(s) => iter[s] = Iters
    <3>1. iter[s] \in 0 .. Iters /\ Iters \in Nat
      BY ArgsAssumption, FileAssumption, LoopAssumption, SMT DEF IInv, TypeOK, Iters
    <3> QED BY <3>1, SMT DEF EndLoop, LeaveLoop, MoreRounds
  <2> QED BY <2>1, <2>4, <2>5
<1> QED BY <1>1, Inductive, PTL DEF TimedRounds, Spec

-----------------------------------------------------------------------------
(* The refinement of Transfer.  The rounds announced are a function of the *)
(* sender's position, and its clock has stopped only behind the last one.  *)
AnnouncedInv ==
    Announced = IF iter[Sender] < Iters /\ Pos(Sender) >= 2 * iter[Sender] + 2
                THEN iter[Sender] + 1 ELSE iter[Sender]
ClockInv == clock = "stopped" => iter[Sender] = Iters

RInv == IInv /\ AnnouncedInv /\ ClockInv

(* Only an RTS of the sender is announced.                                 *)
LEMMA EnterAnnounces ==
    ASSUME TypeOK, NEW op \in Collective, Enter(Sender, op)
    PROVE  Announced' = IF op = "bcast" THEN Announced + 1 ELSE Announced
<1>1. calls[Sender] \in Seq(Collective) /\ calls'[Sender] = Append(calls[Sender], op)
  BY SenderAssumption DEF TypeOK, Enter
<1>2. Len(calls[Sender]) \in Nat /\ 1 <= Len(calls[Sender]) + 1
  BY <1>1, SMT
<1>3. /\ Announced = Cardinality(Calls(1, calls[Sender], "bcast"))
      /\ Announced' = Cardinality(Calls(1, calls'[Sender], "bcast"))
  BY DEF Announced, Calls
<1>4. /\ Announced \in Nat
      /\ Announced' = Announced + (IF op = "bcast" THEN 1 ELSE 0)
  BY <1>1, <1>2, <1>3, AppendCounts
<1> QED BY <1>4, SMT

(* The sender's history and loop counter, step by step.                    *)
LEMMA AnnouncedStep ==
    ASSUME IInv, AnnouncedInv, ClockInv, [Next]_vars
    PROVE  AnnouncedInv' /\ ClockInv'
<1> USE SenderAssumption
<1>1. /\ TypeOK /\ Position(Sender) /\ iter[Sender] \in Nat /\ Pos(Sender) \in Nat
      /\ Iters \in Nat /\ iter[Sender] <= Iters
  BY PosNat, ArgsAssumption, LoopAssumption, SMT DEF IInv, Control, TypeOK, Iters
<1>2. CASE UNCHANGED vars
  BY <1>2 DEF vars, AnnouncedInv, ClockInv, Announced, Pos
<1>3. SUFFICES ASSUME NEW r \in Rank, RankStep(r) \/ Launcher(r)
               PROVE  AnnouncedInv' /\ ClockInv'
  BY <1>2 DEF Next, Terminating
<1>4. CASE r # Sender
  <2>1. iter'[Sender] = iter[Sender] /\ Pos(Sender)' = Pos(Sender) /\ clock' = clock
    <3>1. clock' = clock
      BY <1>3, <1>4 DEF RankStep, Launcher, DivideByZero, Setup, PassStartBarrier, StartRound,
         BeginRound, PackBlock, UnpackBlock, Fault, AssertFails, SendRts, PassRts, SendFin,
         PassFin, EndLoop, LeaveLoop, Finish
    <3> QED BY <1>1, <1>3, <1>4, <3>1, OthersKeep
  <2>2. calls'[Sender] = calls[Sender]
    BY <1>1, <1>3, <1>4 DEF RankStep, Launcher, Kill, DivideByZero, Setup, OpenAndMap, PassStartBarrier, StartRound,
         PackBlock, UnpackBlock, Fault, AssertFails, SendRts, PassRts, SendFin,
         PassFin, EndLoop, Finish, Enter, TypeOK
  <2> QED BY <2>1, <2>2 DEF AnnouncedInv, ClockInv, Announced
<1>5. CASE r = Sender
  <2>1. CASE UNCHANGED <<calls, iter, clock>>
    BY <2>1 DEF AnnouncedInv, ClockInv, Announced, Pos
  <2>2. CASE Setup(r)
    <3>1. Pos(r)' = Pos(r) + 1 /\ Announced' = Announced /\ iter' = iter /\ clock' = clock
      BY <1>1, <1>5, <2>2, EnterPos, EnterAnnounces DEF Setup, TypeOK, Collective, OpenAndMap
    <3> QED BY <1>1, <1>5, <2>2, <3>1 DEF Position, Setup, AnnouncedInv, ClockInv
  <2>3. CASE StartRound(r)
    <3>1. /\ calls' = calls /\ iter' = iter /\ iter[r] < Iters
          /\ clock' = clock \/ clock' = "running"
      BY <1>5, <2>3 DEF StartRound, BeginRound, MoreRounds
    <3> QED BY <3>1 DEF AnnouncedInv, ClockInv, Announced, Pos
  <2>4. CASE SendRts(r)
    <3>1. /\ Pos(r)' = Pos(r) + 1 /\ Announced' = Announced + 1 /\ iter' = iter /\ clock' = clock
      BY <1>1, <1>5, <2>4, EnterPos, EnterAnnounces DEF SendRts, TypeOK, Collective
    <3> QED BY <1>1, <1>5, <2>4, <3>1, SMT DEF Position, SendRts, AnnouncedInv, ClockInv
  <2>5. CASE PassRts(r)
    <3>1. Pos(r)' = Pos(r) + 1 /\ Announced' = Announced /\ iter' = iter /\ clock' = clock
      BY <1>1, <1>5, <2>5, EnterPos, EnterAnnounces DEF PassRts, TypeOK, Collective
    <3> QED BY <1>1, <1>5, <2>5, <3>1, SMT DEF Position, PassRts, AnnouncedInv, ClockInv
  <2>6. CASE PassFin(r)
    <3>1. /\ Pos(r)' = Pos(r) /\ Announced' = Announced /\ iter'[r] = iter[r] + 1
          /\ clock' = clock
      BY <1>1, <1>5, <2>6 DEF PassFin, TypeOK, Pos, Announced
    <3> QED BY <1>1, <1>5, <2>6, <3>1, SMT DEF Position, PassFin, AnnouncedInv, ClockInv
  <2>7. CASE EndLoop(r)
    <3>1. /\ Pos(r)' = Pos(r) + 1 /\ Announced' = Announced /\ iter' = iter /\ iter[r] = Iters
      BY <1>1, <1>5, <2>7, EnterPos, EnterAnnounces
         DEF EndLoop, LeaveLoop, MoreRounds, TypeOK, Collective
    <3> QED BY <1>1, <1>5, <3>1, SMT DEF AnnouncedInv, ClockInv
  <2>8. ~SendFin(r) /\ ~UnpackBlock(r)
    BY <1>1, <1>5 DEF Position, SendFin, UnpackBlock
  <2> QED BY <1>3, <2>1, <2>2, <2>3, <2>4, <2>5, <2>6, <2>7, <2>8
          DEF RankStep, Launcher, Kill, DivideByZero, PassStartBarrier, PackBlock, Fault, AssertFails, Finish
<1> QED BY <1>4, <1>5

(* The oldest round in a buffer, from any lower bound it reaches.          *)
LEMMA OldestIs ==
    ASSUME NEW buf, NEW v \in 0 .. Iters, \A x \in Byte : buf[x] \in Nat /\ buf[x] >= v,
           NEW y \in Byte, buf[y] = v
    PROVE  Oldest(buf) = v
<1> DEFINE P(w) == (\E x \in Byte : buf[x] = w) /\ (\A x \in Byte : buf[x] >= w)
<1>1. P(v)
  OBVIOUS
<1>2. \A w \in 0 .. Iters : P(w) => w = v
  BY LoopAssumption, SMT DEF Iters
<1>3. Oldest(buf) = CHOOSE w \in 0 .. Iters : P(w)
  BY DEF Oldest
<1> HIDE DEF P
<1> QED BY <1>1, <1>2, <1>3

(* What a receiver holds: the round it is in once it has copied all of it. *)
HeldInv ==
    \A r \in Receiver :
        /\ Oldest(lbuf[r]) =
              IF \/ iter[r] < Iters /\ Pos(r) >= 2 * iter[r] + 3
                 \/ Offset(r) = BufSize
              THEN iter[r] + 1 ELSE iter[r]
        /\ Oldest(lbuf[r]) \in 0 .. Iters

(* A receiver holds its round from its last block on.                      *)
LEMMA HeldIs == IInv => HeldInv
<1> SUFFICES ASSUME IInv, NEW r \in Receiver
             PROVE  /\ Oldest(lbuf[r]) =
                          IF \/ iter[r] < Iters /\ Pos(r) >= 2 * iter[r] + 3
                             \/ Offset(r) = BufSize
                          THEN iter[r] + 1 ELSE iter[r]
                    /\ Oldest(lbuf[r]) \in 0 .. Iters
  BY DEF HeldInv
<1>1. /\ r \in Rank /\ BufSize \in Nat \ {0} /\ Iters \in Nat /\ iter[r] \in 0 .. Iters
      /\ blk[r] \in Nat /\ blocksize \in Nat /\ Offset(r) \in Nat /\ Offset(r) <= BufSize
  <2>1. blk[r] \in Nat /\ blocksize \in Nat
    BY ArgsAssumption, SMT DEF IInv, TypeOK, Receiver
  <2>2. Offset(r) \in Nat
    BY <2>1, MulSucc DEF Offset
  <2> QED BY <2>1, <2>2, ArgsAssumption, LoopAssumption, SMT DEF IInv, TypeOK, Receiver, Iters
<1>2. \A x \in Byte : lbuf[r][x] = IF \/ iter[r] < Iters /\ Pos(r) >= 2 * iter[r] + 3
                                      \/ x < Offset(r)
                                   THEN iter[r] + 1 ELSE iter[r]
  BY DEF IInv, LbufInv
<1>3. 0 \in Byte /\ BufSize - 1 \in Byte
  BY <1>1, SMT DEF Byte
<1>4. Offset(r) = BufSize => iter[r] < Iters
  <2>1. blk[r] = 0 => Offset(r) = 0
    BY <1>1, MulZero DEF Offset
  <2> QED BY <1>1, <2>1, SMT DEF IInv, Control, Bounds
<1>5. CASE (iter[r] < Iters /\ Pos(r) >= 2 * iter[r] + 3) \/ Offset(r) = BufSize
  <2>1. \A x \in Byte : lbuf[r][x] = iter[r] + 1
    BY <1>1, <1>2, <1>5, SMT DEF Byte
  <2>2. iter[r] + 1 \in 0 .. Iters
    BY <1>1, <1>4, <1>5, SMT
  <2>3. Oldest(lbuf[r]) = iter[r] + 1
    <3>1. \A x \in Byte : lbuf[r][x] \in Nat /\ lbuf[r][x] >= iter[r] + 1
      BY <2>1, <2>2, SMT
    <3> QED BY <1>3, <2>1, <2>2, <3>1, OldestIs
  <2> QED BY <1>5, <2>2, <2>3
<1>6. CASE ~((iter[r] < Iters /\ Pos(r) >= 2 * iter[r] + 3) \/ Offset(r) = BufSize)
  <2>1. \A x \in Byte : lbuf[r][x] \in Nat /\ lbuf[r][x] >= iter[r]
    BY <1>1, <1>2, SMT
  <2>2. ~(BufSize - 1 < Offset(r))
    BY <1>1, <1>6, SMT
  <2>3. lbuf[r][BufSize - 1] = iter[r]
    BY <1>2, <1>3, <1>6, <2>2
  <2>4. Oldest(lbuf[r]) = iter[r]
    BY <1>1, <1>3, <2>1, <2>3, OldestIs
  <2> QED BY <1>1, <1>6, <2>4
<1> QED BY <1>5, <1>6

(* Each step is a step of Transfer or leaves all three of its variables    *)
(* alone: the RTS of the sender publishes, the last block a receiver copies*)
(* takes, and the sender reports when it leaves the loop.                  *)
Held == [r \in Receiver |-> Oldest(lbuf[r])]
tvars == <<Announced, [r \in Receiver |-> Oldest(lbuf[r])], clock = "stopped">>

(* Each step of shmem_dt is a step of Transfer or leaves its variables alone. *)
LEMMA StepSimulates ==
    ASSUME RInv, HeldInv, HeldInv', [Next]_vars
    PROVE  Abstract!Next \/ UNCHANGED tvars
<1> USE SenderAssumption
<1>1. /\ IInv /\ TypeOK /\ Position(Sender) /\ iter[Sender] \in Nat /\ Pos(Sender) \in Nat
      /\ Iters \in Nat /\ iter[Sender] <= Iters
  BY PosNat, ArgsAssumption, LoopAssumption, SMT DEF RInv, IInv, Control, TypeOK, Iters
<1>2. CASE UNCHANGED vars
  BY <1>2 DEF vars, tvars, Announced
<1>3. SUFFICES ASSUME NEW r \in Rank, RankStep(r) \/ Launcher(r)
               PROVE  Abstract!Next \/ UNCHANGED tvars
  BY <1>2 DEF Next, Terminating
(* When the sender has nothing announced beyond its loop counter everybody *)
(* holds exactly the rounds it counts.                                     *)
<1>4. ASSUME Pos(Sender) = 2 * iter[Sender] + 1, NEW q \in Receiver
      PROVE  Oldest(lbuf[q]) = iter[Sender]
  <2>1. \A x \in Byte : lbuf[q][x] = iter[Sender]
    BY <1>1, <1>4, HeldRounds
  <2>2. 0 \in Byte /\ iter[Sender] \in 0 .. Iters
    BY <1>1, ArgsAssumption, SMT DEF Byte
  <2>3. \A x \in Byte : lbuf[q][x] \in Nat /\ lbuf[q][x] >= iter[Sender]
    BY <1>1, <2>1, SMT
  <2> QED BY <2>1, <2>2, <2>3, OldestIs
<1>5. CASE SendRts(r)
  <2>1. r = Sender /\ pc[r] = "pack" /\ UNCHANGED <<lbuf, clock>> /\ Enter(r, "bcast")
    <3>1. Position(r) /\ pc[r] = "pack"
      BY <1>1, <1>5 DEF SendRts, IInv, Control
    <3> QED BY <1>5, <3>1 DEF SendRts, Position, mem
  <2>2. Pos(Sender) = 2 * iter[Sender] + 1 /\ iter[Sender] < Iters
    BY <1>1, <2>1 DEF Position
  <2>3. Announced = iter[Sender]
    BY <1>1, <2>2, SMT DEF RInv, AnnouncedInv
  <2>4. Announced' = Announced + 1
    BY <1>1, <2>1, EnterAnnounces DEF Collective
  <2>5. Abstract!Publish
    BY <1>4, <2>1, <2>2, <2>3, <2>4 DEF Abstract!Publish
  <2> QED BY <2>5 DEF Abstract!Next
<1>6. CASE UnpackBlock(r)
  <2>1. /\ r \in Receiver /\ UNCHANGED <<calls, iter, clock>>
        /\ lbuf' = [lbuf EXCEPT ![r] = lbuf'[r]]
        /\ iter[r] = iter[Sender] /\ Pos(Sender) >= 2 * iter[r] + 2
        /\ iter[r] < Iters /\ Pos(r) = 2 * iter[r] + 2
    <3>1. pc[r] = "unpack" /\ Position(r) /\ 0 \in Byte
      BY <1>1, <1>6, ArgsAssumption, SMT DEF UnpackBlock, IInv, Control, Byte
    <3>2. r \in Receiver /\ iter[r] = iter[Sender]
      BY <1>1, <3>1, UnpackReadsRound
    <3>3. lbuf' = [lbuf EXCEPT ![r] = lbuf'[r]]
      BY <1>1, <1>6, <3>2 DEF UnpackBlock, TypeOK
    <3> QED BY <1>6, <3>1, <3>2, <3>3 DEF UnpackBlock, Position
  <2>2. Announced = iter[r] + 1 /\ Announced' = Announced
    BY <1>1, <2>1, SMT DEF RInv, AnnouncedInv, Announced
  <2>3. \A q \in Receiver \ {r} : lbuf'[q] = lbuf[q]
    BY <1>1, <2>1 DEF TypeOK
  <2>4. Oldest(lbuf[r])' = Oldest(lbuf'[r])
    BY DEF Oldest, Byte
  <2>5. Oldest(lbuf'[r]) \in {iter[r], iter[r] + 1}
    <3>1. \/ Oldest(lbuf[r])' = iter'[r] + 1
          \/ Oldest(lbuf[r])' = iter'[r]
      BY <2>1 DEF HeldInv
    <3> QED BY <2>1, <2>4, <3>1
  <2>6. Oldest(lbuf[r]) \in {iter[r], iter[r] + 1}
    BY <2>1 DEF HeldInv
  <2>7. iter[r] \in Nat
    BY <1>1, SMT DEF TypeOK
  <2>8. CASE Oldest(lbuf'[r]) = Oldest(lbuf[r])
    BY <2>1, <2>2, <2>3, <2>8 DEF tvars
  <2>9. CASE Oldest(lbuf[r]) = iter[r] /\ Oldest(lbuf'[r]) = iter[r] + 1
    <3>1. Held' = [Held EXCEPT ![r] = Announced]
      BY <2>1, <2>2, <2>3, <2>9 DEF Held
    <3>2. Held[r] < Announced
      BY <2>1, <2>2, <2>7, <2>9, SMT DEF Held
    <3>3. Abstract!Take(r)
      BY <2>1, <2>2, <3>1, <3>2 DEF Abstract!Take, Held
    <3> QED BY <2>1, <3>3 DEF Abstract!Next
  <2>10. CASE Oldest(lbuf[r]) = iter[r] + 1 /\ Oldest(lbuf'[r]) = iter[r]
    <3>1. Offset(r) = BufSize
      BY <2>1, <2>7, <2>10, SMT DEF HeldInv
    <3>2. blk[r] < NBlocks /\ blocksize > 0
      <4>1. Position(r) /\ pc[r] = "unpack"
        BY <1>1, <1>6 DEF UnpackBlock, IInv, Control
      <4> QED BY <1>6, <4>1 DEF UnpackBlock, Position
    <3>3. Offset(r) + blocksize <= BufSize
      BY <1>1, <3>2, NBlocksFit, SMT
    <3>4. blocksize \in Nat /\ BufSize \in Nat
      BY <1>1, ArgsAssumption, SMT DEF TypeOK
    <3> QED BY <3>1, <3>2, <3>3, <3>4, SMT
  <2> QED BY <2>5, <2>6, <2>8, <2>9, <2>10
<1>7. CASE EndLoop(r) /\ r = Sender
  <2>1. /\ pc[r] = "loop" /\ UNCHANGED lbuf /\ Enter(r, "barrier")
        /\ iter[r] = Iters /\ clock' = "stopped"
    BY <1>1, <1>7, SMT DEF EndLoop, LeaveLoop, MoreRounds, mem
  <2>2. Pos(Sender) = 2 * iter[Sender] + 1
    BY <1>1, <1>7, <2>1 DEF Position
  <2>3. Announced = Iters /\ Announced' = Announced
    BY <1>1, <1>7, <2>1, EnterAnnounces DEF RInv, AnnouncedInv, Collective
  <2>4. Abstract!Report
    BY <1>4, <1>7, <2>1, <2>2, <2>3 DEF Abstract!Report
  <2> QED BY <2>4 DEF Abstract!Next
<1>8. CASE StartRound(r) /\ r = Sender
  <2>1. UNCHANGED <<lbuf, calls>> /\ iter[r] < Iters /\ clock' \in {clock, "running"}
    BY <1>8 DEF StartRound, BeginRound, MoreRounds, mem
  <2>2. clock # "stopped"
    BY <1>1, <1>8, <2>1 DEF RInv, ClockInv
  <2> QED BY <2>1, <2>2 DEF tvars, Announced
<1>9. CASE (Setup(r) \/ PassRts(r)) /\ r = Sender
  <2>1. UNCHANGED <<lbuf, clock>> /\ (Enter(r, "barrier") \/ Enter(r, "gather"))
    BY <1>9 DEF Setup, PassRts, mem
  <2>2. Announced' = Announced
    BY <1>1, <1>9, <2>1, EnterAnnounces DEF Collective
  <2> QED BY <2>1, <2>2 DEF tvars
<1>10. CASE r # Sender /\ ~UnpackBlock(r) /\ ~SendRts(r)
  <2>1. UNCHANGED <<lbuf, clock>> /\ calls'[Sender] = calls[Sender]
    BY <1>1, <1>3, <1>10 DEF RankStep, Launcher, Kill, DivideByZero, Setup, OpenAndMap, PassStartBarrier,
         StartRound, BeginRound, PackBlock, Fault, AssertFails, PassRts, SendFin,
         PassFin, EndLoop, LeaveLoop, Finish, Enter, TypeOK, mem
  <2> QED BY <2>1 DEF tvars, Announced
<1>11. CASE \/ DivideByZero(r) \/ PassStartBarrier(r) \/ PackBlock(r) \/ Fault(r)
            \/ AssertFails(r) \/ PassFin(r) \/ Finish(r) \/ Launcher(r)
  BY <1>11 DEF DivideByZero, PassStartBarrier, PackBlock, Fault, AssertFails, PassFin, Finish,
               Launcher, Kill, mem, tvars, Announced
<1>12. r = Sender => ~SendFin(r)
  BY <1>1 DEF Position, SendFin
<1> QED BY <1>3, <1>5, <1>6, <1>7, <1>8, <1>9, <1>10, <1>11, <1>12 DEF RankStep

(* shmem_dt implements the transfer every transport promises.              *)
THEOREM Implements == Spec => ImplementsTransfer
<1>1. Init => Abstract!Init /\ RInv
  <2> SUFFICES ASSUME Init PROVE Abstract!Init /\ RInv
    OBVIOUS
  <2> USE SenderAssumption, ArgsAssumption, LoopAssumption
  <2>1. IInv /\ Pos(Sender) = 0 /\ calls[Sender] = <<>> /\ clock = "off"
        /\ \A r \in Rank : iter[r] = 0 /\ blk[r] = 0
    BY InitIInv, SMT DEF Init, Pos
  <2>2. Announced = 0
    <3>1. {k \in 1 .. Len(calls[Sender]) : calls[Sender][k] = "bcast"} = {}
      BY <2>1, SMT DEF Pos
    <3> QED BY <3>1, FS_EmptySet DEF Announced
  <2>3. \A r \in Receiver : Oldest(lbuf[r]) = 0
    <3> TAKE r \in Receiver
    <3>1. \A x \in Byte : lbuf[r][x] = 0
      BY DEF Init
    <3>2. 0 \in Byte /\ 0 \in 0 .. Iters
      BY SMT DEF Byte, Iters
    <3> QED BY <3>1, <3>2, OldestIs, SMT
  <2>4. AnnouncedInv /\ ClockInv
    BY <2>1, <2>2, SMT DEF AnnouncedInv, ClockInv
  <2> QED BY <2>1, <2>2, <2>3, <2>4 DEF RInv, Abstract!Init
<1>2. RInv /\ [Next]_vars => RInv'
  BY TypeStep, ControlStep, ShmStep, LbufStep, AnnouncedStep DEF RInv, IInv
<1>3. RInv => HeldInv
  BY HeldIs DEF RInv
<1>4. RInv /\ HeldInv /\ HeldInv' /\ [Next]_vars
        => [Abstract!Next]_<<Announced, [r \in Receiver |-> Oldest(lbuf[r])], clock = "stopped">>
  BY StepSimulates DEF tvars
<1> QED BY <1>1, <1>2, <1>3, <1>4, PTL DEF Spec, ImplementsTransfer, Abstract!Spec
=============================================================================
