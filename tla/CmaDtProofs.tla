----------------------------- MODULE CmaDtProofs -----------------------------
(***************************************************************************)
(* Proofs about CmaDt, for any number of ranks and rounds, any block size, *)
(* any IOV_MAX and any width of size_t.  In round i a rank has entered     *)
(* 2i+2 collectives before its RTS, 2i+3 before its FIN and 2i+4 after it. *)
(*                                                                         *)
(* What is said of types and of the sender's memory holds of the program   *)
(* as it is.  What is said of the data holds if every call stays inside    *)
(* the iovec lists (ElementsExist, which the last call of a round may      *)
(* break): an overrunning call may transfer bytes of something else, and   *)
(* the assertion only counts them.                                         *)
(***************************************************************************)
EXTENDS CmaDt, MpiProofs

-----------------------------------------------------------------------------
(* Arithmetic of size_t: division, and what addition modulo n gives.       *)
LEMMA DivMod ==
    ASSUME NEW a \in Int, NEW n \in Nat \ {0}
    PROVE  a % n \in 0 .. n - 1 /\ a \div n \in Int /\ a = n * (a \div n) + (a % n)
  BY SMT

(* The remainder is the only number below n that a multiple of n leaves.   *)
LEMMA ModIs ==
    ASSUME NEW n \in Nat \ {0}, NEW k \in Int, NEW c \in 0 .. n - 1
    PROVE  (n * k + c) % n = c
  BY SMT

(* Moving e from one counter to the other keeps their sum.                 *)
LEMMA ModTransfer ==
    ASSUME NEW n \in Nat \ {0}, NEW a \in Int, NEW b \in Int, NEW e \in Int
    PROVE  (((a - e) % n) + ((b + e) % n)) % n = (a + b) % n
<1> DEFINE i == (a - e) \div n
           j == (b + e) \div n
           k == (a + b) \div n
           x == (a - e) % n
           y == (b + e) % n
           z == (a + b) % n
<1>1. a - e = n * i + x /\ i \in Int /\ x \in Int
  BY DivMod, SMT
<1>2. b + e = n * j + y /\ j \in Int /\ y \in Int
  BY DivMod, SMT
<1>3. a + b = n * k + z /\ k \in Int /\ z \in 0 .. n - 1
  <2>1. a + b \in Int
    BY SMT
  <2> QED BY <2>1, DivMod
<1> HIDE DEF i, j, k, x, y, z
<1>4. x + y = n * (k - i - j) + z
  <2>1. n * (k - i - j) = n * k - n * i - n * j
    BY <1>1, <1>2, <1>3, SMT
  <2>2. n * i \in Int /\ n * j \in Int /\ n * k \in Int
    BY <1>1, <1>2, <1>3, SMT
  <2> QED BY <1>1, <1>2, <1>3, <2>1, <2>2, SMT
<1>5. k - i - j \in Int
  BY <1>1, <1>2, <1>3, SMT
<1>6. (x + y) % n = z
  BY <1>3, <1>4, <1>5, ModIs
<1> QED BY <1>6 DEF x, y, z

-----------------------------------------------------------------------------
(* Where a rank is, told by its pc.                                        *)
Position(r) ==
    /\ pc[r] = "setup" => Pos(r) = 0 /\ iter[r] = 0
    /\ pc[r] = "pid" => Pos(r) = 1 /\ iter[r] = 0
    /\ pc[r] = "start_barrier" => Pos(r) = 2 /\ iter[r] = 0
    /\ pc[r] = "loop" => Pos(r) = 2 * iter[r] + 2
    /\ pc[r] = "bcast" => Pos(r) = 2 * iter[r] + 3 /\ iter[r] < Iters
    /\ pc[r] = "copy" => /\ r # Sender /\ iter[r] < Iters
                         /\ Pos(r) = 2 * iter[r] + 3
                         /\ Pos(Sender) >= 2 * iter[r] + 3
    /\ pc[r] = "gather" => Pos(r) = 2 * iter[r] + 4 /\ iter[r] < Iters
    /\ pc[r] \in {"end_barrier", "done"} => Pos(r) = 2 * Iters + 3 /\ iter[r] = Iters
    /\ pc[r] \notin {"setup", "crashed", "killed"} => blocksize > 0

(* What stays true of a rank after it has died as well.                    *)
Bounds(r) ==
    /\ Pos(r) <= 2 * iter[r] + 4
    /\ iter[r] = Iters => Pos(r) <= 2 * Iters + 3
    /\ freed[r] => iter[r] = Iters

(* The sender waits for everybody's FIN, a receiver for the sender's RTS.  *)
Lag(r) == iter[Sender] > 0 => Pos(r) >= 2 * iter[Sender] + 2
Ahead(r) ==
    /\ iter[r] > 0 => Pos(Sender) >= 2 * iter[r] + 1
    /\ r # Sender /\ iter[r] < Iters /\ Pos(r) >= 2 * iter[r] + 4 =>
           Pos(Sender) >= 2 * iter[r] + 3

Control == \A r \in Rank : Position(r) /\ Bounds(r) /\ Lag(r) /\ Ahead(r)

IInv == TypeOK /\ Control

-----------------------------------------------------------------------------
(* A step of rank r leaves what belongs to the others alone.               *)
LEMMA OthersKeep ==
    ASSUME TypeOK, NEW r \in Rank, RankStep(r) \/ Launcher(r)
    PROVE  /\ blocksize' = blocksize
           /\ \A q \in Rank \ {r} :
                 /\ pc'[q] = pc[q] /\ calls'[q] = calls[q] /\ iter'[q] = iter[q]
                 /\ freed'[q] = freed[q]
                 /\ q \in Receiver => /\ iovoff'[q] = iovoff[q] /\ remaining'[q] = remaining[q]
                                      /\ copied'[q] = copied[q] /\ lbuf'[q] = lbuf[q]
<1>1. blocksize' = blocksize
  BY DEF RankStep, Launcher, DivideByZero, Setup, PassPid, PassStartBarrier, StartRound, PassRts,
         ReadRemote, ReadFails, AssertFails, SendFin, PassFin, EndLoop, Finish
<1>2. \A q \in Rank \ {r} : pc'[q] = pc[q] /\ calls'[q] = calls[q]
  BY DEF TypeOK, RankStep, Launcher, Kill, DivideByZero, Setup, PassPid, PassStartBarrier, StartRound,
         PassRts, ReadRemote, ReadFails, AssertFails, SendFin, PassFin, EndLoop, Finish, Goto, Enter
<1>3. \A q \in Rank \ {r} : iter'[q] = iter[q] /\ freed'[q] = freed[q]
  BY DEF TypeOK, RankStep, Launcher, DivideByZero, Setup, PassPid, PassStartBarrier, StartRound,
         PassRts, ReadRemote, ReadFails, AssertFails, SendFin, PassFin, EndLoop, Finish
<1>4. \A q \in Receiver \ {r} : /\ iovoff'[q] = iovoff[q] /\ remaining'[q] = remaining[q]
                                /\ copied'[q] = copied[q] /\ lbuf'[q] = lbuf[q]
  BY DEF TypeOK, RankStep, Launcher, DivideByZero, Setup, PassPid, PassStartBarrier, StartRound,
         PassRts, ReadRemote, ReadFails, Account, AssertFails, SendFin, PassFin, EndLoop, Finish, loopvars
<1> QED BY <1>1, <1>2, <1>3, <1>4

(* What a step does to the rank's own counters.                            *)
LEMMA OwnCounters ==
    ASSUME IInv, NEW r \in Rank, RankStep(r) \/ Launcher(r)
    PROVE  /\ Pos(r) \in Nat /\ Pos(r)' \in Nat /\ Pos(r)' >= Pos(r)
           /\ \/ iter'[r] = iter[r]
              \/ /\ PassFin(r) /\ pc[r] = "gather" /\ iter'[r] = iter[r] + 1
                 /\ Pos(r)' = Pos(r)
                 /\ r = Sender => \A q \in Rank : Pos(q) >= Pos(r)
<1>1. TypeOK /\ \A q \in Rank : Pos(q) \in Nat
  BY PosNat DEF IInv, TypeOK
<1>2. calls' = calls \/ \E op \in Collective : Enter(r, op)
  BY DEF RankStep, Launcher, Kill, DivideByZero, Setup, PassPid, PassStartBarrier, StartRound,
         PassRts, ReadRemote, ReadFails, AssertFails, SendFin, PassFin, EndLoop, Finish, Collective
<1>3. Pos(r)' = Pos(r) \/ Pos(r)' = Pos(r) + 1
  BY <1>1, <1>2, EnterPos DEF TypeOK, Pos
<1>4. CASE PassFin(r)
  BY <1>1, <1>4, ReturnsPos, SMT DEF PassFin, FinReturns, Pos, TypeOK
<1>5. CASE ~PassFin(r)
  <2>1. iter' = iter
    BY <1>5 DEF RankStep, Launcher, DivideByZero, Setup, PassPid, PassStartBarrier, StartRound,
         PassRts, ReadRemote, ReadFails, AssertFails, SendFin, EndLoop, Finish
  <2> QED BY <1>1, <1>3, <2>1, SMT
<1> QED BY <1>4, <1>5

-----------------------------------------------------------------------------
(* The initial states: nobody has entered or read anything.                *)
LEMMA InitIInv == Init => IInv
<1> SUFFICES ASSUME Init PROVE IInv
  OBVIOUS
<1> USE ArgsAssumption, LoopAssumption, SenderAssumption, CmaAssumption
<1>1. calls \in [Rank -> Seq(Collective)] /\ \A r \in Rank : Pos(r) = 0
  BY SMT DEF Init, Pos
<1>2. TypeOK
  <2>1. Iters \in Nat
    BY SMT DEF Iters
  <2> QED BY <1>1, <2>1, SMT DEF Init, TypeOK, Label, Byte, Receiver
<1>3. Control
  <2> SUFFICES ASSUME NEW r \in Rank
               PROVE  Position(r) /\ Bounds(r) /\ Lag(r) /\ Ahead(r)
    BY DEF Control
  <2>1. pc[r] = "setup" /\ iter[r] = 0 /\ iter[Sender] = 0 /\ freed[r] = FALSE
    BY DEF Init
  <2>2. Iters \in Nat \ {0} /\ Pos(r) = 0 /\ Pos(Sender) = 0
    BY <1>1, SMT DEF Iters
  <2> QED BY <2>1, <2>2, SMT DEF Position, Bounds, Lag, Ahead
<1> QED BY <1>2, <1>3 DEF IInv

(* The smaller of two numbers.                                             *)
LEMMA MinTwo ==
    ASSUME NEW a \in Nat, NEW b \in Nat
    PROVE  Min({a, b}) = IF a <= b THEN a ELSE b
<1> DEFINE M(x) == \A y \in {a, b} : x <= y
           c == IF a <= b THEN a ELSE b
<1>1. c \in {a, b} /\ M(c) /\ \A x \in {a, b} : M(x) => x = c
  BY SMT
<1>2. Min({a, b}) = CHOOSE x \in {a, b} : M(x)
  BY DEF Min
<1> HIDE DEF M, c
<1>3. Min({a, b}) = c
  BY <1>1, <1>2
<1> QED BY <1>3 DEF c

(* The elements of a call.                                                 *)
LEMMA CallLength ==
    ASSUME TypeOK, blocksize > 0, NEW r \in Receiver
    PROVE  /\ blocksize \in Nat \ {0} /\ NBlocks \in Nat /\ NBlocks * blocksize <= BufSize
           /\ NBlocks <= BufSize
           /\ CurrBlks = IF NBlocks <= IovMax THEN NBlocks ELSE IovMax
           /\ iovoff[r] \in Nat
           /\ iovoff[r] < NBlocks =>
                 /\ CurrBlks \in Nat \ {0}
                 /\ Valid(r) \in Nat /\ Valid(r) <= CurrBlks
                 /\ Valid(r) = IF CurrBlks <= NBlocks - iovoff[r] THEN CurrBlks ELSE NBlocks - iovoff[r]
<1> USE ArgsAssumption, CmaAssumption
<1>1. blocksize \in Nat \ {0} /\ iovoff[r] \in Nat /\ BufSize \in Nat /\ IovMax \in Nat \ {0}
  BY SMT DEF TypeOK
<1>2. NBlocks \in Nat /\ NBlocks * blocksize <= BufSize
  BY <1>1, SMT DEF NBlocks
<1>3. NBlocks <= BufSize
  <2>1. CASE NBlocks = 0
    BY <1>1, <2>1, SMT
  <2>2. CASE NBlocks # 0
    <3>1. NBlocks - 1 \in Nat /\ NBlocks - 1 < BufSize \div blocksize
      BY <1>1, <1>2, <2>2, SMT DEF NBlocks
    <3>2. (NBlocks - 1) + 1 <= BufSize
      BY <1>1, <3>1, BlockFits
    <3> QED BY <1>2, <3>2, SMT
  <2> QED BY <2>1, <2>2
<1>4. CurrBlks = IF NBlocks <= IovMax THEN NBlocks ELSE IovMax
  BY <1>1, <1>2, MinTwo DEF CurrBlks
<1>5. ASSUME iovoff[r] < NBlocks
      PROVE  /\ CurrBlks \in Nat \ {0}
             /\ Valid(r) \in Nat /\ Valid(r) <= CurrBlks
             /\ Valid(r) = IF CurrBlks <= NBlocks - iovoff[r] THEN CurrBlks ELSE NBlocks - iovoff[r]
  <2>1. CurrBlks \in Nat \ {0} /\ NBlocks - iovoff[r] \in Nat
    BY <1>1, <1>2, <1>4, <1>5, SMT
  <2>2. Valid(r) = IF CurrBlks <= NBlocks - iovoff[r] THEN CurrBlks ELSE NBlocks - iovoff[r]
    BY <2>1, MinTwo DEF Valid
  <2> QED BY <2>1, <2>2, SMT
<1> QED BY <1>1, <1>2, <1>3, <1>4, <1>5

(* What a call adds to the counters, as the code sees it.                  *)
LEMMA CallCounts ==
    ASSUME IInv, NEW r \in Rank, ReadRemote(r) \/ ReadFails(r)
    PROVE  /\ r \in Receiver /\ pc[r] = "copy" /\ blocksize > 0 /\ iovoff[r] < NBlocks
           /\ \E bytes \in Int : Account(r, bytes)
<1>1. TypeOK /\ Position(r) /\ pc[r] = "copy" /\ MoreToRead(r)
  BY DEF IInv, Control, ReadRemote, ReadFails
<1>2. r \in Receiver /\ blocksize > 0 /\ iovoff[r] < NBlocks
  BY <1>1 DEF Position, Receiver, MoreToRead
<1>3. CASE ReadRemote(r)
  <2>1. PICK n \in 1 .. Valid(r), g \in GarbageLens \cup {0} : Account(r, n * blocksize + g)
    BY <1>3 DEF ReadRemote
  <2>2. n \in Nat /\ blocksize \in Nat /\ g \in Nat
    BY <1>1, <1>2, CallLength, CmaAssumption, SMT
  <2>3. n * blocksize + g \in Int
    BY <2>2, SMT
  <2> QED BY <1>1, <1>2, <2>1, <2>3
<1>4. CASE ReadFails(r)
  <2>1. Account(r, -1) /\ -1 \in Int
    BY <1>4, SMT DEF ReadFails
  <2> QED BY <1>1, <1>2, <2>1
<1> QED BY <1>3, <1>4

(* Types.  A byte count leaves one counter and enters the other.           *)
LEMMA TypeStep ==
    ASSUME IInv, NEW r \in Rank, RankStep(r) \/ Launcher(r)
    PROVE  TypeOK'
<1> USE ArgsAssumption, LoopAssumption, SenderAssumption, CmaAssumption
<1>1. /\ TypeOK /\ Position(r) /\ iter[r] \in Nat /\ iter[r] <= Iters /\ Iters \in Nat
      /\ BufSize \in Nat \ {0} /\ SizeMax \in Nat /\ BufSize \in 0 .. SizeMax
      /\ r \in Receiver <=> r # Sender
  <2>1. TypeOK /\ Position(r) /\ Iters \in Nat
    BY SMT DEF IInv, Control, Iters
  <2>2. iter[r] \in 0 .. Iters /\ (r \in Receiver <=> r # Sender)
    BY <2>1 DEF TypeOK, Receiver
  <2> QED BY <2>1, <2>2, SMT
<1>2. calls' \in [Rank -> Seq(Collective)] /\ blocksize' \in BlockSizes
  <2>1. calls' = calls \/ \E op \in Collective : Enter(r, op)
    BY DEF RankStep, Launcher, Kill, DivideByZero, Setup, PassPid, PassStartBarrier, StartRound,
           PassRts, ReadRemote, ReadFails, AssertFails, SendFin, PassFin, EndLoop, Finish, Collective
  <2> QED BY <1>1, <2>1, EnterPos, OthersKeep DEF TypeOK
<1>3. pc' \in [Rank -> Label]
  <2>1. \E label \in Label : pc' = pc \/ pc' = [pc EXCEPT ![r] = label]
    BY DEF RankStep, Launcher, Kill, DivideByZero, Setup, PassPid, PassStartBarrier, StartRound,
           PassRts, ReadRemote, ReadFails, AssertFails, SendFin, PassFin, EndLoop, Finish, Goto,
           Label, Stopped, Failed
  <2> QED BY <1>1, <2>1 DEF TypeOK
<1>4. iter' \in [Rank -> 0 .. Iters]
  <2>1. CASE PassFin(r)
    <3>1. pc[r] = "gather" /\ iter' = [iter EXCEPT ![r] = iter[r] + 1]
      BY <2>1 DEF PassFin
    <3>2. iter[r] + 1 \in 0 .. Iters
      BY <1>1, <3>1, SMT DEF Position
    <3> QED BY <1>1, <3>1, <3>2 DEF TypeOK
  <2>2. CASE iter' = iter
    BY <1>1, <2>2 DEF TypeOK
  <2> QED BY <2>1, <2>2 DEF RankStep, Launcher, DivideByZero, Setup, PassPid, PassStartBarrier,
          StartRound, PassRts, ReadRemote, ReadFails, AssertFails, SendFin, EndLoop, Finish
<1>5. clock' \in {"off", "running", "stopped"} /\ freed' \in [Rank -> BOOLEAN]
  <2>1. clock' = clock \/ clock' = "running" \/ clock' = "stopped"
    BY DEF RankStep, Launcher, DivideByZero, Setup, PassPid, PassStartBarrier, StartRound, BeginRound,
           PassRts, ReadRemote, ReadFails, AssertFails, SendFin, PassFin, EndLoop, LeaveLoop, Finish
  <2>2. freed' = freed \/ freed' = [freed EXCEPT ![r] = TRUE]
    BY DEF RankStep, Launcher, DivideByZero, Setup, PassPid, PassStartBarrier, StartRound,
           PassRts, ReadRemote, ReadFails, AssertFails, SendFin, PassFin, EndLoop, Finish
  <2> QED BY <1>1, <2>1, <2>2 DEF TypeOK
<1>6. lbuf' \in [Receiver -> [Byte -> 0 .. Iters]]
  <2>1. CASE ReadRemote(r)
    <3>1. r \in Receiver /\ iter[r] + 1 \in 0 .. Iters
      <4>1. pc[r] = "copy"
        BY <2>1 DEF ReadRemote
      <4> QED BY <1>1, <4>1, SMT DEF Position
    <3>2. PICK n \in 1 .. Valid(r) :
            lbuf' = [lbuf EXCEPT ![r] =
                  [x \in Byte |->
                     IF (x \div blocksize) \in iovoff[r] .. iovoff[r] + n - 1
                     THEN iter[r] + 1 ELSE lbuf[r][x]]]
      BY <2>1 DEF ReadRemote
    <3> QED BY <1>1, <3>1, <3>2 DEF TypeOK
  <2>2. CASE lbuf' = lbuf
    BY <1>1, <2>2 DEF TypeOK
  <2> QED BY <2>1, <2>2 DEF RankStep, Launcher, DivideByZero, Setup, PassPid, PassStartBarrier,
          StartRound, PassRts, ReadFails, AssertFails, SendFin, PassFin, EndLoop, Finish
<1>7. /\ iovoff' \in [Receiver -> Nat] /\ remaining' \in [Receiver -> 0 .. SizeMax]
      /\ copied' \in [Receiver -> 0 .. SizeMax]
      /\ \A q \in Receiver : pc'[q] = "copy" => Wrap(remaining'[q] + copied'[q]) = BufSize
  <2>1. CASE ReadRemote(r) \/ ReadFails(r)
    <3>1. PICK bytes \in Int : Account(r, bytes)
      BY <2>1, CallCounts
    <3>2. r \in Receiver /\ pc[r] = "copy" /\ iovoff[r] + CurrBlks \in Nat
      BY <1>1, <2>1, CallCounts, CallLength, SMT
    <3>3. remaining[r] \in 0 .. SizeMax /\ copied[r] \in 0 .. SizeMax
      BY <1>1, <3>2 DEF TypeOK
    <3>4. Wrap(copied[r] + bytes) \in 0 .. SizeMax /\ Wrap(remaining[r] - bytes) \in 0 .. SizeMax
      <4>1. /\ copied[r] + bytes \in Int /\ remaining[r] - bytes \in Int
            /\ SizeMax + 1 \in Nat \ {0} /\ (SizeMax + 1) - 1 = SizeMax
        BY <1>1, <3>3, SMT
      <4> QED BY <4>1, DivMod DEF Wrap
    <3>5. Wrap(Wrap(remaining[r] - bytes) + Wrap(copied[r] + bytes)) = Wrap(remaining[r] + copied[r])
      <4>1. /\ SizeMax + 1 \in Nat \ {0} /\ remaining[r] \in Int /\ copied[r] \in Int
        BY <1>1, <3>3, SMT
      <4> QED BY <4>1, ModTransfer DEF Wrap
    <3>6. Wrap(remaining[r] + copied[r]) = BufSize
      BY <1>1, <3>2 DEF TypeOK
    <3>7. /\ remaining' = [remaining EXCEPT ![r] = Wrap(remaining[r] - bytes)]
          /\ copied' = [copied EXCEPT ![r] = Wrap(copied[r] + bytes)]
          /\ iovoff' = [iovoff EXCEPT ![r] = iovoff[r] + CurrBlks]
          /\ pc' = pc
      BY <2>1, <3>1 DEF Account, ReadRemote, ReadFails
    <3> QED BY <1>1, <3>2, <3>4, <3>5, <3>6, <3>7 DEF TypeOK
  <2>2. CASE PassRts(r) /\ r # Sender
    <3>1. Wrap(BufSize + 0) = BufSize
      <4>1. /\ SizeMax + 1 \in Nat \ {0} /\ BufSize \in 0 .. (SizeMax + 1) - 1
            /\ (SizeMax + 1) * 0 + BufSize = BufSize + 0
        BY <1>1, SMT
      <4>2. ((SizeMax + 1) * 0 + BufSize) % (SizeMax + 1) = BufSize
        BY <4>1, ModIs, SMT
      <4> QED BY <4>1, <4>2 DEF Wrap
    <3>2. /\ remaining' = [remaining EXCEPT ![r] = BufSize]
          /\ copied' = [copied EXCEPT ![r] = 0] /\ iovoff' = [iovoff EXCEPT ![r] = 0]
          /\ pc' = [pc EXCEPT ![r] = "copy"]
      BY <2>2 DEF PassRts, Goto
    <3>3. 0 \in 0 .. SizeMax
      BY <1>1, SMT
    <3> QED BY <1>1, <2>2, <3>1, <3>2, <3>3 DEF TypeOK, Receiver
  <2>3. CASE UNCHANGED loopvars /\ (PassRts(r) => r = Sender)
             /\ ~ReadRemote(r) /\ ~ReadFails(r)
    <3>1. \A q \in Receiver : pc'[q] = "copy" => pc[q] = "copy"
      <4>1. pc'[r] # "copy"
        BY <1>1, <2>3 DEF TypeOK, RankStep, Launcher, Kill, DivideByZero, Setup, PassPid, PassStartBarrier,
               StartRound, PassRts, AssertFails, SendFin, PassFin, EndLoop, Finish, Goto
      <4> QED BY <1>1, <4>1, OthersKeep DEF Receiver
    <3> QED BY <1>1, <2>3, <3>1 DEF TypeOK, loopvars
  <2> QED BY <2>1, <2>2, <2>3 DEF RankStep, Launcher, DivideByZero, Setup, PassPid, PassStartBarrier,
          StartRound, PassRts, AssertFails, SendFin, PassFin, EndLoop, Finish
<1> QED BY <1>2, <1>3, <1>4, <1>5, <1>6, <1>7 DEF TypeOK

-----------------------------------------------------------------------------
(* Control.  The ranks that did not move: only the sender's counters, which*)
(* grow, matter to them.                                                   *)
LEMMA OthersStep ==
    ASSUME IInv, NEW r \in Rank, RankStep(r) \/ Launcher(r), NEW q \in Rank \ {r}
    PROVE  Position(q)' /\ Bounds(q)' /\ Lag(q)' /\ Ahead(q)'
<1> USE SenderAssumption
<1>1. /\ TypeOK /\ Position(q) /\ Bounds(q) /\ Lag(q) /\ Ahead(q)
      /\ Pos(q) \in Nat /\ Pos(Sender) \in Nat /\ iter[q] \in Nat /\ iter[Sender] \in Nat
  BY PosNat, SMT DEF IInv, Control, TypeOK
<1>2. /\ pc'[q] = pc[q] /\ Pos(q)' = Pos(q) /\ iter'[q] = iter[q] /\ freed'[q] = freed[q]
      /\ blocksize' = blocksize
  BY <1>1, OthersKeep DEF Pos
<1>3. Pos(Sender)' \in Nat /\ Pos(Sender)' >= Pos(Sender)
  <2>1. CASE r = Sender
    BY <2>1, OwnCounters
  <2>2. CASE r # Sender
    BY <1>1, <2>2, OthersKeep, SMT DEF Pos
  <2> QED BY <2>1, <2>2
<1>4. \/ iter'[Sender] = iter[Sender]
      \/ iter'[Sender] = iter[Sender] + 1 /\ Pos(q) >= 2 * iter[Sender] + 4
  <2>1. CASE r # Sender
    BY <1>1, <2>1, OthersKeep
  <2>2. CASE r = Sender
    <3>1. \/ iter'[r] = iter[r]
          \/ pc[r] = "gather" /\ iter'[r] = iter[r] + 1 /\ Pos(q) >= Pos(r)
      BY <2>2, OwnCounters
    <3>2. pc[r] = "gather" => Pos(r) = 2 * iter[r] + 4
      BY DEF IInv, Control, Position
    <3> QED BY <2>2, <3>1, <3>2
  <2> QED BY <2>1, <2>2
<1>5. Position(q)' /\ Bounds(q)'
  BY <1>1, <1>2, <1>3, SMT DEF Position, Bounds
<1>6. Lag(q)'
  BY <1>1, <1>2, <1>4, SMT DEF Lag
<1>7. Ahead(q)'
  BY <1>1, <1>2, <1>3, SMT DEF Ahead
<1> QED BY <1>5, <1>6, <1>7

(* The rank that moves.                                                    *)
LEMMA OwnStep ==
    ASSUME IInv, NEW r \in Rank, RankStep(r) \/ Launcher(r)
    PROVE  Position(r)' /\ Bounds(r)' /\ Lag(r)' /\ Ahead(r)'
<1> USE SenderAssumption, LoopAssumption
<1>1. /\ TypeOK /\ Position(r) /\ Bounds(r) /\ Lag(r) /\ Ahead(r)
      /\ Pos(r) \in Nat /\ Pos(Sender) \in Nat /\ iter[r] \in Nat /\ iter[Sender] \in Nat
      /\ Iters \in Nat \ {0} /\ iter[r] <= Iters
  BY PosNat, SMT DEF IInv, Control, TypeOK, Iters
<1>2. /\ blocksize' = blocksize
      /\ r # Sender => Pos(Sender)' = Pos(Sender) /\ iter'[Sender] = iter[Sender]
  BY <1>1, OthersKeep DEF Pos
<1>3. ASSUME UNCHANGED <<calls, iter, freed>>,
             \/ pc' = pc
             \/ pc'[r] \in {"crashed", "killed"}
             \/ pc'[r] = "aborted" /\ blocksize > 0
      PROVE  Position(r)' /\ Bounds(r)' /\ Lag(r)' /\ Ahead(r)'
  <2>1. Pos(r)' = Pos(r) /\ Pos(Sender)' = Pos(Sender)
    BY <1>3 DEF Pos
  <2> QED BY <1>1, <1>2, <1>3, <2>1 DEF Position, Bounds, Lag, Ahead
<1>4. ASSUME UNCHANGED <<iter, freed>>, Pos(r)' = Pos(r) + 1, Position(r)', Bounds(r)',
             r # Sender /\ Pos(r)' >= 2 * iter[r] + 4 => Pos(Sender) >= 2 * iter[r] + 3
      PROVE  Position(r)' /\ Bounds(r)' /\ Lag(r)' /\ Ahead(r)'
  <2>1. CASE r # Sender
    BY <1>1, <1>2, <1>4, <2>1, SMT DEF Lag, Ahead
  <2>2. CASE r = Sender
    BY <1>1, <1>2, <1>4, <2>2, SMT DEF Lag, Ahead
  <2> QED BY <2>1, <2>2
<1>5. CASE DivideByZero(r) \/ AssertFails(r) \/ Launcher(r) \/ ReadRemote(r) \/ ReadFails(r)
  BY <1>1, <1>3, <1>5 DEF DivideByZero, AssertFails, Launcher, Kill, ReadRemote, ReadFails, Goto,
                          TypeOK, Position
<1>6. CASE Setup(r) \/ PassPid(r)
  <2>1. /\ UNCHANGED <<iter, freed>> /\ Pos(r)' = Pos(r) + 1
        /\ \/ Setup(r) /\ pc[r] = "setup" /\ pc'[r] = "pid" /\ blocksize > 0
           \/ PassPid(r) /\ pc[r] = "pid" /\ pc'[r] = "start_barrier"
    BY <1>1, <1>6, EnterPos DEF Setup, PassPid, Goto, TypeOK, Collective
  <2>2. Position(r)' /\ Bounds(r)'
    BY <1>1, <1>2, <2>1, SMT DEF Position, Bounds
  <2> QED BY <1>1, <1>4, <2>1, <2>2, SMT DEF Position
<1>7. CASE PassStartBarrier(r)
  <2>1. /\ UNCHANGED <<calls, iter, freed>> /\ pc[r] = "start_barrier" /\ pc'[r] = "loop"
    BY <1>1, <1>7 DEF PassStartBarrier, Goto, TypeOK
  <2>2. Pos(r)' = Pos(r) /\ Pos(Sender)' = Pos(Sender)
    BY <2>1 DEF Pos
  <2> QED BY <1>1, <1>2, <2>1, <2>2, SMT DEF Position, Bounds, Lag, Ahead
<1>8. CASE StartRound(r)
  <2>1. /\ UNCHANGED <<iter, freed>> /\ Pos(r)' = Pos(r) + 1 /\ iter[r] < Iters
        /\ pc[r] = "loop" /\ pc'[r] = "bcast"
    BY <1>1, <1>8, EnterPos DEF StartRound, BeginRound, MoreRounds, Goto, TypeOK, Collective
  <2>2. Position(r)' /\ Bounds(r)'
    BY <1>1, <1>2, <2>1, SMT DEF Position, Bounds
  <2> QED BY <1>1, <1>4, <2>1, <2>2, SMT DEF Position
<1>9. CASE PassRts(r) /\ r = Sender
  <2>1. /\ UNCHANGED <<iter, freed>> /\ Pos(r)' = Pos(r) + 1
        /\ pc[r] = "bcast" /\ pc'[r] = "gather"
    BY <1>1, <1>9, EnterPos DEF PassRts, Goto, TypeOK, Collective
  <2>2. Position(r)' /\ Bounds(r)'
    BY <1>1, <1>2, <2>1, SMT DEF Position, Bounds
  <2> QED BY <1>1, <1>4, <1>9, <2>1, <2>2
<1>10. CASE PassRts(r) /\ r # Sender
  <2>1. /\ UNCHANGED <<calls, iter, freed>> /\ pc[r] = "bcast" /\ pc'[r] = "copy"
        /\ Pos(Sender) >= Pos(r)
    BY <1>1, <1>10, ReturnsPos DEF PassRts, RtsReturns, Goto, TypeOK
  <2>2. Pos(r)' = Pos(r) /\ Pos(Sender)' = Pos(Sender)
    BY <2>1 DEF Pos
  <2> QED BY <1>1, <1>2, <1>10, <2>1, <2>2, SMT DEF Position, Bounds, Lag, Ahead
<1>11. CASE SendFin(r)
  <2>1. /\ UNCHANGED <<iter, freed>> /\ Pos(r)' = Pos(r) + 1
        /\ pc[r] = "copy" /\ pc'[r] = "gather"
    BY <1>1, <1>11, EnterPos DEF SendFin, Goto, TypeOK, Collective
  <2>2. Position(r)' /\ Bounds(r)'
    BY <1>1, <1>2, <2>1, SMT DEF Position, Bounds
  <2> QED BY <1>1, <1>4, <2>1, <2>2 DEF Position
<1>12. CASE PassFin(r)
  <2>1. /\ UNCHANGED <<calls, freed>> /\ pc[r] = "gather" /\ pc'[r] = "loop"
        /\ iter'[r] = iter[r] + 1
    BY <1>1, <1>12 DEF PassFin, Goto, TypeOK
  <2>2. Pos(r)' = Pos(r) /\ Pos(Sender)' = Pos(Sender)
    BY <2>1 DEF Pos
  <2>3. Position(r)' /\ Bounds(r)' /\ Ahead(r)'
    BY <1>1, <1>2, <2>1, <2>2, SMT DEF Position, Bounds, Ahead
  <2>4. Lag(r)'
    BY <1>1, <1>2, <2>1, <2>2, SMT DEF Lag, Position
  <2> QED BY <2>3, <2>4
<1>13. CASE EndLoop(r)
  <2>1. /\ UNCHANGED <<iter>> /\ Pos(r)' = Pos(r) + 1 /\ iter[r] = Iters
        /\ pc[r] = "loop" /\ pc'[r] = "end_barrier"
    BY <1>1, <1>13, EnterPos, SMT DEF EndLoop, LeaveLoop, MoreRounds, Goto, TypeOK, Collective
  <2>2. Position(r)' /\ Bounds(r)'
    BY <1>1, <1>2, <2>1, SMT DEF Position, Bounds
  <2>3. Lag(r)' /\ Ahead(r)'
    BY <1>1, <1>2, <2>1, SMT DEF Lag, Ahead, Position
  <2> QED BY <2>2, <2>3
<1>14. CASE Finish(r)
  <2>1. /\ UNCHANGED <<calls, iter, freed>> /\ pc[r] = "end_barrier" /\ pc'[r] = "done"
    BY <1>1, <1>14 DEF Finish, Goto, TypeOK
  <2>2. Pos(r)' = Pos(r) /\ Pos(Sender)' = Pos(Sender)
    BY <2>1 DEF Pos
  <2> QED BY <1>1, <1>2, <2>1, <2>2, SMT DEF Position, Bounds, Lag, Ahead
<1> QED BY <1>5, <1>6, <1>7, <1>8, <1>9, <1>10, <1>11, <1>12, <1>13, <1>14 DEF RankStep

-----------------------------------------------------------------------------
(* The invariant is inductive.                                             *)
LEMMA NextIInv == IInv /\ [Next]_vars => IInv'
<1> SUFFICES ASSUME IInv, [Next]_vars PROVE IInv'
  OBVIOUS
<1>1. CASE UNCHANGED vars
  BY <1>1 DEF vars, loopvars, IInv, TypeOK, Control, Position, Bounds, Lag, Ahead, Pos
<1>2. ASSUME NEW r \in Rank, RankStep(r) \/ Launcher(r) PROVE IInv'
  <2>1. \A q \in Rank : Position(q)' /\ Bounds(q)' /\ Lag(q)' /\ Ahead(q)'
    BY <1>2, OthersStep, OwnStep
  <2> QED BY <1>2, <2>1, TypeStep DEF IInv, Control
<1> QED BY <1>1, <1>2 DEF Next, Terminating

(* IInv holds in every reachable state of cma_dt.                          *)
THEOREM Inductive == Spec => []IInv
<1>1. Init => IInv
  BY InitIInv
<1> QED BY <1>1, NextIInv, PTL DEF Spec

(* Every variable keeps its type, and the two byte counters of a receiver  *)
(* mirror each other through every wrap-around of size_t.                  *)
THEOREM TypeCorrect == Spec => []TypeOK
<1>1. IInv => TypeOK
  BY DEF IInv
<1> QED BY <1>1, Inductive, PTL

(* The sender frees its memory before the last barrier, and all the same   *)
(* no receiver can still issue a read.                                     *)
THEOREM NoReadAfterFreeHolds == Spec => []NoReadAfterFree
<1> USE SenderAssumption, LoopAssumption
<1>1. IInv => NoReadAfterFree
  <2> SUFFICES ASSUME IInv, freed[Sender], NEW r \in Receiver, pc[r] = "copy"
               PROVE  FALSE
    BY DEF NoReadAfterFree
  <2>1. /\ TypeOK /\ Position(r) /\ Lag(r) /\ Bounds(Sender) /\ r \in Rank
    BY DEF IInv, Control, Receiver
  <2>2. Pos(r) \in Nat /\ iter[r] \in Nat /\ Iters \in Nat \ {0}
    BY <2>1, PosNat, SMT DEF TypeOK, Iters
  <2> QED BY <2>1, <2>2, SMT DEF Position, Lag, Bounds
<1> QED BY <1>1, Inductive, PTL

-----------------------------------------------------------------------------
(* The data, when every call stays inside the lists.  What the bytes read  *)
(* in a round sum up to, failed calls counting -1: an assertion that holds *)
(* says it is the buffer's size, and there are too few calls for failures  *)
(* to wrap the counter around to it.                                       *)
Sum(r) == IF copied[r] <= BufSize THEN copied[r] ELSE copied[r] - (SizeMax + 1)

Reading(r) ==
    pc[r] = "copy" =>
        /\ iovoff[r] <= NBlocks
        /\ 0 <= Sum(r) + iovoff[r] /\ Sum(r) <= iovoff[r] * blocksize
        /\ Sum(r) = iovoff[r] * blocksize =>
               \A x \in Byte : x < iovoff[r] * blocksize => lbuf[r][x] = iter[r] + 1

(* A receiver's buffer: the rounds it has counted, and bytes of the next   *)
(* one, which the sender has announced, until the FIN says it has them all.*)
Fresh(r) ==
    /\ \A x \in Byte :
           \/ lbuf[r][x] = iter[r]
           \/ /\ lbuf[r][x] = iter[r] + 1 /\ iter[r] < Iters
              /\ Pos(Sender) >= 2 * iter[r] + 3
    /\ iter[r] < Iters /\ Pos(r) >= 2 * iter[r] + 4 =>
           \A x \in Byte : lbuf[r][x] = iter[r] + 1

Data == \A r \in Receiver : Reading(r) /\ Fresh(r)

(* Adding to a size_t adds to the sum, as long as that stays in range.     *)
LEMMA SumAdds ==
    ASSUME NEW c \in 0 .. SizeMax, NEW b \in Int, NEW s \in Int,
           s = IF c <= BufSize THEN c ELSE c - (SizeMax + 1),
           - BufSize <= s + b, s + b <= BufSize
    PROVE  (IF Wrap(c + b) <= BufSize THEN Wrap(c + b) ELSE Wrap(c + b) - (SizeMax + 1)) = s + b
<1> USE ArgsAssumption, CmaAssumption
<1>1. /\ SizeMax + 1 \in Nat \ {0} /\ BufSize \in Nat /\ SizeMax \in Nat /\ 2 * BufSize <= SizeMax
  BY SMT
<1>2. CASE s + b >= 0
  <2>1. s + b \in 0 .. (SizeMax + 1) - 1
    BY <1>1, <1>2, SMT
  <2>2. \E k \in Int : c + b = (SizeMax + 1) * k + (s + b)
    <3>1. CASE c <= BufSize
      <4>1. c + b = (SizeMax + 1) * 0 + (s + b)
        BY <1>1, <3>1, SMT
      <4> QED BY <4>1, SMT
    <3>2. CASE ~(c <= BufSize)
      <4>1. c + b = (SizeMax + 1) * 1 + (s + b)
        BY <1>1, <3>2, SMT
      <4>2. 1 \in Int
        BY SMT
      <4> QED BY <4>1, <4>2, Zenon
    <3> QED BY <3>1, <3>2
  <2>3. Wrap(c + b) = s + b
    BY <1>1, <2>1, <2>2, ModIs DEF Wrap
  <2> QED BY <2>3
<1>3. CASE s + b < 0
  <2>1. s + b + (SizeMax + 1) \in 0 .. (SizeMax + 1) - 1 /\ s + b + (SizeMax + 1) > BufSize
    BY <1>1, <1>3, SMT
  <2>2. \E k \in Int : c + b = (SizeMax + 1) * k + (s + b + (SizeMax + 1))
    <3>1. CASE c <= BufSize
      <4>1. c + b = (SizeMax + 1) * (-1) + (s + b + (SizeMax + 1))
        BY <1>1, <3>1, SMT
      <4> QED BY <4>1, SMT
    <3>2. CASE ~(c <= BufSize)
      <4>1. c + b = (SizeMax + 1) * 0 + (s + b + (SizeMax + 1))
        BY <1>1, <3>2, SMT
      <4> QED BY <4>1, SMT
    <3> QED BY <3>1, <3>2
  <2>3. Wrap(c + b) = s + b + (SizeMax + 1)
    BY <1>1, <2>1, <2>2, ModIs DEF Wrap
  <2> QED BY <1>1, <2>1, <2>3, SMT
<1> QED BY <1>1, <1>2, <1>3, SMT

(* A call inside the lists, complete, short or failed.                     *)
LEMMA ReadStep ==
    ASSUME IInv, Data, ElementsExist, NEW r \in Rank, ReadRemote(r) \/ ReadFails(r)
    PROVE  Reading(r)' /\ Fresh(r)'
<1> USE ArgsAssumption, CmaAssumption, LoopAssumption
<1>1. /\ TypeOK /\ Position(r) /\ r \in Receiver /\ r # Sender /\ pc[r] = "copy" /\ blocksize > 0
      /\ MoreToRead(r) /\ iovoff[r] < NBlocks /\ Reading(r) /\ Fresh(r)
  BY CallCounts DEF IInv, Control, Data, ReadRemote, ReadFails, Receiver
<1>2. /\ Valid(r) = CurrBlks /\ CurrBlks \in Nat \ {0} /\ iovoff[r] \in Nat /\ NBlocks \in Nat
      /\ iovoff[r] + CurrBlks <= NBlocks /\ NBlocks <= BufSize /\ NBlocks * blocksize <= BufSize
      /\ blocksize \in Nat \ {0}
  <2>1. Valid(r) = CurrBlks
    BY <1>1 DEF ElementsExist
  <2> QED BY <1>1, <2>1, CallLength, SMT
<1>3. /\ copied[r] \in 0 .. SizeMax /\ iter[r] \in Nat /\ Iters \in Nat /\ iter[r] < Iters
      /\ Pos(r) \in Nat /\ Pos(r) = 2 * iter[r] + 3 /\ Pos(Sender) >= 2 * iter[r] + 3
      /\ BufSize \in Nat /\ SizeMax \in Nat
  BY <1>1, PosNat, SMT DEF TypeOK, Position, Iters
<1> DEFINE end == (iovoff[r] + CurrBlks) * blocksize
           here == iovoff[r] * blocksize
<1>4. /\ here \in Nat /\ end \in Nat /\ end <= BufSize /\ here + blocksize <= end
      /\ \A n \in 1 .. CurrBlks : /\ here + n * blocksize = (iovoff[r] + n) * blocksize
                                  /\ here + n * blocksize <= end
                                  /\ n # CurrBlks => here + n * blocksize < end
                                  /\ n * blocksize \in Nat
  <2>1. here \in Nat /\ end \in Nat
    BY <1>2, MulSucc, SMT
  <2>2. end <= BufSize
    <3>1. end <= NBlocks * blocksize
      BY <1>2, MulMonotone, SMT
    <3>2. NBlocks * blocksize \in Nat
      BY <1>2, MulSucc, SMT
    <3> QED BY <1>2, <1>3, <2>1, <3>1, <3>2, SMT
  <2>3. ASSUME NEW n \in 1 .. CurrBlks
        PROVE  /\ here + n * blocksize = (iovoff[r] + n) * blocksize
               /\ here + n * blocksize <= end
               /\ n # CurrBlks => here + n * blocksize < end
               /\ n * blocksize \in Nat
    <3>1. n \in Nat /\ here + n * blocksize = (iovoff[r] + n) * blocksize
      BY <1>2, SMT
    <3>2. (iovoff[r] + n) * blocksize <= end
      BY <1>2, <3>1, MulMonotone, SMT
    <3>3. n # CurrBlks => (iovoff[r] + n) * blocksize < end
      <4> SUFFICES ASSUME n # CurrBlks PROVE (iovoff[r] + n) * blocksize < end
        OBVIOUS
      <4>1. (iovoff[r] + n + 1) * blocksize <= end
        BY <1>2, <3>1, MulMonotone, SMT
      <4>2. (iovoff[r] + n + 1) * blocksize = (iovoff[r] + n) * blocksize + blocksize
            /\ (iovoff[r] + n) * blocksize \in Nat
        BY <1>2, <3>1, MulSucc, SMT
      <4> QED BY <1>2, <2>1, <4>1, <4>2, SMT
    <3>4. n * blocksize \in Nat
      BY <1>2, <3>1, MulSucc, SMT
    <3> QED BY <3>1, <3>2, <3>3, <3>4
  <2>4. 1 * blocksize = blocksize /\ 1 \in 1 .. CurrBlks
    BY <1>2, SMT
  <2> QED BY <2>1, <2>2, <2>3, <2>4
<1> HIDE DEF end, here
<1>5. /\ Sum(r) \in Int /\ 0 <= Sum(r) + iovoff[r] /\ Sum(r) <= here
      /\ Sum(r) = here => \A x \in Byte : x < here => lbuf[r][x] = iter[r] + 1
  BY <1>1, <1>3, SMT DEF Reading, Sum, here
<1>6. UNCHANGED <<pc, calls, iter, blocksize>> /\ iovoff'[r] = iovoff[r] + CurrBlks
  BY <1>1 DEF ReadRemote, ReadFails, Account, TypeOK
<1>7. Pos(r)' = Pos(r) /\ Pos(Sender)' = Pos(Sender) /\ NBlocks' = NBlocks
  BY <1>6 DEF Pos, NBlocks
<1>8. CASE ReadRemote(r)
  <2>1. PICK n \in 1 .. Valid(r), g \in GarbageLens \cup {0} :
           /\ g > 0 => n = Valid(r) /\ Valid(r) < CurrBlks
           /\ Account(r, n * blocksize + g)
           /\ lbuf' = [lbuf EXCEPT ![r] =
                  [x \in Byte |->
                     IF (x \div blocksize) \in iovoff[r] .. iovoff[r] + n - 1
                     THEN iter[r] + 1 ELSE lbuf[r][x]]]
    BY <1>8 DEF ReadRemote
  <2>2. n \in 1 .. CurrBlks /\ g = 0 /\ n * blocksize + g = n * blocksize /\ n * blocksize \in Int
    <3>1. n \in 1 .. CurrBlks /\ g \in Nat
      BY <1>2
    <3>2. n * blocksize \in Nat
      BY <1>4, <3>1
    <3>3. g = 0
      BY <1>2, <2>1, <3>1, SMT
    <3> QED BY <3>1, <3>2, <3>3, SMT
  <2>3. Sum(r)' = Sum(r) + n * blocksize
    <3>1. - BufSize <= Sum(r) + n * blocksize /\ Sum(r) + n * blocksize <= BufSize
      <4>1. here + n * blocksize <= end /\ n * blocksize \in Nat
        BY <1>4, <2>2
      <4> QED BY <1>2, <1>3, <1>4, <1>5, <4>1, SMT
    <3>2. copied'[r] = Wrap(copied[r] + n * blocksize)
      BY <1>1, <2>1, <2>2 DEF Account, TypeOK
    <3>3. Sum(r) = IF copied[r] <= BufSize THEN copied[r] ELSE copied[r] - (SizeMax + 1)
      BY DEF Sum
    <3>4. (IF Wrap(copied[r] + n * blocksize) <= BufSize THEN Wrap(copied[r] + n * blocksize)
           ELSE Wrap(copied[r] + n * blocksize) - (SizeMax + 1)) = Sum(r) + n * blocksize
      BY <1>3, <1>5, <2>2, <3>1, <3>3, SumAdds
    <3> QED BY <3>2, <3>4 DEF Sum
  <2>4. \A x \in Byte :
           lbuf'[r][x] = IF (x \div blocksize) \in iovoff[r] .. iovoff[r] + n - 1
                         THEN iter[r] + 1 ELSE lbuf[r][x]
    BY <1>1, <2>1 DEF TypeOK
  <2>5. Sum(r)' = end => \A x \in Byte : x < end => lbuf'[r][x] = iter[r] + 1
    <3> SUFFICES ASSUME Sum(r)' = end, NEW x \in Byte, x < end
                 PROVE  lbuf'[r][x] = iter[r] + 1
      OBVIOUS
    <3>1. n = CurrBlks /\ Sum(r) = here
      <4>1. here + n * blocksize <= end /\ (n # CurrBlks => here + n * blocksize < end)
            /\ n * blocksize \in Nat
        BY <1>4, <2>2
      <4>2. CASE n # CurrBlks
        BY <1>4, <1>5, <2>3, <4>1, <4>2, SMT
      <4>3. CASE n = CurrBlks
        <5>1. here + n * blocksize = end
          BY <1>4, <2>2, <4>3 DEF end
        <5> QED BY <1>4, <1>5, <2>3, <4>1, <4>3, <5>1, SMT
      <4> QED BY <4>2, <4>3
    <3>2. x \in Nat
      BY SMT DEF Byte
    <3>3. x \div blocksize \in Nat /\ x \div blocksize < iovoff[r] + CurrBlks
      BY <1>2, <3>2, InBlock, SMT DEF end
    <3>4. x \div blocksize < iovoff[r] <=> x < here
      BY <1>2, <3>2, InBlock DEF here
    <3>5. CASE x < here
      BY <1>5, <2>4, <3>1, <3>5
    <3>6. CASE ~(x < here)
      <4>1. (x \div blocksize) \in iovoff[r] .. iovoff[r] + n - 1
        BY <1>2, <3>1, <3>3, <3>4, <3>6, SMT
      <4> QED BY <2>4, <4>1
    <3> QED BY <3>5, <3>6
  <2>6. Reading(r)'
    <3>1. 0 <= Sum(r)' + (iovoff[r] + CurrBlks) /\ Sum(r)' <= end
      <4>1. here + n * blocksize <= end /\ n * blocksize \in Nat
        BY <1>4, <2>2
      <4> QED BY <1>2, <1>4, <1>5, <2>3, <4>1, SMT
    <3> QED BY <1>2, <1>6, <1>7, <2>5, <3>1 DEF Reading, end
  <2>7. Fresh(r)'
    BY <1>1, <1>3, <1>6, <1>7, <2>4, SMT DEF Fresh
  <2> QED BY <2>6, <2>7
<1>9. CASE ReadFails(r)
  <2>1. lbuf' = lbuf /\ Account(r, -1)
    BY <1>9 DEF ReadFails
  <2>2. Sum(r)' = Sum(r) + (-1)
    <3>1. - BufSize <= Sum(r) + (-1) /\ Sum(r) + (-1) <= BufSize /\ -1 \in Int
      BY <1>2, <1>3, <1>4, <1>5, SMT
    <3>2. copied'[r] = Wrap(copied[r] + (-1))
      BY <1>1, <2>1 DEF Account, TypeOK
    <3>3. Sum(r) = IF copied[r] <= BufSize THEN copied[r] ELSE copied[r] - (SizeMax + 1)
      BY DEF Sum
    <3>4. (IF Wrap(copied[r] + (-1)) <= BufSize THEN Wrap(copied[r] + (-1))
           ELSE Wrap(copied[r] + (-1)) - (SizeMax + 1)) = Sum(r) + (-1)
      BY <1>3, <1>5, <3>1, <3>3, SumAdds
    <3> QED BY <3>2, <3>4 DEF Sum
  <2>3. 0 <= Sum(r)' + (iovoff[r] + CurrBlks) /\ Sum(r)' <= end /\ Sum(r)' # end
    BY <1>2, <1>4, <1>5, <2>2, SMT
  <2>4. Reading(r)'
    BY <1>2, <1>6, <1>7, <2>3 DEF Reading, end
  <2>5. Fresh(r)'
    BY <1>1, <1>6, <1>7, <2>1 DEF Fresh
  <2> QED BY <2>4, <2>5
<1> QED BY <1>8, <1>9

(* A step that is no call keeps the buffer; where it ends a round, the     *)
(* assertion has just counted all of its bytes.                            *)
LEMMA OwnData ==
    ASSUME IInv, IInv', Data, NEW r \in Receiver, RankStep(r) \/ Launcher(r),
           ~ReadRemote(r), ~ReadFails(r)
    PROVE  Reading(r)' /\ Fresh(r)'
<1> USE ArgsAssumption, CmaAssumption, LoopAssumption, SenderAssumption
<1>1. /\ TypeOK /\ Position(r) /\ Bounds(r) /\ r \in Rank /\ r # Sender /\ Reading(r) /\ Fresh(r)
      /\ Pos(r) \in Nat /\ iter[r] \in Nat /\ Iters \in Nat /\ Pos(Sender) \in Nat
      /\ Position(r)' /\ iter[r] <= Iters
  <2>1. /\ TypeOK /\ Position(r) /\ Bounds(r) /\ r \in Rank /\ r # Sender /\ Reading(r) /\ Fresh(r)
        /\ Position(r)'
    BY DEF IInv, Control, Data, Receiver
  <2>2. Pos(r) \in Nat /\ Pos(Sender) \in Nat /\ iter[r] \in 0 .. Iters
    BY <2>1, PosNat DEF TypeOK
  <2>3. Iters \in Nat
    BY SMT DEF Iters
  <2> QED BY <2>1, <2>2, <2>3, SMT
<1>2. lbuf' = lbuf
  BY DEF RankStep, Launcher, DivideByZero, Setup, PassPid, PassStartBarrier, StartRound, PassRts,
         AssertFails, SendFin, PassFin, EndLoop, Finish
<1>3. iter'[Sender] = iter[Sender] /\ Pos(Sender)' = Pos(Sender) /\ blocksize' = blocksize
  BY <1>1, OthersKeep DEF Pos
<1>4. ASSUME iter' = iter,
             \/ Pos(r)' = Pos(r) \/ ~(Pos(r)' >= 2 * iter[r] + 4) \/ iter[r] = Iters
      PROVE  Fresh(r)'
  <2>1. ~(iter[r] < Iters) \/ Pos(r)' = Pos(r) \/ ~(Pos(r)' >= 2 * iter[r] + 4)
    BY <1>1, <1>4, SMT
  <2> QED BY <1>1, <1>2, <1>3, <1>4, <2>1 DEF Fresh
<1>5. CASE DivideByZero(r) \/ AssertFails(r) \/ Launcher(r) \/ PassStartBarrier(r) \/ Finish(r)
  <2>1. UNCHANGED <<calls, iter>> /\ pc'[r] # "copy"
    BY <1>1, <1>5 DEF DivideByZero, AssertFails, Launcher, Kill, PassStartBarrier, Finish, Goto, TypeOK
  <2>2. Fresh(r)'
    BY <1>4, <2>1 DEF Pos
  <2> QED BY <2>1, <2>2 DEF Reading
<1>6. CASE Setup(r) \/ PassPid(r) \/ StartRound(r) \/ EndLoop(r)
  <2>1. /\ iter' = iter
        /\ pc'[r] \in {"pid", "start_barrier", "bcast", "end_barrier"}
    BY <1>1, <1>6 DEF Setup, PassPid, StartRound, EndLoop, Goto, TypeOK
  <2>2. ~(Pos(r)' >= 2 * iter[r] + 4) \/ iter[r] = Iters
    BY <1>1, <2>1, SMT DEF Position
  <2> QED BY <1>4, <2>1, <2>2 DEF Reading
<1>7. CASE PassRts(r)
  <2>1. /\ UNCHANGED <<calls, iter>> /\ iovoff'[r] = 0 /\ copied'[r] = 0
    BY <1>1, <1>7 DEF PassRts, TypeOK
  <2>2. Fresh(r)'
    BY <1>4, <2>1 DEF Pos
  <2>3. Sum(r)' = 0
    BY <2>1, SMT DEF Sum
  <2>4. iovoff'[r] * blocksize' = 0 /\ 0 + iovoff'[r] = 0
    <3>1. blocksize \in Nat /\ 0 + 0 = 0
      <4>1. blocksize \in Nat
        BY <1>1 DEF TypeOK
      <4> QED BY <4>1, SMT
    <3>2. 0 * blocksize = 0
      BY <3>1, MulZero
    <3> QED BY <1>3, <2>1, <3>1, <3>2
  <2>5. pc'[r] = "copy" => NBlocks' \in Nat
    <3>1. pc'[r] = "copy" => blocksize > 0
      BY <1>1, <1>3 DEF Position
    <3> QED BY <1>1, <1>3, <3>1, CallLength DEF NBlocks
  <2>6. \A x \in Byte : ~(x < 0)
    BY SMT DEF Byte
  <2>7. 0 <= 0
    BY SMT
  <2>8. pc'[r] = "copy" => iovoff'[r] <= NBlocks'
    BY <2>1, <2>5, SMT
  <2>9. Reading(r)'
    BY <2>1, <2>3, <2>4, <2>6, <2>7, <2>8 DEF Reading
  <2> QED BY <2>2, <2>9
<1>8. CASE SendFin(r)
  <2>1. /\ pc[r] = "copy" /\ pc'[r] = "gather" /\ iter' = iter /\ copied[r] = BufSize
        /\ blocksize > 0
    BY <1>1, <1>8 DEF SendFin, CopiedAll, Goto, TypeOK, Position
  <2>2. \A x \in Byte : lbuf[r][x] = iter[r] + 1
    <3>1. /\ Sum(r) = BufSize /\ BufSize \in Nat
      BY <2>1, SMT DEF Sum
    <3>2. iovoff[r] * blocksize = BufSize
      <4>1. iovoff[r] * blocksize <= NBlocks * blocksize /\ NBlocks * blocksize <= BufSize
            /\ iovoff[r] * blocksize \in Nat /\ NBlocks * blocksize \in Nat
        BY <1>1, <2>1, CallLength, MulMonotone, MulSucc DEF Reading
      <4>2. BufSize <= iovoff[r] * blocksize
        BY <1>1, <2>1, <3>1 DEF Reading
      <4> QED BY <3>1, <4>1, <4>2, SMT
    <3>3. \A x \in Byte : x < BufSize
      BY <3>1, SMT DEF Byte
    <3> QED BY <1>1, <2>1, <3>1, <3>2, <3>3 DEF Reading
  <2>3. Pos(Sender) >= 2 * iter[r] + 3 /\ iter[r] < Iters
    BY <1>1, <2>1 DEF Position
  <2>4. Fresh(r)'
    BY <1>1, <1>2, <1>3, <2>1, <2>2, <2>3 DEF Fresh
  <2> QED BY <2>1, <2>4 DEF Reading
<1>9. CASE PassFin(r)
  <2>1. /\ pc[r] = "gather" /\ pc'[r] = "loop" /\ calls' = calls /\ iter'[r] = iter[r] + 1
    BY <1>1, <1>9 DEF PassFin, Goto, TypeOK
  <2>2. Pos(r) = 2 * iter[r] + 4 /\ iter[r] < Iters /\ Pos(r)' = Pos(r)
    BY <1>1, <2>1 DEF Position, Pos
  <2>3. \A x \in Byte : lbuf[r][x] = iter[r] + 1
    BY <1>1, <2>2, SMT DEF Fresh
  <2>4. ~(Pos(r)' >= 2 * iter'[r] + 4)
    BY <1>1, <2>1, <2>2, SMT
  <2>5. Fresh(r)'
    BY <1>2, <2>1, <2>3, <2>4 DEF Fresh
  <2> QED BY <2>1, <2>5 DEF Reading
<1> QED BY <1>5, <1>6, <1>7, <1>8, <1>9 DEF RankStep

(* Each step within the lists keeps what the receivers have read.          *)
LEMMA DataStep ==
    ASSUME IInv, IInv', Data, ElementsExist, [Next]_vars
    PROVE  Data'
<1> USE SenderAssumption
<1>1. CASE UNCHANGED vars
  BY <1>1 DEF vars, loopvars, Data, Reading, Fresh, Sum, Pos, NBlocks
<1>2. SUFFICES ASSUME NEW r \in Rank, RankStep(r) \/ Launcher(r), NEW q \in Receiver
               PROVE  Reading(q)' /\ Fresh(q)'
  BY <1>1 DEF Next, Terminating, Data
<1>3. CASE q = r
  <2>1. CASE ReadRemote(r) \/ ReadFails(r)
    BY <1>3, <2>1, ReadStep
  <2>2. CASE ~ReadRemote(r) /\ ~ReadFails(r)
    BY <1>2, <1>3, <2>2, OwnData
  <2> QED BY <2>1, <2>2
<1>4. CASE q # r
  <2>1. /\ TypeOK /\ Reading(q) /\ Fresh(q) /\ q \in Rank /\ iter[q] \in Nat
        /\ Pos(Sender) \in Nat /\ Pos(Sender)' \in Nat
    <3>1. TypeOK /\ TypeOK' /\ Reading(q) /\ Fresh(q) /\ q \in Rank
      BY DEF IInv, Data, Receiver
    <3>2. iter[q] \in 0 .. Iters /\ calls \in [Rank -> Seq(Collective)]
          /\ calls' \in [Rank -> Seq(Collective)]
      BY <3>1 DEF TypeOK
    <3>3. Pos(Sender) \in Nat /\ iter[q] \in Nat
      BY <3>2, PosNat, SMT
    <3>4. Pos(Sender)' \in Nat
      <4>1. calls'[Sender] \in Seq(Collective)
        BY <3>2
      <4> QED BY <4>1, SMT DEF Pos
    <3> QED BY <3>1, <3>3, <3>4
  <2>2. /\ pc'[q] = pc[q] /\ Pos(q)' = Pos(q) /\ iter'[q] = iter[q] /\ lbuf'[q] = lbuf[q]
        /\ iovoff'[q] = iovoff[q] /\ copied'[q] = copied[q] /\ blocksize' = blocksize
        /\ NBlocks' = NBlocks
    BY <1>2, <1>4, <2>1, OthersKeep DEF Pos, NBlocks
  <2>3. Pos(Sender)' >= Pos(Sender)
    <3>1. CASE r = Sender
      BY <1>2, <3>1, OwnCounters
    <3>2. CASE r # Sender
      BY <1>2, <2>1, <3>2, OthersKeep, SMT DEF Pos
    <3> QED BY <3>1, <3>2
  <2>4. Reading(q)'
    BY <2>1, <2>2 DEF Reading, Sum
  <2>5. Fresh(q)'
    BY <2>1, <2>2, <2>3, SMT DEF Fresh
  <2> QED BY <2>4, <2>5
<1> QED BY <1>3, <1>4

(* Before the first round the buffers hold round 0: what was there before. *)
LEMMA InitData == Init => Data
<1> SUFFICES ASSUME Init, NEW r \in Receiver PROVE Reading(r) /\ Fresh(r)
  BY DEF Data
<1>1. /\ r \in Rank /\ pc[r] = "setup" /\ iter[r] = 0 /\ \A x \in Byte : lbuf[r][x] = 0
      /\ Len(calls[r]) = 0
  BY SMT DEF Init, Receiver
<1> QED BY <1>1, SMT DEF Reading, Fresh, Pos

(* When the sender is at the head of its loop everybody holds exactly the  *)
(* rounds it counts: dead or alive, ahead of it or behind.                 *)
LEMMA HeldRounds ==
    ASSUME IInv, Data, Pos(Sender) = 2 * iter[Sender] + 2,
           NEW r \in Receiver, NEW x \in Byte
    PROVE  lbuf[r][x] = iter[Sender]
<1>1. /\ r # Sender /\ r \in Rank /\ iter[r] \in 0 .. Iters /\ iter[Sender] \in 0 .. Iters
      /\ Iters \in Nat /\ Pos(r) \in Nat /\ Pos(Sender) \in Nat
      /\ Bounds(r) /\ Lag(r) /\ Ahead(r) /\ Fresh(r)
  BY SenderAssumption, LoopAssumption, PosNat, SMT DEF IInv, Control, TypeOK, Data, Receiver, Iters
<1>2. iter[r] <= iter[Sender]
  BY <1>1, SMT DEF Ahead
<1>3. iter[Sender] <= iter[r] + 1
  BY <1>1, SMT DEF Bounds, Lag
<1>4. CASE iter[r] = iter[Sender]
  BY <1>1, <1>4, SMT DEF Fresh
<1>5. CASE iter[Sender] = iter[r] + 1
  <2>1. iter[r] < Iters /\ Pos(r) >= 2 * iter[r] + 4
    BY <1>1, <1>5, SMT DEF Lag
  <2> QED BY <1>1, <1>5, <2>1 DEF Fresh
<1> QED BY <1>1, <1>2, <1>3, <1>4, <1>5, SMT

-----------------------------------------------------------------------------
(* As long as no call leaves the lists, the buffers hold whole rounds.     *)
LEMMA DataHolds == Spec /\ []ElementsExist => []Data
<1> QED BY InitData, Inductive, DataStep, PTL DEF Spec

(* If no call leaves the lists, the timed interval holds exactly the       *)
(* NumIter timed rounds, all of them read completely.                      *)
THEOREM TimedRoundsHold == Spec /\ []ElementsExist => TimedRounds
<1>1. IInv /\ Data /\ [Next]_vars =>
        [clock' # clock =>
           \A r \in Receiver : \A x \in Byte :
             lbuf[r][x] = IF clock' = "running" THEN SkipIter ELSE Iters]_vars
  <2> SUFFICES ASSUME IInv, Data, NEW s \in Rank, RankStep(s) \/ Launcher(s), clock' # clock,
                      NEW r \in Receiver, NEW x \in Byte
               PROVE  lbuf[r][x] = IF clock' = "running" THEN SkipIter ELSE Iters
    BY DEF Next, Terminating, vars
  <2>1. \/ StartRound(s) /\ s = Sender /\ iter[s] = SkipIter /\ clock' = "running"
        \/ EndLoop(s) /\ s = Sender /\ clock' = "stopped"
    BY DEF RankStep, Launcher, DivideByZero, Setup, PassPid, PassStartBarrier, StartRound, BeginRound,
           PassRts, ReadRemote, ReadFails, AssertFails, SendFin, PassFin, EndLoop, LeaveLoop, Finish,
           StartsClock
  <2>2. s = Sender /\ pc[Sender] = "loop"
    BY <2>1 DEF StartRound, EndLoop
  <2>3. Pos(Sender) = 2 * iter[Sender] + 2
    BY <2>2, SenderAssumption DEF IInv, Control, Position
  <2>4. lbuf[r][x] = iter[Sender]
    BY <2>3, HeldRounds
  <2>5. EndLoop(s) => iter[s] = Iters
    <3>1. iter[s] \in 0 .. Iters /\ Iters \in Nat
      BY LoopAssumption, SMT DEF IInv, TypeOK, Iters
    <3> QED BY <3>1, SMT DEF EndLoop, LeaveLoop, MoreRounds
  <2> QED BY <2>1, <2>4, <2>5
<1> QED BY <1>1, Inductive, DataHolds, PTL DEF TimedRounds, Spec

-----------------------------------------------------------------------------
(* A round whose blocks fit one call, or make up a whole number of calls,  *)
(* stays inside the lists.                                                 *)
WholeCalls ==
    \A b \in BlockSizes \ {0} : BufSize \div b <= IovMax \/ (BufSize \div b) % IovMax = 0

CallInv ==
    \A r \in Receiver : pc[r] = "copy" => \E k \in Nat : iovoff[r] = CurrBlks * k

(* After a whole number of calls the next one has all its elements.        *)
LEMMA WholeNumber ==
    ASSUME WholeCalls, TypeOK, blocksize > 0, NEW r \in Receiver, iovoff[r] < NBlocks,
           NEW k \in Nat, iovoff[r] = CurrBlks * k
    PROVE  Valid(r) = CurrBlks /\ CurrBlks \in Nat /\ iovoff[r] + CurrBlks = CurrBlks * (k + 1)
<1>1. /\ blocksize \in Nat \ {0} /\ blocksize \in BlockSizes /\ NBlocks \in Nat
      /\ CurrBlks = (IF NBlocks <= IovMax THEN NBlocks ELSE IovMax)
      /\ CurrBlks \in Nat \ {0} /\ iovoff[r] \in Nat /\ IovMax \in Nat \ {0}
      /\ Valid(r) = IF CurrBlks <= NBlocks - iovoff[r] THEN CurrBlks ELSE NBlocks - iovoff[r]
  BY CallLength, CmaAssumption DEF TypeOK
<1>2. PICK m \in Nat : NBlocks = CurrBlks * m
  <2>1. CASE NBlocks <= IovMax
    <3>1. NBlocks = CurrBlks * 1
      BY <1>1, <2>1, SMT
    <3>2. 1 \in Nat
      BY SMT
    <3> QED BY <3>1, <3>2, Zenon
  <2>2. CASE ~(NBlocks <= IovMax)
    <3>1. CurrBlks = IovMax /\ NBlocks % IovMax = 0
      BY <1>1, <2>2 DEF WholeCalls, NBlocks
    <3>2. NBlocks \div IovMax \in Nat /\ NBlocks = IovMax * (NBlocks \div IovMax) + 0
      <4>1. NBlocks \in Int /\ NBlocks \div IovMax \in Nat
        BY <1>1, SMT
      <4> QED BY <1>1, <3>1, <4>1, DivMod
    <3>3. NBlocks = CurrBlks * (NBlocks \div IovMax)
      BY <1>1, <3>1, <3>2, SMT
    <3> QED BY <3>2, <3>3, Zenon
  <2> QED BY <2>1, <2>2
<1>3. CurrBlks * (k + 1) = CurrBlks * k + CurrBlks /\ CurrBlks * k \in Nat
  BY <1>1, SMT
<1>4. k < m
  <2> SUFFICES ASSUME m <= k PROVE FALSE
    BY SMT
  <2>1. m * CurrBlks <= k * CurrBlks
    BY <1>1, MulMonotone
  <2>2. m * CurrBlks = CurrBlks * m /\ k * CurrBlks = CurrBlks * k
    BY <1>1, SMT
  <2> QED BY <1>1, <1>2, <2>1, <2>2, SMT
<1>5. CurrBlks * (k + 1) <= NBlocks
  <2>1. (k + 1) * CurrBlks <= m * CurrBlks
    BY <1>1, <1>4, MulMonotone, SMT
  <2>2. m * CurrBlks = CurrBlks * m /\ (k + 1) * CurrBlks = CurrBlks * (k + 1)
    BY <1>1, SMT
  <2> QED BY <1>2, <2>1, <2>2
<1> QED BY <1>1, <1>3, <1>5, SMT

(* iov_off stays a whole number of calls in every step.                    *)
LEMMA CallStep ==
    ASSUME WholeCalls, IInv, CallInv, [Next]_vars
    PROVE  CallInv'
<1>1. CASE UNCHANGED vars
  BY <1>1 DEF vars, loopvars, CallInv, CurrBlks, NBlocks
<1>2. SUFFICES ASSUME NEW s \in Rank, RankStep(s) \/ Launcher(s), NEW r \in Receiver,
                      pc'[r] = "copy"
               PROVE  \E k \in Nat : iovoff'[r] = CurrBlks' * k
  BY <1>1 DEF Next, Terminating, CallInv
<1>3. TypeOK /\ r \in Rank /\ CurrBlks' = CurrBlks
  <2>1. TypeOK /\ r \in Rank
    BY DEF IInv, Receiver
  <2>2. blocksize' = blocksize
    BY <1>2, <2>1, OthersKeep
  <2> QED BY <2>1, <2>2 DEF CurrBlks, NBlocks
<1>4. CASE s # r
  <2>1. pc'[r] = pc[r] /\ iovoff'[r] = iovoff[r]
    BY <1>2, <1>3, <1>4, OthersKeep
  <2> QED BY <1>2, <1>3, <2>1 DEF CallInv
<1>5. CASE s = r /\ (ReadRemote(s) \/ ReadFails(s))
  <2>1. pc[r] = "copy" /\ blocksize > 0 /\ iovoff[r] < NBlocks
    BY <1>5, CallCounts
  <2>2. PICK k \in Nat : iovoff[r] = CurrBlks * k
    BY <2>1 DEF CallInv
  <2>3. iovoff'[r] = iovoff[r] + CurrBlks
    BY <1>3, <1>5 DEF ReadRemote, ReadFails, Account, TypeOK
  <2>4. iovoff[r] + CurrBlks = CurrBlks * (k + 1) /\ k + 1 \in Nat
    BY <1>3, <2>1, <2>2, WholeNumber, SMT
  <2> QED BY <1>3, <2>3, <2>4, Zenon
<1>6. CASE s = r /\ PassRts(s)
  <2>1. pc[r] = "bcast" /\ iovoff'[r] = 0
    BY <1>3, <1>6 DEF PassRts, TypeOK, Receiver
  <2>2. blocksize > 0
    BY <2>1, <1>3 DEF IInv, Control, Position
  <2>3. CurrBlks * 0 = 0 /\ 0 \in Nat
    <3>1. CurrBlks \in Nat
      BY <1>3, <2>2, CallLength, CmaAssumption
    <3> QED BY <3>1, SMT
  <2> QED BY <1>3, <2>1, <2>3
<1>7. ASSUME s = r, ~ReadRemote(s), ~ReadFails(s), ~PassRts(s)
      PROVE  FALSE
  BY <1>2, <1>3, <1>7 DEF TypeOK, RankStep, Launcher, Kill, DivideByZero, Setup, PassPid, PassStartBarrier,
     StartRound, AssertFails, SendFin, PassFin, EndLoop, Finish, Goto
<1> QED BY <1>4, <1>5, <1>6, <1>7

(* Every element handed to process_vm_readv is one of the lists', if the   *)
(* block size makes whole calls: the overrun needs one that does not.      *)
THEOREM ElementsExistIfWhole ==
    ASSUME WholeCalls PROVE Spec => []ElementsExist
<1>1. Init => CallInv
  BY DEF Init, CallInv, Receiver
<1>2. IInv /\ CallInv => ElementsExist
  <2> SUFFICES ASSUME IInv, CallInv, NEW r \in Receiver, pc[r] = "copy", MoreToRead(r)
               PROVE  Valid(r) = CurrBlks
    BY DEF ElementsExist
  <2>1. TypeOK /\ blocksize > 0 /\ iovoff[r] < NBlocks
    BY DEF IInv, Control, Position, Receiver, MoreToRead
  <2>2. PICK k \in Nat : iovoff[r] = CurrBlks * k
    BY DEF CallInv
  <2> QED BY <2>1, <2>2, WholeNumber
<1>3. IInv /\ CallInv /\ [Next]_vars => CallInv'
  BY CallStep
<1> QED BY <1>1, <1>2, <1>3, Inductive, PTL DEF Spec

(* Such a round is timed rightly, without a further assumption.            *)
THEOREM TimedRoundsHoldIfWhole ==
    ASSUME WholeCalls PROVE Spec => TimedRounds
<1> QED BY ElementsExistIfWhole, TimedRoundsHold, PTL

-----------------------------------------------------------------------------
(* The refinement of Transfer.  The rounds announced are a function of the *)
(* sender's position, and its clock has stopped only behind the last one.  *)
AnnouncedInv ==
    Announced = IF iter[Sender] < Iters /\ Pos(Sender) >= 2 * iter[Sender] + 3
                THEN iter[Sender] + 1 ELSE iter[Sender]
ClockInv == clock = "stopped" => iter[Sender] = Iters

(* What a receiver holds: the round it is in once it has read all of it.   *)
HeldInv ==
    \A r \in Receiver :
        /\ (\A x \in Byte : lbuf[r][x] = iter[r] + 1) => Oldest(lbuf[r]) = iter[r] + 1
        /\ (\E x \in Byte : lbuf[r][x] = iter[r]) => Oldest(lbuf[r]) = iter[r]
        /\ (\A x \in Byte : lbuf[r][x] = iter[r] + 1) \/ (\E x \in Byte : lbuf[r][x] = iter[r])

(* The oldest round in a buffer, from any lower bound it reaches.          *)
LEMMA OldestIs ==
    ASSUME NEW buf, NEW v \in Nat, \A x \in Byte : buf[x] \in Nat /\ buf[x] >= v,
           NEW y \in Byte, buf[y] = v
    PROVE  Oldest(buf) = v
<1> DEFINE S == {buf[x] : x \in Byte}
           M(w) == w \in S /\ \A z \in S : w <= z
<1>1. M(v)
  BY SMT
<1>2. \A w : M(w) => w = v
  <2> SUFFICES ASSUME NEW w, M(w) PROVE w = v
    OBVIOUS
  <2>1. w \in Nat /\ w <= v /\ v <= w
    BY <1>1
  <2> QED BY <2>1, SMT
<1>3. Oldest(buf) = CHOOSE w \in S : \A z \in S : w <= z
  BY DEF Oldest, Min
<1> HIDE DEF S
<1>4. (CHOOSE w \in S : \A z \in S : w <= z) = v
  BY <1>1, <1>2
<1> QED BY <1>3, <1>4

(* A receiver holds its round once all of its bytes are of that round.     *)
LEMMA HeldIs == IInv /\ Data => HeldInv
<1> SUFFICES ASSUME IInv, Data, NEW r \in Receiver
             PROVE  /\ (\A x \in Byte : lbuf[r][x] = iter[r] + 1) => Oldest(lbuf[r]) = iter[r] + 1
                    /\ (\E x \in Byte : lbuf[r][x] = iter[r]) => Oldest(lbuf[r]) = iter[r]
                    /\ \/ \A x \in Byte : lbuf[r][x] = iter[r] + 1
                       \/ \E x \in Byte : lbuf[r][x] = iter[r]
  BY DEF HeldInv
<1>1. /\ 0 \in Byte /\ iter[r] \in Nat /\ iter[r] + 1 \in Nat /\ Fresh(r)
  <2>1. Fresh(r) /\ iter[r] \in 0 .. Iters
    BY DEF Data, IInv, TypeOK, Receiver
  <2> QED BY <2>1, ArgsAssumption, SMT DEF Byte
<1>2. \A x \in Byte : lbuf[r][x] = iter[r] \/ lbuf[r][x] = iter[r] + 1
  BY <1>1 DEF Fresh
<1>3. ASSUME \A x \in Byte : lbuf[r][x] = iter[r] + 1
      PROVE  Oldest(lbuf[r]) = iter[r] + 1
  <2>1. \A x \in Byte : lbuf[r][x] \in Nat /\ lbuf[r][x] >= iter[r] + 1
    BY <1>1, <1>3, SMT
  <2> QED BY <1>1, <1>3, <2>1, OldestIs
<1>4. ASSUME NEW y \in Byte, lbuf[r][y] = iter[r]
      PROVE  Oldest(lbuf[r]) = iter[r]
  <2>1. \A x \in Byte : lbuf[r][x] \in Nat /\ lbuf[r][x] >= iter[r]
    BY <1>1, <1>2, SMT
  <2> QED BY <1>1, <1>4, <2>1, OldestIs
<1> QED BY <1>2, <1>3, <1>4

(* A Bcast after the first announces a round; no other call does.          *)
LEMMA EnterAnnounces ==
    ASSUME TypeOK, NEW op \in Collective, Enter(Sender, op)
    PROVE  /\ Pos(Sender) = 0 => Announced' = 0
           /\ Pos(Sender) > 0 =>
                 Announced' = IF op = "bcast" THEN Announced + 1 ELSE Announced
<1>1. Announced = LaterBcasts /\ Announced' = LaterBcasts'
  BY DEF Announced, LaterBcasts, Calls
<1> QED BY <1>1, EnterCounts DEF TypeOK

(* The sender's history and loop counter, step by step.                    *)
LEMMA AnnouncedStep ==
    ASSUME IInv, AnnouncedInv, ClockInv, [Next]_vars
    PROVE  AnnouncedInv' /\ ClockInv'
<1> USE SenderAssumption
<1>1. /\ TypeOK /\ Position(Sender) /\ iter[Sender] \in Nat /\ Pos(Sender) \in Nat
      /\ Iters \in Nat \ {0} /\ iter[Sender] <= Iters
  BY PosNat, LoopAssumption, SMT DEF IInv, Control, TypeOK, Iters
<1>2. CASE UNCHANGED vars
  BY <1>2 DEF vars, AnnouncedInv, ClockInv, Announced, Pos
<1>3. SUFFICES ASSUME NEW r \in Rank, RankStep(r) \/ Launcher(r)
               PROVE  AnnouncedInv' /\ ClockInv'
  BY <1>2 DEF Next, Terminating
<1>4. CASE r # Sender
  <2>1. clock' = clock
    BY <1>3, <1>4 DEF RankStep, Launcher, DivideByZero, Setup, PassPid, PassStartBarrier, StartRound,
       BeginRound, PassRts, ReadRemote, ReadFails, AssertFails, SendFin, PassFin, EndLoop, LeaveLoop,
       Finish
  <2>2. iter'[Sender] = iter[Sender] /\ calls'[Sender] = calls[Sender]
    BY <1>1, <1>3, <1>4, OthersKeep
  <2> QED BY <2>1, <2>2 DEF AnnouncedInv, ClockInv, Announced, Pos
<1>5. CASE r = Sender
  <2>1. CASE UNCHANGED <<calls, iter, clock>>
    BY <2>1 DEF AnnouncedInv, ClockInv, Announced, Pos
  <2>2. CASE Setup(r)
    <3>1. /\ Pos(r) = 0 /\ iter[r] = 0 /\ Enter(r, "bcast") /\ UNCHANGED <<iter, clock>>
          /\ "bcast" \in Collective
      BY <1>1, <1>5, <2>2 DEF Setup, Position, Collective
    <3>2. Pos(r)' = 1 /\ Announced' = 0
      BY <1>1, <1>5, <3>1, EnterPos, EnterAnnounces DEF TypeOK
    <3> QED BY <1>1, <1>5, <3>1, <3>2, SMT DEF AnnouncedInv, ClockInv
  <2>3. CASE PassPid(r)
    <3>1. /\ Pos(r) = 1 /\ iter[r] = 0 /\ Enter(r, "barrier") /\ UNCHANGED <<iter, clock>>
          /\ "barrier" \in Collective
      BY <1>1, <1>5, <2>3 DEF PassPid, Position, Collective
    <3>2. Pos(r)' = 2 /\ Announced' = Announced
      BY <1>1, <1>5, <3>1, EnterPos, EnterAnnounces DEF TypeOK
    <3> QED BY <1>1, <1>5, <3>1, <3>2, SMT DEF AnnouncedInv, ClockInv
  <2>4. CASE StartRound(r)
    <3>1. /\ Pos(r) = 2 * iter[r] + 2 /\ iter[r] < Iters /\ Enter(r, "bcast")
          /\ iter' = iter /\ clock' \in {clock, "running"} /\ "bcast" \in Collective
      BY <1>1, <1>5, <2>4 DEF StartRound, BeginRound, MoreRounds, Position, Collective
    <3>2. Pos(r)' = 2 * iter[r] + 3 /\ Announced' = Announced + 1
      BY <1>1, <1>5, <3>1, EnterPos, EnterAnnounces, SMT DEF TypeOK
    <3> QED BY <1>1, <1>5, <3>1, <3>2, SMT DEF AnnouncedInv, ClockInv
  <2>5. CASE PassRts(r)
    <3>1. /\ Pos(r) = 2 * iter[r] + 3 /\ iter[r] < Iters /\ Enter(r, "gather")
          /\ UNCHANGED <<iter, clock>> /\ "gather" \in Collective
      BY <1>1, <1>5, <2>5 DEF PassRts, Position, Collective
    <3>2. Pos(r)' = 2 * iter[r] + 4 /\ Announced' = Announced
      BY <1>1, <1>5, <3>1, EnterPos, EnterAnnounces, SMT DEF TypeOK
    <3> QED BY <1>1, <1>5, <3>1, <3>2, SMT DEF AnnouncedInv, ClockInv
  <2>6. CASE PassFin(r)
    <3>1. /\ Pos(r) = 2 * iter[r] + 4 /\ iter[r] < Iters /\ UNCHANGED <<calls, clock>>
          /\ iter'[r] = iter[r] + 1
      BY <1>1, <1>5, <2>6 DEF PassFin, Position, TypeOK
    <3>2. Pos(r)' = Pos(r) /\ Announced' = Announced
      BY <3>1 DEF Pos, Announced
    <3> QED BY <1>1, <1>5, <3>1, <3>2, SMT DEF AnnouncedInv, ClockInv
  <2>7. CASE EndLoop(r)
    <3>1. /\ Pos(r) = 2 * iter[r] + 2 /\ iter' = iter /\ ~(iter[r] < Iters) /\ Enter(r, "barrier")
          /\ "barrier" \in Collective
      BY <1>1, <1>5, <2>7 DEF EndLoop, LeaveLoop, MoreRounds, Position, Collective
    <3>2. iter[r] = Iters /\ Announced' = Announced
      BY <1>1, <1>5, <3>1, EnterAnnounces, SMT
    <3> QED BY <1>1, <1>5, <3>1, <3>2, SMT DEF AnnouncedInv, ClockInv
  <2>8. ~SendFin(r)
    BY <1>1, <1>5 DEF Position, SendFin
  <2> QED BY <1>3, <2>1, <2>2, <2>3, <2>4, <2>5, <2>6, <2>7, <2>8
          DEF RankStep, Launcher, Kill, DivideByZero, PassStartBarrier, ReadRemote, ReadFails,
              AssertFails, Finish
<1> QED BY <1>4, <1>5

(* Each step is a step of Transfer or leaves all three of its variables    *)
(* alone: the RTS of the sender publishes, the call that reads the last    *)
(* byte takes, and the sender reports when it leaves the loop.             *)
RInv == IInv /\ Data /\ AnnouncedInv /\ ClockInv
Held == [r \in Receiver |-> Oldest(lbuf[r])]
tvars == <<Announced, [r \in Receiver |-> Oldest(lbuf[r])], clock = "stopped">>

(* A call that reads: the buffer it fills gets nothing older.              *)
LEMMA ReadTakes ==
    ASSUME RInv, HeldInv, HeldInv', NEW r \in Rank, ReadRemote(r)
    PROVE  (Abstract!Take(r) /\ r \in Receiver) \/ UNCHANGED tvars
<1> USE SenderAssumption
<1>1. /\ TypeOK /\ r \in Receiver /\ Position(r) /\ pc[r] = "copy"
      /\ Bounds(Sender) /\ Lag(r) /\ UNCHANGED <<calls, iter, clock>>
  BY CallCounts DEF RInv, IInv, Control, ReadRemote
<1>2. /\ iter[r] \in Nat /\ iter[Sender] \in Nat /\ Pos(Sender) \in Nat
  <2>1. iter[r] \in 0 .. Iters /\ iter[Sender] \in 0 .. Iters
    BY <1>1 DEF TypeOK, Receiver
  <2> QED BY <1>1, <2>1, PosNat, SMT DEF TypeOK
<1>3. /\ iter[r] < Iters /\ iter[r] = iter[Sender] /\ Pos(Sender) >= 2 * iter[r] + 3
  BY <1>1, <1>2, SMT DEF Position, Bounds, Lag
<1>4. Announced = iter[r] + 1 /\ Announced' = Announced
  BY <1>1, <1>3 DEF RInv, AnnouncedInv, Announced
<1>5. /\ \A q \in Receiver \ {r} : lbuf'[q] = lbuf[q]
      /\ \A x \in Byte : lbuf'[r][x] = lbuf[r][x] \/ lbuf'[r][x] = iter[r] + 1
  <2>1. PICK n \in 1 .. Valid(r) : lbuf' = [lbuf EXCEPT ![r] =
                  [x \in Byte |->
                     IF (x \div blocksize) \in iovoff[r] .. iovoff[r] + n - 1
                     THEN iter[r] + 1 ELSE lbuf[r][x]]]
    BY DEF ReadRemote
  <2> QED BY <1>1, <2>1 DEF TypeOK
<1>6. Oldest(lbuf[r])' = Oldest(lbuf'[r])
  BY DEF Oldest, Byte
<1>7. Oldest(lbuf'[r]) \in {iter[r], iter[r] + 1}
  <2>1. Oldest(lbuf[r])' = iter'[r] + 1 \/ Oldest(lbuf[r])' = iter'[r]
    BY <1>1 DEF HeldInv
  <2> QED BY <1>1, <1>6, <2>1
<1>8. Oldest(lbuf[r]) \in {iter[r], iter[r] + 1}
  BY <1>1 DEF HeldInv
<1>9. CASE Oldest(lbuf'[r]) = Oldest(lbuf[r])
  BY <1>1, <1>4, <1>5, <1>9 DEF tvars
<1>10. CASE Oldest(lbuf[r]) = iter[r] /\ Oldest(lbuf'[r]) = iter[r] + 1
  <2>1. Held' = [Held EXCEPT ![r] = Announced]
    BY <1>1, <1>4, <1>5, <1>10 DEF Held
  <2>2. Held[r] < Announced
    BY <1>1, <1>2, <1>4, <1>10, SMT DEF Held
  <2> QED BY <1>1, <1>4, <2>1, <2>2 DEF Abstract!Take, Held
<1>11. CASE Oldest(lbuf[r]) = iter[r] + 1 /\ Oldest(lbuf'[r]) = iter[r]
  <2>1. iter[r] + 1 # iter[r]
    BY <1>2, SMT
  <2>2. \A x \in Byte : lbuf[r][x] = iter[r] + 1
    BY <1>1, <1>11, <2>1 DEF HeldInv
  <2>3. \A x \in Byte : lbuf'[r][x] = iter'[r] + 1
    BY <1>1, <1>5, <2>2
  <2>4. Oldest(lbuf[r])' = iter'[r] + 1
    BY <1>1, <2>3 DEF HeldInv, Byte
  <2> QED BY <1>1, <1>6, <1>11, <2>1, <2>4
<1> QED BY <1>7, <1>8, <1>9, <1>10, <1>11

(* Each step of cma_dt is a step of Transfer or leaves its variables alone. *)
LEMMA StepSimulates ==
    ASSUME RInv, HeldInv, HeldInv', [Next]_vars
    PROVE  Abstract!Next \/ UNCHANGED tvars
<1> USE SenderAssumption
<1>1. /\ IInv /\ TypeOK /\ Position(Sender) /\ iter[Sender] \in Nat /\ Pos(Sender) \in Nat
      /\ Iters \in Nat \ {0} /\ iter[Sender] <= Iters
  BY PosNat, LoopAssumption, SMT DEF RInv, IInv, Control, TypeOK, Iters
<1>2. CASE UNCHANGED vars
  BY <1>2 DEF vars, tvars, Announced
<1>3. SUFFICES ASSUME NEW r \in Rank, RankStep(r) \/ Launcher(r)
               PROVE  Abstract!Next \/ UNCHANGED tvars
  BY <1>2 DEF Next, Terminating
(* When the sender is at the head of its loop everybody holds exactly the  *)
(* rounds it counts.                                                       *)
<1>4. ASSUME Pos(Sender) = 2 * iter[Sender] + 2, NEW q \in Receiver
      PROVE  Oldest(lbuf[q]) = iter[Sender]
  <2>1. \A x \in Byte : lbuf[q][x] = iter[Sender]
    BY <1>4, HeldRounds DEF RInv
  <2>2. 0 \in Byte
    BY ArgsAssumption, SMT DEF Byte
  <2>3. \A x \in Byte : lbuf[q][x] \in Nat /\ lbuf[q][x] >= iter[Sender]
    BY <1>1, <2>1, SMT
  <2> QED BY <1>1, <2>1, <2>2, <2>3, OldestIs
<1>5. CASE ReadRemote(r)
  BY <1>5, ReadTakes DEF RInv, Abstract!Next
<1>6. CASE StartRound(r) /\ r = Sender
  <2>1. /\ pc[r] = "loop" /\ lbuf' = lbuf /\ Enter(r, "bcast") /\ iter[r] < Iters
        /\ clock' \in {clock, "running"} /\ "bcast" \in Collective
    BY <1>6 DEF StartRound, BeginRound, MoreRounds, Collective
  <2>2. Pos(Sender) = 2 * iter[Sender] + 2
    BY <1>1, <1>6, <2>1 DEF Position
  <2>3. Announced = iter[Sender]
    BY <1>1, <2>2, SMT DEF RInv, AnnouncedInv
  <2>4. Announced' = Announced + 1
    BY <1>1, <1>6, <2>1, <2>2, EnterAnnounces, SMT
  <2>5. clock # "stopped" /\ clock' # "stopped"
    BY <1>1, <1>6, <2>1 DEF RInv, ClockInv
  <2>6. Abstract!Publish
    BY <1>1, <1>4, <1>6, <2>1, <2>2, <2>3, <2>4, <2>5 DEF Abstract!Publish
  <2> QED BY <2>6 DEF Abstract!Next
<1>7. CASE EndLoop(r) /\ r = Sender
  <2>1. /\ pc[r] = "loop" /\ UNCHANGED lbuf /\ Enter(r, "barrier")
        /\ iter[r] = Iters /\ clock' = "stopped" /\ "barrier" \in Collective
    BY <1>1, <1>7, SMT DEF EndLoop, LeaveLoop, MoreRounds, Collective
  <2>2. Pos(Sender) = 2 * iter[Sender] + 2 /\ Pos(Sender) > 0
    BY <1>1, <1>7, <2>1, SMT DEF Position
  <2>3. Announced = Iters /\ Announced' = Announced
    BY <1>1, <1>7, <2>1, <2>2, EnterAnnounces DEF RInv, AnnouncedInv
  <2>4. Abstract!Report
    BY <1>4, <1>7, <2>1, <2>2, <2>3 DEF Abstract!Report
  <2> QED BY <2>4 DEF Abstract!Next
<1>8. CASE (PassPid(r) \/ PassRts(r)) /\ r = Sender
  <2>1. /\ UNCHANGED <<lbuf, clock>> /\ (Enter(r, "barrier") \/ Enter(r, "gather"))
        /\ {"barrier", "gather"} \subseteq Collective
    BY <1>8 DEF PassPid, PassRts, Collective
  <2>2. Pos(Sender) > 0
    BY <1>1, <1>8, SMT DEF PassPid, PassRts, Position
  <2>3. Announced' = Announced
    BY <1>1, <1>8, <2>1, <2>2, EnterAnnounces
  <2> QED BY <2>1, <2>3 DEF tvars
<1>9. CASE Setup(r) /\ r = Sender
  <2>1. /\ UNCHANGED <<lbuf, clock>> /\ Enter(r, "bcast") /\ "bcast" \in Collective
        /\ Pos(Sender) = 0 /\ iter[Sender] = 0
    BY <1>1, <1>9 DEF Setup, Position, Collective
  <2>2. Announced' = 0
    BY <1>1, <1>9, <2>1, EnterAnnounces
  <2>3. Announced = 0
    BY <2>1, SMT DEF RInv, AnnouncedInv
  <2> QED BY <2>1, <2>2, <2>3 DEF tvars
<1>10. CASE r # Sender /\ ~ReadRemote(r)
  <2>1. UNCHANGED <<lbuf, clock>>
    BY <1>3, <1>10 DEF RankStep, Launcher, DivideByZero, Setup, PassPid, PassStartBarrier, StartRound,
       BeginRound, PassRts, ReadFails, AssertFails, SendFin, PassFin, EndLoop, LeaveLoop, Finish
  <2>2. calls'[Sender] = calls[Sender]
    BY <1>1, <1>3, <1>10, OthersKeep
  <2> QED BY <2>1, <2>2 DEF tvars, Announced
<1>11. CASE \/ DivideByZero(r) \/ PassStartBarrier(r) \/ ReadFails(r)
            \/ AssertFails(r) \/ PassFin(r) \/ Finish(r) \/ Launcher(r)
  BY <1>11 DEF DivideByZero, PassStartBarrier, ReadFails, AssertFails, PassFin, Finish,
               Launcher, Kill, tvars, Announced
<1>12. r = Sender => ~SendFin(r)
  BY <1>1 DEF Position, SendFin
<1> QED BY <1>3, <1>5, <1>6, <1>7, <1>8, <1>9, <1>10, <1>11, <1>12 DEF RankStep

(* cma_dt implements the transfer every transport promises, as long as its *)
(* calls stay inside the lists.                                            *)
THEOREM Implements == Spec /\ []ElementsExist => ImplementsTransfer
<1>1. Init => Abstract!Init /\ AnnouncedInv /\ ClockInv
  <2> SUFFICES ASSUME Init PROVE Abstract!Init /\ AnnouncedInv /\ ClockInv
    OBVIOUS
  <2> USE SenderAssumption, ArgsAssumption, LoopAssumption
  <2>1. /\ Len(calls[Sender]) = 0 /\ clock = "off" /\ iter[Sender] = 0 /\ Pos(Sender) = 0
        /\ Iters \in Nat \ {0}
    BY SMT DEF Init, Pos, Iters
  <2>2. Announced = 0
    <3>1. Announced = Cardinality(Calls(2, calls[Sender], "bcast"))
      BY DEF Announced, Calls
    <3> QED BY <2>1, <3>1, NoCalls, SMT
  <2>3. \A r \in Receiver : Oldest(lbuf[r]) = 0
    <3> TAKE r \in Receiver
    <3>1. \A x \in Byte : lbuf[r][x] = 0
      BY DEF Init
    <3>2. 0 \in Byte /\ 0 \in Nat /\ 0 >= 0
      BY SMT DEF Byte
    <3> QED BY <3>1, <3>2, OldestIs
  <2>4. AnnouncedInv /\ ClockInv
    BY <2>1, <2>2, SMT DEF AnnouncedInv, ClockInv
  <2> QED BY <2>1, <2>2, <2>3, <2>4 DEF Abstract!Init
<1>2. IInv /\ AnnouncedInv /\ ClockInv /\ [Next]_vars => AnnouncedInv' /\ ClockInv'
  BY AnnouncedStep
<1>3. IInv /\ Data /\ AnnouncedInv /\ ClockInv => RInv /\ HeldInv
  BY HeldIs DEF RInv
<1>4. RInv /\ HeldInv /\ HeldInv' /\ [Next]_vars
        => [Abstract!Next]_<<Announced, [r \in Receiver |-> Oldest(lbuf[r])], clock = "stopped">>
  BY StepSimulates DEF tvars
<1> QED BY <1>1, <1>2, <1>3, <1>4, Inductive, DataHolds, PTL
        DEF Spec, ImplementsTransfer, Abstract!Spec

(* It does, without a further assumption, if rounds make whole calls.      *)
THEOREM ImplementsIfWhole ==
    ASSUME WholeCalls PROVE Spec => ImplementsTransfer
<1> QED BY ElementsExistIfWhole, Implements, PTL
=============================================================================
