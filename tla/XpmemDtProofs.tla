---------------------------- MODULE XpmemDtProofs ----------------------------
(***************************************************************************)
(* Proofs about XpmemDt, for any number of ranks and rounds, any block and *)
(* page size, and both programs.  In round i a rank has entered 2i+2       *)
(* collectives before its RTS, 2i+3 before its FIN and 2i+4 after it; a    *)
(* receiver whose attachment is refused in round i enters the last barrier *)
(* where the others enter the gather of that round.                        *)
(***************************************************************************)
EXTENDS XpmemDt, MpiProofs

-----------------------------------------------------------------------------
(* Where a rank is, told by its pc.                                        *)
Position(r) ==
    /\ pc[r] = "setup" => Pos(r) = 0 /\ iter[r] = 0
    /\ pc[r] = "segid" => Pos(r) = 1 /\ iter[r] = 0
    /\ pc[r] = "start_barrier" => Pos(r) = 2 /\ iter[r] = 0
    /\ pc[r] = "loop" => Pos(r) = 2 * iter[r] + 2
    /\ pc[r] = "bcast" => Pos(r) = 2 * iter[r] + 3 /\ iter[r] < Iters
    /\ pc[r] \in {"attach", "copy"} =>
           /\ r # Sender /\ iter[r] < Iters
           /\ Pos(r) = 2 * iter[r] + 3 /\ Pos(Sender) >= 2 * iter[r] + 3
    /\ pc[r] = "gather" => Pos(r) = 2 * iter[r] + 4 /\ iter[r] < Iters
    /\ pc[r] \in {"end_barrier", "done"} =>
           \/ Pos(r) = 2 * Iters + 3 /\ iter[r] = Iters
           \/ Pos(r) = 2 * iter[r] + 4 /\ iter[r] < Iters /\ r # Sender
    /\ pc[r] \notin {"setup", "crashed", "killed"} => blocksize > 0

(* What stays true of a rank after it has died as well.                    *)
Bounds(r) ==
    /\ Pos(r) <= 2 * iter[r] + 4
    /\ iter[r] = Iters => Pos(r) <= 2 * Iters + 3
    /\ r = Sender /\ freed[r] => iter[r] = Iters

(* The sender waits for everybody's FIN, a receiver for the sender's RTS.  *)
Lag(r) == iter[Sender] > 0 => Pos(r) >= 2 * iter[Sender] + 2
Ahead(r) ==
    /\ iter[r] > 0 => Pos(Sender) >= 2 * iter[r] + 1
    /\ r # Sender /\ iter[r] < Iters /\ Pos(r) >= 2 * iter[r] + 4 =>
           Pos(Sender) >= 2 * iter[r] + 3

Control == \A r \in Rank : Position(r) /\ Bounds(r) /\ Lag(r) /\ Ahead(r)

(* The permits of a receiver: one of every round, or one in all.           *)
Permits(r) ==
    /\ pc[r] \in {"setup", "segid", "start_barrier", "loop", "bcast"} =>
           apids[r] = IF ~use_cache THEN iter[r] ELSE IF iter[r] = 0 THEN 0 ELSE 1
    /\ pc[r] \in {"attach", "copy", "gather"} =>
           apids[r] = IF use_cache THEN 1 ELSE iter[r] + 1
    /\ pc[r] \in {"end_barrier", "done"} /\ use_cache => apids[r] = 0

(* Its attachments: all of them are in its list, so that the detach loop   *)
(* finds them, and there are none where a round that detaches is over.     *)
SegTo(r, n) == {seg[r][i] : i \in 0 .. n - 1}
Attached(r) ==
    /\ pc[r] \in {"setup", "segid", "start_barrier"} => live[r] = {}
    /\ pc[r] \in {"loop", "bcast"} /\ (~use_cache \/ iter[r] = 0 \/ iter[r] = Iters) =>
           live[r] = {}
    /\ pc[r] = "gather" /\ DetachNow(r) => live[r] = {}
    /\ pc[r] = "attach" =>
           AttachNow(r) /\ blk[r] <= NBlocks /\ live[r] \subseteq SegTo(r, blk[r])
    /\ pc[r] = "copy" => blk[r] <= NBlocks
    /\ pc[r] \in {"loop", "bcast", "copy", "gather"} => live[r] \subseteq SegTo(r, NBlocks)
    /\ pc[r] \in {"end_barrier", "done"} /\ iter[r] = Iters => live[r] = {}

Owned == \A r \in Receiver : Permits(r) /\ Attached(r)

IInv == TypeOK /\ Control /\ Owned

-----------------------------------------------------------------------------
(* A step of rank r leaves what belongs to the others alone.               *)
LEMMA OthersKeep ==
    ASSUME TypeOK, NEW r \in Rank, RankStep(r) \/ Launcher(r)
    PROVE  /\ blocksize' = blocksize /\ use_cache' = use_cache
           /\ \A q \in Rank \ {r} :
                 /\ pc'[q] = pc[q] /\ calls'[q] = calls[q] /\ iter'[q] = iter[q]
                 /\ freed'[q] = freed[q]
                 /\ q \in Receiver =>
                       /\ blk'[q] = blk[q] /\ lastpage'[q] = lastpage[q] /\ curr'[q] = curr[q]
                       /\ seg'[q] = seg[q] /\ live'[q] = live[q] /\ apids'[q] = apids[q]
                       /\ lbuf'[q] = lbuf[q]
<1>1. blocksize' = blocksize /\ use_cache' = use_cache
  BY DEF RankStep, Launcher, DivideByZero, Setup, PassSegid, PassStartBarrier, StartRound,
     PassRtsSender, PassRtsReceiver, AttachPage, ReusePage, PageRefused, AttachBlock, AttachDone,
     CopyBlock, Fault, SendFin, PassFin, EndLoop, Finish, config
<1>2. \A q \in Rank \ {r} : pc'[q] = pc[q] /\ calls'[q] = calls[q]
  BY DEF TypeOK, RankStep, Launcher, Kill, DivideByZero, Setup, PassSegid, PassStartBarrier, StartRound,
     PassRtsSender, PassRtsReceiver, AttachPage, ReusePage, PageRefused, AttachBlock, AttachDone,
     CopyBlock, Fault, SendFin, PassFin, EndLoop, Finish, Goto, Enter
<1>3. \A q \in Rank \ {r} : iter'[q] = iter[q] /\ freed'[q] = freed[q]
  BY DEF TypeOK, RankStep, Launcher, DivideByZero, Setup, PassSegid, PassStartBarrier, StartRound,
     PassRtsSender, PassRtsReceiver, AttachPage, ReusePage, PageRefused, AttachBlock, AttachDone,
     CopyBlock, Fault, SendFin, PassFin, EndLoop, Finish
<1>4. \A q \in Receiver \ {r} : /\ blk'[q] = blk[q] /\ lastpage'[q] = lastpage[q]
                                /\ curr'[q] = curr[q]
  BY DEF TypeOK, RankStep, Launcher, DivideByZero, Setup, PassSegid, PassStartBarrier, StartRound,
     PassRtsSender, PassRtsReceiver, AttachPage, ReusePage, PageRefused, AttachBlock, AttachDone,
     CopyBlock, Fault, SendFin, PassFin, EndLoop, Finish, attaching
<1>5. \A q \in Receiver \ {r} : seg'[q] = seg[q] /\ live'[q] = live[q]
  BY DEF TypeOK, RankStep, Launcher, DivideByZero, Setup, PassSegid, PassStartBarrier, StartRound,
     PassRtsSender, PassRtsReceiver, AttachPage, ReusePage, PageRefused, AttachBlock, AttachDone,
     CopyBlock, Fault, SendFin, PassFin, EndLoop, Finish, attaching
<1>6. \A q \in Receiver \ {r} : apids'[q] = apids[q] /\ lbuf'[q] = lbuf[q]
  BY DEF TypeOK, RankStep, Launcher, DivideByZero, Setup, PassSegid, PassStartBarrier, StartRound,
     PassRtsSender, PassRtsReceiver, AttachPage, ReusePage, PageRefused, AttachBlock, AttachDone,
     CopyBlock, Fault, SendFin, PassFin, EndLoop, Finish
<1> QED BY <1>1, <1>2, <1>3, <1>4, <1>5, <1>6

(* What a step does to the rank's own counters.                            *)
LEMMA OwnCounters ==
    ASSUME IInv, NEW r \in Rank, RankStep(r) \/ Launcher(r)
    PROVE  /\ Pos(r) \in Nat /\ Pos(r)' \in Nat /\ Pos(r)' >= Pos(r)
           /\ calls' \in [Rank -> Seq(Collective)]
           /\ \/ iter'[r] = iter[r]
              \/ /\ PassFin(r) /\ pc[r] = "gather" /\ iter'[r] = iter[r] + 1
                 /\ Pos(r)' = Pos(r)
                 /\ r = Sender => \A q \in Rank : Pos(q) >= Pos(r)
<1>1. TypeOK /\ \A q \in Rank : Pos(q) \in Nat
  BY PosNat DEF IInv, TypeOK
<1>2. calls' = calls \/ \E op \in Collective : Enter(r, op)
  BY DEF RankStep, Launcher, Kill, DivideByZero, Setup, PassSegid, PassStartBarrier, StartRound,
     PassRtsSender, PassRtsReceiver, AttachPage, ReusePage, PageRefused, AttachBlock, AttachDone,
     CopyBlock, Fault, SendFin, PassFin, EndLoop, Finish, Collective
<1>3. /\ calls' \in [Rank -> Seq(Collective)]
      /\ Pos(r)' = Pos(r) \/ Pos(r)' = Pos(r) + 1
  BY <1>1, <1>2, EnterPos DEF TypeOK, Pos
<1>4. CASE PassFin(r)
  BY <1>1, <1>3, <1>4, ReturnsPos, SMT DEF PassFin, FinReturns, Pos, TypeOK
<1>5. CASE ~PassFin(r)
  <2>1. iter' = iter
    BY <1>5 DEF RankStep, Launcher, DivideByZero, Setup, PassSegid, PassStartBarrier, StartRound,
       PassRtsSender, PassRtsReceiver, AttachPage, ReusePage, PageRefused, AttachBlock, AttachDone,
       CopyBlock, Fault, SendFin, EndLoop, Finish
  <2> QED BY <1>1, <1>3, <2>1, SMT
<1> QED BY <1>4, <1>5

(* Where block i lies, and the page it starts in.                          *)
LEMMA BlockPlace ==
    ASSUME TypeOK, blocksize > 0
    PROVE  /\ blocksize \in Nat \ {0} /\ NBlocks \in Nat /\ NBlocks <= BufSize
           /\ \A i \in Nat : i < NBlocks =>
                 /\ i \in Byte /\ i + 1 \in 0 .. BufSize
                 /\ i * blocksize \in Byte /\ blocksize <= BufSize
                 /\ PageOf(i) \in Byte /\ PageOf(i) * PageSize \in 0 .. BufSize
<1> USE ArgsAssumption, XpmemAssumption
<1>1. blocksize \in Nat \ {0} /\ BufSize \in Nat \ {0} /\ PageSize \in Nat \ {0}
  BY SMT DEF TypeOK
<1>2. NBlocks \in Nat
  BY <1>1, SMT DEF NBlocks
<1>3. ASSUME NEW i \in Nat, i < NBlocks
      PROVE  /\ i \in Byte /\ i + 1 \in 0 .. BufSize
             /\ i * blocksize \in Byte /\ blocksize <= BufSize
             /\ PageOf(i) \in Byte /\ PageOf(i) * PageSize \in 0 .. BufSize
  <2>1. (i + 1) * blocksize <= BufSize /\ i + 1 <= BufSize
    BY <1>1, <1>3, BlockFits DEF NBlocks
  <2>2. (i + 1) * blocksize = i * blocksize + blocksize /\ i * blocksize \in Nat
    BY <1>1, MulSucc
  <2>3. i \in Byte /\ i + 1 \in 0 .. BufSize /\ i * blocksize \in Byte /\ blocksize <= BufSize
    BY <1>1, <2>1, <2>2, SMT DEF Byte
  <2> DEFINE s == i * blocksize
             d == s \div PageSize
  <2>4. d \in Nat /\ d * PageSize <= s
    BY <1>1, <2>2, SMT
  <2> HIDE DEF s, d
  <2>5. d * 1 <= d * PageSize /\ d * 1 = d /\ d * PageSize \in Nat
    <3>1. PageSize - 1 \in Nat /\ d * PageSize = d + d * (PageSize - 1)
      BY <1>1, <2>4, SMT
    <3>2. d * (PageSize - 1) \in Nat
      BY <2>4, <3>1, SMT
    <3> QED BY <2>4, <3>1, <3>2, SMT
  <2>6. d \in Byte /\ d * PageSize \in 0 .. BufSize
    BY <1>1, <2>3, <2>4, <2>5, SMT DEF Byte, s
  <2> QED BY <2>3, <2>6 DEF PageOf, s, d
<1>4. NBlocks <= BufSize
  <2>1. CASE NBlocks = 0
    BY <1>1, <2>1, SMT
  <2>2. CASE NBlocks # 0
    <3>1. NBlocks - 1 \in Nat /\ NBlocks - 1 < NBlocks
      BY <1>2, <2>2, SMT
    <3>2. (NBlocks - 1) + 1 \in 0 .. BufSize
      BY <1>3, <3>1
    <3> QED BY <1>1, <1>2, <3>2, SMT
  <2> QED BY <2>1, <2>2
<1> QED BY <1>1, <1>2, <1>3, <1>4

(* What an attaching or copying receiver knows.                            *)
LEMMA Busy ==
    ASSUME IInv, NEW r \in Rank, pc[r] \in {"attach", "copy"}
    PROVE  /\ r \in Receiver /\ r # Sender /\ blocksize > 0 /\ iter[r] < Iters
           /\ blk[r] \in Nat /\ blk[r] <= NBlocks /\ iter[r] \in Nat
           /\ apids[r] = IF use_cache THEN 1 ELSE iter[r] + 1
           /\ blk[r] < NBlocks =>
                 /\ blk[r] \in Byte /\ blk[r] + 1 \in 0 .. BufSize
                 /\ Page(r) \in Byte
                 /\ <<Page(r) * PageSize, PageSize>> \in Region
                 /\ <<blk[r] * blocksize, blocksize>> \in Region
<1>1. /\ TypeOK /\ Position(r) /\ r \in Receiver /\ r # Sender /\ blocksize > 0 /\ iter[r] < Iters
      /\ Permits(r) /\ Attached(r)
  BY DEF IInv, Control, Owned, Position, Receiver
<1>2. blk[r] \in Nat /\ iter[r] \in Nat
  <2>1. blk[r] \in Byte \cup {BufSize} /\ iter[r] \in 0 .. Iters
    BY <1>1 DEF TypeOK
  <2> QED BY <2>1, ArgsAssumption, SMT DEF Byte
<1>3. blk[r] <= NBlocks /\ apids[r] = IF use_cache THEN 1 ELSE iter[r] + 1
  BY <1>1 DEF Permits, Attached
<1>4. ASSUME blk[r] < NBlocks
      PROVE  /\ blk[r] \in Byte /\ blk[r] + 1 \in 0 .. BufSize
             /\ Page(r) \in Byte
             /\ <<Page(r) * PageSize, PageSize>> \in Region
             /\ <<blk[r] * blocksize, blocksize>> \in Region
  <2>1. /\ blk[r] \in Byte /\ blk[r] + 1 \in 0 .. BufSize
        /\ blk[r] * blocksize \in Byte /\ blocksize <= BufSize /\ blocksize \in Nat
        /\ PageOf(blk[r]) \in Byte /\ PageOf(blk[r]) * PageSize \in 0 .. BufSize
    BY <1>1, <1>2, <1>4, BlockPlace
  <2>2. /\ PageSize \in 0 .. BufSize + PageSize /\ blocksize \in 0 .. BufSize + PageSize
        /\ blk[r] * blocksize \in 0 .. BufSize
    BY <2>1, ArgsAssumption, XpmemAssumption, SMT DEF Byte
  <2> QED BY <2>1, <2>2 DEF Page, Region
<1> QED BY <1>1, <1>2, <1>3, <1>4

-----------------------------------------------------------------------------
(* The initial states: nobody has entered, attached or copied anything.    *)
LEMMA InitIInv == Init => IInv
<1> SUFFICES ASSUME Init PROVE IInv
  OBVIOUS
<1> USE ArgsAssumption, LoopAssumption, SenderAssumption, XpmemAssumption
<1>1. calls \in [Rank -> Seq(Collective)] /\ \A r \in Rank : Pos(r) = 0
  BY SMT DEF Init, Pos
<1>2. TypeOK
  <2>1. Iters \in Nat /\ 0 \in 0 .. Iters /\ 0 \in Byte
    BY SMT DEF Iters, Byte
  <2>2. NoSegment \in Region
    <3>1. 0 \in 0 .. BufSize /\ 0 \in 0 .. BufSize + PageSize
      BY SMT
    <3> QED BY <3>1 DEF NoSegment, Region
  <2> QED BY <1>1, <2>1, <2>2 DEF Init, TypeOK, Label, Receiver, NoPage
<1>3. Control
  <2> SUFFICES ASSUME NEW r \in Rank
               PROVE  Position(r) /\ Bounds(r) /\ Lag(r) /\ Ahead(r)
    BY DEF Control
  <2>1. pc[r] = "setup" /\ iter[r] = 0 /\ iter[Sender] = 0 /\ freed[r] = FALSE
    BY DEF Init
  <2>2. Iters \in Nat \ {0} /\ Pos(r) = 0 /\ Pos(Sender) = 0
    BY <1>1, SMT DEF Iters
  <2> QED BY <2>1, <2>2, SMT DEF Position, Bounds, Lag, Ahead
<1>4. Owned
  BY DEF Owned, Init, Permits, Attached, Receiver
<1> QED BY <1>2, <1>3, <1>4 DEF IInv

(* Types.  What a round writes into a list stays inside it.                *)
LEMMA TypeStep ==
    ASSUME IInv, NEW r \in Rank, RankStep(r) \/ Launcher(r)
    PROVE  TypeOK'
<1> USE SenderAssumption
<1>1. /\ TypeOK /\ Position(r) /\ iter[r] \in Nat /\ iter[r] <= Iters /\ Iters \in Nat \ {0}
      /\ (r \in Receiver <=> r # Sender)
  <2>1. TypeOK /\ Position(r) /\ Iters \in Nat \ {0}
    BY LoopAssumption, SMT DEF IInv, Control, Iters
  <2>2. iter[r] \in 0 .. Iters /\ (r \in Receiver <=> r # Sender)
    BY <2>1 DEF TypeOK, Receiver
  <2> QED BY <2>1, <2>2, SMT
<1>2. calls' \in [Rank -> Seq(Collective)] /\ blocksize' \in BlockSizes /\ use_cache' \in CacheModes
  BY <1>1, OwnCounters, OthersKeep DEF TypeOK
<1>3. pc' \in [Rank -> Label]
  <2>1. \E label \in Label : pc' = pc \/ pc' = [pc EXCEPT ![r] = label]
    BY DEF RankStep, Launcher, Kill, DivideByZero, Setup, PassSegid, PassStartBarrier, StartRound,
       PassRtsSender, PassRtsReceiver, AttachPage, ReusePage, PageRefused, AttachBlock, AttachDone,
       CopyBlock, Fault, SendFin, PassFin, EndLoop, Finish, Goto, Label, Stopped, Failed
  <2> QED BY <1>1, <2>1 DEF TypeOK
<1>4. iter' \in [Rank -> 0 .. Iters]
  <2>1. CASE PassFin(r)
    <3>1. pc[r] = "gather" /\ iter' = [iter EXCEPT ![r] = iter[r] + 1]
      BY <2>1 DEF PassFin
    <3>2. iter[r] + 1 \in 0 .. Iters
      BY <1>1, <3>1, SMT DEF Position
    <3> QED BY <1>1, <3>1, <3>2 DEF TypeOK
  <2>2. CASE iter' = iter
    BY <1>1, <2>2 DEF TypeOK
  <2> QED BY <2>1, <2>2 DEF RankStep, Launcher, DivideByZero, Setup, PassSegid, PassStartBarrier,
       StartRound, PassRtsSender, PassRtsReceiver, AttachPage, ReusePage, PageRefused, AttachBlock,
       AttachDone, CopyBlock, Fault, SendFin, EndLoop, Finish
<1>5. clock' \in {"off", "running", "stopped"} /\ freed' \in [Rank -> BOOLEAN]
  <2>1. clock' = clock \/ clock' = "running" \/ clock' = "stopped"
    BY DEF RankStep, Launcher, DivideByZero, Setup, PassSegid, PassStartBarrier, StartRound, BeginRound,
       PassRtsSender, PassRtsReceiver, AttachPage, ReusePage, PageRefused, AttachBlock, AttachDone,
       CopyBlock, Fault, SendFin, PassFin, EndLoop, LeaveLoop, Finish
  <2>2. freed' = freed \/ freed' = [freed EXCEPT ![r] = TRUE]
    BY DEF RankStep, Launcher, DivideByZero, Setup, PassSegid, PassStartBarrier, StartRound,
       PassRtsSender, PassRtsReceiver, AttachPage, ReusePage, PageRefused, AttachBlock, AttachDone,
       CopyBlock, Fault, SendFin, PassFin, EndLoop, Finish
  <2> QED BY <1>1, <2>1, <2>2 DEF TypeOK
<1>6. blk' \in [Receiver -> Byte \cup {BufSize}]
  <2>1. CASE AttachPage(r) \/ ReusePage(r) \/ AttachBlock(r) \/ CopyBlock(r)
    <3>1. /\ pc[r] \in {"attach", "copy"} /\ blk[r] < NBlocks
          /\ blk' = [blk EXCEPT ![r] = blk[r] + 1]
      BY <2>1 DEF AttachPage, ReusePage, AttachBlock, CopyBlock
    <3>2. r \in Receiver /\ blk[r] + 1 \in 0 .. BufSize
      BY <3>1, Busy
    <3>3. blk[r] + 1 \in Byte \cup {BufSize}
      BY <3>2, ArgsAssumption, SMT DEF Byte
    <3> QED BY <1>1, <3>1, <3>2, <3>3 DEF TypeOK
  <2>2. CASE AttachDone(r) \/ PassRtsReceiver(r)
    <3>1. blk' = [blk EXCEPT ![r] = 0] /\ 0 \in Byte
      BY <2>2, ArgsAssumption, SMT DEF AttachDone, PassRtsReceiver, Byte
    <3> QED BY <1>1, <3>1 DEF TypeOK
  <2>3. CASE blk' = blk
    BY <1>1, <2>3 DEF TypeOK
  <2> QED BY <2>1, <2>2, <2>3 DEF RankStep, Launcher, DivideByZero, Setup, PassSegid, PassStartBarrier,
       StartRound, PassRtsSender, PageRefused, Fault, SendFin, PassFin, EndLoop, Finish
<1>7. Refused \in Region
  <2>1. BufSize \in 0 .. BufSize /\ 0 \in 0 .. BufSize + PageSize
    BY ArgsAssumption, XpmemAssumption, SMT
  <2> QED BY <2>1 DEF Refused, Region
<1>8. /\ lastpage' \in [Receiver -> Byte \cup {NoPage}] /\ curr' \in [Receiver -> Region]
      /\ seg' \in [Receiver -> [Byte -> Region]] /\ live' \in [Receiver -> SUBSET Region]
  <2>1. CASE AttachPage(r) \/ PageRefused(r)
    <3>1. pc[r] \in {"attach", "copy"} /\ blk[r] < NBlocks
      BY <2>1 DEF AttachPage, PageRefused
    <3>2. /\ r \in Receiver /\ blk[r] \in Byte /\ Page(r) \in Byte
          /\ <<Page(r) * PageSize, PageSize>> \in Region
      BY <3>1, Busy
    <3> DEFINE region == <<Page(r) * PageSize, PageSize>>
    <3>3. /\ lastpage' = [lastpage EXCEPT ![r] = Page(r)]
          /\ \/ curr' = [curr EXCEPT ![r] = Refused] /\ UNCHANGED <<seg, live>>
             \/ /\ curr' = [curr EXCEPT ![r] = region]
                /\ seg' = [seg EXCEPT ![r][blk[r]] = region]
                /\ live' = [live EXCEPT ![r] = live[r] \cup {region}]
      BY <2>1 DEF AttachPage, PageRefused
    <3> HIDE DEF region
    <3>4. region \in Region
      BY <3>2 DEF region
    <3>5. \A e \in Region : [seg EXCEPT ![r][blk[r]] = e] \in [Receiver -> [Byte -> Region]]
      BY <1>1, <3>2 DEF TypeOK
    <3>6. /\ [lastpage EXCEPT ![r] = Page(r)] \in [Receiver -> Byte \cup {NoPage}]
          /\ [curr EXCEPT ![r] = Refused] \in [Receiver -> Region]
          /\ [curr EXCEPT ![r] = region] \in [Receiver -> Region]
          /\ [live EXCEPT ![r] = live[r] \cup {region}] \in [Receiver -> SUBSET Region]
      BY <1>1, <1>7, <3>2, <3>4 DEF TypeOK
    <3> QED BY <1>1, <3>3, <3>4, <3>5, <3>6 DEF TypeOK
  <2>2. CASE ReusePage(r)
    <3>1. pc[r] \in {"attach", "copy"} /\ blk[r] < NBlocks
      BY <2>2 DEF ReusePage
    <3>2. r \in Receiver /\ blk[r] \in Byte
      BY <3>1, Busy
    <3> QED BY <1>1, <2>2, <3>2 DEF ReusePage, TypeOK
  <2>3. CASE AttachBlock(r)
    <3>1. pc[r] \in {"attach", "copy"} /\ blk[r] < NBlocks
      BY <2>3 DEF AttachBlock
    <3>2. r \in Receiver /\ blk[r] \in Byte /\ <<blk[r] * blocksize, blocksize>> \in Region
      BY <3>1, Busy
    <3> DEFINE region == <<blk[r] * blocksize, blocksize>>
    <3>3. /\ UNCHANGED <<lastpage, curr>>
          /\ \/ seg' = [seg EXCEPT ![r][blk[r]] = Refused] /\ UNCHANGED live
             \/ /\ seg' = [seg EXCEPT ![r][blk[r]] = region]
                /\ live' = [live EXCEPT ![r] = live[r] \cup {region}]
      BY <2>3 DEF AttachBlock
    <3> HIDE DEF region
    <3>4. region \in Region
      BY <3>2 DEF region
    <3>5. \A e \in Region : [seg EXCEPT ![r][blk[r]] = e] \in [Receiver -> [Byte -> Region]]
      BY <1>1, <3>2 DEF TypeOK
    <3>6. [live EXCEPT ![r] = live[r] \cup {region}] \in [Receiver -> SUBSET Region]
      BY <1>1, <3>2, <3>4 DEF TypeOK
    <3> QED BY <1>1, <1>7, <3>3, <3>4, <3>5, <3>6 DEF TypeOK
  <2>4. CASE SendFin(r)
    BY <1>1, <2>4 DEF SendFin, TypeOK
  <2>5. CASE UNCHANGED attaching
    BY <1>1, <2>5 DEF attaching, TypeOK
  <2> QED BY <2>1, <2>2, <2>3, <2>4, <2>5 DEF RankStep, Launcher, DivideByZero, Setup, PassSegid,
       PassStartBarrier, StartRound, PassRtsSender, PassRtsReceiver, AttachDone, CopyBlock, Fault,
       PassFin, EndLoop, Finish, attaching
<1>9. apids' \in [Receiver -> 0 .. Iters]
  <2>1. CASE PassRtsReceiver(r)
    <3>1. /\ r \in Receiver /\ Permits(r) /\ pc[r] = "bcast" /\ iter[r] < Iters
          /\ apids' = [apids EXCEPT ![r] = IF AttachNow(r) THEN apids[r] + 1 ELSE apids[r]]
      BY <1>1, <2>1 DEF PassRtsReceiver, IInv, Owned, Position
    <3>2. apids[r] \in 0 .. Iters /\ (AttachNow(r) => apids[r] + 1 \in 0 .. Iters)
      <4>1. apids[r] \in 0 .. Iters
        BY <1>1, <3>1 DEF TypeOK
      <4>2. AttachNow(r) => apids[r] = iter[r]
        BY <3>1 DEF Permits, AttachNow
      <4> QED BY <1>1, <3>1, <4>1, <4>2, SMT
    <3> QED BY <1>1, <3>1, <3>2 DEF TypeOK
  <2>2. CASE PageRefused(r)
    <3>1. pc[r] \in {"attach", "copy"} /\ apids' = [apids EXCEPT ![r] = apids[r] - 1]
      BY <2>2 DEF PageRefused
    <3>2. r \in Receiver /\ iter[r] < Iters /\ (apids[r] = 1 \/ apids[r] = iter[r] + 1)
      BY <3>1, Busy
    <3>3. apids[r] - 1 \in 0 .. Iters
      BY <1>1, <3>2, SMT
    <3> QED BY <1>1, <3>1, <3>2, <3>3 DEF TypeOK
  <2>3. CASE EndLoop(r)
    <3>1. /\ pc[r] = "loop" /\ ~(iter[r] < Iters)
          /\ apids' = [q \in Receiver |-> IF q = r THEN apids[q] - 1 ELSE apids[q]]
      BY <2>3 DEF EndLoop, LeaveLoop, MoreRounds
    <3>2. r \in Receiver => apids[r] - 1 \in 0 .. Iters
      <4>1. r \in Receiver => apids[r] = IF ~use_cache THEN iter[r] ELSE IF iter[r] = 0 THEN 0 ELSE 1
        BY <3>1 DEF IInv, Owned, Permits
      <4> QED BY <1>1, <3>1, <4>1, SMT
    <3> QED BY <1>1, <3>1, <3>2 DEF TypeOK
  <2>4. CASE apids' = apids
    BY <1>1, <2>4 DEF TypeOK
  <2> QED BY <2>1, <2>2, <2>3, <2>4 DEF RankStep, Launcher, DivideByZero, Setup, PassSegid,
       PassStartBarrier, StartRound, PassRtsSender, AttachPage, ReusePage, AttachBlock, AttachDone,
       CopyBlock, Fault, SendFin, PassFin, Finish
<1>10. lbuf' \in [Receiver -> [Byte -> 0 .. Iters]]
  <2>1. CASE CopyBlock(r)
    <3>1. pc[r] \in {"attach", "copy"} /\ blk[r] < NBlocks
          /\ lbuf' = [lbuf EXCEPT ![r] = [x \in Byte |->
                   IF x \notin BlockBytes(r) THEN lbuf[r][x]
                   ELSE IF x \in Reachable(r) THEN iter[r] + 1 ELSE 0]]
      BY <2>1 DEF CopyBlock
    <3>2. r \in Receiver /\ iter[r] < Iters
      BY <3>1, Busy
    <3>3. iter[r] + 1 \in 0 .. Iters /\ 0 \in 0 .. Iters
      BY <1>1, <3>2, SMT
    <3> QED BY <1>1, <3>1, <3>2, <3>3 DEF TypeOK
  <2>2. CASE lbuf' = lbuf
    BY <1>1, <2>2 DEF TypeOK
  <2> QED BY <2>1, <2>2 DEF RankStep, Launcher, DivideByZero, Setup, PassSegid,
       PassStartBarrier, StartRound, PassRtsSender, PassRtsReceiver, AttachPage, ReusePage, PageRefused,
       AttachBlock, AttachDone, Fault, SendFin, PassFin, EndLoop, Finish
<1> QED BY <1>2, <1>3, <1>4, <1>5, <1>6, <1>8, <1>9, <1>10 DEF TypeOK

-----------------------------------------------------------------------------
(* Control.  The ranks that did not move: only the sender's counters, which*)
(* grow, matter to them.                                                   *)
LEMMA OthersStep ==
    ASSUME IInv, NEW r \in Rank, RankStep(r) \/ Launcher(r), NEW q \in Rank \ {r}
    PROVE  Position(q)' /\ Bounds(q)' /\ Lag(q)' /\ Ahead(q)'
<1> USE SenderAssumption
<1>1. /\ TypeOK /\ Position(q) /\ Bounds(q) /\ Lag(q) /\ Ahead(q)
      /\ Pos(q) \in Nat /\ Pos(Sender) \in Nat /\ iter[q] \in Nat /\ iter[Sender] \in Nat
  BY PosNat, SMT DEF IInv, Control, TypeOK
<1>2. /\ pc'[q] = pc[q] /\ Pos(q)' = Pos(q) /\ iter'[q] = iter[q] /\ freed'[q] = freed[q]
      /\ blocksize' = blocksize
  BY <1>1, OthersKeep DEF Pos
<1>3. Pos(Sender)' \in Nat /\ Pos(Sender)' >= Pos(Sender)
  <2>1. CASE r = Sender
    BY <2>1, OwnCounters
  <2>2. CASE r # Sender
    BY <1>1, <2>2, OthersKeep, SMT DEF Pos
  <2> QED BY <2>1, <2>2
<1>4. \/ iter'[Sender] = iter[Sender]
      \/ iter'[Sender] = iter[Sender] + 1 /\ Pos(q) >= 2 * iter[Sender] + 4
  <2>1. CASE r # Sender
    BY <1>1, <2>1, OthersKeep
  <2>2. CASE r = Sender
    <3>1. \/ iter'[r] = iter[r]
          \/ pc[r] = "gather" /\ iter'[r] = iter[r] + 1 /\ Pos(q) >= Pos(r)
      BY <2>2, OwnCounters
    <3>2. pc[r] = "gather" => Pos(r) = 2 * iter[r] + 4
      BY DEF IInv, Control, Position
    <3> QED BY <2>2, <3>1, <3>2
  <2> QED BY <2>1, <2>2
<1>5. Position(q)' /\ Bounds(q)'
  BY <1>1, <1>2, <1>3, SMT DEF Position, Bounds
<1>6. Lag(q)'
  BY <1>1, <1>2, <1>4, SMT DEF Lag
<1>7. Ahead(q)'
  BY <1>1, <1>2, <1>3, SMT DEF Ahead
<1> QED BY <1>5, <1>6, <1>7

(* The rank that moves.                                                    *)
LEMMA OwnStep ==
    ASSUME IInv, NEW r \in Rank, RankStep(r) \/ Launcher(r)
    PROVE  Position(r)' /\ Bounds(r)' /\ Lag(r)' /\ Ahead(r)'
<1> USE SenderAssumption, LoopAssumption
<1>1. /\ TypeOK /\ Position(r) /\ Bounds(r) /\ Lag(r) /\ Ahead(r)
      /\ Pos(r) \in Nat /\ Pos(Sender) \in Nat /\ iter[r] \in Nat /\ iter[Sender] \in Nat
      /\ Iters \in Nat \ {0} /\ iter[r] <= Iters
  BY PosNat, SMT DEF IInv, Control, TypeOK, Iters
<1>2. /\ blocksize' = blocksize
      /\ r # Sender => Pos(Sender)' = Pos(Sender) /\ iter'[Sender] = iter[Sender]
  BY <1>1, OthersKeep DEF Pos
<1>3. ASSUME UNCHANGED <<calls, iter, freed>>,
             \/ pc' = pc
             \/ pc'[r] \in {"crashed", "killed"}
             \/ pc[r] = "attach" /\ pc'[r] = "copy"
      PROVE  Position(r)' /\ Bounds(r)' /\ Lag(r)' /\ Ahead(r)'
  <2>1. Pos(r)' = Pos(r) /\ Pos(Sender)' = Pos(Sender)
    BY <1>3 DEF Pos
  <2> QED BY <1>1, <1>2, <1>3, <2>1 DEF Position, Bounds, Lag, Ahead
<1>4. ASSUME iter' = iter, Pos(r)' = Pos(r) + 1, Position(r)', Bounds(r)',
             r # Sender /\ Pos(r)' >= 2 * iter[r] + 4 => Pos(Sender) >= 2 * iter[r] + 3
      PROVE  Position(r)' /\ Bounds(r)' /\ Lag(r)' /\ Ahead(r)'
  <2>1. CASE r # Sender
    BY <1>1, <1>2, <1>4, <2>1, SMT DEF Lag, Ahead
  <2>2. CASE r = Sender
    BY <1>1, <1>2, <1>4, <2>2, SMT DEF Lag, Ahead
  <2> QED BY <2>1, <2>2
<1>5. CASE \/ DivideByZero(r) \/ Fault(r) \/ Launcher(r) \/ AttachPage(r) \/ ReusePage(r)
           \/ AttachBlock(r) \/ AttachDone(r) \/ CopyBlock(r)
  <2>1. /\ UNCHANGED <<calls, iter, freed>>
        /\ \/ pc' = pc
           \/ pc'[r] \in {"crashed", "killed"}
           \/ pc[r] = "attach" /\ pc'[r] = "copy"
    BY <1>1, <1>5 DEF DivideByZero, Fault, Launcher, Kill, AttachPage, ReusePage, AttachBlock,
       AttachDone, CopyBlock, Goto, TypeOK
  <2> QED BY <1>3, <2>1
<1>6. CASE Setup(r) \/ PassSegid(r)
  <2>1. /\ UNCHANGED <<iter, freed>> /\ Pos(r)' = Pos(r) + 1
        /\ \/ Setup(r) /\ pc[r] = "setup" /\ pc'[r] = "segid" /\ blocksize > 0
           \/ PassSegid(r) /\ pc[r] = "segid" /\ pc'[r] = "start_barrier"
    BY <1>1, <1>6, EnterPos DEF Setup, PassSegid, Goto, TypeOK, Collective
  <2>2. Position(r)' /\ Bounds(r)'
    BY <1>1, <1>2, <2>1, SMT DEF Position, Bounds
  <2> QED BY <1>1, <1>4, <2>1, <2>2, SMT DEF Position
<1>7. CASE PassStartBarrier(r)
  <2>1. /\ UNCHANGED <<calls, iter, freed>> /\ pc[r] = "start_barrier" /\ pc'[r] = "loop"
    BY <1>1, <1>7 DEF PassStartBarrier, Goto, TypeOK
  <2>2. Pos(r)' = Pos(r) /\ Pos(Sender)' = Pos(Sender)
    BY <2>1 DEF Pos
  <2> QED BY <1>1, <1>2, <2>1, <2>2, SMT DEF Position, Bounds, Lag, Ahead
<1>8. CASE StartRound(r)
  <2>1. /\ UNCHANGED <<iter, freed>> /\ Pos(r)' = Pos(r) + 1 /\ iter[r] < Iters
        /\ pc[r] = "loop" /\ pc'[r] = "bcast"
    BY <1>1, <1>8, EnterPos DEF StartRound, BeginRound, MoreRounds, Goto, TypeOK, Collective
  <2>2. Position(r)' /\ Bounds(r)'
    BY <1>1, <1>2, <2>1, SMT DEF Position, Bounds
  <2> QED BY <1>1, <1>4, <2>1, <2>2, SMT DEF Position
<1>9. CASE PassRtsSender(r)
  <2>1. /\ UNCHANGED <<iter, freed>> /\ Pos(r)' = Pos(r) + 1 /\ r = Sender
        /\ pc[r] = "bcast" /\ pc'[r] = "gather"
    BY <1>1, <1>9, EnterPos DEF PassRtsSender, Goto, TypeOK, Collective
  <2>2. Position(r)' /\ Bounds(r)'
    BY <1>1, <1>2, <2>1, SMT DEF Position, Bounds
  <2> QED BY <1>1, <1>4, <2>1, <2>2
<1>10. CASE PassRtsReceiver(r)
  <2>1. /\ UNCHANGED <<calls, iter, freed>> /\ pc[r] = "bcast" /\ pc'[r] \in {"attach", "copy"}
        /\ Pos(Sender) >= Pos(r) /\ r # Sender
    BY <1>1, <1>10, ReturnsPos DEF PassRtsReceiver, RtsReturns, Goto, TypeOK
  <2>2. Pos(r)' = Pos(r) /\ Pos(Sender)' = Pos(Sender)
    BY <2>1 DEF Pos
  <2> QED BY <1>1, <1>2, <2>1, <2>2, SMT DEF Position, Bounds, Lag, Ahead
<1>11. CASE PageRefused(r)
  <2>1. /\ iter' = iter /\ Pos(r)' = Pos(r) + 1
        /\ pc[r] = "attach" /\ pc'[r] = "end_barrier"
    BY <1>1, <1>11, EnterPos DEF PageRefused, Goto, TypeOK, Collective
  <2>2. Position(r)' /\ Bounds(r)'
    BY <1>1, <1>2, <2>1, SMT DEF Position, Bounds
  <2> QED BY <1>1, <1>4, <2>1, <2>2 DEF Position
<1>12. CASE SendFin(r)
  <2>1. /\ UNCHANGED <<iter, freed>> /\ Pos(r)' = Pos(r) + 1
        /\ pc[r] = "copy" /\ pc'[r] = "gather"
    BY <1>1, <1>12, EnterPos DEF SendFin, Goto, TypeOK, Collective
  <2>2. Position(r)' /\ Bounds(r)'
    BY <1>1, <1>2, <2>1, SMT DEF Position, Bounds
  <2> QED BY <1>1, <1>4, <2>1, <2>2 DEF Position
<1>13. CASE PassFin(r)
  <2>1. /\ UNCHANGED <<calls, freed>> /\ pc[r] = "gather" /\ pc'[r] = "loop"
        /\ iter'[r] = iter[r] + 1
    BY <1>1, <1>13 DEF PassFin, Goto, TypeOK
  <2>2. Pos(r)' = Pos(r) /\ Pos(Sender)' = Pos(Sender)
    BY <2>1 DEF Pos
  <2>3. Position(r)' /\ Bounds(r)' /\ Ahead(r)'
    BY <1>1, <1>2, <2>1, <2>2, SMT DEF Position, Bounds, Ahead
  <2>4. Lag(r)'
    BY <1>1, <1>2, <2>1, <2>2, SMT DEF Lag, Position
  <2> QED BY <2>3, <2>4
<1>14. CASE EndLoop(r)
  <2>1. /\ UNCHANGED <<iter>> /\ Pos(r)' = Pos(r) + 1 /\ iter[r] = Iters
        /\ pc[r] = "loop" /\ pc'[r] = "end_barrier"
    BY <1>1, <1>14, EnterPos, SMT DEF EndLoop, LeaveLoop, MoreRounds, Goto, TypeOK, Collective
  <2>2. Position(r)' /\ Bounds(r)'
    BY <1>1, <1>2, <2>1, SMT DEF Position, Bounds
  <2>3. Lag(r)' /\ Ahead(r)'
    BY <1>1, <1>2, <2>1, SMT DEF Lag, Ahead, Position
  <2> QED BY <2>2, <2>3
<1>15. CASE Finish(r)
  <2>1. /\ UNCHANGED <<calls, iter, freed>> /\ pc[r] = "end_barrier" /\ pc'[r] = "done"
    BY <1>1, <1>15 DEF Finish, Goto, TypeOK
  <2>2. Pos(r)' = Pos(r) /\ Pos(Sender)' = Pos(Sender)
    BY <2>1 DEF Pos
  <2> QED BY <1>1, <1>2, <2>1, <2>2, SMT DEF Position, Bounds, Lag, Ahead
<1> QED BY <1>5, <1>6, <1>7, <1>8, <1>9, <1>10, <1>11, <1>12, <1>13, <1>14, <1>15 DEF RankStep

-----------------------------------------------------------------------------
(* What a receiver owns.  The permits first.                               *)
LEMMA PermitStep ==
    ASSUME IInv, NEW r \in Receiver, RankStep(r) \/ Launcher(r)
    PROVE  Permits(r)'
<1>1. /\ TypeOK /\ Position(r) /\ Permits(r) /\ r \in Rank /\ r # Sender
      /\ iter[r] \in Nat /\ Iters \in Nat \ {0} /\ apids[r] \in Nat
  BY LoopAssumption, SMT DEF IInv, Control, Owned, TypeOK, Receiver, Iters
<1>2. use_cache' = use_cache
  BY <1>1, OthersKeep
<1>3. CASE \/ DivideByZero(r) \/ Setup(r) \/ PassSegid(r) \/ PassStartBarrier(r) \/ StartRound(r)
           \/ AttachPage(r) \/ ReusePage(r) \/ AttachBlock(r) \/ AttachDone(r) \/ CopyBlock(r)
           \/ Fault(r) \/ SendFin(r) \/ Finish(r) \/ Launcher(r)
  <2>1. UNCHANGED <<iter, apids>>
    BY <1>3 DEF DivideByZero, Setup, PassSegid, PassStartBarrier, StartRound, AttachPage, ReusePage,
       AttachBlock, AttachDone, CopyBlock, Fault, SendFin, Finish, Launcher
  <2>2. \/ pc'[r] = pc[r]
        \/ pc'[r] \in {"crashed", "killed"}
        \/ /\ pc[r] \in {"setup", "segid", "start_barrier", "loop", "bcast"}
           /\ pc'[r] \in {"setup", "segid", "start_barrier", "loop", "bcast"}
        \/ pc[r] \in {"attach", "copy", "gather"} /\ pc'[r] \in {"attach", "copy", "gather"}
        \/ pc[r] = "end_barrier" /\ pc'[r] = "done"
    BY <1>1, <1>3 DEF DivideByZero, Setup, PassSegid, PassStartBarrier, StartRound, AttachPage, ReusePage,
       AttachBlock, AttachDone, CopyBlock, Fault, SendFin, Finish, Launcher, Kill, Goto, TypeOK
  <2> QED BY <1>1, <1>2, <2>1, <2>2 DEF Permits
<1>4. CASE PassRtsReceiver(r)
  <2>1. /\ pc[r] = "bcast" /\ pc'[r] \in {"attach", "copy"} /\ iter' = iter
        /\ apids'[r] = IF AttachNow(r) THEN apids[r] + 1 ELSE apids[r]
    BY <1>1, <1>4 DEF PassRtsReceiver, Goto, TypeOK
  <2>2. CASE use_cache
    BY <1>1, <1>2, <2>1, <2>2, SMT DEF Permits, AttachNow
  <2>3. CASE ~use_cache
    BY <1>1, <1>2, <2>1, <2>3, SMT DEF Permits, AttachNow
  <2> QED BY <2>2, <2>3
<1>5. CASE PageRefused(r)
  <2>1. /\ pc[r] = "attach" /\ pc'[r] = "end_barrier" /\ apids'[r] = apids[r] - 1
    BY <1>1, <1>5 DEF PageRefused, Goto, TypeOK
  <2> QED BY <1>1, <1>2, <2>1, SMT DEF Permits
<1>6. CASE PassFin(r)
  <2>1. /\ pc[r] = "gather" /\ pc'[r] = "loop" /\ iter'[r] = iter[r] + 1 /\ apids' = apids
    BY <1>1, <1>6 DEF PassFin, Goto, TypeOK
  <2> QED BY <1>1, <1>2, <2>1, SMT DEF Permits
<1>7. CASE EndLoop(r)
  <2>1. /\ pc[r] = "loop" /\ pc'[r] = "end_barrier" /\ apids'[r] = apids[r] - 1
        /\ ~(iter[r] < Iters)
    BY <1>1, <1>7 DEF EndLoop, LeaveLoop, MoreRounds, Goto, TypeOK
  <2> QED BY <1>1, <1>2, <2>1, SMT DEF Permits
<1>8. ~PassRtsSender(r)
  BY <1>1 DEF PassRtsSender
<1> QED BY <1>3, <1>4, <1>5, <1>6, <1>7, <1>8 DEF RankStep

(* The attachments: an attachment joins the list when it is made, at the   *)
(* end of what the round has attached so far.                              *)
LEMMA AttachStep ==
    ASSUME IInv, NEW r \in Receiver, RankStep(r) \/ Launcher(r)
    PROVE  Attached(r)'
<1>1. /\ TypeOK /\ Position(r) /\ Attached(r) /\ r \in Rank /\ r # Sender
      /\ iter[r] \in Nat /\ Iters \in Nat \ {0}
  BY LoopAssumption, SMT DEF IInv, Control, Owned, TypeOK, Receiver, Iters
<1>2. use_cache' = use_cache /\ blocksize' = blocksize /\ NBlocks' = NBlocks
  BY <1>1, OthersKeep DEF NBlocks
<1>3. CASE \/ DivideByZero(r) \/ Setup(r) \/ PassSegid(r) \/ PassStartBarrier(r) \/ StartRound(r)
           \/ Fault(r) \/ Finish(r) \/ Launcher(r)
  <2>1. UNCHANGED <<iter, seg, live, blk>>
    BY <1>3 DEF DivideByZero, Setup, PassSegid, PassStartBarrier, StartRound, Fault, Finish, Launcher,
       attaching
  <2>2. \/ pc'[r] \in {"crashed", "killed"}
        \/ pc[r] \in {"setup", "segid"} /\ pc'[r] \in {"segid", "start_barrier"}
        \/ pc[r] = "start_barrier" /\ pc'[r] = "loop" /\ iter[r] = 0
        \/ pc[r] = "loop" /\ pc'[r] = "bcast"
        \/ pc[r] = "end_barrier" /\ pc'[r] = "done"
    BY <1>1, <1>3 DEF DivideByZero, Setup, PassSegid, PassStartBarrier, StartRound, Fault, Finish,
       Launcher, Kill, Goto, TypeOK, Position
  <2> QED BY <1>1, <1>2, <2>1, <2>2 DEF Attached, SegTo
<1>4. CASE PassRtsReceiver(r)
  <2>1. /\ pc[r] = "bcast" /\ pc'[r] = (IF AttachNow(r) THEN "attach" ELSE "copy")
        /\ UNCHANGED <<iter, seg, live>> /\ blk'[r] = 0 /\ iter[r] < Iters /\ blocksize > 0
    BY <1>1, <1>4 DEF PassRtsReceiver, Goto, TypeOK, attaching, Position
  <2>2. 0 <= NBlocks
    BY <1>1, <2>1, BlockPlace, SMT
  <2>3. AttachNow(r) => live[r] = {}
    BY <1>1, <2>1 DEF Attached, AttachNow
  <2>4. AttachNow(r)' <=> AttachNow(r)
    BY <1>2, <2>1 DEF AttachNow
  <2> QED BY <1>1, <1>2, <2>1, <2>2, <2>3, <2>4 DEF Attached, SegTo
<1>5. CASE AttachPage(r) \/ ReusePage(r) \/ AttachBlock(r)
  <2>1. PICK e \in Region :
           /\ seg' = [seg EXCEPT ![r][blk[r]] = e]
           /\ live'[r] \subseteq live[r] \cup {e}
    <3>1. CASE AttachPage(r)
      <4>1. pc[r] \in {"attach", "copy"} /\ blk[r] < NBlocks
        BY <3>1 DEF AttachPage
      <4>2. <<Page(r) * PageSize, PageSize>> \in Region
        BY <1>1, <4>1, Busy
      <4> QED BY <1>1, <3>1, <4>2 DEF AttachPage, TypeOK
    <3>2. CASE ReusePage(r)
      BY <1>1, <3>2 DEF ReusePage, TypeOK
    <3>3. CASE AttachBlock(r)
      <4>1. pc[r] \in {"attach", "copy"} /\ blk[r] < NBlocks
        BY <3>3 DEF AttachBlock
      <4>2. <<blk[r] * blocksize, blocksize>> \in Region /\ Refused \in Region
        <5>1. BufSize \in 0 .. BufSize /\ 0 \in 0 .. BufSize + PageSize
          BY ArgsAssumption, XpmemAssumption, SMT
        <5> QED BY <1>1, <4>1, <5>1, Busy DEF Refused, Region
      <4> QED BY <1>1, <3>3, <4>2 DEF AttachBlock, TypeOK
    <3> QED BY <1>5, <3>1, <3>2, <3>3
  <2>2. /\ pc[r] = "attach" /\ blk[r] < NBlocks /\ UNCHANGED <<pc, iter>>
        /\ blk'[r] = blk[r] + 1
    BY <1>1, <1>5 DEF AttachPage, ReusePage, AttachBlock, TypeOK
  <2>3. /\ blk[r] \in Byte /\ blk[r] \in Nat /\ NBlocks \in Nat
    BY <1>1, <2>2, Busy, BlockPlace
  <2>4. seg'[r] = [seg[r] EXCEPT ![blk[r]] = e] /\ seg[r] \in [Byte -> Region]
    BY <1>1, <2>1 DEF TypeOK
  <2>5. \A i \in 0 .. blk[r] - 1 : seg'[r][i] = seg[r][i]
    BY <2>3, <2>4, SMT DEF Byte
  <2>6. seg'[r][blk[r]] = e
    BY <2>3, <2>4
  <2>7. \A i \in 0 .. blk[r] - 1 : i \in 0 .. (blk[r] + 1) - 1
    BY <2>3, SMT
  <2>8. blk[r] \in 0 .. (blk[r] + 1) - 1 /\ blk[r] + 1 <= NBlocks
    BY <2>2, <2>3, SMT
  <2>9. live'[r] \subseteq SegTo(r, blk[r])'
    <3>1. live[r] \subseteq SegTo(r, blk[r])
      BY <1>1, <2>2 DEF Attached
    <3>2. SegTo(r, blk[r])' = {seg'[r][i] : i \in 0 .. (blk[r] + 1) - 1}
      BY <2>2 DEF SegTo
    <3>3. ASSUME NEW y \in live[r] PROVE y \in SegTo(r, blk[r])'
      <4>1. PICK i \in 0 .. blk[r] - 1 : y = seg[r][i]
        BY <3>1, <3>3 DEF SegTo
      <4>2. y = seg'[r][i] /\ i \in 0 .. (blk[r] + 1) - 1
        BY <2>5, <2>7, <4>1
      <4> QED BY <3>2, <4>2
    <3>4. e \in SegTo(r, blk[r])'
      BY <2>6, <2>8, <3>2
    <3> QED BY <2>1, <3>3, <3>4
  <2>10. AttachNow(r)'
    BY <1>1, <1>2, <2>2 DEF Attached, AttachNow
  <2> QED BY <1>2, <2>2, <2>8, <2>9, <2>10 DEF Attached
<1>6. CASE AttachDone(r)
  <2>1. /\ pc[r] = "attach" /\ blk[r] = NBlocks /\ pc'[r] = "copy" /\ blk'[r] = 0
        /\ UNCHANGED <<iter, seg, live>>
    BY <1>1, <1>6 DEF AttachDone, Goto, TypeOK, attaching
  <2>2. 0 <= NBlocks
    <3>1. TypeOK /\ blocksize > 0
      BY <1>1, <2>1, Busy
    <3> QED BY <3>1, BlockPlace, SMT
  <2> QED BY <1>1, <1>2, <2>1, <2>2 DEF Attached, SegTo
<1>7. CASE CopyBlock(r)
  <2>1. /\ pc[r] = "copy" /\ blk[r] < NBlocks /\ UNCHANGED <<pc, iter, seg, live>>
        /\ blk'[r] = blk[r] + 1
    BY <1>1, <1>7 DEF CopyBlock, TypeOK, attaching
  <2>2. blk'[r] <= NBlocks
    <3>1. TypeOK /\ blocksize > 0 /\ blk[r] \in Nat
      BY <1>1, <2>1, Busy
    <3>2. NBlocks \in Nat
      BY <3>1, BlockPlace
    <3> QED BY <2>1, <3>1, <3>2, SMT
  <2> QED BY <1>1, <1>2, <2>1, <2>2 DEF Attached, SegTo
<1>8. CASE PageRefused(r)
  <2>1. /\ pc[r] = "attach" /\ pc'[r] = "end_barrier" /\ iter' = iter /\ iter[r] < Iters
    BY <1>1, <1>8 DEF PageRefused, Goto, TypeOK, Position
  <2> QED BY <1>1, <2>1, SMT DEF Attached
<1>9. CASE SendFin(r)
  <2>1. /\ pc[r] = "copy" /\ pc'[r] = "gather" /\ UNCHANGED <<iter, seg>>
        /\ live'[r] = IF DetachNow(r) THEN live[r] \ SegTo(r, NBlocks) ELSE live[r]
    BY <1>1, <1>9 DEF SendFin, Goto, TypeOK, SegTo
  <2>2. live[r] \subseteq SegTo(r, NBlocks)
    BY <1>1, <2>1 DEF Attached
  <2>3. /\ DetachNow(r)' <=> DetachNow(r)
        /\ SegTo(r, NBlocks)' = SegTo(r, NBlocks)
    BY <1>2, <2>1 DEF DetachNow, SegTo
  <2> QED BY <2>1, <2>2, <2>3 DEF Attached
<1>10. CASE PassFin(r)
  <2>1. /\ pc[r] = "gather" /\ pc'[r] = "loop" /\ iter'[r] = iter[r] + 1 /\ UNCHANGED <<seg, live>>
    BY <1>1, <1>10 DEF PassFin, Goto, TypeOK, attaching
  <2>2. SegTo(r, NBlocks)' = SegTo(r, NBlocks)
    BY <1>2, <2>1 DEF SegTo
  <2>3. iter'[r] # 0
    BY <1>1, <2>1, SMT
  <2> QED BY <1>1, <1>2, <2>1, <2>2, <2>3 DEF Attached, DetachNow
<1>11. CASE EndLoop(r)
  <2>1. /\ pc[r] = "loop" /\ pc'[r] = "end_barrier" /\ iter' = iter /\ live' = live
        /\ ~(iter[r] < Iters)
    BY <1>1, <1>11 DEF EndLoop, LeaveLoop, MoreRounds, Goto, TypeOK, attaching
  <2>2. iter[r] \in 0 .. Iters
    BY <1>1 DEF TypeOK
  <2>3. iter[r] = Iters
    BY <1>1, <2>1, <2>2, SMT
  <2> QED BY <1>1, <2>1, <2>3 DEF Attached
<1>12. ~PassRtsSender(r)
  BY <1>1 DEF PassRtsSender
<1> QED BY <1>3, <1>4, <1>5, <1>6, <1>7, <1>8, <1>9, <1>10, <1>11, <1>12 DEF RankStep

(* A step of any rank keeps every receiver's attachments and permits.      *)
LEMMA OwnedStep ==
    ASSUME IInv, NEW r \in Rank, RankStep(r) \/ Launcher(r)
    PROVE  Owned'
<1> SUFFICES ASSUME NEW q \in Receiver PROVE Permits(q)' /\ Attached(q)'
  BY DEF Owned
<1>1. CASE q = r
  BY <1>1, PermitStep, AttachStep
<1>2. CASE q # r
  <2>1. TypeOK /\ Permits(q) /\ Attached(q) /\ q \in Rank
    BY DEF IInv, Owned, Receiver
  <2>2. /\ pc'[q] = pc[q] /\ iter'[q] = iter[q] /\ blk'[q] = blk[q] /\ seg'[q] = seg[q]
        /\ live'[q] = live[q] /\ apids'[q] = apids[q]
        /\ blocksize' = blocksize /\ use_cache' = use_cache
    BY <1>2, <2>1, OthersKeep
  <2>3. /\ NBlocks' = NBlocks /\ \A n : SegTo(q, n)' = SegTo(q, n)
    BY <2>2 DEF NBlocks, SegTo
  <2>4. SegTo(q, NBlocks)' = SegTo(q, NBlocks) /\ SegTo(q, blk[q])' = SegTo(q, blk[q])
    BY <2>2, <2>3 DEF SegTo
  <2>5. Permits(q)'
    BY <2>1, <2>2 DEF Permits
  <2>6. Attached(q)'
    BY <2>1, <2>2, <2>3, <2>4 DEF Attached, AttachNow, DetachNow
  <2> QED BY <2>5, <2>6
<1> QED BY <1>1, <1>2

-----------------------------------------------------------------------------
(* The invariant is inductive.                                             *)
LEMMA NextIInv == IInv /\ [Next]_vars => IInv'
<1> SUFFICES ASSUME IInv, [Next]_vars PROVE IInv'
  OBVIOUS
<1>1. CASE UNCHANGED vars
  BY <1>1 DEF vars, IInv, TypeOK, Control, Position, Bounds, Lag, Ahead, Pos, Owned, Permits,
              Attached, SegTo, AttachNow, DetachNow, NBlocks
<1>2. ASSUME NEW r \in Rank, RankStep(r) \/ Launcher(r) PROVE IInv'
  <2>1. \A q \in Rank : Position(q)' /\ Bounds(q)' /\ Lag(q)' /\ Ahead(q)'
    BY <1>2, OthersStep, OwnStep
  <2> QED BY <1>2, <2>1, TypeStep, OwnedStep DEF IInv, Control
<1> QED BY <1>1, <1>2 DEF Next, Terminating

(* What a rank is doing, what it has entered, counted and attached: all of *)
(* it fits together in every state of every behaviour.                     *)
THEOREM Inductive == Spec => []IInv
<1>1. Init => IInv
  BY InitIInv
<1> QED BY <1>1, NextIInv, PTL DEF Spec

(* Every variable keeps its type: lists of pages and blocks stay inside    *)
(* the buffer, and no permit is given back that was not given out.         *)
THEOREM TypeCorrect == Spec => []TypeOK
<1>1. IInv => TypeOK
  BY DEF IInv
<1> QED BY <1>1, Inductive, PTL

(* The sender frees its memory before the last barrier, and all the same   *)
(* no receiver can still attach it or copy from it, refusals or not.       *)
THEOREM NoReadAfterFreeHolds == Spec => []NoReadAfterFree
<1> USE SenderAssumption, LoopAssumption
<1>1. IInv => NoReadAfterFree
  <2> SUFFICES ASSUME IInv, freed[Sender], NEW r \in Receiver, pc[r] \in {"attach", "copy"}
               PROVE  FALSE
    BY DEF NoReadAfterFree
  <2>1. /\ TypeOK /\ Position(r) /\ Lag(r) /\ Bounds(Sender) /\ r \in Rank
    BY DEF IInv, Control, Receiver
  <2>2. Pos(r) \in Nat /\ iter[r] \in Nat /\ Iters \in Nat \ {0}
    BY <2>1, PosNat, SMT DEF TypeOK, Iters
  <2> QED BY <2>1, <2>2, SMT DEF Position, Lag, Bounds
<1> QED BY <1>1, Inductive, PTL

(* "4. detach and release mapped pages": every attachment is in the list   *)
(* the detach loop walks, in both programs and whichever attachments are   *)
(* refused.                                                                *)
THEOREM AllDetachedHolds == Spec => []AllDetached
<1>1. IInv => AllDetached
  <2> SUFFICES ASSUME IInv, NEW r \in Receiver
               PROVE  /\ RoundOver(r) \/ LoopOver(r) => live[r] = {}
                      /\ pc[r] \in {"attach", "copy"} /\ live[r] # {} => apids[r] > 0
                      /\ pc[r] \in {"end_barrier", "done"} /\ use_cache => apids[r] = 0
    BY DEF AllDetached
  <2>1. Permits(r) /\ Attached(r) /\ iter[r] \in 0 .. Iters
    BY DEF IInv, Owned, TypeOK, Receiver
  <2>2. RoundOver(r) \/ LoopOver(r) => live[r] = {}
    BY <2>1 DEF RoundOver, LoopOver, Attached, DetachNow
  <2>3. pc[r] \in {"attach", "copy"} => apids[r] > 0
    <3>1. pc[r] \in {"attach", "copy"} => apids[r] = 1 \/ apids[r] = iter[r] + 1
      BY <2>1 DEF Permits
    <3> QED BY <2>1, <3>1, SMT
  <2> QED BY <2>1, <2>2, <2>3 DEF Permits
<1> QED BY <1>1, Inductive, PTL

-----------------------------------------------------------------------------
(* What the attachments show.  The page remembered from the round before   *)
(* is not the first one if the blocks smaller than a page reach into a     *)
(* second page; the copies of xpmem_dt go astray when they do not.         *)
SpansPages ==
    FALSE \in CacheModes =>
        \A b \in BlockSizes : 0 < b /\ b < PageSize /\ b <= BufSize =>
            ((BufSize \div b - 1) * b) \div PageSize > 0

(* The attachment block i is meant to be copied through, and one that is.  *)
OwnRegion(i) ==
    IF SmallBlock THEN <<PageOf(i) * PageSize, PageSize>> ELSE <<i * blocksize, blocksize>>
Good(r, i) ==
    \/ seg[r][i] = OwnRegion(i) /\ seg[r][i] \in live[r]
    \/ seg[r][i] = Refused /\ ~SmallBlock

(* The page remembered is never that of the block attached first.          *)
OtherPage(r) == SmallBlock /\ NBlocks > 0 => lastpage[r] # PageOf(0)

Listed(r) ==
    /\ pc[r] = "setup" => lastpage[r] = NoPage
    /\ pc[r] \in {"segid", "start_barrier", "loop", "bcast"} /\ (~use_cache \/ iter[r] = 0) =>
           OtherPage(r)
    /\ pc[r] \in {"copy", "gather"} /\ ~use_cache => OtherPage(r)
    /\ pc[r] = "attach" =>
           /\ \A i \in 0 .. blk[r] - 1 : Good(r, i)
           /\ blk[r] = 0 => OtherPage(r)
           /\ blk[r] > 0 /\ SmallBlock =>
                  /\ lastpage[r] = PageOf(blk[r] - 1)
                  /\ curr[r] = OwnRegion(blk[r] - 1)
    /\ \/ pc[r] = "copy"
       \/ pc[r] = "gather" /\ ~DetachNow(r)
       \/ pc[r] \in {"loop", "bcast"} /\ use_cache /\ iter[r] \in 1 .. Iters - 1
       => \A i \in 0 .. NBlocks - 1 : Good(r, i)

Lists == \A r \in Receiver : Listed(r)

(* The first page.                                                         *)
LEMMA FirstPage == blocksize \in Nat => PageOf(0) = 0
<1> SUFFICES ASSUME blocksize \in Nat PROVE PageOf(0) = 0
  OBVIOUS
<1>1. 0 * blocksize = 0
  BY MulZero
<1>2. 0 \div PageSize = 0
  BY XpmemAssumption, SMT
<1> QED BY <1>1, <1>2 DEF PageOf

(* One more block is attached.                                             *)
LEMMA ListBlock ==
    ASSUME IInv, Lists, NEW r \in Receiver, AttachPage(r) \/ ReusePage(r) \/ AttachBlock(r)
    PROVE  Listed(r)'
<1>1. /\ pc[r] = "attach" /\ blk[r] < NBlocks /\ UNCHANGED <<pc, iter, blocksize, use_cache>>
      /\ blk' = [blk EXCEPT ![r] = blk[r] + 1]
  BY DEF AttachPage, ReusePage, AttachBlock, config
<1>2. /\ TypeOK /\ r \in Rank /\ Listed(r) /\ blocksize > 0
      /\ blk[r] \in Nat /\ blk[r] \in Byte /\ NBlocks \in Nat
  <2>1. TypeOK /\ r \in Rank /\ Listed(r)
    BY DEF IInv, Lists, Receiver
  <2>2. blocksize > 0 /\ blk[r] \in Nat /\ blk[r] \in Byte
    BY <1>1, <2>1, Busy
  <2> QED BY <2>1, <2>2, BlockPlace
<1>3. /\ blk'[r] = blk[r] + 1 /\ blk[r] \in 0 .. (blk[r] + 1) - 1
      /\ \A i \in 0 .. (blk[r] + 1) - 1 : i \in 0 .. blk[r] - 1 \/ i = blk[r]
      /\ (blk[r] + 1) - 1 = blk[r] /\ blk[r] + 1 # 0
      /\ \A i \in 0 .. blk[r] - 1 : i \in Byte /\ i # blk[r]
  <2>1. blk'[r] = blk[r] + 1
    BY <1>1, <1>2 DEF TypeOK
  <2>2. /\ blk[r] \in 0 .. (blk[r] + 1) - 1 /\ (blk[r] + 1) - 1 = blk[r] /\ blk[r] + 1 # 0
        /\ \A i \in 0 .. (blk[r] + 1) - 1 : i \in 0 .. blk[r] - 1 \/ i = blk[r]
    BY <1>2, SMT
  <2>3. \A i \in 0 .. blk[r] - 1 : i \in Byte /\ i # blk[r]
    BY <1>2, ArgsAssumption, SMT DEF Byte
  <2> QED BY <2>1, <2>2, <2>3
<1>4. blk[r] = 0 /\ SmallBlock => lastpage[r] # Page(r)
  BY <1>1, <1>2, SMT DEF Listed, OtherPage, Page
<1> DEFINE region == OwnRegion(blk[r])
<1>5. /\ \A i \in 0 .. blk[r] - 1 : seg'[r][i] = seg[r][i]
      /\ live[r] \subseteq live'[r]
      /\ \/ seg'[r][blk[r]] = region /\ region \in live'[r]
         \/ seg'[r][blk[r]] = Refused /\ ~SmallBlock
      /\ SmallBlock => lastpage'[r] = Page(r) /\ curr'[r] = region
  <2>1. seg[r] \in [Byte -> Region]
    BY <1>2 DEF TypeOK
  <2>2. CASE AttachPage(r)
    <3>1. /\ SmallBlock
          /\ seg' = [seg EXCEPT ![r][blk[r]] = region]
          /\ live' = [live EXCEPT ![r] = live[r] \cup {region}]
          /\ curr' = [curr EXCEPT ![r] = region]
          /\ lastpage' = [lastpage EXCEPT ![r] = Page(r)]
      BY <2>2 DEF AttachPage, OwnRegion, Page
    <3> HIDE DEF region
    <3>2. seg'[r] = [seg[r] EXCEPT ![blk[r]] = region]
      BY <1>2, <3>1 DEF TypeOK
    <3> QED BY <1>2, <1>3, <2>1, <3>1, <3>2 DEF TypeOK
  <2>3. CASE ReusePage(r)
    <3>1. /\ SmallBlock /\ lastpage[r] = Page(r) /\ UNCHANGED <<lastpage, curr, live>>
          /\ seg' = [seg EXCEPT ![r][blk[r]] = curr[r]]
      BY <2>3 DEF ReusePage
    <3>2. blk[r] > 0 /\ blk[r] - 1 \in 0 .. blk[r] - 1
      BY <1>2, <1>4, <3>1, SMT
    <3>3. /\ PageOf(blk[r] - 1) = PageOf(blk[r]) /\ curr[r] = OwnRegion(blk[r] - 1)
          /\ Good(r, blk[r] - 1)
      BY <1>1, <1>2, <3>1, <3>2 DEF Listed, Page
    <3>4. curr[r] = region /\ region \in live[r]
      BY <3>1, <3>3 DEF OwnRegion, Good
    <3> HIDE DEF region
    <3>5. seg'[r] = [seg[r] EXCEPT ![blk[r]] = curr[r]]
      BY <1>2, <3>1 DEF TypeOK
    <3> QED BY <1>2, <1>3, <2>1, <3>1, <3>4, <3>5
  <2>4. CASE AttachBlock(r)
    <3>1. /\ ~SmallBlock
          /\ \/ /\ seg' = [seg EXCEPT ![r][blk[r]] = region]
                /\ live' = [live EXCEPT ![r] = live[r] \cup {region}]
             \/ /\ seg' = [seg EXCEPT ![r][blk[r]] = Refused]
                /\ live' = live
      BY <2>4 DEF AttachBlock, OwnRegion
    <3> HIDE DEF region
    <3>2. \A e : seg' = [seg EXCEPT ![r][blk[r]] = e] => seg'[r] = [seg[r] EXCEPT ![blk[r]] = e]
      BY <1>2 DEF TypeOK
    <3>3. \/ seg'[r] = [seg[r] EXCEPT ![blk[r]] = region] /\ live'[r] = live[r] \cup {region}
          \/ seg'[r] = [seg[r] EXCEPT ![blk[r]] = Refused] /\ live'[r] = live[r]
      BY <1>2, <3>1, <3>2 DEF TypeOK
    <3> QED BY <1>2, <1>3, <2>1, <3>1, <3>3
  <2> QED BY <2>2, <2>3, <2>4
<1>6. /\ SmallBlock' <=> SmallBlock
      /\ \A i : OwnRegion(i)' = OwnRegion(i) /\ PageOf(i)' = PageOf(i)
  BY <1>1 DEF OwnRegion, SmallBlock, PageOf
<1>7. \A i \in 0 .. (blk[r] + 1) - 1 : Good(r, i)'
  <2> TAKE i \in 0 .. (blk[r] + 1) - 1
  <2>1. CASE i \in 0 .. blk[r] - 1
    <3>1. Good(r, i)
      BY <1>1, <1>2, <2>1 DEF Listed
    <3> QED BY <1>5, <1>6, <2>1, <3>1 DEF Good
  <2>2. CASE i = blk[r]
    BY <1>5, <1>6, <2>2 DEF Good
  <2> QED BY <1>3, <2>1, <2>2
<1>8. pc'[r] = "attach" /\ blk'[r] # 0
  BY <1>1, <1>3
<1>9. SmallBlock' => /\ lastpage'[r] = PageOf(blk[r] - 1)'
                     /\ curr'[r] = OwnRegion(blk[r] - 1)'
  <2>1. PageOf(blk[r] - 1)' = PageOf(blk'[r] - 1)
    BY <1>1 DEF PageOf
  <2>2. OwnRegion(blk[r] - 1)' = OwnRegion(blk'[r] - 1)
    BY <1>1 DEF OwnRegion, PageOf, SmallBlock
  <2>3. blk'[r] - 1 = blk[r]
    BY <1>3
  <2> QED BY <1>5, <1>6, <2>1, <2>2, <2>3 DEF Page
<1> QED BY <1>3, <1>7, <1>8, <1>9 DEF Listed

(* The steps that attach nothing.                                          *)
LEMMA ListStep ==
    ASSUME SpansPages, IInv, Lists, NEW r \in Receiver, RankStep(r) \/ Launcher(r)
    PROVE  Listed(r)'
<1> USE SenderAssumption, ArgsAssumption
<1>1. /\ TypeOK /\ Position(r) /\ Attached(r) /\ Listed(r) /\ r \in Rank /\ r # Sender
      /\ iter[r] \in Nat /\ Iters \in Nat \ {0} /\ blocksize \in Nat /\ blocksize \in BlockSizes
  BY LoopAssumption, SMT DEF IInv, Control, Owned, Lists, TypeOK, Receiver, Iters
<1>2. use_cache' = use_cache /\ blocksize' = blocksize /\ NBlocks' = NBlocks
  BY <1>1, OthersKeep DEF NBlocks
<1>3. /\ SmallBlock' <=> SmallBlock
      /\ UNCHANGED <<seg, live>> => \A i : Good(r, i)' <=> Good(r, i)
      /\ lastpage' = lastpage => (OtherPage(r)' <=> OtherPage(r))
  BY <1>2 DEF SmallBlock, Good, OwnRegion, PageOf, OtherPage
<1>4. CASE DivideByZero(r) \/ Fault(r) \/ Finish(r) \/ Launcher(r) \/ PageRefused(r) \/ EndLoop(r)
  <2>1. pc'[r] \in {"crashed", "killed", "done", "end_barrier"}
    BY <1>1, <1>4 DEF DivideByZero, Fault, Finish, Launcher, Kill, PageRefused, EndLoop, Goto, TypeOK
  <2> QED BY <2>1 DEF Listed
<1>5. CASE Setup(r)
  <2>1. pc[r] = "setup" /\ pc'[r] = "segid" /\ lastpage' = lastpage
    BY <1>1, <1>5 DEF Setup, Goto, TypeOK, attaching
  <2>2. OtherPage(r)
    <3>1. lastpage[r] = BufSize /\ PageOf(0) = 0
      BY <1>1, <2>1, FirstPage DEF Listed, NoPage
    <3>2. BufSize # 0
      BY SMT
    <3> QED BY <3>1, <3>2 DEF OtherPage
  <2> QED BY <1>3, <2>1, <2>2 DEF Listed
<1>6. CASE PassSegid(r) \/ PassStartBarrier(r) \/ StartRound(r)
  <2>1. /\ \/ pc[r] = "segid" /\ pc'[r] = "start_barrier"
           \/ pc[r] = "start_barrier" /\ pc'[r] = "loop" /\ iter[r] = 0
           \/ pc[r] = "loop" /\ pc'[r] = "bcast"
        /\ UNCHANGED <<iter, seg, live, lastpage>>
    BY <1>1, <1>6 DEF PassSegid, PassStartBarrier, StartRound, Goto, TypeOK, attaching, Position
  <2>2. ~(0 \in 1 .. Iters - 1)
    BY SMT
  <2> QED BY <1>1, <1>2, <1>3, <2>1, <2>2 DEF Listed
<1>7. CASE PassRtsReceiver(r)
  <2>1. /\ pc[r] = "bcast" /\ pc'[r] = (IF AttachNow(r) THEN "attach" ELSE "copy")
        /\ UNCHANGED <<iter, seg, live, lastpage>> /\ blk'[r] = 0 /\ iter[r] < Iters
    BY <1>1, <1>7 DEF PassRtsReceiver, Goto, TypeOK, attaching, Position
  <2>2. ~(0 > 0) /\ \A i \in 0 .. 0 - 1 : FALSE
    BY SMT
  <2>3. CASE AttachNow(r)
    BY <1>1, <1>3, <2>1, <2>2, <2>3 DEF Listed, AttachNow
  <2>4. CASE ~AttachNow(r)
    <3>1. use_cache /\ iter[r] \in 1 .. Iters - 1
      BY <1>1, <2>1, <2>4, SMT DEF AttachNow
    <3> QED BY <1>1, <1>2, <1>3, <2>1, <2>4, <3>1 DEF Listed
  <2> QED BY <2>3, <2>4
<1>8. CASE AttachPage(r) \/ ReusePage(r) \/ AttachBlock(r)
  BY <1>8, ListBlock
<1>9. CASE AttachDone(r)
  <2>1. /\ pc[r] = "attach" /\ blk[r] = NBlocks /\ pc'[r] = "copy"
        /\ UNCHANGED <<iter, seg, live, lastpage>>
    BY <1>1, <1>9 DEF AttachDone, Goto, TypeOK, attaching
  <2>2. ~use_cache => OtherPage(r)
    <3> SUFFICES ASSUME ~use_cache, SmallBlock, NBlocks > 0 PROVE lastpage[r] # PageOf(0)
      BY DEF OtherPage
    <3>1. blocksize > 0 /\ NBlocks \in Nat
      BY <1>1, <2>1, Busy, BlockPlace
    <3>2. lastpage[r] = PageOf(NBlocks - 1)
      BY <1>1, <2>1 DEF Listed
    <3>3. blocksize <= BufSize
      <4>1. 0 \in Nat /\ 0 < NBlocks
        BY <3>1, SMT
      <4> QED BY <1>1, <3>1, <4>1, BlockPlace
    <3>4. PageOf(NBlocks - 1) > 0
      <4>1. FALSE \in CacheModes
        BY <1>1, XpmemAssumption DEF TypeOK
      <4>2. 0 < blocksize /\ blocksize < PageSize
        BY <1>1, <3>1, SMT DEF SmallBlock
      <4> QED BY <1>1, <3>3, <4>1, <4>2 DEF SpansPages, PageOf, NBlocks
    <3>5. PageOf(0) = 0 /\ ~(0 > 0)
      BY <1>1, FirstPage, SMT
    <3> QED BY <3>2, <3>4, <3>5
  <2> QED BY <1>1, <1>2, <1>3, <2>1, <2>2 DEF Listed
<1>10. CASE CopyBlock(r)
  <2>1. pc[r] = "copy" /\ UNCHANGED <<pc, iter, seg, live, lastpage>>
    BY <1>10 DEF CopyBlock, attaching
  <2> QED BY <1>1, <1>2, <1>3, <2>1 DEF Listed
<1>11. CASE SendFin(r)
  <2>1. /\ pc[r] = "copy" /\ pc'[r] = "gather" /\ UNCHANGED <<iter, seg, lastpage>>
        /\ ~DetachNow(r) => live' = live
    BY <1>1, <1>11 DEF SendFin, Goto, TypeOK
  <2>2. DetachNow(r)' <=> DetachNow(r)
    BY <1>2, <2>1 DEF DetachNow
  <2> QED BY <1>1, <1>2, <1>3, <2>1, <2>2 DEF Listed
<1>12. CASE PassFin(r)
  <2>1. /\ pc[r] = "gather" /\ pc'[r] = "loop" /\ iter'[r] = iter[r] + 1
        /\ UNCHANGED <<seg, live, lastpage>>
    BY <1>1, <1>12 DEF PassFin, Goto, TypeOK, attaching
  <2>2. iter'[r] # 0 /\ (iter'[r] \in 1 .. Iters - 1 => iter[r] + 1 # Iters)
    BY <1>1, <2>1, SMT
  <2> QED BY <1>1, <1>2, <1>3, <2>1, <2>2 DEF Listed, DetachNow
<1>13. ~PassRtsSender(r)
  BY <1>1 DEF PassRtsSender
<1> QED BY <1>4, <1>5, <1>6, <1>7, <1>8, <1>9, <1>10, <1>11, <1>12, <1>13 DEF RankStep

(* A step of any rank keeps every receiver's list of attached pages.       *)
LEMMA ListsStep ==
    ASSUME SpansPages, IInv, Lists, [Next]_vars
    PROVE  Lists'
<1>1. CASE UNCHANGED vars
  BY <1>1 DEF vars, Lists, Listed, OtherPage, Good, OwnRegion, SmallBlock, PageOf, NBlocks, DetachNow
<1>2. SUFFICES ASSUME NEW r \in Rank, RankStep(r) \/ Launcher(r), NEW q \in Receiver
               PROVE  Listed(q)'
  BY <1>1 DEF Next, Terminating, Lists
<1>3. CASE q = r
  BY <1>2, <1>3, ListStep
<1>4. CASE q # r
  <2>1. TypeOK /\ Listed(q) /\ q \in Rank
    BY DEF IInv, Lists, Receiver
  <2>2. /\ pc'[q] = pc[q] /\ iter'[q] = iter[q] /\ blk'[q] = blk[q] /\ seg'[q] = seg[q]
        /\ live'[q] = live[q] /\ lastpage'[q] = lastpage[q] /\ curr'[q] = curr[q]
        /\ blocksize' = blocksize /\ use_cache' = use_cache
    BY <1>2, <1>4, <2>1, OthersKeep
  <2>3. /\ NBlocks' = NBlocks /\ (DetachNow(q)' <=> DetachNow(q))
        /\ OtherPage(q)' <=> OtherPage(q)
        /\ SmallBlock' <=> SmallBlock
        /\ \A i : Good(q, i)' <=> Good(q, i)
    BY <2>2 DEF NBlocks, DetachNow, OtherPage, PageOf, SmallBlock, Good, OwnRegion
  <2>4. OwnRegion(blk[q] - 1)' = OwnRegion(blk[q] - 1) /\ PageOf(blk[q] - 1)' = PageOf(blk[q] - 1)
    BY <2>2 DEF OwnRegion, PageOf, SmallBlock
  <2> QED BY <2>1, <2>2, <2>3, <2>4 DEF Listed
<1> QED BY <1>3, <1>4

(* A pointer that is good shows what its attachment is meant to show.      *)
LEMMA GoodShows ==
    ASSUME TypeOK, blocksize > 0, NEW r \in Receiver, blk[r] \in Nat,
           Good(r, blk[r]), seg[r][blk[r]] # Refused
    PROVE  Reachable(r) = Shown(blk[r])
<1>1. seg[r][blk[r]] = OwnRegion(blk[r]) /\ seg[r][blk[r]] \in live[r]
  BY DEF Good
<1>2. Reachable(r) = Block(blk[r]) \cap Bytes(OwnRegion(blk[r]))
  BY <1>1 DEF Reachable, BlockBytes
<1>3. CASE SmallBlock
  BY <1>2, <1>3 DEF OwnRegion, Shown
<1>4. CASE ~SmallBlock
  <2>1. /\ (blk[r] + 1) * blocksize = blk[r] * blocksize + blocksize
        /\ blk[r] * blocksize \in Nat /\ blocksize \in Nat
    <3>1. blocksize \in Nat
      BY ArgsAssumption, SMT DEF TypeOK
    <3> QED BY <3>1, MulSucc
  <2>2. Bytes(OwnRegion(blk[r])) = blk[r] * blocksize .. blk[r] * blocksize + blocksize - 1
    <3>1. \A a, b : Bytes(<<a, b>>) = a .. a + b - 1
      BY DEF Bytes
    <3>2. OwnRegion(blk[r]) = <<blk[r] * blocksize, blocksize>>
      BY <1>4 DEF OwnRegion
    <3> QED BY <3>1, <3>2
  <2>3. Bytes(OwnRegion(blk[r])) = Block(blk[r])
    <3> DEFINE first == blk[r] * blocksize
               next == (blk[r] + 1) * blocksize
    <3>1. Block(blk[r]) = first .. next - 1 /\ next = first + blocksize
      BY <2>1 DEF Block
    <3>2. Bytes(OwnRegion(blk[r])) = first .. first + blocksize - 1
      BY <2>2
    <3>3. first \in Nat /\ blocksize \in Nat
      BY <2>1
    <3> HIDE DEF first, next
    <3>4. next - 1 = first + blocksize - 1
      BY <3>1, <3>3, SMT
    <3> QED BY <3>1, <3>2, <3>4
  <2> QED BY <1>2, <1>4, <2>3 DEF Shown
<1> QED BY <1>3, <1>4

(* "3. Copy from remote segments": in a buffer whose small blocks reach    *)
(* into a second page every copy goes through an attachment that exists    *)
(* and shows the block, in every round and in both programs.               *)
THEOREM CopiesAttachedHolds ==
    ASSUME SpansPages PROVE Spec => []CopiesAttached
<1>1. Init => Lists
  <2> SUFFICES ASSUME Init, NEW r \in Receiver PROVE Listed(r)
    BY DEF Lists
  <2>1. pc[r] = "setup" /\ lastpage[r] = NoPage
    BY DEF Init, Receiver
  <2> QED BY <2>1 DEF Listed
<1>2. IInv /\ Lists /\ [Next]_vars => Lists'
  BY ListsStep
<1>3. IInv /\ Lists => CopiesAttached
  <2> SUFFICES ASSUME IInv, Lists, NEW r \in Receiver, pc[r] = "copy", blk[r] < NBlocks,
                      seg[r][blk[r]] # Refused
               PROVE  Reachable(r) = Shown(blk[r])
    BY DEF CopiesAttached
  <2>1. TypeOK /\ blocksize > 0 /\ blk[r] \in Nat /\ NBlocks \in Nat
    <3>1. TypeOK /\ r \in Rank
      BY DEF IInv, Receiver
    <3> QED BY <3>1, Busy, BlockPlace
  <2>2. blk[r] \in 0 .. NBlocks - 1
    BY <2>1, SMT
  <2>3. Good(r, blk[r])
    BY <2>2 DEF Lists, Listed
  <2> QED BY <2>1, <2>3, GoodShows
<1> QED BY <1>1, <1>2, <1>3, Inductive, PTL DEF Spec

-----------------------------------------------------------------------------
(* A receiver whose attachment was refused has entered the last barrier,   *)
(* and the sender never passes the gather it entered at the same place.    *)
LastCall(r) == calls[r][Len(calls[r])]
Gone(r) ==
    curr[r] = Refused =>
        /\ pc[r] \in {"end_barrier"} \cup Stopped
        /\ iter[r] < Iters /\ Pos(r) = 2 * iter[r] + 4 /\ iter[Sender] <= iter[r]
        /\ LastCall(r) = "barrier"
Refusals ==
    /\ pc[Sender] = "gather" => LastCall(Sender) = "gather"
    /\ \A r \in Receiver : Gone(r)

(* The call a rank has just entered.                                       *)
LEMMA EnterLast ==
    ASSUME calls \in [Rank -> Seq(Collective)], NEW r \in Rank, NEW op, Enter(r, op),
           op \in Collective
    PROVE  LastCall(r)' = op
<1>1. calls[r] \in Seq(Collective) /\ calls'[r] = Append(calls[r], op)
  BY DEF Enter
<1>2. Append(calls[r], op)[Len(Append(calls[r], op))] = op
  BY <1>1, SMT
<1> QED BY <1>1, <1>2 DEF LastCall

(* The sender's own call.                                                  *)
LEMMA SenderCall ==
    ASSUME IInv, Refusals, NEW r \in Rank, RankStep(r) \/ Launcher(r), pc'[Sender] = "gather"
    PROVE  LastCall(Sender)' = "gather"
<1> USE SenderAssumption
<1>1. TypeOK /\ Position(Sender)
  BY DEF IInv, Control
<1>2. CASE r # Sender
  <2>1. pc'[Sender] = pc[Sender] /\ calls'[Sender] = calls[Sender]
    BY <1>1, <1>2, OthersKeep
  <2> QED BY <2>1 DEF Refusals, LastCall
<1>3. CASE r = Sender /\ PassRtsSender(r)
  BY <1>1, <1>3, EnterLast DEF PassRtsSender, Collective, TypeOK
<1>4. CASE r = Sender /\ ~PassRtsSender(r)
  BY <1>1, <1>4 DEF TypeOK, Position, RankStep, Launcher, Kill, DivideByZero, Setup, PassSegid,
     PassStartBarrier, StartRound, PassRtsReceiver, AttachPage, ReusePage, PageRefused, AttachBlock,
     AttachDone, CopyBlock, Fault, SendFin, PassFin, EndLoop, Finish, Goto
<1> QED BY <1>2, <1>3, <1>4

(* A receiver that goes, or has gone.                                      *)
LEMMA GoneStep ==
    ASSUME IInv, Refusals, NEW r \in Receiver, RankStep(r) \/ Launcher(r)
    PROVE  Gone(r)'
<1> USE SenderAssumption
<1>1. /\ TypeOK /\ Position(r) /\ Lag(r) /\ Gone(r) /\ r \in Rank /\ r # Sender
      /\ iter[r] \in Nat /\ iter[Sender] \in Nat /\ Pos(r) \in Nat /\ Iters \in Nat
  BY LoopAssumption, PosNat, SMT DEF IInv, Control, Refusals, TypeOK, Receiver, Iters
<1>2. iter'[Sender] = iter[Sender]
  BY <1>1, OthersKeep
<1>3. CASE PageRefused(r)
  <2>1. /\ pc[r] = "attach" /\ pc'[r] = "end_barrier" /\ iter' = iter
        /\ Enter(r, "barrier") /\ "barrier" \in Collective
    BY <1>1, <1>3 DEF PageRefused, Goto, TypeOK, Collective
  <2>2. Pos(r)' = Pos(r) + 1 /\ LastCall(r)' = "barrier"
    BY <1>1, <2>1, EnterPos, EnterLast DEF TypeOK
  <2>3. Pos(r) = 2 * iter[r] + 3 /\ iter[r] < Iters
    BY <1>1, <2>1 DEF Position
  <2>4. iter[Sender] <= iter[r]
    BY <1>1, <2>3, SMT DEF Lag
  <2>5. Pos(r)' = 2 * iter[r] + 4
    BY <1>1, <2>2, <2>3, SMT
  <2> QED BY <1>2, <2>1, <2>2, <2>3, <2>4, <2>5 DEF Gone
<1>4. CASE AttachPage(r)
  <2>1. curr'[r] = <<Page(r) * PageSize, PageSize>>
    BY <1>1, <1>4 DEF AttachPage, TypeOK
  <2>2. PageSize # 0
    BY XpmemAssumption, SMT
  <2>3. curr'[r] # Refused
    BY <2>1, <2>2 DEF Refused
  <2>4. Refused' = Refused
    BY DEF Refused
  <2> QED BY <2>3, <2>4 DEF Gone
<1>5. CASE ~PageRefused(r) /\ ~AttachPage(r)
  <2>1. curr' = curr
    BY <1>5 DEF RankStep, Launcher, DivideByZero, Setup, PassSegid,
     PassStartBarrier, StartRound, PassRtsSender, PassRtsReceiver, ReusePage, AttachBlock,
     AttachDone, CopyBlock, Fault, SendFin, PassFin, EndLoop, Finish, attaching
  <2>2. CASE curr[r] # Refused
    BY <2>1, <2>2 DEF Gone, Refused
  <2>3. CASE curr[r] = Refused
    <3>1. pc[r] \in {"end_barrier"} \cup Stopped
      BY <1>1, <2>3 DEF Gone
    <3>2. UNCHANGED <<calls, iter>> /\ pc'[r] \in Stopped
      BY <1>1, <1>5, <3>1 DEF RankStep, Launcher, Kill, DivideByZero, Setup, PassSegid,
       PassStartBarrier, StartRound, PassRtsSender, PassRtsReceiver, ReusePage, AttachBlock,
       AttachDone, CopyBlock, Fault, SendFin, PassFin, EndLoop, Finish, Goto, TypeOK, Stopped, Failed
    <3> QED BY <1>1, <1>2, <2>3, <3>2 DEF Gone, Pos, LastCall
  <2> QED BY <2>2, <2>3
<1> QED BY <1>3, <1>4, <1>5

(* A step of any rank keeps what a refused receiver has left undone.       *)
LEMMA RefusalStep ==
    ASSUME IInv, Refusals, [Next]_vars
    PROVE  Refusals'
<1> USE SenderAssumption
<1>1. CASE UNCHANGED vars
  BY <1>1 DEF vars, Refusals, Gone, Pos, LastCall, Refused
<1>2. SUFFICES ASSUME NEW r \in Rank, RankStep(r) \/ Launcher(r), NEW q \in Receiver
               PROVE  Gone(q)'
  BY <1>1, SenderCall DEF Next, Terminating, Refusals
<1>3. CASE q = r
  BY <1>2, <1>3, GoneStep
<1>4. CASE q # r
  <2>1. /\ TypeOK /\ Gone(q) /\ q \in Rank /\ iter[Sender] \in Nat /\ iter[q] \in Nat
    BY SMT DEF IInv, Refusals, Receiver, TypeOK
  <2>2. /\ pc'[q] = pc[q] /\ calls'[q] = calls[q] /\ iter'[q] = iter[q] /\ curr'[q] = curr[q]
    BY <1>2, <1>4, <2>1, OthersKeep
  <2>3. Pos(q)' = Pos(q) /\ LastCall(q)' = LastCall(q)
    BY <2>2 DEF Pos, LastCall
  <2>4. curr[q] = Refused => iter'[Sender] <= iter[q]
    <3> SUFFICES ASSUME curr[q] = Refused PROVE iter'[Sender] <= iter[q]
      OBVIOUS
    <3>1. CASE iter'[Sender] = iter[Sender]
      BY <2>1, <3>1 DEF Gone
    <3>2. CASE iter'[Sender] # iter[Sender]
      <4>1. r = Sender
        BY <1>2, <2>1, <3>2, OthersKeep
      <4>2. PassFin(r) /\ pc[r] = "gather" /\ iter'[r] = iter[r] + 1
        BY <1>2, <3>2, <4>1, OwnCounters
      <4>3. /\ Pos(Sender) = 2 * iter[Sender] + 4 /\ LastCall(Sender) = "gather"
        BY <4>1, <4>2 DEF IInv, Control, Position, Refusals
      <4>4. Joined(q, Sender)
        BY <2>1, <4>1, <4>2 DEF PassFin, FinReturns, GatherReturns
      <4>5. iter[q] # iter[Sender]
        BY <2>1, <4>3, <4>4 DEF Joined, Gone, Pos, LastCall
      <4>6. iter[Sender] <= iter[q]
        BY <2>1 DEF Gone
      <4> QED BY <2>1, <4>1, <4>2, <4>5, <4>6, SMT
    <3> QED BY <3>1, <3>2
  <2> QED BY <2>1, <2>2, <2>3, <2>4 DEF Gone, Refused
<1> QED BY <1>3, <1>4

-----------------------------------------------------------------------------
(* The bytes an attachment shows, and which block they belong to.          *)
LEMMA ShownBytes ==
    ASSUME TypeOK, blocksize > 0, NEW i \in Nat, i < NBlocks, NEW x \in Shown(i)
    PROVE  /\ x \in Block(i) /\ x \in Byte
           /\ \A j \in Nat : x \in Block(j) => j = i
<1>1. blocksize \in Nat \ {0} /\ BufSize \in Nat /\ NBlocks \in Nat
  BY BlockPlace, ArgsAssumption, SMT
<1>2. x \in Block(i)
  BY DEF Shown
<1>3. ASSUME NEW j \in Nat, x \in Block(j) PROVE x \in Nat /\ x \div blocksize = j
  <2>1. j * blocksize \in Nat /\ (j + 1) * blocksize \in Nat /\ j + 1 \in Nat
    BY <1>1, MulSucc, SMT
  <2> DEFINE first == j * blocksize
             next == (j + 1) * blocksize
  <2>2. x \in first .. next - 1
    BY <1>3 DEF Block
  <2> HIDE DEF first, next
  <2>3. x \in Nat /\ first <= x /\ x < next
    BY <2>1, <2>2, SMT DEF first, next
  <2>4. x \div blocksize \in Nat /\ ~(x \div blocksize < j) /\ x \div blocksize < j + 1
    BY <1>1, <2>1, <2>3, InBlock, SMT DEF first, next
  <2> QED BY <2>3, <2>4, SMT
<1>4. x \in Byte
  <2>1. (i + 1) * blocksize <= BufSize
    BY <1>1, BlockFits DEF NBlocks
  <2>2. x \in Nat /\ x \div blocksize < i + 1 /\ i + 1 \in Nat
    BY <1>2, <1>3, SMT
  <2>3. x < (i + 1) * blocksize /\ (i + 1) * blocksize \in Nat
    BY <1>1, <2>2, InBlock, MulSucc, SMT
  <2> QED BY <1>1, <2>1, <2>2, <2>3, SMT DEF Byte
<1> QED BY <1>2, <1>3, <1>4

(* What the attachments show lies in the buffer, its first byte included.  *)
LEMMA CoveredBytes ==
    ASSUME TypeOK, blocksize > 0
    PROVE  /\ Covered \subseteq Byte
           /\ blocksize <= BufSize => 0 \in Covered
<1>1. blocksize \in Nat \ {0} /\ BufSize \in Nat /\ NBlocks \in Nat
  BY BlockPlace, ArgsAssumption, SMT
<1>2. Covered \subseteq Byte
  <2> SUFFICES ASSUME NEW i \in 0 .. NBlocks - 1, NEW x \in Shown(i) PROVE x \in Byte
    BY DEF Covered
  <2>1. i \in Nat /\ i < NBlocks
    BY <1>1, SMT
  <2> QED BY <2>1, ShownBytes
<1>3. ASSUME blocksize <= BufSize PROVE 0 \in Covered
  <2>1. 0 \in 0 .. NBlocks - 1
    <3>1. 1 <= BufSize \div blocksize
      <4>1. BufSize < (BufSize \div blocksize + 1) * blocksize /\ BufSize \div blocksize \in Nat
        BY <1>1, SMT
      <4>2. BufSize \div blocksize = 0 => (BufSize \div blocksize + 1) * blocksize = blocksize
        BY <1>1, SMT
      <4> QED BY <1>1, <1>3, <4>1, <4>2, SMT
    <3> QED BY <1>1, <3>1, SMT DEF NBlocks
  <2>2. 0 \in Block(0)
    <3>1. 0 * blocksize = 0 /\ (0 + 1) * blocksize = blocksize
      BY <1>1, SMT
    <3>2. 0 \in 0 .. blocksize - 1
      BY <1>1, SMT
    <3> QED BY <3>1, <3>2 DEF Block
  <2>3. 0 \in Bytes(<<PageOf(0) * PageSize, PageSize>>)
    <3>1. PageOf(0) * PageSize = 0
      BY <1>1, FirstPage, MulZero, XpmemAssumption
    <3>2. 0 \in 0 .. 0 + PageSize - 1
      BY XpmemAssumption, SMT
    <3>3. \A a, b : Bytes(<<a, b>>) = a .. a + b - 1
      BY DEF Bytes
    <3> QED BY <3>1, <3>2, <3>3
  <2> QED BY <2>1, <2>2, <2>3 DEF Covered, Shown
<1> QED BY <1>2, <1>3

(* A receiver's buffer: the rounds it has counted, and bytes of the next   *)
(* one, which the sender has announced, until the FIN says it has them all.*)
Fresh(r) ==
    /\ \A x \in Covered :
           \/ lbuf[r][x] = iter[r]
           \/ /\ lbuf[r][x] = iter[r] + 1 /\ iter[r] < Iters
              /\ Pos(Sender) >= 2 * iter[r] + 3
    /\ iter[r] < Iters /\ Pos(r) >= 2 * iter[r] + 4 /\ curr[r] # Refused =>
           \A x \in Covered : lbuf[r][x] = iter[r] + 1
    /\ pc[r] = "copy" =>
           \A i \in 0 .. blk[r] - 1 : \A x \in Shown(i) : lbuf[r][x] = iter[r] + 1

Data == blocksize > 0 => \A r \in Receiver : Fresh(r)

(* What Covered and Shown are made of does not change.                     *)
LEMMA ShownKeep ==
    ASSUME blocksize' = blocksize
    PROVE  /\ Covered' = Covered /\ NBlocks' = NBlocks
           /\ \A i : Shown(i)' = Shown(i)
           /\ \A buf : Oldest(buf)' = Oldest(buf)
<1>1. NBlocks' = NBlocks /\ \A i : Shown(i)' = Shown(i)
  BY DEF NBlocks, Shown, SmallBlock, Block, Bytes, PageOf
<1>2. Covered' = Covered
  BY <1>1 DEF Covered
<1> QED BY <1>1, <1>2 DEF Oldest

(* The copy of one block: the bytes its attachment shows are of this round,*)
(* and what is lost of it belongs to no other block.                       *)
LEMMA CopyStep ==
    ASSUME IInv, Lists, Data, blocksize > 0, NEW r \in Receiver, CopyBlock(r)
    PROVE  /\ Fresh(r)'
           /\ \A x \in Covered : lbuf'[r][x] = lbuf[r][x] \/ lbuf'[r][x] = iter[r] + 1
           /\ Pos(Sender) >= 2 * iter[r] + 3 /\ iter[r] < Iters /\ Pos(r) = 2 * iter[r] + 3
           /\ \A q \in Receiver \ {r} : lbuf'[q] = lbuf[q]
<1> USE SenderAssumption
<1>1. /\ TypeOK /\ Position(r) /\ Listed(r) /\ Fresh(r) /\ r \in Rank /\ pc[r] = "copy"
      /\ blk[r] < NBlocks /\ seg[r][blk[r]] # Refused
      /\ UNCHANGED <<pc, calls, iter, curr, blocksize>>
  BY DEF IInv, Control, Lists, Data, Receiver, CopyBlock, config, attaching
<1>2. /\ blk[r] \in Nat /\ NBlocks \in Nat /\ blk[r] \in 0 .. NBlocks - 1 /\ blk'[r] = blk[r] + 1
      /\ iter[r] \in Nat /\ Pos(r) \in Nat /\ Pos(Sender) \in Nat
  <2>1. blk[r] \in Nat /\ NBlocks \in Nat /\ iter[r] \in Nat
    BY <1>1, Busy, BlockPlace
  <2>2. blk'[r] = blk[r] + 1
    BY <1>1 DEF CopyBlock, TypeOK
  <2> QED BY <1>1, <2>1, <2>2, PosNat, SMT DEF TypeOK
<1>3. Reachable(r) = Shown(blk[r])
  BY <1>1, <1>2, GoodShows DEF Listed
<1>4. Pos(Sender) >= 2 * iter[r] + 3 /\ iter[r] < Iters /\ Pos(r) = 2 * iter[r] + 3
  BY <1>1 DEF Position
<1>5. lbuf' = [lbuf EXCEPT ![r] = [x \in Byte |->
                   IF x \notin BlockBytes(r) THEN lbuf[r][x]
                   ELSE IF x \in Reachable(r) THEN iter[r] + 1 ELSE 0]]
  BY DEF CopyBlock
<1>6. \A x \in Byte : lbuf'[r][x] = IF x \notin Block(blk[r]) THEN lbuf[r][x]
                                   ELSE IF x \in Shown(blk[r]) THEN iter[r] + 1 ELSE 0
  BY <1>1, <1>3, <1>5 DEF TypeOK, BlockBytes
<1>7. ASSUME NEW i \in 0 .. NBlocks - 1, NEW x \in Shown(i)
      PROVE  /\ i # blk[r] => lbuf'[r][x] = lbuf[r][x]
             /\ i = blk[r] => lbuf'[r][x] = iter[r] + 1
  <2>1. i \in Nat /\ i < NBlocks
    BY <1>2, SMT
  <2>2. /\ x \in Block(i) /\ x \in Byte /\ \A j \in Nat : x \in Block(j) => j = i
    BY <1>1, <2>1, ShownBytes
  <2> QED BY <1>2, <1>6, <2>2
<1>8. \A x \in Covered : lbuf'[r][x] = lbuf[r][x] \/ lbuf'[r][x] = iter[r] + 1
  BY <1>7 DEF Covered
<1>9. Pos(r)' = Pos(r) /\ Pos(Sender)' = Pos(Sender) /\ Covered' = Covered
      /\ \A i : Shown(i)' = Shown(i)
  BY <1>1, ShownKeep DEF Pos
<1>10. \A i \in 0 .. (blk[r] + 1) - 1 : \A x \in Shown(i) : lbuf'[r][x] = iter[r] + 1
  <2> SUFFICES ASSUME NEW i \in 0 .. (blk[r] + 1) - 1, NEW x \in Shown(i)
               PROVE  lbuf'[r][x] = iter[r] + 1
    OBVIOUS
  <2>1. i \in 0 .. NBlocks - 1 /\ (i \in 0 .. blk[r] - 1 \/ i = blk[r])
    BY <1>2, SMT
  <2>2. i \in 0 .. blk[r] - 1 => i # blk[r]
    BY <1>2, SMT
  <2>3. i \in 0 .. blk[r] - 1 => lbuf[r][x] = iter[r] + 1
    BY <1>1 DEF Fresh
  <2> QED BY <1>7, <2>1, <2>2, <2>3
<1>11. ~(Pos(r)' >= 2 * iter[r] + 4)
  BY <1>2, <1>4, <1>9, SMT
<1>12. \A x \in Covered :
           \/ lbuf'[r][x] = iter[r]
           \/ /\ lbuf'[r][x] = iter[r] + 1 /\ iter[r] < Iters
              /\ Pos(Sender)' >= 2 * iter[r] + 3
  BY <1>1, <1>4, <1>8, <1>9 DEF Fresh
<1>13. Fresh(r)'
  BY <1>1, <1>2, <1>9, <1>10, <1>11, <1>12 DEF Fresh
<1> QED BY <1>1, <1>4, <1>5, <1>8, <1>13 DEF TypeOK

(* A step that is no copy keeps the buffer; where it ends a round, every   *)
(* block has been copied.                                                  *)
LEMMA OwnData ==
    ASSUME IInv, Refusals, Data, blocksize > 0, NEW r \in Receiver, RankStep(r) \/ Launcher(r),
           ~CopyBlock(r)
    PROVE  Fresh(r)'
<1> USE SenderAssumption, LoopAssumption
<1>1. /\ TypeOK /\ Position(r) /\ r \in Rank /\ r # Sender /\ Fresh(r) /\ Gone(r)
      /\ Pos(r) \in Nat /\ iter[r] \in Nat /\ Iters \in Nat \ {0} /\ Pos(Sender) \in Nat
      /\ iter[r] <= Iters
  <2>1. TypeOK /\ Position(r) /\ r \in Rank /\ r # Sender /\ Fresh(r) /\ Gone(r)
    BY DEF IInv, Control, Data, Refusals, Receiver
  <2>2. Pos(r) \in Nat /\ Pos(Sender) \in Nat /\ iter[r] \in 0 .. Iters
    BY <2>1, PosNat DEF TypeOK
  <2>3. Iters \in Nat \ {0}
    BY SMT DEF Iters
  <2> QED BY <2>1, <2>2, <2>3, SMT
<1>2. /\ lbuf' = lbuf /\ Refused' = Refused
  BY DEF RankStep, Launcher, DivideByZero, Setup, PassSegid, PassStartBarrier, StartRound,
     PassRtsSender, PassRtsReceiver, AttachPage, ReusePage, PageRefused, AttachBlock, AttachDone,
     Fault, SendFin, PassFin, EndLoop, Finish, Refused
<1>3. /\ Pos(Sender)' = Pos(Sender) /\ Covered' = Covered /\ \A i : Shown(i)' = Shown(i)
  BY <1>1, OthersKeep, ShownKeep DEF Pos
<1>4. ASSUME iter' = iter, pc'[r] # "copy",
             \/ calls' = calls /\ curr' = curr
             \/ ~(Pos(r)' >= 2 * iter[r] + 4)
             \/ ~(iter[r] < Iters)
             \/ curr'[r] = Refused
             \/ \A x \in Covered : lbuf[r][x] = iter[r] + 1
      PROVE  Fresh(r)'
  <2>1. calls' = calls => Pos(r)' = Pos(r)
    BY DEF Pos
  <2> QED BY <1>1, <1>2, <1>3, <1>4, <2>1 DEF Fresh
<1>5. CASE DivideByZero(r) \/ Fault(r) \/ Launcher(r) \/ PassStartBarrier(r) \/ Finish(r)
  <2>1. UNCHANGED <<calls, iter, curr>> /\ pc'[r] # "copy"
    BY <1>1, <1>5 DEF DivideByZero, Fault, Launcher, Kill, PassStartBarrier, Finish, Goto, TypeOK,
       attaching
  <2> QED BY <1>4, <2>1
<1>6. CASE Setup(r) \/ PassSegid(r) \/ StartRound(r) \/ EndLoop(r)
  <2>1. /\ iter' = iter /\ pc'[r] # "copy"
        /\ Pos(r)' = Pos(r) + 1
        /\ \/ pc[r] = "setup" \/ pc[r] = "segid"
           \/ pc[r] = "loop"
    BY <1>1, <1>6, EnterPos DEF Setup, PassSegid, StartRound, EndLoop, Goto, TypeOK, Collective
  <2>2. ~(Pos(r)' >= 2 * iter[r] + 4)
    BY <1>1, <2>1, SMT DEF Position
  <2> QED BY <1>4, <2>1, <2>2
<1>7. CASE PassRtsReceiver(r) \/ AttachDone(r)
  <2>1. UNCHANGED <<calls, iter, curr>> /\ blk'[r] = 0
    BY <1>1, <1>7 DEF PassRtsReceiver, AttachDone, TypeOK, attaching
  <2>2. Pos(r)' = Pos(r) /\ \A i \in 0 .. 0 - 1 : FALSE
    BY <2>1, SMT DEF Pos
  <2> QED BY <1>1, <1>2, <1>3, <2>1, <2>2 DEF Fresh
<1>8. CASE AttachPage(r) \/ ReusePage(r) \/ AttachBlock(r)
  <2>1. UNCHANGED <<pc, calls, iter>> /\ pc[r] = "attach"
    BY <1>8 DEF AttachPage, ReusePage, AttachBlock
  <2>2. Pos(r)' = Pos(r) /\ ~(Pos(r) >= 2 * iter[r] + 4)
    BY <1>1, <2>1, SMT DEF Position, Pos
  <2> QED BY <1>4, <2>1, <2>2
<1>9. CASE PageRefused(r)
  <2>1. iter' = iter /\ pc'[r] # "copy" /\ curr'[r] = Refused
    BY <1>1, <1>9 DEF PageRefused, Goto, TypeOK
  <2> QED BY <1>4, <2>1
<1>10. CASE SendFin(r)
  <2>1. /\ pc[r] = "copy" /\ pc'[r] = "gather" /\ iter' = iter /\ blk[r] = NBlocks
    BY <1>1, <1>10 DEF SendFin, Goto, TypeOK
  <2>2. \A x \in Covered : lbuf[r][x] = iter[r] + 1
    BY <1>1, <2>1 DEF Fresh, Covered
  <2> QED BY <1>4, <2>1, <2>2
<1>11. CASE PassFin(r)
  <2>1. /\ pc[r] = "gather" /\ pc'[r] = "loop" /\ calls' = calls /\ iter'[r] = iter[r] + 1
    BY <1>1, <1>11 DEF PassFin, Goto, TypeOK
  <2>2. Pos(r) = 2 * iter[r] + 4 /\ iter[r] < Iters /\ Pos(r)' = Pos(r)
    BY <1>1, <2>1 DEF Position, Pos
  <2>3. curr[r] # Refused
    BY <1>1, <2>1 DEF Gone, Stopped, Failed
  <2>4. \A x \in Covered : lbuf[r][x] = iter[r] + 1
    BY <1>1, <2>2, <2>3, SMT DEF Fresh
  <2>5. ~(Pos(r)' >= 2 * iter'[r] + 4)
    BY <1>1, <2>1, <2>2, SMT
  <2> QED BY <1>2, <1>3, <2>1, <2>4, <2>5 DEF Fresh
<1>12. ~PassRtsSender(r)
  BY <1>1 DEF PassRtsSender
<1> QED BY <1>5, <1>6, <1>7, <1>8, <1>9, <1>10, <1>11, <1>12 DEF RankStep

(* A step of any rank keeps every receiver's buffer in its round.          *)
LEMMA DataStep ==
    ASSUME IInv, IInv', Lists, Refusals, Data, [Next]_vars
    PROVE  Data'
<1> USE SenderAssumption
<1>1. CASE UNCHANGED vars
  <2>1. /\ Covered' = Covered /\ \A i : Shown(i)' = Shown(i)
    BY <1>1, ShownKeep DEF vars
  <2> QED BY <1>1, <2>1 DEF vars, Data, Fresh, Pos, Refused
<1>2. SUFFICES ASSUME NEW r \in Rank, RankStep(r) \/ Launcher(r), NEW q \in Receiver, blocksize' > 0
               PROVE  Fresh(q)'
  BY <1>1 DEF Next, Terminating, Data
<1>3. blocksize' = blocksize /\ blocksize > 0 /\ TypeOK
  <2>1. TypeOK
    BY DEF IInv
  <2> QED BY <1>2, <2>1, OthersKeep
<1>4. CASE q = r
  BY <1>2, <1>3, <1>4, CopyStep, OwnData
<1>5. CASE q # r
  <2>1. /\ Fresh(q) /\ q \in Rank /\ iter[q] \in Nat /\ Pos(Sender) \in Nat /\ Pos(Sender)' \in Nat
    <3>1. TypeOK' /\ Fresh(q) /\ q \in Rank
      BY <1>3 DEF IInv, Data, Receiver
    <3>2. iter[q] \in 0 .. Iters /\ calls'[Sender] \in Seq(Collective)
      BY <1>3, <3>1 DEF TypeOK
    <3> QED BY <1>3, <3>1, <3>2, PosNat, SMT DEF TypeOK, Pos
  <2>2. /\ pc'[q] = pc[q] /\ Pos(q)' = Pos(q) /\ iter'[q] = iter[q] /\ lbuf'[q] = lbuf[q]
        /\ blk'[q] = blk[q] /\ curr'[q] = curr[q]
    BY <1>2, <1>3, <1>5, <2>1, OthersKeep DEF Pos
  <2>3. Pos(Sender)' >= Pos(Sender)
    <3>1. CASE r = Sender
      BY <1>2, <3>1, OwnCounters
    <3>2. CASE r # Sender
      BY <1>2, <1>3, <2>1, <3>2, OthersKeep, SMT DEF Pos
    <3> QED BY <3>1, <3>2
  <2>4. Covered' = Covered /\ Refused' = Refused /\ \A i : Shown(i)' = Shown(i)
    BY <1>3, ShownKeep DEF Refused
  <2>5. Pos(Sender) >= 2 * iter[q] + 3 => Pos(Sender)' >= 2 * iter[q] + 3
    BY <2>1, <2>3, SMT
  <2> QED BY <2>1, <2>2, <2>4, <2>5 DEF Fresh
<1> QED BY <1>4, <1>5

(* When the sender is at the head of its loop everybody holds exactly the  *)
(* rounds it counts: dead or alive, ahead of it or behind.                 *)
LEMMA HeldRounds ==
    ASSUME IInv, Refusals, Data, blocksize > 0, Pos(Sender) = 2 * iter[Sender] + 2,
           NEW r \in Receiver, NEW x \in Covered
    PROVE  lbuf[r][x] = iter[Sender]
<1>1. /\ r # Sender /\ r \in Rank /\ iter[r] \in 0 .. Iters /\ iter[Sender] \in 0 .. Iters
      /\ Iters \in Nat /\ Pos(r) \in Nat /\ Pos(Sender) \in Nat
      /\ Bounds(r) /\ Lag(r) /\ Ahead(r) /\ Fresh(r) /\ Gone(r)
  BY SenderAssumption, LoopAssumption, PosNat, SMT
     DEF IInv, Control, TypeOK, Data, Refusals, Receiver, Iters
<1>2. iter[r] <= iter[Sender]
  BY <1>1, SMT DEF Ahead
<1>3. iter[Sender] <= iter[r] + 1
  BY <1>1, SMT DEF Bounds, Lag
<1>4. CASE iter[r] = iter[Sender]
  BY <1>1, <1>4, SMT DEF Fresh
<1>5. CASE iter[Sender] = iter[r] + 1
  <2>1. iter[r] < Iters /\ Pos(r) >= 2 * iter[r] + 4
    BY <1>1, <1>5, SMT DEF Lag
  <2>2. curr[r] # Refused
    BY <1>1, <1>5, SMT DEF Gone
  <2> QED BY <1>1, <1>5, <2>1, <2>2 DEF Fresh
<1> QED BY <1>1, <1>2, <1>3, <1>4, <1>5, SMT

-----------------------------------------------------------------------------
(* The refinement of Transfer, as in CmaDtProofs.  Nothing is claimed of a *)
(* run whose block does not fit the buffer: it transfers nothing.          *)
HoldsBlock == \A b \in BlockSizes : b <= BufSize

AnnouncedInv ==
    Announced = IF iter[Sender] < Iters /\ Pos(Sender) >= 2 * iter[Sender] + 3
                THEN iter[Sender] + 1 ELSE iter[Sender]
ClockInv == clock = "stopped" => iter[Sender] = Iters

(* What a receiver holds: the round it is in once it has copied all of it. *)
HeldInv ==
    blocksize > 0 => \A r \in Receiver :
        /\ (\A x \in Covered : lbuf[r][x] = iter[r] + 1) => Oldest(lbuf[r]) = iter[r] + 1
        /\ (\E x \in Covered : lbuf[r][x] = iter[r]) => Oldest(lbuf[r]) = iter[r]
        /\ \/ \A x \in Covered : lbuf[r][x] = iter[r] + 1
           \/ \E x \in Covered : lbuf[r][x] = iter[r]

(* The oldest round in a buffer, from any lower bound it reaches.          *)
LEMMA OldestIs ==
    ASSUME blocksize > 0, blocksize \in Nat,
           NEW buf, NEW v \in Nat, \A x \in Covered : buf[x] \in Nat /\ buf[x] >= v,
           NEW y \in Covered, buf[y] = v
    PROVE  Oldest(buf) = v
<1> DEFINE S == {buf[x] : x \in Covered}
           M(w) == w \in S /\ \A z \in S : w <= z
<1>1. M(v)
  BY SMT
<1>2. \A w : M(w) => w = v
  <2> SUFFICES ASSUME NEW w, M(w) PROVE w = v
    OBVIOUS
  <2>1. w \in Nat /\ w <= v /\ v <= w
    BY <1>1
  <2> QED BY <2>1, SMT
<1>3. Oldest(buf) = CHOOSE w \in S : \A z \in S : w <= z
  <2>1. blocksize # 0
    BY SMT
  <2> QED BY <2>1 DEF Oldest, Min
<1> HIDE DEF S
<1>4. (CHOOSE w \in S : \A z \in S : w <= z) = v
  BY <1>1, <1>2
<1> QED BY <1>3, <1>4

(* A buffer holds bytes of its round and of the next one only.             *)
LEMMA HeldIs == HoldsBlock /\ IInv /\ Data => HeldInv
<1> SUFFICES ASSUME HoldsBlock, IInv, Data, blocksize > 0, NEW r \in Receiver
             PROVE  /\ (\A x \in Covered : lbuf[r][x] = iter[r] + 1) => Oldest(lbuf[r]) = iter[r] + 1
                    /\ (\E x \in Covered : lbuf[r][x] = iter[r]) => Oldest(lbuf[r]) = iter[r]
                    /\ \/ \A x \in Covered : lbuf[r][x] = iter[r] + 1
                       \/ \E x \in Covered : lbuf[r][x] = iter[r]
  BY DEF HeldInv
<1>1. /\ 0 \in Covered /\ iter[r] \in Nat /\ iter[r] + 1 \in Nat /\ Fresh(r) /\ blocksize \in Nat
  <2>1. Fresh(r) /\ iter[r] \in 0 .. Iters /\ TypeOK /\ blocksize \in BlockSizes
    BY DEF Data, IInv, TypeOK, Receiver
  <2>2. blocksize <= BufSize /\ blocksize \in Nat
    BY <2>1, ArgsAssumption DEF HoldsBlock
  <2> QED BY <2>1, <2>2, CoveredBytes, SMT
<1>2. \A x \in Covered : lbuf[r][x] = iter[r] \/ lbuf[r][x] = iter[r] + 1
  BY <1>1 DEF Fresh
<1>3. ASSUME \A x \in Covered : lbuf[r][x] = iter[r] + 1
      PROVE  Oldest(lbuf[r]) = iter[r] + 1
  <2>1. \A x \in Covered : lbuf[r][x] \in Nat /\ lbuf[r][x] >= iter[r] + 1
    BY <1>1, <1>3, SMT
  <2> QED BY <1>1, <1>3, <2>1, OldestIs
<1>4. ASSUME NEW y \in Covered, lbuf[r][y] = iter[r]
      PROVE  Oldest(lbuf[r]) = iter[r]
  <2>1. \A x \in Covered : lbuf[r][x] \in Nat /\ lbuf[r][x] >= iter[r]
    BY <1>1, <1>2, SMT
  <2> QED BY <1>1, <1>4, <2>1, OldestIs
<1> QED BY <1>2, <1>3, <1>4

(* What the sender announces with a call.                                  *)
LEMMA EnterAnnounces ==
    ASSUME TypeOK, NEW op \in Collective, Enter(Sender, op)
    PROVE  /\ Pos(Sender) = 0 => Announced' = 0
           /\ Pos(Sender) > 0 =>
                 Announced' = IF op = "bcast" THEN Announced + 1 ELSE Announced
<1>1. Announced = LaterBcasts /\ Announced' = LaterBcasts'
  BY DEF Announced, LaterBcasts, Calls
<1> QED BY <1>1, EnterCounts DEF TypeOK

(* The sender's history and loop counter, step by step.                    *)
LEMMA AnnouncedStep ==
    ASSUME IInv, AnnouncedInv, ClockInv, [Next]_vars
    PROVE  AnnouncedInv' /\ ClockInv'
<1> USE SenderAssumption
<1>1. /\ TypeOK /\ Position(Sender) /\ iter[Sender] \in Nat /\ Pos(Sender) \in Nat
      /\ Iters \in Nat \ {0} /\ iter[Sender] <= Iters
  BY PosNat, LoopAssumption, SMT DEF IInv, Control, TypeOK, Iters
<1>2. CASE UNCHANGED vars
  BY <1>2 DEF vars, AnnouncedInv, ClockInv, Announced, Pos
<1>3. SUFFICES ASSUME NEW r \in Rank, RankStep(r) \/ Launcher(r)
               PROVE  AnnouncedInv' /\ ClockInv'
  BY <1>2 DEF Next, Terminating
<1>4. CASE r # Sender
  <2>1. clock' = clock
    BY <1>3, <1>4 DEF RankStep, Launcher, DivideByZero, Setup, PassSegid, PassStartBarrier,
       StartRound, BeginRound, PassRtsSender, PassRtsReceiver, AttachPage, ReusePage, PageRefused,
       AttachBlock, AttachDone, CopyBlock, Fault, SendFin, PassFin, EndLoop, LeaveLoop, Finish
  <2>2. iter'[Sender] = iter[Sender] /\ calls'[Sender] = calls[Sender]
    BY <1>1, <1>3, <1>4, OthersKeep
  <2> QED BY <2>1, <2>2 DEF AnnouncedInv, ClockInv, Announced, Pos
<1>5. CASE r = Sender
  <2>1. CASE UNCHANGED <<calls, iter, clock>>
    BY <2>1 DEF AnnouncedInv, ClockInv, Announced, Pos
  <2>2. CASE Setup(r)
    <3>1. /\ Pos(r) = 0 /\ iter[r] = 0 /\ Enter(r, "bcast") /\ UNCHANGED <<iter, clock>>
          /\ "bcast" \in Collective
      BY <1>1, <1>5, <2>2 DEF Setup, Position, Collective
    <3>2. Pos(r)' = 1 /\ Announced' = 0
      BY <1>1, <1>5, <3>1, EnterPos, EnterAnnounces DEF TypeOK
    <3> QED BY <1>1, <1>5, <3>1, <3>2, SMT DEF AnnouncedInv, ClockInv
  <2>3. CASE PassSegid(r)
    <3>1. /\ Pos(r) = 1 /\ iter[r] = 0 /\ Enter(r, "barrier") /\ UNCHANGED <<iter, clock>>
          /\ "barrier" \in Collective
      BY <1>1, <1>5, <2>3 DEF PassSegid, Position, Collective
    <3>2. Pos(r)' = 2 /\ Announced' = Announced
      BY <1>1, <1>5, <3>1, EnterPos, EnterAnnounces DEF TypeOK
    <3> QED BY <1>1, <1>5, <3>1, <3>2, SMT DEF AnnouncedInv, ClockInv
  <2>4. CASE StartRound(r)
    <3>1. /\ Pos(r) = 2 * iter[r] + 2 /\ iter[r] < Iters /\ Enter(r, "bcast")
          /\ iter' = iter /\ clock' \in {clock, "running"} /\ "bcast" \in Collective
      BY <1>1, <1>5, <2>4 DEF StartRound, BeginRound, MoreRounds, Position, Collective
    <3>2. Pos(r)' = 2 * iter[r] + 3 /\ Announced' = Announced + 1
      BY <1>1, <1>5, <3>1, EnterPos, EnterAnnounces, SMT DEF TypeOK
    <3> QED BY <1>1, <1>5, <3>1, <3>2, SMT DEF AnnouncedInv, ClockInv
  <2>5. CASE PassRtsSender(r)
    <3>1. /\ Pos(r) = 2 * iter[r] + 3 /\ iter[r] < Iters /\ Enter(r, "gather")
          /\ UNCHANGED <<iter, clock>> /\ "gather" \in Collective
      BY <1>1, <1>5, <2>5 DEF PassRtsSender, Position, Collective
    <3>2. Pos(r)' = Pos(r) + 1 /\ Pos(r) > 0
      BY <1>1, <1>5, <3>1, EnterPos, SMT DEF TypeOK
    <3>3. Announced' = Announced
      BY <1>1, <1>5, <3>1, <3>2, EnterAnnounces
    <3>4. Pos(r)' = 2 * iter[r] + 4
      BY <1>1, <1>5, <3>1, <3>2, SMT
    <3> QED BY <1>1, <1>5, <3>1, <3>3, <3>4, SMT DEF AnnouncedInv, ClockInv
  <2>6. CASE PassFin(r)
    <3>1. /\ Pos(r) = 2 * iter[r] + 4 /\ iter[r] < Iters /\ UNCHANGED <<calls, clock>>
          /\ iter'[r] = iter[r] + 1
      BY <1>1, <1>5, <2>6 DEF PassFin, Position, TypeOK
    <3>2. Pos(r)' = Pos(r) /\ Announced' = Announced
      BY <3>1 DEF Pos, Announced
    <3> QED BY <1>1, <1>5, <3>1, <3>2, SMT DEF AnnouncedInv, ClockInv
  <2>7. CASE EndLoop(r)
    <3>1. /\ Pos(r) = 2 * iter[r] + 2 /\ iter' = iter /\ ~(iter[r] < Iters) /\ Enter(r, "barrier")
          /\ "barrier" \in Collective
      BY <1>1, <1>5, <2>7 DEF EndLoop, LeaveLoop, MoreRounds, Position, Collective
    <3>2. iter[r] = Iters /\ Announced' = Announced
      BY <1>1, <1>5, <3>1, EnterAnnounces, SMT
    <3> QED BY <1>1, <1>5, <3>1, <3>2, SMT DEF AnnouncedInv, ClockInv
  <2>8. ~SendFin(r) /\ ~PageRefused(r)
    BY <1>1, <1>5 DEF Position, SendFin, PageRefused
  <2> QED BY <1>3, <2>1, <2>2, <2>3, <2>4, <2>5, <2>6, <2>7, <2>8
          DEF RankStep, Launcher, Kill, DivideByZero, PassStartBarrier, PassRtsReceiver, AttachPage,
              ReusePage, AttachBlock, AttachDone, CopyBlock, Fault, Finish
<1> QED BY <1>4, <1>5

(* Each step is a step of Transfer or leaves all three of its variables    *)
(* alone: the RTS of the sender publishes, the copy of the last block      *)
(* takes, and the sender reports when it leaves the loop.                  *)
RInv == IInv /\ Lists /\ Refusals /\ Data /\ AnnouncedInv /\ ClockInv
Held == [r \in Receiver |-> Oldest(lbuf[r])]
tvars == <<Announced, [r \in Receiver |-> Oldest(lbuf[r])], clock = "stopped">>

(* A buffer that does not change holds the same round.                     *)
LEMMA OldestKeeps ==
    ASSUME blocksize' = blocksize
    PROVE  \A q : Oldest(lbuf[q])' = Oldest(lbuf'[q])
<1>1. Covered' = Covered
  BY ShownKeep
<1> QED BY <1>1 DEF Oldest

(* A copy: the buffer it fills gets nothing older.                         *)
LEMMA CopyTakes ==
    ASSUME RInv, HeldInv, HeldInv', blocksize > 0, NEW r \in Receiver, CopyBlock(r)
    PROVE  Abstract!Take(r) \/ UNCHANGED tvars
<1> USE SenderAssumption
<1>1. /\ IInv /\ Lists /\ Data /\ TypeOK /\ r \in Rank /\ Bounds(Sender) /\ Lag(r)
      /\ UNCHANGED <<calls, iter, clock, blocksize>>
  BY DEF RInv, IInv, Control, CopyBlock, Receiver, config
<1>2. /\ iter[r] \in Nat /\ iter[Sender] \in Nat /\ Pos(Sender) \in Nat
  <2>1. iter[r] \in 0 .. Iters /\ iter[Sender] \in 0 .. Iters
    BY <1>1 DEF TypeOK, Receiver
  <2> QED BY <1>1, <2>1, PosNat, SMT DEF TypeOK
<1>3. /\ Pos(Sender) >= 2 * iter[r] + 3 /\ iter[r] < Iters /\ Pos(r) = 2 * iter[r] + 3
      /\ \A q \in Receiver \ {r} : lbuf'[q] = lbuf[q]
      /\ \A x \in Covered : lbuf'[r][x] = lbuf[r][x] \/ lbuf'[r][x] = iter[r] + 1
  BY <1>1, CopyStep
<1>4. iter[r] = iter[Sender]
  BY <1>1, <1>2, <1>3, SMT DEF Bounds, Lag
<1>5. Announced = iter[r] + 1 /\ Announced' = Announced
  BY <1>1, <1>3, <1>4 DEF RInv, AnnouncedInv, Announced
<1>6. /\ \A q : Oldest(lbuf[q])' = Oldest(lbuf'[q])
      /\ Covered' = Covered /\ blocksize' > 0
  BY <1>1, OldestKeeps, ShownKeep
<1>7. Oldest(lbuf'[r]) \in {iter[r], iter[r] + 1}
  <2>1. Oldest(lbuf[r])' = iter'[r] + 1 \/ Oldest(lbuf[r])' = iter'[r]
    BY <1>6 DEF HeldInv
  <2> QED BY <1>1, <1>6, <2>1
<1>8. Oldest(lbuf[r]) \in {iter[r], iter[r] + 1}
  BY DEF HeldInv
<1>9. CASE Oldest(lbuf'[r]) = Oldest(lbuf[r])
  BY <1>1, <1>3, <1>5, <1>6, <1>9 DEF tvars
<1>10. CASE Oldest(lbuf[r]) = iter[r] /\ Oldest(lbuf'[r]) = iter[r] + 1
  <2>1. Held' = [Held EXCEPT ![r] = Announced]
    BY <1>3, <1>5, <1>6, <1>10 DEF Held
  <2>2. Held[r] < Announced
    BY <1>2, <1>5, <1>10, SMT DEF Held
  <2> QED BY <1>1, <1>5, <2>1, <2>2 DEF Abstract!Take, Held
<1>11. CASE Oldest(lbuf[r]) = iter[r] + 1 /\ Oldest(lbuf'[r]) = iter[r]
  <2>1. iter[r] + 1 # iter[r]
    BY <1>2, SMT
  <2>2. \A x \in Covered : lbuf[r][x] = iter[r] + 1
    BY <1>11, <2>1 DEF HeldInv
  <2>3. \A x \in Covered : lbuf'[r][x] = iter'[r] + 1
    BY <1>1, <1>3, <2>2
  <2>4. Oldest(lbuf[r])' = iter'[r] + 1
    BY <1>6, <2>3 DEF HeldInv
  <2> QED BY <1>1, <1>6, <1>11, <2>1, <2>4
<1> QED BY <1>7, <1>8, <1>9, <1>10, <1>11

(* Without a block size the program does not get past its division by it.  *)
LEMMA NothingMoves ==
    ASSUME IInv, blocksize = 0, NEW r \in Rank, RankStep(r) \/ Launcher(r)
    PROVE  UNCHANGED tvars
<1>1. Position(r) /\ ~(blocksize > 0)
  BY SMT DEF IInv, Control
<1>2. DivideByZero(r) \/ Launcher(r)
  BY <1>1 DEF Position, RankStep, DivideByZero, Setup, PassSegid, PassStartBarrier, StartRound,
     PassRtsSender, PassRtsReceiver, AttachPage, ReusePage, PageRefused, AttachBlock, AttachDone,
     CopyBlock, Fault, SendFin, PassFin, EndLoop, Finish
<1>3. UNCHANGED <<calls, clock, blocksize, lbuf>>
  BY <1>2 DEF DivideByZero, Launcher, Kill, config
<1>4. \A q : Oldest(lbuf[q])' = Oldest(lbuf'[q])
  BY <1>3, OldestKeeps
<1> QED BY <1>3, <1>4 DEF tvars, Announced

(* Each step of the XPMEM programs is a step of Transfer or leaves it alone. *)
LEMMA StepSimulates ==
    ASSUME HoldsBlock, RInv, HeldInv, HeldInv', [Next]_vars
    PROVE  Abstract!Next \/ UNCHANGED tvars
<1> USE SenderAssumption
<1>1. /\ IInv /\ TypeOK /\ Position(Sender) /\ iter[Sender] \in Nat /\ Pos(Sender) \in Nat
      /\ Iters \in Nat \ {0} /\ iter[Sender] <= Iters
  BY PosNat, LoopAssumption, SMT DEF RInv, IInv, Control, TypeOK, Iters
<1>2. CASE UNCHANGED vars
  <2>1. UNCHANGED <<blocksize, calls, clock, lbuf>>
    BY <1>2 DEF vars
  <2>2. \A q : Oldest(lbuf[q])' = Oldest(lbuf'[q])
    BY <2>1, OldestKeeps
  <2> QED BY <2>1, <2>2 DEF tvars, Announced
<1>3. SUFFICES ASSUME NEW r \in Rank, RankStep(r) \/ Launcher(r)
               PROVE  Abstract!Next \/ UNCHANGED tvars
  BY <1>2 DEF Next, Terminating
<1>4. blocksize' = blocksize /\ blocksize \in BlockSizes /\ blocksize \in Nat
  BY <1>1, <1>3, OthersKeep, ArgsAssumption DEF TypeOK
<1>5. CASE ~(blocksize > 0)
  <2>1. blocksize = 0
    BY <1>4, <1>5, SMT
  <2> QED BY <1>1, <1>3, <2>1, NothingMoves
<1>6. SUFFICES ASSUME blocksize > 0 PROVE Abstract!Next \/ UNCHANGED tvars
  BY <1>5
<1>7. \A q : Oldest(lbuf[q])' = Oldest(lbuf'[q])
  BY <1>4, OldestKeeps
(* When the sender is at the head of its loop everybody holds exactly the  *)
(* rounds it counts.                                                       *)
<1>8. ASSUME Pos(Sender) = 2 * iter[Sender] + 2, NEW q \in Receiver
      PROVE  Oldest(lbuf[q]) = iter[Sender]
  <2>1. \A x \in Covered : lbuf[q][x] = iter[Sender]
    BY <1>6, <1>8, HeldRounds DEF RInv
  <2>2. 0 \in Covered
    BY <1>1, <1>4, <1>6, CoveredBytes DEF HoldsBlock
  <2>3. \A x \in Covered : lbuf[q][x] \in Nat /\ lbuf[q][x] >= iter[Sender]
    BY <1>1, <2>1, SMT
  <2> QED BY <1>1, <1>4, <1>6, <2>1, <2>2, <2>3, OldestIs
<1>9. CASE StartRound(r) /\ r = Sender
  <2>1. /\ pc[r] = "loop" /\ lbuf' = lbuf /\ Enter(r, "bcast") /\ iter[r] < Iters
        /\ clock' \in {clock, "running"} /\ "bcast" \in Collective
    BY <1>9 DEF StartRound, BeginRound, MoreRounds, Collective
  <2>2. Pos(Sender) = 2 * iter[Sender] + 2 /\ Pos(Sender) > 0
    BY <1>1, <1>9, <2>1, SMT DEF Position
  <2>3. Announced = iter[Sender]
    BY <1>1, <2>2, SMT DEF RInv, AnnouncedInv
  <2>4. Announced' = Announced + 1
    BY <1>1, <1>9, <2>1, <2>2, EnterAnnounces
  <2>5. clock # "stopped" /\ clock' # "stopped"
    BY <1>1, <1>9, <2>1 DEF RInv, ClockInv
  <2>6. Abstract!Publish
    BY <1>1, <1>7, <1>8, <1>9, <2>1, <2>2, <2>3, <2>4, <2>5 DEF Abstract!Publish
  <2> QED BY <2>6 DEF Abstract!Next
<1>10. CASE EndLoop(r) /\ r = Sender
  <2>1. /\ pc[r] = "loop" /\ UNCHANGED lbuf /\ Enter(r, "barrier")
        /\ iter[r] = Iters /\ clock' = "stopped" /\ "barrier" \in Collective
    BY <1>1, <1>10, SMT DEF EndLoop, LeaveLoop, MoreRounds, Collective
  <2>2. Pos(Sender) = 2 * iter[Sender] + 2 /\ Pos(Sender) > 0
    BY <1>1, <1>10, <2>1, SMT DEF Position
  <2>3. Announced = Iters /\ Announced' = Announced
    BY <1>1, <1>10, <2>1, <2>2, EnterAnnounces DEF RInv, AnnouncedInv
  <2>4. Abstract!Report
    BY <1>7, <1>8, <1>10, <2>1, <2>2, <2>3 DEF Abstract!Report
  <2> QED BY <2>4 DEF Abstract!Next
<1>11. CASE (PassSegid(r) \/ PassRtsSender(r)) /\ r = Sender
  <2>1. /\ UNCHANGED <<lbuf, clock>> /\ (Enter(r, "barrier") \/ Enter(r, "gather"))
        /\ {"barrier", "gather"} \subseteq Collective
    BY <1>11 DEF PassSegid, PassRtsSender, Collective
  <2>2. Pos(Sender) > 0
    BY <1>1, <1>11, SMT DEF PassSegid, PassRtsSender, Position
  <2>3. Announced' = Announced
    BY <1>1, <1>11, <2>1, <2>2, EnterAnnounces
  <2> QED BY <1>7, <2>1, <2>3 DEF tvars
<1>12. CASE Setup(r) /\ r = Sender
  <2>1. /\ UNCHANGED <<lbuf, clock>> /\ Enter(r, "bcast") /\ "bcast" \in Collective
        /\ Pos(Sender) = 0 /\ iter[Sender] = 0
    BY <1>1, <1>12 DEF Setup, Position, Collective
  <2>2. Announced' = 0
    BY <1>1, <1>12, <2>1, EnterAnnounces
  <2>3. Announced = 0
    BY <2>1, SMT DEF RInv, AnnouncedInv
  <2> QED BY <1>7, <2>1, <2>2, <2>3 DEF tvars
<1>13. CASE CopyBlock(r)
  <2>1. r \in Receiver
    BY <1>1, <1>13 DEF CopyBlock, Position, Receiver
  <2> QED BY <1>6, <1>13, <2>1, CopyTakes DEF Abstract!Next
<1>14. CASE r # Sender /\ ~CopyBlock(r)
  <2>1. UNCHANGED <<lbuf, clock>>
    BY <1>3, <1>14 DEF RankStep, Launcher, DivideByZero, Setup, PassSegid, PassStartBarrier,
       StartRound, BeginRound, PassRtsSender, PassRtsReceiver, AttachPage, ReusePage, PageRefused,
       AttachBlock, AttachDone, Fault, SendFin, PassFin, EndLoop, LeaveLoop, Finish
  <2>2. calls'[Sender] = calls[Sender]
    BY <1>1, <1>3, <1>14, OthersKeep
  <2> QED BY <1>7, <2>1, <2>2 DEF tvars, Announced
<1>15. CASE \/ DivideByZero(r) \/ PassStartBarrier(r) \/ PassFin(r) \/ Finish(r) \/ Launcher(r)
  <2>1. UNCHANGED <<calls, clock, lbuf>>
    BY <1>15 DEF DivideByZero, PassStartBarrier, PassFin, Finish, Launcher, Kill
  <2> QED BY <1>7, <2>1 DEF tvars, Announced
<1>16. r = Sender => \/ DivideByZero(r) \/ Setup(r) \/ PassSegid(r) \/ PassStartBarrier(r)
                     \/ StartRound(r) \/ PassRtsSender(r) \/ PassFin(r) \/ EndLoop(r)
                     \/ Finish(r) \/ Launcher(r)
  BY <1>1, <1>3 DEF Position, RankStep, PassRtsReceiver, AttachPage, ReusePage, PageRefused,
     AttachBlock, AttachDone, CopyBlock, Fault, SendFin
<1> QED BY <1>9, <1>10, <1>11, <1>12, <1>13, <1>14, <1>15, <1>16

(* Both programs implement the transfer every transport promises, over the *)
(* bytes their attachments show: with attachments refused or not, if the   *)
(* page remembered is never mistaken for the first one of the next round.  *)
THEOREM Implements ==
    ASSUME SpansPages, HoldsBlock PROVE Spec => ImplementsTransfer
<1>1. Init => /\ Abstract!Init /\ Lists /\ Refusals /\ Data
              /\ AnnouncedInv /\ ClockInv
  <2> SUFFICES ASSUME Init
               PROVE  Abstract!Init /\ Lists /\ Refusals /\ Data /\ AnnouncedInv /\ ClockInv
    OBVIOUS
  <2> USE SenderAssumption, ArgsAssumption, LoopAssumption
  <2>1. /\ Len(calls[Sender]) = 0 /\ clock = "off" /\ iter[Sender] = 0 /\ Pos(Sender) = 0
        /\ Iters \in Nat \ {0} /\ TypeOK /\ IInv
    BY InitIInv, SMT DEF Init, Pos, Iters, IInv
  <2>2. Announced = 0
    <3>1. Announced = Cardinality(Calls(2, calls[Sender], "bcast"))
      BY DEF Announced, Calls
    <3> QED BY <2>1, <3>1, NoCalls, SMT
  <2>3. \A r \in Receiver : Oldest(lbuf[r]) = 0
    <3> TAKE r \in Receiver
    <3>1. CASE blocksize > 0
      <4>1. Covered \subseteq Byte /\ 0 \in Covered /\ blocksize \in Nat
        BY <2>1, <3>1, CoveredBytes DEF HoldsBlock, TypeOK
      <4>2. \A x \in Covered : lbuf[r][x] = 0
        BY <4>1 DEF Init
      <4> QED BY <3>1, <4>1, <4>2, OldestIs, SMT
    <3>2. CASE ~(blocksize > 0)
      BY <2>1, <3>2, SMT DEF Oldest, TypeOK
    <3> QED BY <3>1, <3>2
  <2>4. AnnouncedInv /\ ClockInv
    BY <2>1, <2>2, SMT DEF AnnouncedInv, ClockInv
  <2>5. Lists
    <3>1. \A r \in Receiver : pc[r] = "setup" /\ lastpage[r] = NoPage
      BY DEF Init, Receiver
    <3> QED BY <3>1 DEF Lists, Listed
  <2>6. Refusals
    BY SMT DEF Init, Refusals, Gone, Refused, NoSegment
  <2>7. Data
    <3> SUFFICES ASSUME NEW r \in Receiver, blocksize > 0 PROVE Fresh(r)
      BY DEF Data
    <3>1. pc[r] = "setup" /\ iter[r] = 0 /\ Pos(r) = 0
      BY SMT DEF Init, Pos, Receiver
    <3>2. Covered \subseteq Byte
      BY <2>1, CoveredBytes
    <3>3. \A x \in Covered : lbuf[r][x] = 0
      BY <3>2 DEF Init
    <3> QED BY <3>1, <3>3, SMT DEF Fresh
  <2> QED BY <2>1, <2>2, <2>3, <2>4, <2>5, <2>6, <2>7 DEF Abstract!Init
<1>2. IInv /\ AnnouncedInv /\ ClockInv /\ [Next]_vars => AnnouncedInv' /\ ClockInv'
  BY AnnouncedStep
<1>3. IInv /\ Lists /\ [Next]_vars => Lists'
  BY ListsStep
<1>4. IInv /\ IInv' /\ Lists /\ Refusals /\ Data /\ [Next]_vars => Refusals' /\ Data'
  BY RefusalStep, DataStep
<1>5. IInv /\ Lists /\ Refusals /\ Data /\ AnnouncedInv /\ ClockInv => RInv /\ HeldInv
  BY HeldIs DEF RInv
<1>6. RInv /\ HeldInv /\ HeldInv' /\ [Next]_vars
        => [Abstract!Next]_<<Announced, [r \in Receiver |-> Oldest(lbuf[r])], clock = "stopped">>
  BY StepSimulates DEF tvars
<1> QED BY <1>1, <1>2, <1>3, <1>4, <1>5, <1>6, Inductive, PTL
        DEF Spec, ImplementsTransfer, Abstract!Spec
=============================================================================
