---------------------------- MODULE TestCmaProofs ----------------------------
(***************************************************************************)
(* Proofs about TestCma, for any number of receivers, any buffer and any   *)
(* number of reads.  There is no FIN: what ties a receiver to the sender's *)
(* iovecs is the number of broadcasts it has taken, so its position in the *)
(* stream of collectives says which entry of iovs its size is.             *)
(***************************************************************************)
EXTENDS TestCma, MpiProofs

(* The length the sender broadcasts next, and the k-th length of all.      *)
NextIov == IF Len(iovs) = 0 THEN 1 ELSE 2 * iovs[Len(iovs)]
SizeAt(k) == IF k <= Len(iovs) THEN iovs[k] ELSE NextIov

(* The broadcasts so far: 1, 2, 4, ..., none above the sender's size.      *)
Doubling ==
    /\ Len(iovs) >= 1 => iovs[1] = 1
    /\ \A k \in 1 .. Len(iovs) - 1 : iovs[k + 1] = 2 * iovs[k]
    /\ \A k \in 1 .. Len(iovs) : iovs[k] <= size[Sender]

(* Where a rank is, told by its pc: two collectives before the loop, one   *)
(* broadcast a size, a barrier after it.                                   *)
Position(r) ==
    /\ pc[r] = "start" => Pos(r) = 0 /\ size[r] = 1
    /\ pc[r] = "pid" => Pos(r) = 1 /\ size[r] = 1
    /\ pc[r] = "start_barrier" => Pos(r) = 2 /\ size[r] = 1
    /\ pc[r] = "head" => /\ Pos(r) >= 2 /\ Pos(r) - 2 <= Len(iovs)
                         /\ size[r] = SizeAt(Pos(r) - 1)
    /\ pc[r] = "bcast" => /\ Pos(r) >= 3 /\ Pos(r) - 2 <= Len(iovs) + 1
                          /\ size[r] = SizeAt(Pos(r) - 2) /\ size[r] <= BufSize
    /\ pc[r] = "read" => /\ r # Sender /\ Pos(r) >= 3 /\ Pos(r) - 2 <= Len(iovs)
                         /\ size[r] = iovs[Pos(r) - 2]
    /\ freed[r] => pc[r] = "done"

(* The broadcasts a rank has entered are the pid's and one a size.         *)
Asks(r) == Cardinality(Calls(1, calls[r], "bcast"))
Counted(r) ==
    /\ pc[r] = "start" => Asks(r) = 0
    /\ pc[r] \in {"pid", "start_barrier"} => Asks(r) = 1
    /\ pc[r] \in {"head", "bcast", "read"} => Asks(r) = Pos(r) - 1

(* The sender appends to iovs when it broadcasts, and leaves the loop only *)
(* when the next length is too long for the buffer.                        *)
SenderInv ==
    /\ pc[Sender] \in {"start", "pid", "start_barrier"} => Len(iovs) = 0
    /\ pc[Sender] \in {"head", "bcast"} => Pos(Sender) = Len(iovs) + 2
    /\ pc[Sender] \in {"end_barrier", "done"} => Pos(Sender) = Len(iovs) + 3
    /\ pc[Sender] = "done" => \A r \in Rank : Pos(r) >= Pos(Sender)
    /\ Pos(Sender) <= Len(iovs) + 3
    /\ Pos(Sender) = Len(iovs) + 3 => NextIov > BufSize

(* The reads of a receiver.                                                *)
Reading(r) ==
    /\ pc[r] = "read" => /\ riov[r] = size[r]
                         /\ got[r] = IF i[r] = 0 THEN size[r] \div 2 ELSE size[r]
                         /\ i[r] > Skip => timer[r] = i[r] - Skip
    /\ pc[r] \notin {"read", "aborted", "killed"} => got[r] = size[r] \div 2

IInv ==
    /\ TypeOK /\ Doubling /\ SenderInv
    /\ \A r \in Rank : Position(r) /\ Counted(r)
    /\ \A r \in Receiver : Reading(r)

-----------------------------------------------------------------------------
(* The larger of two numbers.                                              *)
LEMMA MaxTwo ==
    ASSUME NEW a \in Nat, NEW b \in Nat
    PROVE  Max({a, b}) = IF a >= b THEN a ELSE b
<1> DEFINE M(x) == \A y \in {a, b} : x >= y
           c == IF a >= b THEN a ELSE b
<1>1. c \in {a, b} /\ M(c) /\ \A x \in {a, b} : M(x) => x = c
  BY SMT
<1>2. Max({a, b}) = CHOOSE x \in {a, b} : M(x)
  BY DEF Max
<1> HIDE DEF M, c
<1>3. Max({a, b}) = c
  BY <1>1, <1>2
<1> QED BY <1>3 DEF c

(* Inside the loop a receiver asks for the iovec of its position.          *)
LEMMA AskedIs ==
    ASSUME NEW r \in Rank, calls \in [Rank -> Seq(Collective)], Counted(r),
           pc[r] \in {"head", "bcast", "read"}
    PROVE  Asked(r) = Pos(r) - 2
<1>1. Asked(r) = Asks(r) - 1
  BY DEF Asked, Quantify, Asks, Calls
<1>2. Pos(r) \in Nat
  BY PosNat
<1> QED BY <1>1, <1>2, SMT DEF Counted

(* A rank that enters a collective other than a broadcast asks for nothing.*)
LEMMA EnterAsks ==
    ASSUME NEW r \in Rank, calls \in [Rank -> Seq(Collective)],
           NEW op \in Collective, Enter(r, op)
    PROVE  Asks(r) \in Nat /\ Asks(r)' = IF op = "bcast" THEN Asks(r) + 1 ELSE Asks(r)
<1>1. calls[r] \in Seq(Collective) /\ calls'[r] = Append(calls[r], op)
  BY DEF Enter
<1>2. Len(calls[r]) \in Nat /\ 1 <= Len(calls[r]) + 1
  BY <1>1, SMT
<1>3. Asks(r) \in Nat /\ Asks(r)' = Asks(r) + (IF op = "bcast" THEN 1 ELSE 0)
  BY <1>1, <1>2, AppendCounts DEF Asks
<1> QED BY <1>3, SMT

-----------------------------------------------------------------------------
(* A step of rank r leaves what belongs to the others alone ...            *)
LEMMA OthersKeep ==
    ASSUME TypeOK, NEW r \in Rank, RankStep(r) \/ Launcher(r), NEW q \in Rank \ {r}
    PROVE  /\ pc'[q] = pc[q] /\ calls'[q] = calls[q] /\ size'[q] = size[q]
           /\ freed'[q] = freed[q]
           /\ q \in Receiver => /\ riov'[q] = riov[q] /\ i'[q] = i[q]
                                /\ timer'[q] = timer[q] /\ got'[q] = got[q]
<1>1. pc'[q] = pc[q]
  BY DEF TypeOK, RankStep, Launcher, Kill, Setup, PassPid, PassStartBarrier, NextSize, PassRtsSender,
         PassRtsReceiver, Read, AssertFails, EndSize, EndLoop, Finish, Goto
<1>2. calls'[q] = calls[q]
  BY DEF TypeOK, RankStep, Launcher, Kill, Setup, PassPid, PassStartBarrier, NextSize, PassRtsSender,
         PassRtsReceiver, Read, AssertFails, EndSize, EndLoop, Finish, Enter
<1>3. size'[q] = size[q] /\ freed'[q] = freed[q]
  BY DEF TypeOK, RankStep, Launcher, Kill, Setup, PassPid, PassStartBarrier, NextSize, PassRtsSender,
         PassRtsReceiver, Read, AssertFails, EndSize, EndLoop, Finish
<1>4. q \in Receiver => /\ riov'[q] = riov[q] /\ i'[q] = i[q]
                        /\ timer'[q] = timer[q] /\ got'[q] = got[q]
  BY DEF TypeOK, RankStep, Launcher, Kill, Setup, PassPid, PassStartBarrier, NextSize, PassRtsSender,
         PassRtsReceiver, Read, AssertFails, EndSize, EndLoop, Finish, reading
<1> QED BY <1>1, <1>2, <1>3, <1>4

(* ... and the broadcasts of the sender only grow, by the next length.     *)
LEMMA IovsGrow ==
    ASSUME IInv, NEW r \in Rank, RankStep(r) \/ Launcher(r)
    PROVE  /\ Len(iovs) \in Nat /\ iovs' \in Seq(1 .. BufSize)
           /\ \/ iovs' = iovs
              \/ /\ r = Sender /\ NextSize(r) /\ size[r] = NextIov /\ NextIov <= BufSize
                 /\ Len(iovs') = Len(iovs) + 1 /\ iovs'[Len(iovs) + 1] = NextIov
                 /\ NextIov' = 2 * NextIov
           /\ Len(iovs') >= Len(iovs)
           /\ \A k \in 1 .. Len(iovs) : iovs'[k] = iovs[k]
           /\ \A k \in 1 .. Len(iovs) + 1 : SizeAt(k)' = SizeAt(k)
<1> USE SenderAssumption
<1>1. iovs \in Seq(1 .. BufSize) /\ Len(iovs) \in Nat /\ size[r] \in Nat \ {0} /\ BufSize \in Nat
  BY TestCmaAssumption, SMT DEF IInv, TypeOK
<1>2. CASE iovs' = iovs
  BY <1>1, <1>2 DEF SizeAt, NextIov
<1>3. CASE NextSize(r) /\ r = Sender
  <2>1. iovs' = Append(iovs, size[r]) /\ size[r] <= BufSize /\ size[r] = NextIov
    <3>1. pc[r] = "head" /\ size[r] <= BufSize /\ iovs' = Append(iovs, size[r])
      BY <1>3 DEF NextSize, MoreSizes
    <3>2. size[r] = SizeAt(Pos(r) - 1) /\ Pos(r) = Len(iovs) + 2
      BY <1>3, <3>1 DEF IInv, Position, SenderInv
    <3> QED BY <1>1, <3>1, <3>2, SMT DEF SizeAt
  <2>2. /\ iovs' \in Seq(1 .. BufSize) /\ Len(iovs') = Len(iovs) + 1
        /\ iovs'[Len(iovs) + 1] = size[r]
        /\ \A k \in 1 .. Len(iovs) : iovs'[k] = iovs[k]
    BY <1>1, <2>1, SMT
  <2>3. NextIov' = 2 * NextIov
    BY <1>1, <2>1, <2>2, SMT DEF NextIov
  <2>4. \A k \in 1 .. Len(iovs) + 1 : SizeAt(k)' = SizeAt(k)
    BY <1>1, <2>1, <2>2, SMT DEF SizeAt
  <2> QED BY <1>1, <1>3, <2>1, <2>2, <2>3, <2>4, SMT
<1> QED BY <1>2, <1>3
        DEF RankStep, Launcher, Setup, PassPid, PassStartBarrier, NextSize, PassRtsSender,
            PassRtsReceiver, Read, AssertFails, EndSize, EndLoop, Finish

-----------------------------------------------------------------------------
(* The initial state.                                                      *)
LEMMA InitIInv == Init => IInv
<1> SUFFICES ASSUME Init PROVE IInv
  OBVIOUS
<1> USE SenderAssumption, TestCmaAssumption
<1>1. TypeOK
  BY SMT DEF Init, TypeOK, Label, Receiver
<1>2. Len(iovs) = 0 /\ \A r \in Rank : Pos(r) = 0
  BY SMT DEF Init, Pos
<1>3. \A r \in Rank : Asks(r) = 0
  <2> TAKE r \in Rank
  <2>1. Calls(1, calls[r], "bcast") = {}
    BY <1>2, SMT DEF Calls, Pos
  <2> QED BY <2>1, FS_EmptySet DEF Asks
<1>4. Doubling
  BY <1>2, SMT DEF Doubling
<1>5. SenderInv
  BY <1>2, SMT DEF Init, SenderInv
<1>6. \A r \in Rank : Position(r) /\ Counted(r)
  BY <1>2, <1>3 DEF Init, Position, Counted
<1>7. \A r \in Receiver : Reading(r)
  <2> TAKE r \in Receiver
  <2>1. r \in Rank /\ pc[r] = "start" /\ size[r] = 1 /\ got[r] = 0
    BY DEF Init, Receiver
  <2>2. 1 \div 2 = 0
    BY SMT
  <2> QED BY <2>1, <2>2 DEF Reading
<1> QED BY <1>1, <1>4, <1>5, <1>6, <1>7 DEF IInv

(* Types.  Inside the loop every size is one that has been broadcast, or   *)
(* the one that comes next, and it is doubled only while it fits.          *)
LEMMA TypeStep ==
    ASSUME IInv, NEW r \in Rank, RankStep(r) \/ Launcher(r)
    PROVE  TypeOK'
<1> USE SenderAssumption, TestCmaAssumption
<1>1. /\ TypeOK /\ Position(r) /\ Counted(r) /\ BufSize \in Nat /\ Pos(r) \in Nat
      /\ size[r] \in 1 .. 2 * BufSize
  BY PosNat, SMT DEF IInv, TypeOK, Receiver
<1>2. iovs' \in Seq(1 .. BufSize) /\ iovs \in Seq(1 .. BufSize)
  BY <1>1, IovsGrow DEF TypeOK
<1>3. calls' \in [Rank -> Seq(Collective)]
  <2>1. calls' = calls \/ \E op \in Collective : Enter(r, op)
    BY <1>1 DEF RankStep, Launcher, Kill, Setup, PassPid, PassStartBarrier, NextSize, PassRtsSender,
         PassRtsReceiver, Read, AssertFails, EndSize, EndLoop, Finish, Collective
  <2> QED BY <1>1, <2>1, EnterPos DEF TypeOK
<1>4. pc' \in [Rank -> Label] /\ freed' \in [Rank -> BOOLEAN]
  <2>1. \E label \in Label : pc' = pc \/ pc' = [pc EXCEPT ![r] = label]
    BY <1>1 DEF RankStep, Launcher, Kill, Setup, PassPid, PassStartBarrier, NextSize, PassRtsSender,
         PassRtsReceiver, Read, AssertFails, EndSize, EndLoop, Finish, Goto, Label, Stopped, Failed
  <2>2. freed' = freed \/ freed' = [freed EXCEPT ![r] = TRUE]
    BY <1>1 DEF RankStep, Launcher, Setup, PassPid, PassStartBarrier, NextSize, PassRtsSender,
         PassRtsReceiver, Read, AssertFails, EndSize, EndLoop, Finish
  <2> QED BY <1>1, <2>1, <2>2 DEF TypeOK
<1>5. size' \in [Rank -> 1 .. 2 * BufSize]
  <2>1. CASE PassRtsSender(r) \/ EndSize(r)
    <3>1. size[r] <= BufSize
      <4>1. CASE pc[r] = "bcast"
        BY <1>1, <4>1 DEF Position
      <4>2. CASE pc[r] = "read"
        <5>1. Pos(r) - 2 \in 1 .. Len(iovs) /\ size[r] = iovs[Pos(r) - 2]
          BY <1>1, <4>2, SMT DEF Position
        <5> QED BY <1>2, <5>1, SMT
      <4> QED BY <2>1, <4>1, <4>2 DEF PassRtsSender, EndSize
    <3>2. size' = [size EXCEPT ![r] = 2 * size[r]]
      BY <2>1 DEF PassRtsSender, EndSize
    <3>3. 2 * size[r] \in 1 .. 2 * BufSize
      BY <1>1, <3>1, SMT
    <3> QED BY <1>1, <3>2, <3>3 DEF TypeOK
  <2>2. CASE size' = size
    BY <1>1, <2>2 DEF TypeOK
  <2> QED BY <2>1, <2>2 DEF RankStep, Launcher, Setup, PassPid, PassStartBarrier, NextSize,
             PassRtsReceiver, Read, AssertFails, EndLoop, Finish
<1>6. /\ riov' \in [Receiver -> 0 .. BufSize] /\ i' \in [Receiver -> 0 .. Iter + Skip]
      /\ timer' \in [Receiver -> Nat] /\ got' \in [Receiver -> 0 .. BufSize]
  <2>1. CASE PassRtsReceiver(r)
    <3>1. Asked(r) \in Nat \ {0} /\ r \in Receiver
      <4>1. pc[r] = "bcast" /\ r \in Receiver /\ Pos(r) >= 3
        BY <1>1, <2>1 DEF PassRtsReceiver, Position, Receiver
      <4>2. Asked(r) = Pos(r) - 2
        BY <1>1, <4>1, AskedIs DEF TypeOK
      <4> QED BY <1>1, <4>1, <4>2, SMT
    <3>2. (IF Asked(r) <= Len(iovs) THEN iovs[Asked(r)] ELSE riov[r]) \in 0 .. BufSize
      <4>1. riov[r] \in 0 .. BufSize
        BY <1>1, <3>1 DEF TypeOK
      <4>2. Asked(r) <= Len(iovs) => iovs[Asked(r)] \in 1 .. BufSize
        <5> DEFINE k == Asked(r)
        <5>1. k \in Nat \ {0}
          BY <3>1
        <5> HIDE DEF k
        <5>2. k <= Len(iovs) => iovs[k] \in 1 .. BufSize
          BY <1>2, <5>1, SMT
        <5> QED BY <5>2 DEF k
      <4> QED BY <1>1, <4>1, <4>2, SMT
    <3> QED BY <1>1, <2>1, <3>1, <3>2 DEF PassRtsReceiver, TypeOK
  <2>2. CASE Read(r)
    <3>1. r \in Receiver /\ i[r] + 1 \in 0 .. Iter + Skip
      <4>1. pc[r] = "read" /\ i[r] < Iter + Skip
        BY <2>2 DEF Read, MoreReads
      <4>2. r \in Receiver
        BY <1>1, <4>1 DEF Position, Receiver
      <4> QED BY <1>1, <4>1, <4>2, SMT DEF TypeOK
    <3>2. Max({got[r], size[r]}) \in 0 .. BufSize
      <4>1. got[r] \in 0 .. BufSize /\ riov[r] \in 0 .. BufSize /\ size[r] \in Nat /\ size[r] <= riov[r]
        BY <1>1, <2>2, <3>1, SMT DEF Read, TypeOK
      <4>2. Max({got[r], size[r]}) = IF got[r] >= size[r] THEN got[r] ELSE size[r]
        BY <4>1, MaxTwo, SMT
      <4> QED BY <1>1, <4>1, <4>2, SMT
    <3>3. (IF StartsTimer(r) THEN 1 ELSE timer[r] + 1) \in Nat
      BY <1>1, <3>1, SMT DEF TypeOK
    <3> QED BY <1>1, <2>2, <3>1, <3>2, <3>3 DEF Read, TypeOK
  <2>3. CASE UNCHANGED reading
    BY <1>1, <2>3 DEF TypeOK, reading
  <2> QED BY <2>1, <2>2, <2>3 DEF RankStep, Launcher, Setup, PassPid, PassStartBarrier, NextSize,
             PassRtsSender, AssertFails, EndSize, EndLoop, Finish
<1> QED BY <1>2, <1>3, <1>4, <1>5, <1>6 DEF TypeOK

-----------------------------------------------------------------------------
(* The ranks that did not move: their entries of iovs are still there.     *)
LEMMA OthersStep ==
    ASSUME IInv, NEW r \in Rank, RankStep(r) \/ Launcher(r), NEW q \in Rank \ {r}
    PROVE  Position(q)' /\ Counted(q)' /\ (q \in Receiver => Reading(q)')
<1>1. /\ TypeOK /\ Position(q) /\ Counted(q) /\ (q \in Receiver => Reading(q))
      /\ Pos(q) \in Nat
  BY PosNat DEF IInv, TypeOK
<1>2. /\ pc'[q] = pc[q] /\ Pos(q)' = Pos(q) /\ size'[q] = size[q] /\ freed'[q] = freed[q]
      /\ Asks(q)' = Asks(q)
  BY <1>1, OthersKeep DEF Pos, Asks, Calls
<1>3. /\ Len(iovs) \in Nat /\ Len(iovs') >= Len(iovs) /\ Len(iovs') \in Nat
      /\ \A k \in 1 .. Len(iovs) : iovs'[k] = iovs[k]
      /\ \A k \in 1 .. Len(iovs) + 1 : SizeAt(k)' = SizeAt(k)
  BY IovsGrow, SMT
<1>4. Position(q)'
  BY <1>1, <1>2, <1>3, SMT DEF Position
<1>5. Counted(q)'
  BY <1>1, <1>2 DEF Counted
<1>6. q \in Receiver => Reading(q)'
  BY <1>1, <1>2, OthersKeep DEF Reading
<1> QED BY <1>4, <1>5, <1>6

(* A rank the sender keeps waiting is never more than one broadcast ahead. *)
LEMMA TakesItsSize ==
    ASSUME IInv, NEW r \in Rank, pc[r] = "bcast", RtsReturns(r)
    PROVE  Pos(r) - 2 \in 1 .. Len(iovs) /\ size[r] = iovs[Pos(r) - 2]
<1> USE SenderAssumption, TestCmaAssumption
<1>1. /\ Pos(r) \in Nat /\ Pos(Sender) \in Nat /\ Len(iovs) \in Nat /\ size[r] \in Nat
      /\ Pos(r) >= 3 /\ Pos(r) - 2 <= Len(iovs) + 1
      /\ size[r] = SizeAt(Pos(r) - 2) /\ size[r] <= BufSize
      /\ Pos(Sender) <= Len(iovs) + 3
      /\ Pos(Sender) = Len(iovs) + 3 => NextIov > BufSize
  BY PosNat, SMT DEF IInv, TypeOK, Position, SenderInv
<1>2. Pos(Sender) >= Pos(r)
  BY ReturnsPos DEF RtsReturns
<1>3. Pos(r) - 2 # Len(iovs) + 1
  BY <1>1, <1>2, SMT DEF SizeAt
<1> QED BY <1>1, <1>3, SMT DEF SizeAt

(* The rank that moves: its position, ...                                  *)
LEMMA OwnStep ==
    ASSUME IInv, NEW r \in Rank, RankStep(r) \/ Launcher(r)
    PROVE  Position(r)' /\ Counted(r)'
<1> USE SenderAssumption, TestCmaAssumption
<1>1. TypeOK /\ Position(r) /\ Counted(r) /\ Pos(r) \in Nat
  BY PosNat DEF IInv, TypeOK
<1>2. /\ Len(iovs) \in Nat /\ Len(iovs') >= Len(iovs) /\ Len(iovs') \in Nat
      /\ \A k \in 1 .. Len(iovs) : iovs'[k] = iovs[k]
      /\ \A k \in 1 .. Len(iovs) + 1 :
            SizeAt(k) = IF k <= Len(iovs') THEN iovs'[k] ELSE NextIov'
  <2>1. \A k \in 1 .. Len(iovs) + 1 : SizeAt(k)' = SizeAt(k)
    BY IovsGrow
  <2>2. \A k \in 1 .. Len(iovs) + 1 : SizeAt(k)' = IF k <= Len(iovs') THEN iovs'[k] ELSE NextIov'
    BY DEF SizeAt
  <2>3. Len(iovs) \in Nat /\ Len(iovs') >= Len(iovs) /\ Len(iovs') \in Nat
    BY IovsGrow, SMT
  <2>4. \A k \in 1 .. Len(iovs) : iovs'[k] = iovs[k]
    BY IovsGrow
  <2> QED BY <2>1, <2>2, <2>3, <2>4
<1>3. SizeAt(1) = 1
  BY <1>2, SMT DEF IInv, Doubling, SizeAt, NextIov
<1>4. \A k \in 1 .. Len(iovs) : SizeAt(k + 1) = 2 * iovs[k]
  BY <1>2, SMT DEF IInv, Doubling, SizeAt, NextIov
<1>5. CASE Launcher(r) \/ AssertFails(r)
  <2>1. pc' \in {[pc EXCEPT ![r] = "killed"], [pc EXCEPT ![r] = "aborted"]} /\ freed' = freed
        /\ pc[r] # "done"
    BY <1>5 DEF Launcher, Kill, AssertFails, Goto, Stopped
  <2>2. pc'[r] \in {"killed", "aborted"} /\ ~freed'[r]
    BY <1>1, <2>1 DEF TypeOK, Position
  <2> QED BY <2>2 DEF Position, Counted
<1>6. CASE Setup(r)
  <2>1. pc[r] = "start" /\ pc'[r] = "pid" /\ size' = size /\ freed' = freed
    BY <1>1, <1>6 DEF Setup, Goto, TypeOK
  <2>2. Pos(r)' = Pos(r) + 1 /\ Asks(r)' = Asks(r) + 1
    BY <1>1, <1>6, EnterPos, EnterAsks DEF Setup, Collective, TypeOK
  <2> QED BY <1>1, <2>1, <2>2, SMT DEF Position, Counted
<1>7. CASE PassPid(r)
  <2>1. pc[r] = "pid" /\ pc'[r] = "start_barrier" /\ size' = size /\ freed' = freed
    BY <1>1, <1>7 DEF PassPid, Goto, TypeOK
  <2>2. Pos(r)' = Pos(r) + 1 /\ Asks(r)' = Asks(r)
    BY <1>1, <1>7, EnterPos, EnterAsks DEF PassPid, Collective, TypeOK
  <2> QED BY <1>1, <2>1, <2>2, SMT DEF Position, Counted
<1>8. CASE PassStartBarrier(r)
  <2>1. /\ pc[r] = "start_barrier" /\ pc'[r] = "head" /\ UNCHANGED <<size, freed, calls, iovs>>
    BY <1>1, <1>8 DEF PassStartBarrier, Goto, TypeOK
  <2>2. Pos(r)' = Pos(r) /\ Asks(r)' = Asks(r)
    BY <2>1 DEF Pos, Asks
  <2>3. 1 = IF 1 <= Len(iovs') THEN iovs'[1] ELSE NextIov'
    BY <1>2, <1>3, SMT
  <2>4. Position(r)'
    BY <1>1, <1>2, <2>1, <2>2, <2>3, SMT DEF Position, SizeAt
  <2> QED BY <1>1, <2>1, <2>2, <2>4, SMT DEF Counted, Position
<1>9. CASE NextSize(r)
  <2>1. pc[r] = "head" /\ pc'[r] = "bcast" /\ size' = size /\ freed' = freed /\ size[r] <= BufSize
    BY <1>1, <1>9 DEF NextSize, MoreSizes, Goto, TypeOK
  <2>2. Pos(r)' = Pos(r) + 1 /\ Asks(r)' = Asks(r) + 1
    BY <1>1, <1>9, EnterPos, EnterAsks DEF NextSize, Collective, TypeOK
  <2>3. /\ Pos(r) >= 2 /\ Pos(r) - 1 \in 1 .. Len(iovs) + 1
        /\ size[r] = IF Pos(r) - 1 <= Len(iovs') THEN iovs'[Pos(r) - 1] ELSE NextIov'
    BY <1>1, <1>2, <2>1, SMT DEF Position
  <2>4. Pos(r)' - 2 = Pos(r) - 1
    BY <1>1, <2>2, SMT
  <2>5. Position(r)'
    BY <1>1, <1>2, <2>1, <2>2, <2>3, <2>4, SMT DEF Position, SizeAt
  <2> QED BY <1>1, <2>1, <2>2, <2>5, SMT DEF Counted
<1>10. CASE PassRtsSender(r) \/ EndSize(r)
  <2>1. /\ pc[r] \in {"bcast", "read"} /\ pc'[r] = "head" /\ UNCHANGED <<freed, calls, iovs>>
        /\ size'[r] = 2 * size[r]
    BY <1>1, <1>10 DEF PassRtsSender, EndSize, Goto, TypeOK
  <2>2. Pos(r)' = Pos(r) /\ Asks(r)' = Asks(r)
    BY <2>1 DEF Pos, Asks
  <2>3. Pos(r) - 2 \in 1 .. Len(iovs) /\ size[r] = iovs[Pos(r) - 2]
    <3>1. CASE PassRtsSender(r)
      BY <3>1, TakesItsSize DEF PassRtsSender
    <3>2. CASE EndSize(r)
      BY <1>1, <1>2, <3>2, SMT DEF EndSize, Position
    <3> QED BY <1>10, <3>1, <3>2
  <2>4. Pos(r) - 1 \in 2 .. Len(iovs) + 1 /\ SizeAt(Pos(r) - 1) = 2 * size[r]
    <3>1. SizeAt((Pos(r) - 2) + 1) = 2 * iovs[Pos(r) - 2]
      BY <1>4, <2>3
    <3>2. (Pos(r) - 2) + 1 = Pos(r) - 1 /\ Pos(r) - 1 \in 2 .. Len(iovs) + 1
      BY <1>1, <1>2, <2>3, SMT
    <3> QED BY <2>3, <3>1, <3>2
  <2>5. 2 * size[r] = IF Pos(r) - 1 <= Len(iovs') THEN iovs'[Pos(r) - 1] ELSE NextIov'
    BY <1>2, <2>4, SMT
  <2>6. Position(r)'
    BY <1>1, <1>2, <2>1, <2>2, <2>4, <2>5, SMT DEF Position, SizeAt
  <2> QED BY <1>1, <2>1, <2>2, <2>6, SMT DEF Counted
<1>11. CASE PassRtsReceiver(r)
  <2>1. /\ pc[r] = "bcast" /\ pc'[r] = "read" /\ UNCHANGED <<size, freed, calls, iovs>>
        /\ r # Sender /\ RtsReturns(r)
    BY <1>1, <1>11 DEF PassRtsReceiver, Goto, TypeOK
  <2>2. Pos(r)' = Pos(r) /\ Asks(r)' = Asks(r)
    BY <2>1 DEF Pos, Asks
  <2>3. Pos(r) - 2 \in 1 .. Len(iovs) /\ size[r] = iovs[Pos(r) - 2]
    BY <2>1, TakesItsSize
  <2> QED BY <1>1, <1>2, <2>1, <2>2, <2>3, SMT DEF Position, Counted
<1>12. CASE Read(r)
  <2>1. UNCHANGED <<pc, size, freed, calls, iovs>>
    BY <1>12 DEF Read
  <2>2. Pos(r)' = Pos(r) /\ Asks(r)' = Asks(r) /\ NextIov' = NextIov
    BY <2>1 DEF Pos, Asks, NextIov
  <2> QED BY <1>1, <2>1, <2>2 DEF Position, Counted, SizeAt
<1>13. CASE EndLoop(r)
  <2>1. pc[r] = "head" /\ pc'[r] = "end_barrier" /\ freed' = freed
    BY <1>1, <1>13 DEF EndLoop, Goto, TypeOK
  <2> QED BY <1>1, <2>1 DEF Position, Counted
<1>14. CASE Finish(r)
  <2>1. pc'[r] = "done"
    BY <1>1, <1>14 DEF Finish, Goto, TypeOK
  <2> QED BY <2>1 DEF Position, Counted
<1> QED BY <1>5, <1>6, <1>7, <1>8, <1>9, <1>10, <1>11, <1>12, <1>13, <1>14 DEF RankStep

(* ... its reads, ...                                                      *)
LEMMA OwnReading ==
    ASSUME IInv, NEW r \in Receiver, RankStep(r) \/ Launcher(r)
    PROVE  Reading(r)'
<1> USE SenderAssumption, TestCmaAssumption
<1>1. /\ TypeOK /\ Position(r) /\ Counted(r) /\ Reading(r) /\ r \in Rank /\ r # Sender
      /\ Pos(r) \in Nat /\ size[r] \in Nat \ {0} /\ got[r] \in Nat /\ i[r] \in Nat
      /\ timer[r] \in Nat
  <2>1. TypeOK /\ Position(r) /\ Counted(r) /\ Reading(r) /\ r \in Rank /\ r # Sender
    BY DEF IInv, Receiver
  <2>2. Pos(r) \in Nat
    BY <2>1, PosNat DEF TypeOK
  <2>3. size[r] \in 1 .. 2 * BufSize /\ got[r] \in 0 .. BufSize /\ i[r] \in 0 .. Iter + Skip
        /\ timer[r] \in Nat
    BY <2>1 DEF TypeOK
  <2> QED BY <2>1, <2>2, <2>3, SMT
<1>2. CASE Setup(r) \/ PassPid(r) \/ PassStartBarrier(r) \/ NextSize(r) \/ EndLoop(r) \/ Finish(r)
  <2>1. /\ pc[r] \notin {"read", "aborted", "killed"} /\ pc'[r] # "read"
        /\ UNCHANGED <<got, size>>
    BY <1>1, <1>2 DEF Setup, PassPid, PassStartBarrier, NextSize, EndLoop, Finish, reading,
                      Goto, TypeOK
  <2> QED BY <1>1, <2>1 DEF Reading
<1>3. CASE AssertFails(r) \/ Launcher(r)
  <2>1. pc'[r] \in {"aborted", "killed"}
    BY <1>1, <1>3 DEF AssertFails, Launcher, Kill, Goto, TypeOK
  <2> QED BY <2>1 DEF Reading
<1>4. CASE PassRtsReceiver(r)
  <2>1. /\ pc[r] = "bcast" /\ pc'[r] = "read" /\ UNCHANGED <<size, timer, got>>
        /\ RtsReturns(r) /\ i'[r] = 0
        /\ riov'[r] = IF Asked(r) <= Len(iovs) THEN iovs[Asked(r)] ELSE riov[r]
    BY <1>1, <1>4 DEF PassRtsReceiver, Goto, TypeOK
  <2>2. Pos(r) - 2 \in 1 .. Len(iovs) /\ size[r] = iovs[Pos(r) - 2]
    BY <1>1, <2>1, TakesItsSize
  <2>3. Asked(r) = Pos(r) - 2
    BY <1>1, <2>1, AskedIs DEF TypeOK
  <2>4. riov'[r] = size[r]
    BY <2>1, <2>2, <2>3, SMT
  <2> QED BY <1>1, <2>1, <2>4, SMT DEF Reading
<1>5. CASE Read(r)
  <2>1. /\ pc[r] = "read" /\ UNCHANGED <<pc, size, riov>>
        /\ i'[r] = i[r] + 1 /\ got'[r] = Max({got[r], size[r]})
        /\ timer'[r] = IF i[r] = Skip THEN 1 ELSE timer[r] + 1
    BY <1>1, <1>5 DEF Read, TypeOK, StartsTimer
  <2>2. got'[r] = size[r]
    <3>1. got[r] = IF i[r] = 0 THEN size[r] \div 2 ELSE size[r]
      BY <1>1, <2>1 DEF Reading
    <3>2. Max({got[r], size[r]}) = IF got[r] >= size[r] THEN got[r] ELSE size[r]
      BY <1>1, MaxTwo, SMT
    <3>3. size[r] \div 2 < size[r]
      BY <1>1, SMT
    <3> QED BY <1>1, <2>1, <3>1, <3>2, <3>3, SMT
  <2>3. i'[r] > Skip => timer'[r] = i'[r] - Skip
    <3>1. i[r] > Skip => timer[r] = i[r] - Skip
      BY <1>1, <2>1 DEF Reading
    <3> QED BY <1>1, <2>1, <3>1, SMT
  <2>4. i'[r] # 0 /\ riov'[r] = size'[r] /\ size'[r] = size[r]
    BY <1>1, <2>1, SMT DEF Reading
  <2> QED BY <2>1, <2>2, <2>3, <2>4 DEF Reading
<1>6. CASE EndSize(r)
  <2>1. pc[r] = "read" /\ pc'[r] = "head" /\ got' = got /\ size'[r] = 2 * size[r]
        /\ ~(i[r] < Iter + Skip)
    BY <1>1, <1>6 DEF EndSize, MoreReads, reading, Goto, TypeOK
  <2>2. got[r] = size[r]
    BY <1>1, <2>1, SMT DEF Reading
  <2>3. (2 * size[r]) \div 2 = size[r]
    BY <1>1, SMT
  <2> QED BY <2>1, <2>2, <2>3 DEF Reading
<1> QED BY <1>1, <1>2, <1>3, <1>4, <1>5, <1>6 DEF RankStep, PassRtsSender

(* ... and what the sender has broadcast.                                  *)
LEMMA SenderStep ==
    ASSUME IInv, NEW r \in Rank, RankStep(r) \/ Launcher(r), TypeOK'
    PROVE  Doubling' /\ SenderInv'
<1> USE SenderAssumption, TestCmaAssumption
<1>1. /\ TypeOK /\ Doubling /\ SenderInv /\ Position(r) /\ Len(iovs) \in Nat /\ NextIov \in Nat
      /\ \A q \in Rank : Pos(q) \in Nat /\ size[q] \in Nat /\ size[q] >= 1
  <2>1. TypeOK /\ Doubling /\ SenderInv /\ Position(r) /\ iovs \in Seq(1 .. BufSize)
    BY DEF IInv, TypeOK
  <2>2. NextIov \in Nat /\ Len(iovs) \in Nat
    BY <2>1, SMT DEF NextIov
  <2>3. \A q \in Rank : Pos(q) \in Nat /\ size[q] \in Nat /\ size[q] >= 1
    BY <2>1, PosNat, SMT DEF TypeOK
  <2> QED BY <2>1, <2>2, <2>3
<1>2. \A q \in Rank : Pos(q)' >= Pos(q) /\ size'[q] >= size[q]
  <2> TAKE q \in Rank
  <2>1. CASE q # r
    <3>1. calls'[q] = calls[q] /\ size'[q] = size[q]
      BY <1>1, <2>1, OthersKeep
    <3>2. Pos(q)' = Pos(q) /\ Pos(q) \in Nat /\ size[q] \in Nat
      BY <1>1, <3>1 DEF Pos
    <3> QED BY <3>1, <3>2, SMT
  <2>2. CASE q = r
    <3>1. Pos(r)' >= Pos(r)
      <4>1. calls' = calls \/ \E op \in Collective : Enter(r, op)
        BY DEF RankStep, Launcher, Kill, Setup, PassPid, PassStartBarrier, NextSize, PassRtsSender,
               PassRtsReceiver, Read, AssertFails, EndSize, EndLoop, Finish, Collective
      <4>2. Pos(r)' = Pos(r) \/ Pos(r)' = Pos(r) + 1
        BY <1>1, <4>1, EnterPos DEF TypeOK, Pos
      <4> QED BY <1>1, <4>2, SMT
    <3>2. size' = size \/ size' = [size EXCEPT ![r] = 2 * size[r]]
      BY DEF RankStep, Launcher, Kill, Setup, PassPid, PassStartBarrier, NextSize, PassRtsSender,
             PassRtsReceiver, Read, AssertFails, EndSize, EndLoop, Finish
    <3>3. size'[r] = size[r] \/ size'[r] = 2 * size[r]
      BY <1>1, <3>2 DEF TypeOK
    <3>4. size'[r] >= size[r]
      BY <1>1, <3>3, SMT
    <3> QED BY <2>2, <3>1, <3>4
  <2> QED BY <2>1, <2>2
<1>3. CASE NextSize(r) /\ r = Sender
  <2>1. /\ iovs' = Append(iovs, size[r]) /\ UNCHANGED size /\ Enter(r, "bcast")
        /\ pc[r] = "head" /\ pc'[r] = "bcast" /\ size[r] = NextIov
    <3>1. /\ iovs' = Append(iovs, size[r]) /\ UNCHANGED size /\ Enter(r, "bcast")
          /\ pc[r] = "head" /\ pc'[r] = "bcast"
      BY <1>1, <1>3 DEF NextSize, Goto, TypeOK
    <3>2. Pos(r) = Len(iovs) + 2
      BY <1>1, <1>3, <3>1 DEF SenderInv
    <3> QED BY <1>1, <3>1, <3>2, SMT DEF Position, SizeAt
  <2>2. /\ iovs \in Seq(1 .. BufSize) /\ iovs' \in Seq(1 .. BufSize)
        /\ Len(iovs') = Len(iovs) + 1 /\ iovs'[Len(iovs) + 1] = size[r]
        /\ \A k \in 1 .. Len(iovs) : iovs'[k] = iovs[k]
    <3>1. iovs \in Seq(1 .. BufSize) /\ iovs' \in Seq(1 .. BufSize)
      BY <1>1 DEF TypeOK
    <3> QED BY <2>1, <3>1, SMT
  <2>3. Doubling'
    <3>1. Len(iovs') >= 1 => iovs'[1] = 1
      BY <1>1, <2>1, <2>2, SMT DEF Doubling, NextIov
    <3>2. \A k \in 1 .. Len(iovs') - 1 : iovs'[k + 1] = 2 * iovs'[k]
      <4> TAKE k \in 1 .. Len(iovs') - 1
      <4>1. CASE k = Len(iovs)
        BY <1>1, <2>1, <2>2, <4>1, SMT DEF NextIov
      <4>2. CASE k # Len(iovs)
        <5>1. k \in 1 .. Len(iovs) - 1 /\ k + 1 \in 1 .. Len(iovs) /\ k \in 1 .. Len(iovs)
          BY <1>1, <2>2, <4>2, SMT
        <5>2. iovs[k + 1] = 2 * iovs[k]
          BY <1>1, <5>1 DEF Doubling
        <5> QED BY <2>2, <5>1, <5>2
      <4> QED BY <4>1, <4>2
    <3>3. \A k \in 1 .. Len(iovs') : iovs'[k] <= size'[Sender]
      BY <1>1, <1>3, <2>1, <2>2, SMT DEF Doubling
    <3> QED BY <3>1, <3>2, <3>3 DEF Doubling
  <2>4. Pos(r)' = Pos(r) + 1
    BY <1>1, <2>1, EnterPos DEF Collective, TypeOK
  <2>5. SenderInv'
    BY <1>1, <1>3, <2>1, <2>2, <2>4, SMT DEF SenderInv
  <2> QED BY <2>3, <2>5
<1>4. CASE iovs' = iovs
  <2>1. NextIov' = NextIov
    BY <1>4 DEF NextIov
  <2>2. Doubling'
    <3>1. \A k \in 1 .. Len(iovs) : iovs[k] <= size'[Sender]
      <4> TAKE k \in 1 .. Len(iovs)
      <4>1. iovs[k] \in 1 .. BufSize /\ iovs[k] <= size[Sender]
        <5>1. iovs \in Seq(1 .. BufSize) /\ iovs[k] <= size[Sender]
          BY <1>1 DEF Doubling, TypeOK
        <5> QED BY <1>1, <5>1, SMT
      <4>2. size'[Sender] \in Nat
        BY SMT DEF TypeOK
      <4> QED BY <1>1, <1>2, <4>1, <4>2, SMT
    <3> QED BY <1>1, <1>4, <3>1 DEF Doubling
  <2>3. \A q \in Rank : Pos(q)' \in Nat
    BY PosNat, <1>1 DEF TypeOK, Pos
  <2>4. SenderInv'
    <3>1. CASE r # Sender
      <4>1. pc'[Sender] = pc[Sender] /\ Pos(Sender)' = Pos(Sender)
        BY <1>1, <3>1, OthersKeep DEF Pos
      <4>2. (\A q \in Rank : Pos(q) >= Pos(Sender)) => \A q \in Rank : Pos(q)' >= Pos(Sender)
        BY <1>1, <1>2, <2>3, SMT
      <4>3. /\ pc[Sender] \in {"start", "pid", "start_barrier"} => Len(iovs) = 0
            /\ pc[Sender] \in {"head", "bcast"} => Pos(Sender) = Len(iovs) + 2
            /\ pc[Sender] \in {"end_barrier", "done"} => Pos(Sender) = Len(iovs) + 3
            /\ pc[Sender] = "done" => \A q \in Rank : Pos(q) >= Pos(Sender)
            /\ Pos(Sender) <= Len(iovs) + 3
            /\ Pos(Sender) = Len(iovs) + 3 => NextIov > BufSize
        BY <1>1 DEF SenderInv
      <4> QED BY <1>4, <2>1, <4>1, <4>2, <4>3 DEF SenderInv
    <3>2. CASE r = Sender
      <4>1. CASE Setup(r) \/ PassPid(r)
        <5>1. /\ Pos(r)' = Pos(r) + 1 /\ pc[r] \in {"start", "pid"}
              /\ pc'[r] \in {"pid", "start_barrier"}
          BY <1>1, <4>1, EnterPos DEF Setup, PassPid, Goto, TypeOK, Collective
        <5> QED BY <1>1, <1>4, <3>2, <5>1, SMT DEF SenderInv, Position
      <4>2. CASE PassStartBarrier(r)
        <5>1. /\ Pos(r)' = Pos(r) /\ pc[r] = "start_barrier" /\ pc'[r] = "head"
          BY <1>1, <4>2 DEF PassStartBarrier, Goto, TypeOK, Pos
        <5> QED BY <1>1, <1>4, <3>2, <5>1, SMT DEF SenderInv, Position
      <4>3. CASE PassRtsSender(r)
        <5>1. /\ Pos(r)' = Pos(r) /\ pc[r] = "bcast" /\ pc'[r] = "head"
          BY <1>1, <4>3 DEF PassRtsSender, Goto, TypeOK, Pos
        <5> QED BY <1>1, <1>4, <3>2, <5>1, SMT DEF SenderInv
      <4>4. CASE EndLoop(r)
        <5>1. /\ Pos(r)' = Pos(r) + 1 /\ pc[r] = "head" /\ pc'[r] = "end_barrier"
              /\ ~(size[r] <= BufSize)
          BY <1>1, <4>4, EnterPos DEF EndLoop, MoreSizes, Goto, TypeOK, Collective
        <5>2. Pos(r) = Len(iovs) + 2 /\ size[r] = NextIov
          BY <1>1, <3>2, <5>1, SMT DEF SenderInv, Position, SizeAt
        <5> QED BY <1>1, <1>4, <2>1, <3>2, <5>1, <5>2, SMT DEF SenderInv
      <4>5. CASE Finish(r)
        <5>1. /\ UNCHANGED calls /\ pc[r] = "end_barrier" /\ pc'[r] = "done" /\ EndReturns(r)
          BY <1>1, <4>5 DEF Finish, Goto, TypeOK
        <5>2. \A q \in Rank : Pos(q)' = Pos(q) /\ Pos(q) >= Pos(Sender)
          BY <3>2, <5>1, ReturnsPos DEF EndReturns, Pos
        <5> QED BY <1>1, <1>4, <2>1, <3>2, <5>1, <5>2 DEF SenderInv
      <4>6. CASE Launcher(r) \/ AssertFails(r)
        <5>1. UNCHANGED calls /\ pc'[r] \in {"killed", "aborted"}
          BY <1>1, <4>6 DEF Launcher, Kill, AssertFails, Goto, TypeOK
        <5> QED BY <1>1, <1>4, <2>1, <3>2, <5>1 DEF SenderInv, Pos
      <4> QED BY <1>1, <1>3, <1>4, <3>2, <4>1, <4>2, <4>3, <4>4, <4>5, <4>6
              DEF RankStep, PassRtsReceiver, Read, EndSize, NextSize, Position
    <3> QED BY <3>1, <3>2
  <2> QED BY <2>2, <2>4
<1> QED BY <1>3, <1>4
        DEF RankStep, Launcher, Setup, PassPid, PassStartBarrier, NextSize, PassRtsSender,
            PassRtsReceiver, Read, AssertFails, EndSize, EndLoop, Finish

-----------------------------------------------------------------------------
(* The invariant is inductive.                                             *)
LEMMA NextIInv == IInv /\ [Next]_vars => IInv'
<1> SUFFICES ASSUME IInv, [Next]_vars PROVE IInv'
  OBVIOUS
<1>1. CASE UNCHANGED vars
  BY <1>1 DEF vars, reading, IInv, TypeOK, Doubling, SenderInv, Position, Counted, Reading, NextIov,
              SizeAt, Pos, Asks, Calls
<1>2. ASSUME NEW r \in Rank, RankStep(r) \/ Launcher(r) PROVE IInv'
  <2>1. TypeOK'
    BY <1>2, TypeStep
  <2>2. Doubling' /\ SenderInv'
    BY <1>2, <2>1, SenderStep
  <2>3. \A q \in Rank : Position(q)' /\ Counted(q)'
    BY <1>2, OthersStep, OwnStep
  <2>4. \A q \in Receiver : Reading(q)'
    BY <1>2, OthersStep, OwnReading DEF Receiver
  <2> QED BY <2>1, <2>2, <2>3, <2>4 DEF IInv
<1> QED BY <1>1, <1>2 DEF Next, Terminating

(* IInv holds in every reachable state of test_cma.                        *)
THEOREM Inductive == Spec => []IInv
<1>1. Init => IInv
  BY InitIInv
<1>2. IInv /\ [Next]_vars => IInv'
  BY NextIInv
<1> QED BY <1>1, <1>2, PTL DEF Spec

-----------------------------------------------------------------------------
(* Every variable has its type in every reachable state: in particular no  *)
(* size is doubled past twice the buffer.                                  *)
THEOREM TypeCorrect == Spec => []TypeOK
<1>1. IInv => TypeOK
  BY DEF IInv
<1> QED BY <1>1, Inductive, PTL

(* A receiver reads with the iovec of the size it is at, however far ahead *)
(* the sender is, and has read all smaller sizes before.                   *)
THEOREM ReadsItsSizeHolds == Spec => []ReadsItsSize
<1>1. IInv => ReadsItsSize
  <2> SUFFICES ASSUME IInv, NEW r \in Receiver
               PROVE  /\ pc[r] = "read" => riov[r] = size[r] /\ size[r] <= size[Sender]
                      /\ pc[r] \notin {"read", "aborted", "killed"} => got[r] = size[r] \div 2
    BY DEF ReadsItsSize
  <2>1. Reading(r) /\ Position(r) /\ Doubling /\ TypeOK
    BY DEF IInv, Receiver
  <2>2. pc[r] = "read" => size[r] <= size[Sender]
    <3> SUFFICES ASSUME pc[r] = "read" PROVE size[r] <= size[Sender]
      OBVIOUS
    <3>1. Pos(r) \in Nat /\ Len(iovs) \in Nat
      BY <2>1, PosNat, SMT DEF TypeOK, Receiver
    <3>2. Pos(r) - 2 \in 1 .. Len(iovs) /\ size[r] = iovs[Pos(r) - 2]
      BY <2>1, <3>1, SMT DEF Position
    <3> QED BY <2>1, <3>2 DEF Doubling
  <2> QED BY <2>1, <2>2 DEF Reading
<1> QED BY <1>1, Inductive, PTL

(* The sender frees its buffer only when no receiver reads it any more:    *)
(* the last barrier comes after as many broadcasts as there are iovecs,    *)
(* and who still reads has not entered it.                                 *)
THEOREM NoReadAfterFreeHolds == Spec => []NoReadAfterFree
<1> USE SenderAssumption
<1>1. IInv => NoReadAfterFree
  <2> SUFFICES ASSUME IInv, freed[Sender], NEW r \in Receiver, pc[r] = "read"
               PROVE  FALSE
    BY DEF NoReadAfterFree
  <2>1. Position(r) /\ Position(Sender) /\ SenderInv /\ TypeOK /\ r \in Rank
    BY DEF IInv, Receiver
  <2>2. Pos(r) \in Nat /\ Pos(Sender) \in Nat /\ Len(iovs) \in Nat
    BY <2>1, PosNat, SMT DEF TypeOK
  <2>3. pc[Sender] = "done" /\ Pos(Sender) = Len(iovs) + 3 /\ Pos(r) >= Pos(Sender)
    BY <2>1 DEF SenderInv, Position
  <2>4. Pos(r) - 2 <= Len(iovs)
    BY <2>1 DEF Position
  <2> QED BY <2>2, <2>3, <2>4, SMT
<1> QED BY <1>1, Inductive, PTL

(* What is divided by ITER is the time of ITER reads of the whole size.    *)
THEOREM TimedReadsHold == Spec => TimedReads
<1> DEFINE T == \A r \in Receiver : size'[r] # size[r] => timer[r] = Iter /\ got[r] = size[r]
<1>1. IInv /\ [Next]_vars => [T]_vars
  <2> SUFFICES ASSUME IInv, NEW q \in Rank, RankStep(q) \/ Launcher(q),
                      NEW r \in Receiver, size'[r] # size[r]
               PROVE  timer[r] = Iter /\ got[r] = size[r]
    BY DEF Next, Terminating
  <2>1. TypeOK /\ r \in Rank /\ r # Sender /\ Reading(r) /\ Position(r)
    BY DEF IInv, Receiver
  <2>2. q = r
    BY <2>1, OthersKeep
  <2>3. EndSize(r)
    BY <2>1, <2>2 DEF RankStep, Launcher, Setup, PassPid, PassStartBarrier, NextSize, PassRtsSender,
                      PassRtsReceiver, Read, AssertFails, EndLoop, Finish
  <2>4. pc[r] = "read" /\ ~(i[r] < Iter + Skip) /\ i[r] \in 0 .. Iter + Skip
    BY <2>1, <2>3 DEF EndSize, MoreReads, TypeOK
  <2>5. i[r] = Iter + Skip /\ i[r] > Skip /\ i[r] # 0 /\ i[r] - Skip = Iter
    BY <2>4, TestCmaAssumption, SMT
  <2> QED BY <2>1, <2>4, <2>5 DEF Reading
<1> HIDE DEF T
<1>2. Spec => [][T]_vars
  BY <1>1, Inductive, PTL DEF Spec
<1> QED BY <1>2 DEF T, TimedReads
=============================================================================
