------------------------------- MODULE TestCma -------------------------------
(***************************************************************************)
(* misc-tests/test_cma: the CMA read alone, for sizes that double up to the*)
(* whole buffer.  The sender broadcasts one iovec per size; there is no    *)
(* FIN, so it runs ahead of its receivers to the end of its loop, and only *)
(* the last barrier keeps its memory in place while they still read.       *)
(*                                                                         *)
(* iovs is the history of what the sender has broadcast, one entry a size; *)
(* every receiver takes the entries in order, at its own pace.             *)
(***************************************************************************)
EXTENDS MpiWorld, FiniteSetsExt

CONSTANTS BufSize,      \* bufsize
          Iter, Skip    \* ITER and SKIP, the timed reads and the warm-up

ASSUME TestCmaAssumption == BufSize \in Nat \ {0} /\ Iter \in Nat \ {0} /\ Skip \in Nat

VARIABLES size,         \* size[r]: the size rank r is at
          iovs,         \* the lengths the sender has broadcast
          riov,         \* riov[r]: riov.iov_len, 0 if it was never received
          i,            \* i[r]: the read receiver r is at
          timer,        \* timer[r]: the reads since start = TIMER()
          got,          \* got[r]: the bytes of local_buf that came from the sender
          freed         \* freed[r]: rank r has freed local_buf

reading == <<riov, i, timer, got>>
vars == <<pc, calls, size, iovs, reading, freed>>

Init ==
    /\ pc = [r \in Rank |-> "start"]
    /\ calls = [r \in Rank |-> <<>>]
    /\ size = [r \in Rank |-> 1]
    /\ iovs = <<>>
    /\ riov = [r \in Receiver |-> 0] /\ i = [r \in Receiver |-> 0]
    /\ timer = [r \in Receiver |-> 0] /\ got = [r \in Receiver |-> 0]
    /\ freed = [r \in Rank |-> FALSE]

-----------------------------------------------------------------------------
(* The broadcast of the sender's pid ...                                   *)
Setup(r) ==
    /\ pc[r] = "start"
    /\ Enter(r, "bcast")
    /\ Goto(r, "pid")
    /\ UNCHANGED <<size, iovs, reading, freed>>

(* ... and the barrier.                                                    *)
PassPid(r) ==
    /\ pc[r] = "pid"
    /\ BcastReturns(r)
    /\ Enter(r, "barrier")
    /\ Goto(r, "start_barrier")
    /\ UNCHANGED <<size, iovs, reading, freed>>

PassStartBarrier(r) ==
    /\ pc[r] = "start_barrier"
    /\ BarrierReturns(r)
    /\ Goto(r, "head")
    /\ UNCHANGED <<calls, size, iovs, reading, freed>>

ReadsHalf(r) == size[r] <= (IF r = Sender THEN BufSize ELSE BufSize \div 2)     \* mutant
SizeTooMany(r) == size[r] <= 2 * BufSize                          \* mutant
MoreSizes(r) == size[r] <= BufSize

(* The head of the loop: the iovec of this size is broadcast.              *)
NextSize(r) ==
    /\ pc[r] = "head" /\ MoreSizes(r)
    /\ iovs' = IF r = Sender THEN Append(iovs, size[r]) ELSE iovs
    /\ Enter(r, "bcast")
    /\ Goto(r, "bcast")
    /\ UNCHANGED <<size, reading, freed>>

NoWait(r) == TRUE                           \* mutant: the call is left out
RtsReturns(r) == BcastReturns(r)

(* The sender goes straight on to the next size.                           *)
PassRtsSender(r) ==
    /\ pc[r] = "bcast" /\ r = Sender
    /\ RtsReturns(r)
    /\ size' = [size EXCEPT ![r] = 2 * @]
    /\ Goto(r, "head")
    /\ UNCHANGED <<calls, iovs, reading, freed>>

(* How many iovecs receiver r has asked for (the first Bcast is the pid's).*)
Asked(r) == Quantify(1 .. Len(calls[r]), LAMBDA k : calls[r][k] = "bcast") - 1

PassRtsReceiver(r) ==
    /\ pc[r] = "bcast" /\ r # Sender
    /\ RtsReturns(r)
    /\ riov' = [riov EXCEPT ![r] = IF Asked(r) <= Len(iovs) THEN iovs[Asked(r)] ELSE @]
    /\ i' = [i EXCEPT ![r] = 0]
    /\ Goto(r, "read")
    /\ UNCHANGED <<calls, size, iovs, timer, got, freed>>

MoreReads(r) == i[r] < Iter + Skip

StartsLate(r) == i[r] = Skip + 1                                  \* mutant
StartsTimer(r) == i[r] = Skip

(* process_vm_readv with one element on either side, and the assertion     *)
(* that all of it was read.                                                *)
Read(r) ==
    /\ pc[r] = "read" /\ MoreReads(r)
    /\ pc[Sender] \notin Stopped
    /\ riov[r] >= size[r]
    /\ timer' = [timer EXCEPT ![r] = IF StartsTimer(r) THEN 1 ELSE @ + 1]
    /\ got' = [got EXCEPT ![r] = Max({@, size[r]})]
    /\ i' = [i EXCEPT ![r] = @ + 1]
    /\ UNCHANGED <<pc, calls, size, iovs, riov, freed>>

(* The read fails or is short (so it is if the remote element is shorter). *)
AssertFails(r) ==
    /\ pc[r] = "read" /\ MoreReads(r)
    /\ Goto(r, "aborted")
    /\ UNCHANGED <<calls, size, iovs, reading, freed>>

(* All reads of a size are made, and their average is printed.             *)
EndSize(r) ==
    /\ pc[r] = "read" /\ ~MoreReads(r)
    /\ size' = [size EXCEPT ![r] = 2 * @]
    /\ Goto(r, "head")
    /\ UNCHANGED <<calls, iovs, reading, freed>>

EndLoop(r) ==
    /\ pc[r] = "head" /\ ~MoreSizes(r)
    /\ Enter(r, "barrier")
    /\ Goto(r, "end_barrier")
    /\ UNCHANGED <<size, iovs, reading, freed>>

EndReturns(r) == BarrierReturns(r)

(* The buffer is freed after the last barrier.                             *)
Finish(r) ==
    /\ pc[r] = "end_barrier"
    /\ EndReturns(r)
    /\ freed' = [freed EXCEPT ![r] = TRUE]
    /\ Goto(r, "done")
    /\ UNCHANGED <<calls, size, iovs, reading>>

-----------------------------------------------------------------------------
RankStep(r) ==
    \/ Setup(r) \/ PassPid(r) \/ PassStartBarrier(r)
    \/ NextSize(r) \/ PassRtsSender(r) \/ PassRtsReceiver(r)
    \/ Read(r) \/ AssertFails(r) \/ EndSize(r) \/ EndLoop(r) \/ Finish(r)

Launcher(r) == Kill(r) /\ UNCHANGED <<size, iovs, reading, freed>>

Terminating == AllStopped /\ UNCHANGED vars

Next ==
    \/ \E r \in Rank : RankStep(r) \/ Launcher(r)
    \/ Terminating

Spec == Init /\ [][Next]_vars

(* Every rank is a process of its own, and the launcher reaps dead jobs.   *)
FairSpec == Spec /\ \A r \in Rank : WF_vars(RankStep(r)) /\ WF_vars(Launcher(r))

-----------------------------------------------------------------------------
Label == {"start", "pid", "start_barrier", "head", "bcast", "read", "end_barrier"} \cup Stopped

TypeOK ==
    /\ pc \in [Rank -> Label]
    /\ calls \in [Rank -> Seq(Collective)]
    /\ size \in [Rank -> 1 .. 2 * BufSize]
    /\ iovs \in Seq(1 .. BufSize)
    /\ riov \in [Receiver -> 0 .. BufSize]
    /\ i \in [Receiver -> 0 .. Iter + Skip] /\ timer \in [Receiver -> Nat]
    /\ got \in [Receiver -> 0 .. BufSize]
    /\ freed \in [Rank -> BOOLEAN]

(* Though the sender may be any number of sizes ahead, a receiver reads    *)
(* with the iovec of the size it is at itself, and has read all smaller    *)
(* sizes before: it takes the broadcasts in order and skips none.          *)
ReadsItsSize ==
    \A r \in Receiver :
        /\ pc[r] = "read" => riov[r] = size[r] /\ size[r] <= size[Sender]
        /\ pc[r] \notin {"read", "aborted", "killed"} => got[r] = size[r] \div 2

(* The receivers read behind the sender's back, and no FIN tells it when   *)
(* they are through: all the same it never frees its buffer while one of   *)
(* them may still read, however far ahead it has run.                      *)
NoReadAfterFree ==
    freed[Sender] => \A r \in Receiver : pc[r] # "read"

(* lat divides by ITER: the time printed for a size is that of ITER reads, *)
(* all of this size.                                                       *)
TimedReads ==
    [][\A r \in Receiver : size'[r] # size[r] => timer[r] = Iter /\ got[r] = size[r]]_vars

(* Every rank stops: finished, or dead together with the whole job.        *)
Termination == <>AllStopped
=============================================================================
