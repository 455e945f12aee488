------------------------------- MODULE ShmemDt -------------------------------
(***************************************************************************)
(* shmem_dt: a sender packs its buffer block by block into a file mapped   *)
(* by every rank, announces it with an MPI_Bcast (RTS), every receiver     *)
(* unpacks it, and an MPI_Gather (FIN) tells the sender that all have.     *)
(*                                                                         *)
(* Data is abstracted to versions: shm[x] and lbuf[r][x] hold the number   *)
(* of the round whose data byte x contains, 0 for what was there before.   *)
(* In the code iov_len is blocksize in every element, so the locals offset *)
(* and sum of the copy loops both equal i * blocksize.                     *)
(***************************************************************************)
EXTENDS BenchLoop, SharedFile, FiniteSets

VARIABLES blk,      \* blk[r]: i in copy_to_shmem / copy_from_shmem
          shm,      \* the bytes of SHARED_FILE_NAME
          lbuf      \* lbuf[r]: the buffer of receiver r

mem == <<shm, lbuf>>
vars == <<pc, calls, iter, clock, blk, shm, lbuf, blocksize, mapped, fsize>>

Offset(r) == blk[r] * blocksize

(* The bytes of the block that rank r copies next.                         *)
BlockBytes(r) == Offset(r) .. Offset(r) + blocksize - 1

-----------------------------------------------------------------------------
Init ==
    /\ pc = [r \in Rank |-> "setup"]
    /\ calls = [r \in Rank |-> <<>>]
    /\ blocksize \in BlockSizes
    /\ iter = [r \in Rank |-> 0]
    /\ blk = [r \in Rank |-> 0]
    /\ shm = [x \in Byte |-> 0]
    /\ lbuf = [r \in Receiver |-> [x \in Byte |-> 0]]
    /\ mapped = [r \in Rank |-> FALSE]
    /\ fsize \in FileSizes
    /\ clock = "off"

(* The number of blocks is computed before assert(blocksize > 0).          *)
DivideByZero(r) ==
    /\ pc[r] = "setup"
    /\ blocksize = 0
    /\ Goto(r, "crashed")
    /\ UNCHANGED <<calls, iter, blk, mem, file, clock>>

Setup(r) ==
    /\ pc[r] = "setup"
    /\ blocksize > 0
    /\ OpenAndMap(r)
    /\ Enter(r, "barrier")
    /\ Goto(r, "start_barrier")
    /\ UNCHANGED <<iter, blk, mem, clock>>

PassStartBarrier(r) ==
    /\ pc[r] = "start_barrier"
    /\ BarrierReturns(r)
    /\ Goto(r, "loop")
    /\ UNCHANGED <<calls, iter, blk, mem, file, clock>>

(* The top of a round; the receivers go straight to the RTS.               *)
StartRound(r) ==
    /\ pc[r] = "loop"
    /\ BeginRound(r)
    /\ IF r = Sender
       THEN Goto(r, "pack") /\ UNCHANGED calls
       ELSE Goto(r, "bcast") /\ Enter(r, "bcast")
    /\ UNCHANGED <<iter, blk, mem, file>>

(* One memcpy of copy_to_shmem: the sender's liov[i] holds this round.     *)
PackBlock(r) ==
    /\ pc[r] = "pack"
    /\ blk[r] < NBlocks
    /\ \A x \in BlockBytes(r) : Backed(r, x)
    /\ shm' = [x \in Byte |-> IF x \in BlockBytes(r) THEN iter[r] + 1 ELSE shm[x]]
    /\ blk' = [blk EXCEPT ![r] = @ + 1]
    /\ UNCHANGED <<pc, calls, iter, lbuf, file, clock>>

(* One memcpy of copy_from_shmem.                                          *)
UnpackBlock(r) ==
    /\ pc[r] = "unpack"
    /\ blk[r] < NBlocks
    /\ \A x \in BlockBytes(r) : Backed(r, x)
    /\ lbuf' = [lbuf EXCEPT ![r] =
                   [x \in Byte |-> IF x \in BlockBytes(r) THEN shm[x] ELSE @[x]]]
    /\ blk' = [blk EXCEPT ![r] = @ + 1]
    /\ UNCHANGED <<pc, calls, iter, shm, file, clock>>

(* A memcpy outside the mapping or past the last page of the file.  What   *)
(* it moved before the signal is left out: nobody reads it any more.       *)
Fault(r) ==
    /\ pc[r] \in {"pack", "unpack"}
    /\ blk[r] < NBlocks
    /\ \E x \in BlockBytes(r) : ~Backed(r, x)
    /\ Goto(r, "crashed")
    /\ UNCHANGED <<calls, iter, blk, mem, file, clock>>

Unchecked(r) == TRUE                                \* mutant: no assertion
CopiedAll(r) == Offset(r) = BufSize                 \* assert(nread == bufsize)

AssertFails(r) ==
    /\ pc[r] \in {"pack", "unpack"}
    /\ blk[r] = NBlocks
    /\ ~CopiedAll(r)
    /\ Goto(r, "aborted")
    /\ UNCHANGED <<calls, iter, blk, mem, file, clock>>

(* The sender announces the round (RTS).                                   *)
SendRts(r) ==
    /\ pc[r] = "pack"
    /\ blk[r] = NBlocks
    /\ CopiedAll(r)
    /\ blk' = [blk EXCEPT ![r] = 0]
    /\ Enter(r, "bcast")
    /\ Goto(r, "bcast")
    /\ UNCHANGED <<iter, mem, file, clock>>

(* The RTS and the FIN of a round.                                         *)
NoWait(r) == TRUE                           \* mutant: the call is left out
RtsReturns(r) == BcastReturns(r)
FinReturns(r) == GatherReturns(r)

(* MPI_Bcast returns; the sender goes on to the FIN.                       *)
PassRts(r) ==
    /\ pc[r] = "bcast"
    /\ RtsReturns(r)
    /\ IF r = Sender
       THEN Goto(r, "gather") /\ Enter(r, "gather")
       ELSE Goto(r, "unpack") /\ UNCHANGED calls
    /\ UNCHANGED <<iter, blk, mem, file, clock>>

(* A receiver has copied the round and says so (FIN).                      *)
SendFin(r) ==
    /\ pc[r] = "unpack"
    /\ blk[r] = NBlocks
    /\ CopiedAll(r)
    /\ blk' = [blk EXCEPT ![r] = 0]
    /\ Enter(r, "gather")
    /\ Goto(r, "gather")
    /\ UNCHANGED <<iter, mem, file, clock>>

PassFin(r) ==
    /\ pc[r] = "gather"
    /\ FinReturns(r)
    /\ iter' = [iter EXCEPT ![r] = @ + 1]
    /\ Goto(r, "loop")
    /\ UNCHANGED <<calls, blk, mem, file, clock>>

(* The loop is left: end is taken and the last barrier entered.            *)
EndLoop(r) ==
    /\ pc[r] = "loop"
    /\ LeaveLoop(r)
    /\ Enter(r, "barrier")
    /\ Goto(r, "end_barrier")
    /\ UNCHANGED <<iter, blk, mem, file>>

(* Past the barrier: munmap, close and MPI_Finalize.  The file stays.      *)
Finish(r) ==
    /\ pc[r] = "end_barrier"
    /\ BarrierReturns(r)
    /\ Goto(r, "done")
    /\ Unmap(r)
    /\ UNCHANGED <<calls, iter, blk, mem, clock>>

-----------------------------------------------------------------------------
RankStep(r) ==
    \/ DivideByZero(r) \/ Setup(r) \/ PassStartBarrier(r)
    \/ StartRound(r) \/ PackBlock(r) \/ UnpackBlock(r)
    \/ Fault(r) \/ AssertFails(r)
    \/ SendRts(r) \/ PassRts(r) \/ SendFin(r) \/ PassFin(r)
    \/ EndLoop(r) \/ Finish(r)

Launcher(r) == Kill(r) /\ UNCHANGED <<iter, blk, mem, file, clock>>

Terminating == AllStopped /\ UNCHANGED vars

Next ==
    \/ \E r \in Rank : RankStep(r) \/ Launcher(r)
    \/ Terminating

Spec == Init /\ [][Next]_vars

(* Every rank is a process of its own, and the launcher reaps dead jobs.   *)
FairSpec == Spec /\ \A r \in Rank : WF_vars(RankStep(r)) /\ WF_vars(Launcher(r))

-----------------------------------------------------------------------------
Label == {"setup", "start_barrier", "loop", "pack", "bcast", "unpack",
          "gather", "end_barrier"} \cup Stopped

(* Types, and: no copy loop runs past the end of the buffers.              *)
TypeOK ==
    /\ pc \in [Rank -> Label]
    /\ calls \in [Rank -> Seq(Collective)]
    /\ blocksize \in BlockSizes
    /\ iter \in [Rank -> 0 .. Iters]
    /\ blk \in [Rank -> 0 .. BufSize]
    /\ \A r \in Rank : Offset(r) <= BufSize
    /\ shm \in [Byte -> 0 .. Iters]
    /\ lbuf \in [Receiver -> [Byte -> 0 .. Iters]]
    /\ mapped \in [Rank -> BOOLEAN]
    /\ fsize \in FileSizes \cup {BufSize}
    /\ clock \in {"off", "running", "stopped"}

(* The sender never writes the shared region while a receiver may read it: *)
(* the RTS/FIN exchange is all that orders the plain memcpys of two        *)
(* processes.                                                              *)
NoOverlap ==
    pc[Sender] = "pack" => \A r \in Receiver : pc[r] # "unpack"

(* What a receiver has copied so far in a round is that round's data, never*)
(* the previous round's and never a stale byte of an earlier run.          *)
FreshRounds ==
    \A r \in Receiver : \A x \in Byte :
        x < Offset(r) => lbuf[r][x] = iter[r] + 1

(* "Sender ensures that everyone has copied the data": when the sender's   *)
(* Gather of a round has returned, every byte of that round is in every    *)
(* receiver's buffer; and whoever finishes holds all rounds, although a    *)
(* failed open, ftruncate or mmap does not stop the program.               *)
FinMeansCopied ==
    \A r \in Receiver : \A x \in Byte :
        /\ lbuf[r][x] >= iter[Sender]
        /\ pc[r] = "done" => lbuf[r][x] = Iters

(* lat divides by iters: when the sender starts its clock all receivers    *)
(* hold exactly the warm-up rounds, when it stops it exactly all of them.  *)
TimedRounds ==
    [][clock' # clock =>
         \A r \in Receiver : \A x \in Byte :
             lbuf[r][x] = IF clock' = "running" THEN SkipIter ELSE Iters]_vars

(* Every rank stops: finished, or dead together with the whole job; no     *)
(* error path leaves some ranks waiting in a collective for ever.          *)
Termination == <>AllStopped

(* The transport implements Transfer: sent counts the RTS of the sender,   *)
(* held[r] is the oldest round any byte of r's buffer belongs to.          *)
Announced == Cardinality({k \in 1 .. Len(calls[Sender]) : calls[Sender][k] = "bcast"})
Oldest(buf) == CHOOSE v \in 0 .. Iters : /\ \E x \in Byte : buf[x] = v
                                         /\ \A x \in Byte : buf[x] >= v

Abstract == INSTANCE Transfer WITH
                Rounds <- Iters,
                sent <- Announced,
                held <- [r \in Receiver |-> Oldest(lbuf[r])],
                reported <- clock = "stopped"

ImplementsTransfer == Abstract!Spec
=============================================================================
