--------------------------- MODULE ShmemPipelineDt ---------------------------
(***************************************************************************)
(* shmem_pipeline_dt: like shmem_dt, but the sender announces every chunk  *)
(* of SHMEM_PIPELINE_DEPTH bytes as soon as it is packed and goes on with  *)
(* the next one while the receivers copy; one MPI_Gather ends the round.   *)
(* Sender and receivers each count the chunks for themselves.              *)
(*                                                                         *)
(* A datum is <<round, byte>>: which round's data it is and which byte of  *)
(* the sender's buffer it comes from, so a copy to a wrong place shows.    *)
(* shm_off and nread grow together and are one variable here.              *)
(***************************************************************************)
EXTENDS BenchLoop, SharedFile, FiniteSets, FiniteSetsExt

CONSTANTS Depths,       \* the values of SHMEM_PIPELINE_DEPTH considered
          MaxOverrun    \* how far past liov[] a run survives at most

ASSUME DepthAssumption == Depths \subseteq Nat \ {0} /\ MaxOverrun \in Nat

VARIABLES depth,    \* SHMEM_PIPELINE_DEPTH of this build
          iovcnt,   \* iovcnt[r]: the block rank r is in
          iovoff,   \* iovoff[r]: how much of that block it has copied
          shmoff,   \* shmoff[r]: shm_off and nread
          capacity, \* capacity[r]: what is left of the current chunk
          shm,      \* the bytes of SHARED_FILE_NAME
          lbuf      \* lbuf[r]: the buffer of receiver r

cursor == <<iovcnt, iovoff, shmoff, capacity>>
mem == <<shm, lbuf>>
args == <<file, depth>>
vars == <<pc, calls, iter, clock, iovcnt, iovoff, shmoff, capacity, shm, lbuf,
          blocksize, mapped, fsize, depth>>

Junk == <<0, BufSize>>      \* what an uninitialised iovec points to

Left(r) == blocksize - iovoff[r]            \* liov[iovcnt].iov_len - iov_off
Length(r) == Min({capacity[r], Left(r)})    \* len

(* Where the next memcpy touches the shared region.                        *)
Window(r) == shmoff[r] .. shmoff[r] + Length(r) - 1

(* The byte of the rank's own buffer that goes with byte x of the region.  *)
Partner(r, x) == iovcnt[r] * blocksize + iovoff[r] + (x - shmoff[r])

-----------------------------------------------------------------------------
Init ==
    /\ pc = [r \in Rank |-> "setup"]
    /\ calls = [r \in Rank |-> <<>>]
    /\ blocksize \in BlockSizes
    /\ depth \in Depths
    /\ iter = [r \in Rank |-> 0]
    /\ clock = "off"
    /\ iovcnt = [r \in Rank |-> 0] /\ iovoff = [r \in Rank |-> 0]
    /\ shmoff = [r \in Rank |-> 0] /\ capacity = [r \in Rank |-> 0]
    /\ shm = [x \in Byte |-> <<0, x>>]
    /\ lbuf = [r \in Receiver |-> [x \in Byte |-> <<0, x>>]]
    /\ mapped = [r \in Rank |-> FALSE]
    /\ fsize \in FileSizes

(* The number of blocks is computed before assert(blocksize > 0).          *)
DivideByZero(r) ==
    /\ pc[r] = "setup"
    /\ blocksize = 0
    /\ Goto(r, "crashed")
    /\ UNCHANGED <<calls, iter, clock, cursor, mem, args>>

Setup(r) ==
    /\ pc[r] = "setup"
    /\ blocksize > 0
    /\ OpenAndMap(r)
    /\ Enter(r, "barrier")
    /\ Goto(r, "start_barrier")
    /\ UNCHANGED <<iter, clock, cursor, mem, depth>>

PassStartBarrier(r) ==
    /\ pc[r] = "start_barrier"
    /\ BarrierReturns(r)
    /\ Goto(r, "loop")
    /\ UNCHANGED <<calls, iter, clock, cursor, mem, args>>

ResetCursor(r) ==
    /\ iovcnt' = [iovcnt EXCEPT ![r] = 0] /\ iovoff' = [iovoff EXCEPT ![r] = 0]
    /\ shmoff' = [shmoff EXCEPT ![r] = 0] /\ capacity' = [capacity EXCEPT ![r] = depth]

StartRound(r) ==
    /\ pc[r] = "loop"
    /\ BeginRound(r)
    /\ ResetCursor(r)
    /\ Goto(r, "chunk")
    /\ UNCHANGED <<calls, iter, mem, args>>

OneChunkLess(r) == iovcnt[r] < NBlocks - (IF r = Sender THEN 0 ELSE 1)  \* mutant
MoreBlocks(r) == iovcnt[r] < NBlocks                \* while (iovcnt < niov)

(* The sender fills the next chunk, a receiver waits until it is announced.*)
BeginChunk(r) ==
    /\ pc[r] = "chunk"
    /\ MoreBlocks(r)
    /\ IF r = Sender
       THEN Goto(r, "pack") /\ UNCHANGED calls
       ELSE Goto(r, "bcast") /\ Enter(r, "bcast")
    /\ capacity' = IF r = Sender THEN [capacity EXCEPT ![r] = depth] ELSE capacity
    /\ UNCHANGED <<iter, clock, iovcnt, iovoff, shmoff, mem, args>>

NoIovReset(r) ==                                        \* mutant: iov_off kept
    /\ iovcnt' = [iovcnt EXCEPT ![r] = IF capacity[r] >= Left(r) THEN @ + 1 ELSE @]
    /\ iovoff' = [iovoff EXCEPT ![r] = IF capacity[r] >= Left(r) THEN @ ELSE @ + capacity[r]]
    /\ shmoff' = [shmoff EXCEPT ![r] = @ + Length(r)]
    /\ capacity' = [capacity EXCEPT ![r] = @ - Length(r)]

(* Both branches of the inner loop: the rest of the block if it fits into  *)
(* the chunk, else as much of it as does.                                  *)
AdvanceCursor(r) ==
    /\ iovcnt' = [iovcnt EXCEPT ![r] = IF capacity[r] >= Left(r) THEN @ + 1 ELSE @]
    /\ iovoff' = [iovoff EXCEPT ![r] = IF capacity[r] >= Left(r) THEN 0 ELSE @ + capacity[r]]
    /\ shmoff' = [shmoff EXCEPT ![r] = @ + Length(r)]
    /\ capacity' = [capacity EXCEPT ![r] = @ - Length(r)]

PackPiece(r) ==
    /\ pc[r] = "pack"
    /\ capacity[r] > 0 /\ iovcnt[r] < NBlocks
    /\ \A x \in Window(r) : Backed(r, x)
    /\ shm' = [x \in Byte |-> IF x \in Window(r) THEN <<iter[r] + 1, Partner(r, x)>>
                                                 ELSE shm[x]]
    /\ AdvanceCursor(r)
    /\ UNCHANGED <<pc, calls, iter, clock, lbuf, args>>

UnpackPiece(r) ==
    /\ pc[r] = "unpack"
    /\ capacity[r] > 0 /\ iovcnt[r] < NBlocks
    /\ \A x \in Window(r) : Backed(r, x)
    /\ lbuf' = [lbuf EXCEPT ![r] =
           [y \in Byte |-> IF \E x \in Window(r) : Partner(r, x) = y
                           THEN shm[CHOOSE x \in Window(r) : Partner(r, x) = y]
                           ELSE @[y]]]
    /\ AdvanceCursor(r)
    /\ UNCHANGED <<pc, calls, iter, clock, shm, args>>

(* A memcpy outside the mapping or past the last page of the file.         *)
Fault(r) ==
    /\ pc[r] \in {"pack", "unpack"}
    /\ capacity[r] > 0 /\ iovcnt[r] < NBlocks
    /\ \E x \in Window(r) : ~Backed(r, x)
    /\ Goto(r, "crashed")
    /\ UNCHANGED <<calls, iter, clock, cursor, mem, args>>

(* The inner loop does not test iovcnt: when the blocks end before the     *)
(* chunk does, it reads liov[niov] and on, uninitialised memory.  The copy *)
(* through that pointer dies, or moves a length g the memory happens to    *)
(* hold (no more than capacity allows); the sender then leaves junk in the *)
(* region.  What a receiver's copy overwrites elsewhere is left out.       *)
Overrun(r) ==
    /\ pc[r] \in {"pack", "unpack"}
    /\ capacity[r] > 0 /\ iovcnt[r] >= NBlocks
    /\ iovcnt[r] < NBlocks + MaxOverrun
    /\ \E g \in 0 .. capacity[r] :
           /\ iovcnt' \in {iovcnt, [iovcnt EXCEPT ![r] = @ + 1]}
           /\ iovcnt' = iovcnt => g = capacity[r]
           /\ iovoff' = [iovoff EXCEPT ![r] = IF iovcnt' = iovcnt THEN @ + g ELSE 0]
           /\ shmoff' = [shmoff EXCEPT ![r] = @ + g]
           /\ capacity' = [capacity EXCEPT ![r] = @ - g]
           /\ shm' = IF r = Sender
                     THEN [x \in Byte |-> IF x \in shmoff[r] .. shmoff[r] + g - 1
                                          THEN Junk ELSE shm[x]]
                     ELSE shm
    /\ UNCHANGED <<pc, calls, iter, clock, lbuf, args>>

OverrunFault(r) ==
    /\ pc[r] \in {"pack", "unpack"}
    /\ capacity[r] > 0 /\ iovcnt[r] >= NBlocks
    /\ Goto(r, "crashed")
    /\ UNCHANGED <<calls, iter, clock, cursor, mem, args>>

(* The chunk is full: the sender announces it, a receiver has it.          *)
EndChunk(r) ==
    /\ pc[r] \in {"pack", "unpack"}
    /\ capacity[r] = 0
    /\ IF r = Sender
       THEN Goto(r, "bcast") /\ Enter(r, "bcast")
       ELSE Goto(r, "chunk") /\ UNCHANGED calls
    /\ UNCHANGED <<iter, clock, cursor, mem, args>>

(* The RTS and the FIN of a round.                                         *)
NoWait(r) == TRUE                           \* mutant: the call is left out
RtsReturns(r) == BcastReturns(r)
FinReturns(r) == GatherReturns(r)

PassBcast(r) ==
    /\ pc[r] = "bcast"
    /\ RtsReturns(r)
    /\ IF r = Sender
       THEN Goto(r, "chunk") /\ UNCHANGED capacity
       ELSE Goto(r, "unpack") /\ capacity' = [capacity EXCEPT ![r] = depth]
    /\ UNCHANGED <<calls, iter, clock, iovcnt, iovoff, shmoff, mem, args>>

(* All blocks are done: the final Gather of the round.                     *)
SendFin(r) ==
    /\ pc[r] = "chunk"
    /\ ~MoreBlocks(r)
    /\ Enter(r, "gather")
    /\ Goto(r, "gather")
    /\ UNCHANGED <<iter, clock, cursor, mem, args>>

(* assert(iovcnt == niov); assert(nread == bufsize)                        *)
AllRead(r) == iovcnt[r] = NBlocks /\ shmoff[r] = BufSize

PassFin(r) ==
    /\ pc[r] = "gather"
    /\ FinReturns(r)
    /\ AllRead(r)
    /\ iter' = [iter EXCEPT ![r] = @ + 1]
    /\ Goto(r, "loop")
    /\ UNCHANGED <<calls, clock, cursor, mem, args>>

AssertFails(r) ==
    /\ pc[r] = "gather"
    /\ FinReturns(r)
    /\ ~AllRead(r)
    /\ Goto(r, "aborted")
    /\ UNCHANGED <<calls, iter, clock, cursor, mem, args>>

EndLoop(r) ==
    /\ pc[r] = "loop"
    /\ LeaveLoop(r)
    /\ Enter(r, "barrier")
    /\ Goto(r, "end_barrier")
    /\ UNCHANGED <<iter, cursor, mem, args>>

Finish(r) ==
    /\ pc[r] = "end_barrier"
    /\ BarrierReturns(r)
    /\ Goto(r, "done")
    /\ Unmap(r)
    /\ UNCHANGED <<calls, iter, clock, cursor, mem, depth>>

-----------------------------------------------------------------------------
RankStep(r) ==
    \/ DivideByZero(r) \/ Setup(r) \/ PassStartBarrier(r) \/ StartRound(r)
    \/ BeginChunk(r) \/ PackPiece(r) \/ UnpackPiece(r) \/ Fault(r)
    \/ Overrun(r) \/ OverrunFault(r)
    \/ EndChunk(r) \/ PassBcast(r) \/ SendFin(r) \/ PassFin(r) \/ AssertFails(r)
    \/ EndLoop(r) \/ Finish(r)

Launcher(r) == Kill(r) /\ UNCHANGED <<iter, clock, cursor, mem, args>>

Terminating == AllStopped /\ UNCHANGED vars

Next ==
    \/ \E r \in Rank : RankStep(r) \/ Launcher(r)
    \/ Terminating

Spec == Init /\ [][Next]_vars

(* Every rank is a process of its own, and the launcher reaps dead jobs.   *)
FairSpec == Spec /\ \A r \in Rank : WF_vars(RankStep(r)) /\ WF_vars(Launcher(r))

-----------------------------------------------------------------------------
Label == {"setup", "start_barrier", "loop", "chunk", "pack", "bcast", "unpack",
          "gather", "end_barrier"} \cup Stopped

Datum == (0 .. Iters) \X (0 .. BufSize)

(* Types, and: inside the blocks the two cursors of a rank agree, byte n   *)
(* of the buffer goes to byte n of the region.                             *)
TypeOK ==
    /\ pc \in [Rank -> Label]
    /\ calls \in [Rank -> Seq(Collective)]
    /\ blocksize \in BlockSizes /\ depth \in Depths
    /\ iter \in [Rank -> 0 .. Iters]
    /\ clock \in {"off", "running", "stopped"}
    /\ iovcnt \in [Rank -> 0 .. BufSize + MaxOverrun]
    /\ iovoff \in [Rank -> Nat] /\ shmoff \in [Rank -> Nat]
    /\ capacity \in [Rank -> 0 .. depth]
    /\ shm \in [Byte -> Datum]
    /\ lbuf \in [Receiver -> [Byte -> Datum]]
    /\ mapped \in [Rank -> BOOLEAN]
    /\ fsize \in FileSizes \cup {BufSize}
    /\ \A r \in Rank : blocksize > 0 /\ iovcnt[r] < NBlocks =>
           shmoff[r] = iovcnt[r] * blocksize + iovoff[r]

(* The pipeline lets the sender pack chunk k+1 while receivers copy chunk  *)
(* k and earlier: what it writes never overlaps what any of them reads.    *)
NoRace ==
    pc[Sender] = "pack" /\ capacity[Sender] > 0 /\ iovcnt[Sender] < NBlocks =>
        \A r \in Receiver :
            pc[r] = "unpack" /\ capacity[r] > 0 /\ iovcnt[r] < NBlocks =>
                Window(Sender) \cap Window(r) = {}

(* The bytes of the iovec list.  When blocksize does not divide bufsize    *)
(* the assertions stop the program, unless a run past liov[] happens to    *)
(* move exactly the missing tail: then the tail is never copied.           *)
Covered == IF blocksize = 0 THEN Byte ELSE 0 .. NBlocks * blocksize - 1

(* "assert (iovcnt == niov)": in no round does a rank go past its blocks.  *)
IovcntWithinNiov ==
    \A r \in Rank : blocksize > 0 => iovcnt[r] <= NBlocks

(* Every rank stops: finished, or dead together with the whole job.        *)
Termination == <>AllStopped

(* The transport implements Transfer.  Only a chunked round's first Bcast  *)
(* announces it as a whole; held[r] is the oldest round of r's blocks, a   *)
(* byte in the wrong place counting as none (no block at all: the program  *)
(* stops in its first round).                                              *)
Round(buf, x) == IF buf[x][2] = x THEN buf[x][1] ELSE 0
Oldest(buf) == IF Covered = {} THEN 0 ELSE Min({Round(buf, x) : x \in Covered})
Announced ==
    Cardinality({k \in 2 .. Len(calls[Sender]) :
                    calls[Sender][k] = "bcast" /\ calls[Sender][k-1] # "bcast"})

Abstract == INSTANCE Transfer WITH
                Rounds <- Iters,
                sent <- Announced,
                held <- [r \in Receiver |-> Oldest(lbuf[r])],
                reported <- clock = "stopped"

ImplementsTransfer == Abstract!Spec
=============================================================================
