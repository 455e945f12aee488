-------------------------------- MODULE Bench --------------------------------
(***************************************************************************)
(* bench: the five benchmarks one after the other, for every block size    *)
(* from min_block_size to max_block_size, doubling.  They share what the   *)
(* stand-alone programs have each for themselves: lbuf, liov, the mapping  *)
(* and its pointer, and one stream of collectives on MPI_COMM_WORLD.       *)
(*                                                                         *)
(* The modules of the stand-alone programs look into a round; here a round *)
(* is: for every chunk (one, but for the pipelined benchmark) the sender   *)
(* packs it if the transport is shared memory, an RTS, a copy; then a FIN. *)
(* A piece of a buffer holds <<benchmark, round>>, the data of which round *)
(* of which benchmark (counted from the start of the program) it is.       *)
(***************************************************************************)
EXTENDS BenchLoop, Integers, FiniteSets, FiniteSetsExt

CONSTANTS BufSize,      \* argv[1]
          ArgLists,     \* the pairs <<argv[2], argv[3]>> considered
          Depths,       \* the values of SHMEM_PIPELINE_DEPTH considered
          PageSizes     \* the values of PAGE_SIZE considered

ASSUME BenchAssumption ==
    /\ BufSize \in Nat /\ PageSizes \subseteq Nat \ {0}
    /\ ArgLists \subseteq Nat \X Nat /\ Depths \subseteq 1 .. BufSize

VARIABLES job,          \* how the program was started, and on what machine
          step,         \* step[r]: the benchmarks rank r has behind it
          blocksize,    \* blocksize[r]: the block size it is at
          chunk,        \* chunk[r]: the chunk of the round it is in
          liov,         \* liov[r]: whose buffer r's iovec list describes
          shmem_ptr,    \* shmem_ptr[r]: "bad" (NULL or MAP_FAILED), "mapped",
                        \* or "stale", an address that was unmapped
          shm,          \* the shared file, by pieces
          lbuf,         \* lbuf[r]: the buffer of receiver r, by pieces
          refused,      \* the receivers an attachment was refused to
          wild          \* the last benchmark a memcpy went astray in, or 0

bufs == <<shm, lbuf>>
local == <<blocksize, liov, shmem_ptr>>
vars == <<pc, calls, iter, clock, job, step, chunk, local, bufs, refused, wild>>

Order == <<"shmem", "shmem_pip", "cma", "xpmem_nocache", "xpmem_cached">>
ListsLate == <<"shmem", "xpmem_nocache", "shmem_pip", "cma", "xpmem_cached">>
PhaseOrder == Order
Phase(r) == PhaseOrder[(step[r] % 5) + 1]
SharedMemory(r) == Phase(r) \in {"shmem", "shmem_pip"}
Xpmem(r) == Phase(r) \in {"xpmem_nocache", "xpmem_cached"}

(* A round-up division: the last chunk may run past the lists.             *)
NChunks == (BufSize + job.depth - 1) \div job.depth
NBlocks(r) == BufSize \div blocksize[r]
Chunks(r) == IF Phase(r) = "shmem_pip" THEN NChunks ELSE 1
Overruns(r) == Phase(r) = "shmem_pip" /\ chunk[r] = NChunks /\ BufSize % job.depth # 0

Piece == 1 .. NChunks
Pieces(r) == IF Phase(r) = "shmem_pip" THEN {chunk[r]} ELSE Piece
Junk == <<0, 0>>
Stamp(r) == <<step[r] + 1, iter[r] + 1>>

(* XPMEM attaches blocks smaller than a page by the page they start in.    *)
SmallBlock(r) == blocksize[r] < job.page
OnePage(r) == SmallBlock(r) /\ (NBlocks(r) - 1) * blocksize[r] < job.page
Straddles(r) ==
    SmallBlock(r) /\ \E i \in 0 .. NBlocks(r) - 1 :
        ((i * blocksize[r]) % job.page) + blocksize[r] > job.page

-----------------------------------------------------------------------------
Init ==
    /\ job \in [argc : {1, 4}, min_bs : {a[1] : a \in ArgLists},
                max_bs : {a[2] : a \in ArgLists}, depth : Depths, page : PageSizes, xpmem : BOOLEAN]
    /\ <<job.min_bs, job.max_bs>> \in ArgLists
    /\ pc = [r \in Rank |-> "start"]
    /\ calls = [r \in Rank |-> <<>>]
    /\ iter = [r \in Rank |-> 0] /\ step = [r \in Rank |-> 0]
    /\ blocksize = [r \in Rank |-> 4]      \* the default: otherwise min_bs
    /\ chunk = [r \in Rank |-> 1]
    /\ clock = "off"
    /\ liov = [r \in Rank |-> "none"]
    /\ shmem_ptr = [r \in Rank |-> "bad"]
    /\ shm = [p \in Piece |-> Junk]
    /\ lbuf = [r \in Receiver |-> [p \in Piece |-> Junk]]
    /\ refused = {} /\ wild = 0

WrongUsage(r) ==
    /\ pc[r] = "start" /\ job.argc # 4
    /\ Goto(r, "done")
    /\ UNCHANGED <<calls, iter, clock, job, step, chunk, local, bufs, refused, wild>>

ValidArgs ==
    /\ BufSize > 0 /\ job.min_bs > 0 /\ job.max_bs > 0
    /\ job.min_bs <= job.max_bs /\ job.max_bs <= BufSize

BadArgs(r) ==
    /\ pc[r] = "start" /\ job.argc = 4 /\ ~ValidArgs
    /\ Goto(r, "aborted")
    /\ UNCHANGED <<calls, iter, clock, job, step, chunk, local, bufs, refused, wild>>

Start(r) ==
    /\ pc[r] = "start" /\ job.argc = 4 /\ ValidArgs
    /\ Enter(r, "barrier")
    /\ Goto(r, "first_barrier")
    /\ UNCHANGED <<iter, clock, job, step, chunk, local, bufs, refused, wild>>

PassFirstBarrier(r) ==
    /\ pc[r] = "first_barrier"
    /\ BarrierReturns(r)
    /\ blocksize' = [blocksize EXCEPT ![r] = job.min_bs]
    /\ Goto(r, "head")
    /\ UNCHANGED <<calls, iter, clock, job, step, chunk, liov, shmem_ptr, bufs, refused, wild>>

(* init_shmem: its error code is ignored, and unless mmap itself fails the *)
(* pointer of the previous block size is kept.                             *)
InitShmem(r) ==
    shmem_ptr' \in {[shmem_ptr EXCEPT ![r] = "mapped"], [shmem_ptr EXCEPT ![r] = "bad"],
                    shmem_ptr}

(* The head of while (blocksize <= max_bs): fresh lists, a fresh mapping,  *)
(* and no barrier before the first benchmark starts ...                    *)
NextBlockSize(r) ==
    /\ pc[r] = "head" /\ blocksize[r] <= job.max_bs
    /\ liov' = [liov EXCEPT ![r] = "own"]
    /\ InitShmem(r)
    /\ Goto(r, "begin")
    /\ UNCHANGED <<calls, iter, clock, job, step, blocksize, chunk, bufs, refused, wild>>

(* ... or fn_exit.                                                         *)
Exit(r) ==
    /\ pc[r] = "head" /\ blocksize[r] > job.max_bs
    /\ Goto(r, "done")
    /\ UNCHANGED <<calls, iter, clock, job, step, chunk, local, bufs, refused, wild>>

ClearBuffer(r) == lbuf' = [q \in Receiver |-> IF q = r THEN [p \in Piece |-> Junk] ELSE lbuf[q]]

(* The shared-memory benchmarks go straight to their loop ...              *)
BeginShmem(r) ==
    /\ pc[r] = "begin" /\ SharedMemory(r)
    /\ ClearBuffer(r)
    /\ iter' = [iter EXCEPT ![r] = 0]
    /\ Goto(r, "loop")
    /\ UNCHANGED <<calls, clock, job, step, chunk, local, shm, refused, wild>>

(* ... the others broadcast the pid or the segid first (CMA clears the     *)
(* buffer after, XPMEM before that) ...                                    *)
BeginOneCopy(r) ==
    /\ pc[r] = "begin" /\ ~SharedMemory(r)
    /\ Xpmem(r) => job.xpmem
    /\ IF Xpmem(r) THEN ClearBuffer(r) ELSE UNCHANGED lbuf
    /\ Enter(r, "bcast")
    /\ Goto(r, "prologue")
    /\ UNCHANGED <<iter, clock, job, step, chunk, local, shm, refused, wild>>

PassPrologue(r) ==
    /\ pc[r] = "prologue"
    /\ BcastReturns(r)
    /\ IF Xpmem(r) THEN UNCHANGED lbuf ELSE ClearBuffer(r)
    /\ iter' = [iter EXCEPT ![r] = 0]
    /\ Goto(r, "loop")
    /\ UNCHANGED <<calls, clock, job, step, chunk, local, shm, refused, wild>>

(* ... and without the XPMEM driver return 0 before any collective.        *)
NoDriver(r) ==
    /\ pc[r] = "begin" /\ Xpmem(r) /\ ~job.xpmem
    /\ Enter(r, "barrier")
    /\ Goto(r, "main_barrier")
    /\ UNCHANGED <<iter, clock, job, step, chunk, local, bufs, refused, wild>>

-----------------------------------------------------------------------------
(* The measuring loop of every benchmark.                                  *)

StartRound(r) ==
    /\ pc[r] = "loop"
    /\ BeginRound(r)
    /\ chunk' = [chunk EXCEPT ![r] = 1]
    /\ IF r = Sender /\ SharedMemory(r)
       THEN Goto(r, "pack") /\ UNCHANGED calls
       ELSE Goto(r, "rts") /\ Enter(r, "bcast")
    /\ UNCHANGED <<iter, job, step, local, bufs, refused, wild>>

Divides(r) == BufSize % blocksize[r] = 0        \* else nread < bufsize
Usable(r) == shmem_ptr[r] # "bad"

(* The sender packs a chunk.  Through a stale pointer it writes into       *)
(* whatever has been mapped there since, if it does not die.               *)
Pack(r) ==
    /\ pc[r] = "pack"
    /\ Usable(r) /\ Divides(r)
    /\ shm' = IF shmem_ptr[r] = "mapped"
              THEN [p \in Piece |-> IF p \in Pieces(r) THEN Stamp(r) ELSE shm[p]]
              ELSE shm
    /\ wild' = IF shmem_ptr[r] = "mapped" THEN wild ELSE step[r] + 1
    /\ Enter(r, "bcast")
    /\ Goto(r, "rts")
    /\ UNCHANGED <<iter, clock, job, step, chunk, local, lbuf, refused>>

(* The RTS and the FIN of a round.                                         *)
NoWait(r) == TRUE                           \* mutant: the call is left out
RtsReturns(r) == BcastReturns(r)
FinReturns(r) == GatherReturns(r)

(* The RTS returns.  XPMEM receives the sender's list into liov itself.    *)
PassRts(r) ==
    /\ pc[r] = "rts"
    /\ RtsReturns(r)
    /\ IF r # Sender
       THEN Goto(r, "copy") /\ UNCHANGED <<calls, chunk>>
       ELSE IF chunk[r] < Chunks(r)
       THEN Goto(r, "pack") /\ chunk' = [chunk EXCEPT ![r] = @ + 1] /\ UNCHANGED calls
       ELSE Goto(r, "fin") /\ Enter(r, "gather") /\ UNCHANGED chunk
    /\ liov' = IF Xpmem(r) /\ r # Sender THEN [liov EXCEPT ![r] = "sender"] ELSE liov
    /\ UNCHANGED <<iter, clock, job, step, blocksize, shmem_ptr, bufs, refused, wild>>

(* The address receiver r copies from does not show what it should: the    *)
(* pointer is stale; the list of pages is that of the last round, which has*)
(* been detached, because lastpagebase_addr outlives it and there is only  *)
(* one page; or a block runs past the end of its page.                     *)
Astray(r) ==
    \/ SharedMemory(r) /\ shmem_ptr[r] # "mapped"
    \/ Phase(r) = "xpmem_nocache" /\ iter[r] > 0 /\ OnePage(r)
    \/ Xpmem(r) /\ Straddles(r)

(* A receiver copies a chunk: from the shared file, or straight from the   *)
(* sender's buffer, which holds the data of the round the sender is in.  A *)
(* copy that goes astray may find some of the right data all the same.     *)
Copy(r) ==
    /\ pc[r] = "copy"
    /\ SharedMemory(r) => Usable(r) /\ Divides(r)
    /\ Phase(r) = "cma" => pc[Sender] \notin Stopped
    /\ \E right \in IF Xpmem(r) /\ Astray(r) THEN SUBSET Piece ELSE {Piece} :
           lbuf' = [lbuf EXCEPT ![r] = [p \in Piece |->
               IF p \notin Pieces(r) THEN @[p]
               ELSE IF ~SharedMemory(r) THEN IF p \in right THEN Stamp(Sender) ELSE Junk
               ELSE IF shmem_ptr[r] = "mapped" THEN shm[p] ELSE Junk]]
    /\ wild' = IF Astray(r) THEN step[r] + 1 ELSE wild
    /\ IF chunk[r] < Chunks(r)
       THEN Goto(r, "rts") /\ Enter(r, "bcast") /\ chunk' = [chunk EXCEPT ![r] = @ + 1]
       ELSE Goto(r, "fin") /\ Enter(r, "gather") /\ UNCHANGED chunk
    /\ UNCHANGED <<iter, clock, job, step, local, shm, refused>>

(* The rounds in which a receiver attaches anything.                       *)
Attaches(r) ==
    /\ Xpmem(r)
    /\ iter[r] > 0 => Phase(r) = "xpmem_nocache" /\ ~OnePage(r)

(* A signal: a copy that goes astray, a chunk that runs past the lists, a  *)
(* refused attachment of a whole block or one of a dead process.           *)
Fault(r) ==
    /\ pc[r] \in {"pack", "copy"}
    /\ \/ Astray(r)
       \/ Overruns(r)
       \/ Attaches(r) /\ ~SmallBlock(r)
       \/ Xpmem(r) /\ pc[Sender] \in Stopped
    /\ Goto(r, "crashed")
    /\ UNCHANGED <<calls, iter, clock, job, step, chunk, local, bufs, refused, wild>>

(* The attachment of a page is refused: goto cleanup, past the FIN and the *)
(* barrier of the benchmark to the one of main.                            *)
Refuse(r) ==
    /\ pc[r] = "copy" /\ Attaches(r) /\ SmallBlock(r)
    /\ refused' = refused \cup {r}
    /\ Enter(r, "barrier")
    /\ Goto(r, "main_barrier")
    /\ UNCHANGED <<iter, clock, job, step, chunk, local, bufs, wild>>

(* assert(nread == bufsize), or with CMA assert(total_copied == bufsize).  *)
AssertFails(r) ==
    /\ pc[r] \in {"pack", "copy"}
    /\ \/ SharedMemory(r) /\ ~Divides(r) /\ Usable(r)
       \/ Phase(r) = "cma"
    /\ Goto(r, "aborted")
    /\ UNCHANGED <<calls, iter, clock, job, step, chunk, local, bufs, refused, wild>>

PassFin(r) ==
    /\ pc[r] = "fin"
    /\ FinReturns(r)
    /\ ~Overruns(r)
    /\ iter' = [iter EXCEPT ![r] = @ + 1]
    /\ Goto(r, "loop")
    /\ UNCHANGED <<calls, clock, job, step, chunk, local, bufs, refused, wild>>

(* assert(iovcnt == niov) after a round that ran past the lists.           *)
OverrunAborts(r) ==
    /\ pc[r] = "fin"
    /\ FinReturns(r)
    /\ Overruns(r)
    /\ Goto(r, "aborted")
    /\ UNCHANGED <<calls, iter, clock, job, step, chunk, local, bufs, refused, wild>>

EndLoop(r) ==
    /\ pc[r] = "loop"
    /\ LeaveLoop(r)
    /\ Enter(r, "barrier")
    /\ Goto(r, "bench_barrier")
    /\ UNCHANGED <<iter, job, step, chunk, local, bufs, refused, wild>>

-----------------------------------------------------------------------------
(* The benchmark's own barrier; main unmaps the file after the pipelined   *)
(* one, and enters a barrier of its own.                                   *)
EndPhase(r) ==
    /\ pc[r] = "bench_barrier"
    /\ BarrierReturns(r)
    /\ shmem_ptr' = IF Phase(r) = "shmem_pip" THEN [shmem_ptr EXCEPT ![r] = "stale"]
                                             ELSE shmem_ptr
    /\ Enter(r, "barrier")
    /\ Goto(r, "main_barrier")
    /\ UNCHANGED <<iter, clock, job, step, blocksize, chunk, liov, bufs, refused, wild>>

(* The next benchmark, or, after the last one, the next block size.        *)
PassMainBarrier(r) ==
    /\ pc[r] = "main_barrier"
    /\ BarrierReturns(r)
    /\ step' = [step EXCEPT ![r] = @ + 1]
    /\ LET last == Phase(r) = PhaseOrder[5]
       IN  /\ Goto(r, IF last THEN "head" ELSE "begin")
           /\ liov' = IF last THEN [liov EXCEPT ![r] = "none"] ELSE liov
           /\ blocksize' = IF last THEN [blocksize EXCEPT ![r] = 2 * @] ELSE blocksize
    /\ UNCHANGED <<calls, iter, clock, job, chunk, shmem_ptr, bufs, refused, wild>>

-----------------------------------------------------------------------------
RankStep(r) ==
    \/ WrongUsage(r) \/ BadArgs(r) \/ Start(r) \/ PassFirstBarrier(r)
    \/ NextBlockSize(r) \/ Exit(r)
    \/ BeginShmem(r) \/ BeginOneCopy(r) \/ PassPrologue(r) \/ NoDriver(r)
    \/ StartRound(r) \/ Pack(r) \/ PassRts(r) \/ Copy(r) \/ Fault(r) \/ Refuse(r)
    \/ AssertFails(r) \/ PassFin(r) \/ OverrunAborts(r) \/ EndLoop(r)
    \/ EndPhase(r) \/ PassMainBarrier(r)

Launcher(r) ==
    Kill(r) /\ UNCHANGED <<iter, clock, job, step, chunk, local, bufs, refused, wild>>

Terminating == AllStopped /\ UNCHANGED vars

Next ==
    \/ \E r \in Rank : RankStep(r) \/ Launcher(r)
    \/ Terminating

Spec == Init /\ [][Next]_vars

(* Every rank is a process of its own, and the launcher reaps dead jobs.   *)
FairSpec == Spec /\ \A r \in Rank : WF_vars(RankStep(r)) /\ WF_vars(Launcher(r))

-----------------------------------------------------------------------------
Label == {"start", "first_barrier", "head", "begin", "prologue", "loop", "pack", "rts",
          "copy", "fin", "bench_barrier", "main_barrier"} \cup Stopped

(* Types, and: the block size never exceeds the buffer inside the loop.    *)
TypeOK ==
    /\ pc \in [Rank -> Label]
    /\ calls \in [Rank -> Seq(Collective)]
    /\ iter \in [Rank -> 0 .. Iters] /\ step \in [Rank -> Nat]
    /\ blocksize \in [Rank -> Nat]
    /\ clock \in {"off", "running", "stopped"}
    /\ chunk \in [Rank -> Piece]
    /\ liov \in [Rank -> {"none", "own", "sender"}]
    /\ shmem_ptr \in [Rank -> {"bad", "mapped", "stale"}]
    /\ shm \in [Piece -> Nat \X (0 .. Iters)]
    /\ lbuf \in [Receiver -> [Piece -> Nat \X (0 .. Iters)]]
    /\ refused \subseteq Receiver /\ wild \in Nat
    /\ \A r \in Rank : pc[r] \notin {"start", "first_barrier", "head"} \cup Stopped =>
           blocksize[r] \in 1 .. BufSize

(* While a receiver copies, the sender is in the same round of the same    *)
(* benchmark: it is not rewriting that chunk, not clearing its buffer for  *)
(* the next benchmark, and has not freed it.                               *)
ReadersHoldSender ==
    \A r \in Receiver : pc[r] = "copy" =>
        /\ step[Sender] = step[r] /\ iter[Sender] = iter[r]
        /\ pc[Sender] \in {"pack", "rts", "fin", "killed"} \cup Failed
        /\ pc[Sender] = "pack" => chunk[r] < chunk[Sender]

(* XPMEM overwrites liov of the receivers with the sender's addresses: no  *)
(* benchmark that copies through liov into the own buffer runs after it    *)
(* with the same list, nor with a freed one.                               *)
OwnLists ==
    \A r \in Rank : pc[r] \in {"pack", "copy"} /\ ~Xpmem(r) => liov[r] = "own"

(* Five benchmarks share one stream of collectives with different prologues*)
(* and numbers of calls: all ranks make the same calls in the same order,  *)
(* unless an attachment was refused.                                       *)
CallsAgreeIfAttached == refused = {} => CallsAgree

(* Each latency is that of its own benchmark: when the sender starts its   *)
(* clock all receivers hold the last warm-up round of that benchmark (if   *)
(* it has one), when it stops it the last round, if no copy went astray.   *)
MeasuredRounds ==
    [][clock' # clock /\ wild # step[Sender] + 1 =>
         LET round == IF clock' = "running" THEN SkipIter ELSE Iters
         IN  round > 0 => \A r \in Receiver : \A p \in Piece :
                 lbuf[r][p] = <<step[Sender] + 1, round>>]_vars

(* Every rank stops, unless an attachment was refused.                     *)
TerminationIfAttached == [](refused = {}) => <>AllStopped

(* bench as a whole implements Transfer, whose rounds are those of all the *)
(* benchmarks one after the other: although the file still holds the rounds*)
(* of earlier benchmarks and block sizes, no barrier follows init_shmem,   *)
(* and each benchmark clears the buffers, no round starts before the last  *)
(* one is held by everybody, across benchmarks too, as long as no copy has *)
(* gone astray.  Announced: the rounds the sender has called a Gather for, *)
(* and the one of an RTS after that (the first Bcast after a barrier       *)
(* announces nothing but a pid or a segid, unless this is shared memory).  *)
Announced ==
    LET mine == calls[Sender]
        last == Len(mine)
    IN  Cardinality({k \in 1 .. last : mine[k] = "gather"})
        + (IF /\ last > 1 /\ mine[last] = "bcast"
              /\ SharedMemory(Sender) \/ mine[last - 1] # "barrier"
           THEN 1 ELSE 0)

RunBefore(n) ==         \* the benchmarks of the first n that have a driver
    IF job.xpmem THEN n ELSE 3 * (n \div 5) + Min({3, n % 5})

Held(r) ==
    Min({IF piece = Junk THEN RunBefore(step[r]) * Iters
         ELSE RunBefore(piece[1] - 1) * Iters + piece[2] :
             piece \in {lbuf[r][p] : p \in Piece}})
held == [r \in Receiver |-> Held(r)]

Abstract == INSTANCE Transfer WITH
                Rounds <- 5 * BufSize * Iters,
                sent <- Announced,
                reported <- FALSE

ImplementsTransfer ==
    /\ Abstract!Init
    /\ [][wild' = 0 => Abstract!Next \/ UNCHANGED <<Announced, held>>]_vars
=============================================================================
