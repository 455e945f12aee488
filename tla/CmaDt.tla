-------------------------------- MODULE CmaDt --------------------------------
(***************************************************************************)
(* cma_dt: the sender broadcasts its iovec list (RTS); every receiver      *)
(* reads the sender's memory with process_vm_readv, at most IOV_MAX        *)
(* elements a call, and reports with an MPI_Gather (FIN).                  *)
(*                                                                         *)
(* lbuf[r][x] is the last round in which receiver r read byte x.  The      *)
(* byte counters are size_t: they wrap past SizeMax, which matters because *)
(* a failed call returns -1.                                               *)
(***************************************************************************)
EXTENDS BenchLoop, Arguments, Integers, FiniteSets, FiniteSetsExt

CONSTANTS IovMax,       \* CMA_IOV_LIMIT, sysconf(_SC_IOV_MAX)
          SizeMax,      \* SIZE_MAX, the largest size_t
          GarbageLens   \* what the elements past the end of the lists may
                        \* add to a call: 0 if they are empty or unreadable

(* malloc gives no object larger than PTRDIFF_MAX, half of SIZE_MAX.       *)
ASSUME CmaAssumption ==
    /\ IovMax \in Nat \ {0} /\ SizeMax \in Nat /\ 2 * BufSize <= SizeMax
    /\ GarbageLens \subseteq Nat

VARIABLES iovoff,       \* iovoff[r]: iov_off
          remaining,    \* remaining[r], a size_t
          copied,       \* copied[r]: total_copied, a size_t
          lbuf,         \* lbuf[r][x]: see above
          freed         \* freed[r]: rank r has freed lbuf and its lists

loopvars == <<iovoff, remaining, copied>>
vars == <<pc, calls, iter, clock, blocksize, iovoff, remaining, copied, lbuf, freed>>

Wrap(n) == n % (SizeMax + 1)

-----------------------------------------------------------------------------
Init ==
    /\ pc = [r \in Rank |-> "setup"]
    /\ calls = [r \in Rank |-> <<>>]
    /\ blocksize \in BlockSizes
    /\ iter = [r \in Rank |-> 0]
    /\ clock = "off"
    /\ iovoff = [r \in Receiver |-> 0]
    /\ remaining = [r \in Receiver |-> 0]
    /\ copied = [r \in Receiver |-> 0]
    /\ lbuf = [r \in Receiver |-> [x \in Byte |-> 0]]
    /\ freed = [r \in Rank |-> FALSE]

(* The number of blocks is computed before assert(blocksize > 0).          *)
DivideByZero(r) ==
    /\ pc[r] = "setup"
    /\ blocksize = 0
    /\ Goto(r, "crashed")
    /\ UNCHANGED <<calls, iter, clock, blocksize, loopvars, lbuf, freed>>

(* Allocation, then the broadcast of the sender's pid ...                  *)
Setup(r) ==
    /\ pc[r] = "setup"
    /\ blocksize > 0
    /\ Enter(r, "bcast")
    /\ Goto(r, "pid")
    /\ UNCHANGED <<iter, clock, blocksize, loopvars, lbuf, freed>>

(* ... and the barrier.                                                    *)
PassPid(r) ==
    /\ pc[r] = "pid"
    /\ BcastReturns(r)
    /\ Enter(r, "barrier")
    /\ Goto(r, "start_barrier")
    /\ UNCHANGED <<iter, clock, blocksize, loopvars, lbuf, freed>>

PassStartBarrier(r) ==
    /\ pc[r] = "start_barrier"
    /\ BarrierReturns(r)
    /\ Goto(r, "loop")
    /\ UNCHANGED <<calls, iter, clock, blocksize, loopvars, lbuf, freed>>

StartRound(r) ==
    /\ pc[r] = "loop"
    /\ BeginRound(r)
    /\ Enter(r, "bcast")
    /\ Goto(r, "bcast")
    /\ UNCHANGED <<iter, blocksize, loopvars, lbuf, freed>>

(* The RTS and the FIN of a round.                                         *)
NoWait(r) == TRUE                           \* mutant: the call is left out
RtsReturns(r) == BcastReturns(r)
FinReturns(r) == GatherReturns(r)

(* The sender waits for the FINs; a receiver starts to read.               *)
PassRts(r) ==
    /\ pc[r] = "bcast"
    /\ RtsReturns(r)
    /\ IF r = Sender
       THEN /\ Goto(r, "gather") /\ Enter(r, "gather")
            /\ UNCHANGED loopvars
       ELSE /\ Goto(r, "copy") /\ UNCHANGED calls
            /\ iovoff' = [iovoff EXCEPT ![r] = 0]
            /\ remaining' = [remaining EXCEPT ![r] = BufSize]
            /\ copied' = [copied EXCEPT ![r] = 0]
    /\ UNCHANGED <<iter, clock, blocksize, lbuf, freed>>

MoreToRead(r) == remaining[r] > 0 /\ iovoff[r] < NBlocks

(* curr_blks: the elements passed to one call, and how many of them lie    *)
(* inside liov[] and riov[].                                               *)
CurrBlks == Min({NBlocks, IovMax})
Valid(r) == Min({CurrBlks, NBlocks - iovoff[r]})

SkipShort(r, bytes) ==              \* mutant: counts what was asked, not read
    /\ copied' = [copied EXCEPT ![r] = Wrap(@ + Valid(r) * blocksize)]
    /\ remaining' = [remaining EXCEPT ![r] = Wrap(@ - bytes)]
    /\ iovoff' = [iovoff EXCEPT ![r] = @ + CurrBlks]

(* The bookkeeping after a call, whatever it returned.                     *)
Account(r, bytes) ==
    /\ copied' = [copied EXCEPT ![r] = Wrap(@ + bytes)]
    /\ remaining' = [remaining EXCEPT ![r] = Wrap(@ - bytes)]
    /\ iovoff' = [iovoff EXCEPT ![r] = @ + CurrBlks]

(* process_vm_readv transfers the first n elements, all or fewer (it never *)
(* splits one); once it is past the valid ones it meets uninitialised      *)
(* memory and may transfer some garbage as well.                           *)
ReadRemote(r) ==
    /\ pc[r] = "copy"
    /\ MoreToRead(r)
    /\ pc[Sender] \notin Stopped
    /\ \E n \in 1 .. Valid(r), g \in GarbageLens \cup {0} :
           /\ g > 0 => n = Valid(r) /\ Valid(r) < CurrBlks
           /\ Account(r, n * blocksize + g)
           /\ lbuf' = [lbuf EXCEPT ![r] =
                  [x \in Byte |->
                     IF (x \div blocksize) \in iovoff[r] .. iovoff[r] + n - 1
                     THEN iter[r] + 1 ELSE @[x]]]
    /\ UNCHANGED <<pc, calls, iter, clock, blocksize, freed>>

(* It fails (no permission, the sender is gone, a bad element) with -1,    *)
(* which the code adds to a size_t without a look.                         *)
ReadFails(r) ==
    /\ pc[r] = "copy"
    /\ MoreToRead(r)
    /\ Account(r, -1)
    /\ UNCHANGED <<pc, calls, iter, clock, blocksize, lbuf, freed>>

CopiedAll(r) == copied[r] = BufSize         \* assert(total_copied == bufsize)

AssertFails(r) ==
    /\ pc[r] = "copy"
    /\ ~MoreToRead(r)
    /\ ~CopiedAll(r)
    /\ Goto(r, "aborted")
    /\ UNCHANGED <<calls, iter, clock, blocksize, loopvars, lbuf, freed>>

SendFin(r) ==
    /\ pc[r] = "copy"
    /\ ~MoreToRead(r)
    /\ CopiedAll(r)
    /\ Enter(r, "gather")
    /\ Goto(r, "gather")
    /\ UNCHANGED <<iter, clock, blocksize, loopvars, lbuf, freed>>

PassFin(r) ==
    /\ pc[r] = "gather"
    /\ FinReturns(r)
    /\ iter' = [iter EXCEPT ![r] = @ + 1]
    /\ Goto(r, "loop")
    /\ UNCHANGED <<calls, clock, blocksize, loopvars, lbuf, freed>>

(* The loop is left.  The buffers are freed before the last barrier.       *)
EndLoop(r) ==
    /\ pc[r] = "loop"
    /\ LeaveLoop(r)
    /\ freed' = [freed EXCEPT ![r] = TRUE]
    /\ Enter(r, "barrier")
    /\ Goto(r, "end_barrier")
    /\ UNCHANGED <<iter, blocksize, loopvars, lbuf>>

Finish(r) ==
    /\ pc[r] = "end_barrier"
    /\ BarrierReturns(r)
    /\ Goto(r, "done")
    /\ UNCHANGED <<calls, iter, clock, blocksize, loopvars, lbuf, freed>>

-----------------------------------------------------------------------------
RankStep(r) ==
    \/ DivideByZero(r) \/ Setup(r) \/ PassPid(r) \/ PassStartBarrier(r)
    \/ StartRound(r) \/ PassRts(r) \/ ReadRemote(r) \/ ReadFails(r)
    \/ AssertFails(r) \/ SendFin(r) \/ PassFin(r) \/ EndLoop(r) \/ Finish(r)

Launcher(r) ==
    Kill(r) /\ UNCHANGED <<iter, clock, blocksize, loopvars, lbuf, freed>>

Terminating == AllStopped /\ UNCHANGED vars

Next ==
    \/ \E r \in Rank : RankStep(r) \/ Launcher(r)
    \/ Terminating

Spec == Init /\ [][Next]_vars

(* Every rank is a process of its own, and the launcher reaps dead jobs.   *)
FairSpec == Spec /\ \A r \in Rank : WF_vars(RankStep(r)) /\ WF_vars(Launcher(r))

-----------------------------------------------------------------------------
Label == {"setup", "pid", "start_barrier", "loop", "bcast", "copy", "gather",
          "end_barrier"} \cup Stopped

(* Types, and: the two byte counters of a receiver mirror each other       *)
(* through every wrap-around of size_t.                                    *)
TypeOK ==
    /\ pc \in [Rank -> Label]
    /\ calls \in [Rank -> Seq(Collective)]
    /\ blocksize \in BlockSizes
    /\ iter \in [Rank -> 0 .. Iters]
    /\ clock \in {"off", "running", "stopped"}
    /\ iovoff \in [Receiver -> Nat]
    /\ remaining \in [Receiver -> 0 .. SizeMax]
    /\ copied \in [Receiver -> 0 .. SizeMax]
    /\ lbuf \in [Receiver -> [Byte -> 0 .. Iters]]
    /\ freed \in [Rank -> BOOLEAN]
    /\ \A r \in Receiver : pc[r] = "copy" =>
           Wrap(remaining[r] + copied[r]) = BufSize

(* The receivers read the sender's memory behind its back: it never frees  *)
(* the buffer (which it does before the last barrier) while a receiver may *)
(* still issue a read.                                                     *)
NoReadAfterFree ==
    freed[Sender] => \A r \in Receiver : pc[r] # "copy"

(* Every element handed to process_vm_readv is one of the nblocks that     *)
(* "create and init iovec list" made.                                      *)
ElementsExist ==
    \A r \in Receiver : pc[r] = "copy" /\ MoreToRead(r) => Valid(r) = CurrBlks

(* lat divides by iters: the sender's clock starts when all receivers have *)
(* read the warm-up rounds and no more, and stops when they have read all. *)
TimedRounds ==
    [][clock' # clock =>
         \A r \in Receiver : \A x \in Byte :
             lbuf[r][x] = IF clock' = "running" THEN SkipIter ELSE Iters]_vars

(* Every rank stops: finished, or dead together with the whole job.        *)
Termination == <>AllStopped

(* The transport implements Transfer: the sender's Bcasts after the first  *)
(* (the pid) announce the rounds.                                          *)
Oldest(buf) == Min({buf[x] : x \in Byte})
Announced == Cardinality({k \in 2 .. Len(calls[Sender]) : calls[Sender][k] = "bcast"})

Abstract == INSTANCE Transfer WITH
                Rounds <- Iters,
                sent <- Announced,
                held <- [r \in Receiver |-> Oldest(lbuf[r])],
                reported <- clock = "stopped"

ImplementsTransfer == Abstract!Spec
=============================================================================
