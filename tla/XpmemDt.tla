------------------------------- MODULE XpmemDt -------------------------------
(***************************************************************************)
(* xpmem_dt and xpmem_cache_dt: the sender broadcasts its iovec list       *)
(* (RTS); every receiver attaches the sender's memory to its own address   *)
(* space, copies from there, detaches and reports with an MPI_Gather       *)
(* (FIN).  xpmem_cache_dt attaches in the first round and detaches in the  *)
(* last one only; xpmem_dt does both in every round (use_cache = 0).       *)
(*                                                                         *)
(* An attachment is the region of the sender's buffer it shows: <<first    *)
(* byte, length>>.  lbuf[r][x] is the last round in which receiver r       *)
(* copied byte x through a live attachment, 0 for never or through a bad   *)
(* pointer.  lbuf is page aligned, so byte x lies in page x \div PageSize. *)
(***************************************************************************)
EXTENDS BenchLoop, Arguments, FiniteSets, FiniteSetsExt

CONSTANTS PageSize,     \* sysconf(_SC_PAGESIZE)
          CacheModes    \* the values of use_cache considered

ASSUME XpmemAssumption ==
    PageSize \in Nat \ {0} /\ CacheModes \subseteq BOOLEAN

VARIABLES use_cache,    \* which of the two programs this is
          blk,          \* blk[r]: i in the attach and copy loops
          lastpage,     \* lastpage[r]: lastpagebase_addr, as a page number
          curr,         \* curr[r]: curr_attach_ptr
          seg,          \* seg[r][i]: attached_seglist[i]
          live,         \* live[r]: the attachments r has and not detached
          apids,        \* apids[r]: xpmem_get less xpmem_release
          lbuf,         \* lbuf[r][x]: see above
          freed         \* freed[r]: rank r has freed lbuf

config == <<blocksize, use_cache>>
attaching == <<lastpage, curr, seg, live>>
vars == <<pc, calls, iter, clock, blocksize, use_cache, blk, lastpage, curr, seg,
          live, apids, lbuf, freed>>

NoPage == BufSize           \* lastpagebase_addr = NULL
NoSegment == <<0, 0>>       \* an entry never set
Refused == <<BufSize, 0>>   \* (void *)-1

Block(i) == i * blocksize .. (i + 1) * blocksize - 1
PageOf(i) == (i * blocksize) \div PageSize
Bytes(region) == region[1] .. region[1] + region[2] - 1
BlockBytes(r) == Block(blk[r])
Page(r) == PageOf(blk[r])

-----------------------------------------------------------------------------
Init ==
    /\ pc = [r \in Rank |-> "setup"]
    /\ calls = [r \in Rank |-> <<>>]
    /\ blocksize \in BlockSizes
    /\ use_cache \in CacheModes
    /\ iter = [r \in Rank |-> 0]
    /\ clock = "off"
    /\ blk = [r \in Receiver |-> 0]
    /\ lastpage = [r \in Receiver |-> NoPage]
    /\ curr = [r \in Receiver |-> NoSegment]
    /\ seg = [r \in Receiver |-> [i \in Byte |-> NoSegment]]
    /\ live = [r \in Receiver |-> {}]
    /\ apids = [r \in Receiver |-> 0]
    /\ lbuf = [r \in Receiver |-> [x \in Byte |-> 0]]
    /\ freed = [r \in Rank |-> FALSE]

(* The number of blocks is computed before assert(blocksize > 0).          *)
DivideByZero(r) ==
    /\ pc[r] = "setup"
    /\ blocksize = 0
    /\ Goto(r, "crashed")
    /\ UNCHANGED <<calls, iter, clock, config, blk, attaching, apids, lbuf, freed>>

(* xpmem_make by the sender and the broadcast of its segid.                *)
Setup(r) ==
    /\ pc[r] = "setup"
    /\ blocksize > 0
    /\ Enter(r, "bcast")
    /\ Goto(r, "segid")
    /\ UNCHANGED <<iter, clock, config, blk, attaching, apids, lbuf, freed>>

PassSegid(r) ==
    /\ pc[r] = "segid"
    /\ BcastReturns(r)
    /\ Enter(r, "barrier")
    /\ Goto(r, "start_barrier")
    /\ UNCHANGED <<iter, clock, config, blk, attaching, apids, lbuf, freed>>

PassStartBarrier(r) ==
    /\ pc[r] = "start_barrier"
    /\ BarrierReturns(r)
    /\ Goto(r, "loop")
    /\ UNCHANGED <<calls, iter, clock, config, blk, attaching, apids, lbuf, freed>>

StartRound(r) ==
    /\ pc[r] = "loop"
    /\ BeginRound(r)
    /\ Enter(r, "bcast")
    /\ Goto(r, "bcast")
    /\ UNCHANGED <<iter, config, blk, attaching, apids, lbuf, freed>>

AttachOnce(r) == iter[r] = 0                    \* mutant: forgets !use_cache
AttachNow(r) == ~use_cache \/ iter[r] = 0

(* The RTS and the FIN of a round.                                         *)
NoWait(r) == TRUE                           \* mutant: the call is left out
RtsReturns(r) == BcastReturns(r)
FinReturns(r) == GatherReturns(r)

PassRtsSender(r) ==
    /\ pc[r] = "bcast" /\ r = Sender
    /\ RtsReturns(r)
    /\ Enter(r, "gather")
    /\ Goto(r, "gather")
    /\ UNCHANGED <<iter, clock, config, blk, attaching, apids, lbuf, freed>>

(* xpmem_get, in the rounds that attach.                                   *)
PassRtsReceiver(r) ==
    /\ pc[r] = "bcast" /\ r # Sender
    /\ RtsReturns(r)
    /\ blk' = [blk EXCEPT ![r] = 0]
    /\ apids' = [apids EXCEPT ![r] = IF AttachNow(r) THEN @ + 1 ELSE @]
    /\ Goto(r, IF AttachNow(r) THEN "attach" ELSE "copy")
    /\ UNCHANGED <<calls, iter, clock, config, attaching, lbuf, freed>>

(* Blocks smaller than a page share one attachment of the page they start  *)
(* in: only a page other than the last one attached is attached.           *)
SmallBlock == blocksize < PageSize

AttachPage(r) ==
    /\ pc[r] = "attach" /\ blk[r] < NBlocks
    /\ SmallBlock /\ lastpage[r] # Page(r)
    /\ LET region == <<Page(r) * PageSize, PageSize>>
       IN  /\ curr' = [curr EXCEPT ![r] = region]
           /\ seg' = [seg EXCEPT ![r][blk[r]] = region]
           /\ live' = [live EXCEPT ![r] = @ \cup {region}]
    /\ lastpage' = [lastpage EXCEPT ![r] = Page(r)]
    /\ blk' = [blk EXCEPT ![r] = @ + 1]
    /\ UNCHANGED <<pc, calls, iter, clock, config, apids, lbuf, freed>>

ReusePage(r) ==
    /\ pc[r] = "attach" /\ blk[r] < NBlocks
    /\ SmallBlock /\ lastpage[r] = Page(r)
    /\ seg' = [seg EXCEPT ![r][blk[r]] = curr[r]]
    /\ blk' = [blk EXCEPT ![r] = @ + 1]
    /\ UNCHANGED <<pc, calls, iter, clock, config, lastpage, curr, live, apids, lbuf, freed>>

(* The attachment of a page is refused: goto fn_exit.  apid is released,   *)
(* the buffers are freed, and the receiver goes to the last barrier: no    *)
(* FIN is sent.                                                            *)
PageRefused(r) ==
    /\ pc[r] = "attach" /\ blk[r] < NBlocks
    /\ SmallBlock /\ lastpage[r] # Page(r)
    /\ lastpage' = [lastpage EXCEPT ![r] = Page(r)]
    /\ curr' = [curr EXCEPT ![r] = Refused]
    /\ apids' = [apids EXCEPT ![r] = @ - 1]
    /\ freed' = [freed EXCEPT ![r] = TRUE]
    /\ Enter(r, "barrier")
    /\ Goto(r, "end_barrier")
    /\ UNCHANGED <<iter, clock, config, blk, seg, live, lbuf>>

(* A block of a page or more has an attachment of its own; a refusal is    *)
(* printed and the pointer kept.                                           *)
AttachBlock(r) ==
    /\ pc[r] = "attach" /\ blk[r] < NBlocks
    /\ ~SmallBlock
    /\ LET region == <<blk[r] * blocksize, blocksize>>
       IN  \/ /\ seg' = [seg EXCEPT ![r][blk[r]] = region]
              /\ live' = [live EXCEPT ![r] = @ \cup {region}]
           \/ /\ seg' = [seg EXCEPT ![r][blk[r]] = Refused]
              /\ UNCHANGED live
    /\ blk' = [blk EXCEPT ![r] = @ + 1]
    /\ UNCHANGED <<pc, calls, iter, clock, config, lastpage, curr, apids, lbuf, freed>>

AttachDone(r) ==
    /\ pc[r] = "attach" /\ blk[r] = NBlocks
    /\ blk' = [blk EXCEPT ![r] = 0]
    /\ Goto(r, "copy")
    /\ UNCHANGED <<calls, iter, clock, config, attaching, apids, lbuf, freed>>

(* The bytes the next memcpy can read through a live attachment.           *)
Reachable(r) ==
    LET region == seg[r][blk[r]]
    IN  IF region \in live[r] THEN BlockBytes(r) \cap Bytes(region) ELSE {}

(* memcpy of one block.  What lies behind a detached pointer or past the   *)
(* end of an attachment is whatever is mapped there, if anything is.       *)
CopyBlock(r) ==
    /\ pc[r] = "copy" /\ blk[r] < NBlocks
    /\ seg[r][blk[r]] # Refused
    /\ lbuf' = [lbuf EXCEPT ![r] = [x \in Byte |->
                   IF x \notin BlockBytes(r) THEN @[x]
                   ELSE IF x \in Reachable(r) THEN iter[r] + 1 ELSE 0]]
    /\ blk' = [blk EXCEPT ![r] = @ + 1]
    /\ UNCHANGED <<pc, calls, iter, clock, config, attaching, apids, freed>>

(* A bad pointer, or the memory of a sender that is gone.                  *)
Fault(r) ==
    /\ pc[r] = "copy" /\ blk[r] < NBlocks
    /\ BlockBytes(r) # Reachable(r) \/ pc[Sender] \in Stopped
    /\ Goto(r, "crashed")
    /\ UNCHANGED <<calls, iter, clock, config, blk, attaching, apids, lbuf, freed>>

DetachEarly(r) == ~use_cache \/ iter[r] + 2 >= Iters    \* mutant: off by one
DetachLast(r) == iter[r] + 1 = Iters            \* mutant: forgets !use_cache
DetachNow(r) == ~use_cache \/ iter[r] + 1 = Iters

(* Everything is copied: detach if it is time to, and send the FIN.        *)
SendFin(r) ==
    /\ pc[r] = "copy" /\ blk[r] = NBlocks
    /\ live' = IF DetachNow(r)
               THEN [live EXCEPT ![r] = @ \ {seg[r][i] : i \in 0 .. NBlocks - 1}]
               ELSE live
    /\ Enter(r, "gather")
    /\ Goto(r, "gather")
    /\ UNCHANGED <<iter, clock, config, blk, lastpage, curr, seg, apids, lbuf, freed>>

PassFin(r) ==
    /\ pc[r] = "gather"
    /\ FinReturns(r)
    /\ iter' = [iter EXCEPT ![r] = @ + 1]
    /\ Goto(r, "loop")
    /\ UNCHANGED <<calls, clock, config, blk, attaching, apids, lbuf, freed>>

(* The loop is left: the last apid is released (the sender's is never set  *)
(* and releasing it has no effect), everything is freed.                   *)
EndLoop(r) ==
    /\ pc[r] = "loop"
    /\ LeaveLoop(r)
    /\ apids' = [q \in Receiver |-> IF q = r THEN apids[q] - 1 ELSE apids[q]]
    /\ freed' = [freed EXCEPT ![r] = TRUE]
    /\ Enter(r, "barrier")
    /\ Goto(r, "end_barrier")
    /\ UNCHANGED <<iter, config, blk, attaching, lbuf>>

Finish(r) ==
    /\ pc[r] = "end_barrier"
    /\ BarrierReturns(r)
    /\ Goto(r, "done")
    /\ UNCHANGED <<calls, iter, clock, config, blk, attaching, apids, lbuf, freed>>

-----------------------------------------------------------------------------
RankStep(r) ==
    \/ DivideByZero(r) \/ Setup(r) \/ PassSegid(r) \/ PassStartBarrier(r)
    \/ StartRound(r) \/ PassRtsSender(r) \/ PassRtsReceiver(r)
    \/ AttachPage(r) \/ ReusePage(r) \/ PageRefused(r) \/ AttachBlock(r) \/ AttachDone(r)
    \/ CopyBlock(r) \/ Fault(r) \/ SendFin(r) \/ PassFin(r)
    \/ EndLoop(r) \/ Finish(r)

Launcher(r) ==
    Kill(r) /\ UNCHANGED <<iter, clock, config, blk, attaching, apids, lbuf, freed>>

Terminating == AllStopped /\ UNCHANGED vars

Next ==
    \/ \E r \in Rank : RankStep(r) \/ Launcher(r)
    \/ Terminating

Spec == Init /\ [][Next]_vars

(* Every rank is a process of its own, and the launcher reaps dead jobs.   *)
FairSpec == Spec /\ \A r \in Rank : WF_vars(RankStep(r)) /\ WF_vars(Launcher(r))

-----------------------------------------------------------------------------
Label == {"setup", "segid", "start_barrier", "loop", "bcast", "attach", "copy",
          "gather", "end_barrier"} \cup Stopped

Region == (0 .. BufSize) \X (0 .. BufSize + PageSize)

TypeOK ==
    /\ pc \in [Rank -> Label]
    /\ calls \in [Rank -> Seq(Collective)]
    /\ blocksize \in BlockSizes /\ use_cache \in CacheModes
    /\ iter \in [Rank -> 0 .. Iters]
    /\ clock \in {"off", "running", "stopped"}
    /\ blk \in [Receiver -> Byte \cup {BufSize}]
    /\ lastpage \in [Receiver -> Byte \cup {NoPage}]
    /\ curr \in [Receiver -> Region]
    /\ seg \in [Receiver -> [Byte -> Region]]
    /\ live \in [Receiver -> SUBSET Region]
    /\ apids \in [Receiver -> 0 .. Iters]
    /\ lbuf \in [Receiver -> [Byte -> 0 .. Iters]]
    /\ freed \in [Rank -> BOOLEAN]

(* The bytes of block i its attachment is meant to show: all of it, but if *)
(* it is smaller than a page and straddles the end of one, only the part   *)
(* in the page it starts in, which is all that is attached for it.         *)
Shown(i) ==
    IF SmallBlock THEN Block(i) \cap Bytes(<<PageOf(i) * PageSize, PageSize>>) ELSE Block(i)

(* "3. Copy from remote segments": a copy goes through an attachment that  *)
(* exists and shows the block, and misses no more of it than the tail of a *)
(* block that straddles two pages.                                         *)
CopiesAttached ==
    \A r \in Receiver :
        pc[r] = "copy" /\ blk[r] < NBlocks /\ seg[r][blk[r]] # Refused =>
            Reachable(r) = Shown(blk[r])

(* The sender never frees the buffer the receivers have attached while one *)
(* of them may still copy from it.                                         *)
NoReadAfterFree ==
    freed[Sender] => \A r \in Receiver : pc[r] \notin {"attach", "copy"}

(* "4. detach and release mapped pages": nobody leaves with attachments,   *)
(* xpmem_dt holds none from one round to the next, nothing is attached     *)
(* without a permit, and xpmem_cache_dt leaves with none, even when an     *)
(* attachment is refused (xpmem_dt keeps one of every round but the last). *)
RoundOver(r) == pc[r] \in {"gather", "loop"} /\ ~use_cache
LoopOver(r) == pc[r] \in {"loop", "end_barrier", "done"} /\ iter[r] = Iters
AllDetached ==
    \A r \in Receiver :
        /\ RoundOver(r) \/ LoopOver(r) => live[r] = {}
        /\ pc[r] \in {"attach", "copy"} /\ live[r] # {} => apids[r] > 0
        /\ pc[r] \in {"end_barrier", "done"} /\ use_cache => apids[r] = 0

(* Unless an attachment was refused, every rank stops.                     *)
TerminationIfAttached ==
    [](\A r \in Receiver : curr[r] # Refused) => <>AllStopped

(* "5. Send FIN pkt": every rank stops, whatever happens.                  *)
Termination == <>AllStopped

(* The transport implements Transfer, over the bytes its attachments show: *)
(* when blocksize does not divide bufsize the tail is silently left out (no*)
(* assertion as in the other programs), and so are the straddling ends.    *)
Covered == UNION {Shown(i) : i \in 0 .. NBlocks - 1}
Oldest(buf) == IF blocksize = 0 THEN 0 ELSE Min({buf[x] : x \in Covered})
Announced == Cardinality({k \in 2 .. Len(calls[Sender]) : calls[Sender][k] = "bcast"})

Abstract == INSTANCE Transfer WITH
                Rounds <- Iters,
                sent <- Announced,
                held <- [r \in Receiver |-> Oldest(lbuf[r])],
                reported <- clock = "stopped"

ImplementsTransfer == Abstract!Spec
=============================================================================
