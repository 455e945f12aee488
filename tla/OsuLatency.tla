----------------------------- MODULE OsuLatency -----------------------------
(***************************************************************************)
(* osu_latency_contig: a blocking ping-pong between two ranks, over element*)
(* counts that double from the minimum to MAX_NUM_ELEMS.                   *)
(*                                                                         *)
(* Each rank parses the arguments and switches to the large-message        *)
(* iteration counts for itself.  MPI_Send may return before its message is *)
(* received (buffered) or wait for that: both are modelled, and only the   *)
(* latter is relied on.  A message is the element count and the iteration  *)
(* it was sent for.                                                        *)
(***************************************************************************)
EXTENDS MpiWorld, OsuOptions, FiniteSets

CONSTANTS Argvs,        \* the argument lists considered
          MaxNumElems,  \* MAX_NUM_ELEMS
          LargeElems,   \* LARGE_MESSAGE_SIZE / extent
          Extent,       \* of the data type, in bytes
          IntMax        \* INT_MAX

ASSUME LatencyAssumption ==
    /\ IsFiniteSet(Rank) /\ Cardinality(Rank) = 2
    /\ MaxNumElems \in Nat \ {0} /\ LargeElems \in Nat /\ Extent \in Nat \ {0}
    /\ IntMax \in Nat /\ 2 * MaxNumElems <= IntMax
    /\ Argvs \subseteq Seq(Argument)

VARIABLES argv,         \* the command line
          world,        \* the ranks the job was started with
          options,      \* options[r]
          cnt,          \* cnt[r]: elements per message
          i,            \* i[r]: the iteration
          net,          \* net[r]: the messages on their way to rank r
          clock,        \* t_start/t_end of rank 0: "off", "running", "stopped"
          timed,        \* round trips completed while the clock runs
          sizes         \* the element counts rank 0 has printed a latency for

job == <<argv, world>>
vars == <<pc, calls, job, options, cnt, i, net, clock, timed, sizes>>

Peer(r) == CHOOSE q \in Rank : q # r

(* size_t to int: the low bits, as a signed number.                        *)
ToInt(n) == LET low == n % (2 * IntMax + 2)
            IN  IF low <= IntMax THEN low ELSE low - (2 * IntMax + 2)

Init ==
    /\ argv \in Argvs
    /\ world \in {Rank, {Sender}}
    /\ pc = [r \in Rank |-> IF r \in world THEN "start" ELSE "done"]
    /\ calls = [r \in Rank |-> <<>>]
    /\ options = [r \in Rank |-> Defaults]
    /\ cnt = [r \in Rank |-> 0] /\ i = [r \in Rank |-> 0]
    /\ net = [r \in Rank |-> <<>>]
    /\ clock = "off" /\ timed = 0 /\ sizes = <<>>

-----------------------------------------------------------------------------
(* Bad usage, help or version, or a job of any other size: finalize, exit. *)
LeaveEarly(r) ==
    /\ pc[r] = "start"
    /\ ProcessOptions(argv).ret # "okay" \/ Cardinality(world) # 2
    /\ Goto(r, "done")
    /\ UNCHANGED <<calls, job, options, cnt, i, net, clock, timed, sizes>>

(* posix_memalign fails: return 1, without MPI_Finalize.                   *)
OutOfMemory(r) ==
    /\ pc[r] = "start"
    /\ ProcessOptions(argv).ret = "okay" /\ Cardinality(world) = 2
    /\ Goto(r, "aborted")
    /\ UNCHANGED <<calls, job, options, cnt, i, net, clock, timed, sizes>>

Setup(r) ==
    /\ pc[r] = "start"
    /\ ProcessOptions(argv).ret = "okay" /\ Cardinality(world) = 2
    /\ options' = [options EXCEPT ![r] = ProcessOptions(argv).options]
    /\ Enter(r, "barrier")
    /\ Goto(r, "start_barrier")
    /\ UNCHANGED <<job, cnt, i, net, clock, timed, sizes>>

PassStartBarrier(r) ==
    /\ pc[r] = "start_barrier"
    /\ BarrierReturns(r)
    /\ cnt' = [cnt EXCEPT ![r] = ToInt(options[r].min_message_size)]
    /\ Goto(r, "head")
    /\ UNCHANGED <<calls, job, options, i, net, clock, timed, sizes>>

-----------------------------------------------------------------------------
LargeAtPeer(r) == cnt[r] > LargeElems /\ r # Sender                \* mutant
Large(r) == cnt[r] > LargeElems

SizeInBytes(r) == cnt[r] <= MaxNumElems * Extent                  \* mutant
LastOmitted(r) == cnt[r] < MaxNumElems                            \* mutant
MoreSizes(r) == cnt[r] <= MaxNumElems

(* Large messages are sent fewer times; this is never undone.              *)
NextSize(r) ==
    /\ pc[r] = "head" /\ MoreSizes(r)
    /\ options' = IF Large(r)
          THEN [options EXCEPT ![r] = [@ EXCEPT !.iterations = options[r].iterations_large,
                                                !.skip = options[r].skip_large]]
          ELSE options
    /\ Enter(r, "barrier")
    /\ Goto(r, "size_barrier")
    /\ UNCHANGED <<job, cnt, i, net, clock, timed, sizes>>

PassSizeBarrier(r) ==
    /\ pc[r] = "size_barrier"
    /\ BarrierReturns(r)
    /\ i' = [i EXCEPT ![r] = 0]
    /\ Goto(r, "loop")
    /\ UNCHANGED <<calls, job, options, cnt, net, clock, timed, sizes>>

MoreIterations(r) == i[r] < options[r].iterations + options[r].skip

StartsAtOnce(r) == i[r] = 0                           \* mutant: warm-up timed
StartsTimer(r) == i[r] = options[r].skip

(* The order of the two calls in the body: rank 0 sends first.             *)
BothReceive(r) == <<"recv", "send">>                              \* mutant
Body(r) == IF r = Sender THEN <<"send", "recv">> ELSE <<"recv", "send">>

(* The head of the loop.                                                   *)
Iterate(r) ==
    /\ pc[r] = "loop" /\ MoreIterations(r)
    /\ IF r = Sender /\ StartsTimer(r)
       THEN clock' = "running" /\ timed' = 0
       ELSE UNCHANGED <<clock, timed>>
    /\ Goto(r, Body(r)[1])
    /\ UNCHANGED <<calls, job, options, cnt, i, net, sizes>>

(* MPI rejects a negative count, and MPI_CHECK exits.                      *)
BadCount(r) ==
    /\ pc[r] \in {"send", "recv"} /\ cnt[r] < 0
    /\ Goto(r, "aborted")
    /\ UNCHANGED <<calls, job, options, cnt, i, net, clock, timed, sizes>>

(* A call of the body returns: the other one follows, or the next round.   *)
AfterCall(r, call) ==
    IF call = Body(r)[1]
    THEN Goto(r, Body(r)[2]) /\ UNCHANGED i
    ELSE Goto(r, "loop") /\ i' = [i EXCEPT ![r] = @ + 1]

Send(r) ==
    /\ pc[r] = "send" /\ cnt[r] >= 0
    /\ net' = [net EXCEPT ![Peer(r)] = Append(@, <<cnt[r], i[r]>>)]
    /\ Goto(r, "sending")
    /\ UNCHANGED <<calls, job, options, cnt, i, clock, timed, sizes>>

(* MPI_Send returns: at any time if MPI buffers the message ...            *)
SendReturns(r) ==
    /\ pc[r] = "sending"
    /\ AfterCall(r, "send")
    /\ UNCHANGED <<calls, job, options, cnt, net, clock, timed, sizes>>

(* ... at the latest when the peer has received it.                        *)
Received(r) == net[Peer(r)] = <<>>

Recv(r) ==
    /\ pc[r] = "recv" /\ cnt[r] >= 0
    /\ net[r] # <<>>
    /\ net' = [net EXCEPT ![r] = Tail(@)]
    /\ timed' = IF r = Sender /\ clock = "running" THEN timed + 1 ELSE timed
    /\ AfterCall(r, "recv")
    /\ UNCHANGED <<calls, job, options, cnt, clock, sizes>>

Double(n) == IF n # 0 THEN n * 2 ELSE 1

(* The loop is left; rank 0 stops its clock and prints the latency.        *)
EndSize(r) ==
    /\ pc[r] = "loop" /\ ~MoreIterations(r)
    /\ IF r = Sender
       THEN clock' = "stopped" /\ sizes' = Append(sizes, cnt[r])
       ELSE UNCHANGED <<clock, sizes>>
    /\ cnt' = [cnt EXCEPT ![r] = Double(@)]
    /\ Goto(r, "head")
    /\ UNCHANGED <<calls, job, options, i, net, timed>>

Finish(r) ==
    /\ pc[r] = "head" /\ ~MoreSizes(r)
    /\ Goto(r, "done")
    /\ UNCHANGED <<calls, job, options, cnt, i, net, clock, timed, sizes>>

-----------------------------------------------------------------------------
LocalStep(r) ==
    \/ LeaveEarly(r) \/ OutOfMemory(r) \/ Setup(r) \/ PassStartBarrier(r)
    \/ NextSize(r) \/ PassSizeBarrier(r) \/ Iterate(r) \/ BadCount(r)
    \/ Send(r) \/ Recv(r) \/ EndSize(r) \/ Finish(r)

Launcher(r) ==
    Kill(r) /\ UNCHANGED <<job, options, cnt, i, net, clock, timed, sizes>>

Terminating == AllStopped /\ UNCHANGED vars

Next ==
    \/ \E r \in Rank : LocalStep(r) \/ SendReturns(r) \/ Launcher(r)
    \/ Terminating

Spec == Init /\ [][Next]_vars

(* MPI promises that a send returns only once its message is received.     *)
FairSpec ==
    /\ Spec
    /\ \A r \in Rank : /\ WF_vars(LocalStep(r)) /\ WF_vars(Launcher(r))
                       /\ WF_vars(Received(r) /\ SendReturns(r))

-----------------------------------------------------------------------------
Label == {"start", "start_barrier", "head", "size_barrier", "loop", "send", "sending",
          "recv"} \cup Stopped

(* Types, and: the count fits in the buffers wherever it is sent from.     *)
TypeOK ==
    /\ pc \in [Rank -> Label]
    /\ calls \in [Rank -> Seq(Collective)]
    /\ argv \in Argvs /\ world \subseteq Rank
    /\ options \in [Rank -> Options]
    /\ cnt \in [Rank -> Int] /\ i \in [Rank -> Nat]
    /\ net \in [Rank -> Seq(Nat \X Nat)]
    /\ clock \in {"off", "running", "stopped"} /\ timed \in Nat
    /\ sizes \in Seq(Nat)
    /\ \A r \in Rank : pc[r] \in {"send", "sending", "recv"} => cnt[r] <= MaxNumElems

(* The iteration rank r receives its next message in.                      *)
NextReceive(r) ==
    CASE pc[r] = "size_barrier"                         -> 0
      [] pc[r] = "sending" /\ Body(r)[2] = "send"       -> i[r] + 1
      [] OTHER                                          -> i[r]

(* At most one message is on its way, and it is meant for the count and    *)
(* the iteration its receiver is in (or is about to enter): no message is  *)
(* left over for the next size, and none is longer than its buffer.        *)
OneInFlight ==
    /\ \A r \in Rank : net[r] # <<>> =>
           /\ Len(net[r]) = 1 /\ net[Peer(r)] = <<>>
           /\ pc[r] \notin Stopped =>
                 /\ net[r][1][1] = cnt[r] /\ pc[r] # "head"
                 /\ net[r][1][2] = NextReceive(r)

(* The round trips the arguments a ask for: the last -i that is no         *)
(* operand's, or else the default for small and for large messages.        *)
GivenOr(a, default) ==
    LET given == {k \in 1 .. Len(a) : a[k].opt = "i" /\ LookedAt(a, k)}
    IN  IF given # {} THEN a[CHOOSE k \in given : \A j \in given : j <= k].value ELSE default
Asked(a, n) == GivenOr(a, IF n > LargeElems THEN LatLoopLarge ELSE LatLoopSmall)

(* The latency printed for a count is the time of as many round trips as   *)
(* it is divided by, as many as the command line asks for, and the peer has*)
(* answered them all.                                                      *)
MeasuredRoundTrips ==
    [][sizes' # sizes => /\ timed = options[Sender].iterations
                         /\ timed = Asked(argv, cnt[Sender])
                         /\ \A r \in Rank : net[r] = <<>>]_vars

(* What is printed when the test is over: every count from the minimum to  *)
(* MAX_NUM_ELEMS by doubling, each once and in order.                      *)
Power2[k \in 0 .. MaxNumElems] == IF k = 0 THEN 1 ELSE 2 * Power2[k-1]
EverySize ==
    pc[Sender] = "done" /\ calls[Sender] # <<>> =>
        LET first == ToInt(ProcessOptions(argv).options.min_message_size)
            base  == IF first = 0 THEN 1 ELSE first
        IN  /\ {sizes[k] : k \in DOMAIN sizes} =
                   {n \in first .. MaxNumElems : n = first \/
                       \E k \in 0 .. MaxNumElems : n = Power2[k] * base}
            /\ \A j, k \in DOMAIN sizes : j < k => sizes[j] < sizes[k]

(* Whatever MPI_Send does, every rank stops: neither waits for a message   *)
(* or in a barrier for ever.                                               *)
Termination == <>AllStopped

(* What the help text says of -m: MAX sets the maximum message size, and   *)
(* no longer message is sent.                                              *)
RespectsMax ==
    \A k \in DOMAIN sizes :
        sizes[k] * Extent <= ProcessOptions(argv).options.max_message_size
=============================================================================
