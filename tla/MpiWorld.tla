------------------------------ MODULE MpiWorld ------------------------------
(***************************************************************************)
(* The MPI library and its launcher, as the programs under src/src use     *)
(* them (external code: only the promises the callers may rely on).        *)
(*                                                                         *)
(* Every program is a set of ranks that call MPI_Bcast, MPI_Gather and     *)
(* MPI_Barrier on MPI_COMM_WORLD with the same root.  MPI matches the k-th *)
(* collective of one rank with the k-th collective of every other rank, so *)
(* calls[r] is the history of collectives rank r has entered, and whether  *)
(* a call may return depends on those histories alone.                     *)
(*                                                                         *)
(* The weakest semantics the standard allows is modelled: the root of a    *)
(* Bcast and the leaves of a Gather may return before anyone else arrives. *)
(* An implementation that synchronises more has a subset of the behaviours.*)
(***************************************************************************)
EXTENDS Naturals, Sequences

CONSTANTS Rank,     \* the ranks of MPI_COMM_WORLD
          Sender    \* the root of every collective (int sender = 0)

ASSUME SenderAssumption == Sender \in Rank

VARIABLES pc,       \* pc[r]: where rank r is in its main()
          calls     \* calls[r]: the collectives rank r has entered, in order

Receiver == Rank \ {Sender}

Failed == {"crashed", "aborted"}            \* a signal, or a failed assert()
Stopped == Failed \cup {"killed", "done"}   \* the rank takes no more steps

Collective == {"bcast", "gather", "barrier"}

-----------------------------------------------------------------------------
(* Rank r enters one more collective.                                      *)
Enter(r, op) == calls' = [calls EXCEPT ![r] = Append(@, op)]

Goto(r, label) == pc' = [pc EXCEPT ![r] = label]

(* Rank q has entered the collective that rank r is blocked in.  Two ranks *)
(* that disagree on the operation never match: both hang.                  *)
Joined(q, r) ==
    LET k == Len(calls[r])
    IN  /\ k <= Len(calls[q])
        /\ calls[q][k] = calls[r][k]

(* MPI_Bcast(.., sender, ..): a leaf returns once the root has sent.       *)
BcastReturns(r) == Joined(Sender, r)

(* MPI_Gather(.., sender, ..): the root returns once every rank has sent.  *)
GatherReturns(r) == r = Sender => \A q \in Rank : Joined(q, r)

(* MPI_Barrier: nobody returns before everybody has entered.               *)
BarrierReturns(r) == \A q \in Rank : Joined(q, r)

(* The launcher kills the surviving ranks of a job once one has died.      *)
Kill(r) ==
    /\ \E q \in Rank : pc[q] \in Failed
    /\ pc[r] \notin Stopped
    /\ Goto(r, "killed")
    /\ UNCHANGED calls

AllStopped == \A r \in Rank : pc[r] \in Stopped

-----------------------------------------------------------------------------
(* All ranks call the same collectives in the same order: no two of them   *)
(* can be blocked in calls that never match.                               *)
CallsAgree ==
    \A q, r \in Rank : \A k \in 1 .. Len(calls[r]) :
        k <= Len(calls[q]) => calls[q][k] = calls[r][k]
=============================================================================
