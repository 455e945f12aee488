----------------------------- MODULE BenchLoop -----------------------------
(***************************************************************************)
(* The measuring loop every benchmark program is built around: SKIP_ITER   *)
(* warm-up rounds and NUM_ITER timed ones, the sender's clock running over *)
(* the timed ones only.                                                    *)
(***************************************************************************)
EXTENDS MpiWorld

CONSTANTS NumIter,      \* NUM_ITER, the timed rounds
          SkipIter      \* SKIP_ITER, the warm-up rounds

ASSUME LoopAssumption == NumIter \in Nat \ {0} /\ SkipIter \in Nat

VARIABLES iter,     \* iter[r]: the loop counter of rank r
          clock     \* the sender's start/end: "off", "running", "stopped"

Iters == NumIter + SkipIter

EarlyStart(r) == iter[r] = 0                                      \* mutant
StartsClock(r) == iter[r] = SkipIter

SkewedLoop(r) == iter[r] < Iters - (IF r = Sender THEN 0 ELSE 1)  \* mutant
OneMoreRound(r) == iter[r] <= Iters                               \* mutant
MoreRounds(r) == iter[r] < Iters

(* The head of the loop, when another round follows ...                    *)
BeginRound(r) ==
    /\ MoreRounds(r)
    /\ clock' = IF r = Sender /\ StartsClock(r) THEN "running" ELSE clock

(* ... and when the loop is left.                                          *)
LeaveLoop(r) ==
    /\ ~MoreRounds(r)
    /\ clock' = IF r = Sender THEN "stopped" ELSE clock
=============================================================================
