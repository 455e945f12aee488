----------------------------- MODULE OsuOptions -----------------------------
(***************************************************************************)
(* process_options of osu_util.c, for a point-to-point latency test built  *)
(* without accelerator support: from left to right over the arguments, up  *)
(* to the first one it does not take.                                      *)
(*                                                                         *)
(* An argument is a record: opt is the letter of the option ("bad" for one *)
(* that getopt rejects, "operand" for what is no option), value its number *)
(* or word; -m has a form, which of [MIN:]MAX, MIN: and :MAX it is written *)
(* as, and the numbers min and max.                                        *)
(***************************************************************************)
EXTENDS Integers, Sequences

CONSTANTS MaxMessageSize,                       \* MAX_MESSAGE_SIZE, in bytes
          LatLoopSmall, LatSkipSmall,           \* LAT_LOOP_SMALL, ...
          LatLoopLarge, LatSkipLarge,
          MinThreads, MaxThreads                \* MIN_NUM_THREADS, ...

ASSUME OptionsAssumption ==
    /\ MaxMessageSize \in Nat
    /\ LatLoopSmall \in Nat \ {0} /\ LatLoopLarge \in Nat \ {0}
    /\ LatSkipSmall \in Nat /\ LatSkipLarge \in Nat
    /\ MinThreads \in Nat /\ MaxThreads \in Nat

Forms == {"MAX", "MIN:", ":MAX", "MIN:MAX", "malformed"}
Argument ==
    [opt : {"h", "v", "f", "i", "x", "t", "R", "W", "a", "V", "p", "M", "d", "r", "bad", "operand"},
     value : Int]
    \cup [opt : {"w", "s"}, value : STRING]
    \cup [opt : {"m"}, form : Forms, min : Int, max : Int]

(* The fields of options a latency test reads, and max_message_size.       *)
Options == [min_message_size : Nat, max_message_size : Nat,
            iterations : Nat, iterations_large : Nat, skip : Nat, skip_large : Nat]

Defaults == [min_message_size |-> 0, max_message_size |-> MaxMessageSize,
             iterations |-> LatLoopSmall, iterations_large |-> LatLoopLarge,
             skip |-> LatSkipSmall, skip_large |-> LatSkipLarge]

Accept(o) == [ret |-> "okay", options |-> o]
Reject(o) == [ret |-> "bad_usage", options |-> o]

-----------------------------------------------------------------------------
SetMin(o, value) ==
    IF value <= 0 THEN Reject(o) ELSE Accept([o EXCEPT !.min_message_size = value])

SetMax(o, value) ==
    IF value < 0 THEN Reject(o) ELSE Accept([o EXCEPT !.max_message_size = value])

(* Given both, the verdict on the minimum is overwritten by that on the    *)
(* maximum: a minimum that was not taken is not reported.                  *)
SetMessageSize(o, a) ==
    CASE a.form \in {"MAX", ":MAX"} -> SetMax(o, a.max)
      [] a.form = "MIN:"            -> SetMin(o, a.min)
      [] a.form = "MIN:MAX"         -> SetMax(SetMin(o, a.min).options, a.max)
      [] OTHER                      -> Reject(o)

SetIterations(o, value) ==
    IF value < 1 THEN Reject(o)
    ELSE Accept([o EXCEPT !.iterations = value, !.iterations_large = value])

SetWarmup(o, value) ==
    IF value < 0 THEN Reject(o)
    ELSE Accept([o EXCEPT !.skip = value, !.skip_large = value])

(* optstring is that of the benchmark, but long_options are the same for   *)
(* all: a latency test takes the options of the other benchmarks by their  *)
(* long names, and refuses some of their values, though it reads none.     *)
WinOptions == {"create", "allocate", "dynamic"}
SyncOptions == {"lock", "pscw", "fence", "flush", "flush_local", "lock_all"}

Valid(a) ==
    CASE a.opt = "t"              -> a.value \in MinThreads .. MaxThreads - 1
      [] a.opt = "R"              -> a.value \in {0, 1}
      [] a.opt \in {"W", "a"}     -> a.value >= 1
      [] a.opt = "w"              -> a.value \in WinOptions
      [] a.opt = "s"              -> a.value \in SyncOptions
      [] OTHER                    -> a.opt \in {"f", "V", "p", "M"}

ProcessOption(o, a) ==
    CASE a.opt = "h" -> [ret |-> "help_message", options |-> o]
      [] a.opt = "v" -> [ret |-> "version_message", options |-> o]
      [] a.opt = "m" -> SetMessageSize(o, a)
      [] a.opt = "i" -> SetIterations(o, a.value)
      [] a.opt = "x" -> SetWarmup(o, a.value)
      [] OTHER       -> IF Valid(a) THEN Accept(o) ELSE Reject(o)

(* The + of optstring: what follows the first operand is not looked at.    *)
LookedAt(argv, k) == \A j \in 1 .. k : argv[j].opt # "operand"

(* after[k]: what the first k arguments have made of the options.          *)
ProcessOptions(argv) ==
    LET after[k \in 0 .. Len(argv)] ==
            IF k = 0 THEN Accept(Defaults)
            ELSE IF after[k-1].ret = "okay" /\ LookedAt(argv, k)
                 THEN ProcessOption(after[k-1].options, argv[k])
                 ELSE after[k-1]
    IN  after[Len(argv)]
=============================================================================
