-------------------------- MODULE OsuLatencyProofs --------------------------
(***************************************************************************)
(* Proofs about OsuLatency, for any iteration counts, minimum, maximum and *)
(* threshold of large messages.  The two ranks are in step because of what *)
(* each size begins with, a barrier, and what each iteration exchanges, one*)
(* message either way: Together says how far apart they can be, as long as *)
(* both are alive, and Nets what is on its way, even to or from a dead one.*)
(*                                                                         *)
(* process_options is a recursion over the arguments: ParserWorks, by      *)
(* induction over them, says what main needs of it.                        *)
(***************************************************************************)
EXTENDS OsuLatency, MpiProofs

Other == Peer(Sender)

(* A job of two: every rank is the sender or its peer.                     *)
LEMMA Pair ==
    /\ Other \in Rank /\ Other # Sender /\ Rank = {Sender, Other}
    /\ Peer(Sender) = Other /\ Peer(Other) = Sender
<1> USE SenderAssumption
<1>1. IsFiniteSet(Rank) /\ Cardinality(Rank) = 2
  BY LatencyAssumption
<1>2. IsFiniteSet(Rank \ {Sender}) /\ Cardinality(Rank \ {Sender}) = 1
  <2>1. /\ IsFiniteSet(Rank \ {Sender})
        /\ Cardinality(Rank \ {Sender}) = IF Sender \in Rank THEN Cardinality(Rank) - 1
                                                              ELSE Cardinality(Rank)
    BY <1>1, FS_RemoveElement, Zenon
  <2> QED BY <1>1, <2>1, SMT
<1>3. PICK q : Rank \ {Sender} = {q}
  BY <1>2, FS_Singleton, Zenon
<1>4. q \in Rank /\ q # Sender /\ Rank = {Sender, q}
  BY <1>3
<1>5. Other = q
  BY <1>4 DEF Other, Peer
<1>6. Peer(q) = Sender
  BY <1>4 DEF Peer
<1> QED BY <1>4, <1>5, <1>6 DEF Other

-----------------------------------------------------------------------------
(* One argument of process_options, and all of the first n.                *)
Step(a, k, s) ==
    IF s.ret = "okay" /\ LookedAt(a, k) THEN ProcessOption(s.options, a[k]) ELSE s
Parsed(a, n, f) == f = [k \in 0 .. n |-> IF k = 0 THEN Accept(Defaults) ELSE Step(a, k, f[k-1])]

(* The recursion has a solution: each argument adds to that of the ones    *)
(* before it.                                                              *)
LEMMA ParsedExists ==
    ASSUME NEW a, NEW n \in Nat
    PROVE  \E f : Parsed(a, n, f)
<1> DEFINE S == {m \in Nat : \E f : Parsed(a, m, f)}
<1>1. 0 \in S
  <2> DEFINE f == [k \in 0 .. 0 |-> Accept(Defaults)]
  <2>1. \A k \in 0 .. 0 : k = 0
    BY SMT
  <2>2. f = [k \in 0 .. 0 |-> IF k = 0 THEN Accept(Defaults) ELSE Step(a, k, f[k-1])]
    BY <2>1
  <2>3. Parsed(a, 0, f)
    BY <2>2 DEF Parsed
  <2> QED BY <2>3
<1>2. ASSUME NEW m \in S PROVE m + 1 \in S
  <2>1. PICK f : Parsed(a, m, f)
    OBVIOUS
  <2> DEFINE g == [k \in 0 .. m + 1 |-> IF k = m + 1 THEN Step(a, k, f[m]) ELSE f[k]]
  <2>2. /\ m \in Nat /\ m + 1 \in Nat /\ m + 1 # 0 /\ (m + 1) - 1 = m
        /\ \A k \in 0 .. m + 1 : k # m + 1 => k \in 0 .. m
        /\ \A k \in 0 .. m : k # m + 1 /\ k \in 0 .. m + 1 /\ (k # 0 => k - 1 \in 0 .. m)
        /\ m \in 0 .. m
    BY SMT
  <2>3. \A k \in 0 .. m : f[k] = IF k = 0 THEN Accept(Defaults) ELSE Step(a, k, f[k-1])
    BY <2>1 DEF Parsed
  <2>4. \A k \in 0 .. m : g[k] = f[k]
    BY <2>2
  <2>5. ASSUME NEW k \in 0 .. m + 1
        PROVE  (IF k = m + 1 THEN Step(a, k, f[m]) ELSE f[k]) =
               IF k = 0 THEN Accept(Defaults) ELSE Step(a, k, g[k-1])
    <3> HIDE DEF g
    <3>1. CASE k = m + 1
      BY <2>2, <2>4, <3>1
    <3>2. CASE k # m + 1
      BY <2>2, <2>3, <2>4, <3>2
    <3> QED BY <3>1, <3>2
  <2>6. g = [k \in 0 .. m + 1 |-> IF k = 0 THEN Accept(Defaults) ELSE Step(a, k, g[k-1])]
    BY <2>5
  <2>7. Parsed(a, m + 1, g)
    BY <2>6 DEF Parsed
  <2> QED BY <2>2, <2>7
<1>3. S = Nat
  <2> HIDE DEF S
  <2>1. S \in SUBSET Nat
    BY DEF S
  <2> QED BY <1>1, <1>2, <2>1, Induction
<1> QED BY <1>3

(* What process_options returns is what all the arguments make of it.      *)
LEMMA ProcessOptionsIs ==
    ASSUME NEW a \in Seq(Argument)
    PROVE  \E f : Parsed(a, Len(a), f) /\ ProcessOptions(a) = f[Len(a)]
<1> DEFINE f == CHOOSE g : Parsed(a, Len(a), g)
<1>1. Len(a) \in Nat
  OBVIOUS
<1>2. Parsed(a, Len(a), f)
  BY <1>1, ParsedExists
<1>3. ProcessOptions(a) = f[Len(a)]
  BY Zenon DEF ProcessOptions, Parsed, Step
<1> QED BY <1>2, <1>3

(* The last -i of the first k arguments, and its value or else d.          *)
Given(a, k) == {j \in 1 .. k : a[j].opt = "i" /\ LookedAt(a, j)}
LastOf(a, given, d) ==
    IF given # {} THEN a[CHOOSE j \in given : \A l \in given : l <= j].value ELSE d
Latest(a, k, d) == LastOf(a, Given(a, k), d)

(* One more argument is the last -i, or leaves it as it was.               *)
LEMMA LatestStep ==
    ASSUME NEW a, NEW k \in Nat, NEW d
    PROVE  /\ Given(a, 0) = {} /\ Latest(a, 0, d) = d
           /\ a[k+1].opt = "i" /\ LookedAt(a, k + 1) => Latest(a, k + 1, d) = a[k+1].value
           /\ ~(a[k+1].opt = "i" /\ LookedAt(a, k + 1)) => Latest(a, k + 1, d) = Latest(a, k, d)
<1>1. Given(a, 0) = {} /\ Latest(a, 0, d) = d
  <2>1. 1 .. 0 = {}
    BY SMT
  <2> QED BY <2>1 DEF Given, Latest, LastOf
<1>2. 1 .. k + 1 = (1 .. k) \cup {k + 1} /\ \A j \in 1 .. k : j <= k + 1 /\ ~(k + 1 <= j)
  BY SMT
<1>3. ASSUME a[k+1].opt = "i", LookedAt(a, k + 1) PROVE Latest(a, k + 1, d) = a[k+1].value
  <2>1. Given(a, k + 1) = Given(a, k) \cup {k + 1} /\ Given(a, k) \subseteq 1 .. k
    BY <1>2, <1>3 DEF Given
  <2>2. k + 1 \in Given(a, k + 1) /\ \A l \in Given(a, k + 1) : l <= k + 1
    BY <1>2, <2>1, SMT
  <2>3. \A j \in Given(a, k + 1) : (\A l \in Given(a, k + 1) : l <= j) => j = k + 1
    BY <1>2, <2>1, <2>2
  <2>4. (CHOOSE j \in Given(a, k + 1) : \A l \in Given(a, k + 1) : l <= j) = k + 1
    BY <2>2, <2>3
  <2> QED BY <2>2, <2>4 DEF Latest, LastOf
<1>4. ASSUME ~(a[k+1].opt = "i" /\ LookedAt(a, k + 1)) PROVE Latest(a, k + 1, d) = Latest(a, k, d)
  <2>1. Given(a, k + 1) = Given(a, k)
    BY <1>2, <1>4 DEF Given
  <2> QED BY <2>1 DEF Latest
<1> QED BY <1>1, <1>3, <1>4

(* What main relies on of the options so far.                              *)
Taken(a, k, s) ==
    /\ s.options \in Options
    /\ s.options.iterations > 0 /\ s.options.iterations_large > 0
    /\ s.ret = "okay" => /\ s.options.iterations = Latest(a, k, LatLoopSmall)
                         /\ s.options.iterations_large = Latest(a, k, LatLoopLarge)

(* An option changes the counts only if it is -i, and then to its value.   *)
LEMMA OptionIs ==
    ASSUME NEW o \in Options, NEW b \in Argument, o.iterations > 0, o.iterations_large > 0,
           NEW s, s = ProcessOption(o, b)
    PROVE  /\ s.options \in Options
           /\ s.options.iterations > 0 /\ s.options.iterations_large > 0
           /\ s.ret = "okay" =>
                 /\ b.opt = "i" => s.options.iterations = b.value /\ s.options.iterations_large = b.value
                 /\ b.opt # "i" => /\ s.options.iterations = o.iterations
                                   /\ s.options.iterations_large = o.iterations_large
<1>1. CASE b.opt \in {"h", "v"}
  <2>1. s.options = o /\ s.ret \in {"help_message", "version_message"} /\ s = [ret |-> s.ret, options |-> o]
    BY <1>1 DEF ProcessOption
  <2> QED BY <1>1, <2>1
<1>2. CASE b.opt = "i"
  <2>1. b.value \in Int
    BY <1>2 DEF Argument
  <2>2. s = IF b.value < 1 THEN [ret |-> "bad_usage", options |-> o]
            ELSE [ret |-> "okay", options |-> [o EXCEPT !.iterations = b.value, !.iterations_large = b.value]]
    BY <1>2 DEF ProcessOption, SetIterations, Accept, Reject
  <2> DEFINE m == [o EXCEPT !.iterations = b.value]
             p == [m EXCEPT !.iterations_large = b.value]
  <2>3. [o EXCEPT !.iterations = b.value, !.iterations_large = b.value] = p
    BY Zenon
  <2>4. ASSUME ~(b.value < 1)
        PROVE  /\ m \in Options /\ m.iterations = b.value
               /\ m.iterations_large = o.iterations_large
    <3>1. b.value \in Nat
      BY <2>1, <2>4, SMT
    <3> QED BY <3>1, SMT DEF Options
  <2> HIDE DEF m
  <2>5. ASSUME ~(b.value < 1)
        PROVE  /\ p \in Options /\ p.iterations_large = b.value
               /\ p.iterations = m.iterations
    <3>1. b.value \in Nat
      BY <2>1, <2>5, SMT
    <3> QED BY <2>4, <2>5, <3>1, SMT DEF Options
  <2> HIDE DEF p
  <2>6. CASE b.value < 1
    BY <1>2, <2>2, <2>6
  <2>7. CASE ~(b.value < 1)
    <3>1. s = [ret |-> "okay", options |-> p]
      BY <2>2, <2>3, <2>7
    <3>2. s.options = p
      BY <3>1
    <3>3. b.value > 0
      BY <2>1, <2>7, SMT
    <3> QED BY <1>2, <2>4, <2>5, <2>7, <3>2, <3>3
  <2> QED BY <2>6, <2>7
<1>3. CASE b.opt = "x"
  <2>1. b.value \in Int
    BY <1>3 DEF Argument
  <2>2. s = IF b.value < 0 THEN [ret |-> "bad_usage", options |-> o]
            ELSE [ret |-> "okay", options |-> [o EXCEPT !.skip = b.value, !.skip_large = b.value]]
    BY <1>3 DEF ProcessOption, SetWarmup, Accept, Reject
  <2> DEFINE m == [o EXCEPT !.skip = b.value]
             p == [m EXCEPT !.skip_large = b.value]
  <2>3. [o EXCEPT !.skip = b.value, !.skip_large = b.value] = p
    BY Zenon
  <2>4. ASSUME ~(b.value < 0)
        PROVE  /\ m \in Options /\ m.skip = b.value
               /\ m.iterations_large = o.iterations_large /\ m.iterations = o.iterations
    <3>1. b.value \in Nat
      BY <2>1, <2>4, SMT
    <3> QED BY <3>1, SMT DEF Options
  <2> HIDE DEF m
  <2>5. ASSUME ~(b.value < 0)
        PROVE  /\ p \in Options /\ p.skip_large = b.value
               /\ p.iterations = m.iterations /\ p.iterations_large = m.iterations_large
    <3>1. b.value \in Nat
      BY <2>1, <2>5, SMT
    <3> QED BY <2>4, <2>5, <3>1, SMT DEF Options
  <2> HIDE DEF p
  <2>6. CASE b.value < 0
    BY <1>3, <2>2, <2>6
  <2>7. CASE ~(b.value < 0)
    <3>1. s = [ret |-> "okay", options |-> p]
      BY <2>2, <2>3, <2>7
    <3>2. s.options = p
      BY <3>1
    <3>3. TRUE
      BY <2>1, <2>7, SMT
    <3> QED BY <1>3, <2>4, <2>5, <2>7, <3>2, <3>3
  <2> QED BY <2>6, <2>7
<1>4. CASE b.opt = "m"
  <2>1. b.min \in Int /\ b.max \in Int
    BY <1>4 DEF Argument
  <2>2. ASSUME NEW p \in Options, NEW n \in Int
        PROVE  /\ SetMin(p, n).options \in Options
               /\ SetMax(p, n).options \in Options
               /\ SetMin(p, n).options.iterations = p.iterations
               /\ SetMin(p, n).options.iterations_large = p.iterations_large
               /\ SetMax(p, n).options.iterations = p.iterations
               /\ SetMax(p, n).options.iterations_large = p.iterations_large
    BY SMT DEF SetMin, SetMax, Accept, Reject, Options
  <2>3. s \in {SetMax(o, b.max), SetMin(o, b.min), SetMax(SetMin(o, b.min).options, b.max), Reject(o)}
    BY <1>4 DEF ProcessOption, SetMessageSize
  <2>4. Reject(o).options \in Options /\ Reject(o).options = o
    BY DEF Reject
  <2> QED BY <1>4, <2>1, <2>2, <2>3, <2>4
<1>5. CASE b.opt \notin {"h", "v", "i", "x", "m"}
  <2>1. s \in {Accept(o), Reject(o)}
    BY <1>5 DEF ProcessOption
  <2>2. \A t \in {Accept(o), Reject(o)} : t.options \in Options /\ t.options = o
    BY DEF Accept, Reject
  <2> QED BY <1>5, <2>1, <2>2
<1> QED BY <1>1, <1>2, <1>3, <1>4, <1>5

(* ... and so do all of them.                                              *)
LEMMA TakenAll ==
    ASSUME NEW a \in Seq(Argument), NEW f, Parsed(a, Len(a), f)
    PROVE  Taken(a, Len(a), f[Len(a)])
<1> DEFINE n == Len(a)
           S == {k \in Nat : k <= n => Taken(a, k, f[k])}
<1>1. n \in Nat /\ \A k \in 1 .. n : a[k] \in Argument
  OBVIOUS
<1>2. \A k \in 0 .. n : f[k] = IF k = 0 THEN Accept(Defaults) ELSE Step(a, k, f[k-1])
  BY DEF Parsed
<1>3. 0 \in S
  <2>1. f[0] = Accept(Defaults)
    BY <1>1, <1>2, SMT
  <2>2. Defaults \in Options /\ Defaults.iterations = LatLoopSmall /\ Defaults.iterations_large = LatLoopLarge
        /\ LatLoopSmall > 0 /\ LatLoopLarge > 0
    BY OptionsAssumption, SMT DEF Defaults, Options
  <2>3. /\ f[0].options \in Options /\ f[0].options = Defaults
    BY <2>1, <2>2 DEF Accept
  <2>4. Latest(a, 0, LatLoopSmall) = LatLoopSmall /\ Latest(a, 0, LatLoopLarge) = LatLoopLarge
    BY LatestStep
  <2> QED BY <2>2, <2>3, <2>4 DEF Taken
<1>4. ASSUME NEW k \in S PROVE k + 1 \in S
  <2> SUFFICES ASSUME k + 1 <= n PROVE Taken(a, k + 1, f[k+1])
    BY SMT
  <2> DEFINE s == f[k]
             t == f[k+1]
             b == a[k+1]
  <2>1. Taken(a, k, s) /\ k \in Nat /\ k + 1 \in 1 .. n /\ k + 1 \in 0 .. n /\ k + 1 # 0 /\ (k + 1) - 1 = k
    BY <1>1, SMT
  <2>2. /\ t = IF s.ret = "okay" /\ LookedAt(a, k + 1) THEN ProcessOption(s.options, b) ELSE s
        /\ b \in Argument
    BY <1>1, <1>2, <2>1 DEF Step
  <2>3. \A d : /\ b.opt = "i" /\ LookedAt(a, k + 1) => Latest(a, k + 1, d) = b.value
               /\ ~(b.opt = "i" /\ LookedAt(a, k + 1)) => Latest(a, k + 1, d) = Latest(a, k, d)
    BY <2>1, LatestStep
  <2> HIDE DEF s, t, b
  <2>4. CASE s.ret = "okay" /\ LookedAt(a, k + 1)
    <3> DEFINE o == s.options
    <3>1. t = ProcessOption(o, b) /\ o \in Options /\ o.iterations > 0 /\ o.iterations_large > 0
          /\ o.iterations = Latest(a, k, LatLoopSmall) /\ o.iterations_large = Latest(a, k, LatLoopLarge)
      BY <2>1, <2>2, <2>4 DEF Taken
    <3> HIDE DEF o
    <3>2. /\ t.options \in Options
          /\ t.options.iterations > 0 /\ t.options.iterations_large > 0
          /\ t.ret = "okay" =>
                /\ b.opt = "i" => t.options.iterations = b.value /\ t.options.iterations_large = b.value
                /\ b.opt # "i" => /\ t.options.iterations = o.iterations
                                  /\ t.options.iterations_large = o.iterations_large
      BY <2>2, <3>1, OptionIs
    <3> QED BY <2>3, <2>4, <3>1, <3>2 DEF Taken, t
  <2>5. CASE ~(s.ret = "okay" /\ LookedAt(a, k + 1))
    <3>1. t = s
      BY <2>2, <2>5
    <3>2. s.ret = "okay" => ~LookedAt(a, k + 1)
      BY <2>5
    <3> QED BY <2>1, <2>3, <3>1, <3>2 DEF Taken, t
  <2> QED BY <2>4, <2>5
<1>5. S = Nat
  <2> HIDE DEF S
  <2>1. S \in SUBSET Nat
    BY DEF S
  <2> QED BY <1>3, <1>4, <2>1, Induction
<1>6. n \in S
  BY <1>1, <1>5
<1> QED BY <1>1, <1>6, SMT

(* What main relies on process_options for: at least one iteration of      *)
(* either kind, and as many as are asked for.                              *)
Honours(o, a) ==
    /\ o \in Options /\ o.iterations > 0 /\ o.iterations_large > 0
    /\ o.iterations = Asked(a, LargeElems) /\ o.iterations_large = Asked(a, LargeElems + 1)

(* The parser honours every command line it accepts.                       *)
THEOREM ParserWorks ==
    \A a \in Argvs : ProcessOptions(a).ret = "okay" => Honours(ProcessOptions(a).options, a)
<1> SUFFICES ASSUME NEW a \in Argvs, ProcessOptions(a).ret = "okay"
             PROVE  Honours(ProcessOptions(a).options, a)
  OBVIOUS
<1>1. a \in Seq(Argument)
  BY LatencyAssumption
<1>2. Taken(a, Len(a), ProcessOptions(a))
  BY <1>1, ProcessOptionsIs, TakenAll
<1>3. \A d : Latest(a, Len(a), d) = GivenOr(a, d)
  BY Zenon DEF Latest, LastOf, Given, GivenOr
<1>4. Asked(a, LargeElems) = GivenOr(a, LatLoopSmall) /\ Asked(a, LargeElems + 1) = GivenOr(a, LatLoopLarge)
  <2>1. ~(LargeElems > LargeElems) /\ LargeElems + 1 > LargeElems
    BY LatencyAssumption, SMT
  <2> QED BY <2>1 DEF Asked
<1> QED BY <1>2, <1>3, <1>4 DEF Taken, Honours

-----------------------------------------------------------------------------
(* What the arguments ask for, and what is left of it for large messages.  *)
Base == ProcessOptions(argv).options
Switched == [Base EXCEPT !.iterations = Base.iterations_large, !.skip = Base.skip_large]
First == ToInt(Base.min_message_size)
Limit(r) == options[r].iterations + options[r].skip

InSize == {"size_barrier", "loop", "send", "sending", "recv"}
Calling == {"send", "sending", "recv"}

(* A rank by itself.                                                       *)
Own(r) ==
    /\ pc[r] = "start" => Pos(r) = 0
    /\ pc[r] = "start_barrier" => Pos(r) = 1 /\ options[r] = Base
    /\ pc[r] \in {"start_barrier", "head"} \cup InSize => ProcessOptions(argv).ret = "okay"
    /\ pc[r] = "head" =>
           /\ Pos(r) >= 1 /\ (Pos(r) = 1 => cnt[r] = First)
           /\ options[r] = Base \/ (options[r] = Switched /\ cnt[r] > LargeElems)
    /\ pc[r] \in InSize =>
           /\ Pos(r) >= 2 /\ (Pos(r) = 2 => cnt[r] = First)
           /\ options[r] = IF cnt[r] > LargeElems THEN Switched ELSE Base
           /\ cnt[r] <= MaxNumElems
    /\ pc[r] \in {"loop"} \cup Calling => i[r] <= Limit(r) /\ (i[r] > 0 => cnt[r] >= 0)
    /\ pc[r] \in Calling => i[r] < Limit(r)
    /\ pc[r] = "sending" => cnt[r] >= 0

(* The clock of the sender.                                                *)
Timing ==
    /\ pc[Sender] = "loop" /\ i[Sender] > options[Sender].skip =>
           clock = "running" /\ timed = i[Sender] - options[Sender].skip
    /\ pc[Sender] \in Calling /\ i[Sender] >= options[Sender].skip =>
           clock = "running" /\ timed = i[Sender] - options[Sender].skip

-----------------------------------------------------------------------------
Empty(r) == net[r] = <<>>
Quiet == Empty(Sender) /\ Empty(Other)
Alive(r) == pc[r] \notin Stopped
Sent == <<cnt[Sender], i[Sender]>>

(* The peer is before its receive of iteration n.                          *)
Waits(n) ==
    \/ pc[Other] = "size_barrier" /\ n = 0
    \/ pc[Other] = "sending" /\ i[Other] + 1 = n
    \/ pc[Other] \in {"loop", "recv"} /\ i[Other] = n

(* The one message there can be is of the sender's count and iteration.    *)
Nets ==
    /\ \/ Quiet
       \/ Empty(Sender) /\ net[Other] = <<Sent>>
       \/ Empty(Other) /\ net[Sender] = <<Sent>>
    /\ Alive(Sender) /\ ~Quiet => pc[Sender] \in {"sending", "recv"}
    /\ Alive(Other) /\ ~Empty(Other) =>
           Waits(i[Sender]) /\ cnt[Other] = cnt[Sender] /\ i[Sender] < Limit(Other)
    /\ pc[Other] = "send" => Quiet /\ cnt[Other] = cnt[Sender] /\ i[Other] = i[Sender]

(* How far apart the two can be.                                           *)
Level(r) == IF pc[r] \in InSize THEN Pos(r) ELSE Pos(r) + 1
Between(r) == pc[r] \in {"head", "size_barrier"}
Starting ==
    /\ pc[Sender] \in {"start", "start_barrier"} \/ pc[Other] \in {"start", "start_barrier"}
    /\ \A r \in Rank :
           /\ pc[r] \in {"start", "start_barrier", "head", "size_barrier"}
           /\ pc[r] = "head" => Pos(r) = 1
           /\ pc[r] = "size_barrier" => Pos(r) = 2
BothBetween ==               \* both are between two sizes
    Between(Sender) /\ Between(Other) /\ Level(Sender) = Level(Other) /\ cnt[Sender] = cnt[Other]
SameSize ==
    /\ pc[Sender] \in InSize /\ pc[Other] \in InSize
    /\ Pos(Sender) = Pos(Other) /\ cnt[Sender] = cnt[Other]
    /\ \/ pc[Sender] = "size_barrier" /\ pc[Other] \in {"loop", "recv"} /\ i[Other] = 0
       \/ pc[Sender] \in {"loop", "send"} /\ Waits(i[Sender])
       \/ /\ pc[Sender] \in {"sending", "recv"}
          /\ \/ ~Empty(Other) /\ Waits(i[Sender])
             \/ Quiet /\ pc[Other] = "send" /\ i[Other] = i[Sender]
             \/ ~Empty(Sender) /\ Waits(i[Sender] + 1)
OtherAhead ==
    /\ Between(Other) /\ pc[Sender] \in {"loop", "sending", "recv"}
    /\ Level(Other) = Pos(Sender) + 1 /\ cnt[Other] = Double(cnt[Sender])
    /\ pc[Sender] = "loop" => i[Sender] = Limit(Sender)
    /\ pc[Sender] # "loop" => i[Sender] + 1 = Limit(Sender) /\ ~Empty(Sender)
SenderAhead ==
    /\ Between(Sender) /\ pc[Other] \in {"loop", "sending"}
    /\ Level(Sender) = Pos(Other) + 1 /\ cnt[Sender] = Double(cnt[Other])
    /\ Limit(Other) = i[Other] + (IF pc[Other] = "loop" THEN 0 ELSE 1)
Together ==
    Alive(Sender) /\ Alive(Other) =>
        Starting \/ BothBetween \/ SameSize \/ OtherAhead \/ SenderAhead

IInv == TypeOK /\ (\A r \in Rank : Own(r)) /\ Timing /\ Nets /\ Together

-----------------------------------------------------------------------------
(* The options after the switch to large messages, field by field.         *)
SwitchTo(o) == [o EXCEPT !.iterations = o.iterations_large, !.skip = o.skip_large]

(* A switch takes the counts for large messages; a second changes nothing. *)
LEMMA SwitchFields ==
    ASSUME NEW o \in Options
    PROVE  /\ SwitchTo(o) \in Options
           /\ SwitchTo(o).iterations = o.iterations_large /\ SwitchTo(o).skip = o.skip_large
           /\ SwitchTo(o).min_message_size = o.min_message_size
           /\ SwitchTo(SwitchTo(o)) = SwitchTo(o)
<1>1. ASSUME NEW p \in Options
      PROVE  /\ SwitchTo(p) \in Options
             /\ SwitchTo(p).iterations = p.iterations_large /\ SwitchTo(p).skip = p.skip_large
             /\ SwitchTo(p).min_message_size = p.min_message_size
             /\ SwitchTo(p).max_message_size = p.max_message_size
             /\ SwitchTo(p).iterations_large = p.iterations_large
             /\ SwitchTo(p).skip_large = p.skip_large
  <2> DEFINE m == [p EXCEPT !.iterations = p.iterations_large]
             s == [m EXCEPT !.skip = p.skip_large]
  <2>1. p.iterations_large \in Nat /\ p.skip_large \in Nat
    BY DEF Options
  <2>2. /\ m \in Options /\ m.iterations = p.iterations_large
        /\ m.min_message_size = p.min_message_size /\ m.max_message_size = p.max_message_size
        /\ m.iterations_large = p.iterations_large /\ m.skip_large = p.skip_large
    BY <2>1, SMT DEF Options
  <2>3. SwitchTo(p) = s
    BY Zenon DEF SwitchTo
  <2> HIDE DEF m
  <2>4. /\ s \in Options /\ s.iterations = m.iterations /\ s.skip = p.skip_large
        /\ s.min_message_size = m.min_message_size /\ s.max_message_size = m.max_message_size
        /\ s.iterations_large = m.iterations_large /\ s.skip_large = m.skip_large
    BY <2>1, <2>2, SMT DEF Options
  <2> HIDE DEF s
  <2> QED BY <2>2, <2>3, <2>4
<1>2. SwitchTo(SwitchTo(o)) = SwitchTo(o)
  <2> DEFINE s == SwitchTo(o)
             t == SwitchTo(s)
  <2>1. /\ s \in Options /\ t \in Options
        /\ t.iterations = s.iterations /\ t.skip = s.skip
        /\ t.min_message_size = s.min_message_size /\ t.max_message_size = s.max_message_size
        /\ t.iterations_large = s.iterations_large /\ t.skip_large = s.skip_large
    BY <1>1
  <2> HIDE DEF s, t
  <2>2. s = t
    BY <2>1, SMT DEF Options
  <2> QED BY <2>2 DEF s, t
<1> QED BY <1>1, <1>2

(* The numbers a rank starts from, and what switching to large messages    *)
(* makes of them; switching twice changes nothing more.                    *)
LEMMA BaseNumbers ==
    ASSUME TypeOK, ProcessOptions(argv).ret = "okay"
    PROVE  /\ Base \in Options /\ Base.iterations > 0 /\ Base.iterations_large > 0
           /\ Base.iterations = Asked(argv, LargeElems)
           /\ Base.iterations_large = Asked(argv, LargeElems + 1)
           /\ Switched \in Options /\ Switched.iterations = Base.iterations_large
           /\ Switched.skip = Base.skip_large
           /\ Switched.min_message_size = Base.min_message_size
           /\ [Switched EXCEPT !.iterations = Switched.iterations_large,
                               !.skip = Switched.skip_large] = Switched
           /\ First \in Int
<1>1. argv \in Argvs
  BY DEF TypeOK
<1>2. /\ Base \in Options /\ Base.iterations > 0 /\ Base.iterations_large > 0
      /\ Base.iterations = Asked(argv, LargeElems)
      /\ Base.iterations_large = Asked(argv, LargeElems + 1)
  BY <1>1, ParserWorks DEF Honours, Base
<1> HIDE DEF Base
<1>3. /\ Switched \in Options /\ Switched.iterations = Base.iterations_large
      /\ Switched.skip = Base.skip_large
      /\ Switched.min_message_size = Base.min_message_size
      /\ [Switched EXCEPT !.iterations = Switched.iterations_large,
                          !.skip = Switched.skip_large] = Switched
  <2>1. Base.iterations_large \in Nat /\ Base.skip_large \in Nat
    BY <1>2 DEF Options
  <2>2. Switched = SwitchTo(Base)
    BY DEF Switched, SwitchTo
  <2>3. [Switched EXCEPT !.iterations = Switched.iterations_large,
                         !.skip = Switched.skip_large] = SwitchTo(Switched)
    BY DEF SwitchTo
  <2> QED BY <1>2, <2>1, <2>2, <2>3, SwitchFields
<1>4. First \in Int
  <2>1. Base.min_message_size \in Nat /\ 2 * IntMax + 2 \in Nat \ {0} /\ IntMax \in Nat
    BY <1>2, LatencyAssumption, SMT DEF Options
  <2>2. Base.min_message_size % (2 * IntMax + 2) \in Int
    BY <2>1, SMT
  <2> QED BY <2>1, <2>2, SMT DEF First, ToInt
<1> QED BY <1>2, <1>3, <1>4

(* What a rank does to itself, and that it leaves its peer alone but for   *)
(* the message it sends.                                                   *)
LEMMA OthersKeep ==
    ASSUME TypeOK, NEW r \in Rank, LocalStep(r) \/ SendReturns(r) \/ Launcher(r),
           NEW q \in Rank, q # r
    PROVE  /\ pc'[q] = pc[q] /\ calls'[q] = calls[q] /\ options'[q] = options[q]
           /\ cnt'[q] = cnt[q] /\ i'[q] = i[q] /\ Pos(q)' = Pos(q)
           /\ argv' = argv /\ world' = world
<1>1. /\ pc'[q] = pc[q]
  BY DEF TypeOK, LocalStep, Launcher, Kill, LeaveEarly, OutOfMemory, Setup, PassStartBarrier,
     NextSize, PassSizeBarrier, Iterate, BadCount, Send, SendReturns, Recv, AfterCall, EndSize,
     Finish, Goto
<1>2. calls'[q] = calls[q]
  BY DEF TypeOK, LocalStep, Launcher, Kill, LeaveEarly, OutOfMemory, Setup, PassStartBarrier,
     NextSize, PassSizeBarrier, Iterate, BadCount, Send, SendReturns, Recv, EndSize, Finish, Enter
<1>3. options'[q] = options[q] /\ cnt'[q] = cnt[q] /\ argv' = argv /\ world' = world
  BY DEF TypeOK, LocalStep, Launcher, LeaveEarly, OutOfMemory, Setup, PassStartBarrier,
     NextSize, PassSizeBarrier, Iterate, BadCount, Send, SendReturns, Recv, EndSize, Finish, job
<1>4. i'[q] = i[q]
  BY DEF TypeOK, LocalStep, Launcher, LeaveEarly, OutOfMemory, Setup, PassStartBarrier,
     NextSize, PassSizeBarrier, Iterate, BadCount, Send, SendReturns, Recv, AfterCall, EndSize,
     Finish
<1> QED BY <1>1, <1>2, <1>3, <1>4 DEF Pos

-----------------------------------------------------------------------------
(* The initial states.                                                     *)
LEMMA InitIInv == Init => IInv
<1> SUFFICES ASSUME Init PROVE IInv
  OBVIOUS
<1> USE SenderAssumption
<1>1. calls \in [Rank -> Seq(Collective)] /\ \A r \in Rank : Pos(r) = 0 /\ net[r] = <<>>
  BY SMT DEF Init, Pos
<1>2. Defaults \in Options
  BY OptionsAssumption, SMT DEF Defaults, Options
<1>3. TypeOK
  <2>1. net \in [Rank -> Seq(Nat \X Nat)] /\ sizes \in Seq(Nat) /\ world \subseteq Rank
    BY SMT DEF Init
  <2>2. /\ pc \in [Rank -> Label] /\ options \in [Rank -> Options]
        /\ \A r \in Rank : pc[r] \notin {"send", "sending", "recv"}
    BY <1>2 DEF Init, Label, Stopped
  <2>3. /\ cnt \in [Rank -> Int] /\ i \in [Rank -> Nat] /\ argv \in Argvs
        /\ clock \in {"off", "running", "stopped"} /\ timed \in Nat
    BY SMT DEF Init
  <2> QED BY <1>1, <2>1, <2>2, <2>3 DEF TypeOK
<1>4. ASSUME NEW r \in Rank PROVE pc[r] \in {"start", "done"} /\ Own(r)
  <2>1. pc[r] \in {"start", "done"}
    BY DEF Init
  <2> QED BY <1>1, <2>1 DEF Own, InSize, Calling
<1>5. Timing
  BY <1>4 DEF Timing, Calling
<1>6. Nets /\ Together
  <2>1. Other \in Rank
    BY Pair
  <2>2. Quiet
    BY <1>1, <2>1 DEF Quiet, Empty
  <2>3. \A r \in Rank : Alive(r) => pc[r] = "start"
    BY <1>4 DEF Alive, Stopped
  <2>4. Nets
    BY <1>4, <2>1, <2>2 DEF Nets, Quiet
  <2>5. Together
    BY <1>4, <2>1, <2>3, Pair DEF Together, Starting
  <2> QED BY <2>4, <2>5
<1> QED BY <1>3, <1>4, <1>5, <1>6 DEF IInv

-----------------------------------------------------------------------------
(* A rank by itself, step by step.                                         *)
LEMMA OwnStep ==
    ASSUME IInv, NEW r \in Rank, LocalStep(r) \/ SendReturns(r) \/ Launcher(r)
    PROVE  Own(r)'
<1> USE SenderAssumption, LatencyAssumption
<1>1. /\ TypeOK /\ Own(r) /\ Pos(r) \in Nat /\ cnt[r] \in Int /\ i[r] \in Nat
      /\ options[r] \in Options /\ Limit(r) \in Nat
  <2>1. TypeOK /\ Own(r)
    BY DEF IInv
  <2>2. Pos(r) \in Nat /\ cnt[r] \in Int /\ i[r] \in Nat /\ options[r] \in Options
    BY <2>1, PosNat DEF TypeOK
  <2>3. Limit(r) \in Nat
    BY <2>2, SMT DEF Limit, Options
  <2> QED BY <2>1, <2>2, <2>3
<1>2. argv' = argv /\ Base' = Base /\ Switched' = Switched /\ First' = First
  <2>1. argv' = argv
    BY DEF LocalStep, Launcher, LeaveEarly, OutOfMemory, Setup, PassStartBarrier, NextSize,
       PassSizeBarrier, Iterate, BadCount, Send, SendReturns, Recv, EndSize, Finish, job
  <2> QED BY <2>1 DEF Base, Switched, First
<1>3. CASE LeaveEarly(r) \/ OutOfMemory(r) \/ BadCount(r) \/ Finish(r) \/ Launcher(r)
  <2>1. pc'[r] \in Stopped
    BY <1>1, <1>3 DEF LeaveEarly, OutOfMemory, BadCount, Finish, Launcher, Kill, Goto, TypeOK,
       Stopped, Failed
  <2> QED BY <2>1 DEF Own, InSize, Calling, Stopped, Failed
<1>4. CASE Setup(r)
  <2>1. /\ pc'[r] = "start_barrier" /\ Pos(r) = 0 /\ options'[r] = Base
        /\ ProcessOptions(argv).ret = "okay" /\ Enter(r, "barrier")
    BY <1>1, <1>4 DEF Setup, Goto, TypeOK, Own, Base
  <2>2. Pos(r)' = 1
    BY <1>1, <2>1, EnterPos, SMT DEF TypeOK, Collective
  <2> QED BY <1>2, <2>1, <2>2 DEF Own, InSize, Calling
<1>5. CASE PassStartBarrier(r)
  <2>1. /\ pc'[r] = "head" /\ Pos(r) = 1 /\ options[r] = Base /\ options' = options /\ calls' = calls
        /\ cnt'[r] = First /\ ProcessOptions(argv).ret = "okay"
    BY <1>1, <1>5 DEF PassStartBarrier, Goto, TypeOK, Own, First
  <2>2. Pos(r)' = 1
    BY <2>1 DEF Pos
  <2> QED BY <1>2, <2>1, <2>2, SMT DEF Own, InSize, Calling
<1>6. CASE NextSize(r)
  <2>1. /\ pc[r] = "head" /\ pc'[r] = "size_barrier" /\ cnt' = cnt /\ i' = i
        /\ Enter(r, "barrier") /\ cnt[r] <= MaxNumElems /\ ProcessOptions(argv).ret = "okay"
        /\ options[r] = Base \/ (options[r] = Switched /\ cnt[r] > LargeElems)
        /\ Pos(r) >= 1 /\ (Pos(r) = 1 => cnt[r] = First)
    BY <1>1, <1>6 DEF NextSize, MoreSizes, Goto, TypeOK, Own
  <2>2. Pos(r)' = Pos(r) + 1
    BY <1>1, <2>1, EnterPos DEF TypeOK, Collective
  <2>3. options'[r] = IF cnt[r] > LargeElems THEN SwitchTo(options[r]) ELSE options[r]
    BY <1>1, <1>6 DEF NextSize, Large, SwitchTo, TypeOK
  <2>4. SwitchTo(Base) = Switched /\ SwitchTo(Switched) = Switched
    BY <1>1, <2>1, BaseNumbers DEF SwitchTo, Switched
  <2>5. options'[r] = IF cnt[r] > LargeElems THEN Switched ELSE Base
    BY <2>1, <2>3, <2>4
  <2>6. Pos(r)' >= 2 /\ (Pos(r)' = 2 => cnt[r] = First)
    BY <1>1, <2>1, <2>2, SMT
  <2> QED BY <1>2, <2>1, <2>5, <2>6 DEF Own, InSize, Calling
<1>7. CASE PassSizeBarrier(r)
  <2>1. /\ pc[r] = "size_barrier" /\ pc'[r] = "loop" /\ UNCHANGED <<calls, options, cnt>>
        /\ i'[r] = 0
    BY <1>1, <1>7 DEF PassSizeBarrier, Goto, TypeOK
  <2>2. Pos(r)' = Pos(r) /\ Limit(r)' = Limit(r) /\ 0 <= Limit(r) /\ ~(0 > 0)
    BY <1>1, <2>1, SMT DEF Pos, Limit
  <2> QED BY <1>1, <1>2, <2>1, <2>2 DEF Own, InSize, Calling
<1>8. CASE Iterate(r)
  <2>1. /\ pc[r] = "loop" /\ pc'[r] \in {"send", "recv"}
        /\ UNCHANGED <<calls, options, cnt, i>> /\ i[r] < Limit(r)
    BY <1>1, <1>8 DEF Iterate, Goto, TypeOK, Body, MoreIterations, Limit
  <2>2. Pos(r)' = Pos(r) /\ Limit(r)' = Limit(r)
    BY <2>1 DEF Pos, Limit
  <2> QED BY <1>1, <1>2, <2>1, <2>2 DEF Own, InSize, Calling
<1>9. CASE Send(r)
  <2>1. /\ pc[r] = "send" /\ pc'[r] = "sending" /\ cnt[r] >= 0
        /\ UNCHANGED <<calls, options, cnt, i>>
    BY <1>1, <1>9 DEF Send, Goto, TypeOK
  <2>2. Pos(r)' = Pos(r) /\ Limit(r)' = Limit(r)
    BY <2>1 DEF Pos, Limit
  <2> QED BY <1>1, <1>2, <2>1, <2>2 DEF Own, InSize, Calling
<1>10. CASE SendReturns(r) \/ Recv(r)
  <2>1. /\ pc[r] \in {"sending", "recv"} /\ cnt[r] >= 0 /\ UNCHANGED <<calls, options, cnt>>
        /\ \/ pc'[r] \in {"send", "recv"} /\ i' = i
           \/ pc'[r] = "loop" /\ i'[r] = i[r] + 1
    BY <1>1, <1>10 DEF SendReturns, Recv, AfterCall, Body, Goto, TypeOK, Own
  <2>2. Pos(r)' = Pos(r) /\ Limit(r)' = Limit(r)
    BY <2>1 DEF Pos, Limit
  <2>3. i[r] < Limit(r) /\ i[r] + 1 <= Limit(r)
    BY <1>1, <2>1, SMT DEF Own, Calling
  <2> QED BY <1>1, <1>2, <2>1, <2>2, <2>3 DEF Own, InSize, Calling
<1>11. CASE EndSize(r)
  <2>1. /\ pc[r] = "loop" /\ pc'[r] = "head" /\ UNCHANGED <<calls, options>>
        /\ cnt'[r] = Double(cnt[r])
    BY <1>1, <1>11 DEF EndSize, Goto, TypeOK
  <2>2. Pos(r)' = Pos(r) /\ Pos(r) >= 2 /\ ~(Pos(r) = 1)
    <3>1. Pos(r)' = Pos(r)
      BY <2>1 DEF Pos
    <3>2. Pos(r) >= 2
      BY <1>1, <2>1 DEF Own, InSize
    <3> QED BY <1>1, <3>1, <3>2, SMT
  <2>3. cnt[r] > LargeElems => cnt'[r] > LargeElems
    BY <1>1, <2>1, SMT DEF Double
  <2>4. Pos(r)' >= 1
    BY <1>1, <2>2, SMT
  <2> QED BY <1>1, <1>2, <2>1, <2>2, <2>3, <2>4 DEF Own, InSize, Calling
<1> QED BY <1>3, <1>4, <1>5, <1>6, <1>7, <1>8, <1>9, <1>10, <1>11 DEF LocalStep

(* The measurement: the clock runs over the timed iterations, and each of  *)
(* them is counted.                                                        *)
LEMMA TimingStep ==
    ASSUME IInv, NEW r \in Rank, LocalStep(r) \/ SendReturns(r) \/ Launcher(r)
    PROVE  Timing'
<1> USE SenderAssumption
<1>1. /\ TypeOK /\ Timing /\ Own(Sender) /\ i[Sender] \in Nat /\ timed \in Nat
      /\ options[Sender] \in Options /\ options[Sender].skip \in Nat
  BY DEF IInv, TypeOK, Options
<1>2. CASE r # Sender
  <2>1. UNCHANGED <<clock, timed>>
    BY <1>2 DEF LocalStep, Launcher, LeaveEarly, OutOfMemory, Setup, PassStartBarrier,
       NextSize, PassSizeBarrier, Iterate, BadCount, Send, SendReturns, Recv, EndSize, Finish
  <2>2. /\ pc'[Sender] = pc[Sender] /\ i'[Sender] = i[Sender]
        /\ options'[Sender] = options[Sender]
    BY <1>1, <1>2, OthersKeep
  <2> QED BY <1>1, <2>1, <2>2 DEF Timing
<1>3. CASE r = Sender
  <2>1. CASE \/ LeaveEarly(r) \/ OutOfMemory(r) \/ BadCount(r) \/ Finish(r) \/ Launcher(r)
             \/ Setup(r) \/ PassStartBarrier(r) \/ NextSize(r) \/ EndSize(r)
    <3>1. pc'[r] \notin {"loop"} \cup Calling
      BY <1>1, <1>3, <2>1 DEF LeaveEarly, OutOfMemory, BadCount, Finish, Launcher, Kill, Setup,
         PassStartBarrier, NextSize, EndSize, Goto, TypeOK, Calling
    <3> QED BY <1>3, <3>1 DEF Timing
  <2>2. CASE PassSizeBarrier(r)
    <3>1. pc'[r] = "loop" /\ i'[r] = 0 /\ options' = options
      BY <1>1, <2>2 DEF PassSizeBarrier, Goto, TypeOK
    <3>2. ~(i'[r] > options'[r].skip)
      BY <1>1, <1>3, <3>1, SMT
    <3> QED BY <1>3, <3>1, <3>2 DEF Timing, Calling
  <2>3. CASE Iterate(r)
    <3>1. /\ pc[r] = "loop" /\ pc'[r] = "send" /\ UNCHANGED <<options, i>>
          /\ IF i[r] = options[r].skip THEN clock' = "running" /\ timed' = 0
                                       ELSE UNCHANGED <<clock, timed>>
      BY <1>1, <1>3, <2>3 DEF Iterate, StartsTimer, Body, Goto, TypeOK
    <3>2. i[r] = options[r].skip => 0 = i[r] - options[r].skip
      BY <1>1, <1>3, SMT
    <3>3. i[r] # options[r].skip /\ i[r] >= options[r].skip => i[r] > options[r].skip
      BY <1>1, <1>3, SMT
    <3> QED BY <1>1, <1>3, <3>1, <3>2, <3>3 DEF Timing, Calling
  <2>4. CASE Send(r) \/ SendReturns(r)
    <3>1. /\ pc[r] \in Calling /\ pc'[r] \in Calling /\ UNCHANGED <<options, i, clock, timed>>
      BY <1>1, <1>3, <2>4 DEF Send, SendReturns, AfterCall, Body, Goto, TypeOK, Calling
    <3> QED BY <1>1, <1>3, <3>1 DEF Timing, Calling
  <2>5. CASE Recv(r)
    <3>1. /\ pc[r] = "recv" /\ pc'[r] = "loop" /\ UNCHANGED <<options, clock>>
          /\ i'[r] = i[r] + 1
          /\ timed' = IF clock = "running" THEN timed + 1 ELSE timed
      BY <1>1, <1>3, <2>5 DEF Recv, AfterCall, Body, Goto, TypeOK
    <3>2. /\ i[r] + 1 > options[r].skip => i[r] >= options[r].skip
          /\ timed = i[r] - options[r].skip => timed + 1 = (i[r] + 1) - options[r].skip
      BY <1>1, <1>3, SMT
    <3> QED BY <1>1, <1>3, <3>1, <3>2 DEF Timing, Calling
  <2> QED BY <1>3, <2>1, <2>2, <2>3, <2>4, <2>5 DEF LocalStep
<1> QED BY <1>2, <1>3

(* Types.                                                                  *)
LEMMA TypeStep ==
    ASSUME IInv, [Next]_vars
    PROVE  TypeOK'
<1> USE SenderAssumption, LatencyAssumption
<1>1. TypeOK
  BY DEF IInv
<1>2. CASE UNCHANGED vars
  BY <1>1, <1>2 DEF TypeOK, vars, job
<1>3. SUFFICES ASSUME NEW r \in Rank, LocalStep(r) \/ SendReturns(r) \/ Launcher(r)
               PROVE  TypeOK'
  BY <1>2 DEF Next, Terminating
<1>4. \A q \in Rank : pc'[q] \in {"send", "sending", "recv"} => cnt'[q] <= MaxNumElems
  <2> SUFFICES ASSUME NEW q \in Rank, pc'[q] \in {"send", "sending", "recv"}
               PROVE  cnt'[q] <= MaxNumElems
    OBVIOUS
  <2>1. CASE q = r
    BY <1>3, <2>1, OwnStep DEF Own, InSize
  <2>2. CASE q # r
    BY <1>1, <1>3, <2>2, OthersKeep DEF TypeOK
  <2> QED BY <2>1, <2>2
<1>5. pc' \in [Rank -> Label]
  <2>1. \E l \in Label : pc' = [pc EXCEPT ![r] = l]
    BY <1>3 DEF LocalStep, Launcher, Kill, LeaveEarly, OutOfMemory, Setup, PassStartBarrier,
       NextSize, PassSizeBarrier, Iterate, BadCount, Send, SendReturns, Recv, AfterCall, EndSize,
       Finish, Goto, Label, Stopped, Failed, Body
  <2> QED BY <1>1, <2>1 DEF TypeOK
<1>6. calls' \in [Rank -> Seq(Collective)]
  <2>1. calls' = calls \/ Enter(r, "barrier")
    BY <1>3 DEF LocalStep, Launcher, Kill, LeaveEarly, OutOfMemory, Setup, PassStartBarrier,
       NextSize, PassSizeBarrier, Iterate, BadCount, Send, SendReturns, Recv, EndSize, Finish
  <2> QED BY <1>1, <2>1, EnterPos DEF TypeOK, Collective
<1>7. argv' \in Argvs /\ world' \subseteq Rank
  BY <1>1, <1>3 DEF TypeOK, LocalStep, Launcher, LeaveEarly, OutOfMemory, Setup, PassStartBarrier,
     NextSize, PassSizeBarrier, Iterate, BadCount, Send, SendReturns, Recv, EndSize, Finish, job
<1>8. Own(r) /\ cnt[r] \in Int /\ i[r] \in Nat /\ options[r] \in Options
  BY <1>1 DEF IInv, TypeOK
<1>9. options' \in [Rank -> Options]
  <2>1. CASE Setup(r)
    <3>1. Base \in Options
      BY <1>1, <2>1, BaseNumbers DEF Setup
    <3> QED BY <1>1, <2>1, <3>1 DEF Setup, TypeOK, Base
  <2>2. CASE NextSize(r)
    <3>1. \/ options' = options
          \/ options' = [options EXCEPT ![r] = SwitchTo(options[r])]
      BY <2>2 DEF NextSize, SwitchTo
    <3>2. SwitchTo(options[r]) \in Options
      BY <1>8, SwitchFields
    <3> QED BY <1>1, <3>1, <3>2 DEF TypeOK
  <2>3. CASE ~Setup(r) /\ ~NextSize(r)
    BY <1>1, <1>3, <2>3 DEF TypeOK, LocalStep, Launcher, LeaveEarly, OutOfMemory, PassStartBarrier,
       PassSizeBarrier, Iterate, BadCount, Send, SendReturns, Recv, EndSize, Finish
  <2> QED BY <2>1, <2>2, <2>3
<1>10. cnt' \in [Rank -> Int]
  <2>1. CASE PassStartBarrier(r)
    <3>1. options[r] = Base /\ ProcessOptions(argv).ret = "okay"
      BY <1>8, <2>1 DEF PassStartBarrier, Own
    <3>2. ToInt(options[r].min_message_size) \in Int
      BY <1>1, <3>1, BaseNumbers DEF First
    <3> QED BY <1>1, <2>1, <3>2 DEF PassStartBarrier, TypeOK
  <2>2. CASE EndSize(r)
    <3>1. Double(cnt[r]) \in Int /\ cnt' = [cnt EXCEPT ![r] = Double(cnt[r])]
      BY <1>8, <2>2, SMT DEF Double, EndSize
    <3> QED BY <1>1, <3>1 DEF TypeOK
  <2>3. CASE ~PassStartBarrier(r) /\ ~EndSize(r)
    BY <1>1, <1>3, <2>3 DEF TypeOK, LocalStep, Launcher, LeaveEarly, OutOfMemory, Setup, NextSize,
       PassSizeBarrier, Iterate, BadCount, Send, SendReturns, Recv, Finish
  <2> QED BY <2>1, <2>2, <2>3
<1>11. i' \in [Rank -> Nat]
  <2>1. \/ i' = i \/ i' = [i EXCEPT ![r] = 0] \/ i' = [i EXCEPT ![r] = i[r] + 1]
    BY <1>3 DEF LocalStep, Launcher, LeaveEarly, OutOfMemory, Setup, PassStartBarrier,
       NextSize, PassSizeBarrier, Iterate, BadCount, Send, SendReturns, Recv, AfterCall, EndSize,
       Finish
  <2>2. i[r] + 1 \in Nat /\ 0 \in Nat
    BY <1>8, SMT
  <2> QED BY <1>1, <2>1, <2>2 DEF TypeOK
<1>12. net' \in [Rank -> Seq(Nat \X Nat)]
  <2>1. CASE Send(r)
    <3>1. cnt[r] \in Nat /\ <<cnt[r], i[r]>> \in Nat \X Nat
      BY <1>8, <2>1, SMT DEF Send
    <3>2. Peer(r) \in Rank
      BY Pair
    <3>3. net[Peer(r)] \in Seq(Nat \X Nat)
      BY <1>1, <3>2 DEF TypeOK
    <3>4. Append(net[Peer(r)], <<cnt[r], i[r]>>) \in Seq(Nat \X Nat)
      BY <3>1, <3>3, SMT
    <3>5. net' = [net EXCEPT ![Peer(r)] = Append(net[Peer(r)], <<cnt[r], i[r]>>)]
      BY <2>1 DEF Send
    <3> QED BY <1>1, <3>4, <3>5 DEF TypeOK
  <2>2. CASE Recv(r)
    <3>1. net[r] \in Seq(Nat \X Nat) /\ net[r] # <<>> /\ net' = [net EXCEPT ![r] = Tail(net[r])]
      BY <1>1, <2>2 DEF TypeOK, Recv
    <3>2. Tail(net[r]) \in Seq(Nat \X Nat)
      BY <3>1, SMT
    <3> QED BY <1>1, <3>1, <3>2 DEF TypeOK
  <2>3. CASE ~Send(r) /\ ~Recv(r)
    BY <1>1, <1>3, <2>3 DEF TypeOK, LocalStep, Launcher, LeaveEarly, OutOfMemory, Setup, NextSize,
       PassStartBarrier, PassSizeBarrier, Iterate, BadCount, SendReturns, EndSize, Finish
  <2> QED BY <2>1, <2>2, <2>3
<1>13. clock' \in {"off", "running", "stopped"} /\ timed' \in Nat
  <2>1. timed + 1 \in Nat /\ 0 \in Nat
    BY <1>1, SMT DEF TypeOK
  <2> QED BY <1>1, <1>3, <2>1 DEF TypeOK, LocalStep, Launcher, LeaveEarly, OutOfMemory, Setup,
       NextSize, PassStartBarrier, PassSizeBarrier, Iterate, BadCount, Send, SendReturns, Recv,
       EndSize, Finish
<1>14. sizes' \in Seq(Nat)
  <2>1. CASE EndSize(r)
    <3>1. cnt[r] \in Nat
      <4>1. pc[r] = "loop" /\ ~(i[r] < Limit(r)) /\ ProcessOptions(argv).ret = "okay"
            /\ options[r] = (IF cnt[r] > LargeElems THEN Switched ELSE Base)
            /\ (i[r] > 0 => cnt[r] >= 0)
        BY <1>8, <2>1 DEF EndSize, MoreIterations, Limit, Own, InSize
      <4>2. options[r].iterations > 0
        BY <1>1, <4>1, BaseNumbers
      <4>3. i[r] > 0
        BY <1>8, <4>1, <4>2, SMT DEF Limit, Options
      <4> QED BY <1>8, <4>1, <4>3, SMT
    <3>2. sizes \in Seq(Nat) /\ (sizes' = sizes \/ sizes' = Append(sizes, cnt[r]))
      BY <1>1, <2>1 DEF TypeOK, EndSize
    <3> QED BY <3>1, <3>2, SMT
  <2>2. CASE ~EndSize(r)
    BY <1>1, <1>3, <2>2 DEF TypeOK, LocalStep, Launcher, LeaveEarly, OutOfMemory, Setup, NextSize,
       PassStartBarrier, PassSizeBarrier, Iterate, BadCount, Send, SendReturns, Recv, Finish
  <2> QED BY <2>1, <2>2
<1> QED BY <1>4, <1>5, <1>6, <1>7, <1>9, <1>10, <1>11, <1>12, <1>13, <1>14 DEF TypeOK

-----------------------------------------------------------------------------
(* In the same size both make as many iterations, and at least one.        *)
LEMMA Limits ==
    ASSUME IInv
    PROVE  /\ pc[Sender] \in InSize /\ pc[Other] \in InSize /\ cnt[Sender] = cnt[Other] =>
                  Limit(Sender) = Limit(Other)
           /\ \A r \in Rank : pc[r] \in InSize => Limit(r) > 0
           /\ \A r \in Rank : Limit(r) \in Nat /\ Pos(r) \in Nat /\ i[r] \in Nat /\ cnt[r] \in Int
<1> USE SenderAssumption
<1>1. TypeOK /\ Sender \in Rank /\ Other \in Rank /\ \A r \in Rank : Own(r)
  BY Pair DEF IInv
<1>2. ASSUME NEW r \in Rank PROVE options[r] \in Options /\ options[r].skip \in Nat
                                  /\ options[r].iterations \in Nat
  BY <1>1 DEF TypeOK, Options
<1>3. ASSUME NEW r \in Rank, pc[r] \in InSize PROVE Limit(r) > 0
  <2>1. /\ options[r] = (IF cnt[r] > LargeElems THEN Switched ELSE Base)
        /\ ProcessOptions(argv).ret = "okay"
    BY <1>1, <1>3 DEF Own
  <2>2. options[r].iterations > 0
    BY <1>1, <2>1, BaseNumbers
  <2> QED BY <1>2, <2>2, SMT DEF Limit
<1>4. ASSUME pc[Sender] \in InSize, pc[Other] \in InSize, cnt[Sender] = cnt[Other]
      PROVE  Limit(Sender) = Limit(Other)
  <2>1. options[Sender] = options[Other]
    BY <1>1, <1>4 DEF Own
  <2> QED BY <2>1 DEF Limit
<1>5. ASSUME NEW r \in Rank
      PROVE  Limit(r) \in Nat /\ Pos(r) \in Nat /\ i[r] \in Nat /\ cnt[r] \in Int
  <2>1. Limit(r) \in Nat
    BY <1>2, SMT DEF Limit
  <2> QED BY <1>1, <2>1, PosNat DEF TypeOK
<1> QED BY <1>3, <1>4, <1>5

(* Who waits for whom: what Together says where a message is sent.         *)
LEMMA Turns ==
    ASSUME IInv
    PROVE  /\ Alive(Sender) /\ pc[Other] = "send" => pc[Sender] \in {"sending", "recv"}
           /\ pc[Sender] = "send" /\ Alive(Other) =>
                  /\ Waits(i[Sender]) /\ cnt[Sender] = cnt[Other]
                  /\ pc[Other] \in InSize
<1>1. Together
  BY DEF IInv
<1>2. /\ pc[Other] = "send" => Alive(Other)
      /\ pc[Sender] = "send" => Alive(Sender)
  BY DEF Alive, Stopped, Failed
<1>3. Alive(Sender) /\ pc[Other] = "send" => SameSize
  BY <1>1, <1>2, Pair, SenderAssumption DEF Together, Starting, BothBetween, Between, OtherAhead, SenderAhead
<1>4. pc[Sender] = "send" /\ Alive(Other) => SameSize
  BY <1>1, <1>2, Pair, SenderAssumption DEF Together, Starting, BothBetween, Between, OtherAhead, SenderAhead
<1> QED BY <1>3, <1>4 DEF SameSize, Waits, Alive, Stopped, Failed

(* The messages on their way, step by step.                                *)
LEMMA NetsStep ==
    ASSUME IInv, NEW r \in Rank, LocalStep(r) \/ SendReturns(r) \/ Launcher(r)
    PROVE  Nets'
<1> USE SenderAssumption, Pair
<1>1. /\ TypeOK /\ Nets /\ Own(Sender) /\ Own(Other) /\ Sender \in Rank /\ Other \in Rank
      /\ i[Other] \in Nat /\ i[Sender] \in Nat /\ r \in {Sender, Other}
  BY Limits DEF IInv
<1>2. \A q : net[q] = <<Sent>> => net[q] # <<>> /\ Tail(net[q]) = <<>>
  BY SMT
<1>3. \A m : Append(<<>>, m) = <<m>>
  BY SMT
<1>4. CASE r = Sender
  <2>1. /\ pc'[Other] = pc[Other] /\ cnt'[Other] = cnt[Other] /\ i'[Other] = i[Other]
        /\ Limit(Other)' = Limit(Other) /\ Alive(Other)' = Alive(Other)
    BY <1>1, <1>4, OthersKeep DEF Limit, Alive
  <2>2. CASE LeaveEarly(r) \/ OutOfMemory(r) \/ BadCount(r) \/ Finish(r) \/ Launcher(r)
    <3>1. pc'[r] \in Stopped /\ UNCHANGED <<net, cnt, i>>
      BY <1>1, <2>2 DEF LeaveEarly, OutOfMemory, BadCount, Finish, Launcher, Kill, Goto, TypeOK,
         Stopped, Failed
    <3> QED BY <1>1, <1>4, <2>1, <3>1 DEF Nets, Quiet, Empty, Sent, Waits, Alive
  <2>3. CASE \/ Setup(r) \/ PassStartBarrier(r) \/ NextSize(r) \/ PassSizeBarrier(r)
             \/ Iterate(r) \/ EndSize(r)
    <3>1. net' = net /\ pc[r] \notin {"sending", "recv"} \cup Stopped
      BY <2>3 DEF Setup, PassStartBarrier, NextSize, PassSizeBarrier, Iterate, EndSize, Stopped,
         Failed
    <3>2. Quiet /\ pc[Other] # "send"
      BY <1>1, <1>4, <3>1, Turns DEF Nets, Alive
    <3> QED BY <2>1, <3>1, <3>2 DEF Nets, Quiet, Empty
  <2>4. CASE Send(r)
    <3>1. /\ pc[r] = "send" /\ pc'[r] = "sending" /\ UNCHANGED <<cnt, i>>
          /\ net' = [net EXCEPT ![Other] = Append(net[Other], Sent)]
      BY <1>1, <1>4, <2>4 DEF Send, Goto, TypeOK, Sent
    <3>2. Quiet /\ pc[Other] # "send"
      BY <1>1, <1>4, <3>1, Turns DEF Nets, Alive, Stopped, Failed
    <3>3. net'[Other] = <<Sent>> /\ net'[Sender] = <<>>
      BY <1>1, <1>3, <3>1, <3>2 DEF TypeOK, Quiet, Empty
    <3>4. Alive(Other) => /\ Waits(i[Sender]) /\ cnt[Other] = cnt[Sender]
                          /\ i[Sender] < Limit(Other)
      BY <1>1, <1>4, <3>1, Turns, Limits DEF Own, Calling, InSize
    <3> QED BY <1>4, <2>1, <3>1, <3>2, <3>3, <3>4 DEF Nets, Empty, Waits, Sent, Quiet
  <2>5. CASE SendReturns(r)
    <3>1. pc[r] = "sending" /\ pc'[r] = "recv" /\ UNCHANGED <<net, cnt, i>>
      BY <1>1, <1>4, <2>5 DEF SendReturns, AfterCall, Body, Goto, TypeOK
    <3> QED BY <1>1, <1>4, <2>1, <3>1 DEF Nets, Quiet, Empty, Sent, Waits, Alive
  <2>6. CASE Recv(r)
    <3>1. /\ pc[r] = "recv" /\ net[r] # <<>> /\ net' = [net EXCEPT ![r] = Tail(net[r])]
      BY <2>6 DEF Recv
    <3>2. net[Sender] = <<Sent>> /\ net[Other] = <<>> /\ pc[Other] # "send"
      BY <1>1, <1>4, <3>1 DEF Nets, Quiet, Empty
    <3>3. Quiet'
      BY <1>1, <1>2, <1>4, <3>1, <3>2 DEF TypeOK, Quiet, Empty
    <3> QED BY <2>1, <3>2, <3>3 DEF Nets, Quiet
  <2> QED BY <2>2, <2>3, <2>4, <2>5, <2>6 DEF LocalStep
<1>5. CASE r = Other
  <2>1. /\ pc'[Sender] = pc[Sender] /\ cnt'[Sender] = cnt[Sender] /\ i'[Sender] = i[Sender]
        /\ Alive(Sender)' = Alive(Sender) /\ Sent' = Sent
    BY <1>1, <1>5, OthersKeep DEF Alive, Sent
  <2>2. CASE LeaveEarly(r) \/ OutOfMemory(r) \/ BadCount(r) \/ Finish(r) \/ Launcher(r)
    <3>1. pc'[r] \in Stopped /\ net' = net
      BY <1>1, <2>2 DEF LeaveEarly, OutOfMemory, BadCount, Finish, Launcher, Kill, Goto, TypeOK,
         Stopped, Failed
    <3>2. pc'[r] # "send" /\ ~Alive(Other)'
      BY <1>5, <3>1 DEF Stopped, Failed, Alive
    <3> QED BY <1>1, <1>5, <2>1, <3>1, <3>2 DEF Nets, Quiet, Empty
  <2>3. CASE Setup(r) \/ PassStartBarrier(r) \/ NextSize(r)
    <3>1. /\ net' = net /\ pc[r] \in {"start", "start_barrier", "head"} /\ pc'[r] # "send"
      BY <1>1, <2>3 DEF Setup, PassStartBarrier, NextSize, Goto, TypeOK
    <3>2. Empty(Other)
      BY <1>1, <1>5, <3>1 DEF Nets, Waits, Alive, Stopped, Failed
    <3> QED BY <1>1, <1>5, <2>1, <3>1, <3>2 DEF Nets, Quiet, Empty
  <2>4. CASE PassSizeBarrier(r)
    <3>1. /\ pc[r] = "size_barrier" /\ pc'[r] = "loop" /\ i'[r] = 0
          /\ UNCHANGED <<net, cnt, options>>
      BY <1>1, <2>4 DEF PassSizeBarrier, Goto, TypeOK
    <3>2. Limit(Other)' = Limit(Other)
      BY <3>1 DEF Limit
    <3> QED BY <1>1, <1>5, <2>1, <3>1, <3>2 DEF Nets, Quiet, Empty, Waits, Alive, Stopped, Failed
  <2>5. CASE Iterate(r)
    <3>1. pc[r] = "loop" /\ pc'[r] = "recv" /\ UNCHANGED <<net, cnt, options, i>>
      BY <1>1, <1>5, <2>5 DEF Iterate, Body, Goto, TypeOK
    <3>2. Limit(Other)' = Limit(Other)
      BY <3>1 DEF Limit
    <3> QED BY <1>1, <1>5, <2>1, <3>1, <3>2 DEF Nets, Quiet, Empty, Waits, Alive, Stopped, Failed
  <2>6. CASE EndSize(r)
    <3>1. /\ pc[r] = "loop" /\ pc'[r] = "head" /\ net' = net /\ ~(i[r] < Limit(r))
      BY <1>1, <2>6 DEF EndSize, MoreIterations, Limit, Goto, TypeOK
    <3>2. Empty(Other)
      BY <1>1, <1>5, <3>1 DEF Nets, Waits, Alive, Stopped, Failed
    <3> QED BY <1>1, <1>5, <2>1, <3>1, <3>2 DEF Nets, Quiet, Empty
  <2>7. CASE Send(r)
    <3>1. /\ pc[r] = "send" /\ pc'[r] = "sending"
          /\ net' = [net EXCEPT ![Sender] = Append(net[Sender], <<cnt[r], i[r]>>)]
      BY <1>1, <1>5, <2>7 DEF Send, Goto, TypeOK
    <3>2. Quiet /\ cnt[r] = cnt[Sender] /\ i[r] = i[Sender]
      BY <1>1, <1>5, <3>1 DEF Nets
    <3>3. net'[Sender] = <<Sent>> /\ net'[Other] = <<>>
      BY <1>1, <1>3, <3>1, <3>2 DEF TypeOK, Quiet, Empty, Sent
    <3>4. Alive(Sender) => pc[Sender] \in {"sending", "recv"}
      BY <1>5, <3>1, Turns
    <3> QED BY <1>5, <2>1, <3>1, <3>3, <3>4 DEF Nets, Empty
  <2>8. CASE SendReturns(r)
    <3>1. /\ pc[r] = "sending" /\ pc'[r] = "loop" /\ UNCHANGED <<net, cnt, options>>
          /\ i'[r] = i[r] + 1
      BY <1>1, <1>5, <2>8 DEF SendReturns, AfterCall, Body, Goto, TypeOK
    <3>2. Limit(Other)' = Limit(Other)
      BY <3>1 DEF Limit
    <3> QED BY <1>1, <1>5, <2>1, <3>1, <3>2 DEF Nets, Quiet, Empty, Waits, Alive, Stopped, Failed
  <2>9. CASE Recv(r)
    <3>1. /\ pc[r] = "recv" /\ pc'[r] = "send" /\ net[r] # <<>> /\ UNCHANGED <<cnt, i>>
          /\ net' = [net EXCEPT ![r] = Tail(net[r])]
      BY <1>1, <1>5, <2>9 DEF Recv, AfterCall, Body, Goto, TypeOK
    <3>2. net[Other] = <<Sent>> /\ net[Sender] = <<>>
      BY <1>1, <1>5, <3>1 DEF Nets, Quiet, Empty
    <3>3. Quiet'
      BY <1>1, <1>2, <1>5, <3>1, <3>2 DEF TypeOK, Quiet, Empty
    <3>4. cnt[Other] = cnt[Sender] /\ i[Other] = i[Sender]
      BY <1>1, <1>5, <3>1 DEF Nets, Waits, Alive, Empty, Stopped, Failed
    <3> QED BY <1>1, <1>5, <2>1, <3>1, <3>3, <3>4 DEF Nets, Quiet
  <2> QED BY <2>2, <2>3, <2>4, <2>5, <2>6, <2>7, <2>8, <2>9 DEF LocalStep
<1> QED BY <1>1, <1>4, <1>5


-----------------------------------------------------------------------------
(* How far apart the two can be, step by step: first the steps of the      *)
(* sender, then those of its peer.                                         *)
LEMMA TogetherSender ==
    ASSUME IInv, LocalStep(Sender) \/ SendReturns(Sender) \/ Launcher(Sender)
    PROVE  Together'
<1> USE Pair, SenderAssumption
<1>1. /\ TypeOK /\ Nets /\ Together /\ Own(Sender) /\ Own(Other)
      /\ Pos(Sender) \in Nat /\ Pos(Other) \in Nat /\ i[Sender] \in Nat /\ i[Other] \in Nat
      /\ cnt[Sender] \in Int /\ cnt[Other] \in Int
      /\ Limit(Sender) \in Nat /\ Limit(Other) \in Nat
  BY Limits DEF IInv
<1>2. /\ pc'[Other] = pc[Other] /\ cnt'[Other] = cnt[Other] /\ i'[Other] = i[Other]
      /\ Limit(Other)' = Limit(Other) /\ Pos(Other)' = Pos(Other)
      /\ Between(Other)' = Between(Other) /\ Level(Other)' = Level(Other)
  <2>1. /\ pc'[Other] = pc[Other] /\ cnt'[Other] = cnt[Other] /\ i'[Other] = i[Other]
        /\ Limit(Other)' = Limit(Other) /\ Pos(Other)' = Pos(Other)
    BY <1>1, OthersKeep DEF Limit
  <2> QED BY <2>1 DEF Between, Level
<1>3. SUFFICES ASSUME Alive(Sender)', Alive(Other)'
               PROVE  (Starting \/ BothBetween \/ SameSize \/ OtherAhead \/ SenderAhead)'
  BY DEF Together
<1>4. Alive(Other)
  BY <1>2, <1>3 DEF Alive
<1>5. pc[Sender] \notin Stopped =>
          Starting \/ BothBetween \/ SameSize \/ OtherAhead \/ SenderAhead
  BY <1>1, <1>4 DEF Together, Alive
<1>6. CASE \/ LeaveEarly(Sender) \/ OutOfMemory(Sender) \/ BadCount(Sender)
           \/ Finish(Sender) \/ Launcher(Sender)
  <2>1. pc'[Sender] \in Stopped
    BY <1>1, <1>6 DEF LeaveEarly, OutOfMemory, BadCount, Finish, Launcher, Kill, Goto, TypeOK,
       Stopped, Failed
  <2> QED BY <1>3, <2>1 DEF Alive
<1>7. CASE Setup(Sender)
  <2>1. pc[Sender] = "start" /\ pc'[Sender] = "start_barrier"
    BY <1>1, <1>7 DEF Setup, Goto, TypeOK
  <2>2. Starting
    BY <1>5, <2>1 DEF BothBetween, Between, SameSize, OtherAhead, SenderAhead, InSize, Stopped,
       Failed
  <2> QED BY <1>2, <2>1, <2>2 DEF Starting
<1>8. CASE PassStartBarrier(Sender)
  <2>1. /\ pc[Sender] = "start_barrier" /\ pc'[Sender] = "head" /\ Pos(Sender) = 1
        /\ cnt'[Sender] = First /\ Pos(Other) >= Pos(Sender)
    BY <1>1, <1>8, ReturnsPos DEF PassStartBarrier, Goto, TypeOK, Own, First
  <2>2. Pos(Sender)' = 1 /\ Level(Sender)' = 2
    <3>1. Pos(Sender)' = 1
      BY <1>8, <2>1 DEF PassStartBarrier, Pos
    <3> QED BY <2>1, <3>1 DEF Level, InSize
  <2>3. Starting
    BY <1>5, <2>1 DEF BothBetween, Between, SameSize, OtherAhead, SenderAhead, InSize, Stopped,
       Failed
  <2>4. CASE pc[Other] = "start_barrier"
    BY <1>2, <2>1, <2>2, <2>3, <2>4 DEF Starting
  <2>5. CASE pc[Other] # "start_barrier"
    <3>1. pc[Other] \in {"head", "size_barrier"}
      BY <1>1, <2>1, <2>3, <2>5 DEF Starting, Own
    <3>2. Level(Other) = 2 /\ cnt[Other] = First
      BY <1>1, <2>3, <3>1 DEF Starting, Level, Own, InSize
    <3> QED BY <1>2, <2>1, <2>2, <3>1, <3>2 DEF BothBetween, Between
  <2> QED BY <2>4, <2>5
<1>9. CASE NextSize(Sender)
  <2>1. /\ pc[Sender] = "head" /\ pc'[Sender] = "size_barrier" /\ cnt' = cnt
        /\ Enter(Sender, "barrier")
    BY <1>1, <1>9 DEF NextSize, Goto, TypeOK
  <2>2. Pos(Sender)' = Pos(Sender) + 1
    BY <1>1, <2>1, EnterPos DEF TypeOK, Collective
  <2>3. Level(Sender)' = Level(Sender) /\ Between(Sender)'
    BY <2>1, <2>2 DEF Level, InSize, Between
  <2>4. Starting \/ BothBetween \/ SenderAhead
    BY <1>5, <2>1 DEF SameSize, OtherAhead, InSize, Stopped, Failed
  <2>5. CASE Starting
    BY <1>2, <2>1, <2>2, <2>5, SMT DEF Starting
  <2>6. CASE BothBetween
    BY <1>2, <2>1, <2>3, <2>6 DEF BothBetween
  <2>7. CASE SenderAhead
    BY <1>2, <2>1, <2>3, <2>7 DEF SenderAhead
  <2> QED BY <2>4, <2>5, <2>6, <2>7
<1>10. CASE PassSizeBarrier(Sender)
  <2>1. /\ pc[Sender] = "size_barrier" /\ pc'[Sender] = "loop" /\ cnt' = cnt /\ i'[Sender] = 0
        /\ Pos(Other) >= Pos(Sender) /\ calls' = calls
    BY <1>1, <1>10, ReturnsPos DEF PassSizeBarrier, Goto, TypeOK
  <2>2. Pos(Sender)' = Pos(Sender) /\ Level(Sender) = Pos(Sender)
    BY <2>1 DEF Pos, Level, InSize
  <2>3. ~Starting /\ ~SenderAhead /\ ~OtherAhead
    BY <1>1, <2>1, <2>2, SMT DEF Starting, SenderAhead, OtherAhead, Own
  <2>4. CASE BothBetween
    <3>1. pc[Other] = "size_barrier" /\ Pos(Other) = Pos(Sender) /\ cnt[Sender] = cnt[Other]
      BY <1>1, <2>1, <2>2, <2>4, SMT DEF BothBetween, Between, Level, InSize
    <3> QED BY <1>2, <2>1, <2>2, <3>1 DEF SameSize, InSize, Waits
  <2>5. CASE SameSize
    BY <1>2, <2>1, <2>2, <2>5 DEF SameSize, InSize, Waits
  <2> QED BY <1>5, <2>1, <2>3, <2>4, <2>5 DEF Stopped, Failed
<1>11. CASE Iterate(Sender)
  <2>1. /\ pc[Sender] = "loop" /\ pc'[Sender] = "send" /\ i[Sender] < Limit(Sender)
        /\ UNCHANGED <<calls, cnt, i>>
    BY <1>1, <1>11 DEF Iterate, Body, MoreIterations, Limit, Goto, TypeOK
  <2>2. Pos(Sender)' = Pos(Sender)
    BY <2>1 DEF Pos
  <2>3. ~OtherAhead
    BY <1>1, <2>1, SMT DEF OtherAhead
  <2>4. SameSize
    BY <1>5, <2>1, <2>3 DEF Starting, BothBetween, Between, SenderAhead, Stopped, Failed
  <2> QED BY <1>2, <2>1, <2>2, <2>4 DEF SameSize, InSize, Waits
<1>12. CASE Send(Sender)
  <2>1. /\ pc[Sender] = "send" /\ pc'[Sender] = "sending" /\ UNCHANGED <<calls, cnt, i>>
        /\ net' = [net EXCEPT ![Other] = Append(net[Other], Sent)]
    BY <1>1, <1>12 DEF Send, Goto, TypeOK, Sent
  <2>2. Pos(Sender)' = Pos(Sender)
    BY <2>1 DEF Pos
  <2>3. ~Empty(Other)'
    <3>1. net[Other] \in Seq(Nat \X Nat) /\ net'[Other] = Append(net[Other], Sent)
      BY <1>1, <2>1 DEF TypeOK
    <3> QED BY <3>1, SMT DEF Empty
  <2>4. SameSize
    BY <1>5, <2>1 DEF Starting, BothBetween, Between, OtherAhead, SenderAhead, Stopped, Failed
  <2> QED BY <1>2, <2>1, <2>2, <2>3, <2>4 DEF SameSize, InSize, Waits
<1>13. CASE SendReturns(Sender)
  <2>1. /\ pc[Sender] = "sending" /\ pc'[Sender] = "recv"
        /\ UNCHANGED <<calls, options, cnt, i, net>>
    BY <1>1, <1>13 DEF SendReturns, AfterCall, Body, Goto, TypeOK
  <2>2. Pos(Sender)' = Pos(Sender) /\ Limit(Sender)' = Limit(Sender)
    BY <2>1 DEF Pos, Limit
  <2>3. SameSize \/ OtherAhead
    BY <1>5, <2>1 DEF Starting, BothBetween, Between, SenderAhead, Stopped, Failed
  <2>4. CASE SameSize
    BY <1>2, <2>1, <2>2, <2>4 DEF SameSize, InSize, Waits, Empty, Quiet
  <2>5. CASE OtherAhead
    BY <1>2, <2>1, <2>2, <2>5 DEF OtherAhead, Empty
  <2> QED BY <2>3, <2>4, <2>5
<1>14. CASE Recv(Sender)
  <2>1. /\ pc[Sender] = "recv" /\ pc'[Sender] = "loop" /\ UNCHANGED <<calls, options, cnt>>
        /\ i'[Sender] = i[Sender] + 1 /\ ~Empty(Sender)
    BY <1>1, <1>14 DEF Recv, AfterCall, Body, Goto, TypeOK, Empty
  <2>2. Pos(Sender)' = Pos(Sender) /\ Limit(Sender)' = Limit(Sender)
    BY <2>1 DEF Pos, Limit
  <2>3. SameSize \/ OtherAhead
    BY <1>5, <2>1 DEF Starting, BothBetween, Between, SenderAhead, Stopped, Failed
  <2>4. CASE SameSize
    <3>1. Waits(i[Sender] + 1)
      BY <1>1, <2>1, <2>4 DEF SameSize, Nets, Quiet
    <3> QED BY <1>2, <2>1, <2>2, <2>4, <3>1 DEF SameSize, InSize, Waits
  <2>5. CASE OtherAhead
    BY <1>2, <2>1, <2>2, <2>5 DEF OtherAhead
  <2> QED BY <2>3, <2>4, <2>5
<1>15. CASE EndSize(Sender)
  <2>1. /\ pc[Sender] = "loop" /\ pc'[Sender] = "head" /\ calls' = calls
        /\ cnt'[Sender] = Double(cnt[Sender]) /\ i[Sender] = Limit(Sender)
    <3>1. /\ pc[Sender] = "loop" /\ pc'[Sender] = "head" /\ calls' = calls
          /\ cnt'[Sender] = Double(cnt[Sender]) /\ ~(i[Sender] < Limit(Sender))
      BY <1>1, <1>15 DEF EndSize, MoreIterations, Limit, Goto, TypeOK
    <3>2. i[Sender] <= Limit(Sender)
      BY <1>1, <3>1 DEF Own
    <3> QED BY <1>1, <3>1, <3>2, SMT
  <2>2. Between(Sender)' /\ Level(Sender)' = Pos(Sender) + 1
    BY <2>1 DEF Between, Level, InSize, Pos
  <2>3. SameSize \/ OtherAhead
    BY <1>5, <2>1 DEF Starting, BothBetween, Between, SenderAhead, Stopped, Failed
  <2>4. CASE SameSize
    <3>1. /\ pc[Other] \in InSize /\ Waits(Limit(Sender)) /\ Pos(Sender) = Pos(Other)
          /\ cnt[Sender] = cnt[Other]
      BY <2>1, <2>4 DEF SameSize
    <3>2. Limit(Sender) = Limit(Other) /\ Limit(Other) > 0
      BY <2>1, <3>1, Limits DEF InSize
    <3>3. pc[Other] = "recv" => i[Other] < Limit(Other)
      BY <1>1 DEF Own, Calling
    <3>4. /\ pc[Other] \in {"loop", "sending"}
          /\ Limit(Other) = i[Other] + (IF pc[Other] = "loop" THEN 0 ELSE 1)
      BY <1>1, <3>1, <3>2, <3>3, SMT DEF Waits
    <3> QED BY <1>2, <2>1, <2>2, <3>1, <3>4 DEF SenderAhead
  <2>5. CASE OtherAhead
    BY <1>2, <2>1, <2>2, <2>5 DEF OtherAhead, BothBetween
  <2> QED BY <2>3, <2>4, <2>5
<1> QED BY <1>6, <1>7, <1>8, <1>9, <1>10, <1>11, <1>12, <1>13, <1>14, <1>15 DEF LocalStep

(* A step of one rank keeps the other's side of the schedule.              *)
LEMMA TogetherOther ==
    ASSUME IInv, LocalStep(Other) \/ SendReturns(Other) \/ Launcher(Other)
    PROVE  Together'
<1> USE Pair, SenderAssumption
<1>1. /\ TypeOK /\ Nets /\ Together /\ Own(Sender) /\ Own(Other)
      /\ Pos(Sender) \in Nat /\ Pos(Other) \in Nat /\ i[Sender] \in Nat /\ i[Other] \in Nat
      /\ cnt[Sender] \in Int /\ cnt[Other] \in Int
      /\ Limit(Sender) \in Nat /\ Limit(Other) \in Nat
  BY Limits DEF IInv
<1>2. /\ pc'[Sender] = pc[Sender] /\ cnt'[Sender] = cnt[Sender] /\ i'[Sender] = i[Sender]
      /\ Limit(Sender)' = Limit(Sender) /\ Pos(Sender)' = Pos(Sender)
      /\ Between(Sender)' = Between(Sender) /\ Level(Sender)' = Level(Sender)
  <2>1. /\ pc'[Sender] = pc[Sender] /\ cnt'[Sender] = cnt[Sender] /\ i'[Sender] = i[Sender]
        /\ Limit(Sender)' = Limit(Sender) /\ Pos(Sender)' = Pos(Sender)
    BY <1>1, OthersKeep DEF Limit
  <2> QED BY <2>1 DEF Between, Level
<1>3. SUFFICES ASSUME Alive(Sender)', Alive(Other)'
               PROVE  (Starting \/ BothBetween \/ SameSize \/ OtherAhead \/ SenderAhead)'
  BY DEF Together
<1>4. Alive(Sender)
  BY <1>2, <1>3 DEF Alive
<1>5. pc[Other] \notin Stopped =>
          Starting \/ BothBetween \/ SameSize \/ OtherAhead \/ SenderAhead
  BY <1>1, <1>4 DEF Together, Alive
<1>6. CASE \/ LeaveEarly(Other) \/ OutOfMemory(Other) \/ BadCount(Other)
           \/ Finish(Other) \/ Launcher(Other)
  <2>1. pc'[Other] \in Stopped
    BY <1>1, <1>6 DEF LeaveEarly, OutOfMemory, BadCount, Finish, Launcher, Kill, Goto, TypeOK,
       Stopped, Failed
  <2> QED BY <1>3, <2>1 DEF Alive
<1>7. CASE Setup(Other)
  <2>1. pc[Other] = "start" /\ pc'[Other] = "start_barrier"
    BY <1>1, <1>7 DEF Setup, Goto, TypeOK
  <2>2. Starting
    BY <1>5, <2>1 DEF BothBetween, Between, SameSize, OtherAhead, SenderAhead, InSize, Stopped,
       Failed
  <2> QED BY <1>2, <2>1, <2>2 DEF Starting
<1>8. CASE PassStartBarrier(Other)
  <2>1. /\ pc[Other] = "start_barrier" /\ pc'[Other] = "head" /\ Pos(Other) = 1
        /\ cnt'[Other] = First /\ Pos(Sender) >= Pos(Other)
    BY <1>1, <1>8, ReturnsPos DEF PassStartBarrier, Goto, TypeOK, Own, First
  <2>2. Pos(Other)' = 1 /\ Level(Other)' = 2
    <3>1. Pos(Other)' = 1
      BY <1>8, <2>1 DEF PassStartBarrier, Pos
    <3> QED BY <2>1, <3>1 DEF Level, InSize
  <2>3. Starting
    BY <1>5, <2>1 DEF BothBetween, Between, SameSize, OtherAhead, SenderAhead, InSize, Stopped,
       Failed
  <2>4. CASE pc[Sender] = "start_barrier"
    BY <1>2, <2>1, <2>2, <2>3, <2>4 DEF Starting
  <2>5. CASE pc[Sender] # "start_barrier"
    <3>1. pc[Sender] \in {"head", "size_barrier"}
      BY <1>1, <2>1, <2>3, <2>5 DEF Starting, Own
    <3>2. Level(Sender) = 2 /\ cnt[Sender] = First
      BY <1>1, <2>3, <3>1 DEF Starting, Level, Own, InSize
    <3> QED BY <1>2, <2>1, <2>2, <3>1, <3>2 DEF BothBetween, Between
  <2> QED BY <2>4, <2>5
<1>9. CASE NextSize(Other)
  <2>1. /\ pc[Other] = "head" /\ pc'[Other] = "size_barrier" /\ UNCHANGED <<cnt, net>>
        /\ Enter(Other, "barrier")
    BY <1>1, <1>9 DEF NextSize, Goto, TypeOK
  <2>2. Pos(Other)' = Pos(Other) + 1
    BY <1>1, <2>1, EnterPos DEF TypeOK, Collective
  <2>3. Level(Other)' = Level(Other) /\ Between(Other)'
    BY <2>1, <2>2 DEF Level, InSize, Between
  <2>4. Starting \/ BothBetween \/ OtherAhead
    BY <1>5, <2>1 DEF SameSize, SenderAhead, InSize, Stopped, Failed
  <2>5. CASE Starting
    BY <1>2, <2>1, <2>2, <2>5, SMT DEF Starting
  <2>6. CASE BothBetween
    BY <1>2, <2>1, <2>3, <2>6 DEF BothBetween
  <2>7. CASE OtherAhead
    BY <1>2, <2>1, <2>3, <2>7 DEF OtherAhead, Empty
  <2> QED BY <2>4, <2>5, <2>6, <2>7
<1>10. CASE PassSizeBarrier(Other)
  <2>1. /\ pc[Other] = "size_barrier" /\ pc'[Other] = "loop" /\ UNCHANGED <<calls, cnt, net>>
        /\ i'[Other] = 0 /\ Pos(Sender) >= Pos(Other)
    BY <1>1, <1>10, ReturnsPos DEF PassSizeBarrier, Goto, TypeOK
  <2>2. Pos(Other)' = Pos(Other) /\ Level(Other) = Pos(Other)
    BY <2>1 DEF Pos, Level, InSize
  <2>3. ~Starting /\ ~SenderAhead /\ ~OtherAhead
    BY <1>1, <2>1, <2>2, SMT DEF Starting, SenderAhead, OtherAhead, Own
  <2>4. CASE BothBetween
    <3>1. pc[Sender] = "size_barrier" /\ Pos(Other) = Pos(Sender) /\ cnt[Sender] = cnt[Other]
      BY <1>1, <2>1, <2>2, <2>4, SMT DEF BothBetween, Between, Level, InSize
    <3> QED BY <1>2, <2>1, <2>2, <3>1 DEF SameSize, InSize
  <2>5. CASE SameSize
    <3>1. ~Waits(i[Sender] + 1)
      BY <1>1, <2>1, SMT DEF Waits
    <3> QED BY <1>2, <2>1, <2>2, <2>5, <3>1 DEF SameSize, InSize, Waits, Empty
  <2> QED BY <1>5, <2>1, <2>3, <2>4, <2>5 DEF Stopped, Failed
<1>11. CASE Iterate(Other)
  <2>1. /\ pc[Other] = "loop" /\ pc'[Other] = "recv" /\ i[Other] < Limit(Other)
        /\ UNCHANGED <<calls, cnt, i, net>>
    BY <1>1, <1>11 DEF Iterate, Body, MoreIterations, Limit, Goto, TypeOK
  <2>2. Pos(Other)' = Pos(Other)
    BY <2>1 DEF Pos
  <2>3. ~SenderAhead
    BY <1>1, <2>1, SMT DEF SenderAhead
  <2>4. SameSize
    BY <1>5, <2>1, <2>3 DEF Starting, BothBetween, Between, OtherAhead, Stopped, Failed
  <2> QED BY <1>2, <2>1, <2>2, <2>4 DEF SameSize, InSize, Waits, Empty
<1>12. CASE Recv(Other)
  <2>1. /\ pc[Other] = "recv" /\ pc'[Other] = "send" /\ UNCHANGED <<calls, cnt, i>>
        /\ ~Empty(Other) /\ net' = [net EXCEPT ![Other] = Tail(net[Other])]
    BY <1>1, <1>12 DEF Recv, AfterCall, Body, Goto, TypeOK, Empty
  <2>2. Pos(Other)' = Pos(Other)
    BY <2>1 DEF Pos
  <2>3. /\ pc[Sender] \in {"sending", "recv"} /\ Waits(i[Sender])
        /\ Empty(Sender) /\ net[Other] = <<Sent>>
    BY <1>1, <1>4, <2>1 DEF Nets, Quiet, Empty, Alive, Stopped, Failed
  <2>4. Tail(<<Sent>>) = <<>>
    BY SMT
  <2>5. Quiet'
    BY <1>1, <2>1, <2>3, <2>4 DEF Quiet, Empty, TypeOK
  <2>6. SameSize
    BY <1>5, <2>1 DEF Starting, BothBetween, Between, OtherAhead, SenderAhead, Stopped, Failed
  <2>7. i[Other] = i[Sender]
    BY <2>1, <2>3 DEF Waits
  <2> QED BY <1>2, <2>1, <2>2, <2>3, <2>5, <2>6, <2>7 DEF SameSize, InSize
<1>13. CASE Send(Other)
  <2>1. /\ pc[Other] = "send" /\ pc'[Other] = "sending" /\ UNCHANGED <<calls, cnt, i>>
        /\ net' = [net EXCEPT ![Sender] = Append(net[Sender], <<cnt[Other], i[Other]>>)]
    BY <1>1, <1>13 DEF Send, Goto, TypeOK
  <2>2. Pos(Other)' = Pos(Other)
    BY <2>1 DEF Pos
  <2>3. ~Empty(Sender)'
    <3> DEFINE m == <<cnt[Other], i[Other]>>
    <3>1. net[Sender] \in Seq(Nat \X Nat) /\ net'[Sender] = Append(net[Sender], m)
      BY <1>1, <2>1 DEF TypeOK
    <3> HIDE DEF m
    <3> QED BY <3>1, SMT DEF Empty
  <2>4. SameSize
    BY <1>5, <2>1 DEF Starting, BothBetween, Between, OtherAhead, SenderAhead, Stopped, Failed
  <2>5. pc[Sender] \in {"sending", "recv"} /\ i[Other] = i[Sender]
    BY <1>1, <2>1, <2>4 DEF SameSize, Nets, Waits
  <2> QED BY <1>2, <2>1, <2>2, <2>3, <2>4, <2>5 DEF SameSize, InSize, Waits
<1>14. CASE SendReturns(Other)
  <2>1. /\ pc[Other] = "sending" /\ pc'[Other] = "loop"
        /\ UNCHANGED <<calls, options, cnt, net>> /\ i'[Other] = i[Other] + 1
    BY <1>1, <1>14 DEF SendReturns, AfterCall, Body, Goto, TypeOK
  <2>2. Pos(Other)' = Pos(Other) /\ Limit(Other)' = Limit(Other)
    BY <2>1 DEF Pos, Limit
  <2>3. SameSize \/ SenderAhead
    BY <1>5, <2>1 DEF Starting, BothBetween, Between, OtherAhead, Stopped, Failed
  <2>4. CASE SameSize
    BY <1>2, <2>1, <2>2, <2>4 DEF SameSize, InSize, Waits, Empty
  <2>5. CASE SenderAhead
    <3>1. i'[Other] + 0 = i[Other] + 1
      BY <1>1, <2>1, SMT
    <3> QED BY <1>2, <2>1, <2>2, <2>5, <3>1 DEF SenderAhead
  <2> QED BY <2>3, <2>4, <2>5
<1>15. CASE EndSize(Other)
  <2>1. /\ pc[Other] = "loop" /\ pc'[Other] = "head" /\ UNCHANGED <<calls, net>>
        /\ cnt'[Other] = Double(cnt[Other]) /\ i[Other] = Limit(Other)
    <3>1. /\ pc[Other] = "loop" /\ pc'[Other] = "head" /\ UNCHANGED <<calls, net>>
          /\ cnt'[Other] = Double(cnt[Other]) /\ ~(i[Other] < Limit(Other))
      BY <1>1, <1>15 DEF EndSize, MoreIterations, Limit, Goto, TypeOK
    <3>2. i[Other] <= Limit(Other)
      BY <1>1, <3>1 DEF Own
    <3> QED BY <1>1, <3>1, <3>2, SMT
  <2>2. Between(Other)' /\ Level(Other)' = Pos(Other) + 1
    BY <2>1 DEF Between, Level, InSize, Pos
  <2>3. SameSize \/ SenderAhead
    BY <1>5, <2>1 DEF Starting, BothBetween, Between, OtherAhead, Stopped, Failed
  <2>4. CASE SameSize
    <3>1. /\ pc[Sender] \in InSize /\ Pos(Sender) = Pos(Other) /\ cnt[Sender] = cnt[Other]
      BY <2>1, <2>4 DEF SameSize
    <3>2. Limit(Sender) = Limit(Other) /\ Limit(Other) > 0
      BY <2>1, <3>1, Limits DEF InSize
    <3>3. pc[Sender] \in Calling => i[Sender] < Limit(Sender)
      BY <1>1 DEF Own
    <3>4. Waits(i[Sender]) => pc[Sender] = "loop" \/ pc[Sender] \notin {"loop"} \cup Calling
      BY <1>1, <2>1, <3>2, <3>3, SMT DEF Waits
    <3>5. \/ pc[Sender] = "loop" /\ i[Sender] = Limit(Sender)
          \/ /\ pc[Sender] \in {"sending", "recv"} /\ ~Empty(Sender)
             /\ i[Sender] + 1 = Limit(Sender)
      BY <1>1, <2>1, <2>4, <3>2, <3>3, <3>4, SMT DEF SameSize, Waits, Calling
    <3> QED BY <1>2, <2>1, <2>2, <3>1, <3>5 DEF OtherAhead, Empty
  <2>5. CASE SenderAhead
    BY <1>2, <2>1, <2>2, <2>5 DEF SenderAhead, BothBetween
  <2> QED BY <2>3, <2>4, <2>5
<1> QED BY <1>6, <1>7, <1>8, <1>9, <1>10, <1>11, <1>12, <1>13, <1>14, <1>15 DEF LocalStep

-----------------------------------------------------------------------------
(* The invariant is inductive.                                             *)
LEMMA NextIInv == ASSUME IInv, [Next]_vars PROVE IInv'
<1>1. TypeOK'
  BY TypeStep
<1>2. CASE UNCHANGED vars
  <2>1. \A r \in Rank : /\ Own(r)' = Own(r) /\ Pos(r)' = Pos(r) /\ Limit(r)' = Limit(r)
                        /\ Alive(r)' = Alive(r) /\ Empty(r)' = Empty(r)
    BY <1>2 DEF vars, job, Own, Pos, Limit, Base, Switched, First, Alive, Empty
  <2>2. Timing' = Timing /\ Nets' = Nets
    BY <1>2 DEF vars, Timing, Nets, Quiet, Empty, Alive, Sent, Waits, Limit
  <2>3. Together' = Together
    BY <1>2 DEF vars, Together, Alive, Starting, Pos, BothBetween, Between, Level, SameSize, Waits,
       Empty, Quiet, OtherAhead, SenderAhead, Limit
  <2> QED BY <1>1, <2>1, <2>2, <2>3 DEF IInv
<1>3. ASSUME NEW r \in Rank, LocalStep(r) \/ SendReturns(r) \/ Launcher(r) PROVE IInv'
  <2>1. \A q \in Rank : Own(q)'
    <3> TAKE q \in Rank
    <3>1. CASE q = r
      BY <1>3, <3>1, OwnStep
    <3>2. CASE q # r
      <4>1. /\ pc'[q] = pc[q] /\ calls'[q] = calls[q] /\ options'[q] = options[q]
            /\ cnt'[q] = cnt[q] /\ i'[q] = i[q] /\ Pos(q)' = Pos(q)
            /\ argv' = argv /\ TypeOK /\ Own(q)
        BY <1>3, <3>2, OthersKeep DEF IInv
      <4> QED BY <4>1 DEF Own, Base, Switched, First, Limit
    <3> QED BY <3>1, <3>2
  <2>2. Timing' /\ Nets'
    BY <1>3, TimingStep, NetsStep
  <2>3. Together'
    BY <1>3, Pair, TogetherSender, TogetherOther
  <2> QED BY <1>1, <2>1, <2>2, <2>3 DEF IInv
<1> QED BY <1>2, <1>3 DEF Next, Terminating

(* The inductive invariant behind all the others.                          *)
THEOREM Inductive == Spec => []IInv
<1>1. Init => IInv
  BY InitIInv
<1>2. IInv /\ [Next]_vars => IInv'
  BY NextIInv
<1> QED BY <1>1, <1>2, PTL DEF Spec

(* Types, and no rank sends or receives more elements than a buffer holds. *)
THEOREM TypeCorrect == Spec => []TypeOK
<1>1. IInv => TypeOK
  BY DEF IInv
<1> QED BY <1>1, Inductive, PTL

-----------------------------------------------------------------------------
(* Whatever MPI buffers and whenever a send returns: at most one message is*)
(* on its way, and it is what its receiver receives next.                  *)
LEMMA InFlight == IInv => OneInFlight
<1> SUFFICES ASSUME IInv PROVE OneInFlight
  OBVIOUS
<1> USE Pair
<1>1. Nets /\ i[Sender] \in Nat /\ i[Other] \in Nat
  BY SenderAssumption DEF IInv, TypeOK
<1>2. Len(<<Sent>>) = 1 /\ <<Sent>>[1] = Sent /\ <<Sent>> # <<>>
  BY SMT
<1>3. Sent[1] = cnt[Sender] /\ Sent[2] = i[Sender]
  BY DEF Sent
<1>4. Body(Sender)[2] = "recv" /\ Body(Other)[2] = "send"
  BY DEF Body
<1>5. ASSUME net[Sender] # <<>>
      PROVE  /\ net[Sender] = <<Sent>> /\ net[Other] = <<>>
             /\ pc[Sender] \notin Stopped =>
                   pc[Sender] # "head" /\ i[Sender] = NextReceive(Sender)
  <2>1. net[Sender] = <<Sent>> /\ net[Other] = <<>>
    BY <1>1, <1>5 DEF Nets, Quiet, Empty
  <2>2. ASSUME pc[Sender] \notin Stopped PROVE pc[Sender] \in {"sending", "recv"}
    BY <1>1, <1>5, <2>2 DEF Nets, Quiet, Empty, Alive
  <2>3. pc[Sender] \in {"sending", "recv"} => i[Sender] = NextReceive(Sender)
    BY <1>4 DEF NextReceive
  <2> QED BY <2>1, <2>2, <2>3
<1>6. ASSUME net[Other] # <<>>
      PROVE  /\ net[Other] = <<Sent>> /\ net[Sender] = <<>>
             /\ pc[Other] \notin Stopped =>
                   /\ pc[Other] # "head" /\ cnt[Sender] = cnt[Other]
                   /\ i[Sender] = NextReceive(Other)
  <2>1. net[Other] = <<Sent>> /\ net[Sender] = <<>>
    BY <1>1, <1>6 DEF Nets, Quiet, Empty
  <2>2. ASSUME pc[Other] \notin Stopped PROVE Waits(i[Sender]) /\ cnt[Sender] = cnt[Other]
    BY <1>1, <1>6, <2>2 DEF Nets, Quiet, Empty, Alive
  <2>3. Waits(i[Sender]) => pc[Other] # "head" /\ i[Sender] = NextReceive(Other)
    BY <1>4 DEF Waits, NextReceive
  <2> QED BY <2>1, <2>2, <2>3
<1>7. ASSUME NEW r \in Rank, net[r] # <<>>
      PROVE  /\ Len(net[r]) = 1 /\ net[Peer(r)] = <<>>
             /\ pc[r] \notin Stopped =>
                   /\ net[r][1][1] = cnt[r] /\ pc[r] # "head"
                   /\ net[r][1][2] = NextReceive(r)
  <2>1. CASE r = Sender
    BY <1>2, <1>3, <1>5, <1>7, <2>1
  <2>2. CASE r = Other
    BY <1>2, <1>3, <1>6, <1>7, <2>2
  <2> QED BY <2>1, <2>2
<1> QED BY <1>7 DEF OneInFlight

(* No message of one size or iteration is left over for another, and none  *)
(* is longer than what its receiver has room for.                          *)
THEOREM OneInFlightHolds == Spec => []OneInFlight
<1> QED BY InFlight, Inductive, PTL

-----------------------------------------------------------------------------
(* A latency is printed for as many round trips as were asked for, all of  *)
(* them answered while the clock was running.                              *)
LEMMA PrintedStep ==
    ASSUME IInv, [Next]_vars, sizes' # sizes
    PROVE  /\ timed = options[Sender].iterations
           /\ timed = Asked(argv, cnt[Sender])
           /\ \A r \in Rank : net[r] = <<>>
<1> USE SenderAssumption, LatencyAssumption
<1>1. EndSize(Sender)
  BY DEF Next, vars, Terminating, LocalStep, Launcher, LeaveEarly, OutOfMemory, Setup,
     PassStartBarrier, NextSize, PassSizeBarrier, Iterate, BadCount, Send, SendReturns, Recv,
     EndSize, Finish
<1>2. /\ TypeOK /\ Own(Sender) /\ Timing /\ Nets /\ i[Sender] \in Nat /\ cnt[Sender] \in Int
      /\ options[Sender].iterations \in Nat /\ options[Sender].skip \in Nat
  BY DEF IInv, TypeOK, Options
<1>3. /\ pc[Sender] = "loop" /\ ~(i[Sender] < options[Sender].iterations + options[Sender].skip)
      /\ i[Sender] <= options[Sender].iterations + options[Sender].skip
      /\ options[Sender] = (IF cnt[Sender] > LargeElems THEN Switched ELSE Base)
      /\ ProcessOptions(argv).ret = "okay"
  BY <1>1, <1>2 DEF EndSize, MoreIterations, Own, InSize, Limit
<1>4. options[Sender].iterations = Asked(argv, cnt[Sender]) /\ options[Sender].iterations > 0
  <2>1. /\ cnt[Sender] > LargeElems => Asked(argv, cnt[Sender]) = Asked(argv, LargeElems + 1)
        /\ ~(cnt[Sender] > LargeElems) => Asked(argv, cnt[Sender]) = Asked(argv, LargeElems)
    <3> DEFINE default(n) == IF n > LargeElems THEN LatLoopLarge ELSE LatLoopSmall
    <3>1. /\ cnt[Sender] > LargeElems => default(cnt[Sender]) = default(LargeElems + 1)
          /\ ~(cnt[Sender] > LargeElems) => default(cnt[Sender]) = default(LargeElems)
      BY SMT
    <3>2. \A n : Asked(argv, n) = GivenOr(argv, default(n))
      BY DEF Asked
    <3> HIDE DEF default
    <3> QED BY <3>1, <3>2
  <2> QED BY <1>2, <1>3, <2>1, BaseNumbers
<1>5. timed = options[Sender].iterations
  <2>1. i[Sender] > options[Sender].skip
    BY <1>2, <1>3, <1>4, SMT
  <2>2. timed = i[Sender] - options[Sender].skip
    BY <1>2, <1>3, <2>1 DEF Timing
  <2> QED BY <1>2, <1>3, <2>2, SMT
<1>6. \A r \in Rank : net[r] = <<>>
  BY <1>2, <1>3, Pair DEF Nets, Quiet, Empty, Alive, Stopped, Failed
<1> QED BY <1>4, <1>5, <1>6

(* Between the two clock readings of a size lie options.iterations round trips. *)
THEOREM MeasuredRoundTripsHold == Spec => MeasuredRoundTrips
<1>1. IInv /\ [Next]_vars =>
          [sizes' # sizes => /\ timed = options[Sender].iterations
                             /\ timed = Asked(argv, cnt[Sender])
                             /\ \A r \in Rank : net[r] = <<>>]_vars
  BY PrintedStep
<1> QED BY <1>1, Inductive, PTL DEF Spec, MeasuredRoundTrips

-----------------------------------------------------------------------------
(* The powers of two, up to the largest a count can be.                    *)
LEMMA Power2Is ==
    /\ Power2[0] = 1
    /\ \A k \in Nat : k + 1 <= MaxNumElems => Power2[k+1] = 2 * Power2[k]
<1> DEFINE n == MaxNumElems
           Is(m, f) == f = [k \in 0 .. m |-> IF k = 0 THEN 1 ELSE 2 * f[k-1]]
           S == {m \in Nat : \E f : Is(m, f)}
<1>1. n \in Nat /\ n >= 1
  BY LatencyAssumption, SMT
<1>2. 0 \in S
  <2> DEFINE f == [k \in 0 .. 0 |-> 1]
  <2>1. \A k \in 0 .. 0 : k = 0
    BY SMT
  <2>2. f = [k \in 0 .. 0 |-> IF k = 0 THEN 1 ELSE 2 * f[k-1]]
    BY <2>1
  <2> QED BY <2>2
<1>3. ASSUME NEW m \in S PROVE m + 1 \in S
  <2>1. PICK f : Is(m, f)
    OBVIOUS
  <2> DEFINE g == [k \in 0 .. m + 1 |-> IF k = m + 1 THEN 2 * f[m] ELSE f[k]]
  <2>2. /\ m \in Nat /\ m + 1 \in Nat /\ m + 1 # 0 /\ (m + 1) - 1 = m
        /\ \A k \in 0 .. m + 1 : k # m + 1 => k \in 0 .. m
        /\ \A k \in 0 .. m : k # m + 1 /\ k \in 0 .. m + 1 /\ (k # 0 => k - 1 \in 0 .. m)
        /\ m \in 0 .. m
    BY SMT
  <2>3. \A k \in 0 .. m : f[k] = IF k = 0 THEN 1 ELSE 2 * f[k-1]
    BY <2>1
  <2>4. \A k \in 0 .. m : g[k] = f[k]
    BY <2>2
  <2>5. ASSUME NEW k \in 0 .. m + 1
        PROVE  (IF k = m + 1 THEN 2 * f[m] ELSE f[k]) = IF k = 0 THEN 1 ELSE 2 * g[k-1]
    <3> HIDE DEF g
    <3>1. CASE k = m + 1
      BY <2>2, <2>4, <3>1, Zenon
    <3>2. CASE k # m + 1
      BY <2>2, <2>3, <2>4, <3>2, Zenon
    <3> QED BY <3>1, <3>2
  <2>6. g = [k \in 0 .. m + 1 |-> IF k = 0 THEN 1 ELSE 2 * g[k-1]]
    BY <2>5, Zenon
  <2> HIDE DEF g
  <2>7. Is(m + 1, g)
    BY <2>6
  <2> QED BY <2>2, <2>7
<1>4. S = Nat
  <2> HIDE DEF S
  <2>1. S \in SUBSET Nat
    BY DEF S
  <2> QED BY <1>2, <1>3, <2>1, Induction
<1>5. \E f : Is(n, f)
  BY <1>1, <1>4
<1>6. Is(n, Power2)
  <2>1. Power2 = CHOOSE f : Is(n, f)
    BY Zenon DEF Power2
  <2> HIDE DEF Is
  <2> QED BY <1>5, <2>1
<1>7. \A k \in 0 .. n : Power2[k] = IF k = 0 THEN 1 ELSE 2 * Power2[k-1]
  <2> HIDE DEF n
  <2> QED BY <1>6, Zenon
<1>8. 0 \in 0 .. n /\ \A k \in Nat : k + 1 <= n => k + 1 \in 0 .. n /\ k + 1 # 0 /\ (k + 1) - 1 = k
  BY <1>1, SMT
<1>9. Power2[0] = 1
  BY <1>7, <1>8
<1>10. ASSUME NEW k \in Nat, k + 1 <= n PROVE Power2[k+1] = 2 * Power2[k]
  <2>1. k + 1 \in 0 .. n /\ k + 1 # 0 /\ (k + 1) - 1 = k
    BY <1>8, <1>10
  <2> QED BY <1>7, <2>1, Zenon
<1> QED BY <1>9, <1>10

(* ... times a number: they double, and grow past any.                     *)
LEMMA Multiples ==
    ASSUME NEW b \in Nat \ {0}
    PROVE  /\ Power2[0] * b = b
           /\ \A k \in 0 .. MaxNumElems :
                 /\ Power2[k] * b \in Nat /\ Power2[k] * b >= k + 1
                 /\ k + 1 <= MaxNumElems => Power2[k+1] * b = 2 * (Power2[k] * b)
<1> DEFINE n == MaxNumElems
           S == {k \in Nat : k <= n => Power2[k] \in Nat /\ Power2[k] >= k + 1}
<1>1. n \in Nat /\ n >= 1
  BY LatencyAssumption, SMT
<1>2. 0 \in S
  BY Power2Is, SMT
<1>3. ASSUME NEW k \in S PROVE k + 1 \in S
  <2> SUFFICES ASSUME k + 1 <= n PROVE Power2[k+1] \in Nat /\ Power2[k+1] >= (k + 1) + 1
    BY SMT
  <2>1. k \in Nat /\ k <= n
    BY <1>1, SMT
  <2>2. Power2[k+1] = 2 * Power2[k] /\ Power2[k] \in Nat /\ Power2[k] >= k + 1
    BY <2>1, Power2Is
  <2> QED BY <2>1, <2>2, SMT
<1>4. S = Nat
  <2> HIDE DEF S
  <2>1. S \in SUBSET Nat
    BY DEF S
  <2> QED BY <1>2, <1>3, <2>1, Induction
<1>5. \A k \in 0 .. n : k \in Nat /\ k <= n
  BY <1>1, SMT
<1>6. ASSUME NEW k \in 0 .. n PROVE Power2[k] \in Nat /\ Power2[k] >= k + 1
  BY <1>4, <1>5
<1>7. ASSUME NEW k \in 0 .. n PROVE Power2[k] * b \in Nat /\ Power2[k] * b >= k + 1
  <2> DEFINE p == Power2[k]
  <2>1. p \in Nat /\ p >= k + 1 /\ k \in Nat
    BY <1>5, <1>6
  <2> HIDE DEF p
  <2>2. p * 1 <= p * b /\ p * b \in Nat /\ p * 1 = p
    BY <2>1, SMT
  <2>3. p * b >= k + 1
    <3> DEFINE v == p * b
    <3> HIDE DEF v
    <3> QED BY <2>1, <2>2, SMT DEF v
  <2> QED BY <2>2, <2>3 DEF p
<1>8. ASSUME NEW k \in 0 .. n, k + 1 <= n PROVE Power2[k+1] * b = 2 * (Power2[k] * b)
  <2> DEFINE p == Power2[k]
             t == Power2[k+1]
  <2>1. p \in Nat /\ t = 2 * p
    BY <1>5, <1>6, <1>8, Power2Is
  <2> HIDE DEF p, t
  <2>2. (2 * p) * b = 2 * (p * b)
    BY <2>1, SMT
  <2> QED BY <2>1, <2>2 DEF p, t
<1>9. Power2[0] * b = b
  BY Power2Is, SMT
<1> QED BY <1>7, <1>8, <1>9

(* Counts that double from the first, none above the maximum.              *)
Doubling(s, f) ==
    /\ s # <<>> => s[1] = f
    /\ \A k \in 1 .. Len(s) : s[k] <= MaxNumElems
    /\ \A k \in 1 .. Len(s) - 1 : s[k+1] = Double(s[k])
Following(s, f) == IF s = <<>> THEN f ELSE Double(s[Len(s)])

(* They increase ...                                                       *)
LEMMA Increasing ==
    ASSUME NEW s \in Seq(Nat), NEW f, Doubling(s, f)
    PROVE  \A j, k \in DOMAIN s : j < k => s[j] < s[k]
<1> DEFINE S == {m \in Nat : \A j \in Nat \ {0} : j + m + 1 <= Len(s) => s[j] < s[j+m+1]}
<1>1. Len(s) \in Nat /\ \A k \in 1 .. Len(s) : s[k] \in Nat
  OBVIOUS
<1>2. ASSUME NEW k \in Nat \ {0}, k + 1 <= Len(s) PROVE s[k] < s[k+1]
  <2>1. k \in 1 .. Len(s) /\ k \in 1 .. Len(s) - 1
    BY <1>1, <1>2, SMT
  <2>2. s[k] \in Nat /\ s[k+1] = Double(s[k])
    BY <1>1, <2>1 DEF Doubling
  <2> QED BY <2>2, SMT DEF Double
<1>3. 0 \in S
  BY <1>2, SMT
<1>4. ASSUME NEW m \in S PROVE m + 1 \in S
  <2>1. ASSUME NEW j \in Nat \ {0}, j + (m + 1) + 1 <= Len(s) PROVE s[j] < s[j+(m+1)+1]
    <3>1. /\ j + m + 1 <= Len(s) /\ j + m + 1 \in Nat \ {0} /\ (j + m + 1) + 1 <= Len(s)
          /\ (j + m + 1) + 1 = j + (m + 1) + 1
      BY <1>1, <2>1, SMT
    <3>2. s[j] < s[j+m+1] /\ s[j+m+1] < s[j+(m+1)+1]
      BY <1>2, <3>1
    <3>3. s[j] \in Nat /\ s[j+m+1] \in Nat /\ s[j+(m+1)+1] \in Nat
      <4>1. j \in 1 .. Len(s) /\ j + m + 1 \in 1 .. Len(s) /\ j + (m + 1) + 1 \in 1 .. Len(s)
        BY <1>1, <2>1, SMT
      <4> QED BY <1>1, <4>1
    <3> DEFINE x == s[j]
               y == s[j+m+1]
               z == s[j+(m+1)+1]
    <3> HIDE DEF x, y, z
    <3> QED BY <3>2, <3>3, SMT DEF x, y, z
  <2> QED BY <2>1
<1>5. S = Nat
  <2> HIDE DEF S
  <2>1. S \in SUBSET Nat
    BY DEF S
  <2> QED BY <1>3, <1>4, <2>1, Induction
<1>6. ASSUME NEW j \in DOMAIN s, NEW k \in DOMAIN s, j < k PROVE s[j] < s[k]
  <2> DEFINE m == k - j - 1
  <2>1. DOMAIN s = 1 .. Len(s)
    OBVIOUS
  <2>2. m \in Nat /\ j \in Nat \ {0} /\ j + m + 1 = k /\ k <= Len(s)
    BY <1>1, <1>6, <2>1, SMT
  <2> HIDE DEF m
  <2>3. m \in S
    BY <1>5, <2>2
  <2> QED BY <2>2, <2>3
<1> QED BY <1>6

(* ... and are all the first doubled, once the next one is too large.      *)
LEMMA DoublingIs ==
    ASSUME NEW s \in Seq(Nat), NEW f \in Nat, Doubling(s, f), s # <<>>,
           Following(s, f) > MaxNumElems,
           NEW b, b = IF f = 0 THEN 1 ELSE f
    PROVE  {s[k] : k \in DOMAIN s} =
               {n \in f .. MaxNumElems : n = f \/ \E k \in 0 .. MaxNumElems : n = Power2[k] * b}
<1> DEFINE top == MaxNumElems
           off == IF f = 0 THEN 1 ELSE 0
           len == Len(s)
           A == {k \in Nat : k + 1 + off <= len => k <= top /\ s[k+1+off] = Power2[k] * b}
           B == {k \in Nat : k <= top /\ Power2[k] * b <= top => k + 1 + off <= len}
<1>1. /\ len \in Nat /\ len >= 1 /\ top \in Nat /\ top >= 1 /\ b \in Nat \ {0} /\ off \in {0, 1}
      /\ DOMAIN s = 1 .. len
  BY LatencyAssumption, SMT
<1>2. \A k \in 1 .. len : s[k] \in Nat /\ s[k] <= top
  BY DEF Doubling
<1>3. s[1] = f /\ \A k \in Nat : k >= 1 /\ k + 1 <= len => s[k+1] = Double(s[k])
  BY <1>1, SMT DEF Doubling
<1>4. Double(s[len]) > top
  BY DEF Following
<1>5. /\ Power2[0] * b = b
      /\ \A k \in Nat : k <= top =>
            /\ Power2[k] * b \in Nat /\ Power2[k] * b >= k + 1
            /\ k + 1 <= top => Power2[k+1] * b = 2 * (Power2[k] * b)
  <2>1. \A k \in Nat : k <= top => k \in 0 .. top
    BY <1>1, SMT
  <2> QED BY <1>1, <2>1, Multiples
<1>6. 1 + off <= len /\ s[1+off] = b
  <2>1. CASE f = 0
    <3>1. off = 1 /\ b = 1 /\ Double(f) = 1
      BY <2>1 DEF Double
    <3>2. len # 1
      BY <1>1, <1>3, <1>4, <3>1, SMT
    <3>3. 1 + 1 <= len
      BY <1>1, <3>2, SMT
    <3>4. s[1+1] = Double(s[1])
      BY <1>3, <3>3, SMT
    <3> QED BY <1>3, <3>1, <3>3, <3>4
  <2>2. CASE f # 0
    <3>1. off = 0 /\ b = f /\ 1 + 0 = 1
      BY <2>2, SMT
    <3> QED BY <1>1, <1>3, <3>1
  <2> QED BY <2>1, <2>2
<1> HIDE DEF off
<1>7. ASSUME NEW n \in Nat, n >= 1 PROVE Double(n) = 2 * n
  BY <1>7, SMT DEF Double
<1>8. 0 \in A /\ 0 \in B
  BY <1>1, <1>5, <1>6, SMT
<1>9. ASSUME NEW k \in A PROVE k + 1 \in A
  <2> SUFFICES ASSUME (k + 1) + 1 + off <= len
               PROVE  k + 1 <= top /\ s[(k+1)+1+off] = Power2[k+1] * b
    BY SMT
  <2> DEFINE x == s[k+1+off]
             y == s[(k+1)+1+off]
             p == Power2[k] * b
             q == Power2[k+1] * b
  <2>1. /\ k \in Nat /\ k + 1 + off <= len /\ k + 1 + off \in Nat /\ k + 1 + off >= 1
        /\ (k + 1 + off) + 1 = (k + 1) + 1 + off
        /\ (k + 1) + 1 + off \in 1 .. len
    BY <1>1, SMT
  <2>2. k <= top /\ x = p
    BY <2>1
  <2>3. p \in Nat /\ p >= k + 1 /\ (k + 1 <= top => q = 2 * p)
    BY <1>5, <2>1, <2>2
  <2>4. y = Double(x) /\ y \in Nat /\ y <= top
    BY <1>2, <1>3, <2>1
  <2> HIDE DEF x, y, p, q
  <2>5. p >= 1
    BY <2>1, <2>3, SMT
  <2>6. y = 2 * p
    BY <1>7, <2>2, <2>3, <2>4, <2>5
  <2>7. k + 1 <= top
    BY <1>1, <2>1, <2>3, <2>4, <2>6, SMT
  <2> QED BY <2>3, <2>6, <2>7 DEF y, q
<1>10. A = Nat
  <2> HIDE DEF A
  <2>1. A \in SUBSET Nat
    BY DEF A
  <2> QED BY <1>8, <1>9, <2>1, Induction
<1>11. ASSUME NEW k \in B PROVE k + 1 \in B
  <2> SUFFICES ASSUME k + 1 <= top, Power2[k+1] * b <= top PROVE (k + 1) + 1 + off <= len
    BY SMT
  <2> DEFINE p == Power2[k] * b
             q == Power2[k+1] * b
             x == s[k+1+off]
  <2>1. k \in Nat /\ k <= top
    BY <1>1, SMT
  <2>2. p \in Nat /\ p >= k + 1 /\ q = 2 * p /\ q <= top
    BY <1>5, <2>1
  <2>3. p <= top => k + 1 + off <= len
    BY <2>1
  <2>4. k \in A
    BY <1>10, <2>1
  <2>5. k + 1 + off <= len => x = p
    BY <2>4
  <2> HIDE DEF p, q, A
  <2>6. p <= top /\ p >= 1
    BY <1>1, <2>1, <2>2, SMT
  <2>7. k + 1 + off <= len /\ x = p
    BY <2>3, <2>5, <2>6
  <2>8. k + 1 + off # len
    <3>1. Double(p) = q
      BY <1>7, <2>2, <2>6
    <3>2. k + 1 + off = len => Double(p) > top
      BY <1>4, <2>7 DEF x
    <3>3. q \in Nat /\ ~(q > top)
      BY <1>1, <2>2, SMT
    <3> QED BY <3>1, <3>2, <3>3, Zenon
  <2>9. k + 1 + off <= len
    BY <2>7
  <2>10. \A u, v, w \in Nat : u + 1 + v <= w /\ u + 1 + v # w => (u + 1) + 1 + v <= w
    BY SMT
  <2>11. off \in Nat
    BY <1>1, SMT
  <2> QED BY <1>1, <2>1, <2>8, <2>9, <2>10, <2>11, Zenon
<1>12. B = Nat
  <2> HIDE DEF B
  <2>1. B \in SUBSET Nat
    BY DEF B
  <2> QED BY <1>8, <1>11, <2>1, Induction
<1>13. ASSUME NEW j \in DOMAIN s
       PROVE  s[j] \in f .. top /\ (s[j] = f \/ \E k \in 0 .. top : s[j] = Power2[k] * b)
  <2>1. s[j] \in Nat /\ s[j] <= top /\ (j # 1 => f < s[j])
    <3>1. j # 1 => 1 < j /\ 1 \in DOMAIN s
      BY <1>1, SMT
    <3> QED BY <1>1, <1>2, <1>3, <3>1, Increasing
  <2>2. s[j] \in f .. top
    BY <1>1, <1>3, <2>1, SMT
  <2>3. CASE j = 1
    BY <1>3, <2>2, <2>3
  <2>4. CASE j # 1
    <3> DEFINE k == j - 1 - off
    <3>1. k \in Nat /\ k + 1 + off = j /\ j <= len
      BY <1>1, <2>4, SMT
    <3> HIDE DEF k
    <3>2. k \in A
      BY <1>10, <3>1
    <3>3. k <= top /\ s[j] = Power2[k] * b
      BY <3>1, <3>2
    <3>4. k \in 0 .. top
      BY <1>1, <3>1, <3>3, SMT
    <3> QED BY <2>2, <3>3, <3>4
  <2> QED BY <2>3, <2>4
<1>14. ASSUME NEW n \in f .. top, n = f \/ \E k \in 0 .. top : n = Power2[k] * b
       PROVE  \E j \in DOMAIN s : n = s[j]
  <2>1. CASE n = f
    <3>1. 1 \in DOMAIN s
      BY <1>1, SMT
    <3> QED BY <1>3, <2>1, <3>1
  <2>2. ASSUME NEW k \in 0 .. top, n = Power2[k] * b PROVE \E j \in DOMAIN s : n = s[j]
    <3>1. n <= top /\ k \in Nat /\ k <= top
      BY <1>1, SMT
    <3>2. k \in A /\ k \in B
      BY <1>10, <1>12, <3>1
    <3>3. k + 1 + off <= len
      BY <2>2, <3>1, <3>2
    <3>4. s[k+1+off] = n
      BY <2>2, <3>2, <3>3
    <3>5. k + 1 + off \in DOMAIN s
      BY <1>1, <3>1, <3>3, SMT
    <3> QED BY <3>4, <3>5
  <2> QED BY <1>14, <2>1, <2>2
<1> QED BY <1>13, <1>14

(* What the sender has printed, and the count it is at.                    *)
Printed ==
    /\ Doubling(sizes, First)
    /\ pc[Sender] \in {"start", "start_barrier"} => sizes = <<>>
    /\ pc[Sender] \in {"head"} \cup InSize => cnt[Sender] = Following(sizes, First)
    /\ pc[Sender] = "done" /\ Pos(Sender) > 0 => Following(sizes, First) > MaxNumElems

(* One more count, that follows the ones before it.                        *)
LEMMA DoublingStep ==
    ASSUME NEW s \in Seq(Nat), NEW f, Doubling(s, f),
           NEW n \in Nat, n = Following(s, f), n <= MaxNumElems
    PROVE  Doubling(Append(s, n), f) /\ Following(Append(s, n), f) = Double(n)
<1> DEFINE t == Append(s, n)
<1>1. /\ Len(s) \in Nat /\ Len(t) = Len(s) + 1 /\ t[Len(s)+1] = n /\ t # <<>>
      /\ \A k \in 1 .. Len(s) : t[k] = s[k]
      /\ s = <<>> => Len(s) = 0
      /\ s # <<>> => Len(s) >= 1
  BY SMT
<1> HIDE DEF t
<1>2. t[1] = f
  <2>1. CASE s = <<>>
    <3>1. Len(s) + 1 = 1
      BY <1>1, <2>1, SMT
    <3> QED BY <1>1, <2>1, <3>1 DEF Following
  <2>2. CASE s # <<>>
    <3>1. 1 \in 1 .. Len(s)
      BY <1>1, <2>2, SMT
    <3> QED BY <1>1, <2>2, <3>1 DEF Doubling
  <2> QED BY <2>1, <2>2
<1>3. ASSUME NEW k \in 1 .. Len(t) PROVE t[k] <= MaxNumElems
  <2>1. k \in 1 .. Len(s) \/ k = Len(s) + 1
    BY <1>1, SMT
  <2> QED BY <1>1, <2>1 DEF Doubling
<1>4. ASSUME NEW k \in 1 .. Len(t) - 1 PROVE t[k+1] = Double(t[k])
  <2>1. k \in 1 .. Len(s)
    BY <1>1, SMT
  <2>2. CASE k = Len(s)
    <3>1. s # <<>>
      BY <1>1, <2>1, <2>2, SMT
    <3> QED BY <1>1, <2>1, <2>2, <3>1 DEF Following
  <2>3. CASE k # Len(s)
    <3>1. k \in 1 .. Len(s) - 1 /\ k + 1 \in 1 .. Len(s)
      BY <1>1, <2>1, <2>3, SMT
    <3> QED BY <1>1, <2>1, <3>1 DEF Doubling
  <2> QED BY <2>2, <2>3
<1>5. Doubling(t, f)
  BY <1>2, <1>3, <1>4 DEF Doubling
<1>6. Following(t, f) = Double(n)
  BY <1>1 DEF Following
<1> QED BY <1>5, <1>6 DEF t

(* Nothing is printed to begin with.                                       *)
LEMMA PrintedInit == Init => Printed
<1> SUFFICES ASSUME Init PROVE Printed
  OBVIOUS
<1>1. sizes = <<>> /\ pc[Sender] = "start" /\ Len(<<>>) = 0
  BY SenderAssumption DEF Init
<1>2. 1 .. Len(<<>>) = {} /\ 1 .. Len(<<>>) - 1 = {}
  BY SMT
<1> QED BY <1>1, <1>2 DEF Printed, Doubling, InSize

(* ... and every step preserves it: EndSize adds the next count, and Finish
   ends the list only past the maximum.                                    *)
LEMMA PrintedNext == ASSUME IInv, Printed, [Next]_vars PROVE Printed'
<1> USE SenderAssumption, LatencyAssumption
<1>1. TypeOK /\ Own(Sender) /\ cnt[Sender] \in Int /\ Pos(Sender) \in Nat
  <2>1. TypeOK /\ Own(Sender)
    BY DEF IInv
  <2> QED BY <2>1, PosNat DEF TypeOK
<1>2. CASE UNCHANGED <<argv, sizes>> /\ pc'[Sender] = pc[Sender] /\ cnt'[Sender] = cnt[Sender]
           /\ Pos(Sender)' = Pos(Sender)
  <2>1. First' = First
    BY <1>2 DEF First, Base
  <2> QED BY <1>2, <2>1 DEF Printed, Doubling, Following
<1>3. CASE UNCHANGED vars \/ Terminating
  <2>1. UNCHANGED <<argv, sizes, pc, calls, cnt>>
    BY <1>3 DEF Terminating, vars, job
  <2> QED BY <1>2, <2>1 DEF Pos
<1>4. ASSUME NEW r \in Rank, r # Sender, LocalStep(r) \/ SendReturns(r) \/ Launcher(r)
      PROVE  Printed'
  <2>1. sizes' = sizes
    BY <1>4 DEF LocalStep, Launcher, LeaveEarly, OutOfMemory, Setup, PassStartBarrier, NextSize,
       PassSizeBarrier, Iterate, BadCount, Send, SendReturns, Recv, EndSize, Finish
  <2>2. /\ pc'[Sender] = pc[Sender] /\ cnt'[Sender] = cnt[Sender]
        /\ Pos(Sender)' = Pos(Sender) /\ argv' = argv
    BY <1>1, <1>4, OthersKeep
  <2> QED BY <1>2, <2>1, <2>2
<1>5. ASSUME LocalStep(Sender) \/ SendReturns(Sender) \/ Launcher(Sender) PROVE Printed'
  <2>1. argv' = argv
    BY <1>5 DEF LocalStep, Launcher, LeaveEarly, OutOfMemory, Setup, PassStartBarrier, NextSize,
       PassSizeBarrier, Iterate, BadCount, Send, SendReturns, Recv, EndSize, Finish, job
  <2>2. First' = First
    BY <2>1 DEF First, Base
  <2>3. ASSUME sizes' = sizes PROVE Doubling(sizes, First)' /\ Following(sizes, First)' = Following(sizes, First)
    BY <2>2, <2>3 DEF Printed, Doubling, Following
  <2>4. CASE OutOfMemory(Sender) \/ BadCount(Sender) \/ Launcher(Sender)
    <3>1. pc'[Sender] \in {"aborted", "killed"} /\ sizes' = sizes
      BY <1>1, <2>4 DEF OutOfMemory, BadCount, Launcher, Kill, Goto, TypeOK, Stopped, Failed
    <3> QED BY <2>3, <3>1 DEF Printed, InSize
  <2>5. CASE LeaveEarly(Sender)
    <3>1. pc[Sender] = "start" /\ pc'[Sender] = "done" /\ sizes' = sizes /\ calls' = calls
      BY <1>1, <2>5 DEF LeaveEarly, Goto, TypeOK
    <3>2. Pos(Sender)' = 0 /\ ~(0 > 0)
      <4>1. Pos(Sender) = 0 /\ Pos(Sender)' = Pos(Sender)
        BY <1>1, <3>1 DEF Own, Pos
      <4> QED BY <4>1, SMT
    <3> QED BY <2>3, <3>1, <3>2 DEF Printed, InSize
  <2>6. CASE Setup(Sender)
    <3>1. pc[Sender] = "start" /\ pc'[Sender] = "start_barrier" /\ sizes' = sizes
      BY <1>1, <2>6 DEF Setup, Goto, TypeOK
    <3> QED BY <2>3, <3>1 DEF Printed, InSize
  <2>7. CASE PassStartBarrier(Sender)
    <3>1. /\ pc[Sender] = "start_barrier" /\ pc'[Sender] = "head" /\ sizes' = sizes
          /\ cnt'[Sender] = First
      BY <1>1, <2>7 DEF PassStartBarrier, Goto, TypeOK, Own, First
    <3>2. Following(sizes, First) = First
      BY <3>1 DEF Printed, Following
    <3> QED BY <2>3, <3>1, <3>2 DEF Printed, InSize
  <2>8. CASE NextSize(Sender) \/ PassSizeBarrier(Sender) \/ Iterate(Sender) \/ Send(Sender)
             \/ SendReturns(Sender) \/ Recv(Sender)
    <3>1. /\ pc[Sender] \in {"head"} \cup InSize /\ pc'[Sender] \in InSize
          /\ sizes' = sizes /\ cnt'[Sender] = cnt[Sender]
      BY <1>1, <2>8 DEF NextSize, PassSizeBarrier, Iterate, Send, SendReturns, Recv, AfterCall,
         Body, Goto, TypeOK, InSize
    <3> QED BY <2>3, <3>1 DEF Printed, InSize
  <2>9. CASE EndSize(Sender)
    <3>1. /\ pc[Sender] = "loop" /\ pc'[Sender] = "head" /\ ~(i[Sender] < Limit(Sender))
          /\ sizes' = Append(sizes, cnt[Sender]) /\ cnt'[Sender] = Double(cnt[Sender])
      BY <1>1, <2>9 DEF EndSize, MoreIterations, Limit, Goto, TypeOK
    <3>2. cnt[Sender] \in Nat /\ cnt[Sender] <= MaxNumElems
      <4>1. Limit(Sender) > 0 /\ Limit(Sender) \in Nat
        <5>1. pc[Sender] \in InSize
          BY <3>1 DEF InSize
        <5>2. /\ options[Sender] = IF cnt[Sender] > LargeElems THEN Switched ELSE Base
              /\ ProcessOptions(argv).ret = "okay"
          BY <1>1, <5>1 DEF Own
        <5>3. options[Sender].iterations > 0 /\ options[Sender].iterations \in Nat
              /\ options[Sender].skip \in Nat
          BY <1>1, <5>2, BaseNumbers DEF TypeOK, Options
        <5> QED BY <5>3, SMT DEF Limit
      <4>2. i[Sender] \in Nat /\ (i[Sender] > 0 => cnt[Sender] >= 0) /\ cnt[Sender] <= MaxNumElems
        BY <1>1, <3>1 DEF Own, TypeOK, InSize
      <4>3. i[Sender] > 0
        BY <3>1, <4>1, <4>2, SMT
      <4> QED BY <1>1, <4>2, <4>3, SMT
    <3>3. sizes \in Seq(Nat) /\ Doubling(sizes, First) /\ cnt[Sender] = Following(sizes, First)
      BY <1>1, <3>1 DEF TypeOK, Printed, InSize
    <3>4. /\ Doubling(Append(sizes, cnt[Sender]), First)
          /\ Following(Append(sizes, cnt[Sender]), First) = Double(cnt[Sender])
      BY <3>2, <3>3, DoublingStep
    <3>5. Doubling(sizes, First)' /\ Following(sizes, First)' = Double(cnt[Sender])
      BY <2>2, <3>1, <3>4 DEF Doubling, Following
    <3> QED BY <3>1, <3>5 DEF Printed
  <2>10. CASE Finish(Sender)
    <3>1. /\ pc[Sender] = "head" /\ pc'[Sender] = "done" /\ sizes' = sizes
          /\ ~(cnt[Sender] <= MaxNumElems)
      BY <1>1, <2>10 DEF Finish, MoreSizes, Goto, TypeOK
    <3>2. Following(sizes, First) = cnt[Sender] /\ cnt[Sender] > MaxNumElems
      BY <1>1, <3>1, SMT DEF Printed
    <3> QED BY <2>3, <3>1, <3>2 DEF Printed, InSize
  <2> QED BY <1>5, <2>4, <2>5, <2>6, <2>7, <2>8, <2>9, <2>10 DEF LocalStep
<1> QED BY <1>3, <1>4, <1>5 DEF Next

(* When the sender is done, it has printed every count.                    *)
LEMMA PrintedAll == IInv /\ Printed => EverySize
<1> SUFFICES ASSUME IInv, Printed, pc[Sender] = "done", calls[Sender] # <<>>,
                    NEW b, b = IF First = 0 THEN 1 ELSE First
             PROVE  /\ {sizes[k] : k \in DOMAIN sizes} =
                          {n \in First .. MaxNumElems : n = First \/
                              \E k \in 0 .. MaxNumElems : n = Power2[k] * b}
                    /\ \A j, k \in DOMAIN sizes : j < k => sizes[j] < sizes[k]
  BY Zenon DEF EverySize, First, Base
<1>1. TypeOK /\ sizes \in Seq(Nat) /\ Doubling(sizes, First)
  BY DEF IInv, TypeOK, Printed
<1>2. Following(sizes, First) > MaxNumElems
  <2>1. Pos(Sender) > 0
    BY <1>1, SenderAssumption, SMT DEF TypeOK, Pos
  <2> QED BY <2>1 DEF Printed
<1>3. \A j, k \in DOMAIN sizes : j < k => sizes[j] < sizes[k]
  BY <1>1, Increasing
<1>4. CASE sizes = <<>>
  <2>1. First > MaxNumElems
    BY <1>2, <1>4 DEF Following
  <2>2. First .. MaxNumElems = {}
    BY <2>1, LatencyAssumption, SMT
  <2> QED BY <1>3, <1>4, <2>2
<1>5. CASE sizes # <<>>
  <2>1. First \in Nat
    BY <1>1, <1>5, SMT DEF Doubling
  <2> QED BY <1>1, <1>2, <1>3, <1>5, <2>1, DoublingIs
<1> QED BY <1>4, <1>5

(* A run that ends by itself has printed a latency for every count from the*)
(* minimum to MAX_NUM_ELEMS that doubling reaches, once each, in order.    *)
THEOREM EverySizeHolds == Spec => []EverySize
<1>1. Init => IInv /\ Printed
  BY InitIInv, PrintedInit
<1>2. IInv /\ Printed /\ [Next]_vars => IInv' /\ Printed'
  BY NextIInv, PrintedNext
<1>3. IInv /\ Printed => EverySize
  BY PrintedAll
<1> QED BY <1>1, <1>2, <1>3, PTL DEF Spec
=============================================================================
