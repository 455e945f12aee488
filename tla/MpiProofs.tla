------------------------------ MODULE MpiProofs ------------------------------
(***************************************************************************)
(* Lemmas the proofs about the programs share: what entering a collective  *)
(* does to the histories, what the return of one tells about them, and the *)
(* arithmetic of loops over blocks.                                        *)
(***************************************************************************)
EXTENDS MpiWorld, Integers, FiniteSets, FiniteSetTheorems, WellFoundedInduction, TLAPS

(* How many collectives rank r has entered.                                *)
Pos(r) == Len(calls[r])

(* The calls of op in a history from the m-th on.                          *)
Calls(m, s, op) == {k \in m .. Len(s) : s[k] = op}

-----------------------------------------------------------------------------
(* Entering a collective lengthens one history by one.                     *)
LEMMA EnterPos ==
    ASSUME calls \in [Rank -> Seq(Collective)],
           NEW r \in Rank, NEW op \in Collective, Enter(r, op)
    PROVE  /\ calls' \in [Rank -> Seq(Collective)]
           /\ Pos(r)' = Pos(r) + 1
           /\ \A q \in Rank \ {r} : Pos(q)' = Pos(q)
<1>1. calls' = [calls EXCEPT ![r] = Append(calls[r], op)]
  BY DEF Enter
<1>2. calls[r] \in Seq(Collective) /\ Append(calls[r], op) \in Seq(Collective)
  BY SMT
<1>3. Len(Append(calls[r], op)) = Len(calls[r]) + 1
  BY <1>2, SMT
<1> QED BY <1>1, <1>2, <1>3 DEF Pos

(* A rank has entered some number of collectives.                          *)
LEMMA PosNat ==
    ASSUME calls \in [Rank -> Seq(Collective)]
    PROVE  \A r \in Rank : Pos(r) \in Nat
<1> TAKE r \in Rank
<1>1. calls[r] \in Seq(Collective)
  OBVIOUS
<1>2. Len(calls[r]) \in Nat
  BY <1>1
<1> QED BY <1>2 DEF Pos

(* What the returns of the collectives tell about the histories.           *)
LEMMA ReturnsPos ==
    ASSUME NEW r \in Rank
    PROVE  /\ BcastReturns(r) => Pos(Sender) >= Pos(r)
           /\ r = Sender /\ GatherReturns(r) => \A q \in Rank : Pos(q) >= Pos(r)
           /\ BarrierReturns(r) => \A q \in Rank : Pos(q) >= Pos(r)
  BY SenderAssumption, SMT DEF Joined, BcastReturns, GatherReturns, BarrierReturns, Pos

(* A history that grows by one call counts one more of its kind, and as    *)
(* many as before of the others.                                           *)
LEMMA AppendCounts ==
    ASSUME NEW S, NEW s \in Seq(S), NEW e \in S, NEW op,
           NEW m \in Nat \ {0}, m <= Len(s) + 1
    PROVE  /\ Cardinality(Calls(m, s, op)) \in Nat
           /\ Cardinality(Calls(m, Append(s, e), op)) =
                  Cardinality(Calls(m, s, op)) + (IF e = op THEN 1 ELSE 0)
<1> DEFINE t == Append(s, e)
           last == Len(s) + 1
<1>1. Len(s) \in Nat /\ Len(t) = last /\ t[last] = e /\ \A k \in 1 .. Len(s) : t[k] = s[k]
  BY SMT
<1>2. IsFiniteSet(Calls(m, s, op)) /\ Cardinality(Calls(m, s, op)) \in Nat
  <2>1. IsFiniteSet(m .. Len(s))
    BY <1>1, FS_Interval
  <2>2. Calls(m, s, op) \in SUBSET (m .. Len(s))
    BY DEF Calls
  <2>3. IsFiniteSet(Calls(m, s, op))
    BY <2>1, <2>2, FS_Subset
  <2> QED BY <2>3, FS_CardinalityType
<1>3. last \notin Calls(m, s, op)
  BY <1>1, SMT DEF Calls
<1>4. CASE e = op
  <2>1. Calls(m, t, op) = Calls(m, s, op) \cup {last}
    BY <1>1, <1>4, SMT DEF Calls
  <2> HIDE DEF t, last
  <2> QED BY <1>2, <1>3, <1>4, <2>1, FS_AddElement DEF t
<1>5. CASE e # op
  <2>1. Calls(m, t, op) = Calls(m, s, op)
    BY <1>1, <1>5, SMT DEF Calls
  <2> HIDE DEF t, last
  <2> QED BY <1>2, <1>5, <2>1 DEF t
<1> QED BY <1>2, <1>4, <1>5

(* Where the first Bcast of the sender sets the programs up, the others    *)
(* announce the rounds.                                                    *)
LaterBcasts == Cardinality(Calls(2, calls[Sender], "bcast"))

(* A history of at most one call has no later Bcast.                       *)
LEMMA NoCalls ==
    ASSUME NEW s, NEW op, Len(s) \in Nat, Len(s) <= 1
    PROVE  Cardinality(Calls(2, s, op)) = 0
<1>1. Calls(2, s, op) = {}
  BY SMT DEF Calls
<1> QED BY <1>1, FS_EmptySet

(* The sender's next call counts if it is a Bcast and not its first call.  *)
LEMMA EnterCounts ==
    ASSUME calls \in [Rank -> Seq(Collective)], NEW op \in Collective, Enter(Sender, op)
    PROVE  /\ Pos(Sender) = 0 => LaterBcasts' = 0
           /\ Pos(Sender) > 0 =>
                 LaterBcasts' = IF op = "bcast" THEN LaterBcasts + 1 ELSE LaterBcasts
<1>1. calls[Sender] \in Seq(Collective) /\ calls'[Sender] = Append(calls[Sender], op)
  BY SenderAssumption DEF Enter
<1>2. Len(calls[Sender]) \in Nat /\ Len(calls'[Sender]) = Len(calls[Sender]) + 1
  BY <1>1, SMT
<1>3. /\ LaterBcasts = Cardinality(Calls(2, calls[Sender], "bcast"))
      /\ LaterBcasts' = Cardinality(Calls(2, calls'[Sender], "bcast"))
  BY DEF LaterBcasts, Calls
<1>4. ASSUME Pos(Sender) = 0 PROVE LaterBcasts' = 0
  <2>1. Len(calls'[Sender]) \in Nat /\ Len(calls'[Sender]) <= 1
    BY <1>2, <1>4, SMT DEF Pos
  <2> QED BY <1>3, <2>1, NoCalls
<1>5. ASSUME Pos(Sender) > 0
      PROVE  LaterBcasts' = IF op = "bcast" THEN LaterBcasts + 1 ELSE LaterBcasts
  <2>1. 2 \in Nat \ {0} /\ 2 <= Len(calls[Sender]) + 1
    BY <1>2, <1>5, SMT DEF Pos
  <2>2. /\ LaterBcasts \in Nat
        /\ LaterBcasts' = LaterBcasts + (IF op = "bcast" THEN 1 ELSE 0)
    BY <1>1, <1>3, <2>1, AppendCounts
  <2> QED BY <2>2, SMT
<1> QED BY <1>4, <1>5

-----------------------------------------------------------------------------
(* Arithmetic of the copy loops: offsets grow by one block at a time and   *)
(* never pass the end of the buffer.                                       *)
LEMMA MulZero == ASSUME NEW b \in Nat PROVE 0 * b = 0
  BY SMT

(* One block more moves the offset by one block.                           *)
LEMMA MulSucc ==
    ASSUME NEW k \in Nat, NEW b \in Nat
    PROVE  (k + 1) * b = k * b + b /\ k * b \in Nat
  BY SMT

(* Later blocks lie at higher offsets.                                     *)
LEMMA MulMonotone ==
    ASSUME NEW k \in Nat, NEW m \in Nat, NEW b \in Nat, k <= m
    PROVE  k * b <= m * b
<1>1. PICK d \in Nat : m = k + d
  <2>1. m - k \in Nat /\ m = k + (m - k)
    BY SMT
  <2> QED BY <2>1
<1>2. (k + d) * b = k * b + d * b
  BY SMT
<1>3. d * b \in Nat /\ k * b \in Nat
  BY SMT
<1> QED BY <1>1, <1>2, <1>3, SMT

(* A whole block fits as long as the loop counter is below nblocks.        *)
LEMMA BlockFits ==
    ASSUME NEW n \in Nat, NEW b \in Nat \ {0}, NEW k \in Nat, k < n \div b
    PROVE  (k + 1) * b <= n /\ k + 1 <= n
<1>1. n \div b \in Nat /\ (n \div b) * b <= n
  BY SMT
<1>2. (k + 1) * b <= (n \div b) * b
  BY <1>1, MulMonotone, SMT
<1>3. k * b \in Nat /\ (k + 1) * b = k * b + b
  BY MulSucc
<1>4. (k + 1) * 1 <= (k + 1) * b
  <2>1. b = 1 + (b - 1) /\ b - 1 \in Nat
    BY SMT
  <2>2. (k + 1) * (1 + (b - 1)) = (k + 1) * 1 + (k + 1) * (b - 1)
    BY <2>1, SMT
  <2>3. (k + 1) * (b - 1) \in Nat
    BY <2>1, SMT
  <2> QED BY <2>1, <2>2, <2>3, SMT
<1>5. (k + 1) * 1 = k + 1
  BY SMT
<1>6. (k + 1) * b \in Nat
  BY SMT
<1> QED BY <1>1, <1>2, <1>4, <1>5, <1>6, SMT

(* Which block a byte lies in.                                             *)
LEMMA InBlock ==
    ASSUME NEW x \in Nat, NEW b \in Nat \ {0}, NEW k \in Nat
    PROVE  x \div b \in Nat /\ (x \div b < k <=> x < k * b)
<1> DEFINE d == x \div b
<1>1. d \in Nat /\ d * b <= x /\ x < (d + 1) * b
  BY SMT
<1> HIDE DEF d
<1>2. d * b \in Nat /\ k * b \in Nat /\ (d + 1) * b \in Nat
  BY <1>1, MulSucc, SMT
<1>3. d < k => (d + 1) * b <= k * b
  BY <1>1, MulMonotone, SMT
<1>4. ~(d < k) => k * b <= d * b
  BY <1>1, MulMonotone, SMT
<1>5. d < k <=> x < k * b
  BY <1>1, <1>2, <1>3, <1>4, SMT
<1> QED BY <1>1, <1>5 DEF d

-----------------------------------------------------------------------------
(* Every set of naturals has a least element.                              *)
LEMMA Least ==
    ASSUME NEW S \in SUBSET Nat, S # {}
    PROVE  \E n \in S : \A m \in S : ~(m < n)
<1>1. \E x \in S : \A y \in S : <<y, x>> \notin OpToRel(<, Nat)
  BY NatLessThanWellFounded, WFMin
<1> QED BY <1>1 DEF OpToRel

(* A set that holds 0, and with every number the next, holds all of them:  *)
(* induction, for a property given as the set of the numbers that have it. *)
LEMMA Induction ==
    ASSUME NEW S \in SUBSET Nat, 0 \in S, \A n \in S : n + 1 \in S
    PROVE  S = Nat
<1> SUFFICES ASSUME Nat \ S # {} PROVE FALSE
  OBVIOUS
<1>1. PICK n \in Nat \ S : \A m \in Nat \ S : ~(m < n)
  <2>1. Nat \ S \in SUBSET Nat
    OBVIOUS
  <2> QED BY <2>1, Least
<1>2. n # 0
  BY <1>1
<1>3. n - 1 \in Nat /\ n - 1 < n /\ (n - 1) + 1 = n
  BY <1>1, <1>2, SMT
<1>4. n - 1 \in S
  BY <1>1, <1>3
<1> QED BY <1>1, <1>3, <1>4
=============================================================================
