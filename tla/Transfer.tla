------------------------------ MODULE Transfer ------------------------------
(***************************************************************************)
(* What every transport of the benchmark promises (the numbered comment    *)
(* before each benchmark loop): the sender announces one round of data at  *)
(* a time, every receiver copies the whole of each round exactly once, and *)
(* the sender starts no round before all receivers hold the previous one,  *)
(* and reports its latency only when all of them hold the last.            *)
(***************************************************************************)
EXTENDS Naturals

CONSTANTS Receiver,     \* the ranks the data goes to
          Rounds        \* how many rounds the program makes

VARIABLES sent,     \* the last round the sender announced
          held,     \* held[r]: the last round receiver r holds completely
          reported  \* the sender has stopped its clock and reports

Init ==
    /\ sent = 0
    /\ held = [r \in Receiver |-> 0]
    /\ reported = FALSE

Publish ==
    /\ sent < Rounds
    /\ \A r \in Receiver : held[r] = sent
    /\ sent' = sent + 1
    /\ UNCHANGED <<held, reported>>

Take(r) ==
    /\ held[r] < sent
    /\ held' = [held EXCEPT ![r] = sent]
    /\ UNCHANGED <<sent, reported>>

Report ==
    /\ sent = Rounds
    /\ \A r \in Receiver : held[r] = Rounds
    /\ reported' = TRUE
    /\ UNCHANGED <<sent, held>>

Next == Publish \/ Report \/ \E r \in Receiver : Take(r)

Spec == Init /\ [][Next]_<<sent, held, reported>>
=============================================================================
