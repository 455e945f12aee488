------------------------------- MODULE MCBench -------------------------------
(* Bounds of the run of Bench: one sender, two receivers, four bytes, two, *)
(* three or four to a page.  Block sizes 1 and 2 (below and from a page,   *)
(* straddling pages of three, all in one page of four), 3 (does not        *)
(* divide), and a rejected pair; chunks that divide the buffer and chunks  *)
(* that run past the lists; one warm-up and one timed round.               *)
EXTENDS Bench

MCRank == 0 .. 2
MCSender == 0
MCArgLists == {<<1, 2>>, <<3, 4>>, <<2, 1>>}
MCDepths == {2, 3}
MCPageSizes == {2, 3, 4}
=============================================================================
