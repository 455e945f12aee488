------------------------------ MODULE MCTestCma ------------------------------
(* Bounds of the run of TestCma: one sender, two receivers, a buffer of six*)
(* bytes (sizes 1, 2 and 4; six is no power of two), one warm-up and two   *)
(* timed reads.                                                            *)
EXTENDS TestCma

MCRank == 0 .. 2
MCSender == 0
=============================================================================
