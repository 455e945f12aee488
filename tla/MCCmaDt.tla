------------------------------ MODULE MCCmaDt ------------------------------
(* Bounds of the runs of CmaDt: one sender, two receivers, six bytes.      *)
(* Blocks of 1 byte need three full calls of two elements, blocks of 2     *)
(* need one full and one that overruns the lists, blocks of 3 one;         *)
(* 4 does not divide, 7 gives no block and 0 is rejected.                  *)
EXTENDS CmaDt

MCRank == 0 .. 2
MCSender == 0
MCBlockSizes == {0, 1, 2, 3, 4, 7}
MCGarbageLens == {0, 1}
=============================================================================
