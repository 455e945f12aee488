------------------------------ MODULE MCShmemDt ------------------------------
(* Bounds of the runs of ShmemDt: one sender, two receivers, a buffer of   *)
(* four bytes cut into blocks of 0 (rejected), 1, 2, 3 (does not divide)   *)
(* or 5 (no block at all) bytes.                                           *)
EXTENDS ShmemDt

MCRank == 0 .. 2
MCSender == 0
MCBlockSizes == {0, 1, 2, 3, 5}
MCFileSizes == {0, 2, 6}
=============================================================================
