-------------------------- MODULE MCShmemPipelineDt --------------------------
(* Bounds of the runs of ShmemPipelineDt: one sender, two receivers, a     *)
(* buffer of six bytes.  Chunks of two bytes divide it, and cut the blocks *)
(* of three bytes; chunks of four and of six make ranks run past their     *)
(* blocks, the latter with blocks of five past the end of the list by just *)
(* the byte that is missing.                                               *)
EXTENDS ShmemPipelineDt

MCRank == 0 .. 2
MCSender == 0
MCBlockSizes == {0, 2, 3, 5, 7}
MCDepths == {2, 4, 6}
MCFileSizes == {0, 8}
=============================================================================
