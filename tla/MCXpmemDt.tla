----------------------------- MODULE MCXpmemDt -----------------------------
(* Bounds of the runs of XpmemDt: one sender, two receivers, six bytes in  *)
(* two pages.  Blocks of 1 byte share pages, every other block of 2 bytes  *)
(* straddles them, blocks of 3 and 6 bytes have attachments of their own,  *)
(* 4 leaves a tail, 0 is rejected.                                         *)
EXTENDS XpmemDt

MCRank == 0 .. 2
MCSender == 0
MCBlockSizes == {0, 1, 2, 3, 4, 6}
MCCacheModes == BOOLEAN

(* xpmem_dt alone, with blocks smaller than the one page that holds all.   *)
OnePageBlockSizes == {1, 2}
NoCacheOnly == {FALSE}
=============================================================================
