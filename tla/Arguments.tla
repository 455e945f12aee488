----------------------------- MODULE Arguments -----------------------------
(***************************************************************************)
(* The command line of the stand-alone programs: "<blocksize> <bufsize>".  *)
(***************************************************************************)
EXTENDS Naturals

CONSTANTS BufSize,      \* argv[2]
          BlockSizes    \* the values of argv[1] considered

ASSUME ArgsAssumption == BufSize \in Nat \ {0} /\ BlockSizes \subseteq Nat

VARIABLE blocksize      \* argv[1], the same in every rank

(* The bytes of lbuf.                                                      *)
Byte == 0 .. BufSize - 1

NBlocksUp == (BufSize + blocksize - 1) \div blocksize   \* mutant: rounded up
NBlocks == BufSize \div blocksize
=============================================================================
