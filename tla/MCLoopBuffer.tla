----------------------------- MODULE MCLoopBuffer ------------------------------
(* Every block and every length up to one more than the ring can hold: all  *)
(* positions of the two pointers, and all three ways to put, are reached.   *)
EXTENDS LoopBuffer

MCBlocks  == UNION {[1 .. n -> Byte] : n \in 0 .. Size + 1}
MCLengths == 0 .. Size + 2
================================================================================
