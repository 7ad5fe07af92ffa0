---------------------------- MODULE MCLZ77Greedy ----------------------------
(* Instance of LZ77Greedy: blocks of up to eight bytes, at two places.       *)
EXTENDS LZ77Greedy

MCBlocks == ({0} \X {1, 2, 3, 4, 8}) \cup ({2} \X {3, 4, 5, 6, 9})
=============================================================================
