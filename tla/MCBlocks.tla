------------------------------ MODULE MCBlocks ------------------------------
(***************************************************************************)
(* Instances of Blocks.tla for TLC: samples of one window, in downsampling *)
(* steps of their own, and ranges that cut the window or are inverted.     *)
(* The goroutines that compact are interchangeable.                        *)
(***************************************************************************)
EXTENDS Blocks, TLC

CONSTANTS p1, p2

MCTS == [p \in Sample |-> IF p = p1 THEN 1 ELSE 3]

MCRanges == {<<1, 5>>, <<3, 1>>}

MCSymmetry == Permutations(Compactor)
=============================================================================
