------------------------------ MODULE MCIngest ------------------------------
(***************************************************************************)
(* Instances of Ingest.tla for TLC: three samples, two of one window and   *)
(* one of the next.                                                        *)
(***************************************************************************)
EXTENDS Ingest

CONSTANTS p1, p2, p3

MCPoint == {p1, p2, p3}

MCTS == [p \in MCPoint |-> CASE p = p1 -> 0 [] p = p2 -> 1 [] p = p3 -> 2]
=============================================================================
