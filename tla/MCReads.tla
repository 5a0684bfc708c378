------------------------------- MODULE MCReads -------------------------------
(***************************************************************************)
(* An instance of Reads.tla for TLC: four timestamps, each with a value of *)
(* its own, a range that cuts at both ends and one that is inverted.       *)
(***************************************************************************)
EXTENDS Reads

MCSample == {[ts |-> t, val |-> 10 * t] : t \in 0..3}

MCRanges == {<<1, 3>>, <<3, 1>>}
=============================================================================
