------------------------------ MODULE MCSeries ------------------------------
(***************************************************************************)
(* An instance of SeriesIndex.tla for TLC: two keys that share a bucket in *)
(* some tables and not in others.                                          *)
(***************************************************************************)
EXTENDS SeriesIndex

CONSTANTS k1, k2

MCKey == {k1, k2}

MCHash == [k \in MCKey |-> IF k = k1 THEN 3 ELSE 5]
=============================================================================
