----------------------------- MODULE MCLogShards -----------------------------
(***************************************************************************)
(* WAL.tla and Shards.tla for TLC, each by itself: the log and the shards  *)
(* share no state, so a behaviour is one of the log beside shards that do  *)
(* nothing, or of the shards beside a log that nobody opens.  What they do *)
(* together is in Ingest.tla.                                              *)
(***************************************************************************)
EXTENDS WAL, Shards

LogShardsInit == Init /\ ShardsInit

LogShardsNext ==
    \/ ShardsInit /\ Next /\ UNCHANGED shardVars
    \/ Init /\ ShardsNext /\ UNCHANGED vars

LogShardsSpec == LogShardsInit /\ [][LogShardsNext]_<<vars, shardVars>>
=============================================================================
