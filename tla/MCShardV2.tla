----------------------------- MODULE MCShardV2 -----------------------------
(***************************************************************************)
(* Instances of ShardV2 for TLC.                                           *)
(***************************************************************************)
EXTENDS ShardV2, MCWriterV2
============================================================================
