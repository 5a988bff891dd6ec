-------------------------- MODULE MCCollectorStatus --------------------------
(***************************************************************************)
(* CollectorStatus for TLC, with one shard per collector as a model value. *)
(***************************************************************************)
EXTENDS CollectorStatus

CONSTANTS s1

=============================================================================
