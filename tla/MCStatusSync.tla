---------------------------- MODULE MCStatusSync ----------------------------
(***************************************************************************)
(* StatusSync for TLC: all constants are given in the configurations.      *)
(***************************************************************************)
EXTENDS StatusSync

=============================================================================
