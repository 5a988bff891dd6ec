-------------------------- MODULE MCAddonLifecycle --------------------------
(***************************************************************************)
(* AddonLifecycle for TLC, with one managed cluster as a model value.      *)
(***************************************************************************)
EXTENDS AddonLifecycle

CONSTANTS c1

=============================================================================
