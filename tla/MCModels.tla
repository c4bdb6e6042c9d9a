------------------------------- MODULE MCModels -------------------------------
(* Instances of ModelRegistry for TLC. *)
EXTENDS ModelRegistry

CONSTANTS nightly, manual
=============================================================================
