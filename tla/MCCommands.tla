----------------------------- MODULE MCCommands -----------------------------
(* Instances of Commands for TLC. *)
EXTENDS Commands, TLC

CONSTANTS c1, c2, r1, r2

\* Two requests queue for one charger; or there is one.
SameTarget == r1 :> c1 @@ r2 :> c1
OneTarget == r1 :> c1
=============================================================================
