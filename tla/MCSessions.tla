----------------------------- MODULE MCSessions -----------------------------
(* Instances of Sessions for TLC. *)
EXTENDS Sessions, TLC

CONSTANTS c1, c2, k1, k2, k3, k4, x1, x2, x3

\* One charger with two transactions and overlapping connections.
OneCharger == k1 :> c1 @@ k2 :> c1
TxOneCharger == x1 :> c1 @@ x2 :> c1
\* A 2.0.1 charger and a 1.6 charger with two transactions, which both reconnect.
TwoChargers == k1 :> c1 @@ k2 :> c1 @@ k3 :> c2 @@ k4 :> c2
TxTwoChargers == x1 :> c1 @@ x2 :> c2 @@ x3 :> c2

Slots == Permutations({k1, k2}) \union Permutations({k3, k4})
=============================================================================
