----------------------------- MODULE MCGateway -----------------------------
(* Instances of Gateway for TLC. *)
EXTENDS Gateway, TLC

CONSTANTS c1, k1, k2

\* One charger whose reconnects overlap.
OneCharger == k1 :> c1 @@ k2 :> c1
AllKinds == MsgKind
HeartbeatOnly == {Heartbeat}
HeartbeatOrOther == {Heartbeat, "Other"}

\* The slots of one charger are interchangeable.
SameCharger == Permutations({k1, k2})
=============================================================================
