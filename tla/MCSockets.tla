------------------------------ MODULE MCSockets ------------------------------
(***************************************************************************)
(* The two kinds of websockets beside one another, for TLC: the chargers'  *)
(* at the gateway and the browsers' at the API.  They are in two processes *)
(* and have nothing in common, so each kind runs with the other standing   *)
(* still: `kind` says which.                                               *)
(***************************************************************************)
EXTENDS MCGateway, LiveFeed

CONSTANTS f1, f2, s1, s2, s3, oA, oB

\* Three sockets of one organisation, so that one may leave and one come while
\* a third is being sent to; the second stream belongs to another.
FeedOwner == f1 :> oA @@ f2 :> oB
SocketOwner == s1 :> oA @@ s2 :> oA @@ s3 :> oA
FeedLengths == f1 :> 3 @@ f2 :> 2

SameSocket == SameCharger \union Permutations({s1, s2, s3})

VARIABLE kind

sockets == <<kind, vars, feedVars>>

Charging == kind = "charger" /\ Next /\ UNCHANGED <<kind, feedVars>>
Watching == kind = "browser" /\ FeedNext /\ UNCHANGED <<kind, vars>>

SocketsInit == kind \in {"charger", "browser"} /\ Init /\ FeedInit
SocketsNext == Charging \/ Watching

SocketsSpec == SocketsInit /\ [][SocketsNext]_sockets
=============================================================================
