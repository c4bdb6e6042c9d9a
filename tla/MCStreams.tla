------------------------------ MODULE MCStreams ------------------------------
(***************************************************************************)
(* The API's two readers of Redis streams beside one another, for TLC:     *)
(* remote commands and the live feed.  They have no stream and no variable *)
(* of the process in common, so no step of one enables or disables a step  *)
(* of the other, and each runs with the other standing still: `reader`     *)
(* says which.                                                             *)
(***************************************************************************)
EXTENDS MCCommands, LiveFeed

CONSTANTS f1, s1, s2, oA

\* One stream, of which the task may be two entries behind, more than a reply
\* holds, and two sockets of its organisation.
FeedOwner == f1 :> oA
SocketOwner == s1 :> oA @@ s2 :> oA
FeedLengths == f1 :> 4

VARIABLE reader

streamReaders == <<reader, vars, feedVars>>

Commanding == reader = "commands" /\ Next /\ UNCHANGED <<reader, feedVars>>
Feeding == reader = "feed" /\ FeedNext /\ UNCHANGED <<reader, vars>>

StreamsInit ==
    /\ Init /\ FeedInit
    /\ reader \in {"commands", "feed"}
    /\ reader = "feed" => live = {}
StreamsNext == Commanding \/ Feeding

StreamsSpec ==
    /\ StreamsInit /\ [][StreamsNext]_streamReaders
    /\ Fairness /\ FeedFairness
=============================================================================
