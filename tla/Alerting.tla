------------------------------- MODULE Alerting -------------------------------
(***************************************************************************)
(* What the incident pipeline promises to an alert channel: it is told of  *)
(* incidents that are on record and severe enough for it, of each at most  *)
(* once; and what is on record stays as it was.                            *)
(***************************************************************************)
EXTENDS Naturals, Sequences

CONSTANTS Config, SeverityMin

VARIABLES
    ranks,   \* the severity of each incident on record
    inbox    \* the incidents each channel has been told of, in order

AInit == ranks = <<>> /\ inbox = [g \in Config |-> <<>>]

Record ==
    /\ \E r \in 1 .. 4 : ranks' = Append(ranks, r)
    /\ UNCHANGED inbox

Tell(g) ==
    /\ \E id \in DOMAIN ranks :
         /\ SeverityMin[g] <= ranks[id]
         /\ \A i \in DOMAIN inbox[g] : inbox[g][i] # id
         /\ inbox' = [inbox EXCEPT ![g] = Append(@, id)]
    /\ UNCHANGED ranks

ANext == Record \/ \E g \in Config : Tell(g)
ASpec == AInit /\ [][ANext]_<<ranks, inbox>>
=============================================================================
