--------------------------- MODULE LiveFeedProofs ---------------------------
(***************************************************************************)
(* The live feed for any streams, sockets and organisations, any length of *)
(* the streams and of a reply, and any number of outages.                  *)
(***************************************************************************)
EXTENDS LiveFeed, FiniteSetTheorems, TLAPS

\* A stream that no scan has found is not read.
UnknownIsIdle == \A f \in Feed \ known : lastId[f] = upto[f]

\* An open socket is in the set of its organisation and has never raised; a
\* new one is nowhere and has heard nothing.
OpenIsMember ==
    \A s \in Socket :
        /\ link[s] = "open" => s \in clients /\ s \notin dead
        /\ link[s] = "new" =>
             /\ s \notin clients \union dead \union todo /\ s # target
             /\ \A f \in Feed : heard[s][f] = <<>>

\* The broadcast under way is of the last entry read, for one organisation.
CastIsLast ==
    tail = "send" =>
        /\ item[1] \in known \ fresh /\ item[2] = lastId[item[1]]
        /\ \A s \in todo \union {target} : SocketOrg[s] = FeedOrg[item[1]]

\* While no socket comes or goes, each of those still to come is to come once
\* and has not had the entry, and the set has its size.
CastIsEven ==
    tail = "send" /\ item \notin churned =>
        /\ Cardinality(Audience(item[1])) = size
        /\ target \notin todo
        /\ \A s \in todo \union {target} :
             link[s] = "open" => HeardAt(s, item[1], item[2]) = {}

FeedInv ==
    /\ FeedTypeOK /\ UnknownIsIdle /\ NoneSkipped
    /\ OpenIsMember /\ CastIsLast /\ CastIsEven /\ HearsEachOnce

USE FeedConstants

\* A set of sockets can be counted.
LEMMA CountingSockets == ASSUME NEW S \in SUBSET Socket PROVE Cardinality(S) \in Nat
  BY FS_Subset, FS_CardinalityType

\* The smaller of two numbers.
LEMMA FeedMinType ==
    \A a, b \in Nat : FeedMin(a, b) \in Nat /\ FeedMin(a, b) <= a /\ FeedMin(a, b) <= b
                      /\ FeedMin(a, b) \in {a, b}
  BY DEF FeedMin

\* The initial states satisfy the inductive invariant.
LEMMA FeedInitInv == FeedInit => FeedInv
<1> SUFFICES ASSUME FeedInit PROVE FeedInv
  OBVIOUS
<1> USE DEF FeedInit
<1>1. FeedTypeOK
  BY DEF FeedTypeOK, Entry, NoEntry
<1>2. UnknownIsIdle /\ NoneSkipped /\ CastIsLast /\ CastIsEven
  BY DEF UnknownIsIdle, NoneSkipped, CastIsLast, CastIsEven
<1>3. OpenIsMember /\ HearsEachOnce
  BY DEF OpenIsMember, HearsEachOnce
<1> QED  BY <1>1, <1>2, <1>3 DEF FeedInv

-----------------------------------------------------------------------------
(* Types *)

\* A socket is sent one entry of one stream.
LEMMA HeardType ==
    ASSUME heard \in [Socket -> [Feed -> Seq(Nat)]],
           NEW s \in Socket, NEW f \in Feed, NEW i \in Nat,
           heard' = [heard EXCEPT ![s][f] = Append(@, i)]
    PROVE  /\ heard' \in [Socket -> [Feed -> Seq(Nat)]]
           /\ heard'[s][f] = Append(heard[s][f], i)
           /\ \A t \in Socket, g \in Feed : t # s \/ g # f => heard'[t][g] = heard[t][g]
<1> DEFINE new == Append(heard[s][f], i)
<1>1. heard[s] \in [Feed -> Seq(Nat)] /\ new \in Seq(Nat)
  OBVIOUS
<1>2. [heard[s] EXCEPT ![f] = new] \in [Feed -> Seq(Nat)]
  BY <1>1
<1>3. heard' = [heard EXCEPT ![s] = [heard[s] EXCEPT ![f] = new]]
  OBVIOUS
<1> HIDE DEF new
<1>4. heard' \in [Socket -> [Feed -> Seq(Nat)]] /\ heard'[s][f] = new
  BY <1>1, <1>2, <1>3
<1>5. \A t \in Socket, g \in Feed : t # s \/ g # f => heard'[t][g] = heard[t][g]
  BY <1>1, <1>3
<1> QED  BY <1>4, <1>5 DEF new

\* Every step of the task keeps the types.
LEMMA TailTypes == ASSUME FeedInv, TailTask PROVE FeedTypeOK'
<1> USE DEF FeedTypeOK, streamVars, castVars, socketVars, feedHistory
<1>0. FeedTypeOK /\ UnknownIsIdle /\ CastIsLast
  BY DEF FeedInv
<1>1. CASE FindStreams
  BY <1>0, <1>1 DEF FindStreams
<1>2. CASE Read
  <2>1. ASSUME NEW f \in Feed
        PROVE  Resolved(f) \in Nat /\ lastId[f] <= Resolved(f) /\ Resolved(f) <= entries[f]
    BY <1>0 DEF Resolved
  <2>2. lastId' = [f \in Feed |-> Resolved(f)]
    BY <1>2 DEF Read
  <2>3. lastId' \in [Feed -> Nat] /\ \A f \in Feed : lastId'[f] = Resolved(f)
    BY <2>1, <2>2
  <2>4. upto' = [f \in Feed |-> IF f \in known THEN FeedMin(Resolved(f) + FeedCount, entries[f])
                                ELSE upto[f]]
    BY <1>2 DEF Read
  <2>5. ASSUME NEW f \in Feed
        PROVE  upto'[f] \in Nat /\ lastId'[f] <= upto'[f] /\ upto'[f] <= entries[f]
    <3>1. CASE f \in known
      <4>1. Resolved(f) + FeedCount \in Nat /\ Resolved(f) <= Resolved(f) + FeedCount
        BY <2>1
      <4>2. entries[f] \in Nat
        BY <1>0
      <4>3. upto'[f] = FeedMin(Resolved(f) + FeedCount, entries[f])
        BY <2>4, <3>1
      <4>4. /\ upto'[f] \in {Resolved(f) + FeedCount, entries[f]}
            /\ upto'[f] <= entries[f]
        BY <4>1, <4>2, <4>3, FeedMinType
      <4>5. lastId'[f] = Resolved(f)
        BY <2>3
      <4>6. Resolved(f) \in Nat /\ Resolved(f) <= entries[f]
        BY <2>1
      <4> QED  BY <4>1, <4>2, <4>4, <4>5, <4>6
    <3>2. CASE f \notin known
      <4>1. Resolved(f) = lastId[f] /\ upto'[f] = upto[f]
        BY <1>0, <2>4, <3>2 DEF Resolved
      <4> QED  BY <1>0, <2>3, <4>1
    <3> QED  BY <3>1, <3>2
  <2>6. upto' \in [Feed -> Nat]
    BY <2>4, <2>5
  <2>7. tail' \in {"blocked", "next"}
    BY <1>2 DEF Read
  <2>8. UNCHANGED <<entries, known, fresh, castVars, socketVars, feedHistory, outages>>
    BY <1>2 DEF Read
  <2> QED  BY <1>0, <2>3, <2>5, <2>6, <2>7, <2>8
<1>3. CASE FeedBlockEnds
  BY <1>0, <1>3 DEF FeedBlockEnds
<1>4. ASSUME NEW f \in Feed, Handle(f) PROVE FeedTypeOK'
  <2>1. Audience(f) \in SUBSET Socket
    BY <1>0 DEF Audience, Members
  <2>2. size' \in Nat
    BY <1>4, <2>1, CountingSockets DEF Handle
  <2>3. /\ lastId[f] < upto[f] /\ lastId' = [lastId EXCEPT ![f] = @ + 1]
        /\ UNCHANGED <<entries, known, upto, socketVars, heard, base, churned, outages>>
        /\ fresh' = fresh \ {f} /\ dead' = {}
    BY <1>4 DEF Handle, NextMessage
  <2>4. /\ lastId' \in [Feed -> Nat]
        /\ \A g \in Feed : lastId'[g] <= upto[g]
    BY <1>0, <2>3
  <2>5. item' \in Entry
    BY <1>0, <1>4 DEF Handle, Entry
  <2>6. handled' \in [Feed -> SUBSET Nat]
    BY <1>0, <1>4 DEF Handle
  <2>7. /\ tail' \in {"next", "send"} /\ todo' \subseteq Socket
        /\ target' \in Socket \union {NoSocket}
        /\ tail' = "send" => target' \in Socket
    BY <1>4, <2>1 DEF Handle
  <2> QED  BY <1>0, <2>2, <2>3, <2>4, <2>5, <2>6, <2>7
<1>5. CASE SendEnds
  <2>1. target \in Socket /\ item \in Entry /\ item[1] \in Feed /\ item[2] \in Nat
    BY <1>0, <1>5 DEF SendEnds, Entry
  <2>2. heard' \in [Socket -> [Feed -> Seq(Nat)]]
    <3>1. CASE link[target] = "open"
      BY <1>0, <1>5, <2>1, <3>1, HeardType DEF SendEnds
    <3>2. CASE link[target] # "open"
      BY <1>0, <1>5, <3>2 DEF SendEnds
    <3> QED  BY <3>1, <3>2
  <2>3. dead' \subseteq Socket
    BY <1>0, <1>5, <2>1 DEF SendEnds
  <2>4. /\ tail' \in {"next", "send"} /\ todo' \subseteq Socket /\ clients' \subseteq Socket
        /\ target' \in Socket \union {NoSocket}
        /\ tail' = "send" => target' \in Socket
    BY <1>0, <1>5 DEF SendEnds, Advance
  <2>5. UNCHANGED <<streamVars, item, size, link, handled, base, churned, outages>>
    BY <1>5 DEF SendEnds
  <2> QED  BY <1>0, <2>1, <2>2, <2>3, <2>4, <2>5
<1>6. CASE BatchEnds
  BY <1>0, <1>6 DEF BatchEnds
<1> QED  BY <1>1, <1>2, <1>3, <1>4, <1>5, <1>6 DEF TailTask

\* What a socket does keeps the types.
LEMMA SocketTypes ==
    ASSUME FeedInv, NEW s \in Socket, Join(s) \/ Disconnect(s) \/ Leave(s)
    PROVE  FeedTypeOK'
<1> USE DEF FeedTypeOK, streamVars, castVars, socketVars, feedHistory
<1>0. FeedTypeOK /\ CastIsLast
  BY DEF FeedInv
<1>1. ASSUME NEW org \in Org, SetChanges(org), clients' \subseteq Socket
      PROVE  churned' \subseteq Entry /\ todo' \subseteq Socket
  BY <1>0, <1>1 DEF SetChanges
<1>2. CASE Join(s)
  <2>1. clients' \subseteq Socket /\ SetChanges(SocketOrg[s])
    BY <1>0, <1>2 DEF Join
  <2>2. churned' \subseteq Entry /\ todo' \subseteq Socket
    BY <1>1, <2>1
  <2>3. link' \in [Socket -> {"new", "open", "lost", "closed"}]
        /\ base' \in [Socket -> [Feed -> SUBSET Nat]]
        /\ tail' \in {"scan", "read", "blocked", "next", "send"}
        /\ (tail' = "send" => tail = "send")
    BY <1>0, <1>2 DEF Join
  <2> QED  BY <1>0, <1>2, <2>1, <2>2, <2>3 DEF Join
<1>3. CASE Disconnect(s)
  BY <1>0, <1>3 DEF Disconnect
<1>4. CASE Leave(s)
  <2>1. clients' \subseteq Socket
    BY <1>0, <1>4 DEF Leave
  <2>2. churned' \subseteq Entry /\ todo' \subseteq Socket
    BY <1>0, <1>1, <1>4, <2>1 DEF Leave
  <2>3. link' \in [Socket -> {"new", "open", "lost", "closed"}]
    BY <1>0, <1>4 DEF Leave
  <2> QED  BY <1>0, <1>4, <2>1, <2>2, <2>3 DEF Leave
<1> QED  BY <1>2, <1>3, <1>4

\* A new entry keeps the types.
LEMMA PublishTypes ==
    ASSUME FeedInv, NEW f \in Feed, Publish(f)
    PROVE  FeedTypeOK'
<1> USE DEF FeedTypeOK, streamVars, castVars, socketVars, feedHistory
<1>0. FeedTypeOK /\ CastIsLast
  BY DEF FeedInv
<1>1. entries' \in [Feed -> Nat] /\ \A g \in Feed : entries'[g] <= MaxEntries[g]
                                                 /\ entries[g] <= entries'[g]
  BY <1>0 DEF Publish
<1>2. upto' \in [Feed -> Nat] /\ \A g \in Feed : lastId[g] <= upto'[g] /\ upto'[g] <= entries'[g]
  <2>1. entries[f] \in Nat /\ entries'[f] = entries[f] + 1
    BY <1>0 DEF Publish
  <2>2. CASE upto' = [upto EXCEPT ![f] = entries[f] + 1]
    <3>1. upto' \in [Feed -> Nat]
      BY <1>0, <2>1, <2>2
    <3>2. upto'[f] = entries'[f] /\ lastId[f] <= upto'[f]
      BY <1>0, <2>1, <2>2
    <3>3. \A g \in Feed \ {f} : upto'[g] = upto[g] /\ entries'[g] = entries[g]
      BY <1>0, <2>2 DEF Publish
    <3>4. \A g \in Feed : lastId[g] <= upto'[g] /\ upto'[g] <= entries'[g]
      <4> SUFFICES ASSUME NEW g \in Feed PROVE lastId[g] <= upto'[g] /\ upto'[g] <= entries'[g]
        OBVIOUS
      <4>1. CASE g = f
        BY <2>1, <3>2, <4>1
      <4>2. CASE g # f
        BY <1>0, <3>3, <4>2
      <4> QED  BY <4>1, <4>2
    <3> QED  BY <3>1, <3>4
  <2>3. CASE UNCHANGED upto
    BY <1>0, <1>1, <2>3
  <2> QED  BY <2>2, <2>3 DEF Publish
<1>3. tail' \in {tail, "next"} /\ UNCHANGED <<known, fresh, lastId, castVars, socketVars,
                                            feedHistory, outages>>
  BY DEF Publish
<1>4. tail' \in {"none", "scan", "read", "blocked", "next", "send"}
      /\ (tail' = "send" => item' \in Entry /\ target' \in Socket)
  BY <1>0, <1>3
<1> QED  BY <1>0, <1>1, <1>2, <1>3, <1>4

\* So do outages.
LEMMA OutageTypes ==
    ASSUME FeedInv, RedisFails \/ Restart
    PROVE  FeedTypeOK'
<1> USE DEF FeedTypeOK, streamVars, castVars, socketVars, feedHistory
<1>0. FeedTypeOK
  BY DEF FeedInv
<1>1. CASE RedisFails
  BY <1>0, <1>1 DEF RedisFails, Outage
<1>2. CASE Restart
  <2>1. /\ lastId' \in [Feed -> Nat] /\ upto' \in [Feed -> Nat]
        /\ \A g \in Feed : lastId'[g] <= upto'[g] /\ upto'[g] <= entries[g]
        /\ UNCHANGED entries
    BY <1>0, <1>2 DEF Restart
  <2>2. /\ heard' \in [Socket -> [Feed -> Seq(Nat)]]
        /\ handled' \in [Feed -> SUBSET Nat]
        /\ base' \in [Socket -> [Feed -> SUBSET Nat]]
    BY <1>2 DEF Restart
  <2>3. link' \in [Socket -> {"new", "open", "lost", "closed"}]
    BY <1>2 DEF Restart
  <2>4. /\ known' = {} /\ fresh' = {} /\ clients' = {} /\ churned' = {} /\ todo' = {} /\ dead' = {}
        /\ tail' = "none" /\ item' = NoEntry /\ target' = NoSocket /\ size' = 0
        /\ outages' \in 0 .. MaxOutages
    BY <1>0, <1>2 DEF Restart, Outage
  <2> QED  BY <1>0, <2>1, <2>2, <2>3, <2>4
<1> QED  BY <1>1, <1>2

\* Every step keeps the types.
LEMMA FeedTypeStep == FeedInv /\ [FeedNext]_feedVars => FeedTypeOK'
<1> SUFFICES ASSUME FeedInv, [FeedNext]_feedVars PROVE FeedTypeOK'
  OBVIOUS
<1>1. CASE UNCHANGED feedVars
  BY <1>1 DEF feedVars, streamVars, castVars, socketVars, feedHistory, FeedTypeOK, FeedInv
<1> QED  BY <1>1, TailTypes, SocketTypes, PublishTypes, OutageTypes DEF FeedNext

-----------------------------------------------------------------------------
(* What is read *)

\* Every step keeps the streams that no scan has found idle.
LEMMA UnknownStep == FeedInv /\ [FeedNext]_feedVars => UnknownIsIdle'
<1> SUFFICES ASSUME FeedInv, [FeedNext]_feedVars, NEW f \in Feed, f \notin known'
             PROVE  lastId'[f] = upto'[f]
  BY DEF UnknownIsIdle
<1> USE DEF streamVars
<1>0. FeedTypeOK /\ (f \notin known => lastId[f] = upto[f])
  BY DEF FeedInv, UnknownIsIdle
<1>1. CASE Restart
  BY <1>1 DEF Restart
<1>2. CASE Read
  BY <1>0, <1>2 DEF Read, Resolved, FeedTypeOK
<1>3. ASSUME NEW g \in Feed, Handle(g) PROVE lastId'[f] = upto'[f]
  BY <1>0, <1>3 DEF Handle, NextMessage, FeedTypeOK
<1>4. ASSUME NEW g \in Feed, Publish(g) PROVE lastId'[f] = upto'[f]
  BY <1>0, <1>4 DEF Publish, FeedTypeOK
<1>5. ASSUME \/ FindStreams \/ FeedBlockEnds \/ SendEnds \/ BatchEnds \/ RedisFails
             \/ (\E s \in Socket : Join(s) \/ Disconnect(s) \/ Leave(s)) \/ UNCHANGED feedVars
      PROVE  known \subseteq known' /\ UNCHANGED <<lastId, upto>>
  BY <1>5 DEF FindStreams, FeedBlockEnds, SendEnds, BatchEnds, RedisFails, Join, Disconnect,
     Leave, feedVars
<1> QED  BY <1>0, <1>1, <1>2, <1>3, <1>4, <1>5 DEF FeedNext, TailTask

\* No entry is skipped, in any step: those of a stream are handled one by one.
LEMMA SkipStep == FeedInv /\ [FeedNext]_feedVars => NoneSkipped'
<1> SUFFICES ASSUME FeedInv, [FeedNext]_feedVars, NEW f \in Feed
             PROVE  IF f \in known' \ fresh'
                      THEN \E first \in 1 .. lastId'[f] : handled'[f] = first .. lastId'[f]
                      ELSE handled'[f] = {}
  BY DEF NoneSkipped
<1> USE DEF streamVars, feedHistory
<1>0. /\ FeedTypeOK
      /\ IF f \in known \ fresh
           THEN \E first \in 1 .. lastId[f] : handled[f] = first .. lastId[f]
           ELSE handled[f] = {}
      /\ f \notin known => lastId[f] = upto[f]
  BY DEF FeedInv, UnknownIsIdle, NoneSkipped
<1>1. CASE Restart
  BY <1>1 DEF Restart
<1>2. CASE Read
  <2>1. UNCHANGED <<known, fresh, handled>>
    BY <1>2 DEF Read
  <2>2. f \notin fresh => lastId'[f] = lastId[f]
    BY <1>2 DEF Read, Resolved
  <2> QED  BY <1>0, <2>1, <2>2
<1>3. ASSUME NEW g \in Feed, Handle(g)
      PROVE  IF f \in known' \ fresh'
               THEN \E first \in 1 .. lastId'[f] : handled'[f] = first .. lastId'[f]
               ELSE handled'[f] = {}
  <2>1. /\ lastId[g] < upto[g] /\ lastId' = [lastId EXCEPT ![g] = @ + 1]
        /\ fresh' = fresh \ {g} /\ known' = known
        /\ handled' = [handled EXCEPT ![g] = @ \union {lastId[g] + 1}]
    BY <1>3 DEF Handle, NextMessage
  <2>2. CASE f # g
    <3>1. lastId'[f] = lastId[f] /\ handled'[f] = handled[f] /\ (f \in fresh' <=> f \in fresh)
      BY <1>0, <2>1, <2>2 DEF FeedTypeOK
    <3> QED  BY <1>0, <2>1, <3>1
  <2>3. CASE f = g
    <3>1. /\ lastId[f] \in Nat /\ lastId'[f] = lastId[f] + 1
          /\ handled'[f] = handled[f] \union {lastId[f] + 1}
      BY <1>0, <2>1, <2>3 DEF FeedTypeOK
    <3>2. f \in known' \ fresh'
      BY <1>0, <2>1, <2>3 DEF FeedTypeOK
    <3>3. CASE handled[f] = {}
      BY <3>1, <3>2, <3>3
    <3>4. ASSUME NEW first \in 1 .. lastId[f], handled[f] = first .. lastId[f]
          PROVE  \E i \in 1 .. lastId'[f] : handled'[f] = i .. lastId'[f]
      BY <3>1, <3>4
    <3> QED  BY <1>0, <3>2, <3>3, <3>4
  <2> QED  BY <2>2, <2>3
<1>4. ASSUME FindStreams \/ RedisFails
      PROVE  /\ known \subseteq known' /\ fresh' = fresh \union (known' \ known)
             /\ UNCHANGED <<lastId, handled>>
  BY <1>4 DEF FindStreams, RedisFails
<1>5. ASSUME \/ FeedBlockEnds \/ SendEnds \/ BatchEnds
             \/ (\E s \in Socket : Join(s) \/ Disconnect(s) \/ Leave(s))
             \/ (\E g \in Feed : Publish(g)) \/ UNCHANGED feedVars
      PROVE  UNCHANGED <<known, fresh, lastId, handled>>
  BY <1>5 DEF FeedBlockEnds, SendEnds, BatchEnds, Join, Disconnect, Leave, Publish, feedVars
<1>6. CASE FindStreams \/ RedisFails
  BY <1>0, <1>4, <1>6 DEF FeedTypeOK
<1> QED  BY <1>0, <1>1, <1>2, <1>3, <1>5, <1>6 DEF FeedNext, TailTask

-----------------------------------------------------------------------------
(* Who is sent what *)

\* Every step keeps open sockets in their sets.
LEMMA OpenStep == FeedInv /\ [FeedNext]_feedVars => OpenIsMember'
<1> SUFFICES ASSUME FeedInv, [FeedNext]_feedVars, NEW s \in Socket
             PROVE  /\ link'[s] = "open" => s \in clients' /\ s \notin dead'
                    /\ link'[s] = "new" =>
                         /\ s \notin clients' \union dead' \union todo' /\ s # target'
                         /\ \A f \in Feed : heard'[s][f] = <<>>
  BY DEF OpenIsMember
<1> DEFINE Kept == /\ link'[s] = "open" => s \in clients' /\ s \notin dead'
                   /\ link'[s] = "new" =>
                        /\ s \notin clients' \union dead' \union todo' /\ s # target'
                        /\ \A f \in Feed : heard'[s][f] = <<>>
<1> USE DEF streamVars, castVars, socketVars, feedHistory
<1>0. /\ FeedTypeOK
      /\ link[s] = "open" => s \in clients /\ s \notin dead
      /\ link[s] = "new" =>
           /\ s \notin clients \union dead \union todo /\ s # target
           /\ \A f \in Feed : heard[s][f] = <<>>
  BY DEF FeedInv, OpenIsMember
<1>1. ASSUME NEW r \in Socket, Join(r) PROVE Kept
  BY <1>0, <1>1 DEF Join, SetChanges, FeedTypeOK
<1>2. ASSUME NEW r \in Socket, Disconnect(r) PROVE Kept
  BY <1>0, <1>2 DEF Disconnect, FeedTypeOK
<1>3. ASSUME NEW r \in Socket, Leave(r) PROVE Kept
  BY <1>0, <1>3 DEF Leave, SetChanges, FeedTypeOK
<1>4. ASSUME NEW g \in Feed, Handle(g) PROVE Kept
  BY <1>0, <1>4, NoSocket \notin Socket DEF Handle, Audience, Members
<1>5. CASE SendEnds
  <2>1. /\ link' = link /\ clients' \in {clients, clients \ dead'}
        /\ dead' = dead \/ (dead' = dead \union {target} /\ link[target] # "open")
        /\ todo' \subseteq todo /\ target' \in todo \union {NoSocket}
    BY <1>5 DEF SendEnds, Advance
  <2>2. target \in Socket /\ item[1] \in Feed /\ item[2] \in Nat
    BY <1>0, <1>5 DEF SendEnds, FeedTypeOK, Entry
  <2>3. ASSUME link[s] = "new", NEW f \in Feed PROVE heard'[s][f] = heard[s][f]
    <3>1. CASE link[target] = "open"
      BY <1>0, <1>5, <2>2, <2>3, <3>1, HeardType DEF SendEnds, FeedTypeOK
    <3> QED  BY <1>5, <3>1 DEF SendEnds
  <2>4. CASE link[s] = "open"
    BY <1>0, <2>1, <2>4
  <2>5. CASE link[s] = "new"
    BY <1>0, <2>1, <2>3, <2>5
  <2> QED  BY <2>1, <2>4, <2>5
<1>6. CASE Restart
  BY <1>0, <1>6 DEF Restart, FeedTypeOK
<1>7. ASSUME \/ (\E g \in Feed : Publish(g)) \/ FindStreams \/ Read \/ FeedBlockEnds
             \/ BatchEnds \/ RedisFails \/ UNCHANGED feedVars
      PROVE  UNCHANGED <<link, clients, dead, todo, target, heard>>
  BY <1>7 DEF Publish, FindStreams, Read, FeedBlockEnds, BatchEnds, RedisFails, feedVars
<1> QED  BY <1>0, <1>1, <1>2, <1>3, <1>4, <1>5, <1>6, <1>7 DEF FeedNext, TailTask

\* Every step keeps what is said of the broadcast under way.
LEMMA CastLastStep == FeedInv /\ [FeedNext]_feedVars => CastIsLast'
<1> SUFFICES ASSUME FeedInv, [FeedNext]_feedVars, tail' = "send"
             PROVE  /\ item'[1] \in known' \ fresh' /\ item'[2] = lastId'[item'[1]]
                    /\ \A s \in todo' \union {target'} : SocketOrg[s] = FeedOrg[item'[1]]
  BY DEF CastIsLast
<1> DEFINE Kept == /\ item'[1] \in known' \ fresh' /\ item'[2] = lastId'[item'[1]]
                   /\ \A s \in todo' \union {target'} : SocketOrg[s] = FeedOrg[item'[1]]
<1> USE DEF streamVars, castVars, socketVars, feedHistory
<1>0. FeedTypeOK /\ UnknownIsIdle /\ CastIsLast
  BY DEF FeedInv
<1>1. ASSUME NEW g \in Feed, Handle(g) PROVE Kept
  <2>1. g \in known
    BY <1>0, <1>1 DEF Handle, NextMessage, UnknownIsIdle, FeedTypeOK
  <2>2. item' = <<g, lastId[g] + 1>> /\ lastId'[g] = lastId[g] + 1
        /\ known' = known /\ fresh' = fresh \ {g}
    BY <1>0, <1>1 DEF Handle, FeedTypeOK
  <2>3. \A s \in todo' \union {target'} : SocketOrg[s] = FeedOrg[g]
    BY <1>1 DEF Handle, Audience, Members
  <2> QED  BY <2>1, <2>2, <2>3
<1>2. CASE SendEnds
  <2>1. todo' \union {target'} \subseteq todo /\ UNCHANGED <<item, known, fresh, lastId>>
        /\ tail = "send"
    BY <1>2 DEF SendEnds, Advance
  <2> QED  BY <1>0, <2>1 DEF CastIsLast
<1>3. ASSUME NEW r \in Socket, Join(r) \/ Leave(r) PROVE Kept
  <2>1. tail = "send" /\ UNCHANGED <<item, target, known, fresh, lastId>>
    BY <1>3 DEF Join, Leave
  <2>2. UNCHANGED todo \/ \A s \in todo' : SocketOrg[s] = FeedOrg[item[1]]
    BY <1>3 DEF Join, Leave, SetChanges
  <2> QED  BY <1>0, <2>1, <2>2 DEF CastIsLast
<1>4. ASSUME \/ (\E r \in Socket : Disconnect(r)) \/ (\E g \in Feed : Publish(g))
             \/ UNCHANGED feedVars
      PROVE  tail = "send" /\ UNCHANGED <<item, target, todo, known, fresh, lastId>>
  BY <1>4 DEF Disconnect, Publish, feedVars
<1>5. ~(FindStreams \/ Read \/ FeedBlockEnds \/ BatchEnds \/ RedisFails \/ Restart)
  BY DEF FindStreams, Read, FeedBlockEnds, BatchEnds, RedisFails, Restart
<1>6. CASE \/ (\E r \in Socket : Disconnect(r)) \/ (\E g \in Feed : Publish(g))
           \/ UNCHANGED feedVars
  BY <1>0, <1>4, <1>6 DEF CastIsLast
<1> QED  BY <1>1, <1>2, <1>3, <1>5, <1>6 DEF FeedNext, TailTask

\* Every step keeps the broadcast even, until a socket comes or goes.
LEMMA CastEvenStep == FeedInv /\ [FeedNext]_feedVars => CastIsEven'
<1> DEFINE Even == /\ Cardinality(Audience(item[1])) = size
                   /\ target \notin todo
                   /\ \A s \in todo \union {target} :
                        link[s] = "open" => HeardAt(s, item[1], item[2]) = {}
<1> SUFFICES ASSUME FeedInv, [FeedNext]_feedVars, tail' = "send", item' \notin churned'
             PROVE  Even'
  BY DEF CastIsEven
<1> USE DEF streamVars, castVars, socketVars, feedHistory
<1>0. /\ FeedTypeOK /\ UnknownIsIdle /\ NoneSkipped /\ OpenIsMember /\ CastIsLast
      /\ CastIsEven /\ HearsEachOnce
  BY DEF FeedInv
<1>1. ASSUME NEW g \in Feed, Handle(g) PROVE Even'
  <2>1. /\ item' = <<g, lastId[g] + 1>> /\ size' = Cardinality(Audience(g))
        /\ target' \in Audience(g) /\ todo' = Audience(g) \ {target'}
        /\ UNCHANGED <<clients, link, heard>>
    BY <1>1 DEF Handle
  <2>2. Cardinality(Audience(item[1])') = size'
    BY <2>1 DEF Audience, Members
  <2>3. \A s \in Audience(g) : link[s] = "open" => (\A k \in DOMAIN heard[s][g] : heard[s][g][k] # lastId[g] + 1)
    <3>1. lastId[g] + 1 \notin handled[g]
      <4>1. lastId[g] \in Nat
        BY <1>0 DEF FeedTypeOK
      <4> QED  BY <1>0, <4>1 DEF NoneSkipped
    <3>2. Audience(g) \subseteq Socket
      BY <1>0 DEF Audience, Members, FeedTypeOK
    <3> QED  BY <1>0, <3>1, <3>2 DEF HearsEachOnce
  <2> QED  BY <2>1, <2>2, <2>3 DEF HeardAt
<1>2. CASE SendEnds
  <2>1. /\ Even /\ item[1] \in Feed /\ item[2] \in Nat /\ target \in Socket /\ tail = "send"
    BY <1>0, <1>2 DEF SendEnds, CastIsEven, FeedTypeOK, Entry
  <2>2. /\ target' \in todo /\ todo' = todo \ {target'}
        /\ UNCHANGED <<clients, item, size, link>>
    BY <1>2 DEF SendEnds, Advance
  <2>3. \A s \in todo : heard'[s][item[1]] = heard[s][item[1]]
    <3>1. CASE link[target] = "open"
      <4>1. \A s \in Socket, g \in Feed : s # target \/ g # item[1] => heard'[s][g] = heard[s][g]
        BY <1>0, <1>2, <2>1, <3>1, HeardType DEF SendEnds, FeedTypeOK
      <4> QED  BY <1>0, <2>1, <4>1 DEF FeedTypeOK
    <3>2. CASE link[target] # "open"
      BY <1>2, <3>2 DEF SendEnds
    <3> QED  BY <3>1, <3>2
  <2>4. Cardinality(Audience(item[1])') = size'
    BY <2>1, <2>2 DEF Audience, Members
  <2> QED  BY <2>1, <2>2, <2>3, <2>4 DEF HeardAt
<1>3. ASSUME NEW r \in Socket, Join(r) \/ Leave(r) PROVE Even'
  <2>1. /\ tail = "send" /\ UNCHANGED <<item, size, target, heard>>
        /\ \A s \in Socket \ {r} : link'[s] = link[s]
    BY <1>0, <1>3 DEF Join, Leave, FeedTypeOK
  <2>2. /\ UNCHANGED <<churned, todo>>
        /\ r \in clients \/ link[r] = "new" => SocketOrg[r] # FeedOrg[item[1]]
    BY <1>0, <1>3, <2>1 DEF Join, Leave, SetChanges
  <2>3. Even
    BY <1>0, <2>1, <2>2 DEF CastIsEven
  <2>4. Audience(item[1])' = Audience(item[1])
    BY <1>3, <2>1, <2>2 DEF Audience, Members, Join, Leave
  <2>5. todo \union {target} \subseteq Socket
    BY <1>0, <2>1 DEF FeedTypeOK
  <2>6. link[r] = "new" => r \notin todo \union {target}
    BY <1>0 DEF OpenIsMember
  <2>7. \A s \in todo \union {target} : link'[s] = "open" => link[s] = "open"
    BY <1>0, <1>3, <2>1, <2>5, <2>6 DEF Join, Leave, FeedTypeOK
  <2> QED  BY <2>1, <2>2, <2>3, <2>4, <2>7 DEF HeardAt
<1>4. ASSUME \/ (\E r \in Socket : Disconnect(r)) \/ (\E g \in Feed : Publish(g))
             \/ UNCHANGED feedVars
      PROVE  Even'
  <2>1. /\ tail = "send" /\ UNCHANGED <<item, size, target, todo, heard, clients, churned>>
    BY <1>4 DEF Disconnect, Publish, feedVars
  <2>2. \A s \in Socket : link'[s] = "open" => link[s] = "open"
    BY <1>0, <1>4 DEF Disconnect, Publish, feedVars, FeedTypeOK
  <2>3. Even /\ todo \union {target} \subseteq Socket
    BY <1>0, <2>1 DEF CastIsEven, FeedTypeOK
  <2> QED  BY <2>1, <2>2, <2>3 DEF HeardAt, Audience, Members
<1>5. ~(FindStreams \/ Read \/ FeedBlockEnds \/ BatchEnds \/ RedisFails \/ Restart)
  BY DEF FindStreams, Read, FeedBlockEnds, BatchEnds, RedisFails, Restart
<1> HIDE DEF Even
<1> QED  BY <1>1, <1>2, <1>3, <1>4, <1>5 DEF FeedNext, TailTask

\* What an open socket has been sent.
Hears(s) ==
    \A f \in Feed :
        /\ heard[s][f] # <<>> => FeedOrg[f] = SocketOrg[s]
        /\ \A k \in DOMAIN heard[s][f] :
             /\ heard[s][f][k] \in handled[f]
             /\ \A j \in 1 .. k : heard[s][f][j] <= heard[s][f][k]
        /\ FeedOrg[f] = SocketOrg[s] =>
             \A i \in handled[f] \ base[s][f] :
                 <<f, i>> \notin churned /\ ~Awaits(s, f, i) => Cardinality(HeardAt(s, f, i)) = 1

\* A step in which no socket is sent anything, and no broadcast passes by s.
LEMMA HearsKept ==
    ASSUME NEW s \in Socket, Hears(s), UNCHANGED <<heard, handled>>, base'[s] = base[s],
           churned \subseteq churned',
           \A f \in Feed : \A i \in handled[f] :
               <<f, i>> \notin churned' /\ ~Awaits(s, f, i)' => ~Awaits(s, f, i)
    PROVE  Hears(s)'
  BY DEF Hears, HeardAt

\* A broadcast begins.
LEMMA HandleHears ==
    ASSUME FeedInv, NEW g \in Feed, Handle(g), NEW s \in Socket, link[s] = "open"
    PROVE  Hears(s)'
<1> USE DEF socketVars
<1>0. /\ FeedTypeOK /\ Hears(s) /\ s \in clients
  BY DEF FeedInv, OpenIsMember, HearsEachOnce, Hears
<1>1. /\ tail = "next" /\ item' = <<g, lastId[g] + 1>>
      /\ handled' = [handled EXCEPT ![g] = @ \union {lastId[g] + 1}]
      /\ UNCHANGED <<heard, base, churned>>
  BY DEF Handle
<1>2. handled'[g] = handled[g] \union {lastId[g] + 1}
      /\ \A f \in Feed \ {g} : handled'[f] = handled[f]
  BY <1>0, <1>1 DEF FeedTypeOK
<1>3. FeedOrg[g] = SocketOrg[s] =>
        tail' = "send" /\ s \in todo' \union {target'}
  BY <1>0 DEF Handle, Audience, Members
<1>4. \A n : n = lastId[g] + 1 /\ FeedOrg[g] = SocketOrg[s] => Awaits(s, g, n)'
  BY <1>1, <1>3 DEF Awaits
<1>5. \A f \in Feed : \A i \in handled[f] : ~Awaits(s, f, i)
  BY <1>1 DEF Awaits
<1> SUFFICES ASSUME NEW f \in Feed
             PROVE  /\ heard'[s][f] # <<>> => FeedOrg[f] = SocketOrg[s]
                    /\ \A k \in DOMAIN heard'[s][f] :
                         /\ heard'[s][f][k] \in handled'[f]
                         /\ \A j \in 1 .. k : heard'[s][f][j] <= heard'[s][f][k]
                    /\ FeedOrg[f] = SocketOrg[s] =>
                         \A i \in handled'[f] \ base'[s][f] :
                             <<f, i>> \notin churned' /\ ~Awaits(s, f, i)' =>
                                 Cardinality(HeardAt(s, f, i)') = 1
  BY DEF Hears
<1>6. /\ heard'[s][f] # <<>> => FeedOrg[f] = SocketOrg[s]
      /\ \A k \in DOMAIN heard'[s][f] :
           /\ heard'[s][f][k] \in handled'[f]
           /\ \A j \in 1 .. k : heard'[s][f][j] <= heard'[s][f][k]
  BY <1>0, <1>1, <1>2 DEF Hears
<1>7. ASSUME FeedOrg[f] = SocketOrg[s], NEW i \in handled'[f] \ base'[s][f],
             <<f, i>> \notin churned', ~Awaits(s, f, i)'
      PROVE  Cardinality(HeardAt(s, f, i)') = 1
  <2>1. i \in handled[f] \ base[s][f] /\ <<f, i>> \notin churned
    BY <1>1, <1>2, <1>4, <1>7
  <2>2. HeardAt(s, f, i)' = HeardAt(s, f, i)
    BY <1>1 DEF HeardAt
  <2> QED  BY <1>0, <1>5, <1>7, <2>1, <2>2 DEF Hears
<1> QED  BY <1>6, <1>7

\* A send to another socket ends.
LEMMA OtherHears ==
    ASSUME FeedInv, SendEnds, NEW s \in Socket, link[s] = "open", s # target
    PROVE  Hears(s)'
<1> USE DEF feedHistory
<1>0. /\ FeedTypeOK /\ Hears(s) /\ CastIsEven
  BY DEF FeedInv, HearsEachOnce, Hears
<1>1. /\ target \in Socket /\ item[1] \in Feed /\ item[2] \in Nat
      /\ tail = "send" /\ UNCHANGED <<item, handled, base, churned>>
  BY <1>0 DEF SendEnds, FeedTypeOK, Entry
<1>2. heard'[s] = heard[s]
  BY <1>0, <1>1 DEF SendEnds, FeedTypeOK
<1>3. ASSUME NEW f \in Feed, NEW i \in handled[f], <<f, i>> \notin churned, ~Awaits(s, f, i)'
      PROVE  ~Awaits(s, f, i)
  <2> SUFFICES ASSUME Awaits(s, f, i) PROVE FALSE
    OBVIOUS
  <2>1. item = <<f, i>> /\ s \in todo /\ Cardinality(Audience(item[1])) = size
    BY <1>0, <1>1, <1>3 DEF Awaits, CastIsEven
  <2>2. target' \in todo /\ todo' = todo \ {target'} /\ tail' = tail
    BY <2>1 DEF SendEnds, Advance
  <2>3. s \in todo' \union {target'} /\ tail' = "send" /\ item' = <<f, i>>
    BY <1>1, <2>1, <2>2
  <2> QED  BY <1>3, <2>3 DEF Awaits
<1>4. \A f \in Feed, i \in Nat : HeardAt(s, f, i)' = HeardAt(s, f, i)
  BY <1>2 DEF HeardAt
<1>5. \A f \in Feed : handled[f] \subseteq Nat
  BY <1>0 DEF FeedTypeOK
<1> QED  BY <1>0, <1>1, <1>2, <1>3, <1>4, <1>5 DEF Hears

\* A send to an open socket ends: it has heard the entry once more.
LEMMA TargetHears ==
    ASSUME FeedInv, SendEnds, link[target] = "open"
    PROVE  /\ target \in Socket /\ Hears(target)
           /\ \A s \in Socket : s = target => Hears(s)'
<1> USE DEF feedHistory
<1>0. /\ FeedTypeOK /\ NoneSkipped /\ CastIsLast /\ CastIsEven
      /\ tail = "send" /\ UNCHANGED <<handled, base, churned>>
  BY DEF FeedInv, SendEnds
<1>1. /\ target \in Socket /\ item[1] \in Feed /\ item[2] \in Nat /\ item = <<item[1], item[2]>>
  BY <1>0 DEF FeedTypeOK, Entry
<1>2. Hears(target)
  BY <1>1 DEF FeedInv, HearsEachOnce, Hears
<1>3. PICK f0 \in Feed, n \in Nat : item = <<f0, n>>
  BY <1>1
<1>4. heard' = [heard EXCEPT ![target][f0] = Append(@, n)]
  BY <1>3 DEF SendEnds
<1>5. n = lastId[f0] /\ n \in handled[f0] /\ (\A m \in handled[f0] : m <= n)
      /\ SocketOrg[target] = FeedOrg[f0]
  <2>1. n = lastId[f0] /\ f0 \in known \ fresh /\ SocketOrg[target] = FeedOrg[f0]
    BY <1>0, <1>3 DEF CastIsLast
  <2>2. PICK first \in 1 .. n : handled[f0] = first .. n
    BY <1>0, <2>1 DEF NoneSkipped
  <2> QED  BY <1>3, <2>1, <2>2
<1> SUFFICES ASSUME NEW s \in Socket, s = target PROVE Hears(s)'
  BY <1>1, <1>2
<1>6. /\ heard[s] \in [Feed -> Seq(Nat)] /\ heard'[s][f0] = Append(heard[s][f0], n)
      /\ \A f \in Feed : f # f0 => heard'[s][f] = heard[s][f]
  BY <1>0, <1>4, HeardType DEF FeedTypeOK
<1> DEFINE old == heard[s][f0]  new == heard'[s][f0]  len == Len(old)
<1>7. /\ old \in Seq(Nat) /\ len \in Nat /\ DOMAIN old = 1 .. len
      /\ DOMAIN new = 1 .. (len + 1) /\ new[len + 1] = n
      /\ \A k \in 1 .. len : new[k] = old[k] /\ old[k] \in Nat
  BY <1>6
<1>8. /\ \A k \in 1 .. len : old[k] \in handled[f0] /\ \A j \in 1 .. k : old[j] <= old[k]
      /\ \A i \in handled[f0] \ base[s][f0] :
           FeedOrg[f0] = SocketOrg[s] /\ <<f0, i>> \notin churned /\ ~Awaits(s, f0, i) =>
               Cardinality(HeardAt(s, f0, i)) = 1
  BY <1>2, <1>7 DEF Hears
<1> SUFFICES ASSUME NEW f \in Feed
             PROVE  /\ heard'[s][f] # <<>> => FeedOrg[f] = SocketOrg[s]
                    /\ \A k \in DOMAIN heard'[s][f] :
                         /\ heard'[s][f][k] \in handled'[f]
                         /\ \A j \in 1 .. k : heard'[s][f][j] <= heard'[s][f][k]
                    /\ FeedOrg[f] = SocketOrg[s] =>
                         \A i \in handled'[f] \ base'[s][f] :
                             <<f, i>> \notin churned' /\ ~Awaits(s, f, i)' =>
                                 Cardinality(HeardAt(s, f, i)') = 1
  BY DEF Hears
<1>9. CASE f # f0
  <2>1. \A i : ~Awaits(s, f, i) /\ HeardAt(s, f, i)' = HeardAt(s, f, i)
    BY <1>3, <1>6, <1>9 DEF Awaits, HeardAt
  <2>2. heard'[s][f] = heard[s][f] /\ handled'[f] = handled[f] /\ base'[s][f] = base[s][f]
        /\ churned' = churned /\ Hears(s)
    BY <1>0, <1>2, <1>6, <1>9
  <2> QED  BY <2>1, <2>2 DEF Hears
<1>10. CASE f = f0
  <2> HIDE DEF old, new, len
  <2>1. \A k \in 1 .. (len + 1) :
          /\ new[k] \in handled[f0]
          /\ \A j \in 1 .. k : new[j] <= new[k]
    <3>1. \A k \in 1 .. len : new[k] \in handled[f0] /\ new[k] <= n
      BY <1>5, <1>7, <1>8
    <3>2. \A k \in 1 .. len : \A j \in 1 .. k : new[j] <= new[k]
      <4>1. \A k \in 1 .. len : \A j \in 1 .. k : j \in 1 .. len
        BY <1>7
      <4> QED  BY <1>7, <1>8, <4>1
    <3>3. \A j \in 1 .. (len + 1) : new[j] <= n
      BY <1>7, <3>1
    <3>4. \A k \in 1 .. (len + 1) : k \in 1 .. len \/ k = len + 1
      BY <1>7
    <3>5. \A k \in 1 .. (len + 1) : new[k] \in handled[f0]
      BY <1>5, <1>7, <3>1, <3>4
    <3> SUFFICES ASSUME NEW k \in 1 .. (len + 1), NEW j \in 1 .. k PROVE new[j] <= new[k]
      BY <3>5
    <3>6. CASE k \in 1 .. len
      BY <3>2, <3>6
    <3>7. CASE k = len + 1
      BY <1>7, <3>3, <3>7
    <3> QED  BY <3>4, <3>6, <3>7
  <2>2. ASSUME NEW i \in handled[f0] \ base[s][f0], <<f0, i>> \notin churned
        PROVE  Cardinality({k \in 1 .. (len + 1) : new[k] = i}) = 1
    <3>1. CASE i = n
      <4>1. HeardAt(target, f0, n) = {}
        BY <1>0, <1>3, <2>2, <3>1 DEF CastIsEven
      <4>2. \A k \in 1 .. len : old[k] # n
        BY <1>7, <4>1 DEF HeardAt, old
      <4>3. {k \in 1 .. (len + 1) : new[k] = i} = {len + 1}
        BY <1>7, <3>1, <4>2
      <4> QED  BY <4>3, FS_Singleton
    <3>2. CASE i # n
      <4>1. ~Awaits(s, f0, i)
        BY <1>3, <3>2 DEF Awaits
      <4>2. Cardinality(HeardAt(s, f0, i)) = 1
        BY <1>5, <1>8, <2>2, <4>1
      <4>3. HeardAt(s, f0, i) = {k \in 1 .. len : old[k] = i}
        BY <1>7 DEF HeardAt, old
      <4>4. {k \in 1 .. (len + 1) : new[k] = i} = {k \in 1 .. len : old[k] = i}
        BY <1>7, <3>2
      <4> QED  BY <4>2, <4>3, <4>4
    <3> QED  BY <3>1, <3>2
  <2>3. \A i : HeardAt(s, f, i)' = {k \in 1 .. (len + 1) : new[k] = i}
    BY <1>7, <1>10 DEF HeardAt, new
  <2>4. heard'[s][f] = new /\ DOMAIN heard'[s][f] = 1 .. (len + 1)
    BY <1>7, <1>10 DEF new
  <2> QED  BY <1>0, <1>5, <1>10, <2>1, <2>2, <2>3, <2>4
<1> QED  BY <1>9, <1>10

\* Every step keeps what each socket hears right.
LEMMA HearsStep == FeedInv /\ [FeedNext]_feedVars => HearsEachOnce'
<1> SUFFICES ASSUME FeedInv, [FeedNext]_feedVars, NEW s \in Socket, link'[s] = "open"
             PROVE  Hears(s)'
  BY DEF HearsEachOnce, Hears
<1> USE DEF streamVars, castVars, socketVars, feedHistory
<1>0. FeedTypeOK /\ OpenIsMember /\ (link[s] = "open" => Hears(s))
  BY DEF FeedInv, HearsEachOnce, Hears
<1>1. ASSUME NEW r \in Socket, Join(r), r # s PROVE Hears(s)'
  <2>1. /\ link[s] = "open" /\ UNCHANGED <<heard, handled, item, target>>
        /\ base' = [base EXCEPT ![r] = handled] /\ (tail = "send" => tail' = "send")
    BY <1>0, <1>1 DEF Join, FeedTypeOK
  <2>2. \/ churned' = churned /\ todo' = todo
        \/ churned' = churned \union {item}
    BY <1>1 DEF Join, SetChanges
  <2>3. base'[s] = base[s]
    BY <1>0, <1>1, <2>1 DEF FeedTypeOK
  <2>4. \A f \in Feed : \A i \in handled[f] :
          <<f, i>> \notin churned' /\ ~Awaits(s, f, i)' => ~Awaits(s, f, i)
    BY <2>1, <2>2 DEF Awaits
  <2> QED  BY <1>0, <2>1, <2>2, <2>3, <2>4, HearsKept
<1>2. ASSUME Join(s) PROVE Hears(s)'
  <2>1. link[s] = "new" /\ UNCHANGED <<heard, handled>> /\ base'[s] = handled
    BY <1>0, <1>2 DEF Join, FeedTypeOK
  <2>2. \A f \in Feed : heard'[s][f] = <<>>
    BY <1>0, <2>1 DEF OpenIsMember
  <2> QED  BY <2>1, <2>2 DEF Hears
<1>3. ASSUME NEW r \in Socket, Disconnect(r) \/ Leave(r) PROVE Hears(s)'
  <2>1. /\ link[s] = "open" /\ UNCHANGED <<heard, handled, base, item, target, tail>>
    BY <1>0, <1>3 DEF Disconnect, Leave, FeedTypeOK
  <2>2. \/ churned' = churned /\ todo' = todo
        \/ churned' = churned \union {item}
    BY <1>3 DEF Disconnect, Leave, SetChanges
  <2>3. \A f \in Feed : \A i \in handled[f] :
          <<f, i>> \notin churned' /\ ~Awaits(s, f, i)' => ~Awaits(s, f, i)
    BY <2>1, <2>2 DEF Awaits
  <2> QED  BY <1>0, <2>1, <2>2, <2>3, HearsKept
<1>4. ASSUME NEW g \in Feed, Handle(g) PROVE Hears(s)'
  BY <1>4, HandleHears DEF Handle
<1>5. CASE SendEnds
  <2>1. link[s] = "open"
    BY <1>5 DEF SendEnds
  <2>2. CASE s = target
    BY <1>5, <2>1, <2>2, TargetHears
  <2> QED  BY <1>5, <2>1, <2>2, OtherHears
<1>6. CASE Restart
  BY <1>0, <1>6 DEF Restart, FeedTypeOK
<1>7. ASSUME \/ FindStreams \/ Read \/ FeedBlockEnds \/ BatchEnds \/ RedisFails
             \/ (\E g \in Feed : Publish(g)) \/ UNCHANGED feedVars
      PROVE  Hears(s)'
  <2>1. /\ link[s] = "open" /\ UNCHANGED <<heard, handled, base, churned>>
    BY <1>7 DEF FindStreams, Read, FeedBlockEnds, BatchEnds, RedisFails, Publish, feedVars
  <2>2. tail = "send" => UNCHANGED <<tail, item, target, todo>>
    BY <1>7 DEF FindStreams, Read, FeedBlockEnds, BatchEnds, RedisFails, Publish, feedVars
  <2>3. \A f \in Feed : \A i \in handled[f] : ~Awaits(s, f, i)' => ~Awaits(s, f, i)
    BY <2>2 DEF Awaits
  <2> QED  BY <1>0, <2>1, <2>3, HearsKept
<1> QED  BY <1>1, <1>2, <1>3, <1>4, <1>5, <1>6, <1>7 DEF FeedNext, TailTask

-----------------------------------------------------------------------------
(* Theorems *)

\* The inductive invariant holds in every state.
THEOREM FeedInvariant == FeedSpec => []FeedInv
<1>1. FeedInv /\ [FeedNext]_feedVars => FeedInv'
  BY FeedTypeStep, UnknownStep, SkipStep, OpenStep, CastLastStep, CastEvenStep, HearsStep
     DEF FeedInv
<1> QED  BY FeedInitInv, <1>1, PTL DEF FeedSpec

\* The live feed keeps its types: the task never reads past a stream's end, and
\* a broadcast under way has its message and its socket.
THEOREM FeedTypeCorrect == FeedSpec => []FeedTypeOK
<1>1. FeedInv => FeedTypeOK
  BY DEF FeedInv
<1> QED  BY FeedInvariant, <1>1, PTL

\* _tail_incident_streams skips no entry of a stream from the first it reads.
THEOREM NoneSkippedCorrect == FeedSpec => []NoneSkipped
<1>1. FeedInv => NoneSkipped
  BY DEF FeedInv
<1> QED  BY FeedInvariant, <1>1, PTL

\* _broadcast sends each incident once to each socket of its organisation, in
\* order, while no socket of it comes or goes.
THEOREM HearsCorrect == FeedSpec => []HearsEachOnce
<1>1. FeedInv => HearsEachOnce
  BY DEF FeedInv
<1> QED  BY FeedInvariant, <1>1, PTL
=============================================================================
