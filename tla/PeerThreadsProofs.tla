---------------------------- MODULE PeerThreadsProofs ----------------------------
(***************************************************************************)
(* Proofs about two services of a secondary whose threads race: the settle *)
(* timer of ReplicationSender and the flood of derivation broadcasts, for  *)
(* every number of peers, timers, pushes and disturbances; and that an     *)
(* undisturbed flood does not come to rest before every peer has the path. *)
(***************************************************************************)
EXTENDS SettleTimer, BroadcastFlood, FiniteSetTheorems, TLAPS

-------------------------------------------------------------------------------
\* The settle timer.

\* The path is marked while a firing is under way and once the primary was told.
MarkedWhileTold ==
  /\ preferred \in Seq(SUBSET Holder)
  /\ fired \in BOOLEAN
  /\ ~fired => firing = {} /\ preferred = <<>>
  /\ \A s, u \in firing : s = u
  /\ firing # {} => preferred = <<>>
  /\ Len(preferred) <= 1
  /\ placed \subseteq Holder /\ firing \subseteq SUBSET Holder

LEMMA SettleStep ==
  ASSUME MarkedWhileTold, [SettleNext]_settleVars
  PROVE  MarkedWhileTold'
<1> USE DEF MarkedWhileTold
<1>1. CASE UNCHANGED settleVars
  BY <1>1 DEF settleVars
<1>2. CASE SeePlacements
  BY <1>2 DEF SeePlacements
<1>3. CASE \E h \in Holder : HolderPushed(h)
  BY <1>3 DEF HolderPushed
<1>4. CASE TimerExpires
  BY <1>4 DEF TimerExpires
<1>5. CASE Fire
  BY <1>5 DEF Fire
<1>6. CASE TellPrimary
  <2>1. PICK holders \in firing :
          /\ firing' = firing \ {holders}
          /\ IF hashKnown /\ Cardinality(holders) < EnoughK THEN fired' = FALSE ELSE UNCHANGED fired
          /\ IF hashKnown /\ Cardinality(holders) >= EnoughK
             THEN preferred' = Append(preferred, holders) ELSE UNCHANGED preferred
    BY <1>6 DEF TellPrimary
  <2>2. firing' = {} /\ fired /\ preferred = <<>> /\ holders \in SUBSET Holder /\ placed' = placed
    BY <1>6, <2>1 DEF TellPrimary
  <2>3. CASE preferred' = preferred
    BY <2>1, <2>2, <2>3
  <2>4. CASE preferred' = Append(preferred, holders) /\ fired' = fired
    BY <2>2, <2>4
  <2>5. Cardinality(holders) >= EnoughK => ~(Cardinality(holders) < EnoughK)
    BY SettleAssumption, FS_Subset, FS_CardinalityType, <2>2
  <2> QED BY <2>1, <2>3, <2>4, <2>5
<1>7. CASE StopSettle
  BY <1>7 DEF StopSettle
<1> QED BY <1>1, <1>2, <1>3, <1>4, <1>5, <1>6, <1>7 DEF SettleNext

(* The primary is told which nodes to prefer at most once, however many    *)
(* timers expired before one was cancelled and race for the lock.          *)
THEOREM ToldOnce == SettleSpec => []PreferredToldOnce
<1>1. SettleInit => MarkedWhileTold
  <2>1. <<>> \in Seq(SUBSET Holder) /\ Len(<<>>) = 0
    OBVIOUS
  <2> SUFFICES ASSUME SettleInit PROVE MarkedWhileTold
    OBVIOUS
  <2>2. preferred \in Seq(SUBSET Holder) /\ Len(preferred) <= 1
    BY <2>1 DEF SettleInit
  <2>3. placed \subseteq Holder /\ firing \subseteq SUBSET Holder /\ \A s, u \in firing : s = u
    BY DEF SettleInit
  <2>4. fired \in BOOLEAN /\ firing = {} /\ preferred = <<>>
    BY DEF SettleInit
  <2> QED BY <2>2, <2>3, <2>4 DEF MarkedWhileTold
<1>2. MarkedWhileTold => PreferredToldOnce
  BY DEF MarkedWhileTold, PreferredToldOnce
<1> QED BY <1>1, <1>2, SettleStep, PTL DEF SettleSpec

\* The types, one conjunct each, and that what the primary is told is a sequence.
SettleTyped ==
  /\ placed \subseteq Holder /\ firing \subseteq SUBSET Holder /\ preferred \in Seq(SUBSET Holder)
  /\ armed \in BOOLEAN /\ fired \in BOOLEAN /\ hashKnown \in BOOLEAN /\ settleStopped \in BOOLEAN
  /\ waiting \in 0..MaxWaiting /\ pushes \in 0..MaxPush

(* Whom the primary is told of are secondaries, and the timers that wait   *)
(* for the sender's lock are counted.                                      *)
THEOREM SettleTypeCorrect == SettleSpec => []SettleTypeOK
<1> USE SettleAssumption
<1>1. SettleInit => SettleTyped
  <2> SUFFICES ASSUME SettleInit PROVE SettleTyped
    OBVIOUS
  <2>1. preferred \in Seq(SUBSET Holder) /\ placed \subseteq Holder /\ firing \subseteq SUBSET Holder
    <3>1. <<>> \in Seq(SUBSET Holder)
      OBVIOUS
    <3> QED BY <3>1 DEF SettleInit
  <2>2. waiting \in 0..MaxWaiting /\ pushes \in 0..MaxPush
    BY DEF SettleInit
  <2>3. armed \in BOOLEAN /\ fired \in BOOLEAN /\ hashKnown \in BOOLEAN /\ settleStopped \in BOOLEAN
    BY DEF SettleInit
  <2> QED BY <2>1, <2>2, <2>3 DEF SettleTyped
<1>2. ASSUME SettleTyped, [SettleNext]_settleVars PROVE SettleTyped'
  <2> USE <1>2 DEF SettleTyped
  <2>1. CASE UNCHANGED settleVars
    BY <2>1 DEF settleVars
  <2>2. CASE SeePlacements
    <3>1. placed' \subseteq Holder
      BY <2>2 DEF SeePlacements
    <3> QED BY <2>2, <3>1 DEF SeePlacements
  <2>3. CASE \E h \in Holder : HolderPushed(h)
    <3>1. PICK h \in Holder : HolderPushed(h)
      BY <2>3
    <3>2. armed' \in BOOLEAN
      <4>1. armed' = FALSE \/ armed' = (armed \/ ~fired)
        BY <3>1 DEF HolderPushed, Arm
      <4> QED BY <4>1, Zenon
    <3>3. pushes' \in 0..MaxPush
      BY <3>1 DEF HolderPushed
    <3> QED BY <3>1, <3>2, <3>3 DEF HolderPushed
  <2>4. CASE TimerExpires
    <3>1. waiting' \in 0..MaxWaiting /\ armed' = FALSE
      BY <2>4 DEF TimerExpires
    <3> QED BY <2>4, <3>1 DEF TimerExpires
  <2>5. CASE Fire
    <3>1. waiting' \in 0..MaxWaiting
      BY <2>5 DEF Fire
    <3>3. firing' \subseteq SUBSET Holder
      BY <2>5, Zenon DEF Fire
    <3>2. armed' \in BOOLEAN /\ fired' \in BOOLEAN
      BY <2>5 DEF Fire
    <3> QED BY <2>5, <3>1, <3>2, <3>3 DEF Fire
  <2>6. CASE TellPrimary
    <3>1. PICK holders \in firing :
            /\ firing' = firing \ {holders}
            /\ IF hashKnown /\ Cardinality(holders) < EnoughK THEN fired' = FALSE ELSE UNCHANGED fired
            /\ IF hashKnown /\ Cardinality(holders) >= EnoughK
               THEN preferred' = Append(preferred, holders) ELSE UNCHANGED preferred
      BY <2>6 DEF TellPrimary
    <3>2. preferred' \in Seq(SUBSET Holder)
      <4>1. preferred \in Seq(SUBSET Holder) /\ holders \in SUBSET Holder
        OBVIOUS
      <4>2. preferred' \in {preferred, Append(preferred, holders)}
        BY <3>1
      <4> QED BY ONLY <4>1, <4>2
    <3>3. fired' \in BOOLEAN
      BY <3>1
    <3> QED BY <2>6, <3>1, <3>2, <3>3 DEF TellPrimary
  <2>7. CASE StopSettle
    BY <2>7 DEF StopSettle
  <2> HIDE DEF SettleTyped
  <2> QED BY <1>2, <2>1, <2>2, <2>3, <2>4, <2>5, <2>6, <2>7 DEF SettleNext
<1>3. SettleTyped => SettleTypeOK
  BY DEF SettleTyped, SettleTypeOK
<1> QED BY <1>1, <1>2, <1>3, PTL DEF SettleSpec

-------------------------------------------------------------------------------
\* The flood.

\* An offer that left the wire took its id; what a node passes on it has announced
\* itself or taken the id of.
HandledIdsAreSeen ==
  /\ \A o \in offers : o.at # "wire" => o.id \in seenIds[o.to]
  /\ \A n \in Peer : \A j \in outbox[n] : j.origin = n \/ j.id \in seenIds[n]

FloodInv == FloodTypeOK /\ HandledIdsAreSeen /\ OneHandlerPerBroadcast

LEMMA FloodTyped ==
  ASSUME FloodTypeOK, [FloodNext]_floodVars
  PROVE  FloodTypeOK'
<1> USE DEF FloodTypeOK, Calm, Disturb
<1> USE FloodAssumption
<1>1. CASE UNCHANGED floodVars
  BY <1>1 DEF floodVars
<1>2. ASSUME NEW n \in Peer, FanOut(n) PROVE FloodTypeOK'
  BY <1>2 DEF FanOut, Targets, Jobs, Offers
<1>3. ASSUME NEW o \in offers, HandleOffer(o) PROVE FloodTypeOK'
  <2>1. CASE FirstOffer(o) \/ StartFetch(o)
    BY <1>3, <2>1 DEF FirstOffer, StartFetch, Becomes, Offers
  <2>2. CASE DuplicateOffer(o) \/ RefuseOffer(o) \/ AcceptHeld(o)
    BY <1>3, <2>2 DEF DuplicateOffer, RefuseOffer, AcceptHeld, Ends, Offers
  <2>3. CASE FetchEnds(o)
    <3>1. Cascade(o) \subseteq Jobs
      BY <1>3, <2>3 DEF Cascade, LastHop, Jobs, Offers
    <3> QED BY <1>3, <2>3, <3>1 DEF FetchEnds, Ends, Offers
  <2> QED BY <1>3, <2>1, <2>2, <2>3 DEF HandleOffer
<1>4. ASSUME NEW o \in offers, FetchFails(o) \/ LoseOffer(o) PROVE FloodTypeOK'
  BY <1>4 DEF FetchFails, LoseOffer, Ends
<1>5. ASSUME NEW n \in Peer, StopFlood(n) \/ \E m \in Peer : LearnPeer(n, m) PROVE FloodTypeOK'
  BY <1>5 DEF StopFlood, LearnPeer
<1> QED BY <1>1, <1>2, <1>3, <1>4, <1>5 DEF FloodNext, FloodStep

\* An offer that ends takes nothing with it.
LEMMA OfferEnds ==
  ASSUME FloodInv, offers' \subseteq offers, UNCHANGED <<outbox, seenIds>>
  PROVE  HandledIdsAreSeen' /\ OneHandlerPerBroadcast'
  BY DEF FloodInv, HandledIdsAreSeen, OneHandlerPerBroadcast

LEMMA FloodKept ==
  ASSUME FloodInv, [FloodNext]_floodVars
  PROVE  HandledIdsAreSeen' /\ OneHandlerPerBroadcast'
<1> USE DEF FloodInv, FloodTypeOK
<1>1. CASE UNCHANGED floodVars
  BY <1>1, OfferEnds DEF floodVars
<1>2. ASSUME NEW n \in Peer, FanOut(n) PROVE HandledIdsAreSeen' /\ OneHandlerPerBroadcast'
  <2>1. /\ UNCHANGED seenIds
        /\ \A m \in Peer : outbox'[m] \subseteq outbox[m]
        /\ \A o \in offers' : o.at # "wire" => o \in offers
    BY <1>2 DEF FanOut
  <2> QED BY <2>1 DEF HandledIdsAreSeen, OneHandlerPerBroadcast, Offers
<1>3. ASSUME NEW o \in offers, FirstOffer(o) PROVE HandledIdsAreSeen' /\ OneHandlerPerBroadcast'
  <2> DEFINE q == [o EXCEPT !.at = "check"]
  <2>1. q.id = o.id /\ q.to = o.to /\ o.id \in Peer /\ o.to \in Peer
    BY DEF Offers
  <2>2. offers' = (offers \ {o}) \cup {q} /\ outbox' = outbox /\ o.id \notin seenIds[o.to]
    BY <1>3 DEF FirstOffer, Becomes
  <2>3. \A m \in Peer : seenIds'[m] = IF m = o.to THEN seenIds[m] \cup {o.id} ELSE seenIds[m]
    BY <1>3 DEF FirstOffer
  <2> HIDE DEF q
  <2>4. \A p \in offers : p.at # "wire" => ~(p.to = o.to /\ p.id = o.id)
    BY <2>2 DEF HandledIdsAreSeen
  <2>5. HandledIdsAreSeen'
    BY <2>1, <2>2, <2>3, ZenonT(60) DEF HandledIdsAreSeen, Offers
  <2>6. OneHandlerPerBroadcast'
    <3> SUFFICES ASSUME NEW p \in offers', p.at # "wire"
                 PROVE  /\ \A u \in offers' : u.at # "wire" /\ u.to = p.to /\ u.id = p.id => u = p
                        /\ \A j \in outbox[p.to] : j.id = p.id => j.origin = p.to
      BY <2>2 DEF OneHandlerPerBroadcast
    <3>1. CASE p = q
      BY <2>1, <2>2, <2>4, <3>1 DEF HandledIdsAreSeen
    <3>2. CASE p # q
      BY <2>1, <2>2, <2>4, <3>2 DEF OneHandlerPerBroadcast
    <3> QED BY <3>1, <3>2
  <2> QED BY <2>5, <2>6
<1>4. ASSUME NEW o \in offers, StartFetch(o) PROVE HandledIdsAreSeen' /\ OneHandlerPerBroadcast'
  <2> DEFINE q == [o EXCEPT !.at = "fetch"]
  <2>1. q.id = o.id /\ q.to = o.to /\ o.at # "wire"
    BY <1>4 DEF StartFetch, Offers
  <2>2. offers' = (offers \ {o}) \cup {q} /\ outbox' = outbox /\ seenIds' = seenIds
    BY <1>4 DEF StartFetch, Becomes
  <2> HIDE DEF q
  <2> QED BY <2>1, <2>2 DEF HandledIdsAreSeen, OneHandlerPerBroadcast
<1>5. ASSUME NEW o \in offers, DuplicateOffer(o) \/ RefuseOffer(o) \/ AcceptHeld(o) \/ FetchFails(o) \/ LoseOffer(o)
      PROVE  HandledIdsAreSeen' /\ OneHandlerPerBroadcast'
  BY <1>5, OfferEnds DEF DuplicateOffer, RefuseOffer, AcceptHeld, FetchFails, LoseOffer, Ends
<1>6. ASSUME NEW o \in offers, FetchEnds(o) PROVE HandledIdsAreSeen' /\ OneHandlerPerBroadcast'
  <2>1. o.at = "fetch" /\ o.to \in Peer /\ offers' = offers \ {o} /\ seenIds' = seenIds
    BY <1>6 DEF FetchEnds, Ends, Offers
  <2>2. \A m \in Peer : outbox'[m] = IF m = o.to THEN outbox[m] \cup Cascade(o) ELSE outbox[m]
    BY <1>6 DEF FetchEnds
  <2>3. \A j \in Cascade(o) : j.id = o.id
    BY DEF Cascade
  <2>4. o.id \in seenIds[o.to]
    BY <2>1 DEF HandledIdsAreSeen
  <2>5. HandledIdsAreSeen'
    BY <2>1, <2>2, <2>3, <2>4 DEF HandledIdsAreSeen
  <2>6. OneHandlerPerBroadcast'
    <3> SUFFICES ASSUME NEW p \in offers', p.at # "wire"
                 PROVE  /\ \A u \in offers' : u.at # "wire" /\ u.to = p.to /\ u.id = p.id => u = p
                        /\ \A j \in outbox'[p.to] : j.id = p.id => j.origin = p.to
      BY DEF OneHandlerPerBroadcast
    <3>1. p \in offers /\ p # o /\ p.to \in Peer
      BY <2>1 DEF Offers
    <3>2. ~(p.to = o.to /\ p.id = o.id)
      BY <2>1, <3>1 DEF OneHandlerPerBroadcast
    <3> QED BY <2>1, <2>2, <2>3, <3>1, <3>2 DEF OneHandlerPerBroadcast
  <2> QED BY <2>5, <2>6
<1>7. ASSUME NEW n \in Peer, StopFlood(n) \/ \E m \in Peer : LearnPeer(n, m)
      PROVE  HandledIdsAreSeen' /\ OneHandlerPerBroadcast'
  BY <1>7, OfferEnds DEF StopFlood, LearnPeer
<1> QED BY <1>1, <1>2, <1>3, <1>4, <1>5, <1>6, <1>7 DEF FloodNext, FloodStep, HandleOffer

LEMMA FloodInvariant == FloodSpec => []FloodInv
<1>1. FloodInit => FloodInv
  <2> SUFFICES ASSUME FloodInit PROVE FloodInv
    OBVIOUS
  <2>1. PICK announcing \in SUBSET Peer :
          outbox = [n \in Peer |-> IF n \in announcing THEN {[id |-> n, origin |-> n, hop |-> 0]} ELSE {}]
    BY DEF FloodInit
  <2>2. outbox \in [Peer -> SUBSET Jobs] /\ \A n \in Peer : \A j \in outbox[n] : j.origin = n
    BY <2>1, FloodAssumption DEF Jobs
  <2> QED BY <2>2, FloodAssumption DEF FloodInit, FloodInv, FloodTypeOK, HandledIdsAreSeen, OneHandlerPerBroadcast
<1>2. FloodInv /\ [FloodNext]_floodVars => FloodInv'
  BY FloodTyped, FloodKept DEF FloodInv
<1> QED BY <1>1, <1>2, PTL DEF FloodSpec

\* The services exchange what they are meant to.
THEOREM FloodTypeCorrect == FloodSpec => []FloodTypeOK
<1>1. FloodInv => FloodTypeOK
  BY DEF FloodInv
<1> QED BY <1>1, FloodInvariant, PTL

(* However many neighbours offer a broadcast to a node at once, it fetches *)
(* and passes it on once.                                                  *)
THEOREM HandledOnce == FloodSpec => []OneHandlerPerBroadcast
<1>1. FloodInv => OneHandlerPerBroadcast
  BY DEF FloodInv
<1> QED BY <1>1, FloodInvariant, PTL

-------------------------------------------------------------------------------
\* The flood at rest.

\* Peers know each other mutually, over a connected graph, and the hops suffice.
Network ==
  /\ \A n, m \in Peer : m \in knows[n] => n \in knows[m]
  /\ \A S \in (SUBSET Peer) \ {{}, Peer} : \E n \in S : \E m \in Peer \ S : m \in knows[n]
  /\ Cardinality(Peer) <= MaxHop + 2

\* An offer of some hops has passed that many holders.
HopsAreHolders ==
  /\ \A n \in Peer : \A j \in outbox[n] :
       n \in holds /\ j.origin \in holds /\ Cardinality(holds) >= j.hop + 1
  /\ \A o \in offers : o.from \in holds /\ Cardinality(holds) >= o.hop + 1

OneBroadcast(a) ==
  /\ a \in holds
  /\ \A n \in Peer : seenIds[n] \subseteq {a} /\ \A j \in outbox[n] : j.id = a
  /\ \A o \in offers : o.id = a

OffersCanBeTaken ==
  \A o \in offers : o.from \in knows[o.to] /\ (o.at = "fetch" => o.to \notin holds)

\* A node without the path that has seen the broadcast is handling an offer of it; to
\* one that has not, every neighbour with the path has yet to make its offer.
OffersAreOwed ==
  \A m \in Peer \ holds :
    /\ seenIds[m] # {} => \E o \in offers : o.to = m /\ o.at # "wire"
    /\ seenIds[m] = {} => \A n \in holds : m \in knows[n] =>
         outbox[n] # {} \/ \E o \in offers : o.to = m /\ o.at = "wire"

IdealFlood ==
  /\ Network /\ stopped = {}
  /\ HopsAreHolders /\ (\E a \in Peer : OneBroadcast(a)) /\ OffersCanBeTaken /\ OffersAreOwed

IdealInv == disturbances = 0 => IdealFlood

\* No thread has anything to do.
FloodAtRest == offers = {} /\ \A n \in Peer : outbox[n] = {}

FloodRestReaches == disturbances = 0 /\ FloodAtRest => holds = Peer

LEMMA IdealInit == FloodInit /\ FloodIsIdeal => IdealInv
<1> SUFFICES ASSUME FloodInit, FloodIsIdeal PROVE IdealFlood
  BY DEF IdealInv
<1>1. IsFiniteSet(holds) /\ holds \subseteq Peer
  BY FloodAssumption, FS_Subset DEF FloodInit
<1>2. Network
  <2>1. \A n, m \in Peer : m \in knows[n] <=> <<n, m>> \in Edges
    BY DEF Edges
  <2>2. \A n, m \in Peer : m \in knows[n] => n \in knows[m]
    <3>1. \A n, m \in Peer : <<n, m>> \in Edges => <<m, n>> \in Edges
      BY DEF FloodIsIdeal
    <3> QED BY <2>1, <3>1
  <2>3. ASSUME NEW S \in (SUBSET Peer) \ {{}, Peer}
        PROVE  \E n \in S : \E m \in Peer \ S : m \in knows[n]
    <3>1. PICK e \in Edges : e[1] \in S /\ e[2] \notin S
      BY DEF FloodIsIdeal
    <3> QED BY <3>1 DEF Edges
  <2> QED BY <2>2, <2>3 DEF FloodIsIdeal, Network
<1>3. PICK a \in holds : holds = {a}
  <2>1. holds # {}
    BY DEF FloodInit
  <2>2. PICK a : a \in holds
    BY <2>1
  <2>3. {a} \in SUBSET holds /\ Cardinality({a}) = 1
    BY <2>2, FS_Singleton
  <2>4. Cardinality(holds) = Cardinality({a})
    BY <2>3 DEF FloodIsIdeal
  <2> QED BY <1>1, <2>2, <2>3, <2>4, FS_Subset
<1>4. PICK announcing \in (SUBSET holds) \ {{}} :
        outbox = [n \in Peer |-> IF n \in announcing THEN {[id |-> n, origin |-> n, hop |-> 0]} ELSE {}]
  BY DEF FloodInit
<1>5. announcing = {a} /\ a \in Peer
  BY <1>1, <1>3
<1>6. outbox[a] = {[id |-> a, origin |-> a, hop |-> 0]} /\ \A n \in Peer \ {a} : outbox[n] = {}
  BY <1>4, <1>5
<1>7. offers = {} /\ stopped = {} /\ \A n \in Peer : seenIds[n] = {}
  BY DEF FloodInit
<1>8. HopsAreHolders
  <2>1. Cardinality(holds) = 1
    BY DEF FloodIsIdeal
  <2> QED BY <1>3, <1>6, <1>7, <2>1 DEF HopsAreHolders
<1>9. OneBroadcast(a)
  BY <1>3, <1>6, <1>7 DEF OneBroadcast
<1>10. OffersAreOwed
  BY <1>3, <1>6, <1>7 DEF OffersAreOwed
<1> QED BY <1>2, <1>5, <1>7, <1>8, <1>9, <1>10 DEF IdealFlood, OffersCanBeTaken

\* An ideal flood is not disturbed by what happens to one offer.
LEMMA IdealStep ==
  ASSUME FloodInv, IdealFlood, FloodNext, disturbances = 0, disturbances' = 0
  PROVE  IdealFlood'
<1>t. FloodTypeOK /\ FloodTypeOK'
  BY FloodTyped DEF FloodInv
<1>1. PICK a \in Peer : OneBroadcast(a)
  BY DEF IdealFlood
<1>2. \A o \in offers : o.id = a /\ o.to \in Peer /\ o.from \in Peer /\ o.hop \in 0..MaxHop
  BY <1>t, <1>1 DEF OneBroadcast, FloodTypeOK, Offers
<1>3. IsFiniteSet(holds) /\ Cardinality(holds) \in Nat /\ holds \subseteq Peer
  BY <1>t, FloodAssumption, FS_Subset, FS_CardinalityType DEF FloodTypeOK
<1>4. ~Disturb
  BY DEF Disturb
<1>5. ASSUME NEW n \in Peer, FanOut(n) PROVE IdealFlood'
  <2>1. PICK j \in outbox[n] :
          /\ outbox' = [outbox EXCEPT ![n] = @ \ {j}]
          /\ offers' = offers \cup
               {[id |-> j.id, from |-> n, to |-> m, hop |-> j.hop, at |-> "wire"] : m \in Targets(n, j)}
    BY <1>5 DEF FanOut
  <2>2. UNCHANGED <<knows, holds, seenIds, stopped>>
    BY <1>5 DEF FanOut
  <2>3. /\ outbox'[n] = outbox[n] \ {j}
        /\ \A m \in Peer \ {n} : outbox'[m] = outbox[m]
    BY <1>t, <2>1 DEF FloodTypeOK
  <2>4. n \in holds /\ j.origin \in holds /\ Cardinality(holds) >= j.hop + 1 /\ j.id = a
    BY <1>1 DEF IdealFlood, HopsAreHolders, OneBroadcast
  <2>5. \A o \in offers' \ offers : /\ o.id = a /\ o.from = n /\ o.hop = j.hop /\ o.at = "wire"
                                    /\ o.to \in knows[n]
    BY <2>1, <2>4 DEF Targets
  <2>6. \A o \in offers' \ offers : o.from \in knows[o.to]
    BY <1>t, <2>5 DEF IdealFlood, Network, FloodTypeOK
  <2>7. HopsAreHolders'
    BY <2>2, <2>3, <2>4, <2>5 DEF IdealFlood, HopsAreHolders
  <2>8. OneBroadcast(a)'
    BY <1>1, <2>2, <2>3, <2>5 DEF OneBroadcast
  <2>9. OffersCanBeTaken'
    BY <2>2, <2>5, <2>6 DEF IdealFlood, OffersCanBeTaken
  <2>10. OffersAreOwed'
    <3> SUFFICES ASSUME NEW m \in Peer \ holds
                 PROVE  /\ seenIds[m] # {} => \E o \in offers' : o.to = m /\ o.at # "wire"
                        /\ seenIds[m] = {} => \A p \in holds : m \in knows[p] =>
                             outbox'[p] # {} \/ \E o \in offers' : o.to = m /\ o.at = "wire"
      BY <2>2 DEF OffersAreOwed
    <3>1. offers \subseteq offers'
      BY <2>1
    <3>2. CASE m \notin knows[n]
      BY <1>3, <2>3, <3>1, <3>2 DEF IdealFlood, OffersAreOwed
    <3>3. CASE m \in knows[n]
      <4>1. m \in Targets(n, j)
        BY <2>4, <3>3 DEF Targets
      <4> DEFINE q == [id |-> j.id, from |-> n, to |-> m, hop |-> j.hop, at |-> "wire"]
      <4>2. q \in offers' /\ q.to = m /\ q.at = "wire"
        BY <2>1, <4>1
      <4> QED BY <3>1, <4>2 DEF IdealFlood, OffersAreOwed
    <3> QED BY <3>2, <3>3
  <2> QED BY <2>2, <2>7, <2>8, <2>9, <2>10 DEF IdealFlood, Network
\* What takes the place of an offer, if anything, is an offer of the same, off the wire.
<1>6. ASSUME NEW o \in offers, UNCHANGED <<knows, holds, outbox, stopped>>,
             \A m \in Peer \ {o.to} : seenIds'[m] = seenIds[m],
             seenIds[o.to] \subseteq seenIds'[o.to], seenIds'[o.to] \subseteq seenIds[o.to] \cup {a},
             \/ offers' = offers \ {o} /\ ((seenIds[o.to] # {} /\ o.at = "wire") \/ o.to \in holds)
             \/ \E q : /\ offers' = (offers \ {o}) \cup {q} /\ q.at # "wire"
                       /\ q.id = o.id /\ q.from = o.from /\ q.to = o.to /\ q.hop = o.hop
                       /\ q.at = "fetch" => o.to \notin holds
                       /\ seenIds'[o.to] # {}
      PROVE  IdealFlood'
  <2>1. HopsAreHolders'
    BY <1>6 DEF IdealFlood, HopsAreHolders
  <2>2. OneBroadcast(a)'
    BY <1>1, <1>2, <1>6 DEF OneBroadcast
  <2>3. OffersCanBeTaken'
    BY <1>6 DEF IdealFlood, OffersCanBeTaken
  <2>4. OffersAreOwed'
    <3> SUFFICES ASSUME NEW m \in Peer \ holds
                 PROVE  /\ seenIds'[m] # {} => \E p \in offers' : p.to = m /\ p.at # "wire"
                        /\ seenIds'[m] = {} => \A n \in holds : m \in knows[n] =>
                             outbox[n] # {} \/ \E p \in offers' : p.to = m /\ p.at = "wire"
      BY <1>6 DEF OffersAreOwed
    <3>1. CASE m # o.to
      BY <1>6, <3>1 DEF IdealFlood, OffersAreOwed
    <3> DEFINE Answered == offers' = offers \ {o} /\ ((seenIds[o.to] # {} /\ o.at = "wire") \/ o.to \in holds)
    <3>2. CASE m = o.to /\ Answered
      <4>1. seenIds[m] # {} /\ o.at = "wire"
        BY <1>6, <3>2
      <4>2. PICK p \in offers : p.to = m /\ p.at # "wire"
        BY <4>1 DEF IdealFlood, OffersAreOwed
      <4>3. p \in offers'
        BY <3>2, <4>1, <4>2
      <4> QED BY <1>6, <3>2, <4>1, <4>2, <4>3
    <3>3. CASE m = o.to /\ ~Answered
      <4>1. PICK q : q \in offers' /\ q.at # "wire" /\ q.to = m /\ seenIds'[m] # {}
        BY <1>6, <3>3
      <4> QED BY <4>1
    <3> QED BY <3>1, <3>2, <3>3
  <2> QED BY <1>6, <2>1, <2>2, <2>3, <2>4 DEF IdealFlood, Network
<1>7. ASSUME NEW o \in offers, FirstOffer(o) PROVE IdealFlood'
  <2> DEFINE q == [o EXCEPT !.at = "check"]
  <2>1. /\ q.at = "check" /\ q.id = o.id /\ q.from = o.from /\ q.to = o.to /\ q.hop = o.hop
    BY <1>t DEF FloodTypeOK, Offers
  <2>2. offers' = (offers \ {o}) \cup {q} /\ UNCHANGED <<knows, holds, outbox, stopped>>
    BY <1>7 DEF FirstOffer, Becomes
  <2>3. /\ \A m \in Peer \ {o.to} : seenIds'[m] = seenIds[m]
        /\ seenIds'[o.to] = seenIds[o.to] \cup {a}
    BY <1>t, <1>2, <1>7 DEF FirstOffer, FloodTypeOK
  <2> HIDE DEF q
  <2> QED BY <1>6, <2>1, <2>2, <2>3
<1>8. ASSUME NEW o \in offers, StartFetch(o) PROVE IdealFlood'
  <2> DEFINE q == [o EXCEPT !.at = "fetch"]
  <2>1. /\ q.at = "fetch" /\ q.id = o.id /\ q.from = o.from /\ q.to = o.to /\ q.hop = o.hop
    BY <1>t DEF FloodTypeOK, Offers
  <2>2. offers' = (offers \ {o}) \cup {q} /\ UNCHANGED <<knows, holds, outbox, stopped, seenIds>>
    BY <1>8 DEF StartFetch, Becomes
  <2>3. o.to \notin holds /\ seenIds[o.to] # {}
    BY <1>8 DEF StartFetch, FloodInv, HandledIdsAreSeen
  <2> HIDE DEF q
  <2> QED BY <1>6, <2>1, <2>2, <2>3
<1>9. ASSUME NEW o \in offers, DuplicateOffer(o) \/ AcceptHeld(o) PROVE IdealFlood'
  BY <1>6, <1>9 DEF DuplicateOffer, AcceptHeld, Ends
<1>10. ASSUME NEW o \in offers PROVE ~RefuseOffer(o)
  BY <1>2 DEF RefuseOffer, Refused, IdealFlood, OffersCanBeTaken
<1>11. ASSUME NEW o \in offers, FetchEnds(o) PROVE IdealFlood'
  <2>1. /\ o.at = "fetch" /\ offers' = offers \ {o} /\ holds' = holds \cup {o.to}
        /\ UNCHANGED <<knows, seenIds, stopped>>
    BY <1>11 DEF FetchEnds, Ends
  <2>2. \A m \in Peer : outbox'[m] = IF m = o.to THEN outbox[m] \cup Cascade(o) ELSE outbox[m]
    BY <1>t, <1>2, <1>11 DEF FetchEnds, FloodTypeOK
  <2>3. o.to \notin holds /\ o.from \in holds /\ Cardinality(holds) >= o.hop + 1
    BY <2>1 DEF IdealFlood, OffersCanBeTaken, HopsAreHolders
  <2>4. Cardinality(holds') = Cardinality(holds) + 1
    BY <1>3, <2>1, <2>3, FS_AddElement
  <2>5. \A j \in Cascade(o) : j.id = a /\ j.origin = o.from /\ j.hop = o.hop + 1
    BY <1>2 DEF Cascade
  <2>6. HopsAreHolders'
    <3>1. ASSUME NEW n \in Peer, NEW j \in outbox'[n]
          PROVE  n \in holds' /\ j.origin \in holds' /\ Cardinality(holds') >= j.hop + 1
      <4>1. CASE j \in outbox[n]
        <5>1. n \in holds /\ j.origin \in holds /\ Cardinality(holds) >= j.hop + 1 /\ j.hop \in Nat
          BY <1>t, <4>1, FloodAssumption DEF IdealFlood, HopsAreHolders, FloodTypeOK, Jobs
        <5> QED BY <1>3, <2>1, <2>4, <5>1
      <4>2. CASE n = o.to /\ j \in Cascade(o)
        BY <1>2, <1>3, <2>1, <2>3, <2>4, <2>5, <4>2, FloodAssumption
      <4> QED BY <2>2, <3>1, <4>1, <4>2
    <3>2. ASSUME NEW p \in offers' PROVE p.from \in holds' /\ Cardinality(holds') >= p.hop + 1
      <4>1. p \in offers /\ p.from \in holds /\ Cardinality(holds) >= p.hop + 1 /\ p.hop \in Nat
        BY <1>2, <2>1, FloodAssumption DEF IdealFlood, HopsAreHolders
      <4> QED BY <1>3, <2>1, <2>4, <4>1
    <3> QED BY <3>1, <3>2 DEF HopsAreHolders
  <2>7. OneBroadcast(a)'
    BY <1>1, <2>1, <2>2, <2>5 DEF OneBroadcast
  <2>8. OffersCanBeTaken'
    <3>1. ASSUME NEW p \in offers', p.at = "fetch" PROVE p.to # o.to
      BY <1>2, <2>1, <3>1 DEF FloodInv, OneHandlerPerBroadcast
    <3> QED BY <2>1, <3>1 DEF IdealFlood, OffersCanBeTaken
  <2>9. OffersAreOwed'
    <3> SUFFICES ASSUME NEW m \in Peer \ holds'
                 PROVE  /\ seenIds[m] # {} => \E p \in offers' : p.to = m /\ p.at # "wire"
                        /\ seenIds[m] = {} => \A n \in holds' : m \in knows[n] =>
                             outbox'[n] # {} \/ \E p \in offers' : p.to = m /\ p.at = "wire"
      BY <2>1 DEF OffersAreOwed
    <3>1. m \in Peer \ holds /\ m # o.to
      BY <2>1
    <3>2. Cascade(o) # {}
      <4>1. CASE LastHop(o)
        <5>1. Cardinality(holds') >= Cardinality(Peer)
          BY <1>2, <1>3, <2>3, <2>4, <4>1, FloodAssumption, FS_CardinalityType
             DEF LastHop, IdealFlood, Network
        <5>2. holds' \in SUBSET Peer
          BY <1>t DEF FloodTypeOK
        <5>3. holds' = Peer
          BY <5>1, <5>2, FloodAssumption, FS_Subset, FS_CardinalityType
        <5> QED BY <5>3
      <4>2. CASE ~LastHop(o)
        BY <4>2 DEF Cascade, IdealFlood
      <4> QED BY <4>1, <4>2
    <3>3. \A n \in holds : outbox[n] # {} => outbox'[n] # {}
      BY <1>3, <2>2
    <3>4. outbox'[o.to] # {}
      BY <1>2, <2>2, <3>2
    <3> QED BY <2>1, <3>1, <3>3, <3>4 DEF IdealFlood, OffersAreOwed
  <2> QED BY <2>1, <2>6, <2>7, <2>8, <2>9 DEF IdealFlood, Network
<1> QED BY <1>4, <1>5, <1>7, <1>8, <1>9, <1>10, <1>11
        DEF FloodNext, FloodStep, HandleOffer, FetchFails, LoseOffer, StopFlood, LearnPeer

(* One node announces, peers know each other mutually and over a connected *)
(* graph, and the hops suffice: unless something failed or changed, the    *)
(* threads of BroadcastSender and BroadcastReceiver do not come to rest    *)
(* before every node has the path, whatever the network and the order of   *)
(* offers, fetches and duplicates.                                         *)
THEOREM FloodRestsLast == FloodSpec => (FloodIsIdeal => []FloodRestReaches)
<1>1. FloodInv /\ IdealInv /\ [FloodNext]_floodVars => IdealInv'
  <2> SUFFICES ASSUME FloodInv, IdealInv, [FloodNext]_floodVars, disturbances' = 0
               PROVE  IdealFlood'
    BY DEF IdealInv
  <2>1. CASE FloodNext
    <3>1. disturbances = 0
      BY <2>1 DEF FloodInv, FloodTypeOK, FloodNext, FloodStep, FanOut, HandleOffer, FirstOffer, DuplicateOffer,
         RefuseOffer, AcceptHeld, StartFetch, FetchEnds, FetchFails, LoseOffer, StopFlood, LearnPeer, Calm, Disturb
    <3> QED BY <2>1, <3>1, IdealStep DEF IdealInv
  <2>2. CASE UNCHANGED floodVars
    BY <2>2 DEF floodVars, IdealInv, IdealFlood, Network, HopsAreHolders, OneBroadcast, OffersCanBeTaken,
       OffersAreOwed
  <2> QED BY <2>1, <2>2
<1>2. FloodInv /\ IdealInv => FloodRestReaches
  <2> SUFFICES ASSUME FloodInv, IdealFlood, FloodAtRest, holds # Peer
               PROVE  FALSE
    BY DEF IdealInv, FloodRestReaches
  <2>1. holds \in (SUBSET Peer) \ {{}, Peer}
    BY DEF FloodInv, FloodTypeOK, IdealFlood, OneBroadcast
  <2>2. PICK n \in holds : \E m \in Peer \ holds : m \in knows[n]
    BY <2>1 DEF IdealFlood, Network
  <2> QED BY <2>1, <2>2 DEF IdealFlood, OffersAreOwed, FloodAtRest
<1> QED BY <1>1, <1>2, IdealInit, FloodInvariant, PTL DEF FloodSpec

=============================================================================
