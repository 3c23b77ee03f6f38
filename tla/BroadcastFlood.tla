----------------------------- MODULE BroadcastFlood -----------------------------
(***************************************************************************)
(* Flooding a derivation over the secondaries: BroadcastSender announces a *)
(* path to every peer, and BroadcastReceiver, in a request thread of the   *)
(* push server, fetches the path from whoever sent the offer and passes    *)
(* the offer on, up to a number of hops.  Each broadcast has an id, and a  *)
(* node handles an id once.                                                *)
(*                                                                         *)
(* All broadcasts here are of one path; the id of a broadcast is the node  *)
(* that announced it.                                                      *)
(***************************************************************************)
EXTENDS Integers, FiniteSets

CONSTANTS
  Peer,           \* the secondaries
  MaxHop,         \* hops after which a receiver does not pass an offer on
  MaxDisturbance  \* bound: failures, stops and changes of the peer list

ASSUME FloodAssumption == IsFiniteSet(Peer) /\ {MaxHop, MaxDisturbance} \subseteq Nat

VARIABLES
  knows,        \* knows[n]: the peers in n's peer list
  holds,        \* the nodes whose store has the path
  listed,       \* the nodes a placement file records as holders
  outbox,       \* outbox[n]: the queues of n's sender and receiver threads
  offers,       \* the offers under way or being handled
  seenIds,      \* seenIds[n]: the ids n's push server has seen
  stopped,      \* the nodes whose services are stopped
  disturbances

floodVars == <<knows, holds, listed, outbox, offers, seenIds, stopped, disturbances>>

Jobs == [id : Peer, origin : Peer, hop : 0..MaxHop]
Offers == [id : Peer, from : Peer, to : Peer, hop : 0..MaxHop, at : {"wire", "check", "fetch"}]

FloodTypeOK ==
  /\ knows \in [Peer -> SUBSET Peer]
  /\ holds \subseteq Peer /\ listed \subseteq Peer
  /\ outbox \in [Peer -> SUBSET Jobs]
  /\ offers \subseteq Offers
  /\ seenIds \in [Peer -> SUBSET Peer]
  /\ stopped \subseteq Peer
  /\ disturbances \in 0..MaxDisturbance

Disturb == disturbances < MaxDisturbance /\ disturbances' = disturbances + 1
Calm == UNCHANGED disturbances

\* enqueue_broadcast, on the nodes that announce.
FloodInit ==
  /\ knows \in {k \in [Peer -> SUBSET Peer] : \A n \in Peer : n \notin k[n]}
  /\ holds \in (SUBSET Peer) \ {{}} /\ listed = {}
  /\ \E announcing \in (SUBSET holds) \ {{}} :
       outbox = [n \in Peer |-> IF n \in announcing THEN {[id |-> n, origin |-> n, hop |-> 0]} ELSE {}]
  /\ offers = {}
  /\ seenIds = [n \in Peer |-> {}]
  /\ stopped = {}
  /\ disturbances = 0

-------------------------------------------------------------------------------
\* The sending threads.

\* A receiver does not offer the path to the node it has it from.
Targets(n, j) == knows[n] \ {n, j.origin}

\* fan_out_broadcast_drv: to all targets at once.
FanOut(n) ==
  /\ \E j \in outbox[n] :
       /\ outbox' = [outbox EXCEPT ![n] = @ \ {j}]
       /\ offers' = offers \cup
            {[id |-> j.id, from |-> n, to |-> m, hop |-> j.hop, at |-> "wire"] : m \in Targets(n, j)}
  /\ Calm
  /\ UNCHANGED <<knows, holds, listed, seenIds, stopped>>

-------------------------------------------------------------------------------
\* The request threads.

Becomes(o, where) == offers' = (offers \ {o}) \cup {[o EXCEPT !.at = where]}
Ends(o) == offers' = offers \ {o}

\* The first offer with its id is handled, and the others are answered.
FirstOffer(o) ==
  /\ o.at = "wire" /\ o.id \notin seenIds[o.to]
  /\ seenIds' = [seenIds EXCEPT ![o.to] = @ \cup {o.id}]
  /\ Becomes(o, "check") /\ Calm
  /\ UNCHANGED <<knows, holds, listed, outbox, stopped>>

DuplicateOffer(o) ==
  /\ o.at = "wire" /\ o.id \in seenIds[o.to]
  /\ Ends(o) /\ Calm
  /\ UNCHANGED <<knows, holds, listed, outbox, seenIds, stopped>>

Refused(o) == o.to \in stopped \/ (o.to \notin holds /\ o.from \notin knows[o.to])

\* on_broadcast_offer of a receiver that is stopped or cannot name the sender.
RefuseOffer(o) ==
  /\ o.at = "check" /\ Refused(o)
  /\ Ends(o) /\ Calm
  /\ UNCHANGED <<knows, holds, listed, outbox, seenIds, stopped>>

\* The path is valid already: it is recorded, and the offer goes no further.
AcceptHeld(o) ==
  /\ o.at = "check" /\ ~Refused(o) /\ o.to \in holds
  /\ listed' = listed \cup {o.to}
  /\ Ends(o) /\ Calm
  /\ UNCHANGED <<knows, holds, outbox, seenIds, stopped>>

StartFetch(o) ==
  /\ o.at = "check" /\ ~Refused(o) /\ o.to \notin holds
  /\ Becomes(o, "fetch") /\ Calm
  /\ UNCHANGED <<knows, holds, listed, outbox, seenIds, stopped>>

\* A mutant: the last hop is counted once more.
LastHopEarly(o) == o.hop + 1 >= MaxHop

LastHop(o) == o.hop >= MaxHop

\* A receiver that was stopped meanwhile cannot restart its thread.
Cascade(o) ==
  IF LastHop(o) \/ o.to \in stopped THEN {}
  ELSE {[id |-> o.id, origin |-> o.from, hop |-> o.hop + 1]}

FetchEnds(o) ==
  /\ o.at = "fetch" /\ o.from \in holds
  /\ holds' = holds \cup {o.to} /\ listed' = listed \cup {o.to}
  /\ outbox' = [outbox EXCEPT ![o.to] = @ \cup Cascade(o)]
  /\ Ends(o) /\ Calm
  /\ UNCHANGED <<knows, seenIds, stopped>>

\* nix copy fails; the id stays in the seen set.
FetchFails(o) ==
  /\ o.at = "fetch"
  /\ Ends(o) /\ Disturb
  /\ UNCHANGED <<knows, holds, listed, outbox, seenIds, stopped>>

HandleOffer(o) ==
  \/ FirstOffer(o)
  \/ DuplicateOffer(o)
  \/ RefuseOffer(o)
  \/ AcceptHeld(o)
  \/ StartFetch(o)
  \/ FetchEnds(o)

-------------------------------------------------------------------------------
\* The surroundings.

\* An unreachable peer, or one that does not answer in time.
LoseOffer(o) ==
  /\ o.at = "wire"
  /\ Ends(o) /\ Disturb
  /\ UNCHANGED <<knows, holds, listed, outbox, seenIds, stopped>>

\* The peer list is refreshed.
LearnPeer(n, m) ==
  /\ m \notin knows[n] \cup {n}
  /\ knows' = [knows EXCEPT ![n] = @ \cup {m}]
  /\ Disturb
  /\ UNCHANGED <<holds, listed, outbox, offers, seenIds, stopped>>

\* BroadcastSender.stop and BroadcastReceiver.stop: what is queued goes out first.
StopFlood(n) ==
  /\ n \notin stopped
  /\ stopped' = stopped \cup {n}
  /\ Disturb
  /\ UNCHANGED <<knows, holds, listed, outbox, offers, seenIds>>

FloodStep == (\E n \in Peer : FanOut(n)) \/ \E o \in offers : HandleOffer(o)

FloodNext ==
  \/ FloodStep
  \/ \E o \in offers : FetchFails(o) \/ LoseOffer(o)
  \/ \E n \in Peer : StopFlood(n) \/ \E m \in Peer : LearnPeer(n, m)

\* Threads that have something to do go on.
FloodSpec == FloodInit /\ [][FloodNext]_floodVars /\ WF_floodVars(FloodStep)

-------------------------------------------------------------------------------
\* What must hold.

(* However many neighbours offer a broadcast to a node at once, it fetches *)
(* and passes it on once: the id is taken under the server's lock before   *)
(* the handler runs.                                                       *)
OneHandlerPerBroadcast ==
  \A o \in offers : o.at # "wire" =>
    /\ \A p \in offers : p.at # "wire" /\ p.to = o.to /\ p.id = o.id => p = o
    /\ \A j \in outbox[o.to] : j.id = o.id => j.origin = o.to

Edges == {e \in Peer \X Peer : e[2] \in knows[e[1]]}

\* The conditions: one node announces and nobody else has the path, peers know
\* each other mutually, and the hops suffice for any connected graph.
FloodIsIdeal ==
  /\ Cardinality(holds) = 1
  /\ \A e \in Edges : <<e[2], e[1]>> \in Edges
  /\ \A S \in (SUBSET Peer) \ {{}, Peer} : \E e \in Edges : e[1] \in S /\ e[2] \notin S
  /\ Cardinality(Peer) <= MaxHop + 2

(* Under these conditions every node gets the path, over the neighbours    *)
(* that got it before.  Each is needed: a node that cannot name the sender *)
(* refuses for good, since other offers of the broadcast are duplicates to *)
(* it; a node that has the path passes nothing on; and after a failed      *)
(* fetch the offer of another neighbour is a duplicate too.                *)
FloodReaches == FloodIsIdeal => <>(disturbances > 0 \/ holds = Peer)
=============================================================================
