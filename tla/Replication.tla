------------------------------ MODULE Replication ------------------------------
(***************************************************************************)
(* peer_replication: keeping a toolchain outpath on at least K nodes.      *)
(*                                                                         *)
(* ReplicationSender offers the path to peers, ReplicationReceiver fetches *)
(* what it accepts, ReplicationRepairWorker asks for more offers when a    *)
(* holder is lost.  They talk over HTTP (peer_push) and share placement    *)
(* files, which a PathPlacementWatcher polls into a snapshot per node.     *)
(*                                                                         *)
(* The code keeps its state per outpath: the module follows one outpath.   *)
(* The sender's lock is held through a whole loop of offers, so `push' is  *)
(* both the loop's remaining targets and the lock; whatever needs the lock *)
(* waits in `todo'.  An offer and the receiver's handling of it are one    *)
(* step: the receiver answers before it replies to the POST.               *)
(***************************************************************************)
EXTENDS Integers, FiniteSets

CONSTANTS
  Node,
  NoNode,    \* not a node
  K,         \* replication_k
  Builders,  \* nodes whose build worker may realise the path by itself
  Allowed,   \* the kinds of fault that may happen
  MaxFaults,  \* bound: faults in one behaviour
  MaxThreads  \* bound: fetches of a receiver for one sender, more being merged

FaultKinds ==
  {"timer",   \* an offer's timer fires: no fault, but bounded like one
   "lost",    \* a POST fails
   "late",    \* a POST is handled but its reply misses the deadline
   "fetch",   \* nix copy fails
   "crash",   \* a node dies
   "leave"}   \* a node ends its run

ASSUME NodeAssumption == NoNode \notin Node /\ IsFiniteSet(Node)
ASSUME KAssumption == K \in Nat \ {0}
ASSUME BuilderAssumption == Builders \subseteq Node
ASSUME FaultAssumption == Allowed \subseteq FaultKinds /\ MaxFaults \in Nat
ASSUME ThreadAssumption == MaxThreads \in Nat \ {0}

VARIABLES
  status,     \* "up", "stopping", "gone" (run ended) or "dead"
  valid,      \* nodes with the path in their store
  records,    \* nodes with a placement record on the shared file system
  snap,       \* snap[n]: the watcher's snapshot of records
  told,       \* told[n]: the deaths the framework has told n of
  slots,      \* slots[n]: targets of the sender's in-flight offers
  armed,      \* armed[n]: slots whose timer runs
  push,       \* push[n]: the offer loop: on whose behalf, targets left
  todo,       \* todo[n]: calls waiting for the sender's lock
  targeting,  \* targeting[n]: the sender whose offer n's receiver accepted
  cancelled,  \* cancelled[n]: senders that cancelled an accepted offer
  fetches,    \* fetches[n][s]: how many threads of n fetch from s: an offer may come twice
  recording,  \* recording[n]: offerers of the fetches that go on to record the path
  faults      \* how many faults happened, and whether they were timers only

clusterVars == <<status, valid, records, snap, told>>
senderVars == <<slots, armed, push, todo>>
receiverVars == <<targeting, cancelled, fetches, recording>>
vars == <<clusterVars, senderVars, receiverVars, faults>>

NoFaults == [count |-> 0, timersOnly |-> TRUE]
MayFail(f) == f \in Allowed /\ faults.count < MaxFaults
Record(f) == faults' = [count |-> faults.count + 1,
                        timersOnly |-> faults.timersOnly /\ f = "timer"]

Serving == {m \in Node : status[m] \in {"up", "stopping"}}

\* A mutant: the reserved entries of the peers directory are not skipped.
ListedWithReserved == {m \in Node : status[m] # "gone"} \cup {NoNode}

\* The peers directory: a crashed node stays listed, a departed one does not.
Listed == {m \in Node : status[m] # "gone"}

-------------------------------------------------------------------------------
\* Calls that wait for the sender's lock, and the loop that holds it.

PushCall(by, excl) == [op |-> "push", by |-> by, excl |-> excl]
RejectCall(from) == [op |-> "reject", from |-> from]
TimeoutCall(target) == [op |-> "timeout", target |-> target]
HaveCall(holder) == [op |-> "have", holder |-> holder]

ByWatcher == {"repair", "cascade"}
WatcherBusy(n) ==
  \/ push[n].by \in ByWatcher
  \/ \E call \in todo[n] : call.op = "push" /\ call.by \in ByWatcher

Idle == [by |-> "none", left |-> {}]
NoThreads == [s \in Node |-> 0]
Fetching(n) == {s \in Node : fetches[n][s] > 0}
LockFree(n) == push[n] = Idle
Loop(by, targets) == IF targets = {} THEN Idle ELSE [by |-> by, left |-> targets]

Init ==
  /\ status = [n \in Node |-> "up"]
  /\ valid = {}
  /\ records = {}
  /\ snap = [n \in Node |-> {}]
  /\ told = [n \in Node |-> {}]
  /\ slots = [n \in Node |-> {}]
  /\ armed = [n \in Node |-> {}]
  /\ push = [n \in Node |-> Idle]
  /\ todo = [n \in Node |-> {}]
  /\ targeting = [n \in Node |-> NoNode]
  /\ cancelled = [n \in Node |-> {}]
  /\ fetches = [n \in Node |-> NoThreads]
  /\ recording = [n \in Node |-> {}]
  /\ faults = NoFaults

-------------------------------------------------------------------------------
\* The sender.

\* Peer lists are polled: a node that left may still be on one.
PeerLists == {Listed \cup late : late \in SUBSET (Node \ Listed)}

\* A random sample of the candidates on the peer list, all of them if they are few.
Sample(needed, tabu) ==
  UNION {{S \in SUBSET (peers \ tabu) :
            \/ Cardinality(S) = needed
            \/ S = peers \ tabu /\ Cardinality(S) < needed} : peers \in PeerLists}

\* Mutants: one holder more than needed, or one fewer, will do.
TargetsOneMore(n, kept, excl) ==
  LET holders == snap[n] \ excl
      needed == K + 1 - Cardinality(holders) - Cardinality(kept)
  IN  IF status[n] # "up" \/ needed <= 0 THEN {{}}
      ELSE Sample(needed, {n} \cup holders \cup kept \cup excl)

TargetsOneShort(n, kept, excl) ==
  LET holders == snap[n] \ excl
      needed == K - 1 - Cardinality(holders) - Cardinality(kept)
  IN  IF status[n] # "up" \/ needed <= 0 THEN {{}}
      ELSE Sample(needed, {n} \cup holders \cup kept \cup excl)

\* The peers a push attempt of n offers to, when it already waits for `kept' and
\* takes the nodes of `excl' for ghosts.
Targets(n, kept, excl) ==
  LET holders == snap[n] \ excl
      needed == K - Cardinality(holders) - Cardinality(kept)
  IN  IF status[n] # "up" \/ needed <= 0 THEN {{}}
      ELSE Sample(needed, {n} \cup holders \cup kept \cup excl)

PushAttempt(n) ==
  /\ LockFree(n)
  /\ \E call \in todo[n] :
       /\ call.op = "push"
       /\ \E S \in Targets(n, slots[n], call.excl) :
            push' = [push EXCEPT ![n] = Loop(call.by, S)]
       /\ todo' = [todo EXCEPT ![n] = @ \ {call}]
  /\ UNCHANGED <<clusterVars, slots, armed, receiverVars, faults>>

\* Release the slot of t and try another peer, ghosts forgotten.
Retry(n, t) ==
  /\ slots' = [slots EXCEPT ![n] = @ \ {t}]
  /\ armed' = [armed EXCEPT ![n] = @ \ {t}]
  /\ \E S \in Targets(n, slots[n] \ {t}, {}) :
       push' = [push EXCEPT ![n] = Loop("retry", S)]

OnReject(n) ==
  /\ LockFree(n)
  /\ \E call \in todo[n] :
       /\ call.op = "reject"
       /\ Retry(n, call.from)
       /\ todo' = [todo EXCEPT ![n] = @ \ {call}]
  /\ UNCHANGED <<clusterVars, receiverVars, faults>>

\* A timer that fires does so whether or not the offer was accepted: on_accept
\* leaves the slot as it is.
TimerFires(n) ==
  /\ MayFail("timer")
  /\ Record("timer")
  /\ \E t \in armed[n] :
       /\ armed' = [armed EXCEPT ![n] = @ \ {t}]
       /\ todo' = [todo EXCEPT ![n] = @ \cup {TimeoutCall(t)}]
  /\ UNCHANGED <<clusterVars, slots, push, receiverVars>>

\* A mutant: a timed-out offer is retried without releasing its slot.
OnTimeoutKeepsSlot(n) ==
  /\ LockFree(n)
  /\ \E call \in todo[n] :
       /\ call.op = "timeout"
       /\ \E S \in Targets(n, slots[n], {}) : push' = [push EXCEPT ![n] = Loop("retry", S)]
       /\ todo' = [todo EXCEPT ![n] = @ \ {call}]
  /\ UNCHANGED <<clusterVars, slots, armed, receiverVars, faults>>

OnTimeout(n) ==
  /\ LockFree(n)
  /\ \E call \in todo[n] :
       /\ call.op = "timeout"
       /\ IF call.target \in slots[n] THEN Retry(n, call.target)
          ELSE UNCHANGED <<slots, armed, push>>
       /\ todo' = [todo EXCEPT ![n] = @ \ {call}]
  /\ UNCHANGED <<clusterVars, receiverVars, faults>>

-------------------------------------------------------------------------------
\* One offer of the loop: the POST and the receiver's on_offer.

Offered(n, t) == push' = [push EXCEPT ![n] = Loop(@.by, @.left \ {t})]

Refuses(t, from) ==
  \/ status[t] = "stopping"
  \/ t \in valid
  \/ targeting[t] \notin {NoNode, from}

\* The POST fails: no slot, no timer.
OfferFails(n) ==
  /\ \E t \in push[n].left :
       /\ IF status[t] = "up" THEN MayFail("lost") /\ Record("lost")
          ELSE UNCHANGED faults
       /\ Offered(n, t)
  /\ UNCHANGED <<clusterVars, slots, armed, todo, receiverVars>>

\* The reject is posted before the reply, and on_reject waits for the lock that
\* the offer holds: the offer runs into its deadline and counts as failed.
OfferRejected(n) ==
  /\ \E t \in push[n].left \cap Serving :
       /\ Refuses(t, n)
       /\ Offered(n, t)
       /\ todo' = [todo EXCEPT ![n] = @ \cup {RejectCall(t)}]
  /\ UNCHANGED <<clusterVars, slots, armed, receiverVars, faults>>

\* The reject itself is lost: the reply to the offer is a success.
OfferUnanswered(n) ==
  /\ MayFail("lost")
  /\ Record("lost")
  /\ \E t \in push[n].left \cap Serving :
       /\ Refuses(t, n)
       /\ Offered(n, t)
       /\ slots' = [slots EXCEPT ![n] = @ \cup {t}]
       /\ armed' = [armed EXCEPT ![n] = @ \cup {t}]
  /\ UNCHANGED <<clusterVars, todo, receiverVars>>

Accept(t, from) ==
  /\ targeting' = [targeting EXCEPT ![t] = from]
  /\ fetches' = [fetches EXCEPT ![t][from] = IF @ < MaxThreads THEN @ + 1 ELSE @]

OfferAccepted(n) ==
  /\ \E t \in push[n].left \cap Serving :
       /\ ~Refuses(t, n)
       /\ Offered(n, t)
       /\ Accept(t, n)
       /\ slots' = [slots EXCEPT ![n] = @ \cup {t}]
       /\ armed' = [armed EXCEPT ![n] = @ \cup {t}]
  /\ UNCHANGED <<clusterVars, todo, cancelled, recording, faults>>

\* Accepted, but the reply comes after the deadline.
OfferLate(n) ==
  /\ MayFail("late")
  /\ Record("late")
  /\ \E t \in push[n].left \cap Serving :
       /\ ~Refuses(t, n)
       /\ Offered(n, t)
       /\ Accept(t, n)
  /\ UNCHANGED <<clusterVars, slots, armed, todo, cancelled, recording>>

-------------------------------------------------------------------------------
\* path-have: settle the holder's slot; once K holders are known, cancel the rest.

Converged(n, holder) == Cardinality(snap[n] \cup {holder}) >= K

\* A mutant: a receiver notes a cancellation whoever it accepted.
CancelAtAnyone(n, reached) ==
  /\ targeting' = [t \in Node |->
                     IF t \in reached /\ targeting[t] = n THEN NoNode ELSE targeting[t]]
  /\ cancelled' = [t \in Node |->
                     IF t \in reached THEN cancelled[t] \cup {n} ELSE cancelled[t]]

\* on_cancel of the receivers in `reached'.
CancelAt(n, reached) ==
  LET hit == {t \in reached : targeting[t] = n}
  IN  /\ targeting' = [t \in Node |-> IF t \in hit THEN NoNode ELSE targeting[t]]
      /\ cancelled' = [t \in Node |->
                         IF t \in hit THEN cancelled[t] \cup {n} ELSE cancelled[t]]

\* A POST of a fan-out may be lost.
Missed(missed) ==
  IF missed = {} THEN UNCHANGED faults
  ELSE Cardinality(missed) = 1 /\ MayFail("lost") /\ Record("lost")

OnPathHave(n) ==
  /\ LockFree(n)
  /\ \E call \in todo[n] :
       /\ call.op = "have"
       /\ todo' = [todo EXCEPT ![n] = @ \ {call}]
       /\ LET kept == slots[n] \ {call.holder}
          IN  IF Converged(n, call.holder)
                THEN /\ slots' = [slots EXCEPT ![n] = {}]
                     /\ armed' = [armed EXCEPT ![n] = {}]
                     /\ \E missed \in SUBSET kept :
                          Missed(missed) /\ CancelAt(n, kept \ missed)
                ELSE /\ slots' = [slots EXCEPT ![n] = kept]
                     /\ armed' = [armed EXCEPT ![n] = @ \ {call.holder}]
                     /\ UNCHANGED <<targeting, cancelled, faults>>
  /\ UNCHANGED <<clusterVars, push, fetches, recording>>

-------------------------------------------------------------------------------
\* The receiver's fetch threads.

Alive(n) == status[n] # "dead"

\* A mutant: the target is not released.
FinishKeepsTarget(n, s) ==
  /\ cancelled' = [cancelled EXCEPT ![n] = @ \ {s}]
  /\ fetches' = [fetches EXCEPT ![n][s] = @ - 1]
  /\ UNCHANGED targeting

\* The end of a fetch under the receiver's lock.
Finish(n, s) ==
  /\ targeting' = [targeting EXCEPT ![n] = IF @ = s THEN NoNode ELSE @]
  /\ cancelled' = [cancelled EXCEPT ![n] = @ \ {s}]
  /\ fetches' = [fetches EXCEPT ![n][s] = @ - 1]

\* record_self_has tells the peers of n; `calls' are n's own.
Announce(n, missed, calls) ==
  todo' = [m \in Node |->
             IF m = n THEN todo[n] \cup calls
             ELSE IF m \in Serving \ missed THEN todo[m] \cup {HaveCall(n)}
             ELSE todo[m]]

\* A thread whose offerer has left gives up, and forgets a cancellation.
FetchUnpinned(n) ==
  /\ Alive(n)
  /\ \E s \in Fetching(n) :
       /\ s \notin Listed
       /\ targeting' = [targeting EXCEPT ![n] = IF @ = s THEN NoNode ELSE @]
       /\ fetches' = [fetches EXCEPT ![n][s] = @ - 1]
  /\ UNCHANGED <<clusterVars, senderVars, cancelled, recording, faults>>

\* nix copy from the offerer; a stopped or cancelled fetch goes no further.
FetchSucceeds(n) ==
  /\ Alive(n)
  /\ \E s \in Fetching(n) :
       /\ s \in Serving \cap valid
       /\ valid' = valid \cup {n}
       /\ Finish(n, s)
       /\ recording' = IF status[n] # "up" \/ s \in cancelled[n] THEN recording
                       ELSE [recording EXCEPT ![n] = @ \cup {s}]
  /\ UNCHANGED <<status, records, snap, told, senderVars, faults>>

\* Outside the lock: record_self_has appends to the placement file and tells the
\* peers, and a push attempt of its own follows, whatever has happened since.
RecordFetch(n) ==
  /\ Alive(n)
  /\ \E s \in recording[n] : recording' = [recording EXCEPT ![n] = @ \ {s}]
  /\ records' = records \cup {n}
  /\ \E missed \in SUBSET (Serving \ {n}) :
       Announce(n, missed, {PushCall("fetch", {})}) /\ Missed(missed)
  /\ UNCHANGED <<status, valid, snap, told, slots, armed, push, targeting, cancelled, fetches>>

\* A mutant: a fetch without a source is recorded like one with.
FetchNothingRecords(n) ==
  /\ Alive(n)
  /\ \E s \in Fetching(n) :
       /\ IF s \in Serving \cap valid /\ n \notin valid
            THEN MayFail("fetch") /\ Record("fetch")
            ELSE UNCHANGED faults
       /\ Finish(n, s)
  /\ records' = records \cup {n}
  /\ UNCHANGED <<status, valid, snap, told, senderVars, recording>>

\* No source: the copy fails, or the path turned out to be in the store already.
FetchNothing(n) ==
  /\ Alive(n)
  /\ \E s \in Fetching(n) :
       /\ IF s \in Serving \cap valid /\ n \notin valid
            THEN MayFail("fetch") /\ Record("fetch")
            ELSE UNCHANGED faults
       /\ Finish(n, s)
  /\ UNCHANGED <<clusterVars, senderVars, recording>>

\* A build worker realises the path; the manager learns of it from its watcher.
Build(n) ==
  /\ n \in Builders \ records
  /\ status[n] = "up"
  /\ valid' = valid \cup {n}
  /\ records' = records \cup {n}
  /\ \E missed \in SUBSET (Serving \ {n}) : Announce(n, missed, {}) /\ Missed(missed)
  /\ UNCHANGED <<status, snap, told, slots, armed, push, receiverVars>>

-------------------------------------------------------------------------------
\* The placement watcher and the repair worker.

\* A mutant: any node repairs, not the remaining holders only.
RefreshAnyoneRepairs(n) ==
  /\ status[n] = "up"
  /\ ~WatcherBusy(n)
  /\ snap[n] # records
  /\ snap' = [snap EXCEPT ![n] = records]
  /\ LET repair == snap[n] \ records # {} /\ Cardinality(records) < K
         cascade == n \in records \ snap[n]
     IN  todo' = [todo EXCEPT ![n] =
                    @ \cup (IF repair THEN {PushCall("repair", {})} ELSE {})
                      \cup (IF cascade THEN {PushCall("cascade", {})} ELSE {})]
  /\ UNCHANGED <<status, valid, records, told, slots, armed, push, receiverVars, faults>>

\* _refresh and on_diff, on the watcher's thread.
Refresh(n) ==
  /\ status[n] = "up"
  /\ ~WatcherBusy(n)
  /\ snap[n] # records
  /\ snap' = [snap EXCEPT ![n] = records]
  /\ LET repair == snap[n] \ records # {} /\ n \in records /\ Cardinality(records) < K
         cascade == n \in records \ snap[n]
     IN  todo' = [todo EXCEPT ![n] =
                    @ \cup (IF repair THEN {PushCall("repair", {})} ELSE {})
                      \cup (IF cascade THEN {PushCall("cascade", {})} ELSE {})]
  /\ UNCHANGED <<status, valid, records, told, slots, armed, push, receiverVars, faults>>

\* on_peer_removed: the framework reports a death.
PeerRemoved(n) ==
  /\ status[n] = "up"
  /\ \E d \in Node \ told[n] :
       /\ status[d] = "dead"
       /\ told' = [told EXCEPT ![n] = @ \cup {d}]
       /\ todo' = IF {n, d} \subseteq snap[n] /\ Cardinality(snap[n]) - 1 < K
                    THEN [todo EXCEPT ![n] = @ \cup {PushCall("listener", {d})}]
                    ELSE todo
  /\ UNCHANGED <<status, valid, records, snap, slots, armed, push, receiverVars, faults>>

-------------------------------------------------------------------------------
\* Nodes come to an end.

\* Nothing of a dead node remains but its store and its placement file.
Crash(n) ==
  /\ n \in Serving
  /\ MayFail("crash")
  /\ Record("crash")
  /\ status' = [status EXCEPT ![n] = "dead"]
  /\ slots' = [slots EXCEPT ![n] = {}]
  /\ armed' = [armed EXCEPT ![n] = {}]
  /\ push' = [push EXCEPT ![n] = Idle]
  /\ todo' = [todo EXCEPT ![n] = {}]
  /\ targeting' = [targeting EXCEPT ![n] = NoNode]
  /\ cancelled' = [cancelled EXCEPT ![n] = {}]
  /\ fetches' = [fetches EXCEPT ![n] = NoThreads]
  /\ recording' = [recording EXCEPT ![n] = {}]
  /\ snap' = [snap EXCEPT ![n] = {}]
  /\ told' = [told EXCEPT ![n] = {}]
  /\ UNCHANGED <<valid, records>>

\* on_run_end: sender and receiver are stopped ...
Stop(n) ==
  /\ status[n] = "up"
  /\ LockFree(n)
  /\ MayFail("leave")
  /\ Record("leave")
  /\ status' = [status EXCEPT ![n] = "stopping"]
  /\ slots' = [slots EXCEPT ![n] = {}]
  /\ armed' = [armed EXCEPT ![n] = {}]
  /\ targeting' = [targeting EXCEPT ![n] = NoNode]
  /\ cancelled' = [cancelled EXCEPT ![n] = {}]
  /\ UNCHANGED <<valid, records, snap, told, push, todo, fetches, recording>>

\* ... and, the push server closed, the placement file goes.
Withdraw(n) ==
  /\ status[n] = "stopping"
  /\ status' = [status EXCEPT ![n] = "gone"]
  /\ records' = records \ {n}
  /\ todo' = [todo EXCEPT ![n] = {}]
  /\ UNCHANGED <<valid, snap, told, slots, armed, push, receiverVars, faults>>

-------------------------------------------------------------------------------
Sender(n) == PushAttempt(n) \/ OnReject(n) \/ OnTimeout(n) \/ OnPathHave(n) \/ TimerFires(n)
Offer(n) ==
  \/ OfferFails(n) \/ OfferRejected(n) \/ OfferUnanswered(n)
  \/ OfferAccepted(n) \/ OfferLate(n)
Fetch(n) ==
  FetchUnpinned(n) \/ FetchSucceeds(n) \/ RecordFetch(n) \/ FetchNothing(n)
Observe(n) == Build(n) \/ Refresh(n) \/ PeerRemoved(n)
End(n) == Crash(n) \/ Stop(n) \/ Withdraw(n)

Next ==
  \E n \in Node : Sender(n) \/ Offer(n) \/ Fetch(n) \/ Observe(n) \/ End(n)

Spec == Init /\ [][Next]_vars
-------------------------------------------------------------------------------
\* Properties.

PushBy == ByWatcher \cup {"fetch", "listener"}

Calls ==
  [op : {"push"}, by : PushBy, excl : SUBSET Node]
    \cup [op : {"reject"}, from : Node]
    \cup [op : {"timeout"}, target : Node]
    \cup [op : {"have"}, holder : Node]

TypeOK ==
  /\ status \in [Node -> {"up", "stopping", "gone", "dead"}]
  /\ valid \subseteq Node
  /\ records \subseteq Node
  /\ snap \in [Node -> SUBSET Node]
  /\ told \in [Node -> SUBSET Node]
  /\ slots \in [Node -> SUBSET Node]
  /\ armed \in [Node -> SUBSET Node]
  /\ push \in [Node -> [by : PushBy \cup {"retry", "none"}, left : SUBSET Node]]
  /\ todo \in [Node -> SUBSET Calls]
  /\ targeting \in [Node -> Node \cup {NoNode}]
  /\ cancelled \in [Node -> SUBSET Node]
  /\ fetches \in [Node -> [Node -> Nat]]
  /\ recording \in [Node -> SUBSET Node]
  /\ faults \in [count : Nat, timersOnly : BOOLEAN]

\* A node with a placement record has the path: nobody is sent to fetch from a
\* node that cannot serve it, cancelled and failed fetches included.
RecordsAreTrue == records \subseteq valid

\* Only a node that has the path offers it, retries and repairs included.
OffersAreBacked ==
  \A n \in Node :
    slots[n] \cup push[n].left # {} \/ (\E call \in todo[n] : call.op # "have") => n \in valid

Outstanding(n) == slots[n] \cup push[n].left

\* "Issue offers until current_holders + in_flight >= K": whoever asks n to push, a
\* new offer never takes the holders n knows of (those it was told are dead apart)
\* and the nodes it waits for above K.
OffersFillTheGap ==
  [][\A n \in Node :
       \/ Outstanding(n)' \subseteq Outstanding(n)
       \/ Cardinality((snap[n] \ told[n]) \cup Outstanding(n)') <= K]_vars

\* Every in-flight offer is still watched by a timer, or by the callback of one:
\* no slot is occupied for ever, whatever released and took it in between.
SlotsAreTimed ==
  \A n \in Node : \A t \in slots[n] : t \in armed[n] \/ TimeoutCall(t) \in todo[n]

\* A receiver that turns other senders away with already-targeted has a fetch
\* under way for the one it accepted.
TargetingIsServed ==
  \A n \in Node :
    targeting[n] # NoNode =>
      targeting[n] \in Fetching(n)

\* A cancellation waits for the fetch it is meant for, and never for a later one,
\* unless its sender has left for good.
CancelIsServed ==
  \A n \in Node : \A s \in cancelled[n] :
    \/ s \in Fetching(n)
    \/ status[s] = "gone"

\* Nothing is under way: no call, offer, fetch or timer, every snapshot is current
\* and every death has been reported.
AtRest ==
  /\ \A n \in Serving :
       /\ status[n] = "up"
       /\ push[n] = Idle /\ todo[n] = {} /\ slots[n] = {}
       /\ Fetching(n) = {} /\ recording[n] = {}
       /\ snap[n] = records
       /\ \A d \in Node : status[d] = "dead" => d \in told[n]

\* K live nodes hold the path, or every live node has it.
Replicated ==
  \/ Cardinality(records \cap Serving) >= K
  \/ Serving \subseteq valid

\* Without a failing POST, fetch, read or node, the protocol does not come to rest
\* before the path, once some node has it, is on K nodes.
RestMeansReplicated ==
  AtRest /\ records # {} /\ faults.timersOnly => Replicated

\* peer_replication.py:28: "The sender's 1 s timeout per offer ensures the cluster
\* converges quickly even when a candidate is unreachable."
UnreachableIsHarmless ==
  AtRest /\ records \cap Serving # {} => Replicated
===============================================================================
