--------------------------- MODULE ReplicationProofs ---------------------------
(***************************************************************************)
(* Proofs about Replication, for every set of nodes, every K, every set of *)
(* faults and every budget of them: type correctness; that records are     *)
(* true and offers backed by the path; that every in-flight offer is       *)
(* timed; that accepted offers and cancellations are served; that no new   *)
(* offer overshoots K; and that, as long as nothing fails, the protocol    *)
(* does not come to rest before the path is replicated.                    *)
(***************************************************************************)
EXTENDS Replication, FiniteSetTheorems, TLAPS

-------------------------------------------------------------------------------
\* Calls, loops and targets.

Loops == [by : PushBy \cup {"retry", "none"}, left : SUBSET Node]

LEMMA CallFacts ==
  /\ \A by \in PushBy, excl \in SUBSET Node : PushCall(by, excl) \in Calls
  /\ \A m \in Node : RejectCall(m) \in Calls /\ TimeoutCall(m) \in Calls /\ HaveCall(m) \in Calls
  /\ \A c \in Calls : /\ c.op = "push" => c.by \in PushBy /\ c.excl \in SUBSET Node
                      /\ c.op = "reject" => c.from \in Node
                      /\ c.op = "timeout" => c.target \in Node
                      /\ c.op = "have" => c.holder \in Node
BY DEF Calls, PushCall, RejectCall, TimeoutCall, HaveCall

LEMMA LoopFacts ==
  ASSUME NEW by \in PushBy \cup {"retry"}, NEW S \in SUBSET Node
  PROVE  /\ Loop(by, S) \in Loops
         /\ Loop(by, S).left = S
         /\ S = {} => Loop(by, S) = Idle
BY DEF Loop, Loops, Idle

LEMMA TargetFacts ==
  ASSUME NEW n, NEW kept, NEW excl, NEW S \in Targets(n, kept, excl)
  PROVE  /\ S \subseteq Node
         /\ status[n] # "up" => S = {}
<1>1. \A peers \in PeerLists : peers \subseteq Node
  BY DEF PeerLists, Listed
<1>2. \A needed, tabu : Sample(needed, tabu) \subseteq SUBSET Node
  BY <1>1 DEF Sample
<1>3. CASE status[n] # "up" \/ K - Cardinality(snap[n] \ excl) - Cardinality(kept) <= 0
  BY <1>3 DEF Targets
<1>4. CASE ~(status[n] # "up" \/ K - Cardinality(snap[n] \ excl) - Cardinality(kept) <= 0)
  BY <1>2, <1>4 DEF Targets
<1> QED BY <1>3, <1>4

\* Counting a fault keeps the counter a number.
LEMMA RecordFacts ==
  ASSUME TypeOK, NEW f, Record(f)
  PROVE  faults' \in [count : Nat, timersOnly : BOOLEAN]
<1>1. faults.count + 1 \in Nat
  BY DEF TypeOK
<1>2. (faults.timersOnly /\ f = "timer") \in BOOLEAN
  OBVIOUS
<1> QED BY <1>1, <1>2 DEF Record

LEMMA MissedFacts ==
  ASSUME TypeOK, NEW missed, Missed(missed)
  PROVE  faults' \in [count : Nat, timersOnly : BOOLEAN]
<1>1. CASE missed = {}
  BY <1>1 DEF Missed, TypeOK
<1>2. CASE missed # {}
  BY <1>2, RecordFacts DEF Missed
<1> QED BY <1>1, <1>2

LEMMA AnnounceFacts ==
  ASSUME TypeOK, NEW n \in Node, NEW missed, NEW calls \in SUBSET Calls,
         Announce(n, missed, calls)
  PROVE  /\ todo' \in [Node -> SUBSET Calls]
         /\ \A m \in Node : /\ todo[m] \subseteq todo'[m]
                            /\ todo'[m] \subseteq todo[m] \cup calls \cup {HaveCall(n)}
                            /\ m # n => todo'[m] \subseteq todo[m] \cup {HaveCall(n)}
BY CallFacts DEF TypeOK, Announce

-------------------------------------------------------------------------------
\* Type correctness.

LEMMA InitType == Init => TypeOK
<1> SUFFICES ASSUME Init PROVE TypeOK
  OBVIOUS
<1>1. Idle \in Loops
  BY DEF Idle, Loops
<1>2. push \in [Node -> Loops]
  BY <1>1 DEF Init
<1>3. faults \in [count : Nat, timersOnly : BOOLEAN]
  BY DEF Init, NoFaults
<1> QED BY <1>2, <1>3 DEF TypeOK, Init, Loops, NoThreads

\* An offer leaves the loop.
LEMMA OfferedFacts ==
  ASSUME TypeOK, NEW n \in Node, NEW t \in push[n].left, Offered(n, t)
  PROVE  /\ t \in Node
         /\ push' \in [Node -> Loops]
         /\ push'[n].left = push[n].left \ {t}
         /\ \A m \in Node \ {n} : push'[m] = push[m]
         /\ push[n] # Idle
<1>1. push[n].by \in PushBy \cup {"retry", "none"} /\ push[n].left \in SUBSET Node
  BY DEF TypeOK
<1>2. Loop(push[n].by, push[n].left \ {t}) \in Loops
  BY <1>1 DEF Loop, Loops, Idle
<1>3. Loop(push[n].by, push[n].left \ {t}).left = push[n].left \ {t}
  BY DEF Loop, Idle
<1>4. push[n] # Idle
  BY DEF Idle
<1> QED BY <1>1, <1>2, <1>3, <1>4 DEF Offered, TypeOK, Loops

LEMMA RetryFacts ==
  ASSUME TypeOK, NEW n \in Node, NEW t \in Node, Retry(n, t)
  PROVE  /\ slots' = [slots EXCEPT ![n] = @ \ {t}] /\ slots' \in [Node -> SUBSET Node]
         /\ armed' = [armed EXCEPT ![n] = @ \ {t}] /\ armed' \in [Node -> SUBSET Node]
         /\ push' \in [Node -> Loops]
         /\ \A m \in Node \ {n} : push'[m] = push[m]
         /\ status[n] # "up" => push'[n] = Idle
<1>1. PICK S \in Targets(n, slots[n] \ {t}, {}) :
        push' = [push EXCEPT ![n] = Loop("retry", S)]
  BY DEF Retry
<1>2. S \in SUBSET Node /\ (status[n] # "up" => S = {})
  BY TargetFacts
<1>3. Loop("retry", S) \in Loops /\ (S = {} => Loop("retry", S) = Idle)
  BY <1>2, LoopFacts
<1> QED BY <1>1, <1>2, <1>3 DEF Retry, TypeOK, Loops

-------------------------------------------------------------------------------
\* What the calls that wait for the lock do.

LEMMA PushFacts ==
  ASSUME TypeOK, NEW n \in Node, PushAttempt(n)
  PROVE  /\ push' \in [Node -> Loops]
         /\ todo' \in [Node -> SUBSET Calls]
         /\ \A m \in Node \ {n} : push'[m] = push[m]
         /\ \A m \in Node : /\ todo'[m] \subseteq todo[m]
                            /\ \A c \in todo[m] : c.op # "push" => c \in todo'[m]
         /\ \E c \in todo[n] : c.op = "push"
         /\ status[n] # "up" => push'[n] = Idle
<1>1. PICK call \in todo[n] :
        /\ call.op = "push"
        /\ \E S \in Targets(n, slots[n], call.excl) :
             push' = [push EXCEPT ![n] = Loop(call.by, S)]
        /\ todo' = [todo EXCEPT ![n] = @ \ {call}]
  BY DEF PushAttempt
<1>2. PICK S \in Targets(n, slots[n], call.excl) :
        push' = [push EXCEPT ![n] = Loop(call.by, S)]
  BY <1>1
<1>3. call \in Calls
  BY DEF TypeOK
<1>4. call.by \in PushBy
  BY <1>1, <1>3, CallFacts
<1>5. Loop(call.by, S) \in Loops /\ (status[n] # "up" => Loop(call.by, S) = Idle)
  BY <1>4, TargetFacts, LoopFacts
<1>6. push' \in [Node -> Loops]
  BY <1>2, <1>5 DEF TypeOK, Loops
<1>7. /\ \A m \in Node \ {n} : push'[m] = push[m]
      /\ status[n] # "up" => push'[n] = Idle
  BY <1>2, <1>5 DEF TypeOK
<1>8. /\ todo' \in [Node -> SUBSET Calls]
      /\ \A m \in Node : /\ todo'[m] \subseteq todo[m]
                         /\ \A c \in todo[m] : c.op # "push" => c \in todo'[m]
  BY <1>1 DEF TypeOK
<1> QED BY <1>1, <1>6, <1>7, <1>8

\* A reject or a timeout gives up one slot at most, and its timer with it.
LEMMA SettleFacts ==
  ASSUME TypeOK, NEW n \in Node, OnReject(n) \/ OnTimeout(n)
  PROVE  /\ slots' \in [Node -> SUBSET Node] /\ armed' \in [Node -> SUBSET Node]
         /\ push' \in [Node -> Loops] /\ todo' \in [Node -> SUBSET Calls]
         /\ \A m \in Node \ {n} : /\ slots'[m] = slots[m] /\ armed'[m] = armed[m]
                                  /\ push'[m] = push[m] /\ todo'[m] = todo[m]
         /\ todo'[n] \subseteq todo[n]
         /\ \E c \in todo[n] : c.op # "have"
         /\ status[n] # "up" => push'[n] \in {push[n], Idle}
         /\ \/ slots'[n] = slots[n] /\ armed'[n] = armed[n]
            \/ \E t \in Node : slots'[n] = slots[n] \ {t} /\ armed'[n] = armed[n] \ {t}
         /\ \A t \in slots'[n] : TimeoutCall(t) \in todo[n] => TimeoutCall(t) \in todo'[n]
<1>1. CASE OnReject(n)
  <2>1. PICK call \in todo[n] :
          call.op = "reject" /\ Retry(n, call.from) /\ todo' = [todo EXCEPT ![n] = @ \ {call}]
    BY <1>1 DEF OnReject
  <2>2. call \in Calls
    BY DEF TypeOK
  <2>3. call.from \in Node
    BY <2>1, <2>2, CallFacts
  <2>4. \A t : TimeoutCall(t) # call
    BY <2>1 DEF TimeoutCall
  <2>5. /\ todo' \in [Node -> SUBSET Calls]
        /\ \A m \in Node \ {n} : todo'[m] = todo[m]
        /\ todo'[n] = todo[n] \ {call}
    BY <2>1 DEF TypeOK
  <2>6. /\ slots' = [slots EXCEPT ![n] = @ \ {call.from}] /\ slots' \in [Node -> SUBSET Node]
        /\ armed' = [armed EXCEPT ![n] = @ \ {call.from}] /\ armed' \in [Node -> SUBSET Node]
        /\ push' \in [Node -> Loops]
        /\ \A m \in Node \ {n} : push'[m] = push[m]
        /\ status[n] # "up" => push'[n] = Idle
    BY <2>1, <2>3, RetryFacts
  <2>7. /\ \A m \in Node \ {n} : slots'[m] = slots[m] /\ armed'[m] = armed[m]
        /\ slots'[n] = slots[n] \ {call.from} /\ armed'[n] = armed[n] \ {call.from}
    BY <2>6 DEF TypeOK
  <2> QED BY <2>1, <2>3, <2>4, <2>5, <2>6, <2>7
<1>2. CASE OnTimeout(n)
  <2>1. PICK call \in todo[n] :
          /\ call.op = "timeout"
          /\ IF call.target \in slots[n] THEN Retry(n, call.target)
             ELSE UNCHANGED <<slots, armed, push>>
          /\ todo' = [todo EXCEPT ![n] = @ \ {call}]
    BY <1>2 DEF OnTimeout
  <2>2. call \in Calls
    BY DEF TypeOK
  <2>3. call.target \in Node
    BY <2>1, <2>2, CallFacts
  <2>4. \A t : t # call.target => TimeoutCall(t) # call
    BY <2>1 DEF TimeoutCall
  <2>5. /\ todo' \in [Node -> SUBSET Calls]
        /\ \A m \in Node \ {n} : todo'[m] = todo[m]
        /\ todo'[n] = todo[n] \ {call}
    BY <2>1 DEF TypeOK
  <2>6. CASE call.target \in slots[n]
    <3>1. /\ slots' = [slots EXCEPT ![n] = @ \ {call.target}] /\ slots' \in [Node -> SUBSET Node]
          /\ armed' = [armed EXCEPT ![n] = @ \ {call.target}] /\ armed' \in [Node -> SUBSET Node]
          /\ push' \in [Node -> Loops]
          /\ \A m \in Node \ {n} : push'[m] = push[m]
          /\ status[n] # "up" => push'[n] = Idle
      BY <2>1, <2>3, <2>6, RetryFacts
    <3>2. /\ \A m \in Node \ {n} : slots'[m] = slots[m] /\ armed'[m] = armed[m]
          /\ slots'[n] = slots[n] \ {call.target} /\ armed'[n] = armed[n] \ {call.target}
      BY <3>1 DEF TypeOK
    <3> QED BY <2>1, <2>3, <2>4, <2>5, <3>1, <3>2
  <2>7. CASE call.target \notin slots[n]
    <3>1. slots' = slots /\ armed' = armed /\ push' = push
      BY <2>1, <2>7
    <3>2. /\ slots' \in [Node -> SUBSET Node] /\ armed' \in [Node -> SUBSET Node]
          /\ push' \in [Node -> Loops]
      BY <3>1 DEF TypeOK, Loops
    <3> QED BY <2>1, <2>4, <2>5, <2>7, <3>1, <3>2
  <2> QED BY <2>6, <2>7
<1> QED BY <1>1, <1>2

\* A path-have gives up the holder's slot or all of them; in the latter case some
\* targets are told to cancel.
LEMMA HaveFacts ==
  ASSUME TypeOK, NEW n \in Node, OnPathHave(n)
  PROVE  /\ slots' \in [Node -> SUBSET Node] /\ armed' \in [Node -> SUBSET Node]
         /\ todo' \in [Node -> SUBSET Calls]
         /\ faults' \in [count : Nat, timersOnly : BOOLEAN]
         /\ \A m \in Node \ {n} : /\ slots'[m] = slots[m] /\ armed'[m] = armed[m]
                                  /\ todo'[m] = todo[m]
         /\ todo'[n] \subseteq todo[n]
         /\ \A c \in todo[n] : c.op # "have" => c \in todo'[n]
         /\ \/ slots'[n] = {} /\ armed'[n] = {}
            \/ \E t : slots'[n] = slots[n] \ {t} /\ armed'[n] = armed[n] \ {t}
         /\ UNCHANGED <<targeting, cancelled>> \/ \E R \in SUBSET Node : CancelAt(n, R)
<1>1. PICK call \in todo[n] :
        LET kept == slots[n] \ {call.holder}
        IN  /\ call.op = "have"
            /\ todo' = [todo EXCEPT ![n] = @ \ {call}]
            /\ IF Converged(n, call.holder)
                 THEN /\ slots' = [slots EXCEPT ![n] = {}]
                      /\ armed' = [armed EXCEPT ![n] = {}]
                      /\ \E missed \in SUBSET kept :
                           Missed(missed) /\ CancelAt(n, kept \ missed)
                 ELSE /\ slots' = [slots EXCEPT ![n] = kept]
                      /\ armed' = [armed EXCEPT ![n] = @ \ {call.holder}]
                      /\ UNCHANGED <<targeting, cancelled, faults>>
  BY DEF OnPathHave
<1>2. /\ todo' \in [Node -> SUBSET Calls]
      /\ \A m \in Node \ {n} : todo'[m] = todo[m]
      /\ todo'[n] \subseteq todo[n]
      /\ \A c \in todo[n] : c.op # "have" => c \in todo'[n]
  BY <1>1 DEF TypeOK
<1>3. CASE Converged(n, call.holder)
  <2>1. slots' = [slots EXCEPT ![n] = {}] /\ armed' = [armed EXCEPT ![n] = {}]
    BY <1>1, <1>3
  <2>2. PICK missed \in SUBSET (slots[n] \ {call.holder}) :
          Missed(missed) /\ CancelAt(n, (slots[n] \ {call.holder}) \ missed)
    BY <1>1, <1>3
  <2>3. (slots[n] \ {call.holder}) \ missed \in SUBSET Node
    BY DEF TypeOK
  <2>4. faults' \in [count : Nat, timersOnly : BOOLEAN]
    BY <2>2, MissedFacts
  <2>5. /\ slots' \in [Node -> SUBSET Node] /\ armed' \in [Node -> SUBSET Node]
        /\ \A m \in Node \ {n} : slots'[m] = slots[m] /\ armed'[m] = armed[m]
        /\ slots'[n] = {} /\ armed'[n] = {}
    BY <2>1 DEF TypeOK
  <2> QED BY <1>2, <2>2, <2>3, <2>4, <2>5
<1>4. CASE ~Converged(n, call.holder)
  <2>1. /\ slots' = [slots EXCEPT ![n] = @ \ {call.holder}]
        /\ armed' = [armed EXCEPT ![n] = @ \ {call.holder}]
        /\ UNCHANGED <<targeting, cancelled, faults>>
    BY <1>1, <1>4
  <2>2. /\ slots' \in [Node -> SUBSET Node] /\ armed' \in [Node -> SUBSET Node]
        /\ \A m \in Node \ {n} : slots'[m] = slots[m] /\ armed'[m] = armed[m]
        /\ slots'[n] = slots[n] \ {call.holder} /\ armed'[n] = armed[n] \ {call.holder}
    BY <2>1 DEF TypeOK
  <2>3. faults' \in [count : Nat, timersOnly : BOOLEAN]
    BY <2>1 DEF TypeOK
  <2> QED BY <1>2, <2>1, <2>2, <2>3
<1> QED BY <1>3, <1>4

\* A timer hands its slot over to its callback.
LEMMA TimerFacts ==
  ASSUME TypeOK, NEW n \in Node, TimerFires(n)
  PROVE  \E t \in armed[n] :
           /\ armed' = [armed EXCEPT ![n] = @ \ {t}] /\ armed' \in [Node -> SUBSET Node]
           /\ todo' = [todo EXCEPT ![n] = @ \cup {TimeoutCall(t)}]
           /\ todo' \in [Node -> SUBSET Calls]
<1>1. PICK t \in armed[n] :
        /\ armed' = [armed EXCEPT ![n] = @ \ {t}]
        /\ todo' = [todo EXCEPT ![n] = @ \cup {TimeoutCall(t)}]
  BY DEF TimerFires
<1>2. TimeoutCall(t) \in Calls
  BY CallFacts DEF TypeOK
<1>3. todo[n] \cup {TimeoutCall(t)} \in SUBSET Calls
  BY <1>2 DEF TypeOK
<1>4. armed' \in [Node -> SUBSET Node] /\ todo' \in [Node -> SUBSET Calls]
  BY <1>1, <1>3 DEF TypeOK
<1> QED BY <1>1, <1>4

LEMMA CancelFacts ==
  ASSUME TypeOK, NEW n \in Node, NEW R, CancelAt(n, R)
  PROVE  /\ targeting' \in [Node -> Node \cup {NoNode}]
         /\ cancelled' \in [Node -> SUBSET Node]
         /\ \A t \in Node :
              \/ /\ targeting[t] = n /\ targeting'[t] = NoNode
                 /\ cancelled'[t] = cancelled[t] \cup {n}
              \/ targeting'[t] = targeting[t] /\ cancelled'[t] = cancelled[t]
<1> DEFINE hit == {t \in R : targeting[t] = n}
<1>1. targeting' = [t \in Node |-> IF t \in hit THEN NoNode ELSE targeting[t]]
  BY DEF CancelAt
<1>2. cancelled' = [t \in Node |-> IF t \in hit THEN cancelled[t] \cup {n} ELSE cancelled[t]]
  BY DEF CancelAt
<1>3. \A t \in hit : targeting[t] = n
  OBVIOUS
<1> HIDE DEF hit
<1>4. targeting' \in [Node -> Node \cup {NoNode}]
  BY <1>1 DEF TypeOK
<1>5. cancelled' \in [Node -> SUBSET Node]
  BY <1>2 DEF TypeOK
<1> QED BY <1>1, <1>2, <1>3, <1>4, <1>5

LEMMA AcceptFacts ==
  ASSUME TypeOK, NEW n \in Node, NEW t \in Node, Accept(t, n)
  PROVE  /\ targeting' \in [Node -> Node \cup {NoNode}]
         /\ fetches' \in [Node -> [Node -> Nat]]
         /\ targeting'[t] = n /\ n \in Fetching(t)' /\ Fetching(t) \subseteq Fetching(t)'
         /\ \A m \in Node \ {t} : targeting'[m] = targeting[m] /\ Fetching(m)' = Fetching(m)
<1> DEFINE more == IF fetches[t][n] < MaxThreads THEN fetches[t][n] + 1 ELSE fetches[t][n]
<1>1. fetches[t][n] \in Nat /\ MaxThreads \in Nat \ {0}
  BY ThreadAssumption DEF TypeOK
<1>2. more \in Nat /\ more > 0
  BY <1>1
<1>3. fetches' = [fetches EXCEPT ![t] = [fetches[t] EXCEPT ![n] = more]]
  BY DEF Accept
<1> HIDE DEF more
<1>4. /\ fetches' \in [Node -> [Node -> Nat]]
      /\ fetches'[t][n] = more
      /\ \A s \in Node \ {n} : fetches'[t][s] = fetches[t][s]
      /\ \A m \in Node \ {t} : fetches'[m] = fetches[m]
  BY <1>2, <1>3 DEF TypeOK
<1>5. /\ targeting' \in [Node -> Node \cup {NoNode}]
      /\ targeting'[t] = n /\ \A m \in Node \ {t} : targeting'[m] = targeting[m]
  BY DEF Accept, TypeOK
<1>6. n \in Fetching(t)' /\ Fetching(t) \subseteq Fetching(t)'
  BY <1>2, <1>4 DEF Fetching
<1>7. \A m \in Node \ {t} : Fetching(m)' = Fetching(m)
  BY <1>4 DEF Fetching
<1> QED BY <1>4, <1>5, <1>6, <1>7

\* A thread from s ends: another one from s may be left.
ThreadEnds(n, s) == fetches' = [fetches EXCEPT ![n][s] = @ - 1]

LEMMA ThreadFacts ==
  ASSUME TypeOK, NEW n \in Node, NEW s \in Fetching(n), ThreadEnds(n, s)
  PROVE  /\ fetches' \in [Node -> [Node -> Nat]]
         /\ Fetching(n) \ {s} \subseteq Fetching(n)'
         /\ \A m \in Node \ {n} : Fetching(m)' = Fetching(m)
<1>1. s \in Node /\ fetches[n][s] - 1 \in Nat
  BY DEF Fetching, TypeOK
<1>2. fetches' = [fetches EXCEPT ![n] = [fetches[n] EXCEPT ![s] = fetches[n][s] - 1]]
  BY DEF ThreadEnds
<1>3. /\ fetches' \in [Node -> [Node -> Nat]]
      /\ \A q \in Node \ {s} : fetches'[n][q] = fetches[n][q]
      /\ \A m \in Node \ {n} : fetches'[m] = fetches[m]
  BY <1>1, <1>2 DEF TypeOK
<1> QED BY <1>3 DEF Fetching

\* An offer takes its target out of the loop; the target may accept, and may take
\* a slot.
LEMMA OfferFacts ==
  ASSUME TypeOK, NEW n \in Node, Offer(n)
  PROVE  \E t \in push[n].left :
           /\ t \in Node /\ push[n] # Idle
           /\ push' \in [Node -> Loops] /\ push'[n].left = push[n].left \ {t}
           /\ slots' \in [Node -> SUBSET Node] /\ armed' \in [Node -> SUBSET Node]
           /\ todo' \in [Node -> SUBSET Calls]
           /\ faults' \in [count : Nat, timersOnly : BOOLEAN]
           /\ \A m \in Node \ {n} : /\ push'[m] = push[m] /\ todo'[m] = todo[m]
                                    /\ slots'[m] = slots[m] /\ armed'[m] = armed[m]
           /\ todo[n] \subseteq todo'[n]
           /\ \/ slots'[n] = slots[n] /\ armed'[n] = armed[n]
              \/ slots'[n] = slots[n] \cup {t} /\ armed'[n] = armed[n] \cup {t}
           /\ UNCHANGED <<targeting, fetches>> \/ Accept(t, n)
           /\ UNCHANGED <<clusterVars, cancelled, recording>>
<1>1. CASE OfferFails(n)
  <2>1. PICK t \in push[n].left :
          /\ IF status[t] = "up" THEN MayFail("lost") /\ Record("lost") ELSE UNCHANGED faults
          /\ Offered(n, t)
    BY <1>1 DEF OfferFails
  <2>2. faults' \in [count : Nat, timersOnly : BOOLEAN]
    BY <2>1, RecordFacts DEF TypeOK
  <2>3. UNCHANGED <<clusterVars, slots, armed, todo, receiverVars>>
    BY <1>1 DEF OfferFails
  <2> QED BY <2>1, <2>2, <2>3, OfferedFacts DEF TypeOK, receiverVars
<1>2. CASE OfferRejected(n)
  <2>1. PICK t \in push[n].left :
          Offered(n, t) /\ todo' = [todo EXCEPT ![n] = @ \cup {RejectCall(t)}]
    BY <1>2 DEF OfferRejected
  <2>2. t \in Node
    BY <2>1, OfferedFacts
  <2>3. todo[n] \cup {RejectCall(t)} \in SUBSET Calls
    BY <2>2, CallFacts DEF TypeOK
  <2>4. /\ todo' \in [Node -> SUBSET Calls]
        /\ \A m \in Node \ {n} : todo'[m] = todo[m]
        /\ todo[n] \subseteq todo'[n]
    BY <2>1, <2>3 DEF TypeOK
  <2>5. UNCHANGED <<clusterVars, slots, armed, receiverVars, faults>>
    BY <1>2 DEF OfferRejected
  <2>6. /\ t \in Node /\ push[n] # Idle /\ push' \in [Node -> Loops]
        /\ push'[n].left = push[n].left \ {t} /\ \A m \in Node \ {n} : push'[m] = push[m]
    BY <2>1, OfferedFacts
  <2> WITNESS t \in push[n].left
  <2> QED BY <2>4, <2>5, <2>6 DEF TypeOK, receiverVars
<1>3. ASSUME NEW t \in push[n].left, Offered(n, t),
             slots' = [slots EXCEPT ![n] = @ \cup {t}], armed' = [armed EXCEPT ![n] = @ \cup {t}]
      PROVE  /\ slots' \in [Node -> SUBSET Node] /\ armed' \in [Node -> SUBSET Node]
             /\ \A m \in Node \ {n} : slots'[m] = slots[m] /\ armed'[m] = armed[m]
             /\ slots'[n] = slots[n] \cup {t} /\ armed'[n] = armed[n] \cup {t}
  <2>1. t \in Node
    BY <1>3, OfferedFacts
  <2> QED BY <1>3, <2>1 DEF TypeOK
<1>4. CASE OfferUnanswered(n)
  <2>1. PICK t \in push[n].left :
          /\ Offered(n, t)
          /\ slots' = [slots EXCEPT ![n] = @ \cup {t}]
          /\ armed' = [armed EXCEPT ![n] = @ \cup {t}]
    BY <1>4 DEF OfferUnanswered
  <2>2. /\ faults' \in [count : Nat, timersOnly : BOOLEAN]
        /\ UNCHANGED <<clusterVars, todo, receiverVars>>
    BY <1>4, RecordFacts DEF OfferUnanswered
  <2>3. /\ t \in Node /\ push[n] # Idle /\ push' \in [Node -> Loops]
        /\ push'[n].left = push[n].left \ {t} /\ \A m \in Node \ {n} : push'[m] = push[m]
    BY <2>1, OfferedFacts
  <2>4. /\ slots' \in [Node -> SUBSET Node] /\ armed' \in [Node -> SUBSET Node]
        /\ \A m \in Node \ {n} : slots'[m] = slots[m] /\ armed'[m] = armed[m]
        /\ slots'[n] = slots[n] \cup {t} /\ armed'[n] = armed[n] \cup {t}
    BY <1>3, <2>1
  <2> WITNESS t \in push[n].left
  <2> QED BY <2>2, <2>3, <2>4 DEF TypeOK, receiverVars
<1>5. CASE OfferAccepted(n)
  <2>1. PICK t \in push[n].left :
          /\ Offered(n, t) /\ Accept(t, n)
          /\ slots' = [slots EXCEPT ![n] = @ \cup {t}]
          /\ armed' = [armed EXCEPT ![n] = @ \cup {t}]
    BY <1>5 DEF OfferAccepted
  <2>2. UNCHANGED <<clusterVars, todo, cancelled, recording, faults>>
    BY <1>5 DEF OfferAccepted
  <2>3. /\ t \in Node /\ push[n] # Idle /\ push' \in [Node -> Loops]
        /\ push'[n].left = push[n].left \ {t} /\ \A m \in Node \ {n} : push'[m] = push[m]
    BY <2>1, OfferedFacts
  <2>4. /\ slots' \in [Node -> SUBSET Node] /\ armed' \in [Node -> SUBSET Node]
        /\ \A m \in Node \ {n} : slots'[m] = slots[m] /\ armed'[m] = armed[m]
        /\ slots'[n] = slots[n] \cup {t} /\ armed'[n] = armed[n] \cup {t}
    BY <1>3, <2>1
  <2> WITNESS t \in push[n].left
  <2> QED BY <2>1, <2>2, <2>3, <2>4 DEF TypeOK
<1>6. CASE OfferLate(n)
  <2>1. PICK t \in push[n].left : Offered(n, t) /\ Accept(t, n)
    BY <1>6 DEF OfferLate
  <2>2. /\ faults' \in [count : Nat, timersOnly : BOOLEAN]
        /\ UNCHANGED <<clusterVars, slots, armed, todo, cancelled, recording>>
    BY <1>6, RecordFacts DEF OfferLate
  <2> QED BY <2>1, <2>2, OfferedFacts DEF TypeOK
<1> QED BY <1>1, <1>2, <1>4, <1>5, <1>6 DEF Offer

-------------------------------------------------------------------------------
\* Every step keeps the types.

LEMMA SenderType ==
  ASSUME TypeOK, NEW n \in Node, Sender(n)
  PROVE  TypeOK'
<1>1. CASE PushAttempt(n)
  BY <1>1, PushFacts DEF PushAttempt, TypeOK, Loops, clusterVars, receiverVars
<1>2. CASE OnReject(n)
  BY <1>2, SettleFacts DEF OnReject, TypeOK, Loops, clusterVars, receiverVars
<1>3. CASE OnTimeout(n)
  BY <1>3, SettleFacts DEF OnTimeout, TypeOK, Loops, clusterVars, receiverVars
<1>4. CASE OnPathHave(n)
  <2>1. /\ targeting' \in [Node -> Node \cup {NoNode}]
        /\ cancelled' \in [Node -> SUBSET Node]
    BY <1>4, HaveFacts, CancelFacts DEF TypeOK
  <2>2. /\ slots' \in [Node -> SUBSET Node] /\ armed' \in [Node -> SUBSET Node]
        /\ todo' \in [Node -> SUBSET Calls]
        /\ faults' \in [count : Nat, timersOnly : BOOLEAN]
    BY <1>4, HaveFacts
  <2> QED BY <1>4, <2>1, <2>2 DEF OnPathHave, TypeOK, clusterVars
<1>5. CASE TimerFires(n)
  <2>1. faults' \in [count : Nat, timersOnly : BOOLEAN]
    BY <1>5, RecordFacts DEF TimerFires
  <2>2. armed' \in [Node -> SUBSET Node] /\ todo' \in [Node -> SUBSET Calls]
    BY <1>5, TimerFacts
  <2> QED BY <1>5, <2>1, <2>2 DEF TimerFires, TypeOK, clusterVars, receiverVars
<1> QED BY <1>1, <1>2, <1>3, <1>4, <1>5 DEF Sender

LEMMA OfferType ==
  ASSUME TypeOK, NEW n \in Node, Offer(n)
  PROVE  TypeOK'
<1>1. PICK t \in Node :
        /\ push' \in [Node -> Loops]
        /\ slots' \in [Node -> SUBSET Node] /\ armed' \in [Node -> SUBSET Node]
        /\ todo' \in [Node -> SUBSET Calls]
        /\ faults' \in [count : Nat, timersOnly : BOOLEAN]
        /\ UNCHANGED <<targeting, fetches>> \/ Accept(t, n)
        /\ UNCHANGED <<clusterVars, cancelled, recording>>
  BY OfferFacts
<1>2. targeting' \in [Node -> Node \cup {NoNode}] /\ fetches' \in [Node -> [Node -> Nat]]
  BY <1>1, AcceptFacts DEF TypeOK
<1> QED BY <1>1, <1>2 DEF TypeOK, Loops, clusterVars

\* The end of a fetch, whatever its outcome.
LEMMA FinishFacts ==
  ASSUME TypeOK, NEW n \in Node, NEW s \in Fetching(n), Finish(n, s)
  PROVE  /\ targeting' \in [Node -> Node \cup {NoNode}]
         /\ cancelled' \in [Node -> SUBSET Node]
         /\ fetches' \in [Node -> [Node -> Nat]]
BY ThreadFacts DEF Finish, ThreadEnds, TypeOK

LEMMA FetchType ==
  ASSUME TypeOK, NEW n \in Node, Fetch(n)
  PROVE  TypeOK'
<1>1. CASE FetchUnpinned(n)
  <2>1. targeting' \in [Node -> Node \cup {NoNode}] /\ fetches' \in [Node -> [Node -> Nat]]
    <3>1. PICK s \in Fetching(n) :
            targeting' = [targeting EXCEPT ![n] = IF @ = s THEN NoNode ELSE @] /\ ThreadEnds(n, s)
      BY <1>1 DEF FetchUnpinned, ThreadEnds
    <3>2. fetches' \in [Node -> [Node -> Nat]]
      BY <3>1, ThreadFacts
    <3>3. targeting' \in [Node -> Node \cup {NoNode}]
      BY <3>1 DEF TypeOK
    <3> QED BY <3>2, <3>3
  <2> QED BY <1>1, <2>1 DEF FetchUnpinned, TypeOK, clusterVars, senderVars
<1>2. CASE FetchSucceeds(n)
  <2>1. PICK s \in Fetching(n) :
          /\ Finish(n, s)
          /\ valid' = valid \cup {n}
          /\ recording' = IF status[n] # "up" \/ s \in cancelled[n] THEN recording
                          ELSE [recording EXCEPT ![n] = @ \cup {s}]
    BY <1>2 DEF FetchSucceeds
  <2>2. valid' \subseteq Node /\ recording' \in [Node -> SUBSET Node]
    BY <2>1 DEF TypeOK, Fetching
  <2>3. /\ targeting' \in [Node -> Node \cup {NoNode}]
        /\ cancelled' \in [Node -> SUBSET Node]
        /\ fetches' \in [Node -> [Node -> Nat]]
    BY <2>1, FinishFacts
  <2> QED BY <1>2, <2>2, <2>3 DEF FetchSucceeds, TypeOK, senderVars
<1>3. CASE RecordFetch(n)
  <2>1. PICK missed : Announce(n, missed, {PushCall("fetch", {})}) /\ Missed(missed)
    BY <1>3 DEF RecordFetch
  <2>2. {PushCall("fetch", {})} \in SUBSET Calls
    BY CallFacts DEF PushBy
  <2>3. todo' \in [Node -> SUBSET Calls]
    BY <2>1, <2>2, AnnounceFacts
  <2>4. faults' \in [count : Nat, timersOnly : BOOLEAN]
    BY <2>1, MissedFacts
  <2>5. records' \subseteq Node /\ recording' \in [Node -> SUBSET Node]
    BY <1>3 DEF RecordFetch, TypeOK
  <2> QED BY <1>3, <2>3, <2>4, <2>5 DEF RecordFetch, TypeOK
<1>4. CASE FetchNothing(n)
  <2>1. PICK s \in Fetching(n) :
          /\ IF s \in Serving \cap valid /\ n \notin valid
               THEN MayFail("fetch") /\ Record("fetch") ELSE UNCHANGED faults
          /\ Finish(n, s)
    BY <1>4 DEF FetchNothing
  <2>2. faults' \in [count : Nat, timersOnly : BOOLEAN]
    BY <2>1, RecordFacts DEF TypeOK
  <2> QED BY <1>4, <2>1, <2>2, FinishFacts DEF FetchNothing, TypeOK, clusterVars, senderVars
<1> QED BY <1>1, <1>2, <1>3, <1>4 DEF Fetch

\* What a refresh asks for.
LEMMA RefreshFacts ==
  ASSUME TypeOK, NEW n \in Node, Refresh(n)
  PROVE  /\ snap' = [snap EXCEPT ![n] = records] /\ snap' \in [Node -> SUBSET Node]
         /\ todo' \in [Node -> SUBSET Calls]
         /\ \A m \in Node : todo[m] \subseteq todo'[m]
         /\ \A m \in Node \ {n} : todo'[m] = todo[m]
         /\ n \notin records => todo'[n] = todo[n]
<1>1. PushCall("repair", {}) \in Calls /\ PushCall("cascade", {}) \in Calls
  BY CallFacts DEF PushBy, ByWatcher
<1>2. PICK repair \in BOOLEAN, cascade \in BOOLEAN :
        /\ repair \/ cascade => n \in records
        /\ todo' = [todo EXCEPT ![n] =
                      @ \cup (IF repair THEN {PushCall("repair", {})} ELSE {})
                        \cup (IF cascade THEN {PushCall("cascade", {})} ELSE {})]
  BY DEF Refresh
<1>3. /\ todo' \in [Node -> SUBSET Calls]
      /\ \A m \in Node : todo[m] \subseteq todo'[m]
      /\ \A m \in Node \ {n} : todo'[m] = todo[m]
      /\ n \notin records => todo'[n] = todo[n]
  BY <1>1, <1>2 DEF TypeOK
<1>4. snap' = [snap EXCEPT ![n] = records] /\ snap' \in [Node -> SUBSET Node]
  BY DEF Refresh, TypeOK
<1> QED BY <1>3, <1>4

\* A reported death asks for a push at most, and only of a holder.
LEMMA RemovedFacts ==
  ASSUME TypeOK, NEW n \in Node, PeerRemoved(n)
  PROVE  /\ told' \in [Node -> SUBSET Node]
         /\ todo' \in [Node -> SUBSET Calls]
         /\ \A m \in Node : told[m] \subseteq told'[m] /\ todo[m] \subseteq todo'[m]
         /\ \A m \in Node \ {n} : todo'[m] = todo[m]
         /\ \A c \in todo'[n] \ todo[n] :
              \E d \in told'[n] : c = PushCall("listener", {d})
         /\ n \notin snap[n] => todo'[n] = todo[n]
<1>1. PICK d \in Node \ told[n] :
        /\ told' = [told EXCEPT ![n] = @ \cup {d}]
        /\ todo' = IF {n, d} \subseteq snap[n] /\ Cardinality(snap[n]) - 1 < K
                     THEN [todo EXCEPT ![n] = @ \cup {PushCall("listener", {d})}]
                     ELSE todo
  BY DEF PeerRemoved
<1>2. PushCall("listener", {d}) \in Calls
  BY CallFacts DEF PushBy
<1>3. todo[n] \cup {PushCall("listener", {d})} \in SUBSET Calls
  BY <1>2 DEF TypeOK
<1>4. told' \in [Node -> SUBSET Node] /\ (\A m \in Node : told[m] \subseteq told'[m])
      /\ d \in told'[n]
  BY <1>1 DEF TypeOK
<1>5. CASE {n, d} \subseteq snap[n] /\ Cardinality(snap[n]) - 1 < K
  <2>1. todo' = [todo EXCEPT ![n] = @ \cup {PushCall("listener", {d})}]
    BY <1>1, <1>5
  <2>2. /\ todo' \in [Node -> SUBSET Calls]
        /\ \A m \in Node : todo[m] \subseteq todo'[m]
        /\ \A m \in Node \ {n} : todo'[m] = todo[m]
        /\ \A c \in todo'[n] \ todo[n] : c = PushCall("listener", {d})
    BY <1>3, <2>1 DEF TypeOK
  <2> QED BY <1>4, <1>5, <2>2
<1>6. CASE ~({n, d} \subseteq snap[n] /\ Cardinality(snap[n]) - 1 < K)
  <2>1. todo' = todo
    BY <1>1, <1>6
  <2> QED BY <1>4, <2>1 DEF TypeOK
<1> QED BY <1>5, <1>6

LEMMA ObserveType ==
  ASSUME TypeOK, NEW n \in Node, Observe(n)
  PROVE  TypeOK'
<1>1. CASE Build(n)
  <2>1. PICK missed : Announce(n, missed, {}) /\ Missed(missed)
    BY <1>1 DEF Build
  <2>2. todo' \in [Node -> SUBSET Calls] /\ faults' \in [count : Nat, timersOnly : BOOLEAN]
    BY <2>1, AnnounceFacts, MissedFacts
  <2> QED BY <1>1, <2>2 DEF Build, TypeOK, receiverVars
<1>2. CASE Refresh(n)
  BY <1>2, RefreshFacts DEF Refresh, TypeOK, receiverVars
<1>3. CASE PeerRemoved(n)
  BY <1>3, RemovedFacts DEF PeerRemoved, TypeOK, receiverVars
<1> QED BY <1>1, <1>2, <1>3 DEF Observe

LEMMA EndType ==
  ASSUME TypeOK, NEW n \in Node, End(n)
  PROVE  TypeOK'
<1>1. CASE Crash(n)
  <2>1. faults' \in [count : Nat, timersOnly : BOOLEAN]
    BY <1>1, RecordFacts DEF Crash
  <2>2. Idle \in Loops
    BY DEF Idle, Loops
  <2> QED BY <1>1, <2>1, <2>2 DEF Crash, TypeOK, Loops, NoThreads
<1>2. CASE Stop(n)
  <2>1. faults' \in [count : Nat, timersOnly : BOOLEAN]
    BY <1>2, RecordFacts DEF Stop
  <2> QED BY <1>2, <2>1 DEF Stop, TypeOK
<1>3. CASE Withdraw(n)
  BY <1>3 DEF Withdraw, TypeOK, receiverVars
<1> QED BY <1>1, <1>2, <1>3 DEF End

LEMMA NextType == TypeOK /\ [Next]_vars => TypeOK'
<1> SUFFICES ASSUME TypeOK, [Next]_vars PROVE TypeOK'
  OBVIOUS
<1>1. CASE Next
  BY <1>1, SenderType, OfferType, FetchType, ObserveType, EndType DEF Next
<1>2. CASE UNCHANGED vars
  BY <1>2 DEF vars, clusterVars, senderVars, receiverVars, TypeOK
<1> QED BY <1>1, <1>2

\* Every reachable state is well typed.
THEOREM TypeCorrect == Spec => []TypeOK
BY InitType, NextType, PTL DEF Spec

-------------------------------------------------------------------------------
\* What the groups of steps leave alone.

LEMMA Frames ==
  ASSUME NEW n \in Node
  PROVE  /\ Sender(n) => UNCHANGED <<status, valid, records, snap, told, fetches, recording>>
         /\ Offer(n) => UNCHANGED <<status, valid, records, snap, told, cancelled, recording>>
         /\ Fetch(n) => UNCHANGED <<status, snap, told, slots, armed, push>>
         /\ Observe(n) => UNCHANGED <<status, slots, armed, push, targeting, cancelled, fetches,
                                      recording>>
<1>1. Sender(n) => UNCHANGED <<status, valid, records, snap, told, fetches, recording>>
  BY DEF Sender, PushAttempt, OnReject, OnTimeout, OnPathHave, TimerFires, clusterVars, receiverVars
<1>2. Offer(n) => UNCHANGED <<status, valid, records, snap, told, cancelled, recording>>
  BY DEF Offer, OfferFails, OfferRejected, OfferUnanswered, OfferAccepted, OfferLate,
         clusterVars, receiverVars
<1>3. Fetch(n) => UNCHANGED <<status, snap, told, slots, armed, push>>
  BY DEF Fetch, FetchUnpinned, FetchSucceeds, RecordFetch, FetchNothing, clusterVars, senderVars
<1>4. Observe(n) => UNCHANGED <<status, slots, armed, push, targeting, cancelled, fetches, recording>>
  BY DEF Observe, Build, Refresh, PeerRemoved, receiverVars
<1> QED BY <1>1, <1>2, <1>3, <1>4

-------------------------------------------------------------------------------
\* Holders have the path.

\* Records are true because a fetch only goes on to record a path it copied, and
\* snapshots because they are of records and the path never leaves a store.
HoldersAreTrue ==
  /\ RecordsAreTrue
  /\ \A n \in Node : /\ snap[n] \subseteq valid
                     /\ recording[n] # {} => n \in valid

LEMMA HoldersInit == Init => HoldersAreTrue
BY DEF Init, HoldersAreTrue, RecordsAreTrue

LEMMA HoldersStep ==
  ASSUME TypeOK, HoldersAreTrue, NEW n \in Node,
         Sender(n) \/ Offer(n) \/ Fetch(n) \/ Observe(n) \/ End(n)
  PROVE  HoldersAreTrue'
<1>1. CASE Sender(n)
  BY <1>1, Frames DEF HoldersAreTrue, RecordsAreTrue
<1>2. CASE Offer(n)
  BY <1>2, Frames DEF HoldersAreTrue, RecordsAreTrue
<1>3. CASE FetchUnpinned(n) \/ FetchNothing(n)
  BY <1>3 DEF FetchUnpinned, FetchNothing, clusterVars, HoldersAreTrue, RecordsAreTrue
<1>4. CASE FetchSucceeds(n)
  <2>1. PICK s \in Fetching(n) :
          /\ valid' = valid \cup {n}
          /\ recording' = IF status[n] # "up" \/ s \in cancelled[n] THEN recording
                          ELSE [recording EXCEPT ![n] = @ \cup {s}]
    BY <1>4 DEF FetchSucceeds
  <2>2. \A m \in Node \ {n} : recording'[m] = recording[m]
    BY <2>1 DEF TypeOK
  <2>3. records' = records /\ snap' = snap
    BY <1>4 DEF FetchSucceeds
  <2> QED BY <2>1, <2>2, <2>3 DEF HoldersAreTrue, RecordsAreTrue
<1>5. CASE RecordFetch(n)
  <2>1. PICK s \in recording[n] : recording' = [recording EXCEPT ![n] = @ \ {s}]
    BY <1>5 DEF RecordFetch
  <2>2. \A m \in Node : recording'[m] \subseteq recording[m]
    BY <2>1 DEF TypeOK
  <2>3. n \in valid /\ records' = records \cup {n} /\ UNCHANGED <<valid, snap>>
    BY <1>5 DEF RecordFetch, HoldersAreTrue
  <2> QED BY <2>2, <2>3 DEF HoldersAreTrue, RecordsAreTrue
<1>6. CASE Build(n)
  BY <1>6 DEF Build, receiverVars, HoldersAreTrue, RecordsAreTrue
<1>7. CASE Refresh(n)
  BY <1>7, RefreshFacts DEF Refresh, receiverVars, HoldersAreTrue, RecordsAreTrue, TypeOK
<1>8. CASE PeerRemoved(n)
  BY <1>8 DEF PeerRemoved, receiverVars, HoldersAreTrue, RecordsAreTrue
<1>9. CASE Crash(n)
  <2>1. /\ \A m \in Node : recording'[m] \subseteq recording[m] /\ snap'[m] \subseteq snap[m]
        /\ UNCHANGED <<valid, records>>
    BY <1>9 DEF Crash, TypeOK
  <2> QED BY <2>1 DEF HoldersAreTrue, RecordsAreTrue
<1>10. CASE Stop(n)
  BY <1>10 DEF Stop, HoldersAreTrue, RecordsAreTrue
<1>11. CASE Withdraw(n)
  BY <1>11 DEF Withdraw, receiverVars, HoldersAreTrue, RecordsAreTrue
<1> QED BY <1>1, <1>2, <1>3, <1>4, <1>5, <1>6, <1>7, <1>8, <1>9, <1>10, <1>11
        DEF Fetch, Observe, End

-------------------------------------------------------------------------------
\* In-flight offers are timed.

\* A timer never outlives its slot; a node that is stopped or dead has neither slots
\* nor a loop that could take one.
TimersAreLive ==
  /\ SlotsAreTimed
  /\ \A n \in Node : /\ armed[n] \subseteq slots[n]
                     /\ status[n] # "up" => push[n] = Idle /\ slots[n] = {}

LEMMA TimersInit == Init => TimersAreLive
BY DEF Init, TimersAreLive, SlotsAreTimed

\* Only n's own sender touches n's slots, so a step of n is judged on n alone.
LEMMA TimersBy ==
  ASSUME TimersAreLive, NEW n \in Node, status' = status,
         \A m \in Node \ {n} : /\ slots'[m] = slots[m] /\ armed'[m] = armed[m]
                               /\ push'[m] = push[m] /\ todo[m] \subseteq todo'[m],
         \A t \in slots'[n] : t \in armed'[n] \/ TimeoutCall(t) \in todo'[n],
         armed'[n] \subseteq slots'[n],
         status[n] # "up" => push'[n] = Idle /\ slots'[n] = {}
  PROVE  TimersAreLive'
<1>1. \A t : TimeoutCall(t)' = TimeoutCall(t)
  BY DEF TimeoutCall
<1> QED BY <1>1 DEF TimersAreLive, SlotsAreTimed

LEMMA TimersStep ==
  ASSUME TypeOK, TimersAreLive, NEW n \in Node,
         Sender(n) \/ Offer(n) \/ Fetch(n) \/ Observe(n) \/ End(n)
  PROVE  TimersAreLive'
<1>0. \A t : TimeoutCall(t).op = "timeout"
  BY DEF TimeoutCall
<1>1. CASE PushAttempt(n)
  <2>1. status' = status /\ slots' = slots /\ armed' = armed
    BY <1>1 DEF PushAttempt, clusterVars
  <2>2. \A t : TimeoutCall(t) \in todo[n] => TimeoutCall(t) \in todo'[n]
    BY <1>0, <1>1, PushFacts
  <2>3. \A m \in Node \ {n} : push'[m] = push[m]
    BY <1>1, PushFacts
  <2>4. status[n] # "up" => push'[n] = Idle
    BY <1>1, PushFacts
  <2>5. \A m \in Node : \A t : TimeoutCall(t) \in todo[m] => TimeoutCall(t) \in todo'[m]
    BY <1>0, <1>1, PushFacts
  <2> QED BY <2>1, <2>3, <2>4, <2>5 DEF TimersAreLive, SlotsAreTimed, TimeoutCall
<1>2. CASE OnReject(n) \/ OnTimeout(n)
  <2>1. status' = status
    BY <1>2 DEF OnReject, OnTimeout, clusterVars
  <2>2. \A m \in Node \ {n} : /\ slots'[m] = slots[m] /\ armed'[m] = armed[m]
                              /\ push'[m] = push[m] /\ todo[m] \subseteq todo'[m]
    BY <1>2, SettleFacts
  <2>3. /\ \/ slots'[n] = slots[n] /\ armed'[n] = armed[n]
           \/ \E t \in Node : slots'[n] = slots[n] \ {t} /\ armed'[n] = armed[n] \ {t}
        /\ \A t \in slots'[n] : TimeoutCall(t) \in todo[n] => TimeoutCall(t) \in todo'[n]
        /\ status[n] # "up" => push'[n] \in {push[n], Idle}
    BY <1>2, SettleFacts
  <2>4. \A t \in slots'[n] : t \in armed'[n] \/ TimeoutCall(t) \in todo'[n]
    BY <2>3 DEF TimersAreLive, SlotsAreTimed
  <2>5. armed'[n] \subseteq slots'[n]
    BY <2>3 DEF TimersAreLive
  <2>6. status[n] # "up" => push'[n] = Idle /\ slots'[n] = {}
    BY <2>3 DEF TimersAreLive
  <2> QED BY <2>1, <2>2, <2>4, <2>5, <2>6, TimersBy
<1>3. CASE OnPathHave(n)
  <2>1. status' = status /\ push' = push
    BY <1>3 DEF OnPathHave, clusterVars
  <2>2. /\ \A m \in Node \ {n} : /\ slots'[m] = slots[m] /\ armed'[m] = armed[m]
                                 /\ todo'[m] = todo[m]
        /\ \A c \in todo[n] : c.op # "have" => c \in todo'[n]
        /\ \/ slots'[n] = {} /\ armed'[n] = {}
           \/ \E t : slots'[n] = slots[n] \ {t} /\ armed'[n] = armed[n] \ {t}
    BY <1>3, HaveFacts
  <2>3. \A t \in slots'[n] : t \in armed'[n] \/ TimeoutCall(t) \in todo'[n]
    BY <1>0, <2>2 DEF TimersAreLive, SlotsAreTimed
  <2>4. /\ armed'[n] \subseteq slots'[n]
        /\ status[n] # "up" => push'[n] = Idle /\ slots'[n] = {}
    BY <2>1, <2>2 DEF TimersAreLive
  <2> QED BY <2>1, <2>2, <2>3, <2>4, TimersBy
<1>4. CASE TimerFires(n)
  <2>1. status' = status /\ push' = push /\ slots' = slots
    BY <1>4 DEF TimerFires, clusterVars
  <2>2. PICK t \in armed[n] :
          /\ armed' = [armed EXCEPT ![n] = @ \ {t}]
          /\ todo' = [todo EXCEPT ![n] = @ \cup {TimeoutCall(t)}]
    BY <1>4, TimerFacts
  <2>3. /\ armed'[n] = armed[n] \ {t} /\ todo'[n] = todo[n] \cup {TimeoutCall(t)}
        /\ \A m \in Node \ {n} : armed'[m] = armed[m] /\ todo'[m] = todo[m]
    BY <2>2 DEF TypeOK
  <2>4. \A u \in slots'[n] : u \in armed'[n] \/ TimeoutCall(u) \in todo'[n]
    BY <2>1, <2>3 DEF TimersAreLive, SlotsAreTimed
  <2>5. armed'[n] \subseteq slots'[n] /\ (status[n] # "up" => push'[n] = Idle /\ slots'[n] = {})
    BY <2>1, <2>3 DEF TimersAreLive
  <2> QED BY <2>1, <2>3, <2>4, <2>5, TimersBy
<1>5. CASE Offer(n)
  <2>1. status' = status
    BY <1>5, Frames
  <2>2. PICK t \in push[n].left :
          /\ push[n] # Idle
          /\ \A m \in Node \ {n} : /\ push'[m] = push[m] /\ todo'[m] = todo[m]
                                   /\ slots'[m] = slots[m] /\ armed'[m] = armed[m]
          /\ todo[n] \subseteq todo'[n]
          /\ \/ slots'[n] = slots[n] /\ armed'[n] = armed[n]
             \/ slots'[n] = slots[n] \cup {t} /\ armed'[n] = armed[n] \cup {t}
    BY <1>5, OfferFacts
  <2>3. \A u \in slots'[n] : u \in armed'[n] \/ TimeoutCall(u) \in todo'[n]
    BY <2>2 DEF TimersAreLive, SlotsAreTimed
  <2>4. armed'[n] \subseteq slots'[n] /\ status[n] = "up"
    BY <2>2 DEF TimersAreLive
  <2> QED BY <2>1, <2>2, <2>3, <2>4, TimersBy
<1>6. CASE Fetch(n) \/ Observe(n)
  <2>1. UNCHANGED <<status, slots, armed, push>>
    BY <1>6, Frames
  <2>2. \A m \in Node : todo[m] \subseteq todo'[m]
    <3>1. CASE FetchUnpinned(n) \/ FetchSucceeds(n) \/ FetchNothing(n)
      BY <3>1 DEF FetchUnpinned, FetchSucceeds, FetchNothing, senderVars
    <3>2. CASE RecordFetch(n)
      <4>1. PushCall("fetch", {}) \in Calls
        BY CallFacts DEF PushBy
      <4> QED BY <3>2, <4>1, AnnounceFacts DEF RecordFetch
    <3>3. CASE Build(n)
      BY <3>3, AnnounceFacts DEF Build
    <3>4. CASE Refresh(n)
      BY <3>4, RefreshFacts
    <3>5. CASE PeerRemoved(n)
      BY <3>5, RemovedFacts
    <3> QED BY <1>6, <3>1, <3>2, <3>3, <3>4, <3>5 DEF Fetch, Observe
  <2> QED BY <2>1, <2>2 DEF TimersAreLive, SlotsAreTimed, TimeoutCall
<1>7. CASE Crash(n) \/ Stop(n)
  <2>1. /\ slots'[n] = {} /\ armed'[n] = {} /\ push'[n] = Idle
        /\ \A m \in Node \ {n} : /\ slots'[m] = slots[m] /\ armed'[m] = armed[m]
                                 /\ push'[m] = push[m] /\ todo'[m] = todo[m]
                                 /\ status'[m] = status[m]
    BY <1>7 DEF Crash, Stop, LockFree, TypeOK
  <2> QED BY <2>1 DEF TimersAreLive, SlotsAreTimed, TimeoutCall
<1>8. CASE Withdraw(n)
  <2>1. /\ \A m \in Node \ {n} : todo'[m] = todo[m] /\ status'[m] = status[m]
        /\ UNCHANGED <<slots, armed, push>>
        /\ status[n] = "stopping"
    BY <1>8 DEF Withdraw, TypeOK
  <2>2. slots[n] = {} /\ push[n] = Idle
    BY <2>1 DEF TimersAreLive
  <2> QED BY <2>1, <2>2 DEF TimersAreLive, SlotsAreTimed, TimeoutCall
<1> QED BY <1>1, <1>2, <1>3, <1>4, <1>5, <1>6, <1>7, <1>8 DEF Sender, End

-------------------------------------------------------------------------------
\* Offers are backed by the path.

\* What makes n offer, or wait for the lock to do so.
Pushes(n) == slots[n] \cup push[n].left # {} \/ \E call \in todo[n] : call.op # "have"

LEMMA BackedInit == Init => OffersAreBacked
BY DEF Init, OffersAreBacked, Idle

\* A node pushes because it did before, or because it has the path.
LEMMA BackedBy ==
  ASSUME OffersAreBacked, valid \subseteq valid',
         \A m \in Node : Pushes(m)' => Pushes(m) \/ m \in valid'
  PROVE  OffersAreBacked'
BY DEF OffersAreBacked, Pushes

LEMMA BackedStep ==
  ASSUME TypeOK, HoldersAreTrue, TimersAreLive, OffersAreBacked, NEW n \in Node,
         Sender(n) \/ Offer(n) \/ Fetch(n) \/ Observe(n) \/ End(n)
  PROVE  OffersAreBacked'
<1>1. CASE PushAttempt(n)
  <2>1. \A m \in Node : Pushes(m)' => Pushes(m)
    BY <1>1, PushFacts DEF PushAttempt, Pushes
  <2> QED BY <1>1, <2>1, BackedBy DEF PushAttempt, clusterVars
<1>2. CASE OnReject(n) \/ OnTimeout(n)
  <2>1. Pushes(n)
    BY <1>2, SettleFacts DEF Pushes
  <2>2. \A m \in Node \ {n} : Pushes(m)' => Pushes(m)
    BY <1>2, SettleFacts DEF Pushes
  <2>3. valid' = valid
    BY <1>2 DEF OnReject, OnTimeout, clusterVars
  <2> QED BY <2>1, <2>2, <2>3, BackedBy
<1>3. CASE OnPathHave(n)
  <2>1. push' = push /\ valid' = valid
    BY <1>3 DEF OnPathHave, clusterVars
  <2>2. \A m \in Node : slots'[m] \subseteq slots[m] /\ todo'[m] \subseteq todo[m]
    BY <1>3, HaveFacts
  <2>3. \A m \in Node : Pushes(m)' => Pushes(m)
    BY <2>1, <2>2 DEF Pushes
  <2> QED BY <2>1, <2>3, BackedBy
<1>4. CASE TimerFires(n)
  <2>1. UNCHANGED <<valid, slots, push>>
    BY <1>4 DEF TimerFires, clusterVars
  <2>2. PICK t \in armed[n] : todo' = [todo EXCEPT ![n] = @ \cup {TimeoutCall(t)}]
    BY <1>4, TimerFacts
  <2>3. slots[n] # {}
    BY <2>2 DEF TimersAreLive
  <2>4. \A m \in Node \ {n} : todo'[m] = todo[m]
    BY <2>2 DEF TypeOK
  <2>5. \A m \in Node : Pushes(m)' => Pushes(m)
    BY <2>1, <2>3, <2>4 DEF Pushes
  <2> QED BY <2>1, <2>5, BackedBy
<1>5. CASE Offer(n)
  <2>1. /\ push[n].left # {}
        /\ \A m \in Node \ {n} : /\ push'[m] = push[m] /\ todo'[m] = todo[m]
                                 /\ slots'[m] = slots[m]
    BY <1>5, OfferFacts
  <2>2. \A m \in Node : Pushes(m)' => Pushes(m)
    BY <2>1 DEF Pushes
  <2> QED BY <1>5, <2>2, Frames, BackedBy
<1>6. CASE FetchUnpinned(n) \/ FetchSucceeds(n) \/ FetchNothing(n)
  <2>1. UNCHANGED <<slots, push, todo>> /\ valid \subseteq valid'
    BY <1>6 DEF FetchUnpinned, FetchSucceeds, FetchNothing, clusterVars, senderVars
  <2>2. \A m \in Node : Pushes(m)' => Pushes(m)
    BY <2>1 DEF Pushes
  <2> QED BY <2>1, <2>2, BackedBy
<1>7. \A m \in Node : HaveCall(m).op = "have"
  BY DEF HaveCall
<1>8. CASE RecordFetch(n)
  <2>1. UNCHANGED <<slots, push, valid>> /\ n \in valid
    BY <1>8 DEF RecordFetch, HoldersAreTrue
  <2>2. PushCall("fetch", {}) \in Calls
    BY CallFacts DEF PushBy
  <2>3. \A m \in Node \ {n} : todo'[m] \subseteq todo[m] \cup {HaveCall(n)}
    BY <1>8, <2>2, AnnounceFacts DEF RecordFetch
  <2>4. \A m \in Node \ {n} : Pushes(m)' => Pushes(m)
    BY <1>7, <2>1, <2>3 DEF Pushes
  <2> QED BY <2>1, <2>4, BackedBy
<1>9. CASE Build(n)
  <2>1. UNCHANGED <<slots, push>> /\ valid \subseteq valid'
    BY <1>9 DEF Build
  <2>2. \A m \in Node : todo'[m] \subseteq todo[m] \cup {HaveCall(n)}
    BY <1>9, AnnounceFacts DEF Build
  <2>3. \A m \in Node : Pushes(m)' => Pushes(m)
    BY <1>7, <2>1, <2>2 DEF Pushes
  <2> QED BY <2>1, <2>3, BackedBy
<1>10. CASE Refresh(n)
  <2>1. UNCHANGED <<slots, push, valid>>
    BY <1>10 DEF Refresh
  <2>2. \A m \in Node \ {n} : Pushes(m)' => Pushes(m)
    BY <1>10, <2>1, RefreshFacts DEF Pushes
  <2>3. Pushes(n)' => Pushes(n) \/ n \in valid
    BY <1>10, <2>1, RefreshFacts DEF Pushes, HoldersAreTrue, RecordsAreTrue
  <2> QED BY <2>1, <2>2, <2>3, BackedBy
<1>11. CASE PeerRemoved(n)
  <2>1. UNCHANGED <<slots, push, valid>>
    BY <1>11 DEF PeerRemoved
  <2>2. \A m \in Node \ {n} : Pushes(m)' => Pushes(m)
    BY <1>11, <2>1, RemovedFacts DEF Pushes
  <2>3. Pushes(n)' => Pushes(n) \/ n \in valid
    BY <1>11, <2>1, RemovedFacts DEF Pushes, HoldersAreTrue
  <2> QED BY <2>1, <2>2, <2>3, BackedBy
<1>12. CASE Crash(n)
  <2>1. /\ valid' = valid
        /\ \A m \in Node : /\ slots'[m] \subseteq slots[m] /\ todo'[m] \subseteq todo[m]
                           /\ push'[m] \in {push[m], Idle}
    BY <1>12 DEF Crash, TypeOK
  <2>2. \A m \in Node : Pushes(m)' => Pushes(m)
    BY <2>1 DEF Pushes, Idle
  <2> QED BY <2>1, <2>2, BackedBy
<1>13. CASE Stop(n) \/ Withdraw(n)
  <2>1. /\ valid' = valid /\ push' = push
        /\ \A m \in Node : slots'[m] \subseteq slots[m] /\ todo'[m] \subseteq todo[m]
    <3>1. slots \in [Node -> SUBSET Node] /\ todo \in [Node -> SUBSET Calls]
      BY DEF TypeOK
    <3>2. /\ valid' = valid /\ push' = push
          /\ \/ slots' = [slots EXCEPT ![n] = {}] /\ todo' = todo
             \/ slots' = slots /\ todo' = [todo EXCEPT ![n] = {}]
      BY <1>13 DEF Stop, Withdraw
    <3> QED BY ONLY <3>1, <3>2
  <2>2. \A m \in Node : Pushes(m)' => Pushes(m)
    BY <2>1 DEF Pushes
  <2> QED BY <2>1, <2>2, BackedBy
<1> QED BY <1>1, <1>2, <1>3, <1>4, <1>5, <1>6, <1>8, <1>9, <1>10, <1>11, <1>12, <1>13
        DEF Sender, Fetch, Observe, End

-------------------------------------------------------------------------------
\* Accepted offers and cancellations are served.

ReceiversServe == TargetingIsServed /\ CancelIsServed

LEMMA ServeInit == Init => ReceiversServe
BY DEF Init, ReceiversServe, TargetingIsServed, CancelIsServed

\* A thread that ends takes its target and its cancellation along.
LEMMA FinishServes ==
  ASSUME TypeOK, ReceiversServe, NEW n \in Node, NEW s \in Fetching(n), Finish(n, s), status' = status
  PROVE  ReceiversServe'
<1>1. /\ targeting'[n] = IF targeting[n] = s THEN NoNode ELSE targeting[n]
      /\ cancelled'[n] = cancelled[n] \ {s} /\ Fetching(n) \ {s} \subseteq Fetching(n)'
      /\ \A m \in Node \ {n} : /\ targeting'[m] = targeting[m] /\ cancelled'[m] = cancelled[m]
                               /\ Fetching(m)' = Fetching(m)
  BY ThreadFacts DEF Finish, ThreadEnds, TypeOK
<1> QED BY <1>1 DEF ReceiversServe, TargetingIsServed, CancelIsServed

LEMMA ServeStep ==
  ASSUME TypeOK, ReceiversServe, NEW n \in Node,
         Sender(n) \/ Offer(n) \/ Fetch(n) \/ Observe(n) \/ End(n)
  PROVE  ReceiversServe'
<1>1. CASE OnPathHave(n)
  <2>1. UNCHANGED <<status, fetches>>
    BY <1>1, Frames DEF Sender
  <2>2. CASE UNCHANGED <<targeting, cancelled>>
    BY <2>1, <2>2 DEF Fetching, ReceiversServe, TargetingIsServed, CancelIsServed
  <2>3. CASE \E R \in SUBSET Node : CancelAt(n, R)
    <3>1. \A t \in Node :
            \/ /\ targeting[t] = n /\ targeting'[t] = NoNode
               /\ cancelled'[t] = cancelled[t] \cup {n}
            \/ targeting'[t] = targeting[t] /\ cancelled'[t] = cancelled[t]
      BY <2>3, CancelFacts
    <3>2. TargetingIsServed'
      BY <2>1, <3>1 DEF Fetching, ReceiversServe, TargetingIsServed
    <3>3. CancelIsServed'
      BY <2>1, <3>1, NodeAssumption DEF Fetching, ReceiversServe, TargetingIsServed, CancelIsServed
    <3> QED BY <3>2, <3>3 DEF ReceiversServe
  <2> QED BY <1>1, <2>2, <2>3, HaveFacts
<1>2. CASE PushAttempt(n) \/ OnReject(n) \/ OnTimeout(n) \/ TimerFires(n)
  <2>1. UNCHANGED <<status, targeting, cancelled, fetches>>
    BY <1>2 DEF PushAttempt, OnReject, OnTimeout, TimerFires, clusterVars, receiverVars
  <2> QED BY <2>1 DEF Fetching, ReceiversServe, TargetingIsServed, CancelIsServed
<1>3. CASE Offer(n)
  <2>1. PICK t \in Node : UNCHANGED <<targeting, fetches>> \/ Accept(t, n)
    BY <1>3, OfferFacts
  <2>2. UNCHANGED <<status, cancelled>>
    BY <1>3, Frames
  <2>3. CASE UNCHANGED <<targeting, fetches>>
    BY <2>2, <2>3 DEF Fetching, ReceiversServe, TargetingIsServed, CancelIsServed
  <2>4. CASE Accept(t, n)
    <3>1. /\ targeting'[t] = n /\ n \in Fetching(t)' /\ Fetching(t) \subseteq Fetching(t)'
          /\ \A m \in Node \ {t} : targeting'[m] = targeting[m] /\ Fetching(m)' = Fetching(m)
      BY <2>4, AcceptFacts
    <3> QED BY <2>2, <3>1 DEF ReceiversServe, TargetingIsServed, CancelIsServed
  <2> QED BY <2>1, <2>3, <2>4
<1>4. CASE FetchUnpinned(n)
  <2>1. PICK s \in Fetching(n) :
          /\ s \notin Listed
          /\ targeting' = [targeting EXCEPT ![n] = IF @ = s THEN NoNode ELSE @]
          /\ ThreadEnds(n, s)
    BY <1>4 DEF FetchUnpinned, ThreadEnds
  <2>2. /\ targeting'[n] = IF targeting[n] = s THEN NoNode ELSE targeting[n]
        /\ Fetching(n) \ {s} \subseteq Fetching(n)'
        /\ \A m \in Node \ {n} : targeting'[m] = targeting[m] /\ Fetching(m)' = Fetching(m)
    BY <2>1, ThreadFacts DEF TypeOK
  <2>3. status[s] = "gone"
    BY <2>1 DEF Listed, Fetching
  <2>4. UNCHANGED <<status, cancelled>>
    BY <1>4 DEF FetchUnpinned, clusterVars
  <2> QED BY <2>2, <2>3, <2>4 DEF ReceiversServe, TargetingIsServed, CancelIsServed
<1>5. CASE FetchSucceeds(n) \/ FetchNothing(n)
  <2>1. \E s \in Fetching(n) : Finish(n, s)
    BY <1>5 DEF FetchSucceeds, FetchNothing
  <2>2. status' = status
    BY <1>5, Frames DEF Fetch
  <2> QED BY <2>1, <2>2, FinishServes
<1>6. CASE RecordFetch(n) \/ Observe(n)
  <2>1. UNCHANGED <<status, targeting, cancelled, fetches>>
    BY <1>6, Frames DEF RecordFetch, Fetch
  <2> QED BY <2>1 DEF Fetching, ReceiversServe, TargetingIsServed, CancelIsServed
<1>7. CASE Crash(n)
  <2>1. /\ targeting'[n] = NoNode /\ cancelled'[n] = {}
        /\ \A m \in Node \ {n} : /\ targeting'[m] = targeting[m] /\ cancelled'[m] = cancelled[m]
                                 /\ Fetching(m)' = Fetching(m)
        /\ \A m \in Node : status[m] = "gone" => status'[m] = "gone"
    BY <1>7 DEF Crash, Serving, TypeOK, Fetching
  <2>2. ASSUME NEW m \in Node, targeting'[m] # NoNode
        PROVE  targeting'[m] \in Fetching(m)'
    BY <2>1, <2>2 DEF ReceiversServe, TargetingIsServed
  <2>3. ASSUME NEW m \in Node, NEW s \in cancelled'[m]
        PROVE  s \in Fetching(m)' \/ status'[s] = "gone"
    <3>1. m # n /\ s \in cancelled[m] /\ s \in Node
      BY <2>1, <2>3 DEF TypeOK
    <3> QED BY <2>1, <3>1 DEF ReceiversServe, CancelIsServed
  <2> QED BY <2>2, <2>3 DEF ReceiversServe, TargetingIsServed, CancelIsServed
<1>8. CASE Stop(n)
  <2>1. /\ targeting'[n] = NoNode /\ cancelled'[n] = {} /\ fetches' = fetches
        /\ \A m \in Node \ {n} : targeting'[m] = targeting[m] /\ cancelled'[m] = cancelled[m]
        /\ \A m \in Node : status[m] = "gone" => status'[m] = "gone"
    BY <1>8 DEF Stop, TypeOK
  <2> QED BY <2>1 DEF Fetching, ReceiversServe, TargetingIsServed, CancelIsServed, TypeOK
<1>9. CASE Withdraw(n)
  <2>1. /\ UNCHANGED <<targeting, cancelled, fetches>>
        /\ \A m \in Node : status[m] = "gone" => status'[m] = "gone"
    BY <1>9 DEF Withdraw, receiverVars, TypeOK
  <2> QED BY <2>1 DEF Fetching, ReceiversServe, TargetingIsServed, CancelIsServed, TypeOK
<1> QED BY <1>1, <1>2, <1>3, <1>4, <1>5, <1>6, <1>7, <1>8, <1>9 DEF Sender, Fetch, End

-------------------------------------------------------------------------------
\* Pushes only discount nodes reported dead.

ExclusionsAreDeaths ==
  \A n \in Node : \A call \in todo[n] : call.op = "push" => call.excl \subseteq told[n]

LEMMA ExclusionsInit == Init => ExclusionsAreDeaths
BY DEF Init, ExclusionsAreDeaths

\* New calls are judged on their own when no death is forgotten.
LEMMA ExclusionsBy ==
  ASSUME ExclusionsAreDeaths,
         \A m \in Node : told[m] \subseteq told'[m],
         \A m \in Node : \A c \in todo'[m] \ todo[m] : c.op = "push" => c.excl \subseteq told'[m]
  PROVE  ExclusionsAreDeaths'
BY DEF ExclusionsAreDeaths

LEMMA ExclusionsStep ==
  ASSUME TypeOK, ExclusionsAreDeaths, NEW n \in Node,
         Sender(n) \/ Offer(n) \/ Fetch(n) \/ Observe(n) \/ End(n)
  PROVE  ExclusionsAreDeaths'
<1>0. /\ \A by, excl : PushCall(by, excl).op = "push" /\ PushCall(by, excl).excl = excl
      /\ \A m : RejectCall(m).op = "reject" /\ TimeoutCall(m).op = "timeout" /\ HaveCall(m).op = "have"
  BY DEF PushCall, RejectCall, TimeoutCall, HaveCall
<1>1. CASE PushAttempt(n) \/ OnReject(n) \/ OnTimeout(n) \/ OnPathHave(n)
  <2>1. \A m \in Node : todo'[m] \subseteq todo[m]
    BY <1>1, PushFacts, SettleFacts, HaveFacts
  <2>2. told' = told
    BY <1>1, Frames DEF Sender
  <2> QED BY <2>1, <2>2, ExclusionsBy
<1>2. CASE TimerFires(n)
  <2>1. \E t : todo' = [todo EXCEPT ![n] = @ \cup {TimeoutCall(t)}]
    BY <1>2, TimerFacts
  <2>2. \A m \in Node : \A c \in todo'[m] \ todo[m] : c.op # "push"
    BY <1>0, <2>1 DEF TypeOK
  <2> QED BY <1>2, <2>2, Frames, ExclusionsBy DEF Sender
<1>3. CASE Offer(n)
  <2>1. \A m \in Node : \A c \in todo'[m] \ todo[m] : c.op # "push"
    <3>1. CASE OfferRejected(n)
      <4>1. PICK t : todo' = [todo EXCEPT ![n] = @ \cup {RejectCall(t)}]
        BY <3>1 DEF OfferRejected
      <4> QED BY <1>0, <4>1 DEF TypeOK
    <3>2. CASE ~OfferRejected(n)
      <4>1. todo' = todo
        BY <1>3, <3>2 DEF Offer, OfferFails, OfferUnanswered, OfferAccepted, OfferLate
      <4> QED BY <4>1
    <3> QED BY <3>1, <3>2
  <2> QED BY <1>3, <2>1, Frames, ExclusionsBy
<1>4. CASE FetchUnpinned(n) \/ FetchSucceeds(n) \/ FetchNothing(n)
  <2>1. UNCHANGED <<told, todo>>
    BY <1>4 DEF FetchUnpinned, FetchSucceeds, FetchNothing, clusterVars, senderVars
  <2> QED BY <2>1, ExclusionsBy
<1>5. CASE RecordFetch(n)
  <2>1. {PushCall("fetch", {})} \in SUBSET Calls
    BY CallFacts DEF PushBy
  <2>2. \A m \in Node : todo'[m] \subseteq todo[m] \cup {PushCall("fetch", {})} \cup {HaveCall(n)}
    BY <1>5, <2>1, AnnounceFacts DEF RecordFetch
  <2> QED BY <1>0, <1>5, <2>2, Frames, ExclusionsBy DEF Fetch
<1>6. CASE Build(n)
  <2>1. \A m \in Node : todo'[m] \subseteq todo[m] \cup {HaveCall(n)}
    BY <1>6, AnnounceFacts DEF Build
  <2> QED BY <1>0, <1>6, <2>1, ExclusionsBy DEF Build
<1>7. CASE Refresh(n)
  <2>1. \A m \in Node : todo'[m] \subseteq
          todo[m] \cup {PushCall("repair", {})} \cup {PushCall("cascade", {})}
    BY <1>7 DEF Refresh, TypeOK
  <2> QED BY <1>0, <1>7, <2>1, ExclusionsBy DEF Refresh
<1>8. CASE PeerRemoved(n)
  <2>1. \A m \in Node : told[m] \subseteq told'[m]
    BY <1>8, RemovedFacts
  <2>2. ASSUME NEW m \in Node, NEW c \in todo'[m] \ todo[m]
        PROVE  c.excl \subseteq told'[m]
    <3>1. m = n
      BY <1>8, <2>2, RemovedFacts
    <3>2. PICK d \in told'[n] : c = PushCall("listener", {d})
      BY <1>8, <2>2, <3>1, RemovedFacts
    <3>3. c.excl = {d}
      BY <1>0, <3>2
    <3> QED BY <3>1, <3>2, <3>3
  <2> QED BY <2>1, <2>2, ExclusionsBy
<1>9. CASE Crash(n)
  <2>1. /\ todo'[n] = {}
        /\ \A m \in Node \ {n} : todo'[m] = todo[m] /\ told'[m] = told[m]
    BY <1>9 DEF Crash, TypeOK
  <2> QED BY <2>1 DEF ExclusionsAreDeaths
<1>10. CASE Stop(n) \/ Withdraw(n)
  <2>1. told' = told /\ \A m \in Node : todo'[m] \subseteq todo[m]
    <3>1. todo \in [Node -> SUBSET Calls]
      BY DEF TypeOK
    <3>2. told' = told /\ todo' \in {todo, [todo EXCEPT ![n] = {}]}
      BY <1>10 DEF Stop, Withdraw
    <3> QED BY ONLY <3>1, <3>2
  <2> QED BY <2>1, ExclusionsBy
<1> QED BY <1>1, <1>2, <1>3, <1>4, <1>5, <1>6, <1>7, <1>8, <1>9, <1>10
        DEF Sender, Fetch, Observe, End

-------------------------------------------------------------------------------
\* New offers fill the gap, and no more.

LEMMA UnionBound ==
  ASSUME NEW A, NEW B, IsFiniteSet(A), IsFiniteSet(B)
  PROVE  /\ IsFiniteSet(A \cup B) /\ Cardinality(A \cup B) \in Nat
         /\ Cardinality(A \cup B) <= Cardinality(A) + Cardinality(B)
<1>1. A \cap B \in SUBSET A
  OBVIOUS
<1>2. IsFiniteSet(A \cap B)
  BY <1>1, FS_Subset
<1>3. /\ IsFiniteSet(A \cup B)
      /\ Cardinality(A \cup B) = Cardinality(A) + Cardinality(B) - Cardinality(A \cap B)
  BY FS_Union
<1>4. /\ Cardinality(A) \in Nat /\ Cardinality(B) \in Nat
      /\ Cardinality(A \cap B) \in Nat /\ Cardinality(A \cup B) \in Nat
  BY <1>2, <1>3, FS_CardinalityType
<1> QED BY <1>3, <1>4

\* The targets of a push attempt, with the offers it keeps and the holders it knows
\* of, are K at most.
LEMMA TargetsFill ==
  ASSUME TypeOK, NEW n \in Node, NEW kept \in SUBSET Node, NEW excl, excl \subseteq told[n],
         NEW S \in Targets(n, kept, excl), S # {}
  PROVE  Cardinality((snap[n] \ told[n]) \cup (kept \cup S)) <= K
<1> DEFINE holders == snap[n] \ excl
           live == snap[n] \ told[n]
           needed == K - Cardinality(holders) - Cardinality(kept)
<1>1. IsFiniteSet(Node) /\ K \in Nat
  BY NodeAssumption, KAssumption
<1>2. holders \in SUBSET Node /\ live \in SUBSET holders /\ S \in SUBSET Node
  BY TargetFacts DEF TypeOK
<1>3. IsFiniteSet(holders) /\ IsFiniteSet(kept) /\ IsFiniteSet(S) /\ IsFiniteSet(live)
  BY <1>1, <1>2, FS_Subset
<1>4. /\ Cardinality(holders) \in Nat /\ Cardinality(kept) \in Nat /\ Cardinality(S) \in Nat
      /\ Cardinality(live) \in Nat
  BY <1>3, FS_CardinalityType
<1>5. Cardinality(S) <= needed
  <2>1. ~(status[n] # "up" \/ needed <= 0)
    BY DEF Targets
  <2>2. Cardinality(S) = needed \/ Cardinality(S) < needed
    BY <2>1 DEF Targets, Sample
  <2> QED BY <1>1, <1>4, <2>2
<1>6. Cardinality(live) <= Cardinality(holders)
  BY <1>2, <1>3, FS_Subset
<1>7. /\ IsFiniteSet(kept \cup S) /\ Cardinality(kept \cup S) \in Nat
      /\ Cardinality(kept \cup S) <= Cardinality(kept) + Cardinality(S)
  BY <1>3, UnionBound
<1>8. /\ Cardinality(live \cup (kept \cup S)) \in Nat
      /\ Cardinality(live \cup (kept \cup S)) <= Cardinality(live) + Cardinality(kept \cup S)
  BY <1>3, <1>7, UnionBound
<1> QED BY <1>1, <1>4, <1>5, <1>6, <1>7, <1>8

\* n makes no new offer, or none beyond K.
Fills(n) ==
  \/ Outstanding(n)' \subseteq Outstanding(n)
  \/ Cardinality((snap[n] \ told[n]) \cup Outstanding(n)') <= K

LEMMA RetryFills ==
  ASSUME TypeOK, NEW n \in Node, NEW t \in Node, Retry(n, t)
  PROVE  Fills(n)
<1>1. PICK S \in Targets(n, slots[n] \ {t}, {}) :
        push' = [push EXCEPT ![n] = Loop("retry", S)]
  BY DEF Retry
<1>2. slots'[n] = slots[n] \ {t} /\ slots[n] \ {t} \in SUBSET Node
  BY DEF Retry, TypeOK
<1>3. push'[n].left = S
  <2>1. S \in SUBSET Node
    BY TargetFacts
  <2>2. Loop("retry", S).left = S
    BY <2>1, LoopFacts
  <2> QED BY <1>1, <2>2 DEF TypeOK
<1>4. Outstanding(n)' = (slots[n] \ {t}) \cup S
  BY <1>2, <1>3 DEF Outstanding
<1>5. CASE S = {}
  BY <1>4, <1>5 DEF Fills, Outstanding
<1>6. CASE S # {}
  BY <1>2, <1>4, <1>6, TargetsFill DEF Fills
<1> QED BY <1>5, <1>6

LEMMA FillStep ==
  ASSUME TypeOK, ExclusionsAreDeaths, NEW n \in Node,
         Sender(n) \/ Offer(n) \/ Fetch(n) \/ Observe(n) \/ End(n)
  PROVE  \A m \in Node : Fills(m)
<1>1. CASE PushAttempt(n)
  <2>1. PICK call \in todo[n] :
          /\ call.op = "push"
          /\ \E S \in Targets(n, slots[n], call.excl) :
               push' = [push EXCEPT ![n] = Loop(call.by, S)]
    BY <1>1 DEF PushAttempt
  <2>2. PICK S \in Targets(n, slots[n], call.excl) :
          push' = [push EXCEPT ![n] = Loop(call.by, S)]
    BY <2>1
  <2>3. call.excl \subseteq told[n]
    BY <2>1 DEF ExclusionsAreDeaths
  <2>4. push'[n].left = S /\ slots' = slots /\ slots[n] \in SUBSET Node
    BY <1>1, <2>2 DEF PushAttempt, Loop, Idle, TypeOK
  <2>5. Outstanding(n)' = slots[n] \cup S
    BY <2>4 DEF Outstanding
  <2>6. Fills(n)
    <3>1. CASE S = {}
      BY <2>5, <3>1 DEF Fills, Outstanding
    <3>2. CASE S # {}
      BY <2>3, <2>4, <2>5, <3>2, TargetsFill DEF Fills
    <3> QED BY <3>1, <3>2
  <2>7. \A m \in Node \ {n} : Outstanding(m)' = Outstanding(m)
    BY <1>1, <2>4, PushFacts DEF Outstanding
  <2> QED BY <2>6, <2>7 DEF Fills
<1>2. CASE OnReject(n) \/ OnTimeout(n)
  <2>1. Fills(n)
    <3>1. CASE \E t \in Node : Retry(n, t)
      BY <3>1, RetryFills
    <3>2. CASE UNCHANGED <<slots, push>>
      BY <3>2 DEF Fills, Outstanding
    <3>3. \A c \in todo[n] : (c.op = "reject" => c.from \in Node) /\ (c.op = "timeout" => c.target \in Node)
      BY CallFacts DEF TypeOK
    <3> QED BY <1>2, <3>1, <3>2, <3>3 DEF OnReject, OnTimeout
  <2>2. \A m \in Node \ {n} : Outstanding(m)' = Outstanding(m)
    BY <1>2, SettleFacts DEF Outstanding
  <2> QED BY <2>1, <2>2 DEF Fills
<1>3. CASE OnPathHave(n)
  <2>1. \A m \in Node : slots'[m] \subseteq slots[m]
    BY <1>3, HaveFacts
  <2>2. push' = push
    BY <1>3 DEF OnPathHave
  <2> QED BY <2>1, <2>2 DEF Fills, Outstanding
<1>4. CASE TimerFires(n) \/ Fetch(n) \/ Observe(n) \/ Withdraw(n)
  <2>1. UNCHANGED <<slots, push>>
    BY <1>4, Frames DEF TimerFires, Withdraw
  <2> QED BY <2>1 DEF Fills, Outstanding
<1>5. CASE Offer(n)
  <2>1. PICK t \in push[n].left :
          /\ push'[n].left = push[n].left \ {t}
          /\ slots'[n] = slots[n] \/ slots'[n] = slots[n] \cup {t}
          /\ \A m \in Node \ {n} : push'[m] = push[m] /\ slots'[m] = slots[m]
    BY <1>5, OfferFacts
  <2>2. \A m \in Node : Outstanding(m)' \subseteq Outstanding(m)
    BY <2>1 DEF Outstanding
  <2> QED BY <2>2 DEF Fills
<1>6. CASE Crash(n)
  <2>1. \A m \in Node : slots'[m] \subseteq slots[m] /\ push'[m] \in {push[m], Idle}
    BY <1>6 DEF Crash, TypeOK
  <2>2. \A m \in Node : Outstanding(m)' \subseteq Outstanding(m)
    BY <2>1 DEF Outstanding, Idle
  <2> QED BY <2>2 DEF Fills
<1>7. CASE Stop(n)
  <2>1. \A m \in Node : slots'[m] \subseteq slots[m] /\ push'[m] = push[m]
    BY <1>7 DEF Stop, TypeOK
  <2> QED BY <2>1 DEF Fills, Outstanding
<1> QED BY <1>1, <1>2, <1>3, <1>4, <1>5, <1>6, <1>7 DEF Sender, End

-------------------------------------------------------------------------------
\* The theorems.

IInv ==
  /\ TypeOK
  /\ HoldersAreTrue
  /\ TimersAreLive
  /\ OffersAreBacked
  /\ ReceiversServe
  /\ ExclusionsAreDeaths

LEMMA IInvInit == Init => IInv
BY InitType, HoldersInit, TimersInit, BackedInit, ServeInit, ExclusionsInit DEF IInv

LEMMA IInvStep == IInv /\ [Next]_vars => IInv'
<1> SUFFICES ASSUME IInv, [Next]_vars PROVE IInv'
  OBVIOUS
<1>1. CASE Next
  <2>1. PICK n \in Node : Sender(n) \/ Offer(n) \/ Fetch(n) \/ Observe(n) \/ End(n)
    BY <1>1 DEF Next
  <2> QED BY <2>1, NextType, HoldersStep, TimersStep, BackedStep, ServeStep, ExclusionsStep DEF IInv
<1>2. CASE UNCHANGED vars
  BY <1>2 DEF vars, clusterVars, senderVars, receiverVars, IInv, TypeOK, HoldersAreTrue, RecordsAreTrue,
              TimersAreLive, SlotsAreTimed, OffersAreBacked, ReceiversServe, TargetingIsServed, Fetching,
              CancelIsServed, ExclusionsAreDeaths, TimeoutCall
<1> QED BY <1>1, <1>2

LEMMA Invariance == Spec => []IInv
BY IInvInit, IInvStep, PTL DEF Spec

\* A node with a placement record has the path: a cancelled, failed or unpinned
\* fetch of _do_fetch never leads to a record, nor does a snapshot outlive the truth.
THEOREM TrueRecords == Spec => []RecordsAreTrue
<1>1. IInv => RecordsAreTrue
  BY DEF IInv, HoldersAreTrue
<1> QED BY <1>1, Invariance, PTL

\* Whatever asks for a push, a retry, the diff of the watcher, the listener or the
\* receiver's own cascade, only a node that has the path offers it.
THEOREM BackedOffers == Spec => []OffersAreBacked
<1>1. IInv => OffersAreBacked
  BY DEF IInv
<1> QED BY <1>1, Invariance, PTL

\* No order of timers, answers, path-haves and stops leaves an in-flight slot without
\* a timer or a waiting on_timeout.
THEOREM TimedSlots == Spec => []SlotsAreTimed
<1>1. IInv => SlotsAreTimed
  BY DEF IInv, TimersAreLive
<1> QED BY <1>1, Invariance, PTL

\* A receiver that rejects offers as already-targeted is fetching from the sender it
\* accepted.
THEOREM ServedTargets == Spec => []TargetingIsServed
<1>1. IInv => TargetingIsServed
  BY DEF IInv, ReceiversServe
<1> QED BY <1>1, Invariance, PTL

\* A cancellation on_cancel noted meets the fetch it is meant for.
THEOREM ServedCancels == Spec => []CancelIsServed
<1>1. IInv => CancelIsServed
  BY DEF IInv, ReceiversServe
<1> QED BY <1>1, Invariance, PTL

\* No call of _push_attempt_locked offers to more nodes than are missing to K.
THEOREM FilledGap == Spec => OffersFillTheGap
<1>1. IInv /\ [Next]_vars => [\A n \in Node : Fills(n)]_vars
  BY FillStep DEF IInv, Next
<1>2. [\A n \in Node : Fills(n)]_vars =>
        [\A n \in Node :
           \/ Outstanding(n)' \subseteq Outstanding(n)
           \/ Cardinality((snap[n] \ told[n]) \cup Outstanding(n)') <= K]_vars
  BY DEF Fills
<1> QED BY <1>1, <1>2, Invariance, PTL DEF Spec, OffersFillTheGap

-------------------------------------------------------------------------------
\* Rest means replicated.
\*
\* Until a POST, a fetch or a node fails, some holder answers for the path: it waits
\* for no holder, and its snapshot is behind, or it is about to push, or the holders
\* with the nodes it waits for are K, or all there are.

Asks(n) == \E call \in todo[n] : call.op \in {"push", "reject"}

Have(n) == records \cup slots[n] \cup push[n].left
Enough(n, have) == Cardinality(have) >= K \/ Node \subseteq {n} \cup have

Responsible(n) ==
  /\ slots[n] \cap records = {}
  /\ n \notin snap[n] \/ Asks(n) \/ Enough(n, Have(n))

AllUp == \A n \in Node : status[n] = "up"
SnapsFollow == \A n \in Node : snap[n] \subseteq records
CallsAreTrue ==
  \A n \in Node : \A call \in todo[n] : /\ call.op = "have" => call.holder \in records
                                        /\ call.op = "push" => call.excl = {}
OnlyHoldersAct == \A n \in Node \ records : slots[n] = {} /\ push[n].left = {} /\ ~Asks(n)
SomeoneResponsible == records # {} => \E z \in records : Responsible(z)

Healthy == AllUp /\ SnapsFollow /\ CallsAreTrue /\ OnlyHoldersAct /\ SomeoneResponsible
RestInv == faults.timersOnly => Healthy

LEMMA CallOps ==
  /\ \A by, excl : PushCall(by, excl).op = "push" /\ PushCall(by, excl).excl = excl
  /\ \A m : /\ RejectCall(m).op = "reject" /\ TimeoutCall(m).op = "timeout"
            /\ HaveCall(m).op = "have" /\ HaveCall(m).holder = m
BY DEF PushCall, RejectCall, TimeoutCall, HaveCall

LEMMA RestInit == Init => RestInv
<1> SUFFICES ASSUME Init PROVE Healthy
  BY DEF RestInv
<1>1. \A n \in Node : push[n].left = {}
  BY DEF Init, Idle
<1> QED BY <1>1 DEF Init, Healthy, AllUp, SnapsFollow, CallsAreTrue, OnlyHoldersAct, Asks,
                    SomeoneResponsible

LEMMA RecordTimer ==
  ASSUME NEW f, Record(f), faults'.timersOnly
  PROVE  faults.timersOnly /\ f = "timer"
<1>1. faults'.timersOnly = (faults.timersOnly /\ f = "timer")
  BY DEF Record
<1> QED BY <1>1, Zenon

\* A fault other than a timer is never forgotten.
LEMMA FaultsLast ==
  ASSUME TypeOK, NEW n \in Node, Sender(n) \/ Offer(n) \/ Fetch(n) \/ Observe(n) \/ End(n),
         faults'.timersOnly
  PROVE  faults.timersOnly
<1>1. \A f : Record(f) => faults.timersOnly
  BY RecordTimer
<1>2. \A missed : Missed(missed) => faults' = faults \/ Record("lost")
  BY DEF Missed
<1>3. faults' = faults \/ \E f : Record(f)
  <2>1. CASE Sender(n)
    BY <2>1, <1>2 DEF Sender, PushAttempt, OnReject, OnTimeout, OnPathHave, TimerFires
  <2>2. CASE Offer(n)
    BY <2>2 DEF Offer, OfferFails, OfferRejected, OfferUnanswered, OfferAccepted, OfferLate
  <2>3. CASE Fetch(n)
    BY <2>3, <1>2 DEF Fetch, FetchUnpinned, FetchSucceeds, RecordFetch, FetchNothing
  <2>4. CASE Observe(n)
    BY <2>4, <1>2 DEF Observe, Build, Refresh, PeerRemoved
  <2>5. CASE End(n)
    BY <2>5 DEF End, Crash, Stop, Withdraw
  <2> QED BY <2>1, <2>2, <2>3, <2>4, <2>5
<1> QED BY <1>1, <1>3

\* The fetches that record nothing change nothing here.
QuietFetch(n) == FetchUnpinned(n) \/ FetchSucceeds(n) \/ FetchNothing(n)

\* What can happen while nothing but timers has gone wrong.
LEMMA HealthySteps ==
  ASSUME TypeOK, AllUp, NEW n \in Node,
         Sender(n) \/ Offer(n) \/ Fetch(n) \/ Observe(n) \/ End(n), faults'.timersOnly
  PROVE  \/ PushAttempt(n) \/ OnReject(n) \/ OnTimeout(n) \/ OnPathHave(n) \/ TimerFires(n)
         \/ OfferRejected(n) \/ OfferAccepted(n) \/ QuietFetch(n) \/ RecordFetch(n) \/ Build(n)
         \/ Refresh(n)
<1>1. \A f : Record(f) => f = "timer"
  BY RecordTimer
<1>2. ~OfferFails(n)
  <2>1. ASSUME NEW t \in push[n].left PROVE status[t] = "up"
    BY DEF TypeOK, AllUp
  <2> QED BY <1>1, <2>1 DEF OfferFails
<1>3. ~OfferUnanswered(n) /\ ~OfferLate(n) /\ ~Crash(n) /\ ~Stop(n)
  BY <1>1 DEF OfferUnanswered, OfferLate, Crash, Stop
<1>4. ~PeerRemoved(n) /\ ~Withdraw(n)
  BY DEF AllUp, PeerRemoved, Withdraw
<1> QED BY <1>2, <1>3, <1>4 DEF Sender, Offer, Fetch, Observe, End, QuietFetch

LEMMA NoneMissed ==
  ASSUME NEW missed, Missed(missed), faults'.timersOnly
  PROVE  missed = {} /\ faults' = faults
<1>1. Record("lost") => "lost" = "timer"
  BY RecordTimer
<1> QED BY <1>1 DEF Missed

\* The more of them, the more are enough.
LEMMA EnoughGrows ==
  ASSUME NEW n \in Node, NEW A \in SUBSET Node, NEW B \in SUBSET A, Enough(n, B)
  PROVE  Enough(n, A)
<1>1. IsFiniteSet(A)
  BY NodeAssumption, FS_Subset
<1>2. IsFiniteSet(B) /\ Cardinality(B) <= Cardinality(A)
  BY <1>1, FS_Subset
<1>3. Cardinality(A) \in Nat /\ Cardinality(B) \in Nat /\ K \in Nat
  BY <1>1, <1>2, FS_CardinalityType, KAssumption
<1>4. CASE Cardinality(B) >= K
  BY <1>2, <1>3, <1>4 DEF Enough
<1>5. CASE Node \subseteq {n} \cup B
  BY <1>5 DEF Enough
<1> QED BY <1>4, <1>5 DEF Enough

LEMMA DisjointUnion ==
  ASSUME NEW A \in SUBSET Node, NEW B \in SUBSET Node, A \cap B = {}
  PROVE  Cardinality(A \cup B) = Cardinality(A) + Cardinality(B)
<1>1. IsFiniteSet(A) /\ IsFiniteSet(B)
  BY NodeAssumption, FS_Subset
<1>2. Cardinality(A) \in Nat /\ Cardinality(B) \in Nat /\ Cardinality(A \cap B) = 0
  BY <1>1, FS_CardinalityType, FS_EmptySet
<1>3. Cardinality(A \cup B) = Cardinality(A) + Cardinality(B) - Cardinality(A \cap B)
  BY <1>1, FS_Union
<1> QED BY <1>2, <1>3

\* A push attempt of a node that waits for no holder reaches enough nodes.
LEMMA TargetsCover ==
  ASSUME TypeOK, AllUp, NEW n \in Node, NEW kept \in SUBSET Node, kept \cap snap[n] = {},
         NEW S \in Targets(n, kept, {})
  PROVE  Enough(n, snap[n] \cup kept \cup S)
<1> DEFINE needed == K - Cardinality(snap[n]) - Cardinality(kept)
           tabu == {n} \cup snap[n] \cup kept
<1>1. snap[n] \in SUBSET Node /\ snap[n] \ {} = snap[n] /\ S \in SUBSET Node
  BY TargetFacts DEF TypeOK
<1>2. IsFiniteSet(snap[n]) /\ IsFiniteSet(kept) /\ IsFiniteSet(S)
  BY <1>1, NodeAssumption, FS_Subset
<1>3. /\ Cardinality(snap[n]) \in Nat /\ Cardinality(kept) \in Nat /\ Cardinality(S) \in Nat
      /\ K \in Nat
  BY <1>2, FS_CardinalityType, KAssumption
<1>4. Cardinality(snap[n] \cup kept) = Cardinality(snap[n]) + Cardinality(kept)
  BY <1>1, DisjointUnion
<1>5. snap[n] \cup kept \cup S \in SUBSET Node /\ snap[n] \cup kept \in SUBSET (snap[n] \cup kept \cup S)
  BY <1>1
<1>6. CASE needed <= 0
  <2>1. Cardinality(snap[n] \cup kept) >= K
    BY <1>3, <1>4, <1>6
  <2>2. Enough(n, snap[n] \cup kept)
    BY <2>1 DEF Enough
  <2> QED BY <1>5, <2>2, EnoughGrows
<1>7. CASE ~(needed <= 0)
  <2>1. PeerLists = {Node}
    BY DEF PeerLists, Listed, AllUp
  <2>2. S \in Sample(needed, tabu)
    <3>1. status[n] = "up"
      BY DEF AllUp
    <3>2. tabu \cup {} = tabu
      OBVIOUS
    <3> QED BY <1>1, <1>7, <3>1, <3>2 DEF Targets
  <2> HIDE DEF needed, tabu
  <2>3. /\ S \subseteq Node \ tabu
        /\ Cardinality(S) = needed \/ S = Node \ tabu
    BY <2>1, <2>2 DEF Sample
  <2> USE DEF needed, tabu
  <2>4. CASE Cardinality(S) = needed
    <3>1. (snap[n] \cup kept) \cap S = {} /\ snap[n] \cup kept \in SUBSET Node
      BY <1>1, <2>3
    <3>2. Cardinality((snap[n] \cup kept) \cup S) = Cardinality(snap[n] \cup kept) + Cardinality(S)
      BY <1>1, <3>1, DisjointUnion
    <3>3. Cardinality((snap[n] \cup kept) \cup S) = K
      BY <1>3, <1>4, <2>4, <3>2
    <3> QED BY <1>3, <3>3 DEF Enough
  <2>5. CASE S = Node \ tabu
    BY <2>5 DEF Enough
  <2> QED BY <2>3, <2>4, <2>5
<1> QED BY <1>6, <1>7

\* A retry or a push attempt of a holder that waits for no holder makes it responsible.
LEMMA PushCovers ==
  ASSUME TypeOK, Healthy, NEW n \in Node, NEW kept \in SUBSET Node, kept \cap records = {},
         NEW S \in Targets(n, kept, {}), records' = records,
         slots'[n] = kept, push'[n].left = S
  PROVE  Responsible(n)'
<1>1. snap[n] \subseteq records /\ AllUp /\ records \in SUBSET Node /\ S \in SUBSET Node
  BY TargetFacts DEF Healthy, SnapsFollow, TypeOK
<1>2. Enough(n, snap[n] \cup kept \cup S)
  BY <1>1, TargetsCover
<1>3. Enough(n, records \cup kept \cup S)
  <2>1. /\ records \cup kept \cup S \in SUBSET Node
        /\ snap[n] \cup kept \cup S \in SUBSET (records \cup kept \cup S)
    BY <1>1
  <2> QED BY <1>2, <2>1, EnoughGrows
<1>4. Have(n)' = records \cup kept \cup S
  BY DEF Have
<1>5. Enough(n, Have(n))'
  BY <1>3, <1>4 DEF Enough
<1> QED BY <1>5 DEF Responsible

LEMMA RetryCovers ==
  ASSUME TypeOK, Healthy, NEW n \in Node, Responsible(n), NEW t \in Node, Retry(n, t),
         records' = records
  PROVE  Responsible(n)'
<1>1. PICK S \in Targets(n, slots[n] \ {t}, {}) :
        push' = [push EXCEPT ![n] = Loop("retry", S)]
  BY DEF Retry
<1>2. S \in SUBSET Node
  BY TargetFacts
<1>3. push'[n].left = S
  BY <1>1, <1>2, LoopFacts DEF TypeOK
<1>4. slots'[n] = slots[n] \ {t} /\ slots[n] \ {t} \in SUBSET Node
  BY DEF Retry, TypeOK
<1>5. (slots[n] \ {t}) \cap records = {}
  BY DEF Responsible
<1> QED BY <1>3, <1>4, <1>5, PushCovers

\* Who is not the one to act stays responsible.
LEMMA OthersStay ==
  ASSUME NEW z, Responsible(z), records' = records,
         slots'[z] = slots[z], push'[z].left = push[z].left, snap'[z] = snap[z],
         \A call \in todo[z] : call.op \in {"push", "reject"} => call \in todo'[z]
  PROVE  Responsible(z)'
<1>1. Asks(z) => Asks(z)'
  BY DEF Asks
<1>2. Enough(z, Have(z)) => Enough(z, Have(z))'
  BY DEF Enough, Have
<1> QED BY <1>1, <1>2 DEF Responsible

\* Whoever answers for the path goes on to, unless a new holder does.
LEMMA ResponsibleStep ==
  ASSUME IInv, Healthy, NEW n \in Node,
         Sender(n) \/ Offer(n) \/ Fetch(n) \/ Observe(n) \/ End(n), faults'.timersOnly
  PROVE  SomeoneResponsible'
<1>1. TypeOK /\ AllUp /\ SnapsFollow /\ CallsAreTrue /\ OnlyHoldersAct /\ SomeoneResponsible
  BY DEF IInv, Healthy
<1>2. CASE (RecordFetch(n) \/ Build(n)) /\ n \notin records
  <2>1. n \in records' /\ snap' = snap /\ slots' = slots
    BY <1>2 DEF RecordFetch, Build
  <2>2. slots[n] = {} /\ n \notin snap[n]
    BY <1>1, <1>2 DEF SnapsFollow, OnlyHoldersAct
  <2>3. Responsible(n)'
    BY <2>1, <2>2 DEF Responsible
  <2> QED BY <2>1, <2>3 DEF SomeoneResponsible
<1>3. CASE ~((RecordFetch(n) \/ Build(n)) /\ n \notin records)
  <2>1. records' = records
    BY <1>1, <1>3, HealthySteps, Frames, ZenonT(40)
       DEF Sender, Offer, QuietFetch, FetchUnpinned, FetchSucceeds, FetchNothing, clusterVars, RecordFetch,
           Build, Refresh
  <2>2. SUFFICES ASSUME NEW z \in records, Responsible(z)
                 PROVE  Responsible(z)'
    BY <1>1, <2>1 DEF SomeoneResponsible
  <2>3. z \in Node /\ records \in SUBSET Node /\ \A m \in Node : slots[m] \in SUBSET Node
    BY <1>1 DEF TypeOK
  <2>4. CASE PushAttempt(n)
    <3>1. UNCHANGED <<slots, snap>> /\ \A m \in Node \ {n} : push'[m] = push[m] /\ todo'[m] = todo[m]
      BY <1>1, <2>4 DEF PushAttempt, clusterVars, TypeOK
    <3>2. CASE z # n
      BY <2>1, <2>2, <2>3, <3>1, <3>2, OthersStay
    <3>3. CASE z = n
      <4>1. PICK call \in todo[n] :
              /\ call.op = "push"
              /\ \E S \in Targets(n, slots[n], call.excl) :
                   push' = [push EXCEPT ![n] = Loop(call.by, S)]
        BY <2>4 DEF PushAttempt
      <4>2. PICK S \in Targets(n, slots[n], {}) : push' = [push EXCEPT ![n] = Loop(call.by, S)]
        BY <1>1, <4>1 DEF CallsAreTrue
      <4>3. push'[n].left = S
        BY <1>1, <4>2 DEF Loop, Idle, TypeOK
      <4>4. slots[n] \cap records = {} /\ slots'[n] = slots[n]
        BY <2>2, <3>1, <3>3 DEF Responsible
      <4> QED BY <1>1, <2>1, <2>3, <3>3, <4>3, <4>4, PushCovers
    <3> QED BY <3>2, <3>3
  <2>5. CASE OnReject(n) \/ OnTimeout(n)
    <3>1. CASE z # n
      BY <1>1, <2>1, <2>2, <2>3, <2>5, <3>1, SettleFacts, Frames, OthersStay DEF Sender
    <3>2. CASE z = n /\ \E t \in Node : Retry(n, t)
      BY <1>1, <2>1, <2>2, <3>2, RetryCovers
    <3>3. CASE z = n /\ ~ \E t \in Node : Retry(n, t)
      <4>1. \A call \in todo[n] : /\ call.op = "reject" => call.from \in Node
                                  /\ call.op = "timeout" => call.target \in Node
        BY <1>1, CallFacts DEF TypeOK
      <4>2. PICK call \in todo[n] :
              /\ call.op = "timeout"
              /\ UNCHANGED <<slots, push>>
              /\ todo' = [todo EXCEPT ![n] = @ \ {call}]
        BY <2>5, <3>3, <4>1 DEF OnReject, OnTimeout
      <4>3. \A c \in todo[n] : c.op \in {"push", "reject"} => c \in todo'[n]
        BY <1>1, <4>2 DEF TypeOK
      <4> QED BY <2>1, <2>2, <2>5, <3>3, <4>2, <4>3, Frames, OthersStay DEF Sender
    <3> QED BY <3>1, <3>2, <3>3
  <2>6. CASE OnPathHave(n)
    <3>1. snap' = snap /\ push' = push /\ \A c \in todo[n] : c.op # "have" => c \in todo'[n]
      BY <1>1, <2>6, HaveFacts, Frames DEF Sender, OnPathHave
    <3>2. CASE z # n
      BY <1>1, <2>1, <2>2, <2>3, <2>6, <3>1, <3>2, HaveFacts, OthersStay
    <3>3. CASE z = n
      <4>1. PICK call \in todo[n] :
              /\ call.op = "have"
              /\ IF Converged(n, call.holder) THEN slots' = [slots EXCEPT ![n] = {}]
                 ELSE slots' = [slots EXCEPT ![n] = @ \ {call.holder}]
        BY <2>6 DEF OnPathHave
      <4>2. call.holder \in records
        BY <1>1, <4>1 DEF CallsAreTrue
      <4>3. CASE Converged(n, call.holder)
        <5>1. slots'[n] = {}
          BY <1>1, <4>1, <4>3 DEF TypeOK
        <5>2. Enough(n, snap[n] \cup {call.holder})
          BY <4>3 DEF Converged, Enough
        <5>3. snap[n] \cup {call.holder} \in SUBSET Have(n)' /\ Have(n)' \in SUBSET Node
          BY <1>1, <2>1, <2>3, <3>1, <4>2, <5>1 DEF SnapsFollow, Have, TypeOK
        <5>4. Enough(n, Have(n)')
          BY <5>2, <5>3, EnoughGrows
        <5> QED BY <3>3, <5>1, <5>4 DEF Responsible, Enough
      <4>4. CASE ~Converged(n, call.holder)
        <5>1. slots'[n] = slots[n] \ {call.holder}
          BY <1>1, <4>1, <4>4 DEF TypeOK
        <5>2. slots'[n] = slots[n]
          BY <2>2, <3>3, <4>2, <5>1 DEF Responsible
        <5>3. push'[n].left = push[n].left /\ snap'[n] = snap[n]
          BY <3>1
        <5>4. \A c \in todo[n] : c.op \in {"push", "reject"} => c \in todo'[n]
          BY <3>1
        <5> QED BY <2>1, <2>2, <3>3, <5>2, <5>3, <5>4, OthersStay
      <4> QED BY <4>3, <4>4
    <3> QED BY <3>2, <3>3
  <2>7. CASE TimerFires(n)
    <3>1. \A m \in Node : todo[m] \subseteq todo'[m]
      BY <1>1, <2>7 DEF TimerFires, TypeOK
    <3>2. UNCHANGED <<slots, push, snap>>
      BY <2>7 DEF TimerFires, clusterVars
    <3> QED BY <2>1, <2>2, <2>3, <3>1, <3>2, OthersStay
  <2>8. CASE OfferRejected(n)
    <3>1. UNCHANGED <<slots, snap>>
      BY <2>8 DEF OfferRejected, clusterVars
    <3>2. CASE z # n
      <4>1. push'[z] = push[z] /\ todo'[z] = todo[z]
        BY <1>1, <2>3, <2>8, <3>2, OfferFacts DEF Offer
      <4> QED BY <2>1, <2>2, <3>1, <4>1, OthersStay
    <3>3. CASE z = n
      <4>1. PICK t : todo' = [todo EXCEPT ![n] = @ \cup {RejectCall(t)}]
        BY <2>8 DEF OfferRejected
      <4>2. RejectCall(t) \in todo'[n]
        BY <1>1, <4>1 DEF TypeOK
      <4>3. Asks(n)'
        BY <4>2, CallOps DEF Asks
      <4>4. (slots[n] \cap records = {})'
        BY <2>1, <2>2, <3>1, <3>3 DEF Responsible
      <4> QED BY <3>3, <4>3, <4>4 DEF Responsible
    <3> QED BY <3>2, <3>3
  <2>9. CASE OfferAccepted(n)
    <3>1. PICK t \in push[n].left :
            ~Refuses(t, n) /\ Offered(n, t) /\ slots' = [slots EXCEPT ![n] = @ \cup {t}]
      BY <2>9 DEF OfferAccepted
    <3>2. snap' = snap /\ todo' = todo
      BY <2>9 DEF OfferAccepted, clusterVars
    <3>3. push'[n].left = push[n].left \ {t} /\ \A m \in Node \ {n} : push'[m] = push[m]
      BY <1>1, <3>1, OfferedFacts
    <3>4. slots'[n] = slots[n] \cup {t} /\ \A m \in Node \ {n} : slots'[m] = slots[m]
      BY <1>1, <3>1 DEF TypeOK
    <3>5. CASE z # n
      BY <2>1, <2>2, <2>3, <3>2, <3>3, <3>4, <3>5, OthersStay
    <3>6. CASE z = n
      <4>1. t \notin records
        BY <3>1 DEF Refuses, IInv, HoldersAreTrue, RecordsAreTrue
      <4>2. (slots[n] \cap records = {})'
        BY <2>1, <2>2, <3>4, <3>6, <4>1 DEF Responsible
      <4>3. Have(n)' = Have(n)
        BY <2>1, <3>1, <3>3, <3>4 DEF Have
      <4>4. Asks(n) => Asks(n)'
        BY <3>2 DEF Asks
      <4>5. Enough(n, Have(n)) => Enough(n, Have(n))'
        BY <4>3 DEF Enough
      <4> QED BY <2>2, <3>2, <3>6, <4>2, <4>4, <4>5 DEF Responsible
    <3> QED BY <3>5, <3>6
  <2>10. CASE QuietFetch(n)
    <3>1. UNCHANGED <<slots, push, snap, todo>>
      BY <2>10 DEF QuietFetch, FetchUnpinned, FetchSucceeds, FetchNothing, senderVars, clusterVars
    <3> QED BY <2>1, <2>2, <3>1, OthersStay
  <2>11. CASE RecordFetch(n) \/ Build(n)
    <3>1. UNCHANGED <<slots, push, snap>>
      BY <2>11 DEF RecordFetch, Build
    <3>2. {PushCall("fetch", {})} \in SUBSET Calls /\ {} \in SUBSET Calls
      BY CallFacts DEF PushBy
    <3>3. \A m \in Node : todo[m] \subseteq todo'[m]
      BY <1>1, <2>11, <3>2, AnnounceFacts DEF RecordFetch, Build
    <3> QED BY <2>1, <2>2, <2>3, <3>1, <3>3, OthersStay
  <2>12. CASE Refresh(n)
    <3>1. UNCHANGED <<slots, push>> /\ \A m \in Node : todo[m] \subseteq todo'[m]
      BY <1>1, <2>12 DEF Refresh, TypeOK
    <3>2. CASE snap'[z] = snap[z]
      BY <2>1, <2>2, <2>3, <3>1, <3>2, OthersStay
    <3>3. CASE snap'[z] # snap[z]
      <4>1. z = n
        BY <1>1, <2>3, <2>12, <3>3 DEF Refresh, TypeOK
      <4>2. CASE n \in snap[n]
        <5>1. Asks(n) => Asks(n)'
          BY <3>1 DEF Asks
        <5>2. Enough(n, Have(n)) => Enough(n, Have(n))'
          BY <2>1, <3>1 DEF Enough, Have
        <5>3. (slots[n] \cap records = {})'
          BY <2>1, <2>2, <3>1, <4>1 DEF Responsible
        <5> QED BY <2>2, <4>1, <4>2, <5>1, <5>2, <5>3 DEF Responsible
      <4>3. CASE n \notin snap[n]
        <5>1. PushCall("cascade", {}) \in todo'[n]
          BY <1>1, <2>2, <2>12, <4>1, <4>3 DEF Refresh, TypeOK
        <5>2. Asks(n)'
          BY <5>1, CallOps DEF Asks
        <5>3. (slots[n] \cap records = {})'
          BY <2>1, <2>2, <3>1, <4>1 DEF Responsible
        <5> QED BY <4>1, <5>2, <5>3 DEF Responsible
      <4> QED BY <4>2, <4>3
    <3> QED BY <3>2, <3>3
  <2> QED BY <1>1, <2>4, <2>5, <2>6, <2>7, <2>8, <2>9, <2>10, <2>11, <2>12, HealthySteps
<1> QED BY <1>2, <1>3

\* The rest of it.
LEMMA HealthyStep ==
  ASSUME IInv, Healthy, NEW n \in Node,
         Sender(n) \/ Offer(n) \/ Fetch(n) \/ Observe(n) \/ End(n), faults'.timersOnly
  PROVE  Healthy'
<1>1. TypeOK /\ AllUp /\ SnapsFollow /\ CallsAreTrue /\ OnlyHoldersAct
  BY DEF IInv, Healthy
<1>2. status' = status
  BY <1>1, HealthySteps, Frames
     DEF Sender, Offer, QuietFetch, FetchUnpinned, FetchSucceeds, FetchNothing, clusterVars, RecordFetch,
         Build, Refresh
<1>3. AllUp'
  BY <1>1, <1>2 DEF AllUp
<1>4. SomeoneResponsible'
  BY ResponsibleStep
<1>5. SUFFICES SnapsFollow' /\ CallsAreTrue' /\ OnlyHoldersAct'
  BY <1>3, <1>4 DEF Healthy
<1>6. ASSUME records' = records, snap' = snap,
             \A m \in Node : \A c \in todo'[m] \ todo[m] : c.op \in {"timeout", "reject"},
             \A m \in Node \ records : /\ slots'[m] = {} /\ push'[m].left = {}
                                       /\ \A c \in todo'[m] \ todo[m] : c.op = "timeout"
      PROVE  SnapsFollow' /\ CallsAreTrue' /\ OnlyHoldersAct'
  <2>1. SnapsFollow'
    BY <1>1, <1>6 DEF SnapsFollow
  <2>2. CallsAreTrue'
    BY <1>1, <1>6 DEF CallsAreTrue
  <2>3. OnlyHoldersAct'
    BY <1>1, <1>6 DEF OnlyHoldersAct, Asks
  <2> QED BY <2>1, <2>2, <2>3
<1>7. CASE PushAttempt(n) \/ OnReject(n) \/ OnTimeout(n) \/ OnPathHave(n)
  <2>1. UNCHANGED <<records, snap>> /\ \A m \in Node : todo'[m] \subseteq todo[m]
    BY <1>1, <1>7, Frames, PushFacts, SettleFacts, HaveFacts DEF Sender
  <2>2. \A m \in Node \ {n} : slots'[m] = slots[m] /\ push'[m] = push[m]
    <3>1. CASE PushAttempt(n)
      BY <1>1, <3>1, PushFacts DEF PushAttempt
    <3>2. CASE OnReject(n) \/ OnTimeout(n)
      BY <1>1, <3>2, SettleFacts
    <3>3. CASE OnPathHave(n)
      BY <1>1, <3>3, HaveFacts DEF OnPathHave
    <3> QED BY <1>7, <3>1, <3>2, <3>3
  <2>3. CASE n \in records
    BY <1>1, <1>6, <2>1, <2>2, <2>3 DEF OnlyHoldersAct
  <2>4. CASE n \notin records
    <3>1. slots[n] = {} /\ push[n].left = {} /\ ~Asks(n)
      BY <1>1, <2>4 DEF OnlyHoldersAct
    <3>2. ~PushAttempt(n) /\ ~OnReject(n)
      BY <3>1 DEF PushAttempt, OnReject, Asks
    <3>3. slots'[n] = {} /\ push'[n].left = {}
      <4>1. CASE OnTimeout(n)
        BY <3>1, <4>1 DEF OnTimeout
      <4>2. CASE OnPathHave(n)
        BY <1>1, <3>1, <4>2, HaveFacts DEF OnPathHave
      <4> QED BY <1>7, <3>2, <4>1, <4>2
    <3> QED BY <1>1, <1>6, <2>1, <2>2, <3>3 DEF OnlyHoldersAct
  <2> QED BY <2>3, <2>4
<1>8. CASE TimerFires(n)
  <2>1. \E t : todo' = [todo EXCEPT ![n] = @ \cup {TimeoutCall(t)}]
    BY <1>1, <1>8, TimerFacts
  <2>2. \A m \in Node : \A c \in todo'[m] \ todo[m] : c.op = "timeout"
    BY <1>1, <2>1, CallOps DEF TypeOK
  <2> QED BY <1>1, <1>6, <1>8, <2>2 DEF TimerFires, clusterVars, OnlyHoldersAct
<1>9. CASE OfferRejected(n) \/ OfferAccepted(n)
  <2>1. UNCHANGED <<records, snap>>
    BY <1>9, Frames DEF Offer
  <2>2. push[n].left # {} /\ \A m \in Node \ {n} : slots'[m] = slots[m] /\ push'[m] = push[m] /\ todo'[m] = todo[m]
    BY <1>1, <1>9, OfferFacts DEF Offer
  <2>3. n \in records
    BY <1>1, <2>2 DEF OnlyHoldersAct
  <2>4. \A m \in Node : \A c \in todo'[m] \ todo[m] : c.op \in {"timeout", "reject"}
    <3>1. CASE OfferRejected(n)
      <4>1. PICK t : todo' = [todo EXCEPT ![n] = @ \cup {RejectCall(t)}]
        BY <3>1 DEF OfferRejected
      <4> QED BY <1>1, <4>1, CallOps DEF TypeOK
    <3>2. CASE OfferAccepted(n)
      BY <3>2 DEF OfferAccepted
    <3> QED BY <1>9, <3>1, <3>2
  <2> QED BY <1>1, <1>6, <2>1, <2>2, <2>3, <2>4 DEF OnlyHoldersAct
<1>10. CASE QuietFetch(n)
  <2>1. UNCHANGED <<records, snap, slots, push, todo>>
    BY <1>10 DEF QuietFetch, FetchUnpinned, FetchSucceeds, FetchNothing, senderVars, clusterVars
  <2> QED BY <1>1, <1>6, <2>1 DEF OnlyHoldersAct
<1>11. CASE RecordFetch(n) \/ Build(n)
  <2>1. records' = records \cup {n} /\ UNCHANGED <<snap, slots, push>>
    BY <1>11 DEF RecordFetch, Build
  <2>2. {PushCall("fetch", {})} \in SUBSET Calls /\ {} \in SUBSET Calls
    BY CallFacts DEF PushBy
  <2>3. \A m \in Node : /\ todo'[m] \subseteq todo[m] \cup {PushCall("fetch", {})} \cup {HaveCall(n)}
                        /\ m # n => todo'[m] \subseteq todo[m] \cup {HaveCall(n)}
    <3>1. CASE RecordFetch(n)
      BY <1>1, <2>2, <3>1, AnnounceFacts DEF RecordFetch
    <3>2. CASE Build(n)
      BY <1>1, <2>2, <3>2, AnnounceFacts DEF Build
    <3> QED BY <1>11, <3>1, <3>2
  <2>4. SnapsFollow'
    BY <1>1, <2>1 DEF SnapsFollow
  <2>5. CallsAreTrue'
    BY <1>1, <2>1, <2>3, CallOps DEF CallsAreTrue
  <2>6. OnlyHoldersAct'
    BY <1>1, <2>1, <2>3, CallOps DEF OnlyHoldersAct, Asks
  <2> QED BY <2>4, <2>5, <2>6
<1>12. CASE Refresh(n)
  <2>1. /\ UNCHANGED <<records, slots, push>>
        /\ snap' = [snap EXCEPT ![n] = records]
        /\ \A m \in Node : todo'[m] \subseteq
             todo[m] \cup {PushCall("repair", {})} \cup {PushCall("cascade", {})}
    BY <1>1, <1>12 DEF Refresh, TypeOK
  <2>2. \A m \in Node \ records : todo'[m] \subseteq todo[m]
    BY <1>1, <1>12 DEF Refresh, TypeOK
  <2>3. SnapsFollow'
    BY <1>1, <2>1 DEF SnapsFollow, TypeOK
  <2>4. CallsAreTrue'
    BY <1>1, <2>1, CallOps DEF CallsAreTrue
  <2>5. OnlyHoldersAct'
    BY <1>1, <2>1, <2>2 DEF OnlyHoldersAct, Asks
  <2> QED BY <2>3, <2>4, <2>5
<1> QED BY <1>1, <1>7, <1>8, <1>9, <1>10, <1>11, <1>12, HealthySteps

LEMMA RestStep == IInv /\ RestInv /\ [Next]_vars => RestInv'
<1> SUFFICES ASSUME IInv, RestInv, [Next]_vars, faults'.timersOnly
             PROVE  Healthy'
  BY DEF RestInv
<1>1. CASE Next
  <2>1. PICK n \in Node : Sender(n) \/ Offer(n) \/ Fetch(n) \/ Observe(n) \/ End(n)
    BY <1>1 DEF Next
  <2>2. faults.timersOnly
    BY <2>1, FaultsLast DEF IInv
  <2> QED BY <2>1, <2>2, HealthyStep DEF RestInv
<1>2. CASE UNCHANGED vars
  <2>1. UNCHANGED <<status, records, snap, slots, push, todo, faults>>
    BY <1>2 DEF vars, clusterVars, senderVars, receiverVars
  <2> QED BY <2>1 DEF RestInv, Healthy, AllUp, SnapsFollow, CallsAreTrue, OnlyHoldersAct, Asks,
                      SomeoneResponsible, Responsible, Enough, Have
<1> QED BY <1>1, <1>2

\* At rest the responsible node has reached K holders, or everyone.
LEMMA RestReplicated == IInv /\ RestInv => RestMeansReplicated
<1> SUFFICES ASSUME IInv, RestInv, AtRest, records # {}, faults.timersOnly
             PROVE  Replicated
  BY DEF RestMeansReplicated
<1>1. Healthy
  BY DEF RestInv
<1>2. Serving = Node
  BY <1>1 DEF Healthy, AllUp, Serving
<1>3. records \subseteq Node /\ records \subseteq valid
  BY DEF IInv, TypeOK, HoldersAreTrue, RecordsAreTrue
<1>4. PICK z \in records : Responsible(z)
  BY <1>1 DEF Healthy, SomeoneResponsible
<1>5. /\ z \in snap[z] /\ ~Asks(z)
      /\ Have(z) = records
  BY <1>2, <1>3, <1>4 DEF AtRest, Asks, Have, Idle
<1>6. Enough(z, records)
  BY <1>4, <1>5 DEF Responsible
<1>7. CASE Cardinality(records) >= K
  <2>1. records \cap Serving = records
    BY <1>2, <1>3
  <2> QED BY <1>7, <2>1 DEF Replicated
<1>8. CASE Node \subseteq {z} \cup records
  BY <1>2, <1>3, <1>4, <1>8 DEF Replicated
<1> QED BY <1>6, <1>7, <1>8 DEF Enough

\* Without a failing POST, fetch or node, whatever the order of offers, answers,
\* timers, refreshes and path-haves, ReplicationSender and the watcher's on_diff do not
\* come to rest before the path is on K nodes or on all.
THEOREM RestIsReplicated == Spec => []RestMeansReplicated
<1>1. Spec => []RestInv
  BY RestInit, RestStep, Invariance, PTL DEF Spec
<1> QED BY <1>1, RestReplicated, Invariance, PTL

===============================================================================
