------------------------------- MODULE SettleTimer -------------------------------
(***************************************************************************)
(* The debounce of ReplicationSender: once enough nodes hold an output     *)
(* path, and a while after the last of them said so, the primary is told   *)
(* which nodes to prefer for the tasks that need it.  One path.  The calls *)
(* run under the sender's lock, except for the second half of a firing.    *)
(***************************************************************************)
EXTENDS Integers, FiniteSets, Sequences

CONSTANTS
  Holder,     \* the secondaries that may hold the path
  EnoughK,    \* replication_k
  MaxPush,    \* bound: path-have pushes
  MaxWaiting  \* bound: timers that have expired and not run

ASSUME SettleAssumption == {EnoughK, MaxPush, MaxWaiting} \subseteq Nat /\ IsFiniteSet(Holder)

VARIABLES
  placed,    \* the holders in the placement watcher's snapshot
  armed,     \* _settle_timer has a timer for the path
  waiting,   \* how many timers nobody can cancel any more will call _fire_settle
  fired,     \* _preferred_secondaries_fired
  firing,    \* the snapshots of firings that have left the lock
  preferred, \* what the primary was told, one set after the other
  hashKnown, \* whether the lookup knows the task of the path
  settleStopped, pushes

settleVars == <<placed, armed, waiting, fired, firing, preferred, hashKnown, settleStopped, pushes>>

SettleTypeOK ==
  /\ placed \subseteq Holder
  /\ {armed, fired, hashKnown, settleStopped} \subseteq BOOLEAN
  /\ waiting \in 0..MaxWaiting /\ pushes \in 0..MaxPush
  /\ firing \subseteq SUBSET Holder
  /\ \A i \in DOMAIN preferred : preferred[i] \subseteq Holder

SettleInit ==
  /\ placed = {} /\ armed = FALSE /\ waiting = 0 /\ fired = FALSE /\ firing = {}
  /\ preferred = <<>> /\ hashKnown \in BOOLEAN /\ settleStopped = FALSE /\ pushes = 0

\* The watcher sees other placement files than before.
SeePlacements ==
  /\ placed' \in SUBSET Holder /\ placed' # placed
  /\ UNCHANGED <<armed, waiting, fired, firing, preferred, hashKnown, settleStopped, pushes>>

\* _arm_settle_locked: the pending timer is cancelled, or replaced by a new one.
Arm(converged) ==
  armed' = IF ~converged THEN FALSE ELSE armed \/ ~fired

\* on_path_have; the watcher may not have seen the holder yet.
HolderPushed(h) ==
  /\ pushes < MaxPush
  /\ pushes' = pushes + 1
  /\ Arm(Cardinality(placed \cup {h}) >= EnoughK)
  /\ UNCHANGED <<placed, waiting, fired, firing, preferred, hashKnown, settleStopped>>

\* The timer's thread starts; from now on cancelling it has no effect.
TimerExpires ==
  /\ armed /\ waiting < MaxWaiting
  /\ armed' = FALSE
  /\ waiting' = waiting + 1
  /\ UNCHANGED <<placed, fired, firing, preferred, hashKnown, settleStopped, pushes>>

\* A mutant: the path is marked after the primary was told.
FireUnmarked ==
  /\ waiting > 0
  /\ IF settleStopped
     THEN waiting' = waiting - 1 /\ UNCHANGED <<armed, fired, firing>>
     ELSE /\ armed' = FALSE
          /\ waiting' = IF armed THEN waiting ELSE waiting - 1
          /\ firing' = IF fired THEN firing ELSE firing \cup {placed}
          /\ UNCHANGED fired
  /\ UNCHANGED <<placed, preferred, hashKnown, settleStopped, pushes>>

\* The first half of _fire_settle, under the lock.  A timer that is registered by
\* then is dropped without being cancelled, so it will come to the lock, too.
Fire ==
  /\ waiting > 0
  /\ IF settleStopped
     THEN waiting' = waiting - 1 /\ UNCHANGED <<armed, fired, firing>>
     ELSE /\ armed' = FALSE
          /\ waiting' = IF armed THEN waiting ELSE waiting - 1
          /\ firing' = IF fired THEN firing ELSE firing \cup {placed}
          /\ fired' = TRUE
  /\ UNCHANGED <<placed, preferred, hashKnown, settleStopped, pushes>>

\* The second half: without a task there is nobody to tell; with too few holders
\* the mark is taken back and no timer started.
TellPrimary ==
  /\ \E holders \in firing :
       /\ firing' = firing \ {holders}
       /\ IF hashKnown /\ Cardinality(holders) < EnoughK THEN fired' = FALSE ELSE UNCHANGED fired
       /\ IF hashKnown /\ Cardinality(holders) >= EnoughK
          THEN preferred' = Append(preferred, holders) ELSE UNCHANGED preferred
  /\ UNCHANGED <<placed, armed, waiting, hashKnown, settleStopped, pushes>>

StopSettle ==
  /\ ~settleStopped
  /\ settleStopped' = TRUE /\ armed' = FALSE
  /\ UNCHANGED <<placed, waiting, fired, firing, preferred, hashKnown, pushes>>
SettleNext ==
  \/ SeePlacements
  \/ \E h \in Holder : HolderPushed(h)
  \/ TimerExpires
  \/ Fire
  \/ TellPrimary
  \/ StopSettle

SettleSpec == SettleInit /\ [][SettleNext]_settleVars

-------------------------------------------------------------------------------
(* The primary is told at most once, by whichever of the timers that race  *)
(* for the lock: a firing marks the path before it leaves the lock and     *)
(* only takes the mark back when it tells nobody.  That it is told at all  *)
(* is not promised: after such a firing no timer runs until another node   *)
(* announces the path.                                                     *)
PreferredToldOnce == Len(preferred) <= 1
=============================================================================
