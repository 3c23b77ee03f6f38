--------------------------- MODULE RunLifecycleProofs ---------------------------
(***************************************************************************)
(* Proofs about the signing key and about the run of every secondary       *)
(* around it, for every set of nodes, every number of restarts and of      *)
(* failures and every length of the poll.  The race for the key: the       *)
(* winner is alone, all holders hold one key, and the race implements the  *)
(* abstract choice of a key.  The run: it is correctly typed, uses the     *)
(* race as specified, loses no push, and leaves nothing behind when it     *)
(* ends without an error.                                                  *)
(***************************************************************************)
EXTENDS RunLifecycle, TLAPS

USE DEF keyVars, keyFiles, keyLocal

\* The fields of a pair tell the two marks and the pairs of the nodes apart.
LEMMA PairsAreNotMarks ==
  /\ NoFile \notin KeyPair
  /\ Torn \notin KeyPair
  /\ NoFile # Torn
  <1>1. NoFile.node = NoNode /\ Torn.node = NoNode BY DEF NoFile, Torn
  <1>2. \A k \in KeyPair : k.node \in Node BY DEF KeyPair
  <1>3. NoFile.boot # Torn.boot BY DEF NoFile, Torn
  <1> QED BY <1>1, <1>2, <1>3, NobodyAssumption

\* A pair that a node generates after its start is a pair.
LEMMA OwnIsPair ==
  ASSUME KeyTypeOK, NEW n \in Node, boot[n] # 0
  PROVE  Own(n) \in KeyPair
  BY KeyBoundAssumption DEF KeyTypeOK, Own, KeyPair

(* What a node has started has a name of its own: only a node outside of   *)
(* the race may not have been booted yet.                                  *)
Booted == \A n \in Node : keyStage[n] # "out" => boot[n] # 0

KeyInv ==
  /\ KeyTypeOK
  /\ Booted
  /\ KeyWinnerIsAlone
  /\ KeyAgreement

\* Type correctness: one step per action, none needs the invariants.
LEMMA KeyTypeStep ==
  ASSUME KeyTypeOK, Booted, [KeyNext]_keyVars
  PROVE  KeyTypeOK' /\ Booted'
<1> USE PairsAreNotMarks, KeyBoundAssumption
<1> SUFFICES ASSUME NEW n \in Node, KeyBegin(n) \/ KeyRace(n) \/ KeyLeave(n)
             PROVE  KeyTypeOK' /\ Booted'
  BY DEF KeyNext, KeyTypeOK, Booted
<1>1. CASE KeyBegin(n)
  BY <1>1 DEF KeyBegin, KeyMove, KeyGot, KeyTypeOK, KeyStages, Booted
<1>2. CASE KeyFound(n)
  BY <1>2 DEF KeyFound, KeyMove, KeyGot, KeyTypeOK, KeyStages, Booted
<1>3. CASE KeyGenerate(n)
  BY <1>3 DEF KeyGenerate, KeyMove, KeyGot, KeyTypeOK, KeyStages, Booted
<1>4. CASE KeyNoNix(n)
  BY <1>4 DEF KeyNoNix, KeyMove, KeyGot, KeyTypeOK, KeyStages, Booted
<1>5. CASE KeyWin(n)
  BY <1>5 DEF KeyWin, KeyMove, KeyGot, KeyTypeOK, KeyStages, Booted
<1>6. CASE KeyLose(n)
  BY <1>6 DEF KeyLose, KeyMove, KeyGot, KeyTypeOK, KeyStages, Booted
<1>7. CASE KeyFill(n)
  <2>1. Own(n) \in KeyPair
    BY <1>7, OwnIsPair DEF KeyFill, KeyMove, Booted
  <2> QED BY <1>7, <2>1 DEF KeyFill, KeyMove, KeyGot, KeyTypeOK, KeyStages, Booted
<1>8. CASE KeyPublish(n)
  <2>1. Own(n) \in KeyPair
    BY <1>8, OwnIsPair DEF KeyPublish, KeyMove, Booted
  <2> QED BY <1>8, <2>1 DEF KeyPublish, KeyMove, KeyGot, KeyTypeOK, KeyStages, Booted
<1>9. CASE KeyWriteFails(n)
  BY <1>9 DEF KeyWriteFails, KeyMove, KeyGot, KeyTypeOK, KeyStages, Booted
<1>10. CASE KeyReload(n)
  BY <1>10 DEF KeyReload, KeyMove, KeyGot, KeyTypeOK, KeyStages, Booted
<1>11. CASE KeyPollAgain(n)
  BY <1>11 DEF KeyPollAgain, KeyMove, KeyGot, KeyTypeOK, KeyStages, Booted
<1>12. CASE KeyGiveUp(n)
  BY <1>12 DEF KeyGiveUp, KeyMove, KeyGot, KeyTypeOK, KeyStages, Booted
<1>13. CASE KeyLeave(n)
  BY <1>13 DEF KeyLeave, KeyMove, KeyGot, KeyTypeOK, KeyStages, Booted
<1> QED BY <1>1, <1>2, <1>3, <1>4, <1>5, <1>6, <1>7, <1>8, <1>9, <1>10, <1>11, <1>12, <1>13 DEF KeyRace

\* The heart of the matter: exclusive creation leaves one winner, and only the
\* winner publishes.
LEMMA KeyStep ==
  ASSUME KeyInv, KeyTypeOK', [KeyNext]_keyVars
  PROVE  KeyWinnerIsAlone' /\ KeyAgreement'
<1> USE PairsAreNotMarks
<1> SUFFICES ASSUME NEW n \in Node, KeyBegin(n) \/ KeyRace(n) \/ KeyLeave(n)
             PROVE  KeyWinnerIsAlone' /\ KeyAgreement'
  BY DEF KeyNext, KeyInv, KeyWinnerIsAlone, KeyAgreement, Own
<1> KeyTypeOK /\ KeyWinnerIsAlone /\ KeyAgreement BY DEF KeyInv
<1>own. \A m \in Node : keyStage[m] # "out" => Own(m) \in KeyPair
  BY OwnIsPair DEF KeyInv, Booted
<1>idle. ASSUME NEW m \in Node, boot'[m] = boot[m] PROVE Own(m)' = Own(m)
  BY <1>idle DEF Own
<1>1. CASE KeyBegin(n)
  BY <1>1, <1>own DEF KeyBegin, KeyMove, KeyGot, KeyTypeOK, KeyWinnerIsAlone, KeyAgreement, Own
<1>2. CASE KeyFound(n)
  BY <1>2, <1>own DEF KeyFound, KeyMove, KeyGot, KeyTypeOK, KeyWinnerIsAlone, KeyAgreement, Own
<1>3. CASE KeyGenerate(n)
  BY <1>3, <1>own DEF KeyGenerate, KeyMove, KeyGot, KeyTypeOK, KeyWinnerIsAlone, KeyAgreement, Own
<1>4. CASE KeyNoNix(n)
  BY <1>4, <1>own DEF KeyNoNix, KeyMove, KeyGot, KeyTypeOK, KeyWinnerIsAlone, KeyAgreement, Own
<1>5. CASE KeyWin(n)
  BY <1>5, <1>own DEF KeyWin, KeyMove, KeyGot, KeyTypeOK, KeyWinnerIsAlone, KeyAgreement, Own
<1>6. CASE KeyLose(n)
  BY <1>6, <1>own DEF KeyLose, KeyMove, KeyGot, KeyTypeOK, KeyWinnerIsAlone, KeyAgreement, Own
<1>7. CASE KeyFill(n)
  BY <1>7, <1>own DEF KeyFill, KeyMove, KeyGot, KeyTypeOK, KeyWinnerIsAlone, KeyAgreement, Own
<1>8. CASE KeyPublish(n)
  BY <1>8, <1>own DEF KeyPublish, KeyMove, KeyGot, KeyTypeOK, KeyWinnerIsAlone, KeyAgreement, Own
<1>9. CASE KeyWriteFails(n)
  BY <1>9, <1>own DEF KeyWriteFails, KeyMove, KeyGot, KeyTypeOK, KeyWinnerIsAlone, KeyAgreement, Own
<1>10. CASE KeyReload(n)
  BY <1>10, <1>own DEF KeyReload, KeyMove, KeyGot, KeyTypeOK, KeyWinnerIsAlone, KeyAgreement, Own
<1>11. CASE KeyPollAgain(n)
  BY <1>11, <1>own DEF KeyPollAgain, KeyMove, KeyGot, KeyTypeOK, KeyWinnerIsAlone, KeyAgreement, Own
<1>12. CASE KeyGiveUp(n)
  BY <1>12, <1>own DEF KeyGiveUp, KeyMove, KeyGot, KeyTypeOK, KeyWinnerIsAlone, KeyAgreement, Own
<1>13. CASE KeyLeave(n)
  BY <1>13, <1>own DEF KeyLeave, KeyMove, KeyGot, KeyTypeOK, KeyWinnerIsAlone, KeyAgreement, Own
<1> QED BY <1>1, <1>2, <1>3, <1>4, <1>5, <1>6, <1>7, <1>8, <1>9, <1>10, <1>11, <1>12, <1>13 DEF KeyRace

\* Every step of the race is a step of the abstract choice, or changes neither
\* the published key nor who holds one.
LEMMA KeyStepRefines ==
  ASSUME KeyInv, [KeyNext]_keyVars
  PROVE  [Choice!Next]_(Choice!keyring)
<1> USE DEF Choice!keyring
<1> SUFFICES ASSUME NEW n \in Node, KeyBegin(n) \/ KeyRace(n) \/ KeyLeave(n)
             PROVE  [Choice!Next]_(Choice!keyring)
  BY DEF KeyNext
<1> KeyTypeOK /\ KeyWinnerIsAlone BY DEF KeyInv
<1>1. CASE KeyFound(n) \/ KeyReload(n)
  BY <1>1 DEF KeyFound, KeyReload, KeyGot, Choice!Next, Choice!Adopt
<1>2. CASE KeyPublish(n)
  <2>1. Own(n) \in KeyPair
    BY <1>2, OwnIsPair DEF KeyInv, Booted, KeyPublish, KeyMove
  <2>2. Choice!Choose(n, Own(n))
    BY <1>2 DEF KeyPublish, KeyMove, KeyGot, KeyWinnerIsAlone, Choice!Choose
  <2> QED BY <2>1, <2>2 DEF Choice!Next
<1>3. CASE KeyLeave(n)
  BY <1>3 DEF KeyLeave, Choice!Next, Choice!Drop
<1>4. CASE KeyBegin(n) \/ KeyGenerate(n) \/ KeyNoNix(n) \/ KeyWin(n) \/ KeyLose(n)
           \/ KeyFill(n) \/ KeyWriteFails(n) \/ KeyPollAgain(n) \/ KeyGiveUp(n)
  BY <1>4 DEF KeyBegin, KeyGenerate, KeyNoNix, KeyWin, KeyLose, KeyFill, KeyWriteFails,
              KeyPollAgain, KeyGiveUp
<1> QED BY <1>1, <1>2, <1>3, <1>4 DEF KeyRace

LEMMA KeyInvariant == KeySpec => []KeyInv
<1>1. KeyInit => KeyInv
  BY KeyBoundAssumption DEF KeyInit, KeyInv, KeyTypeOK, KeyStages, Booted, KeyWinnerIsAlone, KeyAgreement
<1>2. KeyInv /\ [KeyNext]_keyVars => KeyInv'
  BY KeyTypeStep, KeyStep DEF KeyInv
<1> QED BY <1>1, <1>2, PTL DEF KeySpec

(* Type correctness of the race for every set of nodes.                    *)
THEOREM KeyTypeCorrect == KeySpec => []KeyTypeOK
<1>1. KeyInv => KeyTypeOK BY DEF KeyInv
<1> QED BY <1>1, KeyInvariant, PTL

(* Between exclusive creation and publication there is one winner, and     *)
(* the secret is its own, whatever crashes.                                *)
THEOREM OneWinner == KeySpec => []KeyWinnerIsAlone
<1>1. KeyInv => KeyWinnerIsAlone BY DEF KeyInv
<1> QED BY <1>1, KeyInvariant, PTL

(* All nodes that hold a key hold the same one, also after restarts of a   *)
(* node under its old name.                                                *)
THEOREM OneKey == KeySpec => []KeyAgreement
<1>1. KeyInv => KeyAgreement BY DEF KeyInv
<1> QED BY <1>1, KeyInvariant, PTL

(* The exclusive create, the atomic publication and the polls implement    *)
(* the choice of one key.                                                  *)
THEOREM ChoosesOneKey == KeySpec => RefinesClusterKey
<1>1. KeyInit => Choice!Init
  BY DEF KeyInit, Choice!Init
<1>2. KeyInv /\ [KeyNext]_keyVars => [Choice!Next]_(Choice!keyring)
  BY KeyStepRefines
<1> QED BY <1>1, <1>2, KeyInvariant, PTL DEF KeySpec, RefinesClusterKey, Choice!Spec

-------------------------------------------------------------------------------
\* The run: its type.

USE DEF peerVars, fileVars, threadVars, snapVars, lifeVars

LEMMA RefreshTyped ==
  ASSUME PeerTypeOK, NEW n \in Node, NEW w \in Watcher, NEW reached, RequestRefresh(n, w, reached)
  PROVE  /\ wake' \in [Watcher -> [Node -> BOOLEAN]]
         /\ heard' \in [Watcher -> [Node -> SUBSET Node]]
<1>1. wake' \in [Watcher -> [Node -> BOOLEAN]]
  BY DEF RequestRefresh, PeerTypeOK, Told
<1>2. heard' \in [Watcher -> [Node -> SUBSET Node]]
  BY DEF RequestRefresh, Hear, PeerTypeOK
<1> QED BY <1>1, <1>2

LEMMA GlitchTyped ==
  ASSUME PeerTypeOK, Fails \/ Works
  PROVE  glitches' \in 0..MaxGlitch
BY GlitchAssumption DEF PeerTypeOK, Fails, Works

LEMMA PushTyped ==
  ASSUME PeerTypeOK, NEW n \in Node, NEW w \in Watcher, NEW listening, Push(n, w, listening)
  PROVE  /\ wake' \in [Watcher -> [Node -> BOOLEAN]]
         /\ heard' \in [Watcher -> [Node -> SUBSET Node]]
         /\ glitches' \in 0..MaxGlitch
BY RefreshTyped, GlitchTyped DEF Push

\* Every step of the run is one of a node's.
LEMMA Steps ==
  ASSUME [Next]_vars
  PROVE  \/ UNCHANGED vars
         \/ \E n \in Node :
              \/ BeginRun(n) \/ RaceForKey(n) \/ StartListWatcher(n) \/ StartPlacementWatcher(n)
              \/ OpenPushPlane(n) \/ Announce(n) \/ TellPeers(n) \/ StartStoreServer(n)
              \/ StartConfWatcher(n) \/ HasBuilt(n) \/ EndRun(n) \/ StopPushPlane(n)
              \/ StopWatchers(n) \/ Withdraw(n) \/ Crash(n) \/ FollowDirectory(n)
BY DEF Next, StartStep, EndStep

\* The run drives the race for the key as generate_signing_key runs it.
LEMMA RunRaces ==
  ASSUME [Next]_vars
  PROVE  [KeyNext]_keyVars
<1>1. CASE UNCHANGED vars
  BY <1>1 DEF vars
<1>2. ASSUME NEW n \in Node, BeginRun(n) \/ RaceForKey(n) \/ Withdraw(n) \/ Crash(n)
      PROVE  KeyNext
  BY <1>2 DEF BeginRun, RaceForKey, Withdraw, Crash, KeyNext
<1>3. ASSUME NEW n \in Node,
             \/ StartListWatcher(n) \/ StartPlacementWatcher(n) \/ OpenPushPlane(n) \/ Announce(n)
             \/ TellPeers(n) \/ StartStoreServer(n) \/ StartConfWatcher(n) \/ HasBuilt(n)
             \/ EndRun(n) \/ StopPushPlane(n) \/ StopWatchers(n) \/ FollowDirectory(n)
      PROVE  UNCHANGED keyVars
  BY <1>3 DEF StartListWatcher, StartPlacementWatcher, OpenPushPlane, Announce, TellPeers,
     StartStoreServer, StartConfWatcher, HasBuilt, EndRun, StopPushPlane, StopWatchers, FollowDirectory
<1> QED BY <1>1, <1>2, <1>3, Steps

LEMMA LifeTypeStep ==
  ASSUME TypeOK, [Next]_vars
  PROVE  /\ stage' \in [Node -> Stages]
         /\ service' \in [Node -> SUBSET Services]
         /\ store' \in [Node -> {"untouched", "served", "unavailable", "corrupt"}]
<1> USE DEF TypeOK, Goto, Up, Down, Stages, Starting, Ending, Services
<1>1. CASE UNCHANGED vars
  BY <1>1 DEF vars
<1> SUFFICES ASSUME NEW n \in Node,
                    \/ BeginRun(n) \/ RaceForKey(n) \/ StartListWatcher(n) \/ StartPlacementWatcher(n)
                    \/ OpenPushPlane(n) \/ Announce(n) \/ TellPeers(n) \/ StartStoreServer(n)
                    \/ StartConfWatcher(n) \/ HasBuilt(n) \/ EndRun(n) \/ StopPushPlane(n)
                    \/ StopWatchers(n) \/ Withdraw(n) \/ Crash(n) \/ FollowDirectory(n)
             PROVE  /\ stage' \in [Node -> Stages]
                    /\ service' \in [Node -> SUBSET Services]
                    /\ store' \in [Node -> {"untouched", "served", "unavailable", "corrupt"}]
  BY <1>1, Steps
<1>2. CASE BeginRun(n) \/ RaceForKey(n) \/ FollowDirectory(n) \/ HasBuilt(n)
  BY <1>2 DEF BeginRun, RaceForKey, FollowDirectory, HasBuilt
<1>3. CASE StartListWatcher(n)
  BY <1>3 DEF StartListWatcher
<1>4. CASE StartPlacementWatcher(n)
  BY <1>4 DEF StartPlacementWatcher
<1>5. CASE OpenPushPlane(n)
  BY <1>5 DEF OpenPushPlane, Wired
<1>6. CASE Announce(n) \/ TellPeers(n)
  BY <1>6 DEF Announce, TellPeers
<1>7. CASE StartStoreServer(n)
  BY <1>7 DEF StartStoreServer, DaemonOn
<1>8. CASE StartConfWatcher(n)
  BY <1>8 DEF StartConfWatcher
<1>9. CASE EndRun(n) \/ StopPushPlane(n) \/ StopWatchers(n)
  BY <1>9 DEF EndRun, StopPushPlane, StopWatchers
<1>10. CASE Withdraw(n)
  BY <1>10 DEF Withdraw
<1>11. CASE Crash(n)
  BY <1>11 DEF Crash
<1> QED BY <1>2, <1>3, <1>4, <1>5, <1>6, <1>7, <1>8, <1>9, <1>10, <1>11

ConfRow == [on : BOOLEAN, file : SUBSET Node, seen : SUBSET Node]

LEMMA ConfTyped ==
  ASSUME PeerTypeOK, NEW n \in Node, NEW row \in ConfRow
  PROVE  [conf EXCEPT ![n] = row] \in [Node -> ConfRow]
<1>1. conf \in [Node -> ConfRow]
  BY DEF PeerTypeOK, ConfRow
<1> QED BY <1>1

\* What refreshes and the watcher threads leave is of the right type.
LEMMA ReadTyped ==
  ASSUME PeerTypeOK, NEW n \in Node
  PROVE  /\ RefreshPeers(n) => peers' \in [Node -> SUBSET Node] /\ glitches' \in 0..MaxGlitch
         /\ RefreshPlacements(n) => placed' \in [Node -> SUBSET Node] /\ glitches' \in 0..MaxGlitch
         /\ RefreshConf(n) => /\ conf' \in [Node -> ConfRow]
                              /\ glitches' \in 0..MaxGlitch
<1>1. RefreshPeers(n) => peers' \in [Node -> SUBSET Node] /\ glitches' \in 0..MaxGlitch
  BY GlitchTyped DEF RefreshPeers, ListPeers, PeerTypeOK
<1>2. RefreshPlacements(n) => placed' \in [Node -> SUBSET Node] /\ glitches' \in 0..MaxGlitch
  BY GlitchTyped DEF RefreshPlacements, ReadPlacements, PeerTypeOK
<1>3. RefreshConf(n) => /\ conf' \in [Node -> ConfRow]
                       /\ glitches' \in 0..MaxGlitch
  <2> SUFFICES ASSUME RefreshConf(n)
               PROVE  /\ conf' \in [Node -> ConfRow]
                      /\ glitches' \in 0..MaxGlitch
    OBVIOUS
  <2>1. Fails \/ Works
    BY DEF RefreshConf
  <2>2. /\ conf[n] \in ConfRow
        /\ peers[n] \in SUBSET Node
    BY DEF PeerTypeOK, ConfRow
  <2>3. CASE conf' = [conf EXCEPT ![n] = [on |-> TRUE, file |-> peers[n], seen |-> peers[n]]]
    <3>1. [on |-> TRUE, file |-> peers[n], seen |-> peers[n]]
            \in ConfRow
      BY <2>2 DEF ConfRow
    <3> QED BY <2>1, <2>3, <3>1, ConfTyped, GlitchTyped
  <2>4. CASE conf' = [conf EXCEPT ![n] = [@ EXCEPT !.on = TRUE, !.seen = peers[n]]]
    <3>1. [conf[n] EXCEPT !.on = TRUE, !.seen = peers[n]] \in ConfRow
      BY <2>2 DEF ConfRow
    <3> QED BY <2>1, <2>4, <3>1, ConfTyped, GlitchTyped
  <2> QED BY <2>1, <2>3, <2>4, GlitchTyped DEF RefreshConf
<1> QED BY <1>1, <1>2, <1>3

LEMMA ThreadTyped ==
  ASSUME PeerTypeOK, NEW n \in Node, NEW w \in Watcher
  PROVE  /\ \A pc \in {"off", "wait", "busy"} :
              SetWatch(w, n, pc) => watch' \in [Watcher -> [Node -> {"off", "wait", "busy"}]]
         /\ SetWake(w, n, FALSE) => wake' \in [Watcher -> [Node -> BOOLEAN]]
<1>1. ASSUME NEW pc \in {"off", "wait", "busy"}, SetWatch(w, n, pc)
      PROVE  watch' \in [Watcher -> [Node -> {"off", "wait", "busy"}]]
  <2>1. [watch[w] EXCEPT ![n] = pc] \in [Node -> {"off", "wait", "busy"}]
    BY DEF PeerTypeOK
  <2>2. watch' = [watch EXCEPT ![w] = [watch[w] EXCEPT ![n] = pc]]
    BY <1>1 DEF SetWatch
  <2> QED BY <2>1, <2>2 DEF PeerTypeOK
<1>2. ASSUME SetWake(w, n, FALSE)
      PROVE  wake' \in [Watcher -> [Node -> BOOLEAN]]
  <2>1. [wake[w] EXCEPT ![n] = FALSE] \in [Node -> BOOLEAN]
    BY DEF PeerTypeOK
  <2>2. wake' = [wake EXCEPT ![w] = [wake[w] EXCEPT ![n] = FALSE]]
    BY <1>2 DEF SetWake
  <2> QED BY <2>1, <2>2 DEF PeerTypeOK
<1> QED BY <1>1, <1>2

LEMMA WatchTyped ==
  ASSUME PeerTypeOK, NEW n \in Node, WatchStep(n)
  PROVE  PeerTypeOK'
<1>1. CASE RunPeerWatcher(n)
  BY <1>1, ReadTyped, ThreadTyped DEF RunPeerWatcher, PeerTypeOK, Watcher
<1>2. CASE RunPlacementWatcher(n)
  BY <1>2, ReadTyped, ThreadTyped DEF RunPlacementWatcher, PeerTypeOK, Watcher
<1>3. ASSUME NEW w \in Watcher, RestWatcher(w, n) PROVE PeerTypeOK'
  BY <1>3, ThreadTyped DEF RestWatcher, PeerTypeOK
<1>4. CASE FollowPeers(n)
  BY <1>4, ReadTyped DEF FollowPeers, PeerTypeOK, ConfRow
<1> QED BY <1>1, <1>2, <1>3, <1>4 DEF WatchStep

LEMMA VanishTyped ==
  ASSUME PeerTypeOK, NEW n \in Node, Vanish(n)
  PROVE  /\ watch' \in [Watcher -> [Node -> {"off", "wait", "busy"}]]
         /\ wake' \in [Watcher -> [Node -> BOOLEAN]]
         /\ peers' \in [Node -> SUBSET Node]
         /\ placed' \in [Node -> SUBSET Node]
         /\ conf' \in [Node -> ConfRow]
BY DEF PeerTypeOK, Vanish, NoConf, ConfRow

LEMMA PeerTypeStep ==
  ASSUME PeerTypeOK, [Next]_vars
  PROVE  PeerTypeOK'
<1>1. CASE UNCHANGED vars
  BY <1>1 DEF vars, PeerTypeOK
<1> SUFFICES ASSUME NEW n \in Node,
                    \/ BeginRun(n) \/ RaceForKey(n) \/ StartListWatcher(n) \/ StartPlacementWatcher(n)
                    \/ OpenPushPlane(n) \/ Announce(n) \/ TellPeers(n) \/ StartStoreServer(n)
                    \/ StartConfWatcher(n) \/ HasBuilt(n) \/ EndRun(n) \/ StopPushPlane(n)
                    \/ StopWatchers(n) \/ Withdraw(n) \/ Crash(n) \/ FollowDirectory(n)
             PROVE  PeerTypeOK'
  BY <1>1, Steps
<1>w. "list" \in Watcher /\ "placement" \in Watcher
  BY DEF Watcher
<1>2. CASE BeginRun(n) \/ RaceForKey(n) \/ StopPushPlane(n) \/ StartStoreServer(n)
  BY <1>2 DEF BeginRun, RaceForKey, StopPushPlane, StartStoreServer, PeerTypeOK
<1>3. CASE StartListWatcher(n)
  BY <1>3, <1>w, ReadTyped, ThreadTyped, GlitchTyped DEF StartListWatcher, StartPeerList, StartWatcher, PeerTypeOK
<1>4. CASE StartPlacementWatcher(n)
  BY <1>4, <1>w, ReadTyped, ThreadTyped, GlitchTyped
     DEF StartPlacementWatcher, StartPlacements, StartWatcher, PeerTypeOK
<1>5. CASE OpenPushPlane(n)
  BY <1>5, GlitchTyped DEF OpenPushPlane, PeerTypeOK
<1>6. CASE Announce(n)
  BY <1>6, GlitchTyped DEF Announce, AnnounceSelf, PeerTypeOK
<1>7. CASE TellPeers(n)
  BY <1>7, <1>w, PushTyped, GlitchTyped DEF TellPeers, PeerTypeOK
<1>8. CASE StartConfWatcher(n)
  BY <1>8, ReadTyped, GlitchTyped DEF StartConfWatcher, PeerTypeOK, ConfRow
<1>9. CASE HasBuilt(n)
  BY <1>9, <1>w, PushTyped, GlitchTyped DEF HasBuilt, RecordSelfHas, PeerTypeOK
<1>10. CASE EndRun(n)
  <2>1. conf' \in [Node -> ConfRow]
    <3>1. [conf[n] EXCEPT !.on = FALSE] \in ConfRow
      <4>1. conf[n] \in ConfRow
        BY DEF PeerTypeOK, ConfRow
      <4> QED BY <4>1 DEF ConfRow
    <3>2. conf' = [conf EXCEPT ![n] = [conf[n] EXCEPT !.on = FALSE]]
      BY <1>10 DEF EndRun
    <3> QED BY <3>1, <3>2, ConfTyped
  <2> QED BY <1>10, <1>w, <2>1, PushTyped, GlitchTyped, ZenonT(60) DEF EndRun, PeerTypeOK, ConfRow
<1>11. CASE StopWatchers(n)
  BY <1>11 DEF StopWatchers, PeerTypeOK
<1>12. CASE Withdraw(n)
  <2>1. heard' \in [Watcher -> [Node -> SUBSET Node]]
    BY <1>12 DEF Withdraw, PeerTypeOK
  <2>2. announced' \subseteq Node /\ recorded' \subseteq Node /\ (Fails \/ Works)
    BY <1>12 DEF Withdraw, WithdrawSelf, PeerTypeOK
  <2> QED BY <1>12, <2>1, <2>2, VanishTyped, GlitchTyped DEF Withdraw, PeerTypeOK, ConfRow
<1>13. CASE Crash(n)
  <2>1. heard' \in [Watcher -> [Node -> SUBSET Node]]
    BY <1>13 DEF Crash, PeerTypeOK
  <2> QED BY <1>13, <2>1, VanishTyped, GlitchTyped DEF Crash, PeerTypeOK, ConfRow
<1>14. CASE FollowDirectory(n)
  BY <1>14, WatchTyped DEF FollowDirectory
<1> QED BY <1>2, <1>3, <1>4, <1>5, <1>6, <1>7, <1>8, <1>9, <1>10, <1>11, <1>12, <1>13, <1>14

\* A run uses generate_signing_key as the race specifies it, so that what is proved
\* of the race holds in a run.
THEOREM RunFollowsRace == Spec => KeySpec
<1>1. Init => KeyInit
  BY DEF Init
<1>2. [Next]_vars => [KeyNext]_keyVars
  BY RunRaces
<1> QED BY <1>1, <1>2, PTL DEF Spec, KeySpec

\* Type correctness of a run on any number of secondaries, whatever fails.
THEOREM RunTyped == Spec => []TypeOK
<1>1. Init => TypeOK
  <2>1. Init => PeerTypeOK
    BY GlitchAssumption DEF Init, PeerInit, PeerTypeOK, NoConf
  <2>2. Init => KeyTypeOK
    BY KeyBoundAssumption DEF Init, KeyInit, KeyTypeOK, KeyStages
  <2> QED BY <2>1, <2>2 DEF Init, TypeOK, Stages
<1>2. TypeOK /\ [Next]_vars => PeerTypeOK' /\ (KeyTypeOK' => TypeOK')
  BY PeerTypeStep, LifeTypeStep DEF TypeOK
<1> QED BY <1>1, <1>2, RunFollowsRace, KeyTypeCorrect, PTL DEF Spec

\* Whatever happens to the runs around it, the nodes that returned from
\* generate_signing_key in on_run_start hold one key.
THEOREM RunAgreesOnKey == Spec => []KeyAgreement
BY RunFollowsRace, OneKey

\* Seen from the runs, with their crashes, restarts and failures, on_run_start chooses
\* one key for the cluster.
THEOREM RunChoosesOneKey == Spec => RefinesClusterKey
BY RunFollowsRace, ChoosesOneKey

-------------------------------------------------------------------------------
\* No push is lost.  A push that reached a live watcher has set its event, the file
\* it tells of is there as long as the push counts, and whatever clears the event
\* reads the directory afterwards.

FilesBehindPushes == \A n \in Node :
  /\ heard["list"][n] \subseteq announced
  /\ heard["placement"][n] \subseteq recorded

\* No node pushes to itself: it is not among its own peers.
NeverOwnPeer == \A n \in Node : n \notin peers[n] /\ n \notin heard["list"][n]

PeersUpToDate == \A n \in Node :
  watch["list"][n] # "off" /\ ~wake["list"][n] => heard["list"][n] \subseteq peers[n]

PlacedUpToDate == \A n \in Node :
  watch["placement"][n] # "off" /\ ~wake["placement"][n] =>
    heard["placement"][n] \subseteq placed[n] \/ glitches > 0

PushInv ==
  /\ TypeOK
  /\ FilesBehindPushes
  /\ NeverOwnPeer
  /\ PeersUpToDate
  /\ PlacedUpToDate

LEMMA RefreshEffect ==
  ASSUME PeerTypeOK, NEW n \in Node, NEW w \in Watcher, NEW reached, RequestRefresh(n, w, reached)
  PROVE  \A v \in Watcher, m \in Node :
           /\ wake[v][m] => wake'[v][m]
           /\ \A p \in heard'[v][m] :
                \/ p \in heard[v][m]
                \/ p = n /\ v = w /\ m \in reached /\ wake'[v][m] /\ HasFile(n, w)
<1> SUFFICES ASSUME NEW v \in Watcher, NEW m \in Node
             PROVE  /\ wake[v][m] => wake'[v][m]
                    /\ \A p \in heard'[v][m] :
                         \/ p \in heard[v][m]
                         \/ p = n /\ v = w /\ m \in reached /\ wake'[v][m] /\ HasFile(n, w)
  OBVIOUS
<1>t. wake \in [Watcher -> [Node -> BOOLEAN]] /\ heard \in [Watcher -> [Node -> SUBSET Node]]
  BY DEF PeerTypeOK
<1>1. CASE v # w
  <2>1. wake'[v] = wake[v] /\ heard'[v] = heard[v]
    BY <1>t, <1>1 DEF RequestRefresh, Hear
  <2> QED BY <1>1, <2>1
<1>2. CASE v = w
  <2>1. wake'[w] = [q \in Node |-> wake[w][q] \/ Told(w, q, reached)]
    BY <1>t DEF RequestRefresh
  <2>2. heard'[w] = [q \in Node |-> IF Told(w, q, reached) /\ HasFile(n, w)
                                     THEN heard[w][q] \cup {n} ELSE heard[w][q]]
    BY <1>t DEF RequestRefresh, Hear
  <2>3. wake'[w][m] = (wake[w][m] \/ Told(w, m, reached))
    BY <2>1
  <2>4. heard'[w][m] = IF Told(w, m, reached) /\ HasFile(n, w) THEN heard[w][m] \cup {n} ELSE heard[w][m]
    BY <2>2
  <2>5. Told(w, m, reached) => m \in reached
    BY DEF Told
  <2> QED BY <1>2, <2>3, <2>4, <2>5
<1> QED BY <1>1, <1>2

\* A push that leaves the snapshots and the threads alone leaves them as up to date
\* as they were: whom it reached it woke.
LEMMA PushKeeps ==
  ASSUME PushInv, PeerTypeOK', NEW n \in Node, NEW w \in Watcher, NEW listening, Push(n, w, listening),
         UNCHANGED <<watch, peers, placed, announced>>, recorded \subseteq recorded',
         w = "placement" => n \in recorded'
  PROVE  FilesBehindPushes' /\ NeverOwnPeer' /\ PeersUpToDate' /\ PlacedUpToDate'
<1>t. PeerTypeOK /\ "list" \in Watcher /\ "placement" \in Watcher
  BY DEF PushInv, TypeOK, Watcher
<1>1. PICK reached \in SUBSET peers[n] : RequestRefresh(n, w, reached)
  BY <1>t DEF Push
<1>2. ASSUME NEW m \in Node
      PROVE  /\ wake["list"][m] => wake'["list"][m]
             /\ \A p \in heard'["list"][m] :
                  \/ p \in heard["list"][m]
                  \/ p = n /\ m \in peers[n] /\ wake'["list"][m] /\ n \in announced
  BY <1>t, <1>1, RefreshEffect DEF HasFile
<1>3. ASSUME NEW m \in Node
      PROVE  /\ wake["placement"][m] => wake'["placement"][m]
             /\ \A p \in heard'["placement"][m] :
                  \/ p \in heard["placement"][m]
                  \/ p = n /\ wake'["placement"][m] /\ n \in recorded'
  BY <1>t, <1>1, RefreshEffect DEF HasFile
<1>4. glitches > 0 => glitches' > 0
  BY <1>t, GlitchAssumption DEF Push, Fails, Works, PeerTypeOK
<1>5. FilesBehindPushes'
  BY <1>2, <1>3 DEF PushInv, FilesBehindPushes
<1>6. NeverOwnPeer'
  BY <1>2 DEF PushInv, NeverOwnPeer
<1>7. PeersUpToDate'
  BY <1>2 DEF PushInv, PeersUpToDate
<1>8. PlacedUpToDate'
  BY <1>3, <1>4 DEF PushInv, PlacedUpToDate
<1> QED BY <1>5, <1>6, <1>7, <1>8

\* Whatever touches none of it.
LEMMA QuietKeeps ==
  ASSUME PushInv, UNCHANGED <<announced, watch, wake, peers, placed, heard>>,
         recorded \subseteq recorded', Fails \/ Works
  PROVE  FilesBehindPushes' /\ NeverOwnPeer' /\ PeersUpToDate' /\ PlacedUpToDate'
<1>1. glitches > 0 => glitches' > 0
  BY GlitchAssumption DEF Fails, Works, PushInv, TypeOK, PeerTypeOK
<1> QED BY <1>1 DEF PushInv, FilesBehindPushes, NeverOwnPeer, PeersUpToDate, PlacedUpToDate

\* A refresh of the list, and one of the placements.
LEMMA ListRefreshKeeps ==
  ASSUME PushInv, NEW n \in Node, RefreshPeers(n), UNCHANGED <<announced, recorded, placed, heard>>,
         \A m \in Node \ {n} : watch'["list"][m] = watch["list"][m] /\ wake'["list"][m] = wake["list"][m],
         watch'["placement"] = watch["placement"], wake'["placement"] = wake["placement"]
  PROVE  FilesBehindPushes' /\ NeverOwnPeer' /\ PeersUpToDate' /\ PlacedUpToDate'
<1>t. peers \in [Node -> SUBSET Node]
  BY DEF PushInv, TypeOK, PeerTypeOK
<1>1. /\ \A m \in Node : peers'[m] = IF m = n THEN announced \ {n} ELSE peers[m]
      /\ glitches' = glitches
  BY <1>t DEF RefreshPeers, ListPeers, Works
<1> QED BY <1>1 DEF PushInv, FilesBehindPushes, NeverOwnPeer, PeersUpToDate, PlacedUpToDate

LEMMA PlacementRefreshKeeps ==
  ASSUME PushInv, NEW n \in Node, RefreshPlacements(n), UNCHANGED <<announced, recorded, peers, heard>>,
         \A m \in Node \ {n} : /\ watch'["placement"][m] = watch["placement"][m]
                              /\ wake'["placement"][m] = wake["placement"][m],
         watch'["list"] = watch["list"], wake'["list"] = wake["list"]
  PROVE  FilesBehindPushes' /\ NeverOwnPeer' /\ PeersUpToDate' /\ PlacedUpToDate'
<1>t. placed \in [Node -> SUBSET Node] /\ glitches \in Nat
  BY GlitchAssumption DEF PushInv, TypeOK, PeerTypeOK
<1>1. PICK unread \in SUBSET recorded :
        /\ IF unread = {} THEN Works ELSE Fails
        /\ placed' = [placed EXCEPT ![n] = ReadPlacements(unread)]
  BY DEF RefreshPlacements
<1>2. /\ \A m \in Node \ {n} : placed'[m] = placed[m]
      /\ placed'[n] = recorded \/ glitches' > 0
      /\ glitches > 0 => glitches' > 0
  BY <1>t, <1>1 DEF ReadPlacements, Works, Fails
<1> QED BY <1>2 DEF PushInv, FilesBehindPushes, NeverOwnPeer, PeersUpToDate, PlacedUpToDate

\* What a node that goes leaves: its watchers are off, and with its files its pushes
\* have been taken back or are both still there.
LEMMA VanishKeeps ==
  ASSUME PushInv, NEW n \in Node, Vanish(n), Fails \/ Works,
         \A w \in Watcher, m \in Node : heard'[w][m] \subseteq heard[w][m],
         \/ UNCHANGED <<announced, recorded>>
         \/ /\ announced \ {n} \subseteq announced' /\ recorded \ {n} \subseteq recorded'
            /\ \A w \in Watcher, m \in Node : n \notin heard'[w][m]
  PROVE  FilesBehindPushes' /\ NeverOwnPeer' /\ PeersUpToDate' /\ PlacedUpToDate'
<1>t. /\ "list" \in Watcher /\ "placement" \in Watcher
      /\ PeerTypeOK
  BY DEF PushInv, TypeOK, Watcher
<1>1. glitches > 0 => glitches' > 0
  BY <1>t, GlitchAssumption DEF Fails, Works, PeerTypeOK
<1>2. /\ \A w \in Watcher, m \in Node : watch'[w][m] = IF m = n THEN "off" ELSE watch[w][m]
      /\ \A w \in Watcher, m \in Node : m # n => wake'[w][m] = wake[w][m]
      /\ \A m \in Node : peers'[m] = IF m = n THEN {} ELSE peers[m]
      /\ \A m \in Node : placed'[m] = IF m = n THEN {} ELSE placed[m]
  BY <1>t DEF Vanish, PeerTypeOK
<1>3. FilesBehindPushes'
  BY <1>t DEF PushInv, FilesBehindPushes
<1>4. NeverOwnPeer'
  BY <1>t, <1>2 DEF PushInv, NeverOwnPeer
<1>5. PeersUpToDate'
  BY <1>t, <1>2 DEF PushInv, PeersUpToDate
<1>6. PlacedUpToDate'
  BY <1>t, <1>1, <1>2 DEF PushInv, PlacedUpToDate
<1> QED BY <1>3, <1>4, <1>5, <1>6

\* A watcher's step: the event is cleared before the directory is read.
LEMMA WatchKeeps ==
  ASSUME PushInv, PeerTypeOK', NEW n \in Node, WatchStep(n)
  PROVE  FilesBehindPushes' /\ NeverOwnPeer' /\ PeersUpToDate' /\ PlacedUpToDate'
<1>t. /\ watch \in [Watcher -> [Node -> {"off", "wait", "busy"}]]
      /\ wake \in [Watcher -> [Node -> BOOLEAN]]
      /\ Watcher = {"list", "placement"}
  BY DEF PushInv, TypeOK, PeerTypeOK, Watcher
<1>1. CASE RunPeerWatcher(n)
  <2>1. /\ \A m \in Node \ {n} : watch'["list"][m] = watch["list"][m] /\ wake'["list"][m] = wake["list"][m]
        /\ watch'["placement"] = watch["placement"] /\ wake'["placement"] = wake["placement"]
    BY <1>t, <1>1 DEF RunPeerWatcher, SetWake, SetWatch
  <2> QED BY <1>1, <2>1, ListRefreshKeeps DEF RunPeerWatcher
<1>2. CASE RunPlacementWatcher(n)
  <2>1. /\ \A m \in Node \ {n} : /\ watch'["placement"][m] = watch["placement"][m]
                                /\ wake'["placement"][m] = wake["placement"][m]
        /\ watch'["list"] = watch["list"] /\ wake'["list"] = wake["list"]
    BY <1>t, <1>2 DEF RunPlacementWatcher, SetWake, SetWatch
  <2> QED BY <1>2, <2>1, PlacementRefreshKeeps DEF RunPlacementWatcher
<1>3. ASSUME NEW w \in Watcher, RestWatcher(w, n)
      PROVE  FilesBehindPushes' /\ NeverOwnPeer' /\ PeersUpToDate' /\ PlacedUpToDate'
  <2>1. \A v \in Watcher, m \in Node : watch'[v][m] # "off" => watch[v][m] # "off"
    BY <1>t, <1>3 DEF RestWatcher, SetWatch
  <2> QED BY <1>t, <1>3, <2>1 DEF RestWatcher, PushInv, FilesBehindPushes, NeverOwnPeer, PeersUpToDate,
      PlacedUpToDate
<1>4. CASE FollowPeers(n)
  BY <1>4, QuietKeeps DEF FollowPeers, RefreshConf
<1> QED BY <1>1, <1>2, <1>3, <1>4 DEF WatchStep

LEMMA PushStep ==
  ASSUME PushInv, PeerTypeOK', [Next]_vars
  PROVE  FilesBehindPushes' /\ NeverOwnPeer' /\ PeersUpToDate' /\ PlacedUpToDate'
<1>1. CASE UNCHANGED vars
  BY <1>1, QuietKeeps DEF vars, Works
<1> SUFFICES ASSUME NEW n \in Node,
                    \/ BeginRun(n) \/ RaceForKey(n) \/ StartListWatcher(n) \/ StartPlacementWatcher(n)
                    \/ OpenPushPlane(n) \/ Announce(n) \/ TellPeers(n) \/ StartStoreServer(n)
                    \/ StartConfWatcher(n) \/ HasBuilt(n) \/ EndRun(n) \/ StopPushPlane(n)
                    \/ StopWatchers(n) \/ Withdraw(n) \/ Crash(n) \/ FollowDirectory(n)
             PROVE  FilesBehindPushes' /\ NeverOwnPeer' /\ PeersUpToDate' /\ PlacedUpToDate'
  BY <1>1, Steps
<1>t. /\ watch \in [Watcher -> [Node -> {"off", "wait", "busy"}]]
      /\ "list" \in Watcher /\ "placement" \in Watcher /\ "list" # "placement"
      /\ announced \subseteq Node
  BY DEF PushInv, TypeOK, PeerTypeOK, Watcher
<1>2. CASE BeginRun(n) \/ RaceForKey(n) \/ StopPushPlane(n) \/ StartStoreServer(n)
  BY <1>2, QuietKeeps DEF BeginRun, RaceForKey, StopPushPlane, StartStoreServer, Works
<1>3. CASE StartListWatcher(n)
  <2>1. CASE StartPeerList(n)
    <3>1. /\ \A m \in Node \ {n} : watch'["list"][m] = watch["list"][m]
          /\ watch'["placement"] = watch["placement"]
      BY <1>t, <2>1 DEF StartPeerList, StartWatcher, SetWatch
    <3> QED BY <1>3, <2>1, <3>1, ListRefreshKeeps DEF StartListWatcher, StartPeerList, StartWatcher
  <2>2. CASE ~StartPeerList(n)
    BY <1>3, <2>2, QuietKeeps DEF StartListWatcher
  <2> QED BY <2>1, <2>2
<1>4. CASE StartPlacementWatcher(n)
  <2>1. CASE n \in PlacementOn
    <3>1. /\ \A m \in Node \ {n} : watch'["placement"][m] = watch["placement"][m]
          /\ watch'["list"] = watch["list"]
      BY <1>t, <1>4, <2>1 DEF StartPlacementWatcher, StartPlacements, StartWatcher, SetWatch
    <3> QED BY <1>4, <2>1, <3>1, PlacementRefreshKeeps DEF StartPlacementWatcher, StartPlacements, StartWatcher
  <2>2. CASE n \notin PlacementOn
    BY <1>4, <2>2, QuietKeeps DEF StartPlacementWatcher
  <2> QED BY <2>1, <2>2
<1>5. CASE OpenPushPlane(n) \/ StartConfWatcher(n)
  BY <1>5, QuietKeeps DEF OpenPushPlane, StartConfWatcher, RefreshConf
<1>6. CASE Announce(n)
  <2>1. announced \subseteq announced' /\ (Fails \/ Works)
        /\ UNCHANGED <<recorded, watch, wake, peers, placed, heard>>
    BY <1>6 DEF Announce, AnnounceSelf
  <2>2. glitches > 0 => glitches' > 0
    BY <2>1, GlitchAssumption DEF Fails, Works, PushInv, TypeOK, PeerTypeOK
  <2> QED BY <2>1, <2>2 DEF PushInv, FilesBehindPushes, NeverOwnPeer, PeersUpToDate, PlacedUpToDate
<1>7. CASE TellPeers(n)
  <2>1. CASE Push(n, "list", Listening(n))
    BY <1>7, <1>t, <2>1, PushKeeps DEF TellPeers
  <2>2. CASE ~Push(n, "list", Listening(n))
    BY <1>7, <2>2, QuietKeeps DEF TellPeers
  <2> QED BY <2>1, <2>2
<1>8. CASE HasBuilt(n)
  <2>1. CASE Push(n, "placement", Listening(n))
    BY <1>8, <1>t, <2>1, PushKeeps DEF HasBuilt, RecordSelfHas
  <2>2. CASE ~Push(n, "placement", Listening(n))
    BY <1>8, <2>2, QuietKeeps DEF HasBuilt, RecordSelfHas
  <2> QED BY <2>1, <2>2
<1>9. CASE EndRun(n)
  <2>1. CASE Push(n, "list", Listening(n) \ {n})
    BY <1>9, <1>t, <2>1, PushKeeps DEF EndRun
  <2>2. CASE ~Push(n, "list", Listening(n) \ {n})
    BY <1>9, <2>2, QuietKeeps DEF EndRun
  <2> QED BY <2>1, <2>2
<1>10. CASE StopWatchers(n)
  <2>1. \A v \in Watcher, m \in Node : watch'[v][m] # "off" => watch[v][m] # "off"
    BY <1>t, <1>10 DEF StopWatchers
  <2> QED BY <1>t, <1>10, <2>1 DEF StopWatchers, PushInv, FilesBehindPushes, NeverOwnPeer, PeersUpToDate,
      PlacedUpToDate
<1>11. CASE Withdraw(n)
  <2>1. \A w \in Watcher, m \in Node : heard'[w][m] = heard[w][m] \ {n}
    BY <1>11 DEF Withdraw
  <2>2. announced \ {n} \subseteq announced' /\ recorded \ {n} \subseteq recorded' /\ (Fails \/ Works)
    BY <1>11 DEF Withdraw, WithdrawSelf
  <2> QED BY <1>11, <2>1, <2>2, VanishKeeps DEF Withdraw
<1>12. CASE Crash(n)
  <2>1. \A w \in Watcher, m \in Node : heard'[w][m] \subseteq heard[w][m]
    BY <1>12 DEF Crash, PushInv, TypeOK, PeerTypeOK
  <2> QED BY <1>12, <2>1, VanishKeeps DEF Crash
<1>13. CASE FollowDirectory(n)
  BY <1>13, WatchKeeps DEF FollowDirectory
<1> QED BY <1>2, <1>3, <1>4, <1>5, <1>6, <1>7, <1>8, <1>9, <1>10, <1>11, <1>12, <1>13

\* No push is lost between two refreshes, for any number of nodes, restarts and
\* failures, wherever it falls in the loop of the watcher it wakes.
THEOREM NoPushLost == Spec => []PushIsNotLost
<1>1. Init /\ TypeOK => PushInv
  BY DEF Init, PeerInit, PushInv, FilesBehindPushes, NeverOwnPeer, PeersUpToDate, PlacedUpToDate, Watcher
<1>2. PushInv /\ [Next]_vars /\ TypeOK' => PushInv'
  BY PushStep DEF PushInv, TypeOK
<1>3. PushInv => PushIsNotLost
  BY DEF PushInv, PeersUpToDate, PlacedUpToDate, PushIsNotLost
<1> QED BY <1>1, <1>2, <1>3, RunTyped, PTL DEF Spec

-------------------------------------------------------------------------------
\* What a node leaves behind.

LEMMA DepartedStep ==
  ASSUME TypeOK, DepartedLeavesNothing, [Next]_vars
  PROVE  DepartedLeavesNothing'
<1>1. CASE UNCHANGED vars
  BY <1>1 DEF vars, DepartedLeavesNothing
<1> SUFFICES ASSUME NEW n \in Node,
                    \/ BeginRun(n) \/ RaceForKey(n) \/ StartListWatcher(n) \/ StartPlacementWatcher(n)
                    \/ OpenPushPlane(n) \/ Announce(n) \/ TellPeers(n) \/ StartStoreServer(n)
                    \/ StartConfWatcher(n) \/ HasBuilt(n) \/ EndRun(n) \/ StopPushPlane(n)
                    \/ StopWatchers(n) \/ Withdraw(n) \/ Crash(n) \/ FollowDirectory(n)
             PROVE  DepartedLeavesNothing'
  BY <1>1, Steps
<1>t. stage \in [Node -> Stages]
  BY DEF TypeOK
<1>2. CASE Withdraw(n)
  <2>1. stage'[n] = "ended" => announced' = announced \ {n} /\ recorded' = recorded \ {n}
    BY <1>t, <1>2, GlitchAssumption DEF Withdraw, WithdrawSelf, Goto, Works, Fails, TypeOK, PeerTypeOK
  <2>2. announced' \subseteq announced /\ recorded' \subseteq recorded
    BY <1>2 DEF Withdraw, WithdrawSelf
  <2>3. \A m \in Node \ {n} : stage'[m] = stage[m]
    BY <1>t, <1>2 DEF Withdraw, Goto
  <2> QED BY <2>1, <2>2, <2>3 DEF DepartedLeavesNothing
<1>3. CASE Announce(n) \/ HasBuilt(n)
  <2>1. announced' \subseteq announced \cup {n} /\ recorded' \subseteq recorded \cup {n}
    BY <1>3 DEF Announce, AnnounceSelf, HasBuilt, RecordSelfHas
  <2>2. stage'[n] # "ended" /\ \A m \in Node \ {n} : stage'[m] = stage[m]
    BY <1>t, <1>3 DEF Announce, HasBuilt, Goto
  <2> QED BY <2>1, <2>2 DEF DepartedLeavesNothing
<1>4. CASE BeginRun(n) \/ RaceForKey(n) \/ StartListWatcher(n) \/ StartPlacementWatcher(n)
           \/ OpenPushPlane(n) \/ TellPeers(n) \/ StartStoreServer(n) \/ StartConfWatcher(n)
           \/ EndRun(n) \/ StopPushPlane(n) \/ StopWatchers(n) \/ Crash(n)
  <2>1. UNCHANGED <<announced, recorded>>
    BY <1>4 DEF BeginRun, RaceForKey, StartListWatcher, StartPlacementWatcher, OpenPushPlane, TellPeers,
       StartStoreServer, StartConfWatcher, EndRun, StopPushPlane, StopWatchers, Crash
  <2>2. \A m \in Node : stage'[m] = "ended" => stage[m] = "ended"
    BY <1>t, <1>4 DEF BeginRun, RaceForKey, StartListWatcher, StartPlacementWatcher, OpenPushPlane,
       TellPeers, StartStoreServer, StartConfWatcher, EndRun, StopPushPlane, StopWatchers, Crash, Goto
  <2> QED BY <2>1, <2>2 DEF DepartedLeavesNothing
<1>5. CASE FollowDirectory(n)
  BY <1>5 DEF FollowDirectory, WatchStep, RunPeerWatcher, RunPlacementWatcher, RestWatcher, FollowPeers,
     DepartedLeavesNothing
<1> QED BY <1>2, <1>3, <1>4, <1>5

\* A node that ended its run has left neither an announcement nor a placement record,
\* whatever failed before: only a failing withdrawal can leave one.
THEOREM NothingLeftBehind == Spec => []DepartedLeavesNothing
<1>1. Init => DepartedLeavesNothing
  BY DEF Init, DepartedLeavesNothing
<1>2. TypeOK /\ DepartedLeavesNothing /\ [Next]_vars => DepartedLeavesNothing'
  BY DepartedStep
<1> QED BY <1>1, <1>2, RunTyped, PTL DEF Spec

=============================================================================
