-------------------------------- MODULE PeerWatch --------------------------------
(***************************************************************************)
(* peer_cache and peer_paths: the directory of peers on the shared file    *)
(* system, and the threads of a node that follow it.                       *)
(*                                                                         *)
(* A node announces itself with a file, and records the store paths it has *)
(* in another.  PeerListWatcher and PathPlacementWatcher copy what they    *)
(* read into a snapshot, on a timer or when a push of a peer wakes them;   *)
(* PeerNixConfWatcher copies the first snapshot into the node's nix.conf.  *)
(* The code keeps placements per store path: the module follows one path.  *)
(***************************************************************************)
EXTENDS Naturals, PeersDirectory

CONSTANT MaxGlitch  \* bound: failed calls and crashes in one behaviour

ASSUME GlitchAssumption == MaxGlitch \in Nat

VARIABLES
  watch,      \* watch[w][n]: the thread of watcher w on n: "off", "wait" or "busy"
  wake,       \* wake[w][n]: its wake event
  peers,      \* peers[n]: the snapshot of n's PeerListWatcher
  placed,     \* placed[n]: the snapshot of n's PathPlacementWatcher
  conf,       \* conf[n]: what PeerNixConfWatcher last wrote, and last saw
  heard,      \* history: heard[w][n]: peers whose push about a file of theirs,
              \* for watcher w, reached n
  glitches    \* failed calls and crashes so far

threadVars == <<watch, wake>>
snapVars == <<peers, placed, conf>>
peerVars == <<fileVars, threadVars, snapVars, heard, glitches>>

Watcher == {"list", "placement"}

PeerTypeOK ==
  /\ announced \subseteq Node
  /\ recorded \subseteq Node
  /\ watch \in [Watcher -> [Node -> {"off", "wait", "busy"}]]
  /\ wake \in [Watcher -> [Node -> BOOLEAN]]
  /\ peers \in [Node -> SUBSET Node]
  /\ placed \in [Node -> SUBSET Node]
  /\ conf \in [Node -> [on : BOOLEAN, file : SUBSET Node, seen : SUBSET Node]]
  /\ heard \in [Watcher -> [Node -> SUBSET Node]]
  /\ glitches \in 0..MaxGlitch

\* No snapshot of a node contains the node itself: its own set stands for `None'.
NoConf(n) == [on |-> FALSE, file |-> {}, seen |-> {n}]

PeerInit ==
  /\ announced = {}
  /\ recorded = {}
  /\ watch = [w \in Watcher |-> [n \in Node |-> "off"]]
  /\ wake = [w \in Watcher |-> [n \in Node |-> FALSE]]
  /\ peers = [n \in Node |-> {}]
  /\ placed = [n \in Node |-> {}]
  /\ conf = [n \in Node |-> NoConf(n)]
  /\ heard = [w \in Watcher |-> [n \in Node |-> {}]]
  /\ glitches = 0

Fails == glitches < MaxGlitch /\ glitches' = glitches + 1
Works == UNCHANGED glitches

-------------------------------------------------------------------------------
\* The files.

ListPeers(n) == announced \ {n}

\* announce_self: the file is replaced atomically, or an OSError is logged.
AnnounceSelf(n) ==
  \/ announced' = announced \cup {n} /\ Works
  \/ UNCHANGED announced /\ Fails

\* A mutant: nothing more is done when there was no peer file.
WithdrawListed(n) ==
  \/ n \in announced /\ announced' = announced \ {n} /\ recorded' = recorded \ {n} /\ Works
  \/ n \notin announced /\ UNCHANGED fileVars /\ Works

\* withdraw_self: an error on the first file leaves the second as well, an error
\* on the second leaves that one.
WithdrawSelf(n) ==
  \/ announced' = announced \ {n} /\ recorded' = recorded \ {n} /\ Works
  \/ announced' \in {announced, announced \ {n}} /\ UNCHANGED recorded /\ Fails

\* Placement files that cannot be read count as empty for this refresh.
ReadPlacements(unread) == recorded \ unread

-------------------------------------------------------------------------------
\* Pushes: a POST only sets the wake event of the peer's watcher, which will
\* read the directory by itself.

Told(w, m, reached) == m \in reached /\ watch[w][m] # "off"

\* The push that follows a failed announcement tells of no file.
HasFile(n, w) == w = "list" => n \in announced

Hear(n, w, reached) ==
  heard' = [heard EXCEPT ![w] =
             [m \in Node |-> IF Told(w, m, reached) /\ HasFile(n, w) THEN @[m] \cup {n} ELSE @[m]]]

RequestRefresh(n, w, reached) ==
  /\ wake' = [wake EXCEPT ![w] = [m \in Node |-> @[m] \/ Told(w, m, reached)]]
  /\ Hear(n, w, reached)

\* fan_out_announce, fan_out_withdraw, fan_out_path_have: one POST per peer of
\* the snapshot, each of which may fail.
Push(n, w, listening) ==
  \E lost \in SUBSET (peers[n] \cap listening) :
    /\ IF lost = {} THEN Works ELSE Fails
    /\ RequestRefresh(n, w, (peers[n] \cap listening) \ lost)

-------------------------------------------------------------------------------
\* The watcher threads.

SetWatch(w, n, pc) == watch' = [watch EXCEPT ![w][n] = pc]
SetWake(w, n, on) == wake' = [wake EXCEPT ![w][n] = on]

\* PeerListWatcher._refresh, without the arguments for nix that it publishes.
RefreshPeers(n) == peers' = [peers EXCEPT ![n] = ListPeers(n)] /\ Works

RefreshPlacements(n) ==
  \E unread \in SUBSET recorded :
    /\ IF unread = {} THEN Works ELSE Fails
    /\ placed' = [placed EXCEPT ![n] = ReadPlacements(unread)]

\* A mutant: the tick is gone now that there are pushes.
NeverDue(w, n) == watch[w][n] = "wait" /\ wake[w][n]

\* Woken, or the tick has passed; ticks with nothing new to read are left out.
Due(w, n) ==
  /\ watch[w][n] = "wait"
  /\ \/ wake[w][n]
     \/ IF w = "list" THEN peers[n] # ListPeers(n) ELSE placed[n] # recorded

\* The event is cleared before the directory is read; what the refresh does
\* after that (publish, call back) is the "busy" part.
RunPeerWatcher(n) ==
  /\ Due("list", n)
  /\ SetWake("list", n, FALSE)
  /\ RefreshPeers(n)
  /\ SetWatch("list", n, "busy")
  /\ UNCHANGED <<fileVars, placed, conf, heard>>

RunPlacementWatcher(n) ==
  /\ Due("placement", n)
  /\ SetWake("placement", n, FALSE)
  /\ RefreshPlacements(n)
  /\ SetWatch("placement", n, "busy")
  /\ UNCHANGED <<fileVars, peers, conf, heard>>

\* A mutant: the event is cleared just before the thread waits on it.
RestCleared(w, n) ==
  /\ watch[w][n] = "busy"
  /\ SetWatch(w, n, "wait")
  /\ SetWake(w, n, FALSE)
  /\ UNCHANGED <<fileVars, snapVars, heard, glitches>>

RestWatcher(w, n) ==
  /\ watch[w][n] = "busy"
  /\ SetWatch(w, n, "wait")
  /\ UNCHANGED <<wake, fileVars, snapVars, heard, glitches>>

\* PeerNixConfWatcher._refresh_once: the file is written when the peers have
\* changed, and they count as seen although the write may have failed.
RefreshConf(n) ==
  \/ conf' = [conf EXCEPT ![n] = [on |-> TRUE, file |-> peers[n], seen |-> peers[n]]] /\ Works
  \/ conf' = [conf EXCEPT ![n] = [@ EXCEPT !.on = TRUE, !.seen = peers[n]]] /\ Fails

FollowPeers(n) ==
  /\ conf[n].on
  /\ conf[n].seen # peers[n]
  /\ RefreshConf(n)
  /\ UNCHANGED <<fileVars, threadVars, peers, placed, heard>>

\* Construction primes the snapshot; the thread starts with another refresh,
\* which nothing can have woken: the two are one.
StartWatcher(w, n) == SetWatch(w, n, "busy") /\ UNCHANGED wake

StartPeerList(n) == RefreshPeers(n) /\ StartWatcher("list", n)
StartPlacements(n) == RefreshPlacements(n) /\ StartWatcher("placement", n)

\* record_self_has: append to the file, then tell the peers.
RecordSelfHas(n, listening, toPeers) ==
  /\ recorded' = recorded \cup {n}
  /\ IF toPeers THEN Push(n, "placement", listening)
     ELSE UNCHANGED <<wake, heard>> /\ Works
  /\ UNCHANGED <<announced, watch, snapVars>>

\* The threads, everything in memory and the container's nix.conf go; the
\* files of the shared directory stay.
Vanish(n) ==
  /\ watch' = [w \in Watcher |-> [watch[w] EXCEPT ![n] = "off"]]
  /\ wake' = [w \in Watcher |-> [wake[w] EXCEPT ![n] = FALSE]]
  /\ peers' = [peers EXCEPT ![n] = {}]
  /\ placed' = [placed EXCEPT ![n] = {}]
  /\ conf' = [conf EXCEPT ![n] = NoConf(n)]

WatchStep(n) ==
  \/ RunPeerWatcher(n)
  \/ RunPlacementWatcher(n)
  \/ \E w \in Watcher : RestWatcher(w, n)
  \/ FollowPeers(n)
=============================================================================
