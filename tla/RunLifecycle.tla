------------------------------ MODULE RunLifecycle ------------------------------
(***************************************************************************)
(* SuitTask.on_run_start and on_run_end on every secondary of a run, with  *)
(* the signing key they agree on and the peer services they bring up and   *)
(* take down in a fixed order (SigningKey, PeerWatch).                     *)
(*                                                                         *)
(* Each service may fail to start: the code logs it and goes on without.   *)
(* The exception is a store registration that does not load: on_run_start  *)
(* raises, and cli.cmd_secondary logs that too and runs tasks all the same.*)
(***************************************************************************)
EXTENDS SigningKey, PeerWatch

CONSTANTS
  Hosts,       \* the containers a node may start in
  PlacementOn, \* the nodes on which the placement watcher comes up
  Writable,    \* the nodes whose nix.conf include can be written
  Brittle,     \* the services that may fail to start
  Builders     \* the nodes that may record the path

\* What start_nix_daemon and HarmoniaProcess.start find in a container.
Container == [socket : BOOLEAN, daemon : BOOLEAN, nixStore : BOOLEAN, cacheServer : BOOLEAN,
              registration : {"unset", "missing", "rejected", "valid"}]

ASSUME HostAssumption == Hosts \subseteq Container
ASSUME RoleAssumption == PlacementOn \cup Builders \cup Writable \subseteq Node

VARIABLES
  stage,    \* stage[n]: the next step of n's start or end, or "running"; "ended"
            \* and, when withdraw_self failed, "abandoned"
  service,  \* service[n]: what on_run_start has brought up
  store     \* store[n]: the nix store behind n's daemon

lifeVars == <<stage, service, store>>
vars == <<keyVars, peerVars, lifeVars>>

Starting == {"key", "placement", "open", "announce", "tell", "store", "conf"}
Ending == {"unwire", "quiet", "withdraw"}
Stages == {"down", "running", "ended", "abandoned"} \cup Starting \cup Ending

Services == {"list", "placement", "replication", "push", "harmonia", "conf"}

TypeOK ==
  /\ KeyTypeOK
  /\ PeerTypeOK
  /\ stage \in [Node -> Stages]
  /\ service \in [Node -> SUBSET Services]
  /\ store \in [Node -> {"untouched", "served", "unavailable", "corrupt"}]

Init ==
  /\ KeyInit
  /\ PeerInit
  /\ stage = [n \in Node |-> "down"]
  /\ service = [n \in Node |-> {}]
  /\ store = [n \in Node |-> "untouched"]

Goto(n, from, to) ==
  /\ stage[n] = from
  /\ stage' = [stage EXCEPT ![n] = to]

Up(n, names) == service' = [service EXCEPT ![n] = @ \cup names]
Down(n, names) == service' = [service EXCEPT ![n] = @ \ names]

PushEnabled(n) == keyHeld[n] # NoFile

\* A push is accepted by a listening server that expects the sender's key.
Listening(n) == {m \in Node : "push" \in service[m] /\ keyHeld[m] = keyHeld[n]}

-------------------------------------------------------------------------------
\* on_run_start.

BeginRun(n) ==
  /\ Goto(n, "down", "key")
  /\ KeyBegin(n)
  /\ UNCHANGED <<peerVars, service, store>>

RaceForKey(n) ==
  /\ stage[n] = "key"
  /\ KeyRace(n)
  /\ UNCHANGED <<peerVars, lifeVars>>

\* With or without a key: generate_signing_key never raises out.
StartListWatcher(n) ==
  /\ Goto(n, "key", "placement")
  /\ keyStage[n] \in {"held", "none"}
  /\ \/ StartPeerList(n) /\ Up(n, {"list"})
     \/ "list" \in Brittle /\ Fails /\ UNCHANGED <<threadVars, peers, service>>
  /\ UNCHANGED <<keyVars, fileVars, placed, conf, heard, store>>

StartPlacementWatcher(n) ==
  /\ Goto(n, "placement", "open")
  /\ IF n \in PlacementOn
     THEN StartPlacements(n) /\ Up(n, {"placement"})
     ELSE UNCHANGED <<threadVars, placed, service>> /\ Works
  /\ UNCHANGED <<keyVars, fileVars, peers, conf, heard, store>>

\* Sender, receivers and repair worker need a key and both watchers.
Wired(n) ==
  IF PushEnabled(n) /\ {"list", "placement"} \subseteq service[n] THEN {"replication"} ELSE {}

\* They are made before the push server, whose handlers are bound to them.
OpenPushPlane(n) ==
  /\ Goto(n, "open", "announce")
  /\ IF PushEnabled(n) /\ "list" \in service[n]
     THEN \/ Up(n, Wired(n) \cup {"push"}) /\ Works
          \/ "push" \in Brittle /\ Up(n, Wired(n)) /\ Fails
     ELSE UNCHANGED service /\ Works
  /\ UNCHANGED <<keyVars, fileVars, threadVars, snapVars, heard, store>>

Announce(n) ==
  /\ Goto(n, "announce", "tell")
  /\ AnnounceSelf(n)
  /\ UNCHANGED <<keyVars, recorded, threadVars, snapVars, heard, service, store>>

TellPeers(n) ==
  /\ Goto(n, "tell", "store")
  /\ IF PushEnabled(n) /\ {"list", "push"} \subseteq service[n]
     THEN Push(n, "list", Listening(n))
     ELSE UNCHANGED <<wake, heard>> /\ Works
  /\ UNCHANGED <<keyVars, fileVars, watch, snapVars, service, store>>

\* load_store_db_registration: nothing to load is no error.
RegistrationFails(host) ==
  \/ host.registration \in {"missing", "rejected"}
  \/ host.registration = "valid" /\ ~host.nixStore

\* start_nix_daemon: a daemon that runs already is used as it is; otherwise the
\* registration is loaded before the daemon is looked for.
DaemonOn(host) ==
  IF host.socket THEN "served"
  ELSE IF RegistrationFails(host) THEN "corrupt"
  ELSE IF host.daemon THEN "served" ELSE "unavailable"

\* The daemon and then harmonia, which signs with the secret file.  A
\* registration that does not load is the one error that leaves on_run_start.
StartStoreServer(n) ==
  /\ \E host \in Hosts :
       IF PushEnabled(n)
       THEN /\ store' = [store EXCEPT ![n] = DaemonOn(host)]
            /\ IF DaemonOn(host) = "corrupt"
               THEN Goto(n, "store", "running") /\ UNCHANGED service
               ELSE Goto(n, "store", "conf") /\ Up(n, IF host.cacheServer THEN {"harmonia"} ELSE {})
       ELSE Goto(n, "store", "conf") /\ UNCHANGED <<service, store>>
  /\ UNCHANGED <<keyVars, peerVars>>

StartConfWatcher(n) ==
  /\ Goto(n, "conf", "running")
  /\ IF "list" \in service[n] /\ n \in Writable
     THEN RefreshConf(n) /\ Up(n, {"conf"})
     ELSE UNCHANGED <<conf, service>> /\ Works
  /\ UNCHANGED <<keyVars, fileVars, threadVars, peers, placed, heard, store>>

-------------------------------------------------------------------------------
\* The run itself: tasks record what they build.

HasBuilt(n) ==
  /\ n \in Builders
  /\ stage[n] = "running" /\ n \notin recorded
  /\ RecordSelfHas(n, Listening(n), PushEnabled(n) /\ "list" \in service[n])
  /\ UNCHANGED <<keyVars, conf, lifeVars>>

-------------------------------------------------------------------------------
\* on_run_end: every step is attempted, whatever failed before.

EndRun(n) ==
  /\ Goto(n, "running", "unwire")
  /\ conf' = [conf EXCEPT ![n].on = FALSE]
  /\ IF PushEnabled(n) /\ {"list", "push"} \subseteq service[n]
     THEN Push(n, "list", Listening(n) \ {n})
     ELSE UNCHANGED <<wake, heard>> /\ Works
  /\ Down(n, {"conf"})
  /\ UNCHANGED <<keyVars, fileVars, watch, peers, placed, store>>

\* Sender, receivers and repair worker, and then the server they post through.
StopPushPlane(n) ==
  /\ Goto(n, "unwire", "quiet")
  /\ Down(n, {"replication", "push"})
  /\ UNCHANGED <<keyVars, peerVars, store>>

StopWatchers(n) ==
  /\ Goto(n, "quiet", "withdraw")
  /\ Down(n, {"harmonia", "list", "placement"})
  /\ watch' = [w \in Watcher |-> [watch[w] EXCEPT ![n] = "off"]]
  /\ UNCHANGED <<keyVars, fileVars, wake, snapVars, heard, glitches, store>>

\* What withdraw_self raises is logged.
Withdraw(n) ==
  /\ WithdrawSelf(n)
  /\ Goto(n, "withdraw", IF Works THEN "ended" ELSE "abandoned")
  /\ KeyLeave(n)
  /\ Vanish(n)
  /\ heard' = [w \in Watcher |-> [m \in Node |-> heard[w][m] \ {n}]]
  /\ UNCHANGED <<service, store>>

\* The node dies anywhere and may come back under the same name.
Crash(n) ==
  /\ stage[n] \notin {"down", "ended"}
  /\ Fails
  /\ stage' = [stage EXCEPT ![n] = "down"]
  /\ KeyLeave(n)
  /\ Vanish(n)
  /\ heard' = [w \in Watcher |-> [heard[w] EXCEPT ![n] = {}]]
  /\ Down(n, Services)
  /\ store' = [store EXCEPT ![n] = "untouched"]
  /\ UNCHANGED fileVars

-------------------------------------------------------------------------------
FollowDirectory(n) ==
  /\ WatchStep(n)
  /\ UNCHANGED <<keyVars, lifeVars>>

StartStep(n) ==
  \/ RaceForKey(n)
  \/ StartListWatcher(n)
  \/ StartPlacementWatcher(n)
  \/ OpenPushPlane(n)
  \/ Announce(n)
  \/ TellPeers(n)
  \/ StartStoreServer(n)
  \/ StartConfWatcher(n)

EndStep(n) ==
  \/ StopPushPlane(n)
  \/ StopWatchers(n)
  \/ Withdraw(n)

Next == \E n \in Node :
  \/ BeginRun(n)
  \/ StartStep(n)
  \/ HasBuilt(n)
  \/ EndRun(n)
  \/ EndStep(n)
  \/ FollowDirectory(n)
  \/ Crash(n)

\* The threads of a live node run; nothing makes it crash, build or finish.
Fairness == \A n \in Node :
  /\ WF_vars(StartStep(n))
  /\ WF_vars(RunPeerWatcher(n) /\ UNCHANGED <<keyVars, lifeVars>>)
  /\ WF_vars(RestWatcher("list", n) /\ UNCHANGED <<keyVars, lifeVars>>)
  /\ WF_vars(FollowPeers(n) /\ UNCHANGED <<keyVars, lifeVars>>)

Spec == Init /\ [][Next]_vars /\ Fairness

-------------------------------------------------------------------------------
(* No lost wake-up: a peer whose announcement or placement push reached a  *)
(* node is in the node's snapshot as soon as its watcher is at rest again, *)
(* wherever the push fell in the watcher's loop.  Only a placement file    *)
(* that could not be read makes an exception.                              *)
PushIsNotLost == \A n, m \in Node :
  /\ /\ m \in heard["list"][n] \cap announced
     /\ watch["list"][n] = "wait" /\ ~wake["list"][n]
     => m \in peers[n]
  /\ /\ m \in heard["placement"][n] \cap recorded
     /\ watch["placement"][n] = "wait" /\ ~wake["placement"][n]
     => m \in placed[n] \/ glitches > 0

(* A node that ended its run is neither listed nor counted as a holder,    *)
(* whatever failed before: an announcement, a service, an earlier          *)
(* incarnation.  Only withdraw_self itself can leave a file behind.        *)
DepartedLeavesNothing == \A n \in Node :
  stage[n] = "ended" => n \notin announced \cup recorded

(* The peers reach nix.conf: while a node runs its two followers and none  *)
(* of its writes failed, every announced peer ends up among its            *)
(* substituters, without any push.                                         *)
Following(n) ==
  /\ stage[n] = "running"
  /\ conf[n].on /\ watch["list"][n] # "off"
  /\ conf[n].seen = conf[n].file

Federated == \A n \in Node : \A m \in Node \ {n} :
  Following(n) /\ m \in announced
    ~> m \in conf[n].file \/ m \notin announced \/ ~Following(n)
=============================================================================
