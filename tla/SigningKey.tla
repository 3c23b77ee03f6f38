------------------------------- MODULE SigningKey -------------------------------
(***************************************************************************)
(* peer_cache.generate_signing_key: the key pair that every node of a run  *)
(* shares through two files of the peers directory.                        *)
(*                                                                         *)
(* All nodes start at once.  Whoever creates the secret file exclusively   *)
(* wins, fills it and then publishes the public half; the others poll for  *)
(* the public half and give up after a while.  Creation and filling of the *)
(* secret are two steps, and a node may die at any of them.                *)
(***************************************************************************)
EXTENDS Naturals, PeersDirectory

CONSTANTS
  MaxBoot,  \* bound: incarnations of a node
  MaxPoll   \* the loser's attempts to read the public half (40 in the code)

ASSUME KeyBoundAssumption == MaxBoot \in Nat /\ MaxPoll \in Nat

\* Each call generates a pair of its own: the node's incarnation names it.
KeyPair == [node : Node, boot : 1..MaxBoot]

VARIABLES
  boot,       \* boot[n]: the incarnation of n, 0 before the first
  keyStage,   \* keyStage[n]: where n is inside generate_signing_key
  keyPolls,   \* keyPolls[n]: reads of the public half so far
  keyHeld     \* keyHeld[n]: the pair returned to n, or NoFile

keyLocal == <<keyStage, keyPolls, keyHeld>>
keyVars == <<boot, keyFiles, keyLocal>>

KeyStages == {"out", "look", "create", "fill", "publish", "poll", "held", "none"}

KeyTypeOK ==
  /\ boot \in [Node -> 0..MaxBoot]
  /\ secretFile \in KeyPair \cup {NoFile, Torn}
  /\ publicFile \in KeyPair \cup {NoFile}
  /\ keyStage \in [Node -> KeyStages]
  /\ keyPolls \in [Node -> 0..MaxPoll]
  /\ keyHeld \in [Node -> KeyPair \cup {NoFile}]

KeyInit ==
  /\ boot = [n \in Node |-> 0]
  /\ secretFile = NoFile
  /\ publicFile = NoFile
  /\ keyStage = [n \in Node |-> "out"]
  /\ keyPolls = [n \in Node |-> 0]
  /\ keyHeld = [n \in Node |-> NoFile]

Own(n) == [node |-> n, boot |-> boot[n]]

KeyMove(n, from, to) ==
  /\ keyStage[n] = from
  /\ keyStage' = [keyStage EXCEPT ![n] = to]

KeyGot(n, pair) == keyHeld' = [keyHeld EXCEPT ![n] = pair]

KeyBegin(n) ==
  /\ KeyMove(n, "out", "look")
  /\ boot[n] < MaxBoot
  /\ boot' = [boot EXCEPT ![n] = @ + 1]
  /\ UNCHANGED <<keyFiles, keyPolls, keyHeld>>

\* The fast path: both files are there and the public one can be read.
KeyFound(n) ==
  /\ KeyMove(n, "look", "held")
  /\ secretFile # NoFile /\ publicFile # NoFile
  /\ KeyGot(n, publicFile)
  /\ UNCHANGED <<boot, keyFiles, keyPolls>>

\* Otherwise (a read error included) the node generates a pair of its own ...
KeyGenerate(n) ==
  /\ KeyMove(n, "look", "create")
  /\ UNCHANGED <<boot, keyFiles, keyPolls, keyHeld>>

\* ... unless there is no nix command, or it fails.
KeyNoNix(n) ==
  /\ KeyMove(n, "look", "none")
  /\ UNCHANGED <<boot, keyFiles, keyPolls, keyHeld>>

\* A mutant: the secret is created without O_EXCL.
KeyWinAnyway(n) ==
  /\ KeyMove(n, "create", "fill")
  /\ secretFile' = Torn
  /\ UNCHANGED <<boot, publicFile, keyPolls, keyHeld>>

\* O_CREAT | O_EXCL: exactly one node creates the secret file.
KeyWin(n) ==
  /\ KeyMove(n, "create", "fill")
  /\ secretFile = NoFile
  /\ secretFile' = Torn
  /\ UNCHANGED <<boot, publicFile, keyPolls, keyHeld>>

\* A mutant: the loser publishes too.
KeyLosePublishes(n) ==
  /\ KeyMove(n, "create", "publish")
  /\ secretFile # NoFile
  /\ UNCHANGED <<boot, keyFiles, keyPolls, keyHeld>>

KeyLose(n) ==
  /\ KeyMove(n, "create", "poll")
  /\ secretFile # NoFile
  /\ UNCHANGED <<boot, keyFiles, keyPolls, keyHeld>>

KeyFill(n) ==
  /\ KeyMove(n, "fill", "publish")
  /\ secretFile' = Own(n)
  /\ UNCHANGED <<boot, publicFile, keyPolls, keyHeld>>

\* The public half is replaced atomically, whatever was there.
KeyPublish(n) ==
  /\ KeyMove(n, "publish", "held")
  /\ publicFile' = Own(n)
  /\ KeyGot(n, Own(n))
  /\ UNCHANGED <<boot, secretFile, keyPolls>>

\* A write of the winner fails: the exception ends the call, the files stay.
KeyWriteFails(n) ==
  /\ \E from \in {"fill", "publish"} : KeyMove(n, from, "none")
  /\ UNCHANGED <<boot, keyFiles, keyPolls, keyHeld>>

KeyReload(n) ==
  /\ KeyMove(n, "poll", "held")
  /\ keyPolls[n] < MaxPoll
  /\ publicFile # NoFile
  /\ KeyGot(n, publicFile)
  /\ keyPolls' = [keyPolls EXCEPT ![n] = 0]
  /\ UNCHANGED <<boot, keyFiles>>

\* A mutant: the loser never stops polling.
KeyPollForever(n) ==
  /\ keyStage[n] = "poll"
  /\ keyPolls' = [keyPolls EXCEPT ![n] = @ + 1]
  /\ UNCHANGED <<boot, keyFiles, keyStage, keyHeld>>

\* Not there yet, or unreadable.
KeyPollAgain(n) ==
  /\ keyStage[n] = "poll"
  /\ keyPolls[n] < MaxPoll
  /\ keyPolls' = [keyPolls EXCEPT ![n] = @ + 1]
  /\ UNCHANGED <<boot, keyFiles, keyStage, keyHeld>>

\* RuntimeError: the race is lost and the winner has not published in time.
KeyGiveUp(n) ==
  /\ KeyMove(n, "poll", "none")
  /\ keyPolls[n] = MaxPoll
  /\ keyPolls' = [keyPolls EXCEPT ![n] = 0]
  /\ UNCHANGED <<boot, keyFiles, keyHeld>>

\* The node dies or ends its run: the files stay in the run's directory.
KeyLeave(n) ==
  /\ keyStage[n] # "out"
  /\ keyStage' = [keyStage EXCEPT ![n] = "out"]
  /\ keyPolls' = [keyPolls EXCEPT ![n] = 0]
  /\ keyHeld' = [keyHeld EXCEPT ![n] = NoFile]
  /\ UNCHANGED <<boot, keyFiles>>

KeyRace(n) ==
  \/ KeyFound(n)
  \/ KeyGenerate(n)
  \/ KeyNoNix(n)
  \/ KeyWin(n)
  \/ KeyLose(n)
  \/ KeyFill(n)
  \/ KeyPublish(n)
  \/ KeyWriteFails(n)
  \/ KeyReload(n)
  \/ KeyPollAgain(n)
  \/ KeyGiveUp(n)

KeyNext == \E n \in Node : KeyBegin(n) \/ KeyRace(n) \/ KeyLeave(n)

KeySpec == KeyInit /\ [][KeyNext]_keyVars

-------------------------------------------------------------------------------
(* At most one winner: while a node is between creating the secret file    *)
(* and publishing, the secret is its own and nobody has published; and     *)
(* once a public half is there it belongs to the complete secret file.     *)
KeyWinnerIsAlone ==
  /\ \A n \in Node : keyStage[n] \in {"fill", "publish"} =>
       /\ publicFile = NoFile
       /\ secretFile = IF keyStage[n] = "fill" THEN Torn ELSE Own(n)
       /\ \A m \in Node \ {n} : keyStage[m] \notin {"fill", "publish"}
  /\ publicFile # NoFile => secretFile = publicFile

(* Whoever returned from generate_signing_key holds the published half of  *)
(* the secret that harmonia signs with: no two nodes trust different keys, *)
(* whoever crashed, came late or lost the race.                            *)
KeyAgreement ==
  \A n \in Node : keyHeld[n] # NoFile =>
    /\ keyHeld[n] = publicFile
    /\ keyHeld[n] = secretFile

(* The race implements the abstract choice of one key.                     *)
Choice == INSTANCE ClusterKey WITH
            Pair <- KeyPair, NoPair <- NoFile,
            chosen <- publicFile, holding <- keyHeld

RefinesClusterKey == Choice!Spec
=============================================================================
