----------------------------- MODULE PeersDirectory -----------------------------
(***************************************************************************)
(* ${shared_fs}/peers: the files through which the secondaries of one run  *)
(* know each other.  Two of them hold the halves of the signing key of the *)
(* run (module SigningKey); the others announce a node and the store paths *)
(* it has (module PeerWatch).  They outlive the process that wrote them.   *)
(***************************************************************************)
CONSTANTS
  Node,   \* the secondaries
  NoNode  \* whose a key file is that holds no key

ASSUME NobodyAssumption == NoNode \notin Node

VARIABLES
  secretFile, \* __signing-key
  publicFile, \* __public-key
  announced,  \* the nodes with a file <id>.json
  recorded    \* the nodes whose file _paths_<id>.jsonl names the path

keyFiles == <<secretFile, publicFile>>
fileVars == <<announced, recorded>>

\* What a key file holds besides the pair of a node.
NoFile == [node |-> NoNode, boot |-> 0]
Torn == [node |-> NoNode, boot |-> 1]  \* created, not filled yet
=============================================================================
