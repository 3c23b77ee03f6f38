------------------------------- MODULE ClusterKey -------------------------------
(***************************************************************************)
(* What generate_signing_key promises a cluster: one key pair is chosen,   *)
(* once, and whoever holds a key holds that one.  A node may end without.  *)
(***************************************************************************)
CONSTANTS
  Node,
  Pair,    \* the key pairs that nodes may generate
  NoPair

VARIABLES
  chosen,  \* the pair the shared directory stands for, or NoPair
  holding  \* holding[n]: the pair n signs with, or NoPair

keyring == <<chosen, holding>>

Init ==
  /\ chosen = NoPair
  /\ holding = [n \in Node |-> NoPair]

\* The winner publishes its pair and holds it.
Choose(n, k) ==
  /\ chosen = NoPair
  /\ chosen' = k
  /\ holding' = [holding EXCEPT ![n] = k]

Adopt(n) ==
  /\ chosen # NoPair
  /\ holding' = [holding EXCEPT ![n] = chosen]
  /\ UNCHANGED chosen

\* The run ends, or the node dies.
Drop(n) ==
  /\ holding' = [holding EXCEPT ![n] = NoPair]
  /\ UNCHANGED chosen

Next == \E n \in Node :
  \/ \E k \in Pair : Choose(n, k)
  \/ Adopt(n)
  \/ Drop(n)

Spec == Init /\ [][Next]_keyring
=============================================================================
