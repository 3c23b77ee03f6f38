----------------------------- MODULE MCReplication -----------------------------
(* Small instances of Replication for TLC. *)
EXTENDS Replication, TLC

CONSTANTS n1, n2, n3

MCNode == {n1, n2, n3}
MCBuilders == {n1}
MCFaults == FaultKinds \ {"timer"}
MCTimer == {"timer"}
MCCrash == {"crash"}
MCSymmetry == Permutations({n2, n3})
===============================================================================
