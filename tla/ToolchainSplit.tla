----------------------------- MODULE ToolchainSplit -----------------------------
(***************************************************************************)
(* preflight.compute_toolchain_split and export_toolchain_split: the paths *)
(* of the realised toolchains, divided into those at least two of them     *)
(* share and the rest of each.  Each part becomes an archive, except for a *)
(* rest that is empty.                                                     *)
(***************************************************************************)
EXTENDS Integers, FiniteSets

CONSTANTS
  Toolchain,
  Closure   \* Closure[t]: the store paths toolchain t needs at run time

ASSUME ClosureAssumption == DOMAIN Closure = Toolchain

\* Toolchains that do not answer the requisites query are left out.
Answered(asked) == {t \in asked : Closure[t] # {}}

\* One toolchain alone is common as a whole.
CommonPaths(ts) ==
  LET all == UNION {Closure[t] : t \in ts} IN
  IF Cardinality(ts) = 1 THEN all
  ELSE {p \in all : \E t, u \in ts : t # u /\ p \in Closure[t] \cap Closure[u]}

Delta(ts, t) == Closure[t] \ CommonPaths(ts)

\* The archives written: the common one and a delta per toolchain that has one.
SplitArchives(asked) ==
  LET ts == Answered(asked) IN
  {"common"} \cup {t \in ts : Delta(ts, t) # {}}
=============================================================================
